-------------------------- MODULE OwnDrivers_proofs --------------------------
(***************************************************************************)
(* Two drivers that share no core. SkollI: what Wait4CNF has handed to     *)
(* a caller stays put, and is the answer to what it asked. AdrasteaI: what *)
(* a function returns is what the module did, and where the driver takes   *)
(* the module to be it is.                                                 *)
(***************************************************************************)
EXTENDS SkollI, AdrasteaI, TLAPS

-----------------------------------------------------------------------------
(* The inductive invariant. The slots and the caller are records whose     *)
(* fields may hold anything. Nothing is lent while a wait goes on, that is *)
(* while slots are emptied: only the first emptying takes back what was    *)
(* lent by the wait before.                                                *)
Shaped ==
    /\ receiveBuffer =
         [i \in SlotsK |-> [isInUse |-> receiveBuffer[i].isInUse,
                            packet  |-> receiveBuffer[i].packet]]
    /\ callerK = [op |-> callerK.op, k |-> callerK.k,
                  at |-> callerK.at, ret |-> callerK.ret]

Held ==
    /\ lent # Nowhere => lent.slot \in SlotsK
    /\ callerK.at \notin {"send", "clear"} => lent = Nowhere

KInv == Shaped /\ Held /\ PacketKept

(* A function that goes on or ends is at the beginning of a step.          *)
LEMMA Continues ==
    ASSUME Shaped, NEW over, NEW ret, PassK(over, ret)
    PROVE  /\ callerK' = [op |-> callerK'.op, k |-> callerK'.k,
                          at |-> callerK'.at, ret |-> callerK'.ret]
           /\ callerK'.at = "send"
<1>1. CASE callerK.k + over >= Len(ScriptK[callerK.op])
  BY <1>1 DEF PassK, EndK, RestingK
<1>2. CASE ~(callerK.k + over >= Len(ScriptK[callerK.op]))
  BY <1>2 DEF PassK, Shaped
<1> QED BY <1>1, <1>2

LEMMA Fails ==
    ASSUME Shaped, FailK
    PROVE  /\ callerK' = [op |-> callerK'.op, k |-> callerK'.k,
                          at |-> callerK'.at, ret |-> callerK'.ret]
           /\ callerK'.at = "send"
<1>1. CASE StepK.do \in {"ping", "order"}
  BY <1>1, Continues DEF FailK, AdvanceK
<1>2. CASE StepK.do = "attempt"
  BY <1>2, Continues DEF FailK
<1>3. CASE StepK.do \notin {"ping", "order", "attempt"}
  <2>1. EndK(FALSE)
    BY <1>3 DEF FailK
  <2> QED BY <2>1 DEF EndK, RestingK
<1> QED BY <1>1, <1>2, <1>3

(* The interrupt fills free slots only.                                    *)
LEMMA Fills ==
    ASSUME KInv, NEW packet, internal_ezsHandler(packet), UNCHANGED <<callerK, lent>>
    PROVE  KInv'
BY DEF KInv, Shaped, Held, PacketKept, internal_ezsHandler, SlotsK

(* Nothing of it changes.                                                  *)
LEMMA Rests ==
    ASSUME KInv, UNCHANGED <<receiveBuffer, callerK, lent>>
    PROVE  KInv'
BY DEF KInv, Shaped, Held, PacketKept

(* A function goes on, the slots as they are.                              *)
LEMMA GoesOn ==
    ASSUME KInv, UNCHANGED <<receiveBuffer, lent>>,
           callerK' = [op |-> callerK'.op, k |-> callerK'.k,
                       at |-> callerK'.at, ret |-> callerK'.ret],
           callerK'.at \in {"send", "clear"}
    PROVE  KInv'
BY DEF KInv, Shaped, Held, PacketKept

(* A wait goes on.                                                         *)
LEMMA Waits ==
    ASSUME KInv, NEW at, MoveK(at), lent' = Nowhere,
           receiveBuffer' = receiveBuffer \/ \E i \in SlotsK : ClearSlotK(i)
    PROVE  KInv'
BY DEF KInv, Shaped, Held, PacketKept, MoveK, ClearSlotK, SlotsK, Nowhere

-----------------------------------------------------------------------------
(* The steps of the main thread.                                           *)
LEMMA SendSafe ==
    ASSUME KInv, Refuse \/ TransmitK \/ TransmitFails
    PROVE  KInv'
<1> USE DEF slots
<1>1. CASE Refuse
  BY <1>1, Fails, GoesOn DEF Refuse, KInv
<1>2. CASE TransmitFails
  BY <1>2, Fails, GoesOn DEF TransmitFails, KInv
<1>3. CASE TransmitK
  <2>1. UNCHANGED <<receiveBuffer, lent>>
    BY <1>3 DEF TransmitK
  <2>2. CASE AdvanceK
    BY <2>1, <2>2, Continues, GoesOn DEF AdvanceK, KInv
  <2>3. CASE MoveK("clear")
    BY <2>1, <2>3, GoesOn DEF MoveK, KInv, Shaped
  <2> QED BY <1>3, <2>2, <2>3 DEF TransmitK
<1> QED BY <1>1, <1>2, <1>3

LEMMA WaitSafe ==
    ASSUME KInv, ClearFirst \/ ClearSecond \/ Expect \/ LookAgain \/ GiveUpK
                   \/ \E i \in SlotsK : Hand(i) \/ Discard(i)
    PROVE  KInv'
<1> USE DEF slots
<1>1. CASE ClearFirst
  BY <1>1, Waits DEF ClearFirst, SlotsK
<1>2. CASE ClearSecond
  <2>1. lent = Nowhere
    BY <1>2 DEF ClearSecond, AtK, KInv, Held
  <2> QED BY <1>2, <2>1, Waits DEF ClearSecond, SlotsK
<1>3. CASE Expect
  <2>1. lent = Nowhere
    BY <1>3 DEF Expect, AtK, KInv, Held
  <2> QED BY <1>3, <2>1, Waits DEF Expect
<1>4. CASE LookAgain
  <2>1. lent = Nowhere
    BY <1>4 DEF LookAgain, AtK, KInv, Held
  <2> QED BY <1>4, <2>1, Waits DEF LookAgain
<1>5. CASE GiveUpK
  BY <1>5, Fails, GoesOn DEF GiveUpK, KInv
<1>6. ASSUME NEW i \in SlotsK, Discard(i)
      PROVE  KInv'
  <2>1. PICK at : MoveK(at) /\ ClearSlotK(i) /\ UNCHANGED lent
    BY <1>6 DEF Discard
  <2>2. lent = Nowhere
    BY <1>6 DEF Discard, LookAt, AtK, KInv, Held
  <2> QED BY <2>1, <2>2, Waits
<1>7. ASSUME NEW i \in SlotsK, Hand(i)
      PROVE  KInv'
  <2>1. /\ receiveBuffer[i].isInUse /\ UNCHANGED receiveBuffer
        /\ lent' = [slot |-> i, packet |-> receiveBuffer[i].packet]
    BY <1>7 DEF Hand
  <2>2. /\ callerK' = [op |-> callerK'.op, k |-> callerK'.k,
                       at |-> callerK'.at, ret |-> callerK'.ret]
        /\ callerK'.at = "send"
    BY <1>7, Continues DEF Hand, SucceedK, KInv
  <2> QED BY <2>1, <2>2 DEF KInv, Shaped, Held, PacketKept
<1> QED BY <1>1, <1>2, <1>3, <1>4, <1>5, <1>6, <1>7

LEMMA DoSafe ==
    ASSUME KInv, OpenK \/ CloseK \/ PulseResetK \/ DriveSPP \/ SetBinary \/ DoFails
    PROVE  KInv'
<1> USE DEF slots
<1> DEFINE AtStep == /\ callerK' = [op |-> callerK'.op, k |-> callerK'.k,
                                    at |-> callerK'.at, ret |-> callerK'.ret]
                     /\ callerK'.at = "send"
<1>1. ASSUME AtStep, receiveBuffer' = Emptied, lent' = Nowhere
      PROVE  KInv'
  <2>1. Shaped'
    <3>1. \A i \in SlotsK : /\ receiveBuffer'[i].isInUse = FALSE
                            /\ receiveBuffer'[i].packet = receiveBuffer[i].packet
      BY <1>1 DEF Emptied
    <3> QED BY <1>1, <3>1 DEF Shaped, Emptied
  <2>2. Held' /\ PacketKept'
    BY <1>1 DEF Held, PacketKept
  <2> QED BY <2>1, <2>2 DEF KInv
<1>2. CASE OpenK
  BY <1>1, <1>2, Continues DEF OpenK, AdvanceK, KInv
<1>3. CASE CloseK \/ PulseResetK \/ DriveSPP \/ SetBinary
  <2>1. AdvanceK /\ UNCHANGED <<receiveBuffer, lent>>
    BY <1>3 DEF CloseK, PulseResetK, DriveSPP, SetBinary
  <2> QED BY <2>1, Continues, GoesOn DEF AdvanceK, KInv
<1>4. CASE DoFails
  <2>1. AtStep
    BY <1>4 DEF DoFails, EndK, RestingK
  <2>2. CASE StepK.what = "open"
    BY <1>1, <1>4, <2>1, <2>2 DEF DoFails
  <2>3. CASE StepK.what # "open"
    BY <1>4, <2>1, <2>3, GoesOn DEF DoFails
  <2> QED BY <2>2, <2>3
<1> QED BY <1>2, <1>3, <1>4

(* The other steps.                                                        *)
LEMMA StepSafe ==
    ASSUME KInv, NextK
    PROVE  KInv'
<1> USE DEF slots
<1>1. ASSUME NEW op \in SkollI_Called[pace], CallK(op)
      PROVE  KInv'
  BY <1>1, GoesOn DEF CallK, RestingK
<1>2. CASE MainK
  BY <1>2, SendSafe, WaitSafe, DoSafe DEF MainK
<1>3. CASE PeerK \/ RestartK
  BY <1>3, Rests DEF PeerK, RestartK
<1>4. ASSUME NEW packet, HandleRxByteK(packet), UNCHANGED <<callerK, lent>>
      PROVE  KInv'
  BY <1>4, Rests, Fills DEF HandleRxByteK
<1>5. CASE ReceiveK
  BY <1>4, <1>5, Rests DEF ReceiveK
<1>6. CASE EventK
  BY <1>4, <1>6 DEF EventK
<1> QED BY <1>1, <1>2, <1>3, <1>5, <1>6 DEF NextK

-----------------------------------------------------------------------------
(* The inductive invariant holds of Skoll_I.c, whatever is called and      *)
(* received, in any order and at any pace.                                 *)
THEOREM Invariance == SpecK => []KInv
<1>1. InitK => KInv
  BY DEF InitK, KInv, Shaped, Held, PacketKept, Unused, RestingK, Nowhere, SlotsK
<1>2. ASSUME KInv, UNCHANGED varsK
      PROVE  KInv'
  BY <1>2, Rests DEF varsK, slots
<1> QED BY <1>1, <1>2, StepSafe, PTL DEF SpecK

(* The packet that a caller of Skoll_I_Wait4CNF holds a pointer to is not  *)
(* written over before it waits again (Skoll_I.c:100-107, :208-230).       *)
THEOREM KeepsPacket == SpecK => []PacketKept
<1>1. KInv => PacketKept
  BY DEF KInv
<1> QED BY Invariance, <1>1, PTL

-----------------------------------------------------------------------------
(* What a caller is told, by a module that answers in time.                *)

(* The steps that wait for a response, and the packets there may be.       *)
AskingK  == CallingK /\ StepK.do \in {"ask", "ping", "attempt"}
Own     == Packet("RESPONSE", StepK.command)
Refusal == Packet("EVENT", "system error")
Event   == Packet("EVENT", "event")

NamesK   == {"ping", "echo", "parse mode", "command", "disconnect", "factory reset",
             "system error", "event"}
PacketsK == [type : {"RESPONSE", "EVENT"}, name : NamesK, call : Nat]

(* A packet of this type is there to be found.                             *)
Got(type) ==
    /\ callerK.at \in Looking
    /\ \E i \in SlotsK : receiveBuffer[i].isInUse /\ receiveBuffer[i].packet.type = type

(* Where a function can be.                                                *)
Places == {"send", "clear", "clear2", "expect"} \cup Looking
Placed ==
    /\ calledK \in Nat /\ willing \in BOOLEAN /\ sent \in Seq(PacketsK)
    /\ pace \in DOMAIN SkollI_Called
    /\ resultK.op # "none" => calledK > 0
    /\ CallingK =>
         /\ calledK > 0
         /\ callerK.op \in DOMAIN ScriptK /\ callerK.k \in 1 .. Len(ScriptK[callerK.op])
         /\ callerK.at \in Places /\ callerK.ret \in BOOLEAN
         /\ StepK.do \in {"do", "order"} => callerK.at = "send"
         /\ callerK.op # "LEPinDisconnect" => callerK.ret

(* What the slots hold, from the first emptying on: no packet of a command *)
(* before, and in the second slot nothing that keeps the response out.     *)
Slotted ==
    CallingK =>
        /\ callerK.at \in {"clear2", "expect"} /\ receiveBuffer[1].isInUse
             => receiveBuffer[1].packet.type = "EVENT"
        /\ callerK.at = "expect" => ~receiveBuffer[2].isInUse
        /\ callerK.at \in Looking =>
             /\ expectedResponseType = StepK.type
             /\ receiveBuffer[2].isInUse => Wants(receiveBuffer[2].packet)
             /\ \A i \in SlotsK :
                  AskingK /\ receiveBuffer[i].isInUse
                    /\ receiveBuffer[i].packet.type = "RESPONSE"
                  => receiveBuffer[i].packet = Own

(* What the module has still to send.                                      *)
Queued ==
    /\ CallingK /\ callerK.k = 1 /\ callerK.at = "send" => sent = <<>>
    /\ CallingK /\ callerK.op \in Configures \cup {"LEPinDisconnect"}
         /\ callerK.at = "send" => sent = <<>>
    /\ AskingK => sent \in {<<>>, <<Own>>, <<Refusal>>}
    /\ AskingK /\ StepK.do = "ping" => sent # <<Refusal>>
    /\ AskingK /\ Got("RESPONSE") => sent = <<>> /\ pending_response = 0
    /\ ~Skoll_I_open =>
         /\ sent = <<>>
         /\ CallingK => callerK.op \in OpensK /\ callerK.k = 1
    /\ ~CallingK /\ resultK.op \in Configures => sent = <<>>

(* A command is pending only as long as an answer to it is under way, as   *)
(* far as the module answers; Configure goes on when none is.              *)
Pending ==
    /\ pending_response \in {0, 1}
    /\ answers /\ pending_response # 0 => \E n \in DOMAIN sent : Settles(sent[n])
    /\ CallingK /\ callerK.op \in Configures /\ StepK.do = "ask" /\ callerK.at = "send"
         => pending_response = 0

(* The module has done what it was asked exactly if the response is here   *)
(* or under way.                                                           *)
Owed == sent = <<Own>> \/ Got("RESPONSE")
Obeyed ==
    /\ CallingK /\ callerK.op \in Configures =>
         (willing <=> (StepK.do = "ask" /\ callerK.at # "send" => Owed))
    /\ AskingK /\ StepK.do # "ping" /\ callerK.at # "send" /\ willing => Owed
    /\ CallingK /\ callerK.op = "LEPinDisconnect" =>
         (callerK.k < 3 \/ (willing /\ answers) => callerK.ret)
    /\ CallingK /\ callerK.op = "FactoryReset" /\ callerK.k = 2 /\ willing /\ answers =>
         Event \in {sent[n] : n \in DOMAIN sent} \/ Got("EVENT")

Told == Placed /\ Slotted /\ Queued /\ Pending /\ Obeyed /\ OwnAnswers
InTime == pace = "in time"
AInv   == InTime => Told

-----------------------------------------------------------------------------
(* The tables.                                                             *)
Five(s, first) ==
    /\ Len(s) = 5 /\ s[1] = first /\ s[2] = Ping /\ s[3] = DoK("binary")
    /\ s[4] = Ask("echo") /\ s[5] = Ask("parse mode")

LEMMA FirstOfFive == ASSUME NEW first PROVE Five(<<first>> \o Configure, first)
<1>1. PICK b, c, d, e : /\ Configure = <<b, c, d, e>> /\ b = Ping /\ c = DoK("binary")
                        /\ d = Ask("echo") /\ e = Ask("parse mode")
  BY DEF Configure
<1>2. PICK S : S = {first, b, c, d, e}
  OBVIOUS
<1>3. <<first>> \in Seq(S) /\ <<b, c, d, e>> \in Seq(S)
  BY <1>2
<1>4. PICK s : s = <<first>> \o <<b, c, d, e>>
  OBVIOUS
<1>5. /\ Len(s) = 5 /\ s[1] = first /\ s[2] = b /\ s[3] = c /\ s[4] = d /\ s[5] = e
  BY <1>3, <1>4
<1> QED BY <1>1, <1>4, <1>5 DEF Five

LEMMA FunctionsK ==
    /\ DOMAIN ScriptK =
         {"InitCommand", "InitTransparent", "Deinit", "PinReset", "ClassicPinDisconnect",
          "LEPinDisconnect", "Command", "FactoryReset", "CheckForPacket"}
    /\ Five(ScriptK["InitCommand"], DoK("open"))
    /\ Five(ScriptK["InitTransparent"], DoK("open"))
    /\ Five(ScriptK["PinReset"], DoK("reset"))
    /\ ScriptK["Deinit"] = <<DoK("close")>>
    /\ ScriptK["ClassicPinDisconnect"] = <<DoK("drive"), DoK("release"), WaitFor("EVENT")>>
    /\ ScriptK["LEPinDisconnect"] = <<DoK("drive"), Attempt("disconnect"), DoK("release")>>
    /\ ScriptK["Command"] = <<Ask("command")>>
    /\ ScriptK["FactoryReset"] = <<Order("factory reset"), WaitFor("EVENT")>>
    /\ ScriptK["CheckForPacket"] = <<WaitFor("ANY")>>
BY FirstOfFive DEF ScriptK

(* What a step is for, by what is done in it.                              *)
Kind(op, k, step, length) ==
    /\ length \in Nat /\ k \in 1 .. length
    /\ step.do \in {"ask", "ping", "attempt", "order", "wait", "do"}
    /\ step.do \in {"ask", "ping", "attempt"} => step.type = "RESPONSE"
    /\ step.do = "ask" =>
         \/ op \in Configures /\ length = 5 /\ k = 4 /\ step.command = "echo"
         \/ op \in Configures /\ length = 5 /\ k = 5 /\ step.command = "parse mode"
         \/ op = "Command" /\ length = 1 /\ k = 1 /\ step.command = "command"
    /\ step.do = "ping" =>
         op \in Configures /\ length = 5 /\ k = 2 /\ step.command = "ping"
    /\ step.do = "attempt" =>
         op = "LEPinDisconnect" /\ length = 3 /\ k = 2 /\ step.command = "disconnect"
    /\ step.do = "order" =>
         op = "FactoryReset" /\ length = 2 /\ k = 1 /\ step.command = "factory reset"
    /\ step.do = "wait" =>
         \/ op = "ClassicPinDisconnect" /\ length = 3 /\ k = 3 /\ step.type = "EVENT"
         \/ op = "FactoryReset" /\ length = 2 /\ k = 2 /\ step.type = "EVENT"
         \/ op = "CheckForPacket" /\ length = 1 /\ k = 1 /\ step.type = "ANY"
    /\ step.do = "do" =>
         \/ op \in OpensK /\ length = 5 /\ k = 1 /\ step.what = "open"
         \/ op = "PinReset" /\ length = 5 /\ k = 1 /\ step.what = "reset"
         \/ op \in Configures /\ length = 5 /\ k = 3 /\ step.what = "binary"
         \/ op = "Deinit" /\ length = 1 /\ k = 1 /\ step.what = "close"
         \/ op \in {"ClassicPinDisconnect", "LEPinDisconnect"} /\ length = 3 /\ k = 1
              /\ step.what = "drive"
         \/ op = "ClassicPinDisconnect" /\ length = 3 /\ k = 2 /\ step.what = "release"
         \/ op = "LEPinDisconnect" /\ length = 3 /\ k = 3 /\ step.what = "release"

LEMMA Kinds ==
    ASSUME NEW op \in DOMAIN ScriptK, NEW k \in 1 .. Len(ScriptK[op])
    PROVE  Kind(op, k, ScriptK[op][k], Len(ScriptK[op]))
<1>1. ASSUME op \in Configures, NEW first, Five(ScriptK[op], first),
             Kind(op, 1, first, 5)
      PROVE  Kind(op, k, ScriptK[op][k], Len(ScriptK[op]))
  <2>5. Len(ScriptK[op]) = 5
    BY <1>1 DEF Five
  <2>1. k = 1 \/ k = 2 \/ k = 3 \/ k = 4 \/ k = 5
    BY <2>5
  <2>2. Kind(op, 2, Ping, 5)
    BY <1>1 DEF Kind, Ping
  <2>3. Kind(op, 3, DoK("binary"), 5)
    BY <1>1 DEF Kind, DoK
  <2>4. Kind(op, 4, Ask("echo"), 5) /\ Kind(op, 5, Ask("parse mode"), 5)
    BY <1>1 DEF Kind, Ask
  <2> QED BY <1>1, <2>1, <2>2, <2>3, <2>4 DEF Five
<1>2. CASE op \in OpensK
  <2>1. Five(ScriptK[op], DoK("open"))
    BY <1>2, FunctionsK DEF OpensK
  <2>2. Kind(op, 1, DoK("open"), 5)
    BY <1>2 DEF Kind, DoK
  <2> QED BY <1>1, <1>2, <2>1, <2>2 DEF Configures
<1>3. CASE op = "PinReset"
  <2>1. Five(ScriptK[op], DoK("reset"))
    BY <1>3, FunctionsK
  <2>2. Kind(op, 1, DoK("reset"), 5)
    BY <1>3 DEF Kind, DoK
  <2> QED BY <1>1, <1>3, <2>1, <2>2 DEF Configures
<1>4. ASSUME NEW a, ScriptK[op] = <<a>>, Kind(op, 1, a, 1)
      PROVE  Kind(op, k, ScriptK[op][k], Len(ScriptK[op]))
  <2>1. Len(ScriptK[op]) = 1 /\ ScriptK[op][1] = a
    BY <1>4
  <2>2. k = 1
    BY <2>1
  <2> QED BY <1>4, <2>1, <2>2
<1>5. ASSUME NEW a, NEW b, ScriptK[op] = <<a, b>>, Kind(op, 1, a, 2), Kind(op, 2, b, 2)
      PROVE  Kind(op, k, ScriptK[op][k], Len(ScriptK[op]))
  <2>1. Len(ScriptK[op]) = 2 /\ ScriptK[op][1] = a /\ ScriptK[op][2] = b
    BY <1>5
  <2>2. k = 1 \/ k = 2
    BY <2>1
  <2> QED BY <1>5, <2>1, <2>2
<1>6. ASSUME NEW a, NEW b, NEW c, ScriptK[op] = <<a, b, c>>,
             Kind(op, 1, a, 3), Kind(op, 2, b, 3), Kind(op, 3, c, 3)
      PROVE  Kind(op, k, ScriptK[op][k], Len(ScriptK[op]))
  <2>1. /\ Len(ScriptK[op]) = 3 /\ ScriptK[op][1] = a /\ ScriptK[op][2] = b
        /\ ScriptK[op][3] = c
    BY <1>6
  <2>2. k = 1 \/ k = 2 \/ k = 3
    BY <2>1
  <2> QED BY <1>6, <2>1, <2>2
<1>7. CASE op \in {"Deinit", "Command", "CheckForPacket"}
  <2>1. CASE op = "Deinit"
    <3>1. Kind(op, 1, DoK("close"), 1)
      BY <2>1 DEF Kind, DoK
    <3> QED BY <1>4, <2>1, <3>1, FunctionsK
  <2>2. CASE op = "Command"
    <3>1. Kind(op, 1, Ask("command"), 1)
      BY <2>2 DEF Kind, Ask
    <3> QED BY <1>4, <2>2, <3>1, FunctionsK
  <2>3. CASE op = "CheckForPacket"
    <3>1. Kind(op, 1, WaitFor("ANY"), 1)
      BY <2>3 DEF Kind, WaitFor
    <3> QED BY <1>4, <2>3, <3>1, FunctionsK
  <2> QED BY <1>7, <2>1, <2>2, <2>3
<1>8. CASE op \in {"ClassicPinDisconnect", "LEPinDisconnect", "FactoryReset"}
  <2>1. CASE op = "ClassicPinDisconnect"
    <3>1. Kind(op, 1, DoK("drive"), 3) /\ Kind(op, 2, DoK("release"), 3)
      BY <2>1 DEF Kind, DoK
    <3>2. Kind(op, 3, WaitFor("EVENT"), 3)
      BY <2>1 DEF Kind, WaitFor
    <3> QED BY <1>6, <2>1, <3>1, <3>2, FunctionsK
  <2>2. CASE op = "LEPinDisconnect"
    <3>1. Kind(op, 1, DoK("drive"), 3) /\ Kind(op, 3, DoK("release"), 3)
      BY <2>2 DEF Kind, DoK
    <3>2. Kind(op, 2, Attempt("disconnect"), 3)
      BY <2>2 DEF Kind, Attempt
    <3> QED BY <1>6, <2>2, <3>1, <3>2, FunctionsK
  <2>3. CASE op = "FactoryReset"
    <3>1. Kind(op, 1, Order("factory reset"), 2)
      BY <2>3 DEF Kind, Order
    <3>2. Kind(op, 2, WaitFor("EVENT"), 2)
      BY <2>3 DEF Kind, WaitFor
    <3> QED BY <1>5, <2>3, <3>1, <3>2, FunctionsK
  <2> QED BY <1>8, <2>1, <2>2, <2>3
<1> QED BY <1>2, <1>3, <1>7, <1>8, FunctionsK DEF OpensK

-----------------------------------------------------------------------------
(* A wait that goes on stays in its step.                                  *)
LEMMA Moves ==
    ASSUME Shaped, NEW at, MoveK(at), UNCHANGED calledK
    PROVE  /\ callerK'.op = callerK.op /\ callerK'.k = callerK.k
           /\ callerK'.ret = callerK.ret /\ callerK'.at = at
           /\ StepK' = StepK /\ (CallingK <=> CallingK') /\ (AskingK <=> AskingK')
           /\ Own' = Own /\ Refusal' = Refusal /\ Event' = Event
<1>1. /\ callerK'.op = callerK.op /\ callerK'.k = callerK.k
      /\ callerK'.ret = callerK.ret /\ callerK'.at = at
  BY DEF Shaped, MoveK
<1> QED BY <1>1 DEF StepK, CallingK, AskingK, Own, Refusal, Event, Packet

(* A function ends.                                                        *)
LEMMA Ended ==
    ASSUME Told, CallingK, NEW ok \in BOOLEAN, EndK(ok), UNCHANGED <<calledK, pace>>,
           willing' \in BOOLEAN, sent' \in Seq(PacketsK), pending_response' \in {0, 1},
           answers' /\ pending_response' # 0 => \E n \in DOMAIN sent' : Settles(sent'[n]),
           ~Skoll_I_open' => sent' = <<>>,
           callerK.op \in Configures => sent' = <<>> /\ ok = willing',
           callerK.op = "Command" /\ ok => lent'.packet = Packet("RESPONSE", "command"),
           callerK.op \in {"Command", "LEPinDisconnect", "FactoryReset"}
             /\ willing' /\ answers' => ok
    PROVE  Told'
<1>1. /\ resultK' = [op |-> callerK.op, ok |-> ok] /\ ~CallingK' /\ ~AskingK'
      /\ callerK'.op = "none"
  BY DEF EndK, RestingK, CallingK, AskingK
<1>2. Placed' /\ Slotted'
  BY <1>1 DEF Told, Placed, Slotted
<1>3. Queued' /\ Obeyed'
  BY <1>1 DEF Queued, Obeyed, Configures, OpensK
<1>4. Pending'
  BY <1>1 DEF Pending, Settles
<1>5. OwnAnswers'
  BY <1>1 DEF OwnAnswers, ResultOfK, Packet
<1> QED BY <1>2, <1>3, <1>4, <1>5 DEF Told

(* A function goes on with a later step.                                   *)
LEMMA GoesOnTo ==
    ASSUME Told, Shaped, CallingK, NEW over \in Nat, NEW ret \in BOOLEAN, PassK(over, ret),
           callerK.k + over < Len(ScriptK[callerK.op]), UNCHANGED <<calledK, pace>>,
           willing' \in BOOLEAN, sent' \in Seq(PacketsK), pending_response' \in {0, 1},
           Skoll_I_open',
           answers' /\ pending_response' # 0 => \E n \in DOMAIN sent' : Settles(sent'[n]),
           callerK.op \in Configures =>
             willing' /\ (callerK.k + over >= 3 => pending_response' = 0),
           callerK.op \in Configures \cup {"LEPinDisconnect"} => sent' = <<>>,
           callerK.op # "LEPinDisconnect" => ret,
           callerK.k + over < 2 \/ (willing' /\ answers') => ret,
           callerK.op = "FactoryReset" /\ willing' /\ answers' =>
             Event \in {sent'[n] : n \in DOMAIN sent'}
    PROVE  Told'
<1>1. PICK op, k, s, n : /\ op = callerK.op /\ k = callerK.k + 1 + over
                         /\ s = ScriptK[op][k] /\ n = Len(ScriptK[op])
  OBVIOUS
<1>2. n \in Nat /\ callerK.k \in 1 .. n /\ op \in DOMAIN ScriptK /\ op # "none"
  BY <1>1 DEF Told, Placed, CallingK
<1>3. k \in 2 .. n
  BY <1>1, <1>2
<1>4. /\ callerK'.op = op /\ callerK'.k = k /\ callerK'.at = "send" /\ callerK'.ret = ret
      /\ UNCHANGED resultK
  <2>1. ~(callerK.k + over >= Len(ScriptK[callerK.op]))
    BY <1>1, <1>2
  <2>2. /\ callerK' = [callerK EXCEPT !.k = @ + 1 + over, !.at = "send", !.ret = ret]
        /\ UNCHANGED resultK
    BY <2>1 DEF PassK
  <2> QED BY <1>1, <2>2 DEF Shaped
<1>5. /\ CallingK' /\ StepK' = s /\ (AskingK' <=> s.do \in {"ask", "ping", "attempt"})
      /\ Event' = Event
  BY <1>1, <1>2, <1>4 DEF CallingK, StepK, AskingK, Event, Packet
<1>6. Kind(op, k, s, n)
  BY <1>1, <1>2, <1>3, Kinds
<1>7. Placed' /\ Slotted'
  BY <1>1, <1>2, <1>3, <1>4, <1>5 DEF Told, Placed, Slotted, Places, Looking
<1>8. Queued'
  <2>1. k # 1 /\ op # "none"
    BY <1>2, <1>3
  <2>2. ~Got("RESPONSE")'
    BY <1>4 DEF Got, Looking
  <2>3. AskingK' => sent' = <<>>
    BY <1>1, <1>5, <1>6, <2>1 DEF Kind
  <2>4. callerK'.op \in Configures \cup {"LEPinDisconnect"} => sent' = <<>>
    BY <1>1, <1>4
  <2>5. callerK'.k # 1
    BY <1>4, <2>1
  <2>6. Skoll_I_open' /\ CallingK'
    BY <1>5
  <2>7. AskingK' => sent' \in {<<>>, <<Own>>', <<Refusal>>'}
    BY <2>3
  <2>8. AskingK' /\ StepK'.do = "ping" => sent' # <<Refusal>>'
    <3>1. <<Refusal>>' # <<>>
      OBVIOUS
    <3> QED BY <2>3, <3>1
  <2> QED BY <2>2, <2>4, <2>5, <2>6, <2>7, <2>8 DEF Queued
<1>9. Pending'
  <2>1. callerK'.op \in Configures /\ StepK'.do = "ask" => pending_response' = 0
    <3>1. op \in Configures /\ s.do = "ask" => callerK.k + over >= 3
      <4>1. op \in Configures /\ s.do = "ask" => k = 4 \/ k = 5
        <5>1. "Command" \notin Configures
          BY DEF Configures, OpensK
        <5> QED BY <1>6, <5>1 DEF Kind
      <4> QED BY <1>1, <1>2, <1>3, <4>1
    <3> QED BY <1>1, <1>4, <1>5, <3>1
  <2> QED BY <2>1 DEF Pending, Settles
<1>10. Obeyed'
  <2>1. callerK'.op \in Configures => willing'
    BY <1>1, <1>4
  <2>2. /\ callerK'.op = "LEPinDisconnect"
        /\ callerK'.k < 3 \/ (willing' /\ answers')
        => callerK'.ret
    <3>1. k < 3 => callerK.k + over < 2
      BY <1>1, <1>2, <1>3
    <3> QED BY <1>4, <3>1
  <2>3. callerK'.op = "FactoryReset" /\ willing' /\ answers' =>
          Event' \in {sent'[m] : m \in DOMAIN sent'}
    BY <1>1, <1>4, <1>5
  <2> QED BY <1>4, <2>1, <2>2, <2>3 DEF Obeyed
<1>11. OwnAnswers'
  BY <1>5 DEF OwnAnswers, ResultOfK
<1> QED BY <1>7, <1>8, <1>9, <1>10, <1>11 DEF Told

-----------------------------------------------------------------------------
(* What a caller is told, step by step. Of a function that is under way:   *)
LEMMA Now ==
    ASSUME Told, CallingK
    PROVE  /\ Kind(callerK.op, callerK.k, StepK, Len(ScriptK[callerK.op]))
           /\ callerK.op \in DOMAIN ScriptK /\ callerK.ret \in BOOLEAN
           /\ callerK.k # 1 \/ callerK.op \notin OpensK => Skoll_I_open
           /\ callerK.op # "LEPinDisconnect" => callerK.ret
<1>1. callerK.op \in DOMAIN ScriptK /\ callerK.k \in 1 .. Len(ScriptK[callerK.op])
  BY DEF Told, Placed
<1>2. Kind(callerK.op, callerK.k, StepK, Len(ScriptK[callerK.op]))
  BY <1>1, Kinds DEF StepK
<1>3. callerK.k # 1 \/ callerK.op \notin OpensK => Skoll_I_open
  BY DEF Told, Queued
<1> QED BY <1>1, <1>2, <1>3 DEF Told, Placed

LEMMA Functions ==
    /\ OpensK = {"InitCommand", "InitTransparent"}
    /\ Configures = {"InitCommand", "InitTransparent", "PinReset"}
BY DEF OpensK, Configures

(* Whether a step is the last one.                                         *)
LEMMA LastStep ==
    ASSUME NEW op, NEW k, NEW step, NEW length, Kind(op, k, step, length)
    PROVE  /\ k \in Nat /\ length \in Nat
           /\ step.do \in {"attempt", "order"} => k + 0 < length
           /\ step.do = "attempt" => op = "LEPinDisconnect" /\ k = 2 /\ ~(k + 0 < 2)
           /\ step.do = "order" => op = "FactoryReset" /\ k = 1 /\ ~(k + 0 >= 3)
           /\ step.do = "ping" =>
                /\ op \in Configures /\ k = 2 /\ k + 0 < length /\ ~(k + 0 >= 3)
                /\ k + 1 < length
           /\ step.do # "do" => op \notin OpensK \/ k # 1
           /\ step.do = "wait" => op \notin Configures /\ k + 0 >= length
           /\ step.do = "ask" =>
                /\ op \in Configures =>
                     /\ k = 4 \/ k = 5
                     /\ k = 4 => k + 0 < length /\ k + 0 >= 3
                     /\ k = 5 => k + 0 >= length
                /\ op \notin Configures => op = "Command" /\ k = 1 /\ k + 0 >= length
<1>1. k \in Nat /\ length \in Nat
  <2>1. length \in Nat /\ k \in 1 .. length
    BY DEF Kind
  <2> QED BY <2>1
<1>2. CASE step.do = "attempt"
  <2>1. op = "LEPinDisconnect" /\ k = 2 /\ length = 3
    BY <1>2 DEF Kind
  <2> QED BY <1>1, <1>2, <2>1
<1>3. CASE step.do = "order"
  <2>1. op = "FactoryReset" /\ k = 1 /\ length = 2
    BY <1>3 DEF Kind
  <2>2. op \notin OpensK /\ ~(k + 0 >= 3) /\ k + 0 < length
    BY <2>1, Functions
  <2> QED BY <1>1, <1>3, <2>1, <2>2
<1>4. CASE step.do = "ping"
  <2>1. op \in Configures /\ k = 2 /\ length = 5
    BY <1>4 DEF Kind
  <2> QED BY <1>1, <1>4, <2>1
<1>5. CASE step.do = "wait"
  <2>1. /\ op \in {"ClassicPinDisconnect", "FactoryReset", "CheckForPacket"}
        /\ k = length
    BY <1>5 DEF Kind
  <2> QED BY <1>1, <1>5, <2>1, Functions
<1>6. CASE step.do = "ask"
  <2>1. \/ op \in Configures /\ length = 5 /\ (k = 4 \/ k = 5)
        \/ op = "Command" /\ length = 1 /\ k = 1
    BY <1>6 DEF Kind
  <2> QED BY <1>1, <1>6, <2>1, Functions
<1>7. CASE step.do = "do"
  BY <1>1, <1>7
<1> QED BY <1>2, <1>3, <1>4, <1>5, <1>6, <1>7 DEF Kind

LEMMA OpenNow ==
    ASSUME Told, CallingK, StepK.do # "do"
    PROVE  Skoll_I_open
<1>1. callerK.op \notin OpensK \/ callerK.k # 1
  BY Now, LastStep
<1> QED BY <1>1, Now

LEMMA Alone == ASSUME NEW p PROVE 1 \in DOMAIN <<p>> /\ <<p>>[1] = p
  OBVIOUS

(* A command is about to be sent: there is nothing still to come.          *)
LEMMA AtSend ==
    ASSUME Told, AtK(Sending, "send")
    PROVE  sent = <<>> /\ Skoll_I_open /\ (pending_response # 0 => ~answers)
<1>1. CallingK /\ callerK.at = "send" /\ StepK.do \in Sending
  BY DEF AtK
<1>2. /\ Skoll_I_open
      /\ callerK.k = 1 \/ callerK.op \in Configures \cup {"LEPinDisconnect"}
  BY <1>1, Now, LastStep, Functions DEF Sending
<1>3. sent = <<>>
  BY <1>1, <1>2 DEF Told, Queued
<1> QED BY <1>2, <1>3 DEF Told, Pending

(* A step fails.                                                           *)
LEMMA Failing ==
    ASSUME Told, Shaped, CallingK, StepK.do # "do", FailK,
           UNCHANGED <<calledK, pace, sent>>, Skoll_I_open', willing' \in BOOLEAN,
           pending_response' \in {0, 1},
           answers' /\ pending_response' # 0 => \E n \in DOMAIN sent' : Settles(sent'[n]),
           callerK.op \in Configures => sent = <<>> /\ (willing' <=> StepK.do = "ping"),
           callerK.op = "LEPinDisconnect" => sent = <<>>,
           callerK.op \in {"Command", "LEPinDisconnect", "FactoryReset"}
             => ~(willing' /\ answers')
    PROVE  Told'
<1>1. Kind(callerK.op, callerK.k, StepK, Len(ScriptK[callerK.op]))
  BY Now
<1>2. /\ sent' \in Seq(PacketsK) /\ callerK.ret \in BOOLEAN
      /\ callerK.op # "LEPinDisconnect" => callerK.ret
  BY DEF Told, Placed
<1>3. CASE StepK.do \in {"ping", "order"}
  <2>1. PassK(0, callerK.ret)
    BY <1>3 DEF FailK, AdvanceK
  <2>2. /\ callerK.k + 0 < Len(ScriptK[callerK.op]) /\ ~(callerK.k + 0 >= 3)
        /\ callerK.op # "LEPinDisconnect"
        /\ StepK.do = "order" => callerK.op = "FactoryReset"
    BY <1>1, <1>3, LastStep, Functions
  <2>3. callerK.op \in Configures => willing'
    BY <1>3, <2>2, Functions
  <2> QED BY <1>2, <2>1, <2>2, <2>3, GoesOnTo
<1>4. CASE StepK.do = "attempt"
  <2>1. PassK(0, FALSE)
    BY <1>4 DEF FailK
  <2>2. /\ callerK.k + 0 < Len(ScriptK[callerK.op]) /\ ~(callerK.k + 0 < 2)
        /\ callerK.op = "LEPinDisconnect"
    BY <1>1, <1>4, LastStep
  <2> QED BY <1>2, <2>1, <2>2, GoesOnTo, Functions
<1>5. CASE StepK.do \in {"ask", "wait"}
  <2>1. EndK(FALSE)
    BY <1>5 DEF FailK
  <2>2. callerK.op \in Configures => sent' = <<>> /\ FALSE = willing'
    BY <1>5
  <2> QED BY <1>2, <2>1, <2>2, Ended
<1> QED BY <1>1, <1>3, <1>4, <1>5 DEF Kind

-----------------------------------------------------------------------------
(* A command is sent, or not.                                              *)
LEMMA NotSent ==
    ASSUME Told, Shaped, Refuse \/ TransmitFails
    PROVE  Told'
<1>1. /\ AtK(Sending, "send") /\ CallingK /\ callerK.at = "send" /\ StepK.do \in Sending
      /\ FailK /\ UNCHANGED <<calledK, pace, sent, Skoll_I_open>>
      /\ StepK.do # "do"
  BY DEF Refuse, TransmitFails, AtK, moduleK, boundsK, Sending
<1>2. sent = <<>> /\ Skoll_I_open /\ (pending_response # 0 => ~answers)
  BY <1>1, AtSend
<1>3. /\ willing \in BOOLEAN /\ pending_response \in {0, 1}
      /\ callerK.op \in Configures /\ StepK.do = "ask" => pending_response = 0
      /\ callerK.op \in Configures /\ StepK.do # "ask" => willing
  BY <1>1 DEF Told, Placed, Pending, Obeyed
<1>4. callerK.op \in Configures => StepK.do \in {"ask", "ping"}
  BY <1>1, Now, LastStep, Functions DEF Sending
<1>5. CASE Refuse
  <2>1. pending_response # 0 /\ UNCHANGED <<pending_response, willing, answers>>
    BY <1>5 DEF Refuse, historyK
  <2> QED BY <1>1, <1>2, <1>3, <1>4, <2>1, Failing
<1>6. CASE TransmitFails
  <2>1. pending_response = 0 /\ pending_response' = pending_response + 1
    BY <1>6 DEF TransmitFails
  <2>2. pending_response' \in {0, 1}
    BY <2>1
  <2>3. willing' = (willing /\ StepK.do = "ping") /\ answers' = FALSE
    BY <1>6 DEF TransmitFails
  <2> QED BY <1>1, <1>2, <1>3, <1>4, <2>2, <2>3, Failing
<1> QED BY <1>5, <1>6

(* Short queues of packets.                                                *)
LEMMA Queues ==
    ASSUME NEW p \in PacketsK, NEW q \in PacketsK
    PROVE  /\ <<>> \in Seq(PacketsK) /\ <<p>> \in Seq(PacketsK) /\ <<p, q>> \in Seq(PacketsK)
           /\ <<>> \o <<p>> \o <<>> = <<p>> /\ <<>> \o <<p>> \o <<q>> = <<p, q>>
           /\ Append(<<>>, p) = <<p>>
           /\ <<p>> # <<>> /\ 1 \in DOMAIN <<p>> /\ <<p>>[1] = p
           /\ <<p, q>> # <<>> /\ 1 \in DOMAIN <<p, q>> /\ <<p, q>>[1] = p
           /\ 2 \in DOMAIN <<p, q>> /\ <<p, q>>[2] = q
           /\ <<p>> = <<q>> => p = q
<1>1. /\ <<>> \in Seq(PacketsK) /\ <<p>> \in Seq(PacketsK) /\ <<q>> \in Seq(PacketsK)
      /\ <<p, q>> \in Seq(PacketsK)
  OBVIOUS
<1>2. <<>> \o <<p>> = <<p>> /\ <<p>> \o <<>> = <<p>> /\ <<p>> \o <<q>> = <<p, q>>
  <2>1. <<>> \o <<p>> = <<p>>
    BY <1>1
  <2>2. <<p>> \o <<>> = <<p>>
    BY <1>1
  <2>3. <<p>> \o <<q>> = <<p, q>>
    <3>1. PICK s : s = <<p>> \o <<q>>
      OBVIOUS
    <3>2. s \in Seq(PacketsK) /\ Len(s) = 2 /\ s[1] = p /\ s[2] = q
      BY <1>1, <3>1
    <3>3. s = <<s[1], s[2]>>
      BY <3>2
    <3> QED BY <3>1, <3>2, <3>3
  <2> QED BY <2>1, <2>2, <2>3
<1>3. Append(<<>>, p) = <<p>>
  OBVIOUS
<1>4. <<p>> # <<>> /\ 1 \in DOMAIN <<p>> /\ <<p>>[1] = p /\ (<<p>> = <<q>> => p = q)
  OBVIOUS
<1>5. /\ <<p, q>> # <<>> /\ 1 \in DOMAIN <<p, q>> /\ <<p, q>>[1] = p
      /\ 2 \in DOMAIN <<p, q>> /\ <<p, q>>[2] = q
  OBVIOUS
<1> QED BY <1>1, <1>2, <1>3, <1>4, <1>5

LEMMA PacketsKnown ==
    ASSUME Told, CallingK, StepK.do \in Sending
    PROVE  /\ Own \in PacketsK /\ Refusal \in PacketsK /\ Event \in PacketsK
           /\ Own # Refusal /\ Settles(Own) /\ Settles(Refusal)
           /\ StepK.do = "ping" <=> StepK.command = "ping"
           /\ StepK.do = "order" <=> StepK.command = "factory reset"
<1>1. PICK op, k, s, n : /\ s = StepK /\ op = callerK.op /\ k = callerK.k
                         /\ n = Len(ScriptK[op])
  OBVIOUS
<1>2. Kind(op, k, s, n) /\ s.do \in Sending
  BY <1>1, Now
<1>3. /\ s.command \in {"echo", "parse mode", "command", "ping", "disconnect",
                        "factory reset"}
      /\ s.do = "ping" <=> s.command = "ping"
      /\ s.do = "order" <=> s.command = "factory reset"
  BY <1>2 DEF Kind, Sending
<1>4. s.command \in NamesK /\ "system error" \in NamesK /\ "event" \in NamesK
  BY <1>3 DEF NamesK
<1>5. PICK c, m : c = calledK /\ c \in Nat /\ m = s.command
  BY DEF Told, Placed
<1>6. /\ Own = [type |-> "RESPONSE", name |-> m, call |-> c]
      /\ Refusal = [type |-> "EVENT", name |-> "system error", call |-> c]
      /\ Event = [type |-> "EVENT", name |-> "event", call |-> c]
  BY <1>1, <1>5 DEF Own, Refusal, Event, Packet
<1>7. Own \in PacketsK /\ Refusal \in PacketsK /\ Event \in PacketsK
  BY <1>4, <1>5, <1>6 DEF PacketsK
<1>8. Own # Refusal /\ Settles(Own) /\ Settles(Refusal)
  BY <1>6 DEF Settles
<1> QED BY <1>1, <1>3, <1>7, <1>8

(* What comes of a command that is sent.                                   *)
LEMMA Hears ==
    ASSUME Told, CallingK, sent = <<>>, HearK(StepK.command), StepK.do \in Sending
    PROVE  /\ sent' \in Seq(PacketsK) /\ willing' \in BOOLEAN
           /\ answers' => 1 \in DOMAIN sent' /\ Settles(sent'[1])
           /\ willing' => willing
           /\ StepK.do = "ping" => (willing' <=> willing)
           /\ StepK.command # "factory reset" =>
                /\ sent' \in {<<>>, <<Own>>, <<Refusal>>}
                /\ StepK.do = "ping" => sent' # <<Refusal>>
                /\ StepK.do # "ping" => (willing' <=> willing /\ sent' = <<Own>>)
           /\ StepK.command = "factory reset" /\ willing' /\ answers' => sent' = <<Own, Event>>
<1>1. PICK own, refusal, event, w, v, t, u :
        /\ own = Own /\ refusal = Refusal /\ event = Event
        /\ w = willing /\ v = willing' /\ t = sent' /\ u = answers'
  OBVIOUS
<1>2. /\ own \in PacketsK /\ refusal \in PacketsK /\ event \in PacketsK
      /\ own # refusal /\ Settles(own) /\ Settles(refusal)
      /\ StepK.do = "ping" <=> StepK.command = "ping"
  BY <1>1, PacketsKnown
<1>3. w \in BOOLEAN
  BY <1>1 DEF Told, Placed
<1>4. /\ <<>> \in Seq(PacketsK) /\ <<own>> \in Seq(PacketsK) /\ <<refusal>> \in Seq(PacketsK)
      /\ <<own, event>> \in Seq(PacketsK)
      /\ <<own>> # <<>> /\ 1 \in DOMAIN <<own>> /\ <<own>>[1] = own
      /\ <<refusal>> # <<>> /\ 1 \in DOMAIN <<refusal>> /\ <<refusal>>[1] = refusal
      /\ 1 \in DOMAIN <<own, event>> /\ <<own, event>>[1] = own
      /\ <<own>> # <<refusal>> /\ Append(<<>>, refusal) = <<refusal>>
      /\ <<>> \o <<own>> \o <<>> = <<own>> /\ <<>> \o <<own>> \o <<event>> = <<own, event>>
  BY <1>2, Queues
<1>5. \/ /\ t = IF StepK.command = "factory reset" THEN <<own, event>> ELSE <<own>>
         /\ v = w
      \/ t = <<refusal>> /\ v = FALSE /\ StepK.command # "ping"
      \/ t = <<>> /\ v = (w /\ StepK.command = "ping") /\ u = FALSE
  <2>1. /\ Packet("RESPONSE", StepK.command) = own
        /\ Packet("EVENT", "system error") = refusal /\ Packet("EVENT", "event") = event
    BY <1>1 DEF Own, Refusal, Event
  <2>2. CASE /\ sent' = sent \o <<Packet("RESPONSE", StepK.command)>>
                          \o (IF StepK.command = "factory reset"
                              THEN <<Packet("EVENT", "event")>> ELSE <<>>)
             /\ UNCHANGED historyK
    BY <1>1, <1>4, <2>1, <2>2 DEF historyK
  <2>3. CASE /\ sent' = Append(sent, Packet("EVENT", "system error"))
             /\ willing' = FALSE /\ StepK.command # "ping"
    BY <1>1, <1>4, <2>1, <2>3
  <2>4. CASE /\ StepK.command # "ping" /\ willing' = FALSE /\ answers' = FALSE
             /\ UNCHANGED sent
    BY <1>1, <1>3, <2>4
  <2>5. CASE /\ willing' = (willing /\ StepK.command = "ping") /\ answers' = FALSE
             /\ UNCHANGED moduleK
    BY <1>1, <2>5 DEF moduleK
  <2> QED BY <2>2, <2>3, <2>4, <2>5 DEF HearK
<1> DEFINE Right ==
         /\ t \in Seq(PacketsK) /\ v \in BOOLEAN
         /\ u => 1 \in DOMAIN t /\ Settles(t[1])
         /\ v => w
         /\ StepK.do = "ping" => (v <=> w)
         /\ StepK.command # "factory reset" =>
              /\ t \in {<<>>, <<own>>, <<refusal>>}
              /\ StepK.do = "ping" => t # <<refusal>>
              /\ StepK.do # "ping" => (v <=> w /\ t = <<own>>)
         /\ StepK.command = "factory reset" /\ v /\ u => t = <<own, event>>
<1>6. ASSUME t = (IF StepK.command = "factory reset" THEN <<own, event>> ELSE <<own>>) /\ v = w
      PROVE  Right
  <2>1. ASSUME StepK.command = "factory reset", t = <<own, event>>, v = w
        PROVE  Right
    BY <1>2, <1>3, <1>4, <2>1 DEF Settles
  <2>2. ASSUME StepK.command # "factory reset", t = <<own>>, v = w
        PROVE  Right
    BY <1>2, <1>3, <1>4, <2>2 DEF Settles
  <2> QED BY <1>6, <2>1, <2>2
<1>7. ASSUME t = <<refusal>> /\ v = FALSE /\ StepK.command # "ping"
      PROVE  Right
  BY <1>2, <1>3, <1>4, <1>7 DEF Settles
<1>8. ASSUME t = <<>> /\ v = (w /\ StepK.command = "ping") /\ u = FALSE
      PROVE  Right
  BY <1>2, <1>3, <1>4, <1>8
<1>9. Right
  BY <1>5, <1>6, <1>7, <1>8
<1> QED BY <1>1, <1>9 DEF Settles

LEMMA Sent ==
    ASSUME Told, Shaped, TransmitK
    PROVE  Told'
<1>1. /\ AtK(Sending, "send") /\ CallingK /\ callerK.at = "send" /\ StepK.do \in Sending
      /\ UNCHANGED <<calledK, pace, Skoll_I_open>> /\ HearK(StepK.command)
      /\ pending_response = 0 /\ pending_response' = pending_response + 1
  BY DEF TransmitK, AtK, boundsK, settingsK
<1>2. sent = <<>> /\ Skoll_I_open
  BY <1>1, AtSend
<1>3. /\ sent' \in Seq(PacketsK) /\ willing' \in BOOLEAN
      /\ answers' => 1 \in DOMAIN sent' /\ Settles(sent'[1])
      /\ willing' => willing
      /\ StepK.do = "ping" => (willing' <=> willing)
      /\ StepK.command # "factory reset" =>
           /\ sent' \in {<<>>, <<Own>>, <<Refusal>>}
           /\ StepK.do = "ping" => sent' # <<Refusal>>
           /\ StepK.do # "ping" => (willing' <=> willing /\ sent' = <<Own>>)
      /\ StepK.command = "factory reset" /\ willing' /\ answers' => sent' = <<Own, Event>>
  BY <1>1, <1>2, Hears
<1>4. /\ pending_response' \in {0, 1}
      /\ answers' /\ pending_response' # 0 => \E n \in DOMAIN sent' : Settles(sent'[n])
  <2>1. answers' => \E n \in DOMAIN sent' : Settles(sent'[n])
    BY <1>3
  <2>2. pending_response' = 1
    BY <1>1
  <2> QED BY <2>1, <2>2
<1>5. CASE StepK.do = "order"
  <2>1. PassK(0, callerK.ret)
    BY <1>5 DEF TransmitK, AdvanceK
  <2>2. /\ callerK.k + 0 < Len(ScriptK[callerK.op]) /\ callerK.op = "FactoryReset"
        /\ callerK.ret \in BOOLEAN /\ callerK.ret
    BY <1>1, <1>5, Now, LastStep
  <2>3. StepK.command = "factory reset"
    BY <1>1, <1>5, Now DEF Kind
  <2>4. willing' /\ answers' => Event \in {sent'[n] : n \in DOMAIN sent'}
    <3>1. ASSUME sent' = <<Own, Event>>
          PROVE  2 \in DOMAIN sent' /\ sent'[2] = Event
      BY <3>1
    <3> QED BY <1>3, <2>3, <3>1
  <2> QED BY <1>1, <1>2, <1>3, <1>4, <2>1, <2>2, <2>4, GoesOnTo, Functions
<1>6. CASE StepK.do # "order"
  <2>1. MoveK("clear") /\ UNCHANGED resultK
    BY <1>6 DEF TransmitK
  <2>2. /\ callerK'.op = callerK.op /\ callerK'.k = callerK.k
        /\ callerK'.ret = callerK.ret /\ callerK'.at = "clear"
        /\ StepK' = StepK /\ (CallingK <=> CallingK') /\ (AskingK <=> AskingK')
        /\ Own' = Own /\ Refusal' = Refusal /\ Event' = Event
    BY <1>1, <2>1, Moves
  <2>3. /\ AskingK /\ StepK.command # "factory reset" /\ callerK.op # "FactoryReset"
        /\ callerK.op \in Configures => StepK.do \in {"ask", "ping"}
    BY <1>1, <1>6, Now, Functions DEF Kind, AskingK, Sending
  <2>4. ~Got("RESPONSE")' /\ ~Got("EVENT")'
    BY <2>2 DEF Got, Looking
  <2>5. Placed'
    BY <1>1, <1>3, <2>1, <2>2, <2>3 DEF Told, Placed, Places, AskingK
  <2>6. Slotted' /\ OwnAnswers'
    BY <1>1, <2>2 DEF Slotted, OwnAnswers, ResultOfK, Looking
  <2>7. Queued'
    BY <1>1, <1>2, <1>3, <2>2, <2>3, <2>4 DEF Queued
  <2>8. Pending'
    BY <1>4, <2>2 DEF Pending, Settles
  <2>9. Obeyed'
    <3>1. /\ callerK.op \in Configures /\ StepK.do # "ask" => willing
          /\ callerK.op \in Configures => willing
          /\ callerK.op = "LEPinDisconnect" =>
               (callerK.k < 3 \/ (willing /\ answers) => callerK.ret)
      BY <1>1 DEF Told, Obeyed
    <3>2. callerK.op = "LEPinDisconnect" => callerK.k < 3
      <4>1. callerK.op = "LEPinDisconnect" => callerK.k = 2
        BY <1>1, <1>6, Now, LastStep, Functions DEF Sending
      <4> QED BY <4>1
    <3>3. Owed' <=> sent' = <<Own>>
      BY <2>2, <2>4 DEF Owed
    <3> QED BY <1>3, <2>2, <2>3, <2>4, <3>1, <3>2, <3>3 DEF Obeyed, AskingK
  <2> QED BY <2>5, <2>6, <2>7, <2>8, <2>9 DEF Told
<1> QED BY <1>5, <1>6

-----------------------------------------------------------------------------
(* A wait goes on.                                                         *)
LEMMA WaitsOn ==
    ASSUME Told, Shaped, CallingK, StepK.do \in Waiting, NEW at \in Places \ {"send"},
           MoveK(at),
           UNCHANGED <<calledK, pace, sent, pending_response, Skoll_I_open, willing, answers,
                       resultK>>,
           callerK.at # "send" \/ StepK.do = "wait",
           Slotted', AskingK => (Got("RESPONSE") <=> Got("RESPONSE")'),
           StepK.do = "wait" /\ StepK.type = "EVENT" /\ Got("EVENT") => Got("EVENT")'
    PROVE  Told'
<1>1. /\ callerK'.op = callerK.op /\ callerK'.k = callerK.k
      /\ callerK'.ret = callerK.ret /\ callerK'.at = at /\ at # "send"
      /\ StepK' = StepK /\ (CallingK <=> CallingK') /\ (AskingK <=> AskingK')
      /\ Own' = Own /\ Refusal' = Refusal /\ Event' = Event
  BY Moves
<1>2. /\ Kind(callerK.op, callerK.k, StepK, Len(ScriptK[callerK.op]))
      /\ StepK.do \notin {"do", "order"}
  BY Now DEF Waiting
<1>3. Placed' /\ OwnAnswers'
  BY <1>1, <1>2 DEF Told, Placed, OwnAnswers, ResultOfK
<1>4. Queued'
  BY <1>1 DEF Told, Queued
<1>5. Pending'
  BY <1>1 DEF Told, Pending, Settles
<1>6. Obeyed'
  <2>1. /\ StepK.do = "ask" => callerK.at # "send"
        /\ AskingK => callerK.at # "send" /\ (Owed' <=> Owed)
    BY <1>1 DEF AskingK, Owed
  <2>2. StepK.do = "ask" => AskingK
    BY DEF AskingK
  <2>3. /\ callerK.op = "FactoryReset" /\ callerK.k = 2
        => StepK.do = "wait" /\ StepK.type = "EVENT"
    BY <1>2, Functions DEF Kind
  <2> QED BY <1>1, <2>1, <2>2, <2>3 DEF Told, Obeyed
<1> QED BY <1>3, <1>4, <1>5, <1>6 DEF Told

(* A slot is emptied, and the others are as they were.                     *)
LEMMA Clears ==
    ASSUME Shaped, NEW i \in SlotsK, ClearSlotK(i)
    PROVE  /\ ~receiveBuffer'[i].isInUse
           /\ \A j \in SlotsK : receiveBuffer'[j].isInUse =>
                /\ receiveBuffer[j].isInUse /\ j # i
                /\ receiveBuffer'[j].packet = receiveBuffer[j].packet
           /\ \A j \in SlotsK \ {i} : receiveBuffer'[j] = receiveBuffer[j]
BY DEF Shaped, ClearSlotK

LEMMA Waited ==
    ASSUME Told, Shaped,
           ClearFirst \/ ClearSecond \/ Expect \/ LookAgain \/ \E i \in SlotsK : Discard(i)
    PROVE  Told'
<1> USE DEF slots, historyK, boundsK, settingsK, moduleK
<1>1. CallingK /\ StepK.do \in Waiting
  BY DEF ClearFirst, ClearSecond, Expect, LookAgain, Discard, LookAt, AtK, Waiting
<1>2. UNCHANGED <<calledK, pace, sent, pending_response, Skoll_I_open, willing, answers,
                  resultK>>
  BY DEF ClearFirst, ClearSecond, Expect, LookAgain, Discard
<1>3. 1 \in SlotsK /\ 2 \in SlotsK /\ \A i \in SlotsK : i = 1 \/ i = 2
  BY DEF SlotsK
<1>4. CASE ClearFirst
  <2>1. MoveK("clear2") /\ ClearSlotK(1)
        /\ callerK.at \in {"send", "clear"} /\ (callerK.at # "send" \/ StepK.do = "wait")
    BY <1>4 DEF ClearFirst, AtK
  <2>2. callerK'.at = "clear2" /\ ~receiveBuffer'[1].isInUse
    BY <1>2, <1>3, <2>1, Moves, Clears
  <2>3. Slotted'
    BY <2>2 DEF Slotted, Looking
  <2>4. /\ ~Got("RESPONSE") /\ ~Got("RESPONSE")' /\ ~Got("EVENT")
        /\ "clear2" \in Places \ {"send"}
    BY <2>1, <2>2 DEF Got, Looking, Places
  <2> QED BY <1>1, <1>2, <2>1, <2>3, <2>4, WaitsOn
<1>5. CASE ClearSecond
  <2>1. MoveK("expect") /\ ClearSlotK(2) /\ callerK.at = "clear2"
    BY <1>5 DEF ClearSecond, AtK
  <2>2. callerK'.at = "expect" /\ ~receiveBuffer'[2].isInUse
    BY <1>2, <1>3, <2>1, Moves, Clears
  <2>3. receiveBuffer'[1].isInUse => receiveBuffer'[1].packet.type = "EVENT"
    BY <1>1, <1>3, <2>1, Clears DEF Told, Slotted
  <2>4. Slotted'
    BY <2>2, <2>3 DEF Slotted, Looking
  <2>5. /\ ~Got("RESPONSE") /\ ~Got("RESPONSE")' /\ ~Got("EVENT")
        /\ "expect" \in Places \ {"send"}
    BY <2>1, <2>2 DEF Got, Looking, Places
  <2> QED BY <1>1, <1>2, <2>1, <2>4, <2>5, WaitsOn
<1>6. CASE Expect
  <2>1. /\ MoveK("look1") /\ callerK.at = "expect" /\ UNCHANGED receiveBuffer
        /\ expectedResponseType' = StepK.type
    BY <1>6 DEF Expect, AtK
  <2>2. callerK'.at = "look1" /\ StepK' = StepK
    BY <1>2, <2>1, Moves
  <2>3. /\ ~receiveBuffer[2].isInUse
        /\ receiveBuffer[1].isInUse => receiveBuffer[1].packet.type = "EVENT"
    BY <1>1, <2>1 DEF Told, Slotted
  <2>4. Slotted'
    BY <1>3, <2>1, <2>2, <2>3 DEF Slotted
  <2>5. /\ ~Got("RESPONSE") /\ ~Got("RESPONSE")' /\ ~Got("EVENT")
        /\ "look1" \in Places \ {"send"}
    BY <1>3, <2>1, <2>3 DEF Got, Looking, Places
  <2> QED BY <1>1, <1>2, <2>1, <2>4, <2>5, WaitsOn
<1>7. CASE LookAgain
  <2>1. MoveK("look1") /\ callerK.at = "time" /\ UNCHANGED <<receiveBuffer, expectedResponseType>>
    BY <1>7 DEF LookAgain, AtK
  <2>2. /\ callerK'.at = "look1" /\ StepK' = StepK /\ (AskingK <=> AskingK') /\ Own' = Own
    BY <1>2, <2>1, Moves
  <2>3. Slotted'
    BY <1>1, <2>1, <2>2 DEF Told, Slotted, Looking, Wants
  <2>4. /\ Got("RESPONSE") <=> Got("RESPONSE")'
        /\ Got("EVENT") => Got("EVENT")'
        /\ "look1" \in Places \ {"send"} /\ callerK.at # "send"
    BY <2>1, <2>2 DEF Got, Looking, Places
  <2> QED BY <1>1, <1>2, <2>1, <2>3, <2>4, WaitsOn
<1>8. ASSUME NEW i \in SlotsK, Discard(i)
      PROVE  Told'
  <2>1. PICK at : MoveK(at) /\ at \in {"look2", "time"}
    BY <1>8 DEF Discard
  <2>2. /\ ClearSlotK(i) /\ UNCHANGED expectedResponseType
        /\ callerK.at \in {"look1", "look2"}
        /\ ~(receiveBuffer[i].isInUse /\ Wants(receiveBuffer[i].packet))
    BY <1>8 DEF Discard, LookAt, AtK
  <2>3. /\ callerK'.at = at /\ StepK' = StepK /\ (AskingK <=> AskingK') /\ Own' = Own
    BY <1>2, <2>1, Moves
  <2>4. /\ \A j \in SlotsK : receiveBuffer'[j].isInUse =>
             /\ receiveBuffer[j].isInUse
             /\ receiveBuffer'[j].packet = receiveBuffer[j].packet
        /\ \A j \in SlotsK : receiveBuffer[j].isInUse /\ Wants(receiveBuffer[j].packet) =>
             /\ receiveBuffer'[j].isInUse
             /\ receiveBuffer'[j].packet = receiveBuffer[j].packet
    BY <2>2, Clears
  <2>5. Slotted'
    BY <1>1, <1>3, <2>1, <2>2, <2>3, <2>4 DEF Told, Slotted, Looking, Wants
  <2>6. callerK.at \in Looking /\ callerK'.at \in Looking /\ at \in Places \ {"send"}
    BY <2>1, <2>2, <2>3 DEF Looking, Places
  <2>7. AskingK => StepK.type = "RESPONSE"
    BY Now DEF Kind, AskingK
  <2>8. \A type : StepK.type = type => (Got(type) <=> Got(type)')
    BY <2>4, <2>6 DEF Got, Wants
  <2> QED BY <1>1, <1>2, <2>1, <2>2, <2>5, <2>6, <2>7, <2>8, WaitsOn
<1> QED BY <1>4, <1>5, <1>6, <1>7, <1>8

-----------------------------------------------------------------------------
(* A wait ends.                                                            *)
LEMMA GivesUp ==
    ASSUME Told, Shaped, InTime, GiveUpK
    PROVE  Told'
<1>1. /\ CallingK /\ callerK.at = "time" /\ StepK.do \in Waiting
      /\ StepK.do # "do" /\ FailK /\ callerK.at \in Looking /\ callerK.at # "send"
      /\ UNCHANGED <<calledK, pace, sent, Skoll_I_open, pending_response, willing, answers>>
  BY DEF GiveUpK, AtK, Waiting, Looking, settingsK, moduleK, historyK, boundsK
<1>2. /\ Kind(callerK.op, callerK.k, StepK, Len(ScriptK[callerK.op]))
      /\ Skoll_I_open
      /\ StepK.do # "wait" => AskingK /\ StepK.type = "RESPONSE"
      /\ callerK.op \in Configures => StepK.do \in {"ask", "ping"}
      /\ callerK.op \in {"Command", "LEPinDisconnect"} => AskingK /\ StepK.do # "ping"
      /\ callerK.op = "FactoryReset" =>
           callerK.k = 2 /\ StepK.do = "wait" /\ StepK.type = "EVENT"
  <2>1. Kind(callerK.op, callerK.k, StepK, Len(ScriptK[callerK.op]))
    BY <1>1, Now
  <2>3. Skoll_I_open
    BY <1>1, OpenNow
  <2> QED BY <1>1, <2>1, <2>3, Functions DEF Kind, Waiting, AskingK
<1>3. /\ \A n \in DOMAIN sent : sent[n].call # calledK
      /\ \A i \in SlotsK : receiveBuffer[i].isInUse => ~Wants(receiveBuffer[i].packet)
  BY DEF InTime, GiveUpK, NothingToComeK
<1>4. \A type : StepK.type = type => ~Got(type)
  BY <1>3 DEF Got, Wants
<1>5. Own.call = calledK /\ Refusal.call = calledK /\ Event.call = calledK
  BY DEF Own, Refusal, Event, Packet
<1>6. AskingK => sent = <<>>
  <2>1. AskingK => sent \in {<<>>, <<Own>>, <<Refusal>>}
    BY DEF Told, Queued
  <2>2. ASSUME NEW p, p.call = calledK
        PROVE  sent # <<p>>
    <3>1. 1 \in DOMAIN <<p>> /\ <<p>>[1] = p
      BY Alone
    <3> QED BY <1>3, <2>2, <3>1
  <2> QED BY <1>5, <2>1, <2>2
<1>7. AskingK => ~Owed
  <2>1. <<Own>> # <<>>
    OBVIOUS
  <2> QED BY <1>2, <1>4, <1>6, <2>1 DEF Owed, AskingK
<1>8. /\ willing \in BOOLEAN /\ pending_response \in {0, 1}
      /\ answers /\ pending_response # 0 => \E n \in DOMAIN sent : Settles(sent[n])
  BY DEF Told, Placed, Pending
<1>9. callerK.op \in Configures => sent = <<>> /\ (willing <=> StepK.do = "ping")
  <2>1. callerK.op \in Configures => AskingK
    BY <1>1, <1>2 DEF AskingK
  <2> QED BY <1>1, <1>2, <1>6, <1>7, <2>1 DEF Told, Obeyed
<1>10. callerK.op \in {"Command", "LEPinDisconnect"} => ~willing
  BY <1>1, <1>2, <1>7 DEF Told, Obeyed
<1>11. callerK.op = "FactoryReset" => ~(willing /\ answers)
  <2>1. Event \notin {sent[n] : n \in DOMAIN sent}
    BY <1>3, <1>5
  <2> QED BY <1>1, <1>2, <1>4, <2>1 DEF Told, Obeyed
<1>12. /\ callerK.op = "LEPinDisconnect" => sent = <<>>
       /\ callerK.op \in {"Command", "LEPinDisconnect", "FactoryReset"}
            => ~(willing /\ answers)
  BY <1>2, <1>6, <1>10, <1>11
<1> QED BY <1>1, <1>2, <1>8, <1>9, <1>12, Failing

LEMMA Handed ==
    ASSUME Told, Shaped, NEW i \in SlotsK, Hand(i)
    PROVE  Told'
<1>1. /\ CallingK /\ callerK.at \in Looking /\ StepK.do \in Waiting
      /\ StepK.do # "do" /\ receiveBuffer[i].isInUse /\ Wants(receiveBuffer[i].packet)
      /\ lent'.packet = receiveBuffer[i].packet
      /\ PassK(IF StepK.do = "ping" THEN 1 ELSE 0, callerK.ret)
      /\ answers' = (answers \/ Setting)
      /\ UNCHANGED <<calledK, pace, sent, Skoll_I_open, pending_response, willing>>
      /\ callerK.at # "send"
  BY DEF Hand, LookAt, AtK, Waiting, Looking, SucceedK, moduleK, boundsK
<1>2. /\ Kind(callerK.op, callerK.k, StepK, Len(ScriptK[callerK.op]))
      /\ Skoll_I_open
      /\ callerK.ret \in BOOLEAN /\ (callerK.op # "LEPinDisconnect" => callerK.ret)
      /\ StepK.do # "wait" => AskingK /\ StepK.type = "RESPONSE"
  <2>1. /\ Kind(callerK.op, callerK.k, StepK, Len(ScriptK[callerK.op]))
        /\ callerK.ret \in BOOLEAN /\ (callerK.op # "LEPinDisconnect" => callerK.ret)
    BY <1>1, Now
  <2>3. Skoll_I_open
    BY <1>1, OpenNow
  <2> QED BY <1>1, <2>1, <2>3 DEF Kind, Waiting, AskingK
<1>3. /\ sent' \in Seq(PacketsK) /\ willing' \in BOOLEAN /\ pending_response' \in {0, 1}
  BY <1>1 DEF Told, Placed, Pending
<1>4. CASE AskingK
  <2>1. receiveBuffer[i].packet = Own /\ Got("RESPONSE") /\ StepK.do \in {"ask", "ping", "attempt"}
    <3>1. receiveBuffer[i].packet.type = "RESPONSE" /\ StepK.do \in {"ask", "ping", "attempt"}
      BY <1>1, <1>2, <1>4 DEF Wants, AskingK
    <3> QED BY <1>1, <1>4, <3>1 DEF Told, Slotted, Got
  <2>2. sent = <<>> /\ pending_response = 0 /\ Owed
    BY <1>4, <2>1 DEF Told, Queued, Owed
  <2>3. callerK.op \in Configures => willing
    BY <1>1, <2>2 DEF Told, Obeyed
  <2>4. CASE StepK.do = "ask" /\ callerK.op \in Configures
    <3>1. PassK(0, callerK.ret) /\ callerK.op # "LEPinDisconnect"
      BY <1>1, <2>4, Functions
    <3>2. CASE callerK.k + 0 < Len(ScriptK[callerK.op])
      BY <1>1, <1>2, <1>3, <2>2, <2>3, <2>4, <3>1, <3>2, GoesOnTo, Functions
    <3>3. CASE callerK.k + 0 >= Len(ScriptK[callerK.op])
      <4>1. EndK(callerK.ret) /\ callerK.ret = TRUE /\ willing' = TRUE
        BY <1>1, <1>2, <1>3, <2>3, <2>4, <3>1, <3>3 DEF PassK
      <4> QED BY <1>1, <1>2, <1>3, <2>2, <2>4, <4>1, Ended, Functions
    <3> QED BY <1>2, <2>4, <3>2, <3>3, LastStep
  <2>5. CASE StepK.do = "ask" /\ callerK.op \notin Configures
    <3>1. PassK(0, callerK.ret)
      BY <1>1, <2>5
    <3>2. callerK.k + 0 >= Len(ScriptK[callerK.op]) /\ callerK.op = "Command"
      BY <1>2, <2>5, LastStep
    <3>3. EndK(callerK.ret) /\ callerK.ret
      BY <1>2, <3>1, <3>2 DEF PassK
    <3>4. StepK.command = "command"
      BY <1>2, <2>5, <3>2, Functions DEF Kind
    <3>5. lent'.packet = Packet("RESPONSE", "command")
      BY <1>1, <2>1, <3>4 DEF Own
    <3> QED BY <1>1, <1>2, <1>3, <2>2, <2>5, <3>2, <3>3, <3>5, Ended
  <2>6. CASE StepK.do = "ping"
    <3>1. PassK(1, callerK.ret)
      BY <1>1, <2>6
    <3>2. /\ callerK.k + 1 < Len(ScriptK[callerK.op]) /\ callerK.op \in Configures
          /\ callerK.op # "LEPinDisconnect" /\ callerK.op # "FactoryReset"
      BY <1>2, <2>6, LastStep, Functions
    <3> QED BY <1>1, <1>2, <1>3, <2>2, <2>3, <3>1, <3>2, GoesOnTo
  <2>7. CASE StepK.do = "attempt"
    <3>1. PassK(0, callerK.ret)
      BY <1>1, <2>7
    <3>2. /\ callerK.k + 0 < Len(ScriptK[callerK.op]) /\ callerK.op = "LEPinDisconnect"
          /\ callerK.k = 2
      BY <1>2, <2>7, LastStep
    <3>3. callerK.ret
      <4>1. callerK.k < 3
        BY <3>2
      <4> QED BY <1>1, <3>2, <4>1 DEF Told, Obeyed
    <3> QED BY <1>1, <1>2, <1>3, <2>2, <3>1, <3>2, <3>3, GoesOnTo, Functions
  <2> QED BY <2>1, <2>4, <2>5, <2>6, <2>7
<1>5. CASE StepK.do = "wait"
  <2>1. PassK(0, callerK.ret) /\ (answers' <=> answers)
    BY <1>1, <1>5 DEF Setting
  <2>2. /\ callerK.k + 0 >= Len(ScriptK[callerK.op]) /\ callerK.op \notin Configures
        /\ callerK.op # "Command" /\ callerK.op # "LEPinDisconnect"
    <3>1. /\ callerK.k + 0 >= Len(ScriptK[callerK.op]) /\ callerK.op \notin Configures
      BY <1>2, <1>5, LastStep
    <3> QED BY <1>2, <1>5, <3>1 DEF Kind
  <2>3. EndK(callerK.ret) /\ callerK.ret
    BY <1>2, <2>1, <2>2 DEF PassK
  <2>4. answers' /\ pending_response' # 0 => \E n \in DOMAIN sent' : Settles(sent'[n])
    BY <1>1, <2>1 DEF Told, Pending
  <2>5. ~Skoll_I_open' => sent' = <<>>
    BY <1>1, <1>2
  <2> QED BY <1>1, <1>2, <1>3, <2>2, <2>3, <2>4, <2>5, Ended
<1> QED BY <1>2, <1>4, <1>5

-----------------------------------------------------------------------------
(* The other steps of a function.                                          *)
LEMMA DoStep ==
    ASSUME NEW op, NEW k, NEW step, NEW length, Kind(op, k, step, length), step.do = "do"
    PROVE  /\ step.what = "open" => op \in OpensK /\ k = 1 /\ k + 0 < length /\ ~(k + 0 >= 3)
           /\ step.what = "reset" => op = "PinReset" /\ k + 0 < length /\ ~(k + 0 >= 3) /\ k = 1
           /\ step.what = "binary" => op \in Configures /\ k + 0 < length /\ k = 3
           /\ step.what = "close" => op = "Deinit" /\ k + 0 >= length /\ k = 1
           /\ step.what \in {"drive", "release"} =>
                \/ op = "ClassicPinDisconnect" /\ k + 0 < length
                \/ op = "LEPinDisconnect" /\ k = 1 /\ k + 0 < length
                \/ op = "LEPinDisconnect" /\ k = 3 /\ k + 0 >= length
<1>1. k \in Nat /\ length \in Nat
  BY LastStep
<1>2. \/ op \in OpensK /\ length = 5 /\ k = 1 /\ step.what = "open"
      \/ op = "PinReset" /\ length = 5 /\ k = 1 /\ step.what = "reset"
      \/ op \in Configures /\ length = 5 /\ k = 3 /\ step.what = "binary"
      \/ op = "Deinit" /\ length = 1 /\ k = 1 /\ step.what = "close"
      \/ op \in {"ClassicPinDisconnect", "LEPinDisconnect"} /\ length = 3 /\ k = 1
           /\ step.what = "drive"
      \/ op = "ClassicPinDisconnect" /\ length = 3 /\ k = 2 /\ step.what = "release"
      \/ op = "LEPinDisconnect" /\ length = 3 /\ k = 3 /\ step.what = "release"
  BY DEF Kind
<1>3. CASE op \in OpensK /\ length = 5 /\ k = 1 /\ step.what = "open"
  BY <1>3
<1>4. CASE op = "PinReset" /\ length = 5 /\ k = 1 /\ step.what = "reset"
  BY <1>4
<1>5. CASE op \in Configures /\ length = 5 /\ k = 3 /\ step.what = "binary"
  BY <1>5
<1>6. CASE op = "Deinit" /\ length = 1 /\ k = 1 /\ step.what = "close"
  BY <1>6
<1>7. CASE /\ op \in {"ClassicPinDisconnect", "LEPinDisconnect"} /\ length = 3 /\ k = 1
           /\ step.what = "drive"
  BY <1>7
<1>8. CASE /\ op = "ClassicPinDisconnect" /\ length = 3 /\ k = 2 /\ step.what = "release"
  BY <1>8
<1>9. CASE op = "LEPinDisconnect" /\ length = 3 /\ k = 3 /\ step.what = "release"
  BY <1>9
<1> QED BY <1>2, <1>3, <1>4, <1>5, <1>6, <1>7, <1>8, <1>9

LEMMA AtADo ==
    ASSUME Told, AtK({"do"}, "send")
    PROVE  /\ CallingK /\ callerK.at = "send" /\ StepK.do = "do"
           /\ Kind(callerK.op, callerK.k, StepK, Len(ScriptK[callerK.op]))
           /\ callerK.ret \in BOOLEAN /\ (callerK.op # "LEPinDisconnect" => callerK.ret)
           /\ callerK.k # 1 \/ callerK.op \notin OpensK => Skoll_I_open
           /\ callerK.k = 1 \/ callerK.op \in Configures \cup {"LEPinDisconnect"} => sent = <<>>
           /\ callerK.op \in Configures => willing
           /\ willing \in BOOLEAN /\ pending_response \in {0, 1} /\ sent \in Seq(PacketsK)
           /\ answers /\ pending_response # 0 => \E n \in DOMAIN sent : Settles(sent[n])
<1>1. CallingK /\ callerK.at = "send" /\ StepK.do = "do"
  BY DEF AtK
<1>2. callerK.k = 1 \/ callerK.op \in Configures \cup {"LEPinDisconnect"} => sent = <<>>
  BY <1>1 DEF Told, Queued
<1>3. callerK.op \in Configures => willing
  BY <1>1 DEF Told, Obeyed
<1> QED BY <1>1, <1>2, <1>3, Now DEF Told, Placed, Pending

LEMMA DoneFails ==
    ASSUME Told, Shaped, DoFails
    PROVE  Told'
<1>1. /\ AtK({"do"}, "send") /\ EndK(FALSE) /\ willing' = FALSE /\ answers' = FALSE
      /\ UNCHANGED <<calledK, pace, sent, Skoll_I_open>>
      /\ pending_response' = IF StepK.what = "binary" THEN 0 ELSE pending_response
  BY DEF DoFails, moduleK
<1>2. /\ CallingK /\ sent' \in Seq(PacketsK) /\ pending_response' \in {0, 1}
      /\ callerK.op \in Configures => sent' = <<>>
      /\ ~Skoll_I_open' => sent' = <<>>
  <2>1. ~Skoll_I_open => sent = <<>>
    BY DEF Told, Queued
  <2> QED BY <1>1, <2>1, AtADo
<1> QED BY <1>1, <1>2, Ended

LEMMA Opened ==
    ASSUME Told, Shaped, OpenK
    PROVE  Told'
<1>1. /\ AtK({"do"}, "send") /\ StepK.what = "open" /\ PassK(0, callerK.ret)
      /\ UNCHANGED <<calledK, pace, sent, pending_response, willing, answers>>
      /\ Skoll_I_open' = TRUE
  BY DEF OpenK, AtDo, AdvanceK, moduleK, historyK, boundsK
<1>2. /\ callerK.op \in OpensK /\ callerK.k = 1 /\ ~(callerK.k + 0 >= 3)
      /\ callerK.k + 0 < Len(ScriptK[callerK.op])
  BY <1>1, AtADo, DoStep
<1>3. /\ callerK.op \in Configures /\ callerK.op # "FactoryReset"
      /\ callerK.op # "LEPinDisconnect"
  BY <1>2, Functions
<1>4. /\ CallingK /\ sent' = <<>> /\ sent' \in Seq(PacketsK) /\ callerK.ret \in BOOLEAN
      /\ willing' /\ willing' \in BOOLEAN /\ pending_response' \in {0, 1} /\ callerK.ret
      /\ answers' /\ pending_response' # 0 => \E n \in DOMAIN sent' : Settles(sent'[n])
  BY <1>1, <1>2, <1>3, AtADo
<1> QED BY <1>1, <1>2, <1>3, <1>4, GoesOnTo

LEMMA Closed ==
    ASSUME Told, Shaped, CloseK
    PROVE  Told'
<1>1. /\ AtK({"do"}, "send") /\ StepK.what = "close" /\ PassK(0, callerK.ret)
      /\ UNCHANGED <<calledK, pace, sent, pending_response, willing, answers>>
  BY DEF CloseK, AtDo, AdvanceK, moduleK, historyK, boundsK
<1>2. /\ callerK.op = "Deinit" /\ callerK.k + 0 >= Len(ScriptK[callerK.op])
      /\ callerK.op \notin Configures /\ callerK.k = 1
  BY <1>1, AtADo, DoStep, Functions
<1>3. EndK(callerK.ret)
  BY <1>1, <1>2 DEF PassK
<1>4. /\ CallingK /\ sent' = <<>> /\ sent' \in Seq(PacketsK) /\ callerK.ret \in BOOLEAN
      /\ willing' \in BOOLEAN /\ pending_response' \in {0, 1}
      /\ answers' /\ pending_response' # 0 => \E n \in DOMAIN sent' : Settles(sent'[n])
  BY <1>1, <1>2, AtADo
<1> QED BY <1>1, <1>2, <1>3, <1>4, Ended

LEMMA WasReset ==
    ASSUME Told, Shaped, PulseResetK
    PROVE  Told'
<1>1. /\ AtK({"do"}, "send") /\ StepK.what = "reset" /\ PassK(0, callerK.ret)
      /\ UNCHANGED <<calledK, pace, Skoll_I_open, pending_response, willing, answers>>
      /\ sent' = <<>>
  BY DEF PulseResetK, RestartedK, AtDo, AdvanceK, settingsK, historyK, boundsK
<1>2. /\ callerK.op = "PinReset" /\ callerK.k = 1 /\ ~(callerK.k + 0 >= 3)
      /\ callerK.k + 0 < Len(ScriptK[callerK.op])
  BY <1>1, AtADo, DoStep
<1>3. /\ callerK.op \in Configures /\ callerK.op \notin OpensK
  BY <1>2, Functions
<1>4. /\ CallingK /\ sent = <<>> /\ sent' \in Seq(PacketsK) /\ callerK.ret \in BOOLEAN
      /\ willing' /\ willing' \in BOOLEAN /\ pending_response' \in {0, 1} /\ callerK.ret
      /\ answers' /\ pending_response' # 0 => \E n \in DOMAIN sent' : Settles(sent'[n])
      /\ Skoll_I_open'
  BY <1>1, <1>2, <1>3, AtADo
<1> QED BY <1>1, <1>2, <1>3, <1>4, GoesOnTo

LEMMA WasSet ==
    ASSUME Told, Shaped, SetBinary
    PROVE  Told'
<1>1. /\ AtK({"do"}, "send") /\ StepK.what = "binary" /\ PassK(0, callerK.ret)
      /\ UNCHANGED <<calledK, pace, sent, Skoll_I_open, willing, answers>>
      /\ pending_response' = 0
  BY DEF SetBinary, AtDo, AdvanceK, settingsK, historyK, boundsK
<1>2. /\ callerK.op \in Configures /\ callerK.k = 3
      /\ callerK.k + 0 < Len(ScriptK[callerK.op])
      /\ callerK.op # "FactoryReset" /\ callerK.op # "LEPinDisconnect"
  BY <1>1, AtADo, DoStep, Functions
<1>3. /\ CallingK /\ sent' = <<>> /\ sent' \in Seq(PacketsK) /\ callerK.ret \in BOOLEAN
      /\ willing' /\ willing' \in BOOLEAN /\ pending_response' \in {0, 1} /\ callerK.ret
      /\ Skoll_I_open'
  BY <1>1, <1>2, AtADo
<1> QED BY <1>1, <1>2, <1>3, GoesOnTo

LEMMA Driven ==
    ASSUME Told, Shaped, DriveSPP
    PROVE  Told'
<1>1. /\ AtK({"do"}, "send") /\ StepK.what \in {"drive", "release"}
      /\ PassK(0, callerK.ret)
      /\ UNCHANGED <<calledK, pace, pending_response, Skoll_I_open, willing, answers>>
      /\ channelK' = (channelK /\ callerK.op # "ClassicPinDisconnect")
      /\ sent' = IF channelK /\ ~channelK' THEN Append(sent, Packet("EVENT", "event"))
                 ELSE sent
  BY DEF DriveSPP, AtDo, AdvanceK, historyK, boundsK
<1>2. \/ callerK.op = "ClassicPinDisconnect" /\ callerK.k + 0 < Len(ScriptK[callerK.op])
      \/ callerK.op = "LEPinDisconnect" /\ callerK.k = 1
           /\ callerK.k + 0 < Len(ScriptK[callerK.op])
      \/ callerK.op = "LEPinDisconnect" /\ callerK.k = 3
           /\ callerK.k + 0 >= Len(ScriptK[callerK.op])
  BY <1>1, AtADo, DoStep
<1>3. /\ callerK.op \notin Configures /\ callerK.op \notin OpensK
  BY <1>2, Functions
<1>4. /\ CallingK /\ sent \in Seq(PacketsK) /\ callerK.ret \in BOOLEAN
      /\ callerK.op # "LEPinDisconnect" => callerK.ret
      /\ willing' \in BOOLEAN /\ pending_response' \in {0, 1}
      /\ answers' /\ pending_response' # 0 => \E n \in DOMAIN sent : Settles(sent[n])
      /\ Skoll_I_open' /\ Skoll_I_open
      /\ callerK.op = "LEPinDisconnect" => sent = <<>>
  BY <1>1, <1>3, AtADo
<1>5. callerK.op = "LEPinDisconnect" => sent' = <<>>
  BY <1>1, <1>4
<1>6. /\ sent' \in Seq(PacketsK)
      /\ \A n \in DOMAIN sent : n \in DOMAIN sent' /\ sent'[n] = sent[n]
  <2>1. PICK p : p = Packet("EVENT", "event") /\ p \in PacketsK
    <3>1. PICK c : c = calledK /\ c \in Nat
      BY DEF Told, Placed
    <3>2. "event" \in NamesK /\ "EVENT" \in {"RESPONSE", "EVENT"}
      BY DEF NamesK
    <3>3. [type |-> "EVENT", name |-> "event", call |-> c] \in PacketsK
      BY <3>1, <3>2 DEF PacketsK
    <3> QED BY <3>1, <3>3 DEF Packet
  <2>2. CASE sent' = Append(sent, p)
    BY <1>4, <2>1, <2>2
  <2>3. CASE sent' = sent
    BY <1>4, <2>3
  <2> QED BY <1>1, <2>1, <2>2, <2>3
<1>7. answers' /\ pending_response' # 0 => \E n \in DOMAIN sent' : Settles(sent'[n])
  BY <1>4, <1>6 DEF Settles
<1>8. CASE callerK.op = "ClassicPinDisconnect" /\ callerK.k + 0 < Len(ScriptK[callerK.op])
  BY <1>1, <1>3, <1>4, <1>6, <1>7, <1>8, GoesOnTo
<1>9. CASE /\ callerK.op = "LEPinDisconnect" /\ callerK.k = 1
           /\ callerK.k + 0 < Len(ScriptK[callerK.op])
  <2>1. callerK.ret
    <3>1. callerK.k < 3
      BY <1>9
    <3> QED BY <1>4, <1>9, <3>1 DEF Told, Obeyed
  <2> QED BY <1>1, <1>3, <1>4, <1>5, <1>6, <1>7, <1>9, <2>1, GoesOnTo
<1>10. CASE /\ callerK.op = "LEPinDisconnect" /\ callerK.k = 3
            /\ callerK.k + 0 >= Len(ScriptK[callerK.op])
  <2>1. EndK(callerK.ret)
    BY <1>1, <1>10 DEF PassK
  <2>2. willing' /\ answers' => callerK.ret
    BY <1>1, <1>4, <1>10 DEF Told, Obeyed
  <2> QED BY <1>1, <1>3, <1>4, <1>5, <1>6, <1>7, <1>10, <2>1, <2>2, Ended
<1> QED BY <1>2, <1>8, <1>9, <1>10

-----------------------------------------------------------------------------
(* What happens beside the main thread.                                    *)
LEMMA Beside ==
    ASSUME Told, UNCHANGED <<callerK, calledK, pace, Skoll_I_open, resultK, lent>>,
           Slotted', sent' \in Seq(PacketsK), willing' \in BOOLEAN,
           pending_response' \in {0, 1}, pending_response = 0 => pending_response' = 0,
           answers' /\ pending_response' # 0 => \E n \in DOMAIN sent' : Settles(sent'[n]),
           willing' => willing, answers' => answers,
           sent = <<>> => sent' = <<>> /\ (calledK > 0 => willing' = willing),
           AskingK =>
             /\ sent' \in {<<>>, sent}
             /\ Got("RESPONSE")' => sent' = <<>> /\ pending_response' = 0
             /\ StepK.do = "ping" => willing' = willing
             /\ StepK.do # "ping" => \/ willing' = willing /\ (Owed' <=> Owed)
                                     \/ ~willing' /\ ~Owed',
           CallingK /\ StepK.do = "wait" /\ StepK.type = "EVENT" /\ willing'
             /\ (Event \in {sent[n] : n \in DOMAIN sent} \/ Got("EVENT"))
             => Event \in {sent'[n] : n \in DOMAIN sent'} \/ Got("EVENT")'
    PROVE  Told'
<1>1. /\ StepK' = StepK /\ (CallingK' <=> CallingK) /\ (AskingK' <=> AskingK)
      /\ Own' = Own /\ Refusal' = Refusal /\ Event' = Event
  BY DEF StepK, CallingK, AskingK, Own, Refusal, Event, Packet
<1>2. CallingK =>
        /\ callerK.op = "FactoryReset" /\ callerK.k = 2
           => StepK.do = "wait" /\ StepK.type = "EVENT"
        /\ callerK.op \in Configures =>
             StepK.do \in {"ask", "ping"} \/ callerK.at = "send"
  <2>1. ASSUME CallingK
        PROVE  Kind(callerK.op, callerK.k, StepK, Len(ScriptK[callerK.op]))
    BY <2>1, Now
  <2>2. ASSUME CallingK, callerK.op = "FactoryReset", callerK.k = 2
        PROVE  StepK.do = "wait" /\ StepK.type = "EVENT"
    BY <2>1, <2>2, Functions DEF Kind
  <2>3. ASSUME CallingK, callerK.op \in Configures
        PROVE  StepK.do \in {"ask", "ping"} \/ callerK.at = "send"
    <3>1. StepK.do \in {"ask", "ping", "do"}
      BY <2>1, <2>3, Functions DEF Kind
    <3> QED BY <2>3, <3>1 DEF Told, Placed
  <2> QED BY <2>2, <2>3
<1>3. CallingK => calledK > 0
  BY DEF Told, Placed
<1>4. Placed'
  BY <1>1 DEF Told, Placed
<1>5. Queued'
  <2>1. AskingK => sent' \in {<<>>, <<Own>>, <<Refusal>>}
                  /\ (StepK.do = "ping" => sent' # <<Refusal>>)
    <3>1. <<>> # <<Refusal>>
      OBVIOUS
    <3> QED BY <3>1 DEF Told, Queued
  <2> QED BY <1>1, <2>1 DEF Told, Queued
<1>6. Pending'
  BY <1>1 DEF Told, Pending, Settles
<1>7. Obeyed'
  <2>1. CallingK /\ callerK.op \in Configures =>
          (willing' <=> (StepK.do = "ask" /\ callerK.at # "send" => Owed'))
    <3>1. ASSUME CallingK, callerK.op \in Configures, callerK.at = "send"
          PROVE  willing' = willing
      BY <1>3, <3>1 DEF Told, Queued
    <3>2. ASSUME CallingK, callerK.op \in Configures, callerK.at # "send"
          PROVE  AskingK
      BY <1>2, <3>2 DEF AskingK
    <3> QED BY <1>2, <3>1, <3>2 DEF Told, Obeyed
  <2>2. AskingK /\ StepK.do # "ping" /\ callerK.at # "send" /\ willing' => Owed'
    BY DEF Told, Obeyed
  <2>3. CallingK /\ callerK.op = "LEPinDisconnect" =>
          (callerK.k < 3 \/ (willing' /\ answers') => callerK.ret)
    BY DEF Told, Obeyed
  <2>4. CallingK /\ callerK.op = "FactoryReset" /\ callerK.k = 2 /\ willing' /\ answers' =>
          Event \in {sent'[n] : n \in DOMAIN sent'} \/ Got("EVENT")'
    BY <1>2 DEF Told, Obeyed
  <2> QED BY <1>1, <2>1, <2>2, <2>3, <2>4 DEF Obeyed
<1>8. OwnAnswers'
  <2>1. ASSUME NEW op \in Configures, ResultOfK(op)
        PROVE  willing' = willing
    <3>1. resultK.op # "none" /\ resultK.op \in Configures /\ ~CallingK
      BY <2>1, Functions DEF ResultOfK
    <3>2. sent = <<>> /\ calledK > 0
      BY <3>1 DEF Told, Queued, Placed
    <3> QED BY <3>2
  <2>2. \A op : ResultOfK(op)' <=> ResultOfK(op)
    BY <1>1 DEF ResultOfK
  <2>3. Packet("RESPONSE", "command")' = Packet("RESPONSE", "command")
    BY DEF Packet
  <2> QED BY <2>1, <2>2, <2>3 DEF Told, OwnAnswers
<1> QED BY <1>4, <1>5, <1>6, <1>7, <1>8 DEF Told

(* Nothing of it changes.                                                  *)
LEMMA Still ==
    ASSUME Told, UNCHANGED <<slots, pending_response, Skoll_I_open, callerK, sent, pace, lent,
                             resultK, historyK, calledK>>
    PROVE  Told'
<1>1. UNCHANGED <<receiveBuffer, expectedResponseType, willing, answers>>
  BY DEF slots, historyK
<1>2. /\ StepK' = StepK /\ (CallingK' <=> CallingK) /\ (AskingK' <=> AskingK) /\ Own' = Own
      /\ \A type : Got(type)' <=> Got(type)
  BY <1>1 DEF StepK, CallingK, AskingK, Own, Packet, Got
<1>3. Slotted' /\ (Owed' <=> Owed)
  BY <1>1, <1>2 DEF Told, Slotted, Wants, Owed
<1>4. /\ sent' \in Seq(PacketsK) /\ willing' \in BOOLEAN /\ pending_response' \in {0, 1}
      /\ answers' /\ pending_response' # 0 => \E n \in DOMAIN sent' : Settles(sent'[n])
  BY <1>1 DEF Told, Placed, Pending
<1>5. AskingK /\ Got("RESPONSE")' => sent' = <<>> /\ pending_response' = 0
  BY <1>2 DEF Told, Queued
<1> QED BY <1>1, <1>2, <1>3, <1>4, <1>5, Beside

LEMMA Restarts ==
    ASSUME Told, RestartK
    PROVE  Told'
<1>1. /\ UNCHANGED <<receiveBuffer, expectedResponseType, pending_response, Skoll_I_open,
                     callerK, pace, lent, resultK, calledK>>
      /\ sent' = <<>>
      /\ willing' = (willing /\ \A n \in DOMAIN sent :
                       sent[n].call # calledK \/ sent[n].name = "ping")
      /\ answers' = (answers /\ ~\E n \in DOMAIN sent : Settles(sent[n]))
  BY DEF RestartK, RestartedK, Miss, slots, settingsK
<1>2. /\ StepK' = StepK /\ (CallingK' <=> CallingK) /\ (AskingK' <=> AskingK) /\ Own' = Own
      /\ \A type : Got(type)' <=> Got(type)
  BY <1>1 DEF StepK, CallingK, AskingK, Own, Packet, Got
<1>3. /\ sent' \in Seq(PacketsK) /\ willing \in BOOLEAN /\ willing' \in BOOLEAN
      /\ pending_response' \in {0, 1}
  BY <1>1 DEF Told, Placed, Pending
<1>4. answers' /\ pending_response' # 0 => \E n \in DOMAIN sent' : Settles(sent'[n])
  BY <1>1 DEF Told, Pending
<1>5. Slotted'
  BY <1>1, <1>2 DEF Told, Slotted, Wants
<1>6. sent = <<>> => willing' = willing
  BY <1>1, <1>3
<1>7. /\ Own.call = calledK /\ Refusal.call = calledK /\ Refusal.name = "system error"
      /\ Own.name = StepK.command /\ Event.call = calledK /\ Event.name = "event"
  BY DEF Own, Refusal, Event, Packet
<1>8. ASSUME AskingK
      PROVE  /\ StepK.do = "ping" => willing' = willing
             /\ StepK.do # "ping" => \/ willing' = willing /\ (Owed' <=> Owed)
                                     \/ ~willing' /\ ~Owed'
  <2>1. /\ StepK.do \in Sending /\ CallingK
        /\ sent \in {<<>>, <<Own>>, <<Refusal>>}
        /\ StepK.do = "ping" => sent # <<Refusal>>
        /\ Got("RESPONSE") => sent = <<>>
    BY <1>8 DEF AskingK, Sending, Told, Queued
  <2>2. StepK.do = "ping" <=> StepK.command = "ping"
    BY <2>1, PacketsKnown
  <2>3. CASE sent = <<>>
    <3>1. Owed' <=> Owed
      BY <1>1, <1>2, <2>3 DEF Owed
    <3> QED BY <1>6, <2>3, <3>1
  <2>4. CASE sent # <<>>
    <3>1. PICK p : /\ sent = <<p>> /\ p \in {Own, Refusal}
                   /\ StepK.do = "ping" => p = Own
      <4>1. CASE sent = <<Own>>
        BY <4>1
      <4>2. CASE sent = <<Refusal>>
        BY <2>1, <4>2
      <4> QED BY <2>1, <2>4, <4>1, <4>2
    <3>2. \A n \in DOMAIN sent : sent[n] = p
      BY <3>1
    <3>3. 1 \in DOMAIN sent /\ sent[1] = p
      BY <3>1, Alone
    <3>4. StepK.do = "ping" => willing' = willing
      BY <1>1, <1>3, <1>7, <2>2, <3>1, <3>2
    <3>5. StepK.do # "ping" => ~willing'
      BY <1>1, <1>7, <2>2, <3>1, <3>3
    <3>6. ~Owed'
      BY <1>1, <1>2, <2>1, <2>4 DEF Owed
    <3> QED BY <3>4, <3>5, <3>6
  <2> QED BY <2>3, <2>4
<1>9. willing' => Event \notin {sent[n] : n \in DOMAIN sent}
  BY <1>1, <1>7
<1>10. AskingK /\ Got("RESPONSE")' => sent' = <<>> /\ pending_response' = 0
  BY <1>1, <1>2 DEF Told, Queued
<1> QED BY <1>1, <1>2, <1>3, <1>4, <1>5, <1>6, <1>8, <1>9, <1>10, Beside

(* The interrupt: a packet fills the slots that are free, if it is wanted. *)
LEMMA Takes ==
    ASSUME NEW packet, internal_ezsHandler(packet), NEW i \in SlotsK
    PROVE  /\ receiveBuffer[i].isInUse => receiveBuffer'[i] = receiveBuffer[i]
           /\ ~receiveBuffer[i].isInUse /\ expectedResponseType \in {"ANY", packet.type} =>
                receiveBuffer'[i].isInUse /\ receiveBuffer'[i].packet = packet
           /\ expectedResponseType \notin {"ANY", packet.type} =>
                receiveBuffer'[i] = receiveBuffer[i]
BY DEF internal_ezsHandler

(* The packets of a command that waits for its response.                   *)
LEMMA OneToCome ==
    ASSUME Told, AskingK, sent # <<>>
    PROVE  /\ sent = <<Own>> \/ sent = <<Refusal>>
           /\ Tail(sent) = <<>> /\ Settles(Head(sent))
           /\ sent = <<Own>> => Head(sent) = Own
           /\ sent = <<Refusal>> => Head(sent) = Refusal /\ StepK.do # "ping"
           /\ Own # Refusal /\ Own.type = "RESPONSE" /\ Refusal.type = "EVENT"
           /\ Own.call = calledK /\ Refusal.call = calledK
           /\ Own.name = StepK.command /\ Refusal.name = "system error"
           /\ <<Own>> # <<Refusal>>
           /\ ~Got("RESPONSE")
           /\ StepK.type = "RESPONSE" /\ CallingK
           /\ StepK.do = "ping" <=> StepK.command = "ping"
<1>1. CallingK /\ StepK.do \in Sending /\ StepK.do \in {"ask", "ping", "attempt"}
  BY DEF AskingK, Sending
<1>2. /\ sent = <<Own>> \/ sent = <<Refusal>>
      /\ StepK.do = "ping" => sent # <<Refusal>>
      /\ ~Got("RESPONSE")
  BY DEF Told, Queued
<1>3. /\ Own.type = "RESPONSE" /\ Refusal.type = "EVENT"
      /\ Own.call = calledK /\ Refusal.call = calledK
      /\ Own.name = StepK.command /\ Refusal.name = "system error"
  BY DEF Own, Refusal, Packet
<1>4. /\ Own \in PacketsK /\ Refusal \in PacketsK
      /\ Own # Refusal /\ Settles(Own) /\ Settles(Refusal)
      /\ StepK.do = "ping" <=> StepK.command = "ping"
  BY <1>1, PacketsKnown
<1>5. ASSUME NEW p
      PROVE  Tail(<<p>>) = <<>> /\ Head(<<p>>) = p
  <2>1. Head(<<p>>) = p
    OBVIOUS
  <2>2. Tail(<<p>>) = <<>>
    OBVIOUS
  <2> QED BY <2>1, <2>2
<1>6. <<Own>> # <<Refusal>>
  BY <1>4, Queues
<1>7. StepK.type = "RESPONSE"
  BY <1>1, Now DEF Kind
<1>8. CASE sent = <<Own>>
  BY <1>1, <1>2, <1>3, <1>4, <1>5, <1>6, <1>7, <1>8 DEF Settles
<1>9. CASE sent = <<Refusal>>
  BY <1>1, <1>2, <1>3, <1>4, <1>5, <1>6, <1>7, <1>9 DEF Settles
<1> QED BY <1>2, <1>8, <1>9

(* The first of a queue is taken.                                          *)
LEMMA Tails ==
    ASSUME NEW s \in Seq(PacketsK), s # <<>>
    PROVE  /\ Tail(s) \in Seq(PacketsK)
           /\ \A n \in DOMAIN s :
                s[n] = Head(s) \/ \E m \in DOMAIN Tail(s) : Tail(s)[m] = s[n]
<1>1. /\ Tail(s) \in Seq(PacketsK) /\ Len(s) \in Nat \ {0} /\ Len(Tail(s)) = Len(s) - 1
      /\ Head(s) = s[1] /\ \A m \in 1 .. Len(s) - 1 : Tail(s)[m] = s[m + 1]
  OBVIOUS
<1>2. ASSUME NEW n \in DOMAIN s, n # 1
      PROVE  \E m \in DOMAIN Tail(s) : Tail(s)[m] = s[n]
  <2>1. n \in Nat /\ n >= 2 /\ n <= Len(s)
    BY <1>2
  <2>2. PICK m : m = n - 1 /\ m + 1 = n /\ m \in 1 .. Len(s) - 1
    BY <1>1, <2>1
  <2>3. m \in DOMAIN Tail(s)
    BY <1>1, <2>2
  <2> QED BY <1>1, <2>2, <2>3
<1> QED BY <1>1, <1>2

(* A packet comes in.                                                      *)
LEMMA Received ==
    ASSUME Told, InTime, ReceiveK
    PROVE  Told'
<1>1. /\ sent # <<>> /\ (CallingK => callerK.at \in Looking)
      /\ UNCHANGED <<expectedResponseType, callerK, pace, Skoll_I_open, lent, resultK,
                     calledK>>
      /\ sent' = Tail(sent)
  BY DEF InTime, ReceiveK, settingsK, boundsK
<1>2. Skoll_I_open
  BY <1>1 DEF Told, Queued
<1>3. PICK h : h = Head(sent) /\ HandleRxByteK(h)
  BY <1>2 DEF ReceiveK
<1>4. /\ sent \in Seq(PacketsK) /\ willing \in BOOLEAN /\ pending_response \in {0, 1}
      /\ answers /\ pending_response # 0 => \E n \in DOMAIN sent : Settles(sent[n])
  BY DEF Told, Placed, Pending
<1>5. /\ sent' \in Seq(PacketsK)
      /\ \A n \in DOMAIN sent : sent[n] = h \/ \E m \in DOMAIN sent' : sent'[m] = sent[n]
  <2>1. sent \in Seq(PacketsK) /\ sent # <<>>
    BY <1>1, <1>4
  <2> QED BY <1>1, <1>3, <2>1, Tails
<1>6. /\ StepK' = StepK /\ (CallingK' <=> CallingK) /\ (AskingK' <=> AskingK) /\ Own' = Own
  BY <1>1 DEF StepK, CallingK, AskingK, Own, Packet
<1>7. AskingK => sent' = <<>>
  BY <1>1, OneToCome
<1>8. CASE UNCHANGED <<receiveBuffer, pending_response>> /\ Miss({h})
  <2>1. /\ willing' = (willing /\ (h.call # calledK \/ h.name = "ping"))
        /\ answers' = (answers /\ ~Settles(h))
        /\ willing' \in BOOLEAN
    BY <1>8 DEF Miss
  <2>2. \A type : Got(type)' <=> Got(type)
    BY <1>1, <1>8 DEF Got
  <2>3. Slotted'
    BY <1>1, <1>6, <1>8 DEF Told, Slotted, Wants
  <2>4. answers' /\ pending_response' # 0 => \E n \in DOMAIN sent' : Settles(sent'[n])
    BY <1>4, <1>5, <1>8, <2>1 DEF Settles
  <2>5. ASSUME AskingK
        PROVE  /\ StepK.do = "ping" => willing' = willing
               /\ StepK.do # "ping" => ~willing' /\ ~Owed'
               /\ ~Got("RESPONSE")'
    <3>1. ~Got("RESPONSE")' /\ sent' # <<Own>>'
      <4>1. <<>> # <<Own>>'
        OBVIOUS
      <4> QED BY <1>1, <1>7, <2>2, <2>5, <4>1, OneToCome
    <3>2. ~Owed'
      BY <3>1 DEF Owed
    <3>3. /\ StepK.do = "ping" => willing' = willing
          /\ StepK.do # "ping" => ~willing'
      BY <1>1, <1>3, <1>4, <2>1, <2>5, OneToCome
    <3> QED BY <3>1, <3>2, <3>3
  <2>6. /\ willing' /\ Event \in {sent[n] : n \in DOMAIN sent}
        => Event \in {sent'[n] : n \in DOMAIN sent'}
    <3>1. Event.call = calledK /\ Event.name = "event"
      BY DEF Event, Packet
    <3>2. willing' => h # Event
      BY <2>1, <3>1
    <3> QED BY <1>5, <3>2
  <2> QED BY <1>1, <1>4, <1>5, <1>7, <1>8, <2>1, <2>2, <2>3, <2>4, <2>5, <2>6, Beside
<1>9. CASE internal_ezsHandler(h) /\ UNCHANGED <<willing, answers>>
  <2>1. /\ pending_response' \in {0, 1} /\ (pending_response = 0 => pending_response' = 0)
        /\ Settles(h) => pending_response' = 0
        /\ ~Settles(h) => pending_response' = pending_response
    <3>1. pending_response' = IF Settles(h) /\ pending_response # 0 THEN pending_response - 1
                              ELSE pending_response
      BY <1>9 DEF internal_ezsHandler
    <3> QED BY <1>4, <3>1
  <2>2. answers' /\ pending_response' # 0 => \E n \in DOMAIN sent' : Settles(sent'[n])
    <3>1. ASSUME answers', pending_response' # 0
          PROVE  \E n \in DOMAIN sent' : Settles(sent'[n])
      <4>1. PICK n \in DOMAIN sent : Settles(sent[n]) /\ ~Settles(h)
        BY <1>4, <1>9, <2>1, <3>1
      <4>2. sent[n] # h
        BY <4>1
      <4>3. PICK m \in DOMAIN sent' : sent'[m] = sent[n]
        BY <1>5, <4>2
      <4> QED BY <4>1, <4>3 DEF Settles
    <3> QED BY <3>1
  <2>3. CallingK => expectedResponseType = StepK.type
                    /\ (receiveBuffer[2].isInUse => Wants(receiveBuffer[2].packet))
    BY <1>1 DEF Told, Slotted
  <2>4. ASSUME NEW i \in SlotsK
        PROVE  \/ receiveBuffer'[i] = receiveBuffer[i]
               \/ /\ receiveBuffer'[i].isInUse /\ receiveBuffer'[i].packet = h
                  /\ expectedResponseType \in {"ANY", h.type}
    BY <1>9, Takes
  <2>5. 1 \in SlotsK /\ 2 \in SlotsK
    BY DEF SlotsK
  <2>6. AskingK => h \in {Own, Refusal} /\ Settles(h)
    BY <1>1, <1>3, OneToCome
  <2>7. Slotted'
    <3>1. ASSUME CallingK, receiveBuffer'[2].isInUse
          PROVE  Wants(receiveBuffer'[2].packet)
      <4>1. CASE receiveBuffer'[2] = receiveBuffer[2]
        BY <2>3, <3>1, <4>1
      <4>2. CASE /\ receiveBuffer'[2].packet = h /\ expectedResponseType \in {"ANY", h.type}
        BY <2>3, <3>1, <4>2 DEF Wants
      <4> QED BY <2>4, <2>5, <4>1, <4>2
    <3>2. ASSUME AskingK, NEW i \in SlotsK, receiveBuffer'[i].isInUse,
                 receiveBuffer'[i].packet.type = "RESPONSE"
          PROVE  receiveBuffer'[i].packet = Own
      <4>1. CASE receiveBuffer'[i] = receiveBuffer[i]
        BY <1>1, <3>2, <4>1 DEF Told, Slotted, AskingK
      <4>2. CASE receiveBuffer'[i].packet = h
        BY <1>1, <2>6, <3>2, <4>2, OneToCome
      <4> QED BY <2>4, <4>1, <4>2
    <3>3. callerK'.at \in Looking => callerK'.at \notin {"clear2", "expect"}
      BY DEF Looking
    <3>4. Wants(receiveBuffer'[2].packet) => Wants(receiveBuffer[2].packet)'
      BY <1>6 DEF Wants
    <3> QED BY <1>1, <1>6, <2>3, <3>1, <3>2, <3>3, <3>4 DEF Slotted
  <2>8. \A type : Got(type) => Got(type)'
    BY <1>1, <1>9, Takes DEF Got
  <2>9. ASSUME AskingK
        PROVE  Owed' <=> Owed
    <3>1. CASE sent = <<Own>>
      <4>1. CallingK /\ StepK.type = "RESPONSE" /\ h = Own /\ h.type = "RESPONSE"
            /\ ~Got("RESPONSE") /\ callerK.at \in Looking
        BY <1>1, <1>3, <2>9, <3>1, OneToCome
      <4>2. ~receiveBuffer[2].isInUse
        BY <2>3, <2>5, <4>1 DEF Got, Wants
      <4>3. receiveBuffer'[2].isInUse /\ receiveBuffer'[2].packet = h
        BY <1>9, <2>3, <2>5, <4>1, <4>2, Takes
      <4> QED BY <1>1, <2>5, <3>1, <4>1, <4>3 DEF Owed, Got
    <3>2. CASE sent = <<Refusal>>
      <4>1. ~Owed /\ h = Refusal /\ h.type = "EVENT" /\ ~Got("RESPONSE")
        BY <1>1, <1>3, <2>9, <3>2, OneToCome DEF Owed
      <4>2. ~Got("RESPONSE")'
        BY <1>1, <2>4, <4>1 DEF Got
      <4>3. sent' # <<Own>>'
        <5>1. <<>> # <<Own>>'
          OBVIOUS
        <5> QED BY <1>7, <2>9, <5>1
      <4> QED BY <4>1, <4>2, <4>3 DEF Owed
    <3> QED BY <1>1, <2>9, <3>1, <3>2, OneToCome
  <2>10. ASSUME CallingK, StepK.do = "wait", StepK.type = "EVENT",
                Event \in {sent[n] : n \in DOMAIN sent}
         PROVE  Event \in {sent'[n] : n \in DOMAIN sent'} \/ Got("EVENT")'
    <3>1. CASE Event = h
      <4>1. h.type = "EVENT" /\ callerK.at \in Looking
        BY <1>1, <2>10, <3>1 DEF Event, Packet
      <4>2. CASE receiveBuffer[2].isInUse
        <5>1. Got("EVENT")
          BY <2>3, <2>5, <2>10, <4>1, <4>2 DEF Got, Wants
        <5> QED BY <2>8, <5>1
      <4>3. CASE ~receiveBuffer[2].isInUse
        <5>1. receiveBuffer'[2].isInUse /\ receiveBuffer'[2].packet = h
          BY <1>9, <2>3, <2>5, <2>10, <4>1, <4>3, Takes
        <5> QED BY <1>1, <2>5, <4>1, <5>1 DEF Got
      <4> QED BY <4>2, <4>3
    <3>2. CASE Event # h
      BY <1>5, <2>10, <3>2
    <3> QED BY <3>1, <3>2
  <2>11. AskingK => pending_response' = 0
    BY <2>1, <2>6
  <2> QED BY <1>1, <1>4, <1>5, <1>7, <1>9, <2>1, <2>2, <2>7, <2>8, <2>9, <2>10, <2>11, Beside
<1> QED BY <1>3, <1>8, <1>9 DEF HandleRxByteK, historyK

(* An event that no command has caused.                                    *)
LEMMA Happens ==
    ASSUME Told, ~Crossing, EventK
    PROVE  Told'
<1>1. /\ UNCHANGED <<expectedResponseType, callerK, pace, Skoll_I_open, lent, resultK,
                     calledK, sent>>
      /\ callerK.at # "expect"
  BY DEF EventK, settingsK, moduleK
<1>2. PICK e : /\ e = [Packet("EVENT", "event") EXCEPT !.call = 0]
               /\ HandleRxByteK(e)
  BY DEF EventK
<1>3. e.type = "EVENT" /\ e.name = "event" /\ e.call = 0 /\ ~Settles(e)
  BY <1>2 DEF Packet, Settles
<1>4. /\ sent \in Seq(PacketsK) /\ willing \in BOOLEAN /\ pending_response \in {0, 1}
      /\ answers /\ pending_response # 0 => \E n \in DOMAIN sent : Settles(sent[n])
      /\ calledK \in Nat /\ (CallingK => calledK > 0)
  BY DEF Told, Placed, Pending
<1>5. /\ StepK' = StepK /\ (CallingK' <=> CallingK) /\ (AskingK' <=> AskingK) /\ Own' = Own
      /\ Event' = Event /\ (AskingK => CallingK)
  BY <1>1 DEF StepK, CallingK, AskingK, Own, Event, Packet
<1>6. AskingK => sent \in {<<>>, sent}
  OBVIOUS
<1>7. CASE UNCHANGED <<receiveBuffer, pending_response>> /\ Miss({e})
  <2>1. /\ willing' = (willing /\ 0 # calledK) /\ (answers' <=> answers)
        /\ willing' \in BOOLEAN
    BY <1>3, <1>7 DEF Miss
  <2>2. calledK > 0 => willing' = willing
    BY <1>4, <2>1
  <2>3. \A type : Got(type)' <=> Got(type)
    BY <1>1, <1>7 DEF Got
  <2>4. Slotted' /\ (Owed' <=> Owed)
    BY <1>1, <1>5, <1>7, <2>3 DEF Told, Slotted, Wants, Owed
  <2>5. answers' /\ pending_response' # 0 => \E n \in DOMAIN sent' : Settles(sent'[n])
    BY <1>1, <1>4, <1>7, <2>1
  <2>6. AskingK /\ Got("RESPONSE")' => sent' = <<>> /\ pending_response' = 0
    BY <1>1, <1>7, <2>3 DEF Told, Queued
  <2> QED BY <1>1, <1>4, <1>5, <1>7, <2>1, <2>2, <2>3, <2>4, <2>5, <2>6, Beside
<1>8. CASE internal_ezsHandler(e) /\ UNCHANGED <<willing, answers>>
  <2>1. pending_response' = pending_response
    BY <1>3, <1>8 DEF internal_ezsHandler
  <2>2. ASSUME NEW i \in SlotsK
        PROVE  \/ receiveBuffer'[i] = receiveBuffer[i]
               \/ /\ receiveBuffer'[i].isInUse /\ receiveBuffer'[i].packet = e
                  /\ ~receiveBuffer[i].isInUse
                  /\ expectedResponseType \in {"ANY", "EVENT"}
    BY <1>3, <1>8, Takes
  <2>3. 1 \in SlotsK /\ 2 \in SlotsK
    BY DEF SlotsK
  <2>4. CallingK /\ callerK.at \in Looking =>
          /\ expectedResponseType = StepK.type
          /\ receiveBuffer[2].isInUse => Wants(receiveBuffer[2].packet)
    BY DEF Told, Slotted
  <2>5. ASSUME CallingK, callerK.at = "clear2", receiveBuffer'[1].isInUse
        PROVE  receiveBuffer'[1].packet.type = "EVENT"
    BY <1>3, <2>2, <2>3, <2>5 DEF Told, Slotted
  <2>6. ASSUME CallingK, callerK.at \in Looking, receiveBuffer'[2].isInUse
        PROVE  Wants(receiveBuffer'[2].packet)
    <3>1. CASE receiveBuffer'[2] = receiveBuffer[2]
      BY <2>4, <2>6, <3>1
    <3>2. CASE receiveBuffer'[2].packet = e /\ expectedResponseType \in {"ANY", "EVENT"}
      BY <1>3, <2>4, <2>6, <3>2 DEF Wants
    <3> QED BY <2>2, <2>3, <3>1, <3>2
  <2>7. ASSUME NEW i \in SlotsK, receiveBuffer'[i].isInUse,
               receiveBuffer'[i].packet.type = "RESPONSE"
        PROVE  receiveBuffer'[i] = receiveBuffer[i]
    BY <1>3, <2>2, <2>7
  <2>8. Slotted'
    <3>1. \A i \in SlotsK : AskingK /\ callerK.at \in Looking /\ receiveBuffer'[i].isInUse
            /\ receiveBuffer'[i].packet.type = "RESPONSE" => receiveBuffer'[i].packet = Own
      BY <1>5, <2>7 DEF Told, Slotted
    <3>2. Wants(receiveBuffer'[2].packet) => Wants(receiveBuffer[2].packet)'
      BY <1>5 DEF Wants
    <3> QED BY <1>1, <1>5, <2>4, <2>5, <2>6, <3>1, <3>2 DEF Slotted
  <2>9. /\ Got("RESPONSE")' => Got("RESPONSE")
        /\ \A type : Got(type) => Got(type)'
    BY <1>1, <1>8, <2>7, Takes DEF Got
  <2>10. Owed' <=> Owed
    BY <1>1, <1>5, <2>9 DEF Owed
  <2>11. AskingK /\ Got("RESPONSE")' => sent' = <<>> /\ pending_response' = 0
    BY <1>1, <2>1, <2>9 DEF Told, Queued
  <2>12. answers' /\ pending_response' # 0 => \E n \in DOMAIN sent' : Settles(sent'[n])
    BY <1>1, <1>4, <1>8, <2>1
  <2> QED BY <1>1, <1>4, <1>5, <1>8, <2>1, <2>8, <2>9, <2>10, <2>11, <2>12, Beside
<1> QED BY <1>2, <1>7, <1>8 DEF HandleRxByteK, historyK

-----------------------------------------------------------------------------
(* A function is called.                                                   *)
LEMMA NotEmpty ==
    ASSUME NEW op \in DOMAIN ScriptK
    PROVE  1 \in 1 .. Len(ScriptK[op]) /\ op # "none"
<1>1. CASE op \in OpensK \cup {"PinReset"}
  <2>1. Len(ScriptK[op]) = 5
    BY <1>1, FunctionsK, Functions DEF Five
  <2> QED BY <1>1, <2>1, Functions
<1>2. ASSUME NEW a, ScriptK[op] = <<a>>
      PROVE  1 \in 1 .. Len(ScriptK[op])
  BY <1>2
<1>3. ASSUME NEW a, NEW b, ScriptK[op] = <<a, b>>
      PROVE  1 \in 1 .. Len(ScriptK[op])
  BY <1>3
<1>4. ASSUME NEW a, NEW b, NEW c, ScriptK[op] = <<a, b, c>>
      PROVE  1 \in 1 .. Len(ScriptK[op])
  BY <1>4
<1>5. CASE op \in {"Deinit", "Command", "CheckForPacket"}
  BY <1>2, <1>5, FunctionsK
<1>6. CASE op = "FactoryReset"
  BY <1>3, <1>6, FunctionsK
<1>7. CASE op \in {"ClassicPinDisconnect", "LEPinDisconnect"}
  BY <1>4, <1>7, FunctionsK
<1> QED BY <1>1, <1>5, <1>6, <1>7, FunctionsK, Functions

LEMMA Called ==
    ASSUME Told, InTime, NEW op \in SkollI_Called[pace], CallK(op)
    PROVE  Told'
<1>1. /\ ~CallingK /\ sent = <<>> /\ (op \in OpensK <=> ~Skoll_I_open)
      /\ callerK'.op = op /\ callerK'.k = 1 /\ callerK'.at = "send" /\ callerK'.ret = TRUE
      /\ calledK' = calledK + 1 /\ willing' = TRUE
      /\ UNCHANGED <<sent, pace, Skoll_I_open, pending_response, resultK, answers>>
  <2>1. callerK' = [RestingK EXCEPT !.op = op]
    BY DEF CallK
  <2>2. callerK'.op = op /\ callerK'.k = 1 /\ callerK'.at = "send" /\ callerK'.ret = TRUE
    BY <2>1 DEF RestingK
  <2> QED BY <2>2 DEF CallK, InTime, settingsK, moduleK
<1>2. calledK \in Nat /\ pace \in DOMAIN SkollI_Called /\ pending_response \in {0, 1}
  BY DEF Told, Placed, Pending
<1>3. op \in DOMAIN ScriptK
  BY <1>2, CalledAssumption
<1>4. 1 \in 1 .. Len(ScriptK[op]) /\ op # "none"
  BY <1>3, NotEmpty
<1>5. PICK s, n : s = ScriptK[op][1] /\ n = Len(ScriptK[op]) /\ Kind(op, 1, s, n)
  BY <1>3, <1>4, Kinds
<1>6. /\ CallingK' /\ StepK' = s
      /\ AskingK' <=> s.do \in {"ask", "ping", "attempt"}
  BY <1>1, <1>4, <1>5 DEF CallingK, StepK, AskingK
<1>7. op \in Configures => s.do = "do"
  <2>1. s.do \in {"ask", "ping", "attempt", "order", "wait", "do"}
    BY <1>5 DEF Kind
  <2>2. op \in Configures => s.do \notin {"ask", "ping", "attempt", "order", "wait"}
    BY <1>5, LastStep, Functions
  <2> QED BY <2>1, <2>2
<1>8. Placed'
  <2>1. calledK' \in Nat /\ calledK' > 0
    BY <1>1, <1>2
  <2>2. sent' \in Seq(PacketsK) /\ pace' \in DOMAIN SkollI_Called /\ willing' \in BOOLEAN
    BY <1>1, <1>2
  <2>3. callerK'.at \in Places
    BY <1>1 DEF Places
  <2> QED BY <1>1, <1>3, <1>4, <2>1, <2>2, <2>3 DEF Placed
<1>9. Slotted' /\ OwnAnswers'
  BY <1>1, <1>6 DEF Slotted, OwnAnswers, ResultOfK, Looking
<1>10. ~Got("RESPONSE")'
  BY <1>1 DEF Got, Looking
<1>11. Queued'
  <2>1. <<>> # <<Refusal>>'
    OBVIOUS
  <2> QED BY <1>1, <1>6, <1>10, <2>1 DEF Queued
<1>12. Pending'
  BY <1>1, <1>2, <1>6, <1>7 DEF Told, Pending, Settles
<1>13. Obeyed'
  BY <1>1, <1>6 DEF Obeyed
<1> QED BY <1>8, <1>9, <1>11, <1>12, <1>13 DEF Told

LEMMA Begins == InitK => AInv
<1> SUFFICES ASSUME InitK PROVE Told
  BY DEF AInv
<1>1. /\ ~CallingK /\ resultK.op = "none" /\ sent = <<>> /\ calledK = 0 /\ willing = TRUE
      /\ pending_response = 0 /\ pace \in DOMAIN SkollI_Called /\ ~AskingK
  BY DEF InitK, RestingK, CallingK, AskingK
<1>2. Placed /\ Slotted /\ Pending
  BY <1>1 DEF Placed, Slotted, Pending
<1>3. Queued /\ Obeyed
  BY <1>1, Functions DEF Queued, Obeyed
<1>4. OwnAnswers
  BY <1>1, Functions DEF OwnAnswers, ResultOfK
<1> QED BY <1>2, <1>3, <1>4 DEF Told

LEMMA AnswersStep ==
    ASSUME AInv, Shaped, ~Crossing, [NextK]_varsK
    PROVE  AInv'
<1>1. pace' = pace
  BY DEF NextK, CallK, MainK, Refuse, TransmitK, TransmitFails, ClearFirst, ClearSecond, Expect,
         Hand, Discard, LookAgain, GiveUpK, OpenK, CloseK, PulseResetK, DriveSPP, SetBinary,
         DoFails, ReceiveK, EventK, PeerK, RestartK, varsK
<1> SUFFICES ASSUME Told, InTime PROVE Told'
  BY <1>1 DEF AInv, InTime
<1>2. CASE UNCHANGED varsK
  BY <1>2, Still DEF varsK, settingsK, moduleK, boundsK
<1>3. ASSUME NEW op \in SkollI_Called[pace], CallK(op)
      PROVE  Told'
  BY <1>3, Called
<1>4. CASE MainK
  BY <1>4, NotSent, Sent, Waited, Handed, GivesUp, Opened, Closed, WasReset, Driven, WasSet,
     DoneFails DEF MainK
<1>5. CASE PeerK
  BY <1>5, Still DEF PeerK, settingsK
<1>6. CASE RestartK \/ ReceiveK \/ EventK
  BY <1>6, Restarts, Received, Happens
<1> QED BY <1>2, <1>3, <1>4, <1>5, <1>6 DEF NextK

(* With a module that answers in time, and no event between the emptying   *)
(* of the slots and the type being set, a function succeeds when the       *)
(* module did what it was asked, and a command is handed the response to   *)
(* it (Skoll_I_Wait4CNF, Skoll_I.c:208-251).                               *)
THEOREM AnswersOwn ==
    ASSUME ~Crossing
    PROVE  SpecK => []OwnAnswers
<1>1. AInv => OwnAnswers
  BY DEF AInv, InTime, Told, OwnAnswers
<1>2. KInv => Shaped
  BY DEF KInv
<1> QED BY Begins, AnswersStep, Invariance, <1>1, <1>2, PTL DEF SpecK
-----------------------------------------------------------------------------
(***************************************************************************)
(* The LTE-M driver AdrasteaI, whose module answers before the caller      *)
(* gives up: what a function returns is what the module did, and where the *)
(* driver believes the module to be it is.                                 *)
(***************************************************************************)
PlacesA == {"next", "name", "arm", "poll"}
CommandsA == {"CGMR", "CGMI", "CFUN", "F0", "RESET", ""} \cup MenuCommands
Words   == CommandsA \cup ModeLines \cup Confirms \cup {"ERROR", "text", "+event"}
Spoken  == [what : Words, call : Nat]

(* What follows of lines alone: AdrasteaI_ATMode when the first x of them  *)
(* have been heard, and whether those after line v say that it is Ready.   *)
ModeOf(what) == IF what = "%SCMNOTIFYEV" THEN "Ready"
                ELSE IF what = "Open MAP CLI" THEN "Map" ELSE "Off"
OfMode(l)    == l.what \in ModeLines
NoMode(s)    == \A y \in 1 .. Len(s) : ~OfMode(s[y])
SettlesA(s, now, x, mode) ==
    \/ now = mode /\ \A y \in 1 .. x : ~OfMode(s[y])
    \/ \E z \in 1 .. x : /\ OfMode(s[z]) /\ ModeOf(s[z].what) = mode
                         /\ \A y \in z + 1 .. x : ~OfMode(s[y])
ReadyIn(s, v) == \E y \in v + 1 .. Len(s) : s[y].what = "%SCMNOTIFYEV"
LastIn(s, v)  == \A y \in v + 1 .. Len(s) : s[y].what = "%SCMNOTIFYEV" =>
                    \A z \in y + 1 .. Len(s) : ~OfMode(s[z])

LEMMA AppendA ==
    ASSUME NEW s \in Seq(Spoken), NEW l \in Spoken, NEW t, t = Append(s, l)
    PROVE  /\ t \in Seq(Spoken) /\ Len(t) = Len(s) + 1 /\ t[Len(s) + 1] = l
           /\ \A i \in 1 .. Len(s) : t[i] = s[i]
           /\ \A x \in 0 .. Len(s) : \A now, mode :
                SettlesA(s, now, x, mode) => SettlesA(t, now, x, mode)
           /\ OfMode(l) => \A now : SettlesA(t, now, Len(t), ModeOf(l.what))
           /\ \A v \in 0 .. Len(s) : ~ReadyIn(s, v) =>
                LastIn(t, v) /\ (l.what # "%SCMNOTIFYEV" => ~ReadyIn(t, v))
  <1>1. /\ t \in Seq(Spoken) /\ Len(t) = Len(s) + 1 /\ t[Len(s) + 1] = l
        /\ \A i \in 1 .. Len(s) : t[i] = s[i]
    OBVIOUS
  <1>2. PICK n \in Nat : n = Len(s) /\ Len(t) = n + 1
    BY <1>1
  <1>3. ASSUME NEW x \in 0 .. n, NEW now, NEW mode, SettlesA(s, now, x, mode)
        PROVE  SettlesA(t, now, x, mode)
    <2>1. \A y \in 1 .. x : t[y] = s[y]
      BY <1>1, <1>2
    <2>2. \A z \in 1 .. x : \A y \in z + 1 .. x : y \in 1 .. x
      OBVIOUS
    <2>3. \A z \in 1 .. x : \A y \in z + 1 .. x : t[y] = s[y]
      BY <2>1, <2>2
    <2> QED  BY <1>3, <2>1, <2>3 DEF SettlesA
  <1>4. ASSUME OfMode(l), NEW now PROVE SettlesA(t, now, n + 1, ModeOf(l.what))
    <2>1. n + 1 \in 1 .. n + 1 /\ \A y \in (n + 1) + 1 .. n + 1 : FALSE
      BY <1>2
    <2> QED  BY <1>1, <1>2, <1>4, <2>1 DEF SettlesA
  <1>5. ASSUME NEW v \in 0 .. n, ~ReadyIn(s, v)
        PROVE  LastIn(t, v) /\ (l.what # "%SCMNOTIFYEV" => ~ReadyIn(t, v))
    <2>1. \A y \in v + 1 .. n + 1 : y = n + 1 \/ (y \in v + 1 .. n /\ t[y] = s[y])
      BY <1>1, <1>2
    <2>2. \A y \in v + 1 .. n + 1 : t[y].what = "%SCMNOTIFYEV" => y = n + 1
      BY <1>2, <1>5, <2>1 DEF ReadyIn
    <2>3. \A z \in (n + 1) + 1 .. n + 1 : FALSE
      BY <1>2
    <2> QED  BY <1>1, <1>2, <2>2, <2>3 DEF LastIn, ReadyIn
  <1> QED  BY <1>1, <1>2, <1>3, <1>4, <1>5

LEMMA ConcatA ==
    ASSUME NEW s \in Seq(Spoken), NEW r \in Seq(Spoken), NEW t, t = s \o r
    PROVE  /\ t \in Seq(Spoken) /\ Len(t) = Len(s) + Len(r)
           /\ \A i \in 1 .. Len(s) : t[i] = s[i]
           /\ \A i \in 1 .. Len(r) : t[Len(s) + i] = r[i]
           /\ \A i \in 1 .. Len(t) : i \in 1 .. Len(s) \/ i - Len(s) \in 1 .. Len(r)
           /\ \A now, mode : SettlesA(s, now, Len(s), mode) =>
                /\ SettlesA(t, now, Len(s), mode)
                /\ NoMode(r) => SettlesA(t, now, Len(t), mode)
  <1>1. /\ t \in Seq(Spoken) /\ Len(t) = Len(s) + Len(r)
        /\ \A i \in 1 .. Len(s) : t[i] = s[i]
        /\ \A i \in 1 .. Len(r) : t[Len(s) + i] = r[i]
    OBVIOUS
  <1>2. PICK n \in Nat, m \in Nat : n = Len(s) /\ m = Len(r) /\ Len(t) = n + m
    BY <1>1
  <1>3. \A i \in 1 .. n + m : i \in 1 .. n \/ i - n \in 1 .. m
    BY <1>2
  <1>4. ASSUME NEW now, NEW mode, SettlesA(s, now, n, mode)
        PROVE  SettlesA(t, now, n, mode)
    <2>1. \A z \in 1 .. n : \A y \in z + 1 .. n : t[y] = s[y]
      BY <1>1, <1>2
    <2> QED  BY <1>1, <1>2, <1>4, <2>1 DEF SettlesA
  <1>5. ASSUME NEW now, NEW mode, SettlesA(s, now, n, mode), NoMode(r)
        PROVE  SettlesA(t, now, n + m, mode)
    <2>1. \A i \in 1 .. n + m : i \in 1 .. n \/ ~OfMode(t[i])
      <3> SUFFICES ASSUME NEW i \in 1 .. n + m, i \notin 1 .. n PROVE ~OfMode(t[i])
        OBVIOUS
      <3>1. i - n \in 1 .. m /\ i = n + (i - n)
        BY <1>3
      <3>2. t[i] = r[i - n]
        BY <1>1, <1>2, <3>1
      <3> QED  BY <1>2, <1>5, <3>1, <3>2 DEF NoMode
    <2>2. SettlesA(t, now, n, mode)
      BY <1>4, <1>5
    <2>3. CASE now = mode /\ \A y \in 1 .. n : ~OfMode(t[y])
      BY <2>1, <2>3 DEF SettlesA
    <2>4. CASE \E z \in 1 .. n : /\ OfMode(t[z]) /\ ModeOf(t[z].what) = mode
                                 /\ \A y \in z + 1 .. n : ~OfMode(t[y])
      <3>1. PICK z \in 1 .. n : /\ OfMode(t[z]) /\ ModeOf(t[z].what) = mode
                                /\ \A y \in z + 1 .. n : ~OfMode(t[y])
        BY <2>4
      <3>2. z \in 1 .. n + m
        BY <1>2
      <3>3. ASSUME NEW y \in z + 1 .. n + m PROVE ~OfMode(t[y])
        <4>1. y \in 1 .. n + m /\ (y \in 1 .. n => y \in z + 1 .. n)
          BY <1>2
        <4> QED  BY <2>1, <3>1, <4>1
      <3> QED  BY <3>1, <3>2, <3>3 DEF SettlesA
    <2> QED  BY <2>2, <2>3, <2>4 DEF SettlesA
  <1> QED  BY <1>1, <1>2, <1>3, <1>4, <1>5

LEMMA TailA ==
    ASSUME NEW s \in Seq(Spoken), s # <<>>, NEW t, t = Tail(s), NEW now, NEW now2,
           now2 = IF OfMode(s[1]) THEN ModeOf(s[1].what) ELSE now
    PROVE  /\ t \in Seq(Spoken) /\ Len(t) = Len(s) - 1 /\ Len(s) \in Nat /\ Len(s) > 0
           /\ s[1] \in Spoken /\ Head(s) = s[1]
           /\ \A i \in 1 .. Len(t) : t[i] = s[i + 1] /\ i + 1 \in 1 .. Len(s)
           /\ \A v \in 1 .. Len(s) : \A mode :
                SettlesA(s, now, v, mode) => SettlesA(t, now2, v - 1, mode)
  <1>1. /\ t \in Seq(Spoken) /\ Len(t) = Len(s) - 1 /\ Len(s) \in Nat /\ Len(s) > 0
        /\ s[1] \in Spoken /\ Head(s) = s[1]
        /\ \A i \in 1 .. Len(t) : t[i] = s[i + 1] /\ i + 1 \in 1 .. Len(s)
    OBVIOUS
  <1>2. PICK n \in Nat : n = Len(t) /\ Len(s) = n + 1
    <2>1. Len(s) \in Nat /\ Len(s) > 0
      BY <1>1
    <2>2. Len(s) - 1 \in Nat /\ Len(s) = (Len(s) - 1) + 1
      BY <2>1
    <2>3. Len(t) = Len(s) - 1
      BY <1>1
    <2> QED  BY <2>2, <2>3
  <1>3. \A i \in 1 .. n : t[i] = s[i + 1] /\ i + 1 \in 1 .. n + 1
    BY <1>1, <1>2
  <1>4. ASSUME NEW v \in 1 .. n + 1, NEW mode, SettlesA(s, now, v, mode)
        PROVE  SettlesA(t, now2, v - 1, mode)
    <2>0. 1 \in 1 .. v /\ v - 1 \in 0 .. n /\ \A y \in 1 .. v - 1 : y \in 1 .. n /\ y + 1 \in 1 .. v
      BY <1>2
    <2>1. CASE now = mode /\ \A y \in 1 .. v : ~OfMode(s[y])
      BY <1>3, <2>0, <2>1 DEF SettlesA
    <2>2. CASE \E z \in 1 .. v : /\ OfMode(s[z]) /\ ModeOf(s[z].what) = mode
                                 /\ \A y \in z + 1 .. v : ~OfMode(s[y])
      <3>1. PICK z \in 1 .. v : /\ OfMode(s[z]) /\ ModeOf(s[z].what) = mode
                                /\ \A y \in z + 1 .. v : ~OfMode(s[y])
        BY <2>2
      <3>2. CASE z = 1
        <4>1. now2 = mode
          BY <3>1, <3>2
        <4>2. \A y \in 1 .. v - 1 : y + 1 \in z + 1 .. v
          BY <3>2, <2>0
        <4>3. \A y \in 1 .. v - 1 : ~OfMode(t[y])
          BY <1>3, <2>0, <3>1, <4>2
        <4> QED  BY <4>1, <4>3 DEF SettlesA
      <3>3. CASE z # 1
        <4>1. z - 1 \in 1 .. v - 1 /\ (z - 1) + 1 = z
          BY <3>3
        <4>2. t[z - 1] = s[z]
          BY <1>3, <2>0, <4>1
        <4>3. ASSUME NEW y \in (z - 1) + 1 .. v - 1 PROVE ~OfMode(t[y])
          <5>1. y \in 1 .. v - 1 /\ y + 1 \in z + 1 .. v
            BY <3>3
          <5> QED  BY <1>3, <2>0, <3>1, <5>1
        <4> QED  BY <3>1, <4>1, <4>2, <4>3 DEF SettlesA
      <3> QED  BY <3>2, <3>3
    <2> QED  BY <1>4, <2>1, <2>2 DEF SettlesA
  <1> QED  BY <1>1, <1>2, <1>4

LEMMA TailReady ==
    ASSUME NEW s \in Seq(Spoken), s # <<>>, NEW t, t = Tail(s)
    PROVE  /\ \A v \in 1 .. Len(s) : /\ ReadyIn(t, v - 1) => ReadyIn(s, v)
                                     /\ LastIn(s, v) => LastIn(t, v - 1)
           /\ ReadyIn(t, 0) => ReadyIn(s, 0)
           /\ LastIn(s, 0) => LastIn(t, 0)
           /\ s[1].what = "%SCMNOTIFYEV" => ReadyIn(s, 0) /\ (LastIn(s, 0) => NoMode(t))
  <1>1. /\ t \in Seq(Spoken) /\ Len(t) = Len(s) - 1 /\ Len(s) \in Nat /\ Len(s) > 0
        /\ s[1] \in Spoken /\ Head(s) = s[1]
        /\ \A i \in 1 .. Len(t) : t[i] = s[i + 1] /\ i + 1 \in 1 .. Len(s)
    OBVIOUS
  <1>2. PICK n \in Nat : n = Len(t) /\ Len(s) = n + 1
    <2>1. Len(s) \in Nat /\ Len(s) > 0
      BY <1>1
    <2>2. Len(s) - 1 \in Nat /\ Len(s) = (Len(s) - 1) + 1
      BY <2>1
    <2>3. Len(t) = Len(s) - 1
      BY <1>1
    <2> QED  BY <2>2, <2>3
  <1>3. \A i \in 1 .. n : t[i] = s[i + 1] /\ i + 1 \in 1 .. n + 1
    BY <1>1, <1>2
  <1>5. ASSUME NEW v \in 0 .. n + 1, NEW w \in 0 .. n, w = v - 1 \/ (v = 0 /\ w = 0)
        PROVE  /\ ReadyIn(t, w) => ReadyIn(s, v)
               /\ LastIn(s, v) => LastIn(t, w)
    <2>1. \A y \in w + 1 .. n : y \in 1 .. n /\ y + 1 \in v + 1 .. n + 1
      BY <1>5
    <2>2. ReadyIn(t, w) => ReadyIn(s, v)
      BY <1>2, <1>3, <2>1 DEF ReadyIn
    <2>3. ASSUME LastIn(s, v), NEW y \in w + 1 .. n, t[y].what = "%SCMNOTIFYEV",
                 NEW z \in y + 1 .. n
          PROVE  ~OfMode(t[z])
      <3>1. /\ z \in 1 .. n /\ z + 1 \in (y + 1) + 1 .. n + 1
            /\ y \in 1 .. n /\ y + 1 \in v + 1 .. n + 1
        BY <2>1
      <3>2. s[y + 1].what = "%SCMNOTIFYEV" /\ t[z] = s[z + 1]
        BY <1>3, <2>3, <3>1
      <3> QED  BY <1>2, <2>3, <3>1, <3>2 DEF LastIn
    <2> QED  BY <1>2, <2>2, <2>3 DEF LastIn
  <1>6. \A v \in 1 .. n + 1 : v \in 0 .. n + 1 /\ v - 1 \in 0 .. n
    OBVIOUS
  <1>7. ASSUME s[1].what = "%SCMNOTIFYEV"
        PROVE  ReadyIn(s, 0) /\ (LastIn(s, 0) => NoMode(t))
    <2>1. 1 \in 0 + 1 .. n + 1 /\ \A z \in 1 .. n : z + 1 \in 1 + 1 .. n + 1
      OBVIOUS
    <2> QED  BY <1>2, <1>3, <1>7, <2>1 DEF ReadyIn, LastIn, NoMode
  <1>8. 0 \in 0 .. n + 1 /\ 0 \in 0 .. n
    OBVIOUS
  <1>9. (ReadyIn(t, 0) => ReadyIn(s, 0)) /\ (LastIn(s, 0) => LastIn(t, 0))
    BY <1>5, <1>8
  <1>10. \A v \in 1 .. n + 1 : (ReadyIn(t, v - 1) => ReadyIn(s, v))
                             /\ (LastIn(s, v) => LastIn(t, v - 1))
    BY <1>5, <1>6
  <1> QED  BY <1>2, <1>7, <1>9, <1>10

-----------------------------------------------------------------------------
(* The functions, step by step.                                            *)
AsksA(op, k, n, step) ==
    \E command \in CommandsA :
        /\ step = AskA(command)
        /\ \/ op = "InitByPin" /\ k = 4 /\ n = 4 /\ command = "CGMR"
           \/ op = "InitByUart" /\ k = 6 /\ n = 6 /\ command = "CGMR"
           \/ op = "PinWakeUp" /\ k = 2 /\ n = 4 /\ command = "sleepSet disable"
           \/ op = "SetPowerMode" /\ k = 3 /\ n = 5 /\ command = "pwrMode"
           \/ op = "EnableSleep" /\ k = 3 /\ n = 3 /\ command = "sleepSet enable"
           \/ op = "FactoryReset" /\ k = 1 /\ n = 3 /\ command = "F0"
           \/ op = "Reset" /\ k = 1 /\ n = 1 /\ command = "RESET"
           \/ op = "Set" /\ k = 1 /\ n = 1 /\ command = "CFUN"
           \/ op = "Get" /\ k = 1 /\ n = 1 /\ command = "CGMI"
TriesA(op, k, n, step) ==
    /\ op = "InitByUart" /\ n = 6
    /\ \/ k = 2 /\ step = Try("", 0)
       \/ k = 3 /\ step = Try("RESET", 1)
TellsA(op, k, n, step) ==
    \/ op = "InitByUart" /\ k = 4 /\ n = 6 /\ step = Tell("reset all")
    \/ op = "PinWakeUp" /\ k = 3 /\ n = 4 /\ step = Tell("map")
    \/ op = "SetPowerMode" /\ k = 1 /\ n = 5 /\ step = Tell("ctrl-D")
    \/ op = "SetPowerMode" /\ k = 4 /\ n = 5 /\ step = Tell("map")
    \/ op = "EnableSleep" /\ k = 1 /\ n = 3 /\ step = Tell("ctrl-D")
UntilsA(op, k, n, step) ==
    \/ op = "InitByPin" /\ k = 3 /\ n = 4 /\ step = Until("Ready")
    \/ op = "InitByUart" /\ k = 5 /\ n = 6 /\ step = Until("Ready")
    \/ op = "SetPowerMode" /\ k = 2 /\ n = 5 /\ step = Until("Off")
    \/ op = "SetPowerMode" /\ k = 5 /\ n = 5 /\ step = Until("Ready")
    \/ op = "EnableSleep" /\ k = 2 /\ n = 3 /\ step = Until("Off")
    \/ op = "FactoryReset" /\ k = 2 /\ n = 3 /\ step = Until("Off")
    \/ op = "FactoryReset" /\ k = 3 /\ n = 3 /\ step = Until("Ready")
DoesA(op, k, n, step) ==
    \/ op = "InitByPin" /\ k = 1 /\ n = 4 /\ step = DoA("open")
    \/ op = "InitByPin" /\ k = 2 /\ n = 4 /\ step = DoA("pin")
    \/ op = "InitByUart" /\ k = 1 /\ n = 6 /\ step = DoA("open")
    \/ op = "Deinit" /\ k = 1 /\ n = 1 /\ step = DoA("close")
    \/ op = "PinReset" /\ k = 1 /\ n = 1 /\ step = DoA("pin")
    \/ op = "PinWakeUp" /\ k = 1 /\ n = 4 /\ step = DoA("wake")
    \/ op = "PinWakeUp" /\ k = 4 /\ n = 4 /\ step = DoA("awake")

LEMMA LeaveA ==
    ASSUME NEW a, NEW b, NEW c, NEW d, NEW e
    PROVE  /\ <<a, b>> \o <<c, d, e>> = <<a, b, c, d, e>>
           /\ <<a, b>> \o <<c>> = <<a, b, c>>
  <1>1. PICK S : S = {a, b, c, d, e}
    OBVIOUS
  <1>2. ASSUME NEW s \in Seq(S), NEW t \in Seq(S), Len(s) = Len(t),
               \A i \in 1 .. Len(s) : s[i] = t[i]
        PROVE  s = t
    BY <1>2
  <1>3. PICK x, y, z : x = <<a, b>> /\ y = <<c, d, e>> /\ z = <<c>>
    OBVIOUS
  <1>4. /\ x \in Seq(S) /\ Len(x) = 2 /\ x[1] = a /\ x[2] = b
        /\ y \in Seq(S) /\ Len(y) = 3 /\ y[1] = c /\ y[2] = d /\ y[3] = e
        /\ z \in Seq(S) /\ Len(z) = 1 /\ z[1] = c
    BY <1>1, <1>3
  <1>7. x \in Seq(S) /\ y \in Seq(S) /\ z \in Seq(S)
    BY <1>4
  <1>5. x \o y = <<a, b, c, d, e>>
    <2>1. PICK s, t : s = x \o y /\ t = <<a, b, c, d, e>>
      OBVIOUS
    <2>2. /\ s \in Seq(S) /\ Len(s) = Len(x) + Len(y) /\ \A i \in 1 .. Len(x) : s[i] = x[i]
          /\ \A i \in 1 .. Len(y) : s[Len(x) + i] = y[i]
      BY <1>7, <2>1
    <2>3. s[1] = a /\ s[2] = b /\ s[2 + 1] = c /\ s[2 + 2] = d /\ s[2 + 3] = e
      <3>1. /\ \A i \in 1 .. 2 : s[i] = x[i]
            /\ \A i \in 1 .. 3 : s[2 + i] = y[i]
        BY <1>4, <2>2
      <3>2. /\ 1 \in 1 .. 2 /\ 2 \in 1 .. 2
            /\ 1 \in 1 .. 3 /\ 2 \in 1 .. 3 /\ 3 \in 1 .. 3
        OBVIOUS
      <3> QED  BY <1>4, <3>1, <3>2, Zenon
    <2>4. s[1] = a /\ s[2] = b /\ s[3] = c /\ s[4] = d /\ s[5] = e
      BY <2>3
    <2>5. /\ t \in Seq(S) /\ Len(t) = 5 /\ t[1] = a /\ t[2] = b /\ t[3] = c /\ t[4] = d
          /\ t[5] = e
      BY <1>1, <2>1
    <2>6. \A i \in 1 .. 5 : i = 1 \/ i = 2 \/ i = 3 \/ i = 4 \/ i = 5
      OBVIOUS
    <2>7. \A i \in 1 .. 5 : s[i] = t[i]
      BY <2>4, <2>5, <2>6
    <2>8. Len(s) = 5
      BY <1>4, <2>2
    <2> QED  BY <1>2, <2>1, <2>2, <2>5, <2>7, <2>8
  <1>6. x \o z = <<a, b, c>>
    <2>1. PICK s, t : s = x \o z /\ t = <<a, b, c>>
      OBVIOUS
    <2>2. /\ s \in Seq(S) /\ Len(s) = Len(x) + Len(z) /\ \A i \in 1 .. Len(x) : s[i] = x[i]
          /\ \A i \in 1 .. Len(z) : s[Len(x) + i] = z[i]
      BY <1>7, <2>1
    <2>3. s[1] = a /\ s[2] = b /\ s[2 + 1] = c
      <3>1. /\ \A i \in 1 .. 2 : s[i] = x[i]
            /\ \A i \in 1 .. 1 : s[2 + i] = z[i]
        BY <1>4, <2>2
      <3>2. 1 \in 1 .. 2 /\ 2 \in 1 .. 2 /\ 1 \in 1 .. 1
        OBVIOUS
      <3> QED  BY <1>4, <3>1, <3>2, Zenon
    <2>4. s[1] = a /\ s[2] = b /\ s[3] = c /\ Len(s) = 3
      BY <1>4, <2>2, <2>3
    <2>5. t \in Seq(S) /\ Len(t) = 3 /\ t[1] = a /\ t[2] = b /\ t[3] = c
      BY <1>1, <2>1
    <2>6. \A i \in 1 .. 3 : i = 1 \/ i = 2 \/ i = 3
      OBVIOUS
    <2>7. \A i \in 1 .. 3 : s[i] = t[i]
      BY <2>4, <2>5, <2>6
    <2> QED  BY <1>2, <2>1, <2>2, <2>4, <2>5, <2>7
  <1> QED  BY <1>3, <1>5, <1>6

LEMMA FunctionsA ==
    /\ DOMAIN ScriptA = {"InitByPin", "InitByUart", "Deinit", "PinReset", "PinWakeUp",
                         "SetPowerMode", "EnableSleep", "FactoryReset", "Reset", "Set", "Get"}
    /\ ScriptA["InitByPin"] = <<DoA("open"), DoA("pin"), Until("Ready"), AskA("CGMR")>>
    /\ ScriptA["InitByUart"] = <<DoA("open"), Try("", 0), Try("RESET", 1),
                                 Tell("reset all"), Until("Ready"), AskA("CGMR")>>
    /\ ScriptA["Deinit"] = <<DoA("close")>> /\ ScriptA["PinReset"] = <<DoA("pin")>>
    /\ ScriptA["PinWakeUp"] = <<DoA("wake"), AskA("sleepSet disable"), Tell("map"),
                                DoA("awake")>>
    /\ ScriptA["SetPowerMode"] = <<Tell("ctrl-D"), Until("Off"), AskA("pwrMode"),
                                   Tell("map"), Until("Ready")>>
    /\ ScriptA["EnableSleep"] = <<Tell("ctrl-D"), Until("Off"), AskA("sleepSet enable")>>
    /\ ScriptA["FactoryReset"] = <<AskA("F0"), Until("Off"), Until("Ready")>>
    /\ ScriptA["Reset"] = <<AskA("RESET")>> /\ ScriptA["Set"] = <<AskA("CFUN")>>
    /\ ScriptA["Get"] = <<AskA("CGMI")>>
  <1>1. /\ DOMAIN ScriptA = {"InitByPin", "InitByUart", "Deinit", "PinReset", "PinWakeUp",
                         "SetPowerMode", "EnableSleep", "FactoryReset", "Reset", "Set", "Get"}
    BY DEF ScriptA
  <1>2. /\ ScriptA["InitByPin"] = <<DoA("open"), DoA("pin"), Until("Ready"), AskA("CGMR")>>
        /\ ScriptA["InitByUart"] = <<DoA("open"), Try("", 0), Try("RESET", 1),
                                 Tell("reset all"), Until("Ready"), AskA("CGMR")>>
        /\ ScriptA["Deinit"] = <<DoA("close")>> /\ ScriptA["PinReset"] = <<DoA("pin")>>
        /\ ScriptA["PinWakeUp"] = PinWakeUp
        /\ ScriptA["SetPowerMode"] =
              LeaveMap \o <<AskA("pwrMode"), Tell("map"), Until("Ready")>>
        /\ ScriptA["EnableSleep"] = LeaveMap \o <<AskA("sleepSet enable")>>
        /\ ScriptA["FactoryReset"] = FactoryReset
        /\ ScriptA["Reset"] = <<AskA("RESET")>> /\ ScriptA["Set"] = <<AskA("CFUN")>>
        /\ ScriptA["Get"] = <<AskA("CGMI")>>
    BY DEF ScriptA
  <1>3. <<Tell("ctrl-D"), Until("Off")>> \o <<AskA("pwrMode"), Tell("map"), Until("Ready")>> =
          <<Tell("ctrl-D"), Until("Off"), AskA("pwrMode"), Tell("map"), Until("Ready")>>
    <2>1. PICK a, b, c, d, e : /\ a = Tell("ctrl-D") /\ b = Until("Off")
                               /\ c = AskA("pwrMode") /\ d = Tell("map") /\ e = Until("Ready")
      OBVIOUS
    <2>2. /\ <<a, b>> \o <<c, d, e>> = <<a, b, c, d, e>>
          /\ <<a, b>> \o <<c>> = <<a, b, c>>
      BY LeaveA
    <2> QED  BY <2>1, <2>2, Zenon
  <1>4. <<Tell("ctrl-D"), Until("Off")>> \o <<AskA("sleepSet enable")>> =
          <<Tell("ctrl-D"), Until("Off"), AskA("sleepSet enable")>>
    <2>1. PICK a, b, c : a = Tell("ctrl-D") /\ b = Until("Off") /\ c = AskA("sleepSet enable")
      OBVIOUS
    <2>2. <<a, b>> \o <<c>> = <<a, b, c>>
      BY LeaveA, Zenon
    <2> QED  BY <2>1, <2>2, Zenon
  <1>5. /\ LeaveMap \o <<AskA("pwrMode"), Tell("map"), Until("Ready")>> =
             <<Tell("ctrl-D"), Until("Off"), AskA("pwrMode"), Tell("map"), Until("Ready")>>
        /\ LeaveMap \o <<AskA("sleepSet enable")>> =
             <<Tell("ctrl-D"), Until("Off"), AskA("sleepSet enable")>>
    BY <1>3, <1>4, Zenon DEF LeaveMap
  <1> QED  BY <1>1, <1>2, <1>5, Zenon DEF PinWakeUp, FactoryReset

StepKind(op, k, n, step) ==
    \/ AsksA(op, k, n, step) \/ TriesA(op, k, n, step) \/ TellsA(op, k, n, step)
    \/ UntilsA(op, k, n, step) \/ DoesA(op, k, n, step)

LEMMA KindsA ==
    ASSUME NEW op \in DOMAIN ScriptA
    PROVE  /\ Len(ScriptA[op]) \in Nat /\ Len(ScriptA[op]) > 0
           /\ DOMAIN ScriptA[op] = 1 .. Len(ScriptA[op])
           /\ \A k \in DOMAIN ScriptA[op] : StepKind(op, k, Len(ScriptA[op]), ScriptA[op][k])
  <1> DEFINE Good(s) == /\ Len(s) \in Nat /\ Len(s) > 0 /\ DOMAIN s = 1 .. Len(s)
                        /\ \A k \in DOMAIN s : StepKind(op, k, Len(s), s[k])
  <1>1. ASSUME NEW a, StepKind(op, 1, 1, a) PROVE Good(<<a>>)
    <2>1. /\ Len(<<a>>) = 1 /\ DOMAIN <<a>> = 1 .. 1 /\ <<a>>[1] = a
          /\ \A k \in 1 .. 1 : k = 1
      OBVIOUS
    <2> QED  BY <1>1, <2>1
  <1>2. ASSUME NEW a, NEW b, NEW c, StepKind(op, 1, 3, a), StepKind(op, 2, 3, b),
               StepKind(op, 3, 3, c)
        PROVE  Good(<<a, b, c>>)
    <2>1. PICK s : s = <<a, b, c>>
      OBVIOUS
    <2>2. /\ Len(s) = 3 /\ DOMAIN s = 1 .. 3 /\ s[1] = a /\ s[2] = b /\ s[3] = c
          /\ \A k \in 1 .. 3 : k = 1 \/ k = 2 \/ k = 3
      BY <2>1
    <2>3. Good(s)
      BY <1>2, <2>2
    <2> QED  BY <2>1, <2>3
  <1>3. ASSUME NEW a, NEW b, NEW c, NEW d, StepKind(op, 1, 4, a), StepKind(op, 2, 4, b),
               StepKind(op, 3, 4, c), StepKind(op, 4, 4, d)
        PROVE  Good(<<a, b, c, d>>)
    <2>1. PICK s : s = <<a, b, c, d>>
      OBVIOUS
    <2>2. /\ Len(s) = 4 /\ DOMAIN s = 1 .. 4 /\ s[1] = a /\ s[2] = b /\ s[3] = c /\ s[4] = d
          /\ \A k \in 1 .. 4 : k = 1 \/ k = 2 \/ k = 3 \/ k = 4
      BY <2>1
    <2>3. Good(s)
      BY <1>3, <2>2
    <2> QED  BY <2>1, <2>3
  <1>4. ASSUME NEW a, NEW b, NEW c, NEW d, NEW e, StepKind(op, 1, 5, a),
               StepKind(op, 2, 5, b), StepKind(op, 3, 5, c), StepKind(op, 4, 5, d),
               StepKind(op, 5, 5, e)
        PROVE  Good(<<a, b, c, d, e>>)
    <2>1. PICK s : s = <<a, b, c, d, e>>
      OBVIOUS
    <2>2. /\ Len(s) = 5 /\ DOMAIN s = 1 .. 5 /\ s[1] = a /\ s[2] = b /\ s[3] = c /\ s[4] = d
          /\ s[5] = e /\ \A k \in 1 .. 5 : k = 1 \/ k = 2 \/ k = 3 \/ k = 4 \/ k = 5
      BY <2>1
    <2>3. Good(s)
      BY <1>4, <2>2
    <2> QED  BY <2>1, <2>3
  <1>5. ASSUME NEW a, NEW b, NEW c, NEW d, NEW e, NEW f, StepKind(op, 1, 6, a),
               StepKind(op, 2, 6, b), StepKind(op, 3, 6, c), StepKind(op, 4, 6, d),
               StepKind(op, 5, 6, e), StepKind(op, 6, 6, f)
        PROVE  Good(<<a, b, c, d, e, f>>)
    <2>1. PICK s : s = <<a, b, c, d, e, f>>
      OBVIOUS
    <2>2. /\ Len(s) = 6 /\ DOMAIN s = 1 .. 6 /\ s[1] = a /\ s[2] = b /\ s[3] = c /\ s[4] = d
          /\ s[5] = e /\ s[6] = f
          /\ \A k \in 1 .. 6 : k = 1 \/ k = 2 \/ k = 3 \/ k = 4 \/ k = 5 \/ k = 6
      BY <2>1
    <2>3. Good(s)
      BY <1>5, <2>2
    <2> QED  BY <2>1, <2>3
  <1> SUFFICES Good(ScriptA[op])
    OBVIOUS
  <1> HIDE DEF Good
  <1>6. CASE op = "InitByPin"
    <2>1. /\ StepKind(op, 1, 4, DoA("open")) /\ StepKind(op, 2, 4, DoA("pin"))
          /\ StepKind(op, 3, 4, Until("Ready")) /\ StepKind(op, 4, 4, AskA("CGMR"))
      BY <1>6 DEF StepKind, DoesA, UntilsA, AsksA, CommandsA
    <2>2. Good(<<DoA("open"), DoA("pin"), Until("Ready"), AskA("CGMR")>>)
      BY <1>3, <2>1
    <2> QED  BY <1>6, <2>2, FunctionsA, Zenon
  <1>7. CASE op = "InitByUart"
    <2>1. /\ StepKind(op, 1, 6, DoA("open")) /\ StepKind(op, 2, 6, Try("", 0))
          /\ StepKind(op, 3, 6, Try("RESET", 1)) /\ StepKind(op, 4, 6, Tell("reset all"))
          /\ StepKind(op, 5, 6, Until("Ready")) /\ StepKind(op, 6, 6, AskA("CGMR"))
      BY <1>7 DEF StepKind, DoesA, TriesA, TellsA, UntilsA, AsksA, CommandsA
    <2>2. Good(<<DoA("open"), Try("", 0), Try("RESET", 1), Tell("reset all"),
                 Until("Ready"), AskA("CGMR")>>)
      BY <1>5, <2>1
    <2> QED  BY <1>7, <2>2, FunctionsA, Zenon
  <1>8. CASE op \in {"Deinit", "PinReset", "Reset", "Set", "Get"}
    <2>1. /\ op = "Deinit" => StepKind(op, 1, 1, DoA("close"))
          /\ op = "PinReset" => StepKind(op, 1, 1, DoA("pin"))
          /\ op = "Reset" => StepKind(op, 1, 1, AskA("RESET"))
          /\ op = "Set" => StepKind(op, 1, 1, AskA("CFUN"))
          /\ op = "Get" => StepKind(op, 1, 1, AskA("CGMI"))
      BY DEF StepKind, DoesA, AsksA, CommandsA
    <2>2. /\ op = "Deinit" => Good(<<DoA("close")>>)
          /\ op = "PinReset" => Good(<<DoA("pin")>>)
          /\ op = "Reset" => Good(<<AskA("RESET")>>)
          /\ op = "Set" => Good(<<AskA("CFUN")>>)
          /\ op = "Get" => Good(<<AskA("CGMI")>>)
      BY <1>1, <2>1
    <2> QED  BY <1>8, <2>2, FunctionsA, Zenon
  <1>9. CASE op = "PinWakeUp"
    <2>1. /\ StepKind(op, 1, 4, DoA("wake")) /\ StepKind(op, 2, 4, AskA("sleepSet disable"))
          /\ StepKind(op, 3, 4, Tell("map")) /\ StepKind(op, 4, 4, DoA("awake"))
      BY <1>9 DEF StepKind, DoesA, TellsA, AsksA, CommandsA, MenuCommands
    <2>2. Good(<<DoA("wake"), AskA("sleepSet disable"), Tell("map"), DoA("awake")>>)
      BY <1>3, <2>1
    <2> QED  BY <1>9, <2>2, FunctionsA, Zenon
  <1>10. CASE op = "SetPowerMode"
    <2>1. /\ StepKind(op, 1, 5, Tell("ctrl-D")) /\ StepKind(op, 2, 5, Until("Off"))
          /\ StepKind(op, 3, 5, AskA("pwrMode")) /\ StepKind(op, 4, 5, Tell("map"))
          /\ StepKind(op, 5, 5, Until("Ready"))
      BY <1>10 DEF StepKind, TellsA, UntilsA, AsksA, CommandsA, MenuCommands
    <2>2. Good(<<Tell("ctrl-D"), Until("Off"), AskA("pwrMode"), Tell("map"), Until("Ready")>>)
      BY <1>4, <2>1
    <2> QED  BY <1>10, <2>2, FunctionsA, Zenon
  <1>11. CASE op = "EnableSleep"
    <2>1. /\ StepKind(op, 1, 3, Tell("ctrl-D")) /\ StepKind(op, 2, 3, Until("Off"))
          /\ StepKind(op, 3, 3, AskA("sleepSet enable"))
      BY <1>11 DEF StepKind, TellsA, UntilsA, AsksA, CommandsA, MenuCommands
    <2>2. Good(<<Tell("ctrl-D"), Until("Off"), AskA("sleepSet enable")>>)
      BY <1>2, <2>1
    <2> QED  BY <1>11, <2>2, FunctionsA, Zenon
  <1>12. CASE op = "FactoryReset"
    <2>1. /\ StepKind(op, 1, 3, AskA("F0")) /\ StepKind(op, 2, 3, Until("Off"))
          /\ StepKind(op, 3, 3, Until("Ready"))
      BY <1>12 DEF StepKind, UntilsA, AsksA, CommandsA
    <2>2. Good(<<AskA("F0"), Until("Off"), Until("Ready")>>)
      BY <1>2, <2>1
    <2> QED  BY <1>12, <2>2, FunctionsA, Zenon
  <1> QED  BY <1>6, <1>7, <1>8, <1>9, <1>10, <1>11, <1>12, FunctionsA

-----------------------------------------------------------------------------
(* The lines that the module says about a command.                         *)
VerdictA(l) == l.what \in Confirms \cup {"ERROR"}
GrantedA(l) == l.what \in Confirms
Grants(s)  == \E x \in 1 .. Len(s) : GrantedA(s[x])
AllMode(s) == \A x \in 1 .. Len(s) : OfMode(s[x])
Talk(s, n) == \A x \in 1 .. Len(s) : ~OfMode(s[x]) =>
                 /\ s[x].call = n
                 /\ VerdictA(s[x]) => \A y \in x + 1 .. Len(s) : OfMode(s[y])

Says(l, what) == l.what = what /\ l.call = calledA
Rest1(s, p, a)       == Len(s) = p + 1 /\ Says(s[p + 1], a)
Rest2(s, p, a, b)    == Len(s) = p + 2 /\ Says(s[p + 1], a) /\ Says(s[p + 2], b)
Rest3(s, p, a, b, c) == /\ Len(s) = p + 3 /\ Says(s[p + 1], a) /\ Says(s[p + 2], b)
                        /\ Says(s[p + 3], c)

LEMMA RemoveA ==
    ASSUME NEW S, NEW s \in Seq(S), NEW lost \in 1 .. Len(s), NEW r, r = RemoveAt(s, lost)
    PROVE  /\ r \in Seq(S) /\ Len(r) = Len(s) - 1
           /\ \A i \in 1 .. Len(r) : r[i] = IF i < lost THEN s[i] ELSE s[i + 1]
  <1>1. PICK n \in Nat : n = Len(s)
    OBVIOUS
  <1>2. PICK a, b : a = SubSeq(s, 1, lost - 1) /\ b = SubSeq(s, lost + 1, n)
    OBVIOUS
  <1>3. /\ a \in Seq(S) /\ Len(a) = lost - 1
        /\ \A i \in 1 .. lost - 1 : a[i] = s[i]
    BY <1>1, <1>2
  <1>4. /\ b \in Seq(S) /\ Len(b) = n - lost
        /\ \A i \in 1 .. n - lost : b[i] = s[lost + i]
    BY <1>1, <1>2
  <1>5. r = a \o b
    BY <1>1, <1>2 DEF RemoveAt
  <1>6. /\ r \in Seq(S) /\ Len(r) = Len(a) + Len(b)
        /\ \A i \in 1 .. Len(a) : r[i] = a[i]
        /\ \A i \in 1 .. Len(b) : r[Len(a) + i] = b[i]
    <2>1. a \in Seq(S) /\ b \in Seq(S)
      BY <1>3, <1>4
    <2> QED  BY <1>5, <2>1
  <1>7. Len(r) = n - 1
    BY <1>1, <1>3, <1>4, <1>6
  <1>8. ASSUME NEW i \in 1 .. n - 1 PROVE r[i] = IF i < lost THEN s[i] ELSE s[i + 1]
    <2>1. CASE i < lost
      BY <1>1, <1>3, <1>6, <2>1
    <2>2. CASE ~(i < lost)
      <3>1. PICK j \in 1 .. n - lost : j = i - (lost - 1)
        BY <1>1, <2>2
      <3>2. lost - 1 + j = i /\ lost + j = i + 1
        BY <1>1, <3>1
      <3>3. r[lost - 1 + j] = b[j]
        BY <1>3, <1>4, <1>6
      <3>4. b[j] = s[lost + j]
        BY <1>4
      <3> QED  BY <2>2, <3>2, <3>3, <3>4
    <2> QED  BY <2>1, <2>2
  <1> QED  BY <1>1, <1>6, <1>7, <1>8

(* The echo, the response and the verdict.                                 *)
LEMMA DialogueIs ==
    ASSUME NEW command \in CommandsA, NEW done \in BOOLEAN, NEW says,
           says = Dialogue(command, done),
           NEW closing, closing = IF done THEN Success(command) ELSE "ERROR"
    PROVE  /\ says \in Seq(Words)
           /\ command \in MenuCommands => Len(says) = 1 /\ says[1] = closing
           /\ command \notin MenuCommands /\ ~(done /\ command \in Queries_A) =>
                Len(says) = 2 /\ says[1] = command /\ says[2] = closing
           /\ command \in Queries_A => command \notin MenuCommands
           /\ command \in Queries_A /\ done =>
                Len(says) = 3 /\ says[1] = command /\ says[2] = "text" /\ says[3] = closing
           /\ closing \in Confirms \cup {"ERROR"} /\ closing \notin ModeLines
           /\ closing \in Confirms <=> done
           /\ closing \notin {command, "text"}
           /\ {command, "text"} \cap (ModeLines \cup Confirms \cup {"ERROR"}) = {}
           /\ command # "text"
           /\ command \in Queries_A => Success(command) = "OK"
  <1>1. /\ closing \in Confirms \cup {"ERROR"} /\ closing \notin ModeLines
        /\ closing \in Confirms <=> done
        /\ closing \in Words /\ command \in Words /\ "text" \in Words
        /\ closing \notin {command, "text"}
        /\ {command, "text"} \cap (ModeLines \cup Confirms \cup {"ERROR"}) = {}
        /\ command # "text"
        /\ command \in Queries_A => Success(command) = "OK" /\ command \notin MenuCommands
    <2>0. command \in Words /\ {"ERROR", "text"} \subseteq Words /\ Confirms \subseteq Words
      BY DEF Words
    <2>1. /\ command # "text"
          /\ {command, "text"} \cap (ModeLines \cup Confirms \cup {"ERROR"}) = {}
          /\ command \in Queries_A => Success(command) = "OK" /\ command \notin MenuCommands
      BY DEF CommandsA, MenuCommands, Success, Confirms, ModeLines, Queries_A
    <2>2. Success(command) \in {"OK", "Configured to", "Sleep -"}
      BY DEF Success
    <2>3. closing \in {"OK", "Configured to", "Sleep -", "ERROR"} /\ (done <=> closing # "ERROR")
      BY <2>2
    <2>4. /\ closing \in Confirms \cup {"ERROR"} /\ closing \notin ModeLines
          /\ closing \in Confirms <=> done
      BY <2>3 DEF Confirms, ModeLines
    <2>5. closing \in Words
      BY <2>0, <2>4
    <2> QED  BY <2>0, <2>1, <2>4, <2>5
  <1>2. PICK a, b, c : /\ a = IF command \in MenuCommands THEN <<>> ELSE <<command>>
                       /\ b = IF done /\ command \in Queries_A THEN <<"text">> ELSE <<>>
                       /\ c = <<closing>>
    OBVIOUS
  <1>3. says = (a \o b) \o c
    BY <1>2 DEF Dialogue
  <1>4. /\ a \in Seq(Words) /\ b \in Seq(Words)
        /\ c \in Seq(Words) /\ Len(c) = 1 /\ c[1] = closing
        /\ command \in MenuCommands => Len(a) = 0
        /\ command \notin MenuCommands => Len(a) = 1 /\ a[1] = command
        /\ done /\ command \in Queries_A => Len(b) = 1 /\ b[1] = "text"
        /\ ~(done /\ command \in Queries_A) => Len(b) = 0
    <2>1. c \in Seq(Words) /\ Len(c) = 1 /\ c[1] = closing
      BY <1>1, <1>2
    <2>2. /\ a \in Seq(Words)
          /\ command \in MenuCommands => Len(a) = 0
          /\ command \notin MenuCommands => Len(a) = 1 /\ a[1] = command
      <3>1. CASE command \in MenuCommands
        <4>1. a = <<>>
          BY <1>2, <3>1
        <4> QED  BY <3>1, <4>1
      <3>2. CASE command \notin MenuCommands
        <4>1. a = <<command>> /\ command \in Words
          BY <1>1, <1>2, <3>2
        <4>2. a \in Seq(Words) /\ Len(a) = 1 /\ a[1] = command
          BY <4>1
        <4> QED  BY <3>2, <4>2
      <3> QED  BY <3>1, <3>2
    <2>3. /\ b \in Seq(Words)
          /\ done /\ command \in Queries_A => Len(b) = 1 /\ b[1] = "text"
          /\ ~(done /\ command \in Queries_A) => Len(b) = 0
      <3>1. CASE done /\ command \in Queries_A
        <4>1. b = <<"text">>
          BY <1>2, <3>1
        <4>2. b \in Seq(Words) /\ Len(b) = 1 /\ b[1] = "text"
          BY <1>1, <4>1
        <4> QED  BY <3>1, <4>2
      <3>2. CASE ~(done /\ command \in Queries_A)
        <4>1. b = <<>>
          BY <1>2, <3>2
        <4> QED  BY <3>2, <4>1
      <3> QED  BY <3>1, <3>2
    <2> QED  BY <2>1, <2>2, <2>3
  <1>5. PICK d : d = a \o b
    OBVIOUS
  <1>6. /\ d \in Seq(Words) /\ Len(d) = Len(a) + Len(b)
        /\ \A i \in 1 .. Len(a) : d[i] = a[i]
        /\ \A i \in 1 .. Len(b) : d[Len(a) + i] = b[i]
    <2>1. a \in Seq(Words) /\ b \in Seq(Words)
      BY <1>4
    <2> QED  BY <1>5, <2>1
  <1>7. /\ says \in Seq(Words) /\ Len(says) = Len(d) + Len(c)
        /\ \A i \in 1 .. Len(d) : says[i] = d[i]
        /\ \A i \in 1 .. Len(c) : says[Len(d) + i] = c[i]
    <2>1. d \in Seq(Words) /\ c \in Seq(Words) /\ says = d \o c
      BY <1>3, <1>4, <1>5, <1>6
    <2> QED  BY <2>1
  <1>8. Len(c) = 1 /\ says[Len(d) + 1] = closing
    <2>1. 1 \in 1 .. Len(c)
      BY <1>4
    <2> QED  BY <1>4, <1>7, <2>1
  <1>9. CASE command \in MenuCommands
    <2>1. Len(a) = 0 /\ Len(b) = 0 /\ Len(d) = 0
      BY <1>1, <1>4, <1>6, <1>9
    <2> QED  BY <1>1, <1>7, <1>8, <1>9, <2>1
  <1>10. CASE command \notin MenuCommands /\ ~(done /\ command \in Queries_A)
    <2>1. Len(a) = 1 /\ Len(b) = 0 /\ Len(d) = 1 /\ a[1] = command
      BY <1>4, <1>6, <1>10
    <2>2. 1 \in 1 .. Len(a) /\ 1 \in 1 .. Len(d)
      BY <2>1
    <2>3. says[1] = command
      BY <1>6, <1>7, <2>1, <2>2
    <2> QED  BY <1>1, <1>7, <1>8, <1>10, <2>1, <2>3
  <1>11. CASE done /\ command \in Queries_A
    <2>0. command \notin MenuCommands
      BY <1>1, <1>11
    <2>5. Len(a) = 1 /\ Len(b) = 1 /\ a[1] = command /\ b[1] = "text"
      BY <1>4, <1>11, <2>0
    <2>1. Len(a) = 1 /\ Len(b) = 1 /\ Len(d) = 2 /\ a[1] = command /\ b[1] = "text"
      BY <1>6, <2>5
    <2>2. 1 \in 1 .. Len(a) /\ 1 \in 1 .. Len(b) /\ 1 \in 1 .. Len(d) /\ 2 \in 1 .. Len(d)
      BY <2>1
    <2>3. d[1] = command /\ d[1 + 1] = "text"
      BY <1>6, <2>1, <2>2
    <2>4. says[1] = command /\ says[2] = "text"
      BY <1>7, <2>2, <2>3
    <2>6. Len(says) = 3 /\ says[3] = closing
      BY <1>7, <1>8, <2>1
    <2> QED  BY <1>1, <1>7, <1>11, <2>0, <2>4, <2>6
  <1> QED  BY <1>9, <1>10, <1>11

(* What of it is heard: one line may be missing.                           *)
LEMMA HeardIs ==
    ASSUME calledA \in Nat, NEW command \in CommandsA, NEW done \in BOOLEAN, NEW says,
           says = Dialogue(command, done), NEW lost \in {0} \cup DOMAIN says, NEW heard,
           heard = IF lost = 0 THEN says ELSE RemoveAt(says, lost),
           NEW r, r = [i \in DOMAIN heard |-> Line(heard[i])]
    PROVE  /\ r \in Seq(Spoken) /\ NoMode(r) /\ Talk(r, calledA)
           /\ Grants(r) <=> (done /\ Success(command) \in Range(heard))
           /\ Grants(r) => Len(r) > 0 /\ GrantedA(r[Len(r)])
           /\ command \in Queries_A /\ Grants(r) =>
                \/ Rest3(r, 0, command, "text", "OK")
                \/ lost # 0 /\ (Rest2(r, 0, "text", "OK") \/ Rest2(r, 0, command, "OK"))
  <1>1. PICK closing : closing = IF done THEN Success(command) ELSE "ERROR"
    OBVIOUS
  <1>2. /\ says \in Seq(Words)
        /\ command \in MenuCommands => Len(says) = 1 /\ says[1] = closing
        /\ command \notin MenuCommands /\ ~(done /\ command \in Queries_A) =>
             Len(says) = 2 /\ says[1] = command /\ says[2] = closing
        /\ command \in Queries_A => command \notin MenuCommands
        /\ command \in Queries_A /\ done =>
             Len(says) = 3 /\ says[1] = command /\ says[2] = "text" /\ says[3] = closing
        /\ closing \in Confirms \cup {"ERROR"} /\ closing \notin ModeLines
        /\ closing \in Confirms <=> done
        /\ closing \notin {command, "text"}
        /\ {command, "text"} \cap (ModeLines \cup Confirms \cup {"ERROR"}) = {}
        /\ command # "text"
        /\ command \in Queries_A => Success(command) = "OK"
    BY <1>1, DialogueIs
  <1>3. PICK n \in Nat : n = Len(says) /\ DOMAIN says = 1 .. n
    BY <1>2
  <1>4. /\ heard \in Seq(Words)
        /\ lost = 0 => heard = says
        /\ lost # 0 => /\ lost \in 1 .. n /\ Len(heard) = n - 1
                       /\ \A i \in 1 .. n - 1 :
                            heard[i] = IF i < lost THEN says[i] ELSE says[i + 1]
    <2>1. CASE lost = 0
      BY <1>2, <2>1
    <2>2. CASE lost # 0
      <3>1. lost \in 1 .. Len(says) /\ heard = RemoveAt(says, lost)
        BY <1>3, <2>2
      <3>2. /\ heard \in Seq(Words) /\ Len(heard) = Len(says) - 1
            /\ \A i \in 1 .. Len(heard) :
                 heard[i] = IF i < lost THEN says[i] ELSE says[i + 1]
        BY <1>2, <3>1, RemoveA
      <3> QED  BY <1>3, <2>2, <3>1, <3>2
    <2> QED  BY <2>1, <2>2
  <1>5. PICK m \in Nat : m = Len(heard) /\ DOMAIN heard = 1 .. m
    BY <1>4
  <1>6. /\ \A i \in 1 .. m : heard[i] \in {command, "text", closing}
        /\ \A i \in 1 .. m : heard[i] = closing => i = m
        /\ command \in Queries_A /\ done =>
             /\ lost = 0 => m = 3 /\ heard[1] = command /\ heard[2] = "text" /\ heard[3] = closing
             /\ lost # 0 => /\ m = 2
                            /\ \/ heard[1] = "text" /\ heard[2] = closing
                               \/ heard[1] = command /\ heard[2] = closing
                               \/ heard[1] = command /\ heard[2] = "text"
    <2>1. CASE command \in MenuCommands
      <3>1. n = 1 /\ says[1] = closing /\ command \notin Queries_A
        BY <1>2, <1>3, <2>1
      <3>2. CASE lost = 0
        BY <1>3, <1>4, <1>5, <3>1, <3>2
      <3>3. CASE lost # 0
        <4>1. m = 0
          BY <1>4, <1>5, <3>1, <3>3
        <4> QED  BY <3>1, <4>1
      <3> QED  BY <3>2, <3>3
    <2>2. CASE command \notin MenuCommands /\ ~(done /\ command \in Queries_A)
      <3>1. n = 2 /\ says[1] = command /\ says[2] = closing /\ closing # command
        BY <1>2, <1>3, <2>2
      <3>2. CASE lost = 0
        <4>1. m = 2 /\ heard[1] = command /\ heard[2] = closing
          BY <1>3, <1>4, <1>5, <3>1, <3>2
        <4>2. \A i \in 1 .. 2 : i = 1 \/ i = 2
          OBVIOUS
        <4> QED  BY <2>2, <3>1, <4>1, <4>2
      <3>3. CASE lost # 0
        <4>1. m = 1 /\ heard[1] \in {command, closing}
          <5>1. m = 1 /\ 1 \in 1 .. 2 - 1 /\ 1 + 1 = 2
            BY <1>4, <1>5, <3>1, <3>3
          <5>2. heard[1] = IF 1 < lost THEN says[1] ELSE says[1 + 1]
            BY <1>4, <3>1, <3>3, <5>1
          <5> QED  BY <3>1, <5>1, <5>2
        <4>2. \A i \in 1 .. 1 : i = 1
          OBVIOUS
        <4> QED  BY <2>2, <4>1, <4>2
      <3> QED  BY <3>2, <3>3
    <2>3. CASE done /\ command \in Queries_A
      <3>1. /\ n = 3 /\ says[1] = command /\ says[2] = "text" /\ says[3] = closing
            /\ closing # command /\ closing # "text"
        BY <1>2, <1>3, <2>3
      <3>2. CASE lost = 0
        <4>1. m = 3 /\ heard[1] = command /\ heard[2] = "text" /\ heard[3] = closing
          BY <1>3, <1>4, <1>5, <3>1, <3>2
        <4>2. \A i \in 1 .. 3 : i = 1 \/ i = 2 \/ i = 3
          OBVIOUS
        <4> QED  BY <3>1, <3>2, <4>1, <4>2
      <3>3. CASE lost # 0
        <4>1. m = 2 /\ lost \in 1 .. 3 /\ 1 \in 1 .. 3 - 1 /\ 2 \in 1 .. 3 - 1
          BY <1>4, <1>5, <3>1, <3>3
        <4>2. /\ heard[1] = IF 1 < lost THEN says[1] ELSE says[1 + 1]
              /\ heard[2] = IF 2 < lost THEN says[2] ELSE says[2 + 1]
          BY <1>4, <3>1, <3>3, <4>1
        <4>3. \/ heard[1] = "text" /\ heard[2] = closing
              \/ heard[1] = command /\ heard[2] = closing
              \/ heard[1] = command /\ heard[2] = "text"
          <5>1. lost = 1 \/ lost = 2 \/ lost = 3
            BY <4>1
          <5> QED  BY <3>1, <4>2, <5>1
        <4>4. \A i \in 1 .. 2 : i = 1 \/ i = 2
          OBVIOUS
        <4> QED  BY <3>1, <3>3, <4>1, <4>3, <4>4
      <3> QED  BY <3>2, <3>3
    <2> QED  BY <2>1, <2>2, <2>3
  <1>7. /\ r \in Seq(Spoken) /\ Len(r) = m
        /\ \A i \in 1 .. m : r[i].what = heard[i] /\ r[i].call = calledA
    <2>1. \A i \in 1 .. m : heard[i] \in Words
      BY <1>4, <1>5
    <2>2. \A i \in 1 .. m : r[i] = [what |-> heard[i], call |-> calledA]
      BY <1>5 DEF Line
    <2>3. \A i \in 1 .. m : r[i] \in Spoken
      <3> SUFFICES ASSUME NEW i \in 1 .. m PROVE r[i] \in Spoken
        OBVIOUS
      <3>1. PICK w, l : w \in Words /\ w = heard[i] /\ l = r[i]
        BY <2>1
      <3>2. l = [what |-> w, call |-> calledA]
        BY <2>2, <3>1
      <3>3. l \in Spoken
        BY <3>1, <3>2 DEF Spoken
      <3> QED  BY <3>1, <3>3
    <2>4. r = [i \in 1 .. m |-> Line(heard[i])]
      BY <1>5
    <2>5. r \in [1 .. m -> Spoken]
      BY <2>3, <2>4
    <2>6. r \in Seq(Spoken) /\ Len(r) = m
      BY <2>5
    <2>7. ASSUME NEW i \in 1 .. m PROVE r[i].what = heard[i] /\ r[i].call = calledA
      <3>1. r[i] = [what |-> heard[i], call |-> calledA]
        BY <2>2
      <3> QED  BY <3>1
    <2> QED  BY <2>6, <2>7
  <1>15. /\ closing \in Confirms \cup {"ERROR"} /\ closing \notin ModeLines
         /\ closing \in Confirms <=> done
         /\ command \notin ModeLines /\ "text" \notin ModeLines
         /\ command \notin Confirms \cup {"ERROR"} /\ "text" \notin Confirms \cup {"ERROR"}
    BY <1>2
  <1>16. ASSUME NEW i \in 1 .. m
         PROVE  /\ ~OfMode(r[i])
                /\ GrantedA(r[i]) <=> done /\ heard[i] = closing
                /\ VerdictA(r[i]) <=> heard[i] = closing
    <2>1. r[i].what = heard[i] /\ heard[i] \in {command, "text", closing}
      BY <1>6, <1>7
    <2>2. CASE heard[i] = closing
      BY <1>15, <2>1, <2>2 DEF OfMode, GrantedA, VerdictA
    <2>3. CASE heard[i] # closing
      BY <1>15, <2>1, <2>3 DEF OfMode, GrantedA, VerdictA
    <2> QED  BY <2>2, <2>3
  <1>8. \A i \in 1 .. m : ~OfMode(r[i])
    BY <1>16
  <1>9. \A i \in 1 .. m : /\ GrantedA(r[i]) <=> done /\ heard[i] = closing
                          /\ VerdictA(r[i]) <=> heard[i] = closing
    BY <1>16
  <1>10. Talk(r, calledA)
    <2>1. \A i \in 1 .. m : VerdictA(r[i]) => \A y \in i + 1 .. m : OfMode(r[y])
      BY <1>6, <1>9
    <2>2. Len(r) = m /\ \A i \in 1 .. m : r[i].call = calledA
      BY <1>7
    <2> QED  BY <2>1, <2>2 DEF Talk
  <1>11. Grants(r) <=> (done /\ Success(command) \in Range(heard))
    <2>0. Len(r) = m
      BY <1>7
    <2>1. Grants(r) <=> \E i \in 1 .. m : done /\ heard[i] = closing
      BY <1>9, <2>0 DEF Grants
    <2>2. Success(command) \in Range(heard) <=> \E i \in 1 .. m : heard[i] = Success(command)
      BY <1>5 DEF Range
    <2> QED  BY <1>1, <2>1, <2>2
  <1>12. Grants(r) => done /\ m > 0 /\ m \in 1 .. m /\ heard[m] = closing
    <2>1. ASSUME Grants(r) PROVE done /\ m > 0 /\ m \in 1 .. m /\ heard[m] = closing
      <3>0. Len(r) = m
        BY <1>7
      <3>1. PICK i \in 1 .. m : done /\ heard[i] = closing
        BY <1>9, <2>1, <3>0 DEF Grants
      <3>2. i = m
        BY <1>6, <3>1
      <3>3. m > 0 /\ m \in 1 .. m
        BY <3>2
      <3> QED  BY <3>1, <3>2, <3>3
    <2> QED  BY <2>1
  <1>13. Grants(r) => Len(r) > 0 /\ GrantedA(r[Len(r)])
    BY <1>7, <1>9, <1>12
  <1>14. ASSUME command \in Queries_A, Grants(r)
         PROVE  \/ Rest3(r, 0, command, "text", "OK")
                \/ lost # 0 /\ (Rest2(r, 0, "text", "OK") \/ Rest2(r, 0, command, "OK"))
    <2>1. done /\ closing = "OK" /\ heard[m] = closing /\ closing # "text"
      BY <1>1, <1>2, <1>12, <1>14
    <2>2. CASE lost = 0
      <3>1. m = 3 /\ heard[1] = command /\ heard[2] = "text" /\ heard[3] = "OK"
        BY <1>6, <1>14, <2>1, <2>2
      <3>2. 1 \in 1 .. m /\ 2 \in 1 .. m /\ 3 \in 1 .. m
        BY <3>1
      <3> QED  BY <1>7, <3>1, <3>2 DEF Rest3, Says
    <2>3. CASE lost # 0
      <3>1. m = 2 /\ (heard[1] = "text" \/ heard[1] = command) /\ heard[2] = "OK"
        BY <1>6, <1>14, <2>1, <2>3
      <3>2. 1 \in 1 .. m /\ 2 \in 1 .. m
        BY <3>1
      <3>3. /\ Len(r) = 2 /\ r[1].what = heard[1] /\ r[2].what = heard[2]
            /\ r[1].call = calledA /\ r[2].call = calledA
        BY <1>7, <3>1, <3>2
      <3> QED  BY <2>3, <3>1, <3>3 DEF Rest2, Says
    <2> QED  BY <2>2, <2>3
  <1> QED  BY <1>7, <1>8, <1>10, <1>11, <1>13, <1>14 DEF NoMode

LEMMA AppendTalk ==
    ASSUME NEW s \in Seq(Spoken), NEW l \in Spoken, OfMode(l), NEW t, t = Append(s, l), NEW n
    PROVE  /\ Talk(s, n) => Talk(t, n)
           /\ AllMode(s) => AllMode(t)
           /\ Grants(t) <=> Grants(s)
  <1>1. PICK m \in Nat : m = Len(s) /\ Len(t) = m + 1 /\ t[m + 1] = l
    OBVIOUS
  <1>2. \A i \in 1 .. m + 1 : i = m + 1 \/ (i \in 1 .. m /\ t[i] = s[i])
    BY <1>1
  <1>3. ~GrantedA(l)
    BY DEF OfMode, GrantedA, ModeLines, Confirms
  <1>4. AllMode(s) => AllMode(t)
    BY <1>1, <1>2 DEF AllMode
  <1>5. Grants(t) <=> Grants(s)
    <2>1. \A i \in 1 .. m : i \in 1 .. m + 1 /\ i # m + 1
      OBVIOUS
    <2>2. \A i \in 1 .. m + 1 : GrantedA(t[i]) => i \in 1 .. m /\ GrantedA(s[i])
      BY <1>1, <1>2, <1>3
    <2>3. \A i \in 1 .. m : GrantedA(s[i]) => GrantedA(t[i])
      BY <1>2, <2>1
    <2> QED  BY <1>1, <2>1, <2>2, <2>3 DEF Grants
  <1>6. ASSUME Talk(s, n) PROVE Talk(t, n)
    <2>1. ASSUME NEW x \in 1 .. m + 1, ~OfMode(t[x])
          PROVE  /\ t[x].call = n
                 /\ VerdictA(t[x]) => \A y \in x + 1 .. m + 1 : OfMode(t[y])
      <3>1. x \in 1 .. m /\ t[x] = s[x]
        BY <1>1, <1>2, <2>1
      <3>2. /\ s[x].call = n
            /\ VerdictA(s[x]) => \A y \in x + 1 .. m : OfMode(s[y])
        BY <1>1, <1>6, <2>1, <3>1 DEF Talk
      <3>3. \A y \in x + 1 .. m + 1 : y \in 1 .. m + 1 /\ (y = m + 1 \/ y \in x + 1 .. m)
        BY <3>1
      <3>4. \A y \in x + 1 .. m + 1 : y = m + 1 \/ (y \in x + 1 .. m /\ t[y] = s[y])
        BY <1>2, <3>3
      <3> QED  BY <1>1, <3>1, <3>2, <3>4
    <2> QED  BY <1>1, <2>1 DEF Talk
  <1> QED  BY <1>4, <1>5, <1>6

LEMMA TailTalk ==
    ASSUME NEW s \in Seq(Spoken), s # <<>>, NEW t, t = Tail(s), NEW n
    PROVE  /\ Talk(s, n) => Talk(t, n) /\ (~OfMode(s[1]) => s[1].call = n)
           /\ Talk(s, n) /\ VerdictA(s[1]) => AllMode(t)
           /\ AllMode(s) => AllMode(t) /\ OfMode(s[1]) /\ ~Grants(s)
           /\ ~GrantedA(s[1]) => (Grants(t) <=> Grants(s))
           /\ GrantedA(s[1]) => Grants(s)
           /\ AllMode(t) => ~Grants(t)
  <1>1. PICK m \in Nat : m = Len(t) /\ Len(s) = m + 1
    OBVIOUS
  <1>2. \A i \in 1 .. m : t[i] = s[i + 1] /\ i + 1 \in 1 .. m + 1
    BY <1>1
  <1>3. 1 \in 1 .. m + 1
    BY <1>1
  <1>4. \A l : OfMode(l) => ~GrantedA(l) /\ ~VerdictA(l)
    BY DEF OfMode, GrantedA, VerdictA, ModeLines, Confirms
  <1>5. AllMode(s) => AllMode(t) /\ OfMode(s[1]) /\ ~Grants(s)
    BY <1>1, <1>2, <1>3, <1>4 DEF AllMode, Grants
  <1>6. AllMode(t) => ~Grants(t)
    BY <1>4 DEF AllMode, Grants
  <1>7. GrantedA(s[1]) => Grants(s)
    BY <1>1, <1>3 DEF Grants
  <1>8. ASSUME ~GrantedA(s[1]) PROVE Grants(t) <=> Grants(s)
    <2>1. \A i \in 1 .. m : GrantedA(t[i]) => GrantedA(s[i + 1])
      BY <1>2
    <2>2. Grants(t) => Grants(s)
      BY <1>1, <1>2, <2>1 DEF Grants
    <2>3. ASSUME NEW i \in 1 .. m + 1, GrantedA(s[i]) PROVE Grants(t)
      <3>1. i # 1
        BY <1>8, <2>3
      <3>2. i - 1 \in 1 .. m /\ (i - 1) + 1 = i
        BY <3>1
      <3>3. t[i - 1] = s[i]
        BY <1>2, <3>2
      <3> QED  BY <1>1, <2>3, <3>2, <3>3 DEF Grants
    <2> QED  BY <1>1, <2>2, <2>3 DEF Grants
  <1>9. ASSUME Talk(s, n)
        PROVE  /\ Talk(t, n) /\ (~OfMode(s[1]) => s[1].call = n)
               /\ VerdictA(s[1]) => AllMode(t)
    <2>1. \A x \in 1 .. m + 1 : ~OfMode(s[x]) =>
             /\ s[x].call = n
             /\ VerdictA(s[x]) => \A y \in x + 1 .. m + 1 : OfMode(s[y])
      BY <1>1, <1>9 DEF Talk
    <2>2. ASSUME NEW x \in 1 .. m, ~OfMode(t[x])
          PROVE  /\ t[x].call = n
                 /\ VerdictA(t[x]) => \A y \in x + 1 .. m : OfMode(t[y])
      <3>1. x + 1 \in 1 .. m + 1 /\ t[x] = s[x + 1]
        BY <1>2
      <3>2. \A y \in x + 1 .. m : y \in 1 .. m /\ y + 1 \in (x + 1) + 1 .. m + 1
        OBVIOUS
      <3>3. /\ s[x + 1].call = n
            /\ VerdictA(s[x + 1]) => \A y \in (x + 1) + 1 .. m + 1 : OfMode(s[y])
        BY <2>1, <2>2, <3>1
      <3>4. \A y \in x + 1 .. m : t[y] = s[y + 1]
        BY <1>2, <3>2
      <3> QED  BY <3>1, <3>2, <3>3, <3>4
    <2>3. Talk(t, n)
      BY <1>1, <2>2 DEF Talk
    <2>4. ~OfMode(s[1]) => s[1].call = n
      BY <1>3, <2>1
    <2>5. ASSUME VerdictA(s[1]) PROVE AllMode(t)
      <3>1. \A y \in 1 + 1 .. m + 1 : OfMode(s[y])
        BY <1>3, <1>4, <2>1, <2>5
      <3>2. \A i \in 1 .. m : i + 1 \in 1 + 1 .. m + 1
        OBVIOUS
      <3> QED  BY <1>1, <1>2, <3>1, <3>2 DEF AllMode
    <2> QED  BY <2>3, <2>4, <2>5
  <1> QED  BY <1>5, <1>6, <1>7, <1>8, <1>9

LEMMA ConcatTalk ==
    ASSUME NEW s \in Seq(Spoken), NEW r \in Seq(Spoken), NEW t, t = s \o r, NEW n, AllMode(s)
    PROVE  /\ Talk(r, n) => Talk(t, n)
           /\ Grants(t) <=> Grants(r)
  <1>0. Len(s) \in Nat /\ Len(r) \in Nat /\ Len(t) = Len(s) + Len(r)
    OBVIOUS
  <1>1. PICK k, m : k = Len(s) /\ m = Len(r) /\ k \in Nat /\ m \in Nat /\ Len(t) = k + m
    BY <1>0
  <1>2. /\ \A i \in 1 .. k : t[i] = s[i]
        /\ \A i \in 1 .. m : t[k + i] = r[i] /\ k + i \in 1 .. k + m
    BY <1>1
  <1>3. \A i \in 1 .. k : OfMode(t[i]) /\ ~GrantedA(t[i])
    <2>1. \A l : OfMode(l) => ~GrantedA(l)
      BY DEF OfMode, GrantedA, ModeLines, Confirms
    <2> QED  BY <1>1, <1>2, <2>1 DEF AllMode
  <1>4. \A x \in 1 .. k + m : x \notin 1 .. k =>
           x - k \in 1 .. m /\ t[x] = r[x - k]
    <2> SUFFICES ASSUME NEW x \in 1 .. k + m, x \notin 1 .. k
                 PROVE  x - k \in 1 .. m /\ t[x] = r[x - k]
      OBVIOUS
    <2>1. x - k \in 1 .. m /\ k + (x - k) = x
      BY <1>1
    <2> QED  BY <1>2, <2>1
  <1>5. Grants(t) <=> Grants(r)
    <2>1. ASSUME NEW x \in 1 .. k + m, GrantedA(t[x]) PROVE Grants(r)
      <3>1. x - k \in 1 .. m /\ t[x] = r[x - k]
        BY <1>3, <1>4, <2>1
      <3> QED  BY <1>1, <2>1, <3>1 DEF Grants
    <2>2. ASSUME NEW x \in 1 .. m, GrantedA(r[x]) PROVE Grants(t)
      <3>1. t[k + x] = r[x] /\ k + x \in 1 .. k + m
        BY <1>2
      <3> QED  BY <1>1, <2>2, <3>1 DEF Grants
    <2> QED  BY <1>1, <2>1, <2>2 DEF Grants
  <1>6. ASSUME Talk(r, n) PROVE Talk(t, n)
    <2>1. ASSUME NEW x \in 1 .. k + m, ~OfMode(t[x])
          PROVE  /\ t[x].call = n
                 /\ VerdictA(t[x]) => \A y \in x + 1 .. k + m : OfMode(t[y])
      <3>1. x - k \in 1 .. m /\ t[x] = r[x - k] /\ x \notin 1 .. k
        BY <1>3, <1>4, <2>1
      <3>2. /\ r[x - k].call = n
            /\ VerdictA(r[x - k]) => \A y \in (x - k) + 1 .. m : OfMode(r[y])
        BY <1>1, <1>6, <2>1, <3>1 DEF Talk
      <3>3. ASSUME NEW y \in x + 1 .. k + m
            PROVE  t[y] = r[y - k] /\ y - k \in (x - k) + 1 .. m
        <4>1. y \in 1 .. k + m /\ y \notin 1 .. k /\ y - k \in (x - k) + 1 .. m
          BY <1>1, <3>1
        <4> QED  BY <1>4, <4>1
      <3> QED  BY <3>1, <3>2, <3>3
    <2> QED  BY <1>1, <2>1 DEF Talk
  <1> QED  BY <1>5, <1>6

-----------------------------------------------------------------------------
TypeA ==
    /\ AdrasteaI_requestPending \in BOOLEAN
    /\ AdrasteaI_cmdConfirmStatus \in {"Invalid", "Success", "Failed"}
    /\ AdrasteaI_pendingCommandName \in CommandsA
    /\ AdrasteaI_responseincoming \in BOOLEAN
    /\ AdrasteaI_currentResponse \in Seq(Spoken)
    /\ AdrasteaI_wakingUp \in BOOLEAN /\ AdrasteaI_open \in BOOLEAN
    /\ prompt \in {"menu", "AT", "starting", "asleep"}
    /\ spoken \in Seq(Spoken)
    /\ obeyed \in BOOLEAN /\ whole \in BOOLEAN /\ alone \in BOOLEAN
    /\ calledA \in Nat /\ unasked \in Nat

(* The main thread is at a step of its function. It asks only while the    *)
(* UART is open, and what it asks is pending.                              *)
PlacedA ==
    /\ ~Calling => caller = Unoccupied
    /\ Calling =>
         /\ caller \in [op : DOMAIN ScriptA, k : Nat, at : PlacesA]
         /\ caller.k \in 1 .. Len(ScriptA[caller.op])
         /\ caller.at # "next" => StepA.do \in Asking /\ AdrasteaI_requestPending
         /\ (caller.op \in OpensA /\ caller.k = 1) \/ AdrasteaI_open

BasicA == TypeA /\ PlacedA

(* A request has been sent; its answer is waited for.                      *)
Heard   == Calling /\ caller.at \in {"arm", "poll"}
Polling == Calling /\ caller.at = "poll"
Confirmed == Polling /\ AdrasteaI_cmdConfirmStatus = "Success"

(* What of an answer is collected is collected while it is waited for.     *)
ListenA ==
    /\ AdrasteaI_responseincoming => Polling
    /\ Calling /\ caller.at = "name" => AdrasteaI_currentResponse = <<>>
    /\ Heard /\ StepA.command \notin MenuCommands =>
         AdrasteaI_pendingCommandName = StepA.command

(* What the module says is about where it is, or of the dialogue of the    *)
(* request under way.                                                      *)
TalkA ==
    /\ Heard => Talk(spoken, calledA)
    /\ ~Heard \/ (Polling /\ AdrasteaI_cmdConfirmStatus # "Invalid") => AllMode(spoken)

(* The module has done what a request asks exactly when it confirms it.    *)
ObeyedA ==
    /\ Heard /\ StepA.do = "ask" => (obeyed <=> Confirmed \/ Grants(spoken))
    /\ Calling /\ ~(Heard /\ StepA.do = "ask") => obeyed
    /\ ~Calling /\ result.op # "none" => (result.ok <=> obeyed)

HonestA == BasicA /\ ListenA /\ TalkA /\ ObeyedA

(* What the text that leads to the AT prompt makes the module say.         *)
MapLines(u, w) ==
    \E a, b \in Spoken : /\ a.what = "Open MAP CLI" /\ b.what = "%SCMNOTIFYEV"
                         /\ w = Append(Append(u, a), b)

LEMMA HereA ==
    ASSUME PlacedA, Calling
    PROVE  /\ caller.op \in DOMAIN ScriptA /\ caller.op # "none"
           /\ caller = [op |-> caller.op, k |-> caller.k, at |-> caller.at]
           /\ caller.at \in PlacesA
           /\ Len(ScriptA[caller.op]) \in Nat /\ caller.k \in 1 .. Len(ScriptA[caller.op])
           /\ StepKind(caller.op, caller.k, Len(ScriptA[caller.op]), StepA)
  <1>1. /\ caller \in [op : DOMAIN ScriptA, k : Nat, at : PlacesA]
        /\ caller.k \in 1 .. Len(ScriptA[caller.op])
    BY DEF PlacedA
  <1>2. caller.op \in DOMAIN ScriptA /\ caller.at \in PlacesA
        /\ caller = [op |-> caller.op, k |-> caller.k, at |-> caller.at]
    BY <1>1
  <1>3. PICK op : op = caller.op
    OBVIOUS
  <1>4. /\ Len(ScriptA[op]) \in Nat /\ Len(ScriptA[op]) > 0
        /\ DOMAIN ScriptA[op] = 1 .. Len(ScriptA[op])
        /\ \A k \in DOMAIN ScriptA[op] : StepKind(op, k, Len(ScriptA[op]), ScriptA[op][k])
    BY <1>2, <1>3, KindsA
  <1> QED  BY <1>1, <1>2, <1>3, <1>4 DEF Calling, StepA

(* What kind of step it is tells which it is.                              *)
LEMMA KindIsA ==
    ASSUME NEW op, NEW k, NEW n, NEW step, StepKind(op, k, n, step)
    PROVE  /\ step.do = "ask" => AsksA(op, k, n, step)
           /\ step.do = "try" => TriesA(op, k, n, step)
           /\ step.do = "tell" => TellsA(op, k, n, step)
           /\ step.do = "until" => UntilsA(op, k, n, step)
           /\ step.do \in {"open", "pin", "close", "wake", "awake"} => DoesA(op, k, n, step)
           /\ step.do \in {"ask", "try", "tell", "until", "open", "pin", "close", "wake", "awake"}
           /\ step.do \in Asking => step.command \in CommandsA
  <1>1. CASE AsksA(op, k, n, step)
    <2>1. PICK c \in CommandsA : step = AskA(c)
      BY <1>1 DEF AsksA
    <2>2. step.do = "ask" /\ step.command = c
      BY <2>1 DEF AskA
    <2> QED  BY <1>1, <2>1, <2>2
  <1>2. CASE TriesA(op, k, n, step)
    <2>0. PICK c, over : step = Try(c, over) /\ c \in {"", "RESET"}
      BY <1>2 DEF TriesA
    <2>1. step.do = "try" /\ step.command \in {"", "RESET"}
      BY <2>0 DEF Try
    <2>2. step.command \in CommandsA
      BY <2>1 DEF CommandsA
    <2> QED  BY <1>2, <2>1, <2>2
  <1>3. CASE TellsA(op, k, n, step)
    <2>0. PICK text : step = Tell(text)
      BY <1>3 DEF TellsA
    <2>1. step.do = "tell"
      BY <2>0 DEF Tell
    <2> QED  BY <1>3, <2>1 DEF Asking
  <1>4. CASE UntilsA(op, k, n, step)
    <2>1. step.do = "until"
      BY <1>4 DEF UntilsA, Until
    <2> QED  BY <1>4, <2>1 DEF Asking
  <1>5. CASE DoesA(op, k, n, step)
    <2>1. step.do \in {"open", "pin", "close", "wake", "awake"}
      BY <1>5 DEF DoesA, DoA
    <2> QED  BY <1>5, <2>1 DEF Asking
  <1> QED  BY <1>1, <1>2, <1>3, <1>4, <1>5 DEF StepKind

LEMMA MoveA ==
    ASSUME PlacedA, Calling, NEW what \in PlacesA, Move(what)
    PROVE  /\ Calling' /\ caller'.op = caller.op /\ caller'.k = caller.k /\ caller'.at = what
           /\ caller' = [op |-> caller.op, k |-> caller.k, at |-> what]
           /\ StepA' = StepA
  <1>1. caller' = [op |-> caller.op, k |-> caller.k, at |-> what]
    BY HereA DEF Move
  <1> QED  BY <1>1 DEF Calling, StepA

(* The next step, one further on, or the end.                              *)
LEMMA PassIs ==
    ASSUME PlacedA, Calling, NEW over \in {0, 1}, Pass(over),
           over = 1 => caller.op = "InitByUart" /\ caller.k = 3
    PROVE  \/ /\ caller.k = Len(ScriptA[caller.op])
              /\ ~Calling' /\ caller' = Unoccupied
              /\ result' = [op |-> caller.op, ok |-> TRUE, text |-> AdrasteaI_currentResponse]
           \/ /\ caller.k < Len(ScriptA[caller.op])
              /\ Calling' /\ caller'.op = caller.op /\ caller'.k = caller.k + 1 + over
              /\ caller'.at = "next"
              /\ caller' = [op |-> caller.op, k |-> caller.k + 1 + over, at |-> "next"]
              /\ caller.k + 1 + over \in 1 .. Len(ScriptA[caller.op])
              /\ result' = result
  <1>1. PICK n, k : /\ n = Len(ScriptA[caller.op]) /\ k = caller.k /\ n \in Nat /\ k \in 1 .. n
                    /\ StepKind(caller.op, k, n, StepA) /\ caller.op # "none"
    BY HereA
  <1>2. CASE k = n
    <2>1. /\ result' = [op |-> caller.op, ok |-> TRUE, text |-> AdrasteaI_currentResponse]
          /\ caller' = Unoccupied
      BY <1>1, <1>2 DEF Pass, EndA
    <2> QED  BY <1>1, <1>2, <2>1 DEF Unoccupied, Calling
  <1>3. CASE k # n
    <2>1. caller' = [Unoccupied EXCEPT !.op = caller.op, !.k = k + 1 + over] /\ result' = result
      BY <1>1, <1>3 DEF Pass
    <2>2. caller' = [op |-> caller.op, k |-> k + 1 + over, at |-> "next"]
      BY <2>1 DEF Unoccupied
    <2>3. Calling' /\ caller'.op = caller.op /\ caller'.k = k + 1 + over /\ caller'.at = "next"
      BY <1>1, <2>2 DEF Calling
    <2>4. over = 1 => n = 6 /\ k = 3
      BY <1>1 DEF StepKind, AsksA, TriesA, TellsA, UntilsA, DoesA
    <2>6. n \in Nat /\ k \in 1 .. n /\ k # n
      BY <1>1, <1>3
    <2>7. k + 1 \in 1 .. n /\ k < n
      BY <2>6
    <2>8. over = 0 => k + 1 + over \in 1 .. n
      BY <2>6, <2>7
    <2>9. over = 1 => k + 1 + over \in 1 .. n
      BY <2>4
    <2>5. k + 1 + over \in 1 .. n /\ k < n
      BY <2>7, <2>8, <2>9
    <2> QED  BY <1>1, <2>1, <2>2, <2>3, <2>5
  <1> QED  BY <1>2, <1>3

LEMMA EndIs ==
    ASSUME NEW ok, EndA(ok)
    PROVE  /\ ~Calling' /\ caller' = Unoccupied
           /\ result' = [op |-> caller.op, ok |-> ok, text |-> AdrasteaI_currentResponse]
  BY DEF EndA, Unoccupied, Calling

LEMMA HearTextIs ==
    ASSUME calledA \in Nat, NEW text, NEW u \in Seq(Spoken), HearText(text, u)
    PROVE  \/ text = "map" /\ prompt = "menu" /\ prompt' = "AT" /\ MapLines(u, spoken')
           \/ /\ text = "ctrl-D" /\ prompt = "AT" /\ prompt' = "menu"
              /\ \E a \in Spoken : a.what = "MAP CLI Closed" /\ spoken' = Append(u, a)
           \/ text = "reset all" /\ prompt = "menu" /\ prompt' = "starting" /\ spoken' = <<>>
           \/ /\ prompt' = prompt /\ spoken' = u
              /\ ~(text = "map" /\ prompt = "menu") /\ ~(text = "ctrl-D" /\ prompt = "AT")
              /\ ~(text = "reset all" /\ prompt = "menu")
  <1>1. PICK a, b, c : /\ a = Line("Open MAP CLI") /\ b = Line("%SCMNOTIFYEV")
                       /\ c = Line("MAP CLI Closed")
    OBVIOUS
  <1>2. {"Open MAP CLI", "%SCMNOTIFYEV", "MAP CLI Closed"} \subseteq Words
    BY DEF Words, ModeLines
  <1>3. /\ a \in Spoken /\ b \in Spoken /\ c \in Spoken
        /\ a.what = "Open MAP CLI" /\ b.what = "%SCMNOTIFYEV" /\ c.what = "MAP CLI Closed"
    BY <1>1, <1>2 DEF Line, Spoken
  <1>4. u \o <<a, b>> = Append(Append(u, a), b)
    <2>0. a \in Spoken /\ b \in Spoken
      BY <1>3
    <2>1. PICK x : x = <<a, b>>
      OBVIOUS
    <2>2. x \in Seq(Spoken) /\ Len(x) = 2 /\ x[1] = a /\ x[2] = b
      BY <2>0, <2>1
    <2>16. PICK v : v = Append(u, a)
      OBVIOUS
    <2>3. /\ v \in Seq(Spoken) /\ Len(v) = Len(u) + 1 /\ v[Len(u) + 1] = a
          /\ \A i \in 1 .. Len(u) : v[i] = u[i]
      BY <2>0, <2>16, AppendA
    <2>17. PICK w : w = Append(v, b)
      OBVIOUS
    <2>18. v \in Seq(Spoken)
      BY <2>3
    <2>4. /\ w \in Seq(Spoken) /\ Len(w) = Len(v) + 1 /\ w[Len(v) + 1] = b
          /\ \A i \in 1 .. Len(v) : w[i] = v[i]
      BY <2>0, <2>17, <2>18, AppendA
    <2>5. PICK y : y = u \o x
      OBVIOUS
    <2>6. x \in Seq(Spoken)
      BY <2>2
    <2>7. /\ y \in Seq(Spoken) /\ Len(y) = Len(u) + Len(x)
          /\ \A i \in 1 .. Len(u) : y[i] = u[i]
          /\ \A i \in 1 .. Len(x) : y[Len(u) + i] = x[i]
      BY <2>5, <2>6
    <2>19. Len(u) \in Nat
      OBVIOUS
    <2>20. Len(v) = Len(u) + 1 /\ Len(w) = Len(u) + 2 /\ Len(y) = Len(u) + 2
      BY <2>2, <2>3, <2>4, <2>7, <2>19
    <2>8. PICK n \in Nat : n = Len(u) /\ Len(v) = n + 1 /\ Len(w) = n + 2 /\ Len(y) = n + 2
      BY <2>19, <2>20
    <2>9. y[n + 1] = a /\ y[n + 2] = b
      BY <2>2, <2>7, <2>8
    <2>10. w[n + 1] = a /\ w[n + 2] = b
      BY <2>3, <2>4, <2>8
    <2>11. \A i \in 1 .. n : y[i] = u[i] /\ w[i] = u[i]
      BY <2>3, <2>4, <2>7, <2>8
    <2>12. \A i \in 1 .. n + 2 : i \in 1 .. n \/ i = n + 1 \/ i = n + 2
      BY <2>8
    <2>13. \A i \in 1 .. n + 2 : y[i] = w[i]
      BY <2>9, <2>10, <2>11, <2>12
    <2>14. ASSUME NEW p \in Seq(Spoken), NEW q \in Seq(Spoken), Len(p) = Len(q),
                  \A i \in 1 .. Len(p) : p[i] = q[i]
           PROVE  p = q
      BY <2>14
    <2>15. y = w
      BY <2>4, <2>7, <2>8, <2>13, <2>14
    <2> QED  BY <2>1, <2>5, <2>15, <2>16, <2>17
  <1>5. MapLines(u, u \o <<a, b>>)
    BY <1>3, <1>4 DEF MapLines
  <1> QED  BY <1>1, <1>3, <1>5 DEF HearText

(* What a command makes the module do, and say.                            *)
Answers(command, r) ==
    /\ r \in Seq(Spoken) /\ NoMode(r) /\ Talk(r, calledA)
    /\ spoken' = spoken \o r
    /\ obeyed' <=> obeyed /\ (StepA.do = "try" \/ Grants(r))
    /\ whole' => whole
    /\ Grants(r) => Len(r) > 0 /\ GrantedA(r[Len(r)])
    /\ command \in Queries_A /\ Grants(r) =>
         \/ Rest3(r, 0, command, "text", "OK")
         \/ ~whole' /\ (Rest2(r, 0, "text", "OK") \/ Rest2(r, 0, command, "OK"))
    /\ Grants(r) \/ command = "RESET" => prompt' \in Leads(command)
    /\ prompt' \in Leads(command) \cup {prompt}

LEMMA TransmitIs ==
    ASSUME TypeA, PlacedA, TransmitA
    PROVE  /\ Calling /\ caller.at = "name" /\ StepA.do \in Asking
           /\ StepA.command \in CommandsA
           /\ caller' = [op |-> caller.op, k |-> caller.k, at |-> "arm"]
           /\ Calling' /\ caller'.op = caller.op /\ caller'.k = caller.k /\ caller'.at = "arm"
           /\ StepA' = StepA
           /\ prompt' \in {"menu", "AT", "starting", "asleep"}
           /\ \/ /\ prompt # Place(StepA.command) /\ prompt' = prompt /\ spoken' = spoken
                 /\ obeyed' <=> obeyed /\ StepA.do = "try"
                 /\ whole' = whole
              \/ /\ prompt = Place(StepA.command)
                 /\ \E r : Answers(StepA.command, r)
  <1>1. Calling /\ caller.at = "name" /\ StepA.do \in Asking
    BY DEF TransmitA, AtA
  <1>2. StepKind(caller.op, caller.k, Len(ScriptA[caller.op]), StepA)
    BY <1>1, HereA
  <1>3. StepA.command \in CommandsA
    BY <1>1, <1>2, KindIsA
  <1>4. Move("arm") /\ "arm" \in PlacesA
    BY DEF TransmitA, PlacesA
  <1>5. /\ caller' = [op |-> caller.op, k |-> caller.k, at |-> "arm"]
        /\ Calling' /\ caller'.op = caller.op /\ caller'.k = caller.k /\ caller'.at = "arm"
        /\ StepA' = StepA
    BY <1>1, <1>4, MoveA
  <1>6. PICK c : c = StepA.command
    OBVIOUS
  <1>7. c \in CommandsA /\ Hear(c)
    BY <1>3, <1>6 DEF TransmitA
  <1>8. CASE prompt # Place(c)
    <2>1. obeyed' = (obeyed /\ StepA.do = "try") /\ prompt' = prompt /\ spoken' = spoken
          /\ whole' = whole
      BY <1>7, <1>8 DEF Hear
    <2> QED  BY <1>1, <1>3, <1>5, <1>6, <1>8, <2>1 DEF TypeA
  <1>9. CASE prompt = Place(c)
    <2>1. PICK done \in IF MustObey(c) THEN {TRUE} ELSE BOOLEAN :
            LET says == Dialogue(c, done)
                mayLose == IF MustObey(c) /\ c # "RESET" THEN {} ELSE DOMAIN says
            IN  \E lost \in {0} \cup mayLose :
                LET heard == IF lost = 0 THEN says ELSE RemoveAt(says, lost)
                IN  /\ spoken' = spoken \o [i \in DOMAIN heard |-> Line(heard[i])]
                    /\ obeyed' = (obeyed /\ \/ StepA.do = "try"
                                            \/ done /\ Success(c) \in Range(heard))
                    /\ whole' = (whole /\ lost = 0)
                    /\ prompt' \in IF done THEN Leads(c) ELSE {prompt}
      BY <1>7, <1>9 DEF Hear
    <2>2. PICK says, mayLose : /\ says = Dialogue(c, done)
                               /\ mayLose = IF MustObey(c) /\ c # "RESET" THEN {} ELSE DOMAIN says
      OBVIOUS
    <2>3. PICK lost \in {0} \cup mayLose :
                LET heard == IF lost = 0 THEN says ELSE RemoveAt(says, lost)
                IN  /\ spoken' = spoken \o [i \in DOMAIN heard |-> Line(heard[i])]
                    /\ obeyed' = (obeyed /\ \/ StepA.do = "try"
                                            \/ done /\ Success(c) \in Range(heard))
                    /\ whole' = (whole /\ lost = 0)
                    /\ prompt' \in IF done THEN Leads(c) ELSE {prompt}
      BY <2>1, <2>2
    <2>4. PICK heard : heard = IF lost = 0 THEN says ELSE RemoveAt(says, lost)
      OBVIOUS
    <2>5. PICK r : r = [i \in DOMAIN heard |-> Line(heard[i])]
      OBVIOUS
    <2>6. /\ spoken' = spoken \o r
          /\ obeyed' <=> (obeyed /\ \/ StepA.do = "try"
                                    \/ done /\ Success(c) \in Range(heard))
          /\ whole' <=> (whole /\ lost = 0)
          /\ prompt' \in IF done THEN Leads(c) ELSE {prompt}
      BY <2>3, <2>4, <2>5
    <2>7. done \in BOOLEAN /\ (MustObey(c) => done)
      OBVIOUS
    <2>8. lost \in {0} \cup DOMAIN says
      BY <2>2
    <2>9. calledA \in Nat
      BY DEF TypeA
    <2>10. /\ r \in Seq(Spoken) /\ NoMode(r) /\ Talk(r, calledA)
           /\ Grants(r) <=> (done /\ Success(c) \in Range(heard))
           /\ Grants(r) => Len(r) > 0 /\ GrantedA(r[Len(r)])
           /\ c \in Queries_A /\ Grants(r) =>
                \/ Rest3(r, 0, c, "text", "OK")
                \/ lost # 0 /\ (Rest2(r, 0, "text", "OK") \/ Rest2(r, 0, c, "OK"))
      BY <1>7, <2>2, <2>4, <2>5, <2>7, <2>8, <2>9, HeardIs
    <2>11. Grants(r) \/ c = "RESET" => done
      BY <2>7, <2>10 DEF MustObey
    <2>12. prompt' \in Leads(c) \cup {prompt} /\ (Grants(r) \/ c = "RESET" => prompt' \in Leads(c))
      BY <2>6, <2>11
    <2>13. Answers(c, r)
      BY <2>6, <2>10, <2>12 DEF Answers
    <2>14. prompt' \in {"menu", "AT", "starting", "asleep"}
      BY <2>12 DEF Leads, TypeA
    <2> QED  BY <1>1, <1>3, <1>5, <1>6, <1>9, <2>13, <2>14
  <1> QED  BY <1>8, <1>9

(* A line is heard.                                                        *)
LEMMA SaidIs ==
    ASSUME TypeA, SayA
    PROVE  /\ spoken \in Seq(Spoken) /\ spoken # <<>> /\ spoken[1] \in Spoken
           /\ OfMode(spoken[1]) => Watching
           /\ ~Overdue /\ ~OfMode(spoken[1]) /\ spoken[1].call = calledA => Polling
           /\ AdrasteaI_open =>
                /\ HandleResponse(spoken[1])
                /\ AdrasteaI_ATMode' = IF OfMode(spoken[1]) THEN ModeOf(spoken[1].what)
                                       ELSE AdrasteaI_ATMode
                /\ \/ spoken' = Tail(spoken) /\ prompt' = prompt
                   \/ prompt = "menu" /\ prompt' = "AT" /\ MapLines(Tail(spoken), spoken')
           /\ ~AdrasteaI_open =>
                /\ spoken' = Tail(spoken) /\ prompt' = prompt
                /\ UNCHANGED <<AdrasteaI_cmdConfirmStatus, AdrasteaI_responseincoming,
                               AdrasteaI_currentResponse, AdrasteaI_ATMode>>
           /\ UNCHANGED <<AdrasteaI_requestPending, AdrasteaI_pendingCommandName,
                          AdrasteaI_wakingUp, AdrasteaI_open, caller, historyA, boundsA>>
  <1>1. /\ spoken \in Seq(Spoken) /\ spoken # <<>> /\ spoken[1] \in Spoken /\ Head(spoken) = spoken[1]
        /\ Tail(spoken) \in Seq(Spoken)
    BY DEF TypeA, SayA
  <1>2. InTimeA(spoken[1])
    BY <1>1 DEF SayA
  <1>3. /\ OfMode(spoken[1]) => Watching
        /\ ~Overdue /\ ~OfMode(spoken[1]) /\ spoken[1].call = calledA => Polling
    BY <1>2 DEF InTimeA, OfMode, Polling
  <1>4. ASSUME AdrasteaI_open
        PROVE  /\ HandleResponse(spoken[1])
               /\ AdrasteaI_ATMode' = IF OfMode(spoken[1]) THEN ModeOf(spoken[1].what)
                                      ELSE AdrasteaI_ATMode
               /\ \/ spoken' = Tail(spoken) /\ prompt' = prompt
                  \/ prompt = "menu" /\ prompt' = "AT" /\ MapLines(Tail(spoken), spoken')
    <2>1. HandleRxLineA(spoken[1], Tail(spoken))
      BY <1>1, <1>4 DEF SayA
    <2>2. HandleResponse(spoken[1]) /\ AdrasteaI_ATMode' = ModeAfter(spoken[1].what)
      BY <2>1 DEF HandleRxLineA
    <2>3. ModeAfter(spoken[1].what) = IF OfMode(spoken[1]) THEN ModeOf(spoken[1].what)
                                      ELSE AdrasteaI_ATMode
      BY DEF ModeAfter, OfMode, ModeOf, ModeLines
    <2>4. \/ HearText("map", Tail(spoken))
          \/ prompt' = prompt /\ spoken' = Tail(spoken)
      BY <2>1 DEF HandleRxLineA
    <2>5. \/ spoken' = Tail(spoken) /\ prompt' = prompt
          \/ prompt = "menu" /\ prompt' = "AT" /\ MapLines(Tail(spoken), spoken')
      <3>1. calledA \in Nat
        BY DEF TypeA
      <3>2. PICK u \in Seq(Spoken) : u = Tail(spoken)
        BY <1>1
      <3>3. ASSUME HearText("map", u)
            PROVE  \/ spoken' = u /\ prompt' = prompt
                   \/ prompt = "menu" /\ prompt' = "AT" /\ MapLines(u, spoken')
        BY <3>1, <3>3, HearTextIs
      <3> QED  BY <2>4, <3>2, <3>3
    <2> QED  BY <2>2, <2>3, <2>5
  <1>5. ASSUME ~AdrasteaI_open
        PROVE  /\ spoken' = Tail(spoken) /\ prompt' = prompt
               /\ UNCHANGED <<AdrasteaI_cmdConfirmStatus, AdrasteaI_responseincoming,
                              AdrasteaI_currentResponse, AdrasteaI_ATMode>>
    BY <1>5 DEF SayA
  <1>6. UNCHANGED <<AdrasteaI_requestPending, AdrasteaI_pendingCommandName,
                    AdrasteaI_wakingUp, AdrasteaI_open, caller, historyA, boundsA>>
    BY DEF SayA
  <1> QED  BY <1>1, <1>3, <1>4, <1>5, <1>6

LEMMA MapTalk ==
    ASSUME NEW u \in Seq(Spoken), NEW w, MapLines(u, w), NEW n
    PROVE  /\ w \in Seq(Spoken)
           /\ Talk(u, n) => Talk(w, n)
           /\ AllMode(u) => AllMode(w)
           /\ Grants(w) <=> Grants(u)
           /\ \A now : SettlesA(w, now, Len(w), "Ready")
           /\ \A x \in 0 .. Len(u) : \A now, mode :
                SettlesA(u, now, x, mode) => SettlesA(w, now, x, mode)
           /\ Len(w) = Len(u) + 2 /\ \A i \in 1 .. Len(u) : w[i] = u[i]
           /\ \A v \in 0 .. Len(u) : ~ReadyIn(u, v) => LastIn(w, v)
  <1>1. PICK a, b : /\ a \in Spoken /\ b \in Spoken
                    /\ a.what = "Open MAP CLI" /\ b.what = "%SCMNOTIFYEV"
                    /\ w = Append(Append(u, a), b)
    BY DEF MapLines
  <1>2. PICK z : z = Append(u, a)
    OBVIOUS
  <1>3. OfMode(a) /\ OfMode(b) /\ ModeOf(b.what) = "Ready" /\ a.what # "%SCMNOTIFYEV"
    BY <1>1 DEF OfMode, ModeLines, ModeOf
  <1>4. /\ z \in Seq(Spoken)
        /\ Talk(u, n) => Talk(z, n)
        /\ AllMode(u) => AllMode(z)
        /\ Grants(z) <=> Grants(u)
    <2>1. a \in Spoken /\ OfMode(a) /\ z = Append(u, a)
      BY <1>1, <1>2, <1>3
    <2>2. z \in Seq(Spoken)
      BY <2>1
    <2> QED  BY <2>1, <2>2, AppendTalk
  <1>5. /\ Talk(z, n) => Talk(w, n)
        /\ AllMode(z) => AllMode(w)
        /\ Grants(w) <=> Grants(z)
    <2>1. b \in Spoken /\ OfMode(b) /\ w = Append(z, b) /\ z \in Seq(Spoken)
      BY <1>1, <1>2, <1>3, <1>4
    <2> QED  BY <2>1, AppendTalk
  <1>6. /\ Len(z) = Len(u) + 1 /\ \A i \in 1 .. Len(u) : z[i] = u[i]
        /\ \A x \in 0 .. Len(u) : \A now, mode :
             SettlesA(u, now, x, mode) => SettlesA(z, now, x, mode)
        /\ \A v \in 0 .. Len(u) : ~ReadyIn(u, v) => ~ReadyIn(z, v)
    <2>1. a \in Spoken /\ z = Append(u, a)
      BY <1>1, <1>2
    <2>2. Len(z) = Len(u) + 1 /\ \A i \in 1 .. Len(u) : z[i] = u[i]
      BY <2>1, AppendA
    <2>3. \A x \in 0 .. Len(u) : \A now, mode :
             SettlesA(u, now, x, mode) => SettlesA(z, now, x, mode)
      BY <2>1, AppendA
    <2>4. \A v \in 0 .. Len(u) : ~ReadyIn(u, v) =>
             LastIn(z, v) /\ (a.what # "%SCMNOTIFYEV" => ~ReadyIn(z, v))
      BY <2>1, AppendA
    <2>5. a.what # "%SCMNOTIFYEV"
      BY <1>3
    <2> QED  BY <2>2, <2>3, <2>4, <2>5
  <1>7. /\ w \in Seq(Spoken) /\ Len(w) = Len(z) + 1 /\ \A i \in 1 .. Len(z) : w[i] = z[i]
        /\ \A x \in 0 .. Len(z) : \A now, mode :
             SettlesA(z, now, x, mode) => SettlesA(w, now, x, mode)
        /\ \A now : SettlesA(w, now, Len(w), "Ready")
        /\ \A v \in 0 .. Len(z) : ~ReadyIn(z, v) => LastIn(w, v)
    <2>1. b \in Spoken /\ w = Append(z, b) /\ z \in Seq(Spoken)
      BY <1>1, <1>2, <1>4
    <2>2. OfMode(b) /\ ModeOf(b.what) = "Ready"
      BY <1>3
    <2>3. w \in Seq(Spoken) /\ Len(w) = Len(z) + 1 /\ \A i \in 1 .. Len(z) : w[i] = z[i]
      BY <2>1, AppendA
    <2>4. \A x \in 0 .. Len(z) : \A now, mode :
             SettlesA(z, now, x, mode) => SettlesA(w, now, x, mode)
      BY <2>1, AppendA
    <2>5. \A now : SettlesA(w, now, Len(w), ModeOf(b.what))
      BY <2>1, <2>2, AppendA
    <2>6. \A v \in 0 .. Len(z) : ~ReadyIn(z, v) => LastIn(w, v)
      BY <2>1, AppendA
    <2> QED  BY <2>2, <2>3, <2>4, <2>5, <2>6
  <1>8. Len(u) \in Nat /\ Len(z) = Len(u) + 1 /\ Len(w) = Len(u) + 2
        /\ \A x \in 0 .. Len(u) : x \in 0 .. Len(z)
        /\ \A i \in 1 .. Len(u) : i \in 1 .. Len(z)
    <2>1. Len(u) \in Nat
      OBVIOUS
    <2>2. Len(z) = Len(u) + 1 /\ Len(w) = Len(z) + 1
      BY <1>6, <1>7
    <2> QED  BY <2>1, <2>2
  <1>9. \A x \in 0 .. Len(u) : \A now, mode :
            SettlesA(u, now, x, mode) => SettlesA(w, now, x, mode)
    BY <1>6, <1>7, <1>8
  <1>10. \A v \in 0 .. Len(u) : ~ReadyIn(u, v) => LastIn(w, v)
    BY <1>6, <1>7, <1>8
  <1>11. \A i \in 1 .. Len(u) : w[i] = u[i]
    BY <1>6, <1>7, <1>8
  <1>12. /\ w \in Seq(Spoken)
         /\ Talk(u, n) => Talk(w, n)
         /\ AllMode(u) => AllMode(w)
         /\ Grants(w) <=> Grants(u)
         /\ \A now : SettlesA(w, now, Len(w), "Ready")
    BY <1>4, <1>5, <1>7
  <1> QED  BY <1>8, <1>9, <1>10, <1>11, <1>12

-----------------------------------------------------------------------------
(* What is confirmed was done.                                             *)
LEMMA OpenIs ==
    ASSUME PlacedA, Calling, StepA.do # "open"
    PROVE  AdrasteaI_open
  <1>1. PICK op, k, n : /\ op = caller.op /\ k = caller.k
                        /\ StepKind(op, k, n, StepA)
    BY HereA
  <1>2. op \in OpensA /\ k = 1 => StepA = DoA("open")
    BY <1>1 DEF OpensA, StepKind, AsksA, TriesA, TellsA, UntilsA, DoesA
  <1> QED  BY <1>1, <1>2 DEF PlacedA, DoA

LEMMA HonestCall ==
    ASSUME HonestA, NEW op \in AdrasteaI_Called, CallA(op)
    PROVE  HonestA'
  <1>1. /\ ~Calling /\ caller' = [Unoccupied EXCEPT !.op = op]
        /\ (op \in OpensA) = ~AdrasteaI_open
        /\ calledA' = calledA + 1 /\ obeyed' = TRUE /\ whole' = TRUE /\ alone' = TRUE
        /\ UNCHANGED <<requestA, response, modes, moduleA, result, unasked>>
    BY DEF CallA
  <1>2. op \in DOMAIN ScriptA /\ op # "none"
    BY AdrasteaICalled, FunctionsA
  <1>3. /\ caller' = [op |-> op, k |-> 1, at |-> "next"]
        /\ Calling' /\ caller'.op = op /\ caller'.k = 1 /\ caller'.at = "next"
    <2>1. caller' = [op |-> op, k |-> 1, at |-> "next"]
      BY <1>1 DEF Unoccupied
    <2> QED  BY <1>2, <2>1 DEF Calling
  <1>4. TypeA'
    BY <1>1 DEF HonestA, BasicA, TypeA, requestA, response, modes, moduleA
  <1>5. PlacedA'
    <2>1. Len(ScriptA[op]) \in Nat /\ Len(ScriptA[op]) > 0
      BY <1>2, KindsA
    <2>2. 1 \in 1 .. Len(ScriptA[op])
      BY <2>1
    <2>3. (op \in OpensA) \/ AdrasteaI_open'
      BY <1>1 DEF modes, HonestA, BasicA, TypeA
    <2>4. caller' \in [op : DOMAIN ScriptA, k : Nat, at : PlacesA]
      BY <1>2, <1>3 DEF PlacesA
    <2> QED  BY <1>3, <2>2, <2>3, <2>4 DEF PlacedA
  <1>6. ~Heard' /\ ~Polling'
    BY <1>3 DEF Heard, Polling
  <1>7. ListenA'
    BY <1>1, <1>3, <1>6 DEF HonestA, ListenA, Polling, response
  <1>8. TalkA'
    BY <1>1, <1>6 DEF HonestA, TalkA, Heard, moduleA
  <1>9. ObeyedA'
    BY <1>1, <1>3, <1>6 DEF ObeyedA
  <1> QED  BY <1>4, <1>5, <1>7, <1>8, <1>9 DEF HonestA, BasicA

(* A step that asks nothing.                                               *)
LEMMA HonestAdvance ==
    ASSUME HonestA, Calling, caller.at = "next", StepA.do \notin Asking, Advance, TypeA',
           AllMode(spoken'), obeyed' = obeyed,
           AdrasteaI_responseincoming' = AdrasteaI_responseincoming,
           AdrasteaI_open' \/ caller.k = Len(ScriptA[caller.op])
    PROVE  HonestA'
  <1>1. PlacedA /\ ~Heard /\ ~Polling /\ obeyed /\ ~AdrasteaI_responseincoming
    BY DEF HonestA, BasicA, ListenA, ObeyedA, Heard, Polling
  <1>2. \/ /\ ~Calling' /\ caller' = Unoccupied
           /\ result' = [op |-> caller.op, ok |-> TRUE, text |-> AdrasteaI_currentResponse]
        \/ /\ caller.k < Len(ScriptA[caller.op])
           /\ Calling' /\ caller'.op = caller.op /\ caller'.at = "next"
           /\ caller' = [op |-> caller.op, k |-> caller.k + 1 + 0, at |-> "next"]
           /\ caller.k + 1 + 0 \in 1 .. Len(ScriptA[caller.op])
    BY <1>1, PassIs DEF Advance
  <1>3. ~Heard' /\ ~Polling'
    BY <1>2 DEF Heard, Polling
  <1>4. PlacedA'
    <2>1. CASE ~Calling' /\ caller' = Unoccupied
      BY <2>1 DEF PlacedA
    <2>2. CASE /\ caller.k < Len(ScriptA[caller.op])
               /\ Calling' /\ caller'.op = caller.op /\ caller'.at = "next"
               /\ caller' = [op |-> caller.op, k |-> caller.k + 1 + 0, at |-> "next"]
               /\ caller.k + 1 + 0 \in 1 .. Len(ScriptA[caller.op])
      <3>1. PICK k, n : /\ k = caller.k + 1 + 0 /\ n = Len(ScriptA[caller.op]) /\ n \in Nat
                        /\ caller.k \in 1 .. n
        BY <1>1, HereA
      <3>2. k \in 1 .. n /\ k \in Nat /\ caller.k # n /\ caller'.k = k
        BY <2>2, <3>1
      <3>3. AdrasteaI_open'
        BY <3>1, <3>2
      <3>4. caller' \in [op : DOMAIN ScriptA, k : Nat, at : PlacesA]
        BY <1>1, <2>2, <3>1, <3>2, HereA DEF PlacesA
      <3> QED  BY <2>2, <3>1, <3>2, <3>3, <3>4 DEF PlacedA
    <2> QED  BY <1>2, <2>1, <2>2
  <1>5. ListenA'
    BY <1>1, <1>2, <1>3 DEF ListenA
  <1>6. TalkA'
    BY <1>3 DEF TalkA
  <1>7. ObeyedA'
    BY <1>1, <1>2, <1>3 DEF ObeyedA
  <1> QED  BY <1>4, <1>5, <1>6, <1>7 DEF HonestA, BasicA

LEMMA HonestSteps ==
    ASSUME HonestA,
           UntilMode \/ TellA \/ OpenA \/ PulseResetA \/ PulseWakeUp \/ Awake \/ CloseA
    PROVE  HonestA'
  <1>1. /\ Calling /\ caller.at = "next" /\ StepA.do \notin Asking /\ Advance
        /\ obeyed' = obeyed /\ AdrasteaI_responseincoming' = AdrasteaI_responseincoming
    BY DEF UntilMode, TellA, OpenA, PulseResetA, PulseWakeUp, Awake, CloseA, AtA, Asking,
           response
  <1>2. TypeA /\ PlacedA /\ AllMode(spoken) /\ spoken \in Seq(Spoken)
    BY <1>1 DEF HonestA, BasicA, TypeA, TalkA, Heard
  <1>3. StepA.do # "open" => AdrasteaI_open
    BY <1>1, <1>2, OpenIs
  <1>4. <<>> \in Seq(Spoken) /\ AllMode(<<>>)
    BY DEF AllMode
  <1>5. CASE UntilMode
    <2>1. /\ UNCHANGED <<requestA, response, modes, moduleA, obeyed, whole, alone, boundsA>>
          /\ StepA.do # "open"
      BY <1>5 DEF UntilMode, AtA
    <2>2. TypeA' /\ AllMode(spoken') /\ AdrasteaI_open'
      BY <1>2, <1>3, <2>1 DEF TypeA, requestA, response, modes, moduleA, boundsA
    <2> QED  BY <1>1, <2>2, HonestAdvance
  <1>6. CASE TellA
    <2>1. /\ UNCHANGED <<requestA, response, modes, obeyed, whole, alone, boundsA>>
          /\ StepA.do # "open" /\ HearText(StepA.text, spoken)
      BY <1>6 DEF TellA, AtA
    <2>2. calledA \in Nat
      BY <1>2 DEF TypeA
    <2>3. /\ spoken' \in Seq(Spoken) /\ AllMode(spoken')
          /\ prompt' \in {"menu", "AT", "starting", prompt}
      <3>1. CASE prompt' = "AT" /\ MapLines(spoken, spoken')
        BY <1>2, <3>1, MapTalk
      <3>2. CASE /\ prompt' = "menu"
                 /\ \E a \in Spoken : a.what = "MAP CLI Closed" /\ spoken' = Append(spoken, a)
        <4>1. PICK a \in Spoken : a.what = "MAP CLI Closed" /\ spoken' = Append(spoken, a)
          BY <3>2
        <4>2. OfMode(a)
          BY <4>1 DEF OfMode, ModeLines
        <4>3. AllMode(spoken')
          BY <1>2, <4>1, <4>2, AppendTalk
        <4>4. spoken' \in Seq(Spoken)
          BY <1>2, <4>1, AppendA
        <4> QED  BY <3>2, <4>3, <4>4
      <3>3. CASE prompt' = "starting" /\ spoken' = <<>>
        BY <1>4, <3>3
      <3>4. CASE prompt' = prompt /\ spoken' = spoken
        BY <1>2, <3>4
      <3> QED  BY <1>2, <2>1, <2>2, <3>1, <3>2, <3>3, <3>4, HearTextIs
    <2>4. TypeA' /\ AdrasteaI_open'
      BY <1>2, <1>3, <2>1, <2>3 DEF TypeA, requestA, response, modes, boundsA
    <2> QED  BY <1>1, <2>3, <2>4, HonestAdvance
  <1>7. CASE OpenA
    <2>1. /\ AdrasteaI_requestPending' = FALSE /\ AdrasteaI_open' = TRUE
          /\ UNCHANGED <<AdrasteaI_cmdConfirmStatus, response, AdrasteaI_ATMode,
                         AdrasteaI_wakingUp, moduleA, obeyed, whole, alone, boundsA>>
      BY <1>7 DEF OpenA
    <2>2. TypeA' /\ AllMode(spoken') /\ AdrasteaI_open'
      BY <1>2, <2>1 DEF TypeA, response, moduleA, boundsA
    <2> QED  BY <1>1, <2>2, HonestAdvance
  <1>8. CASE PulseResetA
    <2>1. /\ prompt' = "starting" /\ spoken' = <<>> /\ StepA.do # "open"
          /\ UNCHANGED <<requestA, response, modes, obeyed, whole, alone, boundsA>>
      BY <1>8 DEF PulseResetA, AtA
    <2>2. TypeA' /\ AllMode(spoken') /\ AdrasteaI_open'
      BY <1>2, <1>3, <1>4, <2>1 DEF TypeA, requestA, response, modes, boundsA
    <2> QED  BY <1>1, <2>2, HonestAdvance
  <1>9. CASE PulseWakeUp
    <2>1. /\ AdrasteaI_wakingUp' = TRUE /\ prompt' \in {"starting", prompt}
          /\ StepA.do # "open"
          /\ UNCHANGED <<requestA, response, AdrasteaI_ATMode, AdrasteaI_open, spoken,
                         obeyed, whole, alone, boundsA>>
      BY <1>9 DEF PulseWakeUp, AtA
    <2>2. TypeA' /\ AllMode(spoken') /\ AdrasteaI_open'
      BY <1>2, <1>3, <2>1 DEF TypeA, requestA, response, boundsA
    <2> QED  BY <1>1, <2>2, HonestAdvance
  <1>10. CASE Awake
    <2>1. /\ AdrasteaI_wakingUp' = FALSE /\ StepA.do # "open"
          /\ UNCHANGED <<requestA, response, AdrasteaI_ATMode, AdrasteaI_open, moduleA,
                         obeyed, whole, alone, boundsA>>
      BY <1>10 DEF Awake, AtA
    <2>2. TypeA' /\ AllMode(spoken') /\ AdrasteaI_open'
      BY <1>2, <1>3, <2>1 DEF TypeA, requestA, response, moduleA, boundsA
    <2> QED  BY <1>1, <2>2, HonestAdvance
  <1>11. CASE CloseA
    <2>1. /\ AdrasteaI_requestPending' = FALSE /\ AdrasteaI_currentResponse' = <<>>
          /\ AdrasteaI_open' = FALSE /\ StepA.do = "close"
          /\ UNCHANGED <<AdrasteaI_cmdConfirmStatus, AdrasteaI_pendingCommandName,
                         AdrasteaI_responseincoming, AdrasteaI_ATMode, AdrasteaI_wakingUp,
                         moduleA, obeyed, whole, alone, boundsA>>
      BY <1>11 DEF CloseA, AtA
    <2>2. TypeA' /\ AllMode(spoken')
      BY <1>2, <1>4, <2>1 DEF TypeA, moduleA, boundsA
    <2>3. caller.k = Len(ScriptA[caller.op])
      <3>1. PICK op, k, n : /\ op = caller.op /\ k = caller.k /\ n = Len(ScriptA[caller.op])
                            /\ StepKind(op, k, n, StepA)
        BY <1>1, <1>2, HereA
      <3>2. DoesA(op, k, n, StepA)
        BY <2>1, <3>1, KindIsA
      <3>3. k = 1 /\ n = 1
        BY <2>1, <3>2 DEF DoesA, DoA
      <3> QED  BY <3>1, <3>3
    <2> QED  BY <1>1, <2>2, <2>3, HonestAdvance
  <1> QED  BY <1>5, <1>6, <1>7, <1>8, <1>9, <1>10, <1>11

LEMMA HonestPend ==
    ASSUME HonestA, PendA
    PROVE  HonestA'
  <1>1. /\ Calling /\ caller.at = "next" /\ StepA.do \in Asking
        /\ AdrasteaI_requestPending' = TRUE /\ AdrasteaI_currentResponse' = <<>>
        /\ Move("name") /\ "name" \in PlacesA
        /\ UNCHANGED <<AdrasteaI_cmdConfirmStatus, AdrasteaI_pendingCommandName,
                       AdrasteaI_responseincoming, modes, moduleA, historyA, boundsA>>
    BY DEF PendA, AtA, PlacesA
  <1>2. PlacedA /\ TypeA
    BY DEF HonestA, BasicA
  <1>3. /\ Calling' /\ caller'.op = caller.op /\ caller'.k = caller.k /\ caller'.at = "name"
        /\ caller' = [op |-> caller.op, k |-> caller.k, at |-> "name"] /\ StepA' = StepA
    BY <1>1, <1>2, MoveA
  <1>4. ~Heard /\ ~Polling /\ ~Heard' /\ ~Polling'
    BY <1>1, <1>3 DEF Heard, Polling
  <1>5. TypeA'
    BY <1>1, <1>2 DEF TypeA, modes, moduleA, historyA, boundsA
  <1>6. PlacedA'
    <2>1. caller' \in [op : DOMAIN ScriptA, k : Nat, at : PlacesA]
      BY <1>1, <1>2, <1>3, HereA
    <2> QED  BY <1>1, <1>2, <1>3, <2>1 DEF PlacedA, modes
  <1>7. ListenA'
    BY <1>1, <1>3, <1>4 DEF HonestA, ListenA
  <1>8. TalkA'
    BY <1>1, <1>4 DEF HonestA, TalkA, moduleA
  <1>9. ObeyedA'
    BY <1>1, <1>3, <1>4 DEF HonestA, ObeyedA, historyA
  <1> QED  BY <1>5, <1>6, <1>7, <1>8, <1>9 DEF HonestA, BasicA

LEMMA HonestArm ==
    ASSUME HonestA, ArmA
    PROVE  HonestA'
  <1>1. /\ Calling /\ caller.at = "arm" /\ StepA.do \in Asking
        /\ AdrasteaI_cmdConfirmStatus' = "Invalid"
        /\ Move("poll") /\ "poll" \in PlacesA
        /\ UNCHANGED <<AdrasteaI_requestPending, response, modes, moduleA, historyA, boundsA>>
    BY DEF ArmA, AtA, PlacesA
  <1>2. PlacedA /\ TypeA
    BY DEF HonestA, BasicA
  <1>3. /\ Calling' /\ caller'.op = caller.op /\ caller'.k = caller.k /\ caller'.at = "poll"
        /\ caller' = [op |-> caller.op, k |-> caller.k, at |-> "poll"] /\ StepA' = StepA
    BY <1>1, <1>2, MoveA
  <1>4. Heard /\ ~Polling /\ Heard' /\ Polling' /\ ~Confirmed /\ ~Confirmed'
    BY <1>1, <1>3 DEF Heard, Polling, Confirmed
  <1>5. TypeA'
    BY <1>1, <1>2 DEF TypeA, response, modes, moduleA, historyA, boundsA
  <1>6. PlacedA'
    <2>1. caller' \in [op : DOMAIN ScriptA, k : Nat, at : PlacesA]
      BY <1>1, <1>2, <1>3, HereA
    <2> QED  BY <1>1, <1>2, <1>3, <2>1 DEF PlacedA, modes
  <1>7. ListenA'
    BY <1>1, <1>3, <1>4 DEF HonestA, ListenA, response
  <1>8. TalkA'
    BY <1>1, <1>4 DEF HonestA, TalkA, moduleA, boundsA
  <1>9. ObeyedA'
    <2>1. Grants(spoken)' <=> Grants(spoken)
      BY <1>1 DEF moduleA
    <2> QED  BY <1>1, <1>3, <1>4, <2>1 DEF HonestA, ObeyedA, historyA
  <1> QED  BY <1>5, <1>6, <1>7, <1>8, <1>9 DEF HonestA, BasicA

LEMMA HonestTransmit ==
    ASSUME HonestA, TransmitA
    PROVE  HonestA'
  <1>1. PlacedA /\ TypeA
    BY DEF HonestA, BasicA
  <1>2. /\ Calling /\ caller.at = "name" /\ StepA.do \in Asking
        /\ StepA.command \in CommandsA
        /\ caller' = [op |-> caller.op, k |-> caller.k, at |-> "arm"]
        /\ Calling' /\ caller'.op = caller.op /\ caller'.k = caller.k /\ caller'.at = "arm"
        /\ StepA' = StepA
        /\ prompt' \in {"menu", "AT", "starting", "asleep"}
        /\ \/ /\ prompt # Place(StepA.command) /\ prompt' = prompt /\ spoken' = spoken
              /\ obeyed' <=> obeyed /\ StepA.do = "try"
              /\ whole' = whole
           \/ /\ prompt = Place(StepA.command)
              /\ \E r : Answers(StepA.command, r)
    BY <1>1, TransmitIs
  <1>3. /\ UNCHANGED <<requestA, AdrasteaI_responseincoming, AdrasteaI_currentResponse,
                       modes, result, alone, boundsA>>
        /\ AdrasteaI_pendingCommandName' =
             IF StepA.command \in MenuCommands THEN "" ELSE StepA.command
    BY DEF TransmitA
  <1>4. ~Heard /\ ~Polling /\ Heard' /\ ~Polling' /\ ~Confirmed'
    BY <1>2 DEF Heard, Polling, Confirmed
  <1>5. AllMode(spoken) /\ obeyed /\ spoken \in Seq(Spoken) /\ calledA' = calledA
    BY <1>1, <1>2, <1>3, <1>4 DEF HonestA, TalkA, ObeyedA, TypeA, boundsA
  <1>6. ~Grants(spoken) /\ Talk(spoken, calledA)
    BY <1>5 DEF AllMode, Grants, Talk, OfMode, GrantedA, ModeLines, Confirms
  <1>7. /\ spoken' \in Seq(Spoken) /\ Talk(spoken', calledA) /\ whole' \in BOOLEAN
        /\ obeyed' \in BOOLEAN /\ (StepA.do = "try" => obeyed')
        /\ StepA.do # "try" => (obeyed' <=> Grants(spoken'))
    <2>0. /\ obeyed' \in BOOLEAN /\ whole' \in BOOLEAN
      BY <1>1 DEF TransmitA, Hear, TypeA
    <2>1. CASE /\ spoken' = spoken
               /\ obeyed' <=> obeyed /\ StepA.do = "try"
      BY <1>5, <1>6, <2>0, <2>1
    <2>2. CASE \E r : Answers(StepA.command, r)
      <3>1. PICK r : Answers(StepA.command, r)
        BY <2>2
      <3>2. /\ r \in Seq(Spoken) /\ Talk(r, calledA) /\ spoken' = spoken \o r
            /\ obeyed' <=> obeyed /\ (StepA.do = "try" \/ Grants(r))
        BY <3>1 DEF Answers
      <3>3. spoken' \in Seq(Spoken)
        BY <1>5, <3>2, ConcatA
      <3>4. Talk(spoken', calledA) /\ (Grants(spoken') <=> Grants(r))
        BY <1>5, <3>2, ConcatTalk
      <3> QED  BY <1>5, <2>0, <3>2, <3>3, <3>4
    <2> QED  BY <1>2, <2>1, <2>2
  <1>8. TypeA'
    <2>1. "" \in CommandsA
      BY DEF CommandsA
    <2>2. AdrasteaI_pendingCommandName' \in CommandsA
      BY <1>2, <1>3, <2>1
    <2> QED  BY <1>1, <1>2, <1>3, <1>7, <2>2 DEF TypeA, requestA, modes, boundsA
  <1>9. PlacedA'
    <2>1. caller' \in [op : DOMAIN ScriptA, k : Nat, at : PlacesA]
      BY <1>1, <1>2, HereA DEF PlacesA
    <2> QED  BY <1>1, <1>2, <1>3, <2>1 DEF PlacedA, modes, requestA
  <1>10. ListenA'
    BY <1>2, <1>3, <1>4 DEF HonestA, ListenA
  <1>11. TalkA'
    BY <1>4, <1>5, <1>7 DEF TalkA
  <1>12. ObeyedA'
    BY <1>2, <1>4, <1>7 DEF ObeyedA, Asking
  <1> QED  BY <1>8, <1>9, <1>10, <1>11, <1>12 DEF HonestA, BasicA

LEMMA HonestWait ==
    ASSUME HonestA, WaitForConfirmA, ~Overdue
    PROVE  HonestA'
  <1>1. PlacedA /\ TypeA
    BY DEF HonestA, BasicA
  <1>2. /\ Calling /\ caller.at = "poll" /\ StepA.do \in Asking
        /\ AdrasteaI_cmdConfirmStatus = "Invalid" =>
             \A l \in Range(spoken) : l.what \in ModeLines \/ l.call # calledA
        /\ AdrasteaI_requestPending' = FALSE /\ AdrasteaI_responseincoming' = FALSE
        /\ UNCHANGED <<AdrasteaI_cmdConfirmStatus, AdrasteaI_pendingCommandName,
                       AdrasteaI_currentResponse, modes, moduleA, obeyed, whole, alone, boundsA>>
    BY DEF WaitForConfirmA, AtA, NothingToCome
  <1>3. Heard /\ Polling /\ (Confirmed <=> AdrasteaI_cmdConfirmStatus = "Success")
    BY <1>2 DEF Heard, Polling, Confirmed
  <1>4. AllMode(spoken) /\ spoken \in Seq(Spoken)
    <2>1. spoken \in Seq(Spoken)
      BY <1>1 DEF TypeA
    <2>2. CASE AdrasteaI_cmdConfirmStatus # "Invalid"
      BY <1>3, <2>1, <2>2 DEF HonestA, TalkA
    <2>3. CASE AdrasteaI_cmdConfirmStatus = "Invalid"
      <3>1. Talk(spoken, calledA)
        BY <1>3 DEF HonestA, TalkA
      <3>2. \A i \in 1 .. Len(spoken) : spoken[i] \in Range(spoken)
        BY <2>1 DEF Range
      <3>3. \A i \in 1 .. Len(spoken) : OfMode(spoken[i])
        BY <1>2, <2>3, <3>1, <3>2 DEF Talk, OfMode
      <3> QED  BY <2>1, <3>3 DEF AllMode
    <2> QED  BY <2>2, <2>3
  <1>5. ~Grants(spoken)
    BY <1>4 DEF AllMode, Grants, OfMode, GrantedA, ModeLines, Confirms
  <1>6. StepA.do = "ask" => (obeyed <=> AdrasteaI_cmdConfirmStatus = "Success")
    BY <1>3, <1>5 DEF HonestA, ObeyedA
  <1>7. StepA.do = "try" => obeyed
    BY <1>2, <1>3 DEF HonestA, ObeyedA
  <1>8. TypeA'
    BY <1>1, <1>2 DEF TypeA, modes, moduleA, boundsA
  <1>9. ASSUME NEW over \in {0, 1}, Pass(over),
               over = 1 => caller.op = "InitByUart" /\ caller.k = 3,
               AdrasteaI_cmdConfirmStatus = "Success" \/ StepA.do = "try"
        PROVE  HonestA'
    <2>1. obeyed
      BY <1>2, <1>6, <1>7, <1>9 DEF Asking
    <2>2. \/ /\ ~Calling' /\ caller' = Unoccupied
             /\ result' = [op |-> caller.op, ok |-> TRUE, text |-> AdrasteaI_currentResponse]
          \/ /\ Calling' /\ caller'.op = caller.op /\ caller'.k = caller.k + 1 + over
             /\ caller'.at = "next"
             /\ caller' = [op |-> caller.op, k |-> caller.k + 1 + over, at |-> "next"]
             /\ caller.k + 1 + over \in 1 .. Len(ScriptA[caller.op])
             /\ result' = result
      BY <1>1, <1>2, <1>9, PassIs
    <2>3. ~Heard' /\ ~Polling'
      BY <2>2 DEF Heard, Polling
    <2>4. AdrasteaI_open'
      <3>1. StepA.do # "open"
        BY <1>2 DEF Asking
      <3> QED  BY <1>1, <1>2, <3>1, OpenIs DEF modes
    <2>5. PlacedA'
      <3>1. CASE ~Calling' /\ caller' = Unoccupied
        BY <3>1 DEF PlacedA
      <3>2. CASE /\ Calling' /\ caller'.op = caller.op /\ caller'.k = caller.k + 1 + over
                 /\ caller'.at = "next"
                 /\ caller' = [op |-> caller.op, k |-> caller.k + 1 + over, at |-> "next"]
                 /\ caller.k + 1 + over \in 1 .. Len(ScriptA[caller.op])
        <4>1. PICK k, n : /\ k = caller.k + 1 + over /\ n = Len(ScriptA[caller.op]) /\ n \in Nat
          BY <1>1, <1>2, HereA
        <4>2. k \in 1 .. n /\ k \in Nat
          BY <3>2, <4>1
        <4>3. caller' \in [op : DOMAIN ScriptA, k : Nat, at : PlacesA]
          BY <1>1, <1>2, <3>2, <4>1, <4>2, HereA DEF PlacesA
        <4> QED  BY <2>4, <3>2, <4>1, <4>2, <4>3 DEF PlacedA
      <3> QED  BY <2>2, <3>1, <3>2
    <2>6. ListenA'
      BY <1>2, <2>2, <2>3 DEF ListenA
    <2>7. TalkA'
      BY <1>2, <1>4, <2>3 DEF TalkA, moduleA
    <2>8. ObeyedA'
      BY <1>2, <2>1, <2>2, <2>3 DEF ObeyedA
    <2> QED  BY <1>8, <2>5, <2>6, <2>7, <2>8 DEF HonestA, BasicA
  <1>10. ASSUME EndA(FALSE), StepA.do # "try", AdrasteaI_cmdConfirmStatus # "Success"
         PROVE  HonestA'
    <2>1. ~obeyed
      BY <1>2, <1>6, <1>10 DEF Asking
    <2>2. /\ ~Calling' /\ caller' = Unoccupied
          /\ result' = [op |-> caller.op, ok |-> FALSE, text |-> AdrasteaI_currentResponse]
      BY <1>10, EndIs
    <2>3. ~Heard' /\ ~Polling'
      BY <2>2 DEF Heard, Polling
    <2>4. PlacedA' /\ ListenA'
      BY <1>2, <2>2, <2>3 DEF PlacedA, ListenA
    <2>5. TalkA'
      BY <1>2, <1>4, <2>3 DEF TalkA, moduleA
    <2>6. ObeyedA'
      BY <1>2, <2>1, <2>2, <2>3 DEF ObeyedA
    <2> QED  BY <1>8, <2>4, <2>5, <2>6 DEF HonestA, BasicA
  <1>11. CASE AdrasteaI_cmdConfirmStatus = "Success"
    <2>1. Pass(IF StepA.do = "try" THEN StepA.over ELSE 0)
      BY <1>11 DEF WaitForConfirmA
    <2>2. PICK op, k, n : /\ op = caller.op /\ k = caller.k
                          /\ StepKind(op, k, n, StepA)
      BY <1>1, <1>2, HereA
    <2>3. StepA.do = "try" => TriesA(op, k, n, StepA)
      BY <2>2, KindIsA
    <2>4. StepA.do = "try" =>
            StepA.over \in {0, 1} /\ (StepA.over = 1 => op = "InitByUart" /\ k = 3)
      <3> SUFFICES ASSUME StepA.do = "try"
                   PROVE  StepA.over \in {0, 1} /\ (StepA.over = 1 => op = "InitByUart" /\ k = 3)
        OBVIOUS
      <3>1. PICK c, over : /\ StepA = Try(c, over) /\ over \in {0, 1}
                           /\ over = 1 => op = "InitByUart" /\ k = 3
        BY <2>3 DEF TriesA
      <3>2. StepA.over = over
        BY <3>1 DEF Try
      <3> QED  BY <3>1, <3>2
    <2> QED  BY <1>9, <1>11, <2>1, <2>2, <2>4
  <1>12. CASE AdrasteaI_cmdConfirmStatus # "Success" /\ StepA.do = "try"
    <2>1. Pass(0)
      BY <1>12 DEF WaitForConfirmA, Advance
    <2> QED  BY <1>9, <1>12, <2>1
  <1>13. CASE AdrasteaI_cmdConfirmStatus # "Success" /\ StepA.do # "try"
    <2>1. EndA(FALSE)
      BY <1>13 DEF WaitForConfirmA
    <2> QED  BY <1>10, <1>13, <2>1
  <1> QED  BY <1>11, <1>12, <1>13

(* Nothing of the main thread changes, and of the module no answer.        *)
LEMMA HonestStart ==
    ASSUME HonestA, StartUp
    PROVE  HonestA'
  <1>1. /\ prompt = "starting" /\ prompt' = "menu" /\ spoken' = Append(spoken, Line("MCU menu"))
        /\ UNCHANGED <<requestA, response, modes, caller, historyA, boundsA>>
    BY DEF StartUp
  <1>2. TypeA /\ spoken \in Seq(Spoken)
    BY DEF HonestA, BasicA, TypeA
  <1>3. Line("MCU menu") \in Spoken /\ OfMode(Line("MCU menu"))
    <2>1. PICK a : a = Line("MCU menu")
      OBVIOUS
    <2>2. a = [what |-> "MCU menu", call |-> calledA] /\ calledA \in Nat
      BY <1>2, <2>1 DEF Line, TypeA
    <2>3. "MCU menu" \in Words /\ "MCU menu" \in ModeLines
      BY DEF Words, ModeLines
    <2>4. a \in Spoken /\ OfMode(a)
      BY <2>2, <2>3 DEF Spoken, OfMode
    <2> QED  BY <2>1, <2>4
  <1>4. /\ \A n : Talk(spoken, n) => Talk(spoken', n)
        /\ AllMode(spoken) => AllMode(spoken')
        /\ Grants(spoken') <=> Grants(spoken)
        /\ spoken' \in Seq(Spoken)
    <2>1. PICK s, l : s = spoken /\ l = Line("MCU menu") /\ s \in Seq(Spoken) /\ l \in Spoken
                      /\ OfMode(l)
      BY <1>2, <1>3
    <2>2. PICK t : t = Append(s, l)
      OBVIOUS
    <2>3. /\ \A n : Talk(s, n) => Talk(t, n)
          /\ AllMode(s) => AllMode(t)
          /\ Grants(t) <=> Grants(s)
      BY <2>1, <2>2, AppendTalk
    <2>4. t \in Seq(Spoken)
      BY <2>1, <2>2, AppendA
    <2> QED  BY <1>1, <2>1, <2>2, <2>3, <2>4
  <1>5. (Heard' <=> Heard) /\ (Polling' <=> Polling) /\ (Confirmed' <=> Confirmed)
        /\ (Calling' <=> Calling) /\ StepA' = StepA
    BY <1>1 DEF Heard, Polling, Confirmed, Calling, StepA, requestA
  <1>6. TypeA'
    BY <1>1, <1>2, <1>4 DEF TypeA, requestA, response, modes, historyA, boundsA
  <1>7. PlacedA'
    BY <1>1, <1>5 DEF HonestA, BasicA, PlacedA, requestA, modes
  <1>8. ListenA'
    BY <1>1, <1>5 DEF HonestA, ListenA, response
  <1>9. TalkA'
    BY <1>1, <1>4, <1>5 DEF HonestA, TalkA, requestA, boundsA
  <1>10. ObeyedA'
    BY <1>1, <1>4, <1>5 DEF HonestA, ObeyedA, historyA
  <1> QED  BY <1>6, <1>7, <1>8, <1>9, <1>10 DEF HonestA, BasicA

LEMMA HonestRestart ==
    ASSUME HonestA, RestartA
    PROVE  HonestA'
  <1>1. /\ unasked' = unasked + 1 /\ prompt' = "starting" /\ spoken' = <<>>
        /\ obeyed' = (obeyed /\ ~ /\ Calling /\ StepA.do = "ask"
                                  /\ \E l \in Range(spoken) :
                                        l.call = calledA /\ l.what \in Confirms)
        /\ whole' = FALSE /\ alone' = FALSE
        /\ UNCHANGED <<requestA, response, modes, caller, result, calledA>>
    BY DEF RestartA
  <1>2. TypeA /\ spoken \in Seq(Spoken)
    BY DEF HonestA, BasicA, TypeA
  <1>3. /\ <<>> \in Seq(Spoken) /\ AllMode(<<>>) /\ ~Grants(<<>>)
        /\ \A n : Talk(<<>>, n)
    BY DEF AllMode, Grants, Talk
  <1>4. (Heard' <=> Heard) /\ (Polling' <=> Polling) /\ (Confirmed' <=> Confirmed)
        /\ (Calling' <=> Calling) /\ StepA' = StepA
    BY <1>1 DEF Heard, Polling, Confirmed, Calling, StepA, requestA
  <1>5. TypeA'
    <2>1. obeyed' \in BOOLEAN
      BY <1>1, <1>2 DEF TypeA
    <2>2. unasked' \in Nat
      BY <1>1, <1>2 DEF TypeA
    <2>3. /\ prompt' = "starting" /\ spoken' = <<>> /\ whole' = FALSE /\ alone' = FALSE
          /\ UNCHANGED <<requestA, response, modes, calledA>>
      BY <1>1
    <2> QED  BY <1>2, <1>3, <2>1, <2>2, <2>3 DEF TypeA, requestA, response, modes
  <1>6. PlacedA'
    BY <1>1, <1>4 DEF HonestA, BasicA, PlacedA, requestA, modes
  <1>7. ListenA'
    BY <1>1, <1>4 DEF HonestA, ListenA, response
  <1>8. TalkA'
    BY <1>1, <1>3, <1>4 DEF TalkA
  <1>9. ObeyedA'
    <2>1. Heard \/ AllMode(spoken)
      BY DEF HonestA, TalkA
    <2>2. AllMode(spoken) => ~\E l \in Range(spoken) : l.call = calledA /\ l.what \in Confirms
      <3>1. \A i \in 1 .. Len(spoken) : AllMode(spoken) => spoken[i].what \notin Confirms
        BY DEF AllMode, OfMode, ModeLines, Confirms
      <3> QED  BY <1>2, <3>1 DEF Range
    <2>3. Heard => ((\E l \in Range(spoken) : l.call = calledA /\ l.what \in Confirms)
                      <=> Grants(spoken))
      <3> SUFFICES ASSUME Heard
                   PROVE  (\E l \in Range(spoken) : l.call = calledA /\ l.what \in Confirms)
                            <=> Grants(spoken)
        OBVIOUS
      <3>1. Talk(spoken, calledA)
        BY DEF HonestA, TalkA
      <3>2. \A i \in 1 .. Len(spoken) : GrantedA(spoken[i]) => spoken[i].call = calledA
        BY <3>1 DEF Talk, OfMode, GrantedA, ModeLines, Confirms
      <3> QED  BY <1>2, <3>2 DEF Range, Grants, GrantedA
    <2>4. Confirmed => AllMode(spoken)
      BY DEF HonestA, TalkA, Confirmed
    <2>5. CASE Heard /\ StepA.do = "ask"
      <3>1. obeyed <=> Confirmed \/ Grants(spoken)
        BY <2>5 DEF HonestA, ObeyedA
      <3>2. obeyed' <=> Confirmed'
        BY <1>1, <1>4, <2>2, <2>3, <2>4, <2>5, <3>1 DEF Heard
      <3> QED  BY <1>1, <1>3, <1>4, <2>5, <3>2 DEF ObeyedA, Heard
    <2>6. CASE Calling /\ ~(Heard /\ StepA.do = "ask")
      <3>1. obeyed
        BY <2>6 DEF HonestA, ObeyedA
      <3>2. obeyed'
        BY <1>1, <2>1, <2>2, <2>6, <3>1
      <3> QED  BY <1>4, <2>6, <3>2 DEF ObeyedA
    <2>7. CASE ~Calling
      BY <1>1, <1>2, <1>4, <2>7 DEF HonestA, ObeyedA, TypeA, Heard
    <2> QED  BY <2>5, <2>6, <2>7
  <1> QED  BY <1>5, <1>6, <1>7, <1>8, <1>9 DEF HonestA, BasicA

(* What HandleResponse does with a line.                                   *)
LEMMA ResponseIs ==
    ASSUME TypeA, NEW l \in Spoken, HandleResponse(l)
    PROVE  /\ AdrasteaI_cmdConfirmStatus' \in {"Invalid", "Success", "Failed"}
           /\ AdrasteaI_responseincoming' \in BOOLEAN
           /\ AdrasteaI_currentResponse' \in Seq(Spoken)
           /\ ~VerdictA(l) => AdrasteaI_cmdConfirmStatus' = AdrasteaI_cmdConfirmStatus
           /\ ~AdrasteaI_requestPending =>
                AdrasteaI_cmdConfirmStatus' = AdrasteaI_cmdConfirmStatus
           /\ AdrasteaI_requestPending /\ VerdictA(l) =>
                AdrasteaI_cmdConfirmStatus' = IF GrantedA(l) THEN "Success" ELSE "Failed"
           /\ AdrasteaI_responseincoming' =>
                \/ AdrasteaI_responseincoming
                \/ ~VerdictA(l) /\ l.what = AdrasteaI_pendingCommandName /\ l.what # ""
           /\ ~AdrasteaI_responseincoming =>
                AdrasteaI_currentResponse' = AdrasteaI_currentResponse
  <1>1. CASE ~AdrasteaI_requestPending
    BY <1>1 DEF HandleResponse, TypeA
  <1>2. CASE AdrasteaI_requestPending /\ VerdictA(l)
    <2>1. /\ AdrasteaI_responseincoming' = FALSE
          /\ AdrasteaI_cmdConfirmStatus' = IF l.what = "ERROR" THEN "Failed" ELSE "Success"
          /\ AdrasteaI_currentResponse' = AdrasteaI_currentResponse
      BY <1>2 DEF HandleResponse, VerdictA
    <2>2. l.what = "ERROR" <=> ~GrantedA(l)
      BY <1>2 DEF GrantedA, VerdictA, Confirms
    <2> QED  BY <1>2, <2>1, <2>2 DEF TypeA
  <1>3. CASE AdrasteaI_requestPending /\ ~VerdictA(l)
    <2>1. /\ AdrasteaI_currentResponse' =
               IF AdrasteaI_responseincoming THEN Append(AdrasteaI_currentResponse, l)
               ELSE AdrasteaI_currentResponse
          /\ AdrasteaI_responseincoming' =
               (AdrasteaI_responseincoming \/ /\ AdrasteaI_pendingCommandName # ""
                                              /\ l.what = AdrasteaI_pendingCommandName)
          /\ AdrasteaI_cmdConfirmStatus' = AdrasteaI_cmdConfirmStatus
      BY <1>3 DEF HandleResponse, VerdictA
    <2>2. AdrasteaI_currentResponse' \in Seq(Spoken)
      <3>1. AdrasteaI_currentResponse \in Seq(Spoken)
        BY DEF TypeA
      <3>2. Append(AdrasteaI_currentResponse, l) \in Seq(Spoken)
        BY <3>1, AppendA
      <3>3. \/ AdrasteaI_currentResponse' = Append(AdrasteaI_currentResponse, l)
            \/ AdrasteaI_currentResponse' = AdrasteaI_currentResponse
        BY <2>1
      <3> QED  BY <3>1, <3>2, <3>3
    <2> QED  BY <1>3, <2>1, <2>2 DEF TypeA
  <1> QED  BY <1>1, <1>2, <1>3

LEMMA HonestEvent ==
    ASSUME HonestA, EventA
    PROVE  HonestA'
  <1>1. /\ unasked' = unasked + 1 /\ alone' = FALSE
        /\ HandleRxLineA(Line("+event"), spoken)
        /\ UNCHANGED <<AdrasteaI_requestPending, AdrasteaI_pendingCommandName,
                       AdrasteaI_wakingUp, AdrasteaI_open, caller, result, obeyed, whole,
                       calledA>>
    BY DEF EventA
  <1>2. PICK l : l = Line("+event")
    OBVIOUS
  <1>3. TypeA /\ PlacedA
    BY DEF HonestA, BasicA
  <1>4. l \in Spoken /\ l.what = "+event"
    <2>1. l = [what |-> "+event", call |-> calledA] /\ calledA \in Nat
      BY <1>2, <1>3 DEF Line, TypeA
    <2>2. "+event" \in Words
      BY DEF Words
    <2> QED  BY <2>1, <2>2 DEF Spoken
  <1>5. /\ ~VerdictA(l) /\ l.what \notin CommandsA /\ l.what # "MCU menu"
    BY <1>4 DEF VerdictA, Confirms, CommandsA, MenuCommands
  <1>6. HandleResponse(l) /\ prompt' = prompt /\ spoken' = spoken
        /\ AdrasteaI_ATMode' = AdrasteaI_ATMode
    BY <1>1, <1>2, <1>4, <1>5 DEF HandleRxLineA, ModeAfter
  <1>7. /\ AdrasteaI_cmdConfirmStatus' = AdrasteaI_cmdConfirmStatus
        /\ AdrasteaI_responseincoming' \in BOOLEAN
        /\ AdrasteaI_currentResponse' \in Seq(Spoken)
        /\ AdrasteaI_responseincoming' => AdrasteaI_responseincoming
        /\ ~AdrasteaI_responseincoming => AdrasteaI_currentResponse' = AdrasteaI_currentResponse
    <2>1. AdrasteaI_pendingCommandName \in CommandsA
      BY <1>3 DEF TypeA
    <2> QED  BY <1>3, <1>4, <1>5, <1>6, <2>1, ResponseIs
  <1>8. (Heard' <=> Heard) /\ (Polling' <=> Polling) /\ (Confirmed' <=> Confirmed)
        /\ (Calling' <=> Calling) /\ StepA' = StepA
    BY <1>1, <1>7 DEF Heard, Polling, Confirmed, Calling, StepA
  <1>9. TypeA'
    <2>1. unasked' \in Nat
      BY <1>1, <1>3 DEF TypeA
    <2>2. /\ alone' = FALSE
          /\ UNCHANGED <<AdrasteaI_requestPending, AdrasteaI_pendingCommandName,
                         AdrasteaI_wakingUp, AdrasteaI_open, obeyed, whole, calledA>>
      BY <1>1
    <2> QED  BY <1>3, <1>6, <1>7, <2>1, <2>2 DEF TypeA
  <1>10. PlacedA'
    BY <1>1, <1>3, <1>8 DEF PlacedA
  <1>11. ListenA'
    BY <1>1, <1>7, <1>8 DEF HonestA, ListenA, Polling
  <1>12. TalkA'
    BY <1>1, <1>6, <1>7, <1>8 DEF HonestA, TalkA
  <1>13. ObeyedA'
    BY <1>1, <1>6, <1>8 DEF HonestA, ObeyedA
  <1> QED  BY <1>9, <1>10, <1>11, <1>12, <1>13 DEF HonestA, BasicA

LEMMA SaidTalk ==
    ASSUME HonestA, SayA, ~Overdue
    PROVE  /\ spoken' \in Seq(Spoken) /\ prompt' \in {prompt, "AT"}
           /\ AdrasteaI_cmdConfirmStatus' \in {"Invalid", "Success", "Failed"}
           /\ AdrasteaI_responseincoming' \in BOOLEAN
           /\ AdrasteaI_currentResponse' \in Seq(Spoken)
           /\ AdrasteaI_responseincoming' => Polling
           /\ ~AdrasteaI_responseincoming =>
                AdrasteaI_currentResponse' = AdrasteaI_currentResponse
           /\ Heard => /\ Talk(spoken, calledA) /\ AdrasteaI_open /\ AdrasteaI_requestPending
                       /\ ~OfMode(spoken[1]) => Polling
           /\ ~Heard => OfMode(spoken[1])
           /\ Heard => Talk(spoken', calledA)
           /\ ~Heard \/ (AdrasteaI_cmdConfirmStatus' # "Invalid" /\ Polling) => AllMode(spoken')
           /\ Heard => ((Confirmed \/ Grants(spoken)) <=> (Confirmed' \/ Grants(spoken')))
  <1>1. PICK s, t : s = spoken /\ t = Tail(spoken)
    OBVIOUS
  <1>2. TypeA /\ PlacedA
    BY DEF HonestA, BasicA
  <1>0. /\ spoken \in Seq(Spoken) /\ spoken # <<>> /\ spoken[1] \in Spoken
        /\ OfMode(spoken[1]) => Watching
        /\ ~Overdue /\ ~OfMode(spoken[1]) /\ spoken[1].call = calledA => Polling
        /\ AdrasteaI_open =>
             /\ HandleResponse(spoken[1])
             /\ AdrasteaI_ATMode' = IF OfMode(spoken[1]) THEN ModeOf(spoken[1].what)
                                    ELSE AdrasteaI_ATMode
             /\ \/ spoken' = Tail(spoken) /\ prompt' = prompt
                \/ prompt = "menu" /\ prompt' = "AT" /\ MapLines(Tail(spoken), spoken')
        /\ ~AdrasteaI_open =>
             /\ spoken' = Tail(spoken) /\ prompt' = prompt
             /\ UNCHANGED <<AdrasteaI_cmdConfirmStatus, AdrasteaI_responseincoming,
                            AdrasteaI_currentResponse, AdrasteaI_ATMode>>
        /\ UNCHANGED <<AdrasteaI_requestPending, AdrasteaI_pendingCommandName,
                       AdrasteaI_wakingUp, AdrasteaI_open, caller, historyA, boundsA>>
    BY <1>2, SaidIs
  <1>3. /\ s \in Seq(Spoken) /\ s # <<>> /\ s[1] \in Spoken
        /\ OfMode(s[1]) => Watching
        /\ ~Overdue /\ ~OfMode(s[1]) /\ s[1].call = calledA => Polling
        /\ AdrasteaI_open =>
             /\ HandleResponse(s[1])
             /\ AdrasteaI_ATMode' = IF OfMode(s[1]) THEN ModeOf(s[1].what)
                                    ELSE AdrasteaI_ATMode
             /\ \/ spoken' = t /\ prompt' = prompt
                \/ prompt = "menu" /\ prompt' = "AT" /\ MapLines(t, spoken')
        /\ ~AdrasteaI_open =>
             /\ spoken' = t /\ prompt' = prompt
             /\ UNCHANGED <<AdrasteaI_cmdConfirmStatus, AdrasteaI_responseincoming,
                            AdrasteaI_currentResponse, AdrasteaI_ATMode>>
        /\ UNCHANGED <<AdrasteaI_requestPending, AdrasteaI_pendingCommandName,
                       AdrasteaI_wakingUp, AdrasteaI_open, caller, historyA, boundsA>>
    BY <1>0, <1>1
  <1>4. PICK l : l = s[1] /\ l \in Spoken
    BY <1>3
  <1>5. t \in Seq(Spoken)
    BY <1>1, <1>3
  <1>6. /\ Talk(s, calledA) => Talk(t, calledA) /\ (~OfMode(l) => l.call = calledA)
        /\ Talk(s, calledA) /\ VerdictA(l) => AllMode(t)
        /\ AllMode(s) => AllMode(t) /\ OfMode(l) /\ ~Grants(s)
        /\ ~GrantedA(l) => (Grants(t) <=> Grants(s))
        /\ GrantedA(l) => Grants(s)
        /\ AllMode(t) => ~Grants(t)
    BY <1>1, <1>3, <1>4, TailTalk
  <1>7. /\ spoken' \in Seq(Spoken) /\ prompt' \in {prompt, "AT"}
        /\ Talk(t, calledA) => Talk(spoken', calledA)
        /\ AllMode(t) => AllMode(spoken')
        /\ Grants(spoken') <=> Grants(t)
    <2>1. CASE spoken' = t /\ prompt' = prompt
      BY <1>5, <2>1
    <2>2. CASE prompt' = "AT" /\ MapLines(t, spoken')
      BY <1>5, <2>2, MapTalk
    <2> QED  BY <1>3, <2>1, <2>2
  <1>8. /\ AdrasteaI_cmdConfirmStatus' \in {"Invalid", "Success", "Failed"}
        /\ AdrasteaI_responseincoming' \in BOOLEAN
        /\ AdrasteaI_currentResponse' \in Seq(Spoken)
        /\ ~VerdictA(l) => AdrasteaI_cmdConfirmStatus' = AdrasteaI_cmdConfirmStatus
        /\ AdrasteaI_open /\ AdrasteaI_requestPending /\ VerdictA(l) =>
             AdrasteaI_cmdConfirmStatus' = IF GrantedA(l) THEN "Success" ELSE "Failed"
        /\ AdrasteaI_responseincoming' =>
             AdrasteaI_responseincoming \/ l.what = AdrasteaI_pendingCommandName
        /\ ~AdrasteaI_responseincoming => AdrasteaI_currentResponse' = AdrasteaI_currentResponse
    <2>1. CASE AdrasteaI_open
      <3>1. HandleResponse(l)
        BY <1>3, <1>4, <2>1
      <3> QED  BY <1>2, <1>4, <2>1, <3>1, ResponseIs
    <2>2. CASE ~AdrasteaI_open
      BY <1>2, <1>3, <2>2 DEF TypeA
    <2> QED  BY <2>1, <2>2
  <1>9. (Heard' <=> Heard) /\ (Polling' <=> Polling) /\ (Calling' <=> Calling) /\ StepA' = StepA
    BY <1>3 DEF Heard, Polling, Calling, StepA
  <1>12. Heard => /\ Talk(s, calledA) /\ AdrasteaI_open /\ AdrasteaI_requestPending
                  /\ (~OfMode(l) => Polling)
    <2>1. Heard => Talk(s, calledA) /\ (~OfMode(l) => Polling)
      BY <1>1, <1>3, <1>4, <1>6 DEF HonestA, TalkA
    <2>2. Heard => StepA.do \in Asking /\ AdrasteaI_requestPending /\ Calling
      BY <1>2 DEF PlacedA, Heard
    <2>3. Heard => AdrasteaI_open
      BY <1>2, <2>2, OpenIs DEF Asking
    <2> QED  BY <2>1, <2>2, <2>3
  <1>13. ~Heard => AllMode(s) /\ OfMode(l)
    BY <1>1, <1>6 DEF HonestA, TalkA
  <1>14. \A w : OfMode(w) => ~VerdictA(w) /\ w.what \notin CommandsA /\ ~GrantedA(w)
    BY DEF OfMode, VerdictA, GrantedA, ModeLines, Confirms, CommandsA, MenuCommands
  <1>15. AdrasteaI_responseincoming' => Polling
    <2>1. AdrasteaI_pendingCommandName \in CommandsA
      BY <1>2 DEF TypeA
    <2> QED  BY <1>8, <1>12, <1>13, <1>14, <2>1 DEF HonestA, ListenA
  <1>16. AdrasteaI_cmdConfirmStatus' # "Invalid" /\ Polling => AllMode(t)
    <2>1. CASE VerdictA(l)
      BY <1>6, <1>12, <2>1 DEF Heard, Polling
    <2>2. CASE ~VerdictA(l)
      <3>1. AdrasteaI_cmdConfirmStatus' # "Invalid" /\ Polling => AllMode(s)
        BY <1>1, <1>8, <2>2 DEF HonestA, TalkA
      <3> QED  BY <1>6, <3>1
    <2> QED  BY <2>1, <2>2
  <1>18. Heard => ((Confirmed \/ Grants(s)) <=> (Confirmed' \/ Grants(spoken')))
    <2> SUFFICES ASSUME Heard
                 PROVE  (Confirmed \/ Grants(s)) <=> (Confirmed' \/ Grants(spoken'))
      OBVIOUS
    <2>1. CASE VerdictA(l)
      <3>1. Polling /\ AllMode(t) /\ ~OfMode(l)
        BY <1>6, <1>12, <1>14, <2>1
      <3>2. ~Grants(spoken') /\ ~AllMode(s)
        BY <1>6, <1>7, <3>1
      <3>3. ~Confirmed
        BY <1>1, <3>1, <3>2 DEF HonestA, TalkA, Confirmed
      <3>4. Confirmed' <=> GrantedA(l)
        BY <1>8, <1>9, <1>12, <2>1, <3>1 DEF Confirmed
      <3> QED  BY <1>6, <3>1, <3>2, <3>3, <3>4
    <2>2. CASE ~VerdictA(l)
      <3>1. ~GrantedA(l)
        BY <2>2 DEF VerdictA, GrantedA
      <3>2. Confirmed' <=> Confirmed
        BY <1>8, <1>9, <2>2 DEF Confirmed
      <3> QED  BY <1>6, <1>7, <3>1, <3>2
    <2> QED  BY <2>1, <2>2
  <1>19. /\ Heard => Talk(spoken', calledA)
         /\ ~Heard \/ (AdrasteaI_cmdConfirmStatus' # "Invalid" /\ Polling) => AllMode(spoken')
    BY <1>6, <1>7, <1>12, <1>13, <1>16
  <1>20. Heard => ((Confirmed \/ Grants(spoken)) <=> (Confirmed' \/ Grants(spoken')))
    BY <1>1, <1>18
  <1>21. /\ Heard => /\ Talk(spoken, calledA) /\ AdrasteaI_open /\ AdrasteaI_requestPending
                     /\ ~OfMode(spoken[1]) => Polling
         /\ ~Heard => OfMode(spoken[1])
    BY <1>1, <1>4, <1>12, <1>13
  <1> QED  BY <1>7, <1>8, <1>15, <1>19, <1>20, <1>21

LEMMA HonestSay ==
    ASSUME HonestA, SayA, ~Overdue
    PROVE  HonestA'
  <1>1. TypeA /\ PlacedA
    BY DEF HonestA, BasicA
  <1>2. UNCHANGED <<AdrasteaI_requestPending, AdrasteaI_pendingCommandName,
                    AdrasteaI_wakingUp, AdrasteaI_open, caller, historyA, boundsA>>
    BY DEF SayA
  <1>3. /\ spoken' \in Seq(Spoken) /\ prompt' \in {prompt, "AT"}
        /\ AdrasteaI_cmdConfirmStatus' \in {"Invalid", "Success", "Failed"}
        /\ AdrasteaI_responseincoming' \in BOOLEAN
        /\ AdrasteaI_currentResponse' \in Seq(Spoken)
        /\ AdrasteaI_responseincoming' => Polling
        /\ ~AdrasteaI_responseincoming =>
             AdrasteaI_currentResponse' = AdrasteaI_currentResponse
    BY SaidTalk
  <1>4. (Heard' <=> Heard) /\ (Polling' <=> Polling) /\ (Calling' <=> Calling) /\ StepA' = StepA
    BY <1>2 DEF Heard, Polling, Calling, StepA
  <1>5. TypeA'
    BY <1>1, <1>2, <1>3 DEF TypeA, historyA, boundsA
  <1>6. PlacedA'
    BY <1>1, <1>2, <1>4 DEF PlacedA
  <1>7. ListenA'
    <2>1. Calling /\ caller.at = "name" => AdrasteaI_currentResponse' = <<>>
      BY <1>3 DEF HonestA, ListenA, Polling
    <2> QED  BY <1>2, <1>3, <1>4, <2>1 DEF HonestA, ListenA
  <1>8. TalkA'
    <2>1. /\ Heard => Talk(spoken', calledA)
          /\ ~Heard \/ (AdrasteaI_cmdConfirmStatus' # "Invalid" /\ Polling) => AllMode(spoken')
      BY SaidTalk
    <2> QED  BY <1>2, <1>4, <2>1 DEF TalkA, boundsA
  <1>9. ObeyedA'
    <2>1. obeyed' = obeyed /\ result' = result
      BY <1>2 DEF historyA
    <2>2. Heard => ((Confirmed \/ Grants(spoken)) <=> (Confirmed' \/ Grants(spoken')))
      BY SaidTalk
    <2> QED  BY <1>4, <2>1, <2>2 DEF HonestA, ObeyedA
  <1> QED  BY <1>5, <1>6, <1>7, <1>8, <1>9 DEF HonestA, BasicA

(* A function returns true exactly when the module has done and confirmed  *)
(* everything it was asked in this call.                                   *)
LEMMA HonestNext ==
    ASSUME HonestA, [NextA]_varsA, ~Overdue
    PROVE  HonestA'
  <1>1. CASE \E op \in AdrasteaI_Called : CallA(op)
    BY <1>1, HonestCall
  <1>2. CASE MainA
    BY <1>2, HonestPend, HonestTransmit, HonestArm, HonestWait, HonestSteps DEF MainA
  <1>3. CASE StartUp
    BY <1>3, HonestStart
  <1>4. CASE RestartA
    BY <1>4, HonestRestart
  <1>5. CASE SayA
    BY <1>5, HonestSay
  <1>6. CASE EventA
    BY <1>6, HonestEvent
  <1>7. CASE UNCHANGED varsA
    <2>1. UNCHANGED <<requestA, response, modes, caller, prompt, spoken, result, obeyed, whole,
                      alone, calledA, unasked>>
      BY <1>7 DEF varsA, moduleA, historyA, boundsA
    <2>2. (Heard' <=> Heard) /\ (Polling' <=> Polling) /\ (Confirmed' <=> Confirmed)
          /\ (Calling' <=> Calling) /\ StepA' = StepA
      BY <2>1 DEF Heard, Polling, Confirmed, Calling, StepA, requestA
    <2>3. TypeA'
      BY <2>1 DEF HonestA, BasicA, TypeA, requestA, response, modes
    <2>4. PlacedA'
      BY <2>1, <2>2 DEF HonestA, BasicA, PlacedA, requestA, modes
    <2>5. ListenA'
      BY <2>1, <2>2 DEF HonestA, ListenA, response
    <2>6. TalkA'
      BY <2>1, <2>2 DEF HonestA, TalkA, requestA
    <2>7. ObeyedA'
      BY <2>1, <2>2 DEF HonestA, ObeyedA
    <2> QED  BY <2>3, <2>4, <2>5, <2>6, <2>7 DEF HonestA, BasicA
  <1> QED  BY <1>1, <1>2, <1>3, <1>4, <1>5, <1>6, <1>7 DEF NextA

-----------------------------------------------------------------------------
(* Where AdrasteaI_ATMode is when all that is said has been heard.         *)
EndsA(mode) == SettlesA(spoken, AdrasteaI_ATMode, Len(spoken), mode)

StepIs(op, k)    == Calling /\ caller.op = op /\ caller.k = k
Unsure(op, last) == Calling /\ caller.op = op /\ caller.k <= last

(* Since Init has reset the module the driver follows it: InitByPin has    *)
(* reset it after its second step, InitByUart when its RESET was heard, or *)
(* else with "reset all".                                                  *)
Trails    == AdrasteaI_open /\ ~Unsure("InitByPin", 2)
KnowsAT   == ~Unsure("InitByUart", 2) /\ (StepIs("InitByUart", 3) => Heard)
KnowsMenu == Unsure("InitByUart", 4) =>
                StepIs("InitByUart", 3) /\ Heard /\ (Confirmed \/ Grants(spoken))

FollowsA ==
    Trails => /\ prompt = "AT" /\ KnowsAT => EndsA("Ready")
              /\ prompt = "menu" /\ KnowsMenu => EndsA("Off")

(* After line v the module says that it is ready only when it is, and then *)
(* nothing more.                                                           *)
Clear(v) == LastIn(spoken, v) /\ (ReadyIn(spoken, v) => prompt = "AT")
Led      == Clear(0) /\ (AdrasteaI_ATMode = "Ready" => prompt = "AT" /\ NoMode(spoken))
Since(v) == (v = 0 <=> Confirmed) /\ (v # 0 => GrantedA(spoken[v])) /\ Clear(v)

EverSince == \E v \in 0 .. Len(spoken) : Since(v)
OffSince  == \E v \in 0 .. Len(spoken) :
                Since(v) /\ SettlesA(spoken, AdrasteaI_ATMode, v, "Off")

LeadsA ==
    alone =>
      /\ StepIs("SetPowerMode", 3) /\ Heard /\ obeyed => OffSince
      /\ StepIs("SetPowerMode", 4) \/ StepIs("SetPowerMode", 5) => Led
      /\ StepIs("FactoryReset", 1) /\ Heard /\ obeyed => EverSince
      /\ StepIs("FactoryReset", 2) => Clear(0)
      /\ StepIs("FactoryReset", 3) => Led

(* What there is still to hear of an answer that is whole, or that has     *)
(* lost its echo or its text, and what has been collected of it.           *)
Texted(got) == Len(got) = 1 /\ Says(got[1], "text")
Queried(command) ==
    \/ /\ ~AdrasteaI_responseincoming /\ ~Confirmed /\ AdrasteaI_currentResponse = <<>>
       /\ \E p \in 0 .. Len(spoken) :
            /\ \A x \in 1 .. p : OfMode(spoken[x])
            /\ \/ Rest3(spoken, p, command, "text", "OK")
               \/ ~whole /\ (Rest2(spoken, p, "text", "OK") \/ Rest2(spoken, p, command, "OK"))
    \/ /\ AdrasteaI_responseincoming /\ ~Confirmed /\ AdrasteaI_currentResponse = <<>>
       /\ Rest2(spoken, 0, "text", "OK")
    \/ /\ AdrasteaI_responseincoming /\ ~Confirmed /\ Texted(AdrasteaI_currentResponse)
       /\ Rest1(spoken, 0, "OK")
    \/ /\ ~whole /\ ~Confirmed /\ AdrasteaI_currentResponse = <<>> /\ Rest1(spoken, 0, "OK")
    \/ /\ Confirmed /\ spoken = <<>>
       /\ Texted(AdrasteaI_currentResponse) \/ (AdrasteaI_currentResponse = <<>> /\ ~whole)

QueriesA ==
    \A command \in Queries_A :
        Heard /\ obeyed /\ alone /\ StepA.command = command =>
            prompt = "AT" /\ Queried(command)

(* What was so when a function returned remains so: of a response its text *)
(* or, when a line was lost, nothing; and nothing is left to hear.         *)
GotA(text) == Texted(text) \/ (text = <<>> /\ ~whole)
Settled   == prompt = "AT" /\ AdrasteaI_ATMode = "Ready" /\ spoken = <<>>

ReadyA ==
    /\ result.ok \in BOOLEAN /\ result.text \in Seq(Spoken)
    /\ ResultOf("Get") /\ result.ok /\ alone => GotA(result.text)
    /\ \A op \in OpensA \cup {"SetPowerMode", "FactoryReset"} :
         ResultOf(op) /\ result.ok /\ alone => Settled

SureA == HonestA /\ FollowsA /\ LeadsA /\ QueriesA /\ ReadyA

(* Which requests the functions make.                                      *)
LEMMA AskedIs ==
    ASSUME PlacedA, Calling, StepA.do \in Asking
    PROVE  /\ StepA.command \in CommandsA
           /\ \/ /\ StepA.do = "ask"
                 /\ \/ caller.op = "InitByPin" /\ caller.k = 4 /\ StepA.command = "CGMR"
                    \/ caller.op = "InitByUart" /\ caller.k = 6 /\ StepA.command = "CGMR"
                    \/ caller.op = "PinWakeUp" /\ caller.k = 2 /\ StepA.command = "sleepSet disable"
                    \/ caller.op = "SetPowerMode" /\ caller.k = 3 /\ StepA.command = "pwrMode"
                    \/ caller.op = "EnableSleep" /\ caller.k = 3 /\ StepA.command = "sleepSet enable"
                    \/ caller.op = "FactoryReset" /\ caller.k = 1 /\ StepA.command = "F0"
                    \/ caller.op = "Reset" /\ caller.k = 1 /\ StepA.command = "RESET"
                    \/ caller.op = "Set" /\ caller.k = 1 /\ StepA.command = "CFUN"
                    \/ caller.op = "Get" /\ caller.k = 1 /\ StepA.command = "CGMI"
              \/ /\ StepA.do = "try" /\ caller.op = "InitByUart"
                 /\ \/ caller.k = 2 /\ StepA.command = "" /\ StepA.over = 0
                    \/ caller.k = 3 /\ StepA.command = "RESET" /\ StepA.over = 1
  <1>1. PICK op, k, n, step : /\ op = caller.op /\ k = caller.k /\ step = StepA
                              /\ StepKind(op, k, n, step)
    BY HereA
  <1>2. step.command \in CommandsA
    BY <1>1, KindIsA
  <1>3. CASE step.do = "ask"
    <2>1. AsksA(op, k, n, step)
      BY <1>1, <1>3, KindIsA
    <2>2. PICK c \in CommandsA :
            /\ step = AskA(c)
            /\ \/ op = "InitByPin" /\ k = 4 /\ n = 4 /\ c = "CGMR"
               \/ op = "InitByUart" /\ k = 6 /\ n = 6 /\ c = "CGMR"
               \/ op = "PinWakeUp" /\ k = 2 /\ n = 4 /\ c = "sleepSet disable"
               \/ op = "SetPowerMode" /\ k = 3 /\ n = 5 /\ c = "pwrMode"
               \/ op = "EnableSleep" /\ k = 3 /\ n = 3 /\ c = "sleepSet enable"
               \/ op = "FactoryReset" /\ k = 1 /\ n = 3 /\ c = "F0"
               \/ op = "Reset" /\ k = 1 /\ n = 1 /\ c = "RESET"
               \/ op = "Set" /\ k = 1 /\ n = 1 /\ c = "CFUN"
               \/ op = "Get" /\ k = 1 /\ n = 1 /\ c = "CGMI"
      BY <2>1 DEF AsksA
    <2>3. step.command = c
      BY <2>2 DEF AskA
    <2> QED  BY <1>1, <1>2, <1>3, <2>2, <2>3
  <1>4. CASE step.do = "try"
    <2>1. TriesA(op, k, n, step)
      BY <1>1, <1>4, KindIsA
    <2>2. PICK c, over : /\ step = Try(c, over) /\ op = "InitByUart"
                         /\ \/ k = 2 /\ c = "" /\ over = 0
                            \/ k = 3 /\ c = "RESET" /\ over = 1
      BY <2>1 DEF TriesA
    <2>3. step.command = c /\ step.over = over
      BY <2>2 DEF Try
    <2> QED  BY <1>1, <1>2, <1>4, <2>2, <2>3
  <1> QED  BY <1>1, <1>3, <1>4 DEF Asking

(* A step that leaves the main thread where it is in its function.         *)
LEMMA KnowsSame ==
    ASSUME Calling' <=> Calling, caller'.op = caller.op, caller'.k = caller.k,
           Heard' <=> Heard,
           Heard => ((Confirmed \/ Grants(spoken)) <=> (Confirmed' \/ Grants(spoken'))),
           AdrasteaI_open' = AdrasteaI_open
    PROVE  (Trails' <=> Trails) /\ (KnowsAT' <=> KnowsAT) /\ (KnowsMenu' <=> KnowsMenu)
  <1>1. /\ Unsure("InitByPin", 2)' <=> Unsure("InitByPin", 2)
        /\ Unsure("InitByUart", 2)' <=> Unsure("InitByUart", 2)
        /\ Unsure("InitByUart", 4)' <=> Unsure("InitByUart", 4)
        /\ StepIs("InitByUart", 3)' <=> StepIs("InitByUart", 3)
    BY DEF Unsure, StepIs
  <1> QED  BY <1>1 DEF Trails, KnowsAT, KnowsMenu

(* A step that takes it further.                                           *)
LEMMA KnowsPass ==
    ASSUME PlacedA, Calling, NEW over \in {0, 1}, Pass(over),
           over = 1 => caller.op = "InitByUart" /\ caller.k = 3 /\ Heard /\ Confirmed,
           caller.op = "InitByUart" /\ caller.k = 3 => Heard,
           AdrasteaI_open' = AdrasteaI_open
    PROVE  /\ Trails' => Trails \/ StepIs("InitByPin", 2)
           /\ KnowsAT' => KnowsAT
           /\ KnowsMenu' => KnowsMenu \/ StepIs("InitByUart", 4)
  <1>1. PICK op, k, n : /\ op = caller.op /\ k = caller.k /\ n = Len(ScriptA[caller.op])
                        /\ n \in Nat /\ k \in 1 .. n /\ op # "none"
                        /\ StepKind(op, k, n, StepA)
    BY HereA
  <1>2. (op = "InitByPin" => n = 4) /\ (op = "InitByUart" => n = 6)
    BY <1>1 DEF StepKind, AsksA, TriesA, TellsA, UntilsA, DoesA
  <1>3. \/ k = n /\ ~Calling'
        \/ /\ k < n /\ Calling' /\ caller'.op = op /\ caller'.k = k + 1 + over
           /\ caller'.at = "next"
    BY <1>1, PassIs
  <1>4. ~Heard'
    BY <1>3 DEF Heard
  <1>5. over = 1 => op = "InitByUart" /\ k = 3
    BY <1>1
  <1>6. k \in Nat /\ k + 1 + over \in Nat /\ (over = 0 => k + 1 + over = k + 1)
    BY <1>1
  <1>7. ASSUME Trails' PROVE Trails \/ StepIs("InitByPin", 2)
    <2>1. AdrasteaI_open /\ ~Unsure("InitByPin", 2)'
      BY <1>7 DEF Trails
    <2>2. CASE op = "InitByPin" /\ k <= 2
      <3>1. over = 0 /\ k # n /\ k \in 1 .. 4
        <4>1. n = 4 /\ ~(over = 1) /\ k <= 2
          BY <1>2, <1>5, <2>2
        <4>2. over = 0 /\ k # n /\ k \in 1 .. n
          <5>1. k \in 1 .. n
            BY <1>1
          <5> QED  BY <4>1, <5>1
        <4> QED  BY <4>1, <4>2
      <3>2. ~(k + 1 <= 2)
        BY <1>3, <1>6, <2>1, <2>2, <3>1 DEF Unsure
      <3>3. k = 2
        BY <2>2, <3>1, <3>2
      <3> QED  BY <1>1, <2>2, <3>3 DEF StepIs
    <2>3. CASE ~(op = "InitByPin" /\ k <= 2)
      BY <1>1, <2>1, <2>3 DEF Trails, Unsure
    <2> QED  BY <2>2, <2>3
  <1>8. ASSUME op = "InitByUart" PROVE k \in 1 .. 6 /\ (k = 6 <=> ~Calling')
    <2>1. n = 6 /\ k \in 1 .. n
      BY <1>1, <1>2, <1>8
    <2>2. (k = n /\ ~Calling') \/ (k < n /\ Calling')
      BY <1>3
    <2> QED  BY <2>1, <2>2
  <1>9. ASSUME KnowsAT' PROVE KnowsAT
    <2>1. CASE op = "InitByUart"
      <3>1. k \in 1 .. 6 /\ (k = 6 <=> ~Calling')
        BY <1>8, <2>1
      <3>2. ~(Calling' /\ caller'.k <= 2) /\ ~(Calling' /\ caller'.k = 3)
        BY <1>3, <1>4, <1>9, <2>1 DEF KnowsAT, Unsure, StepIs
      <3>3. over = 0 => ~(k \in 1 .. 2)
        <4> SUFFICES ASSUME over = 0, k \in 1 .. 2 PROVE FALSE
          OBVIOUS
        <4>1. Calling' /\ caller'.k = k + 1
          BY <1>3, <1>6, <3>1
        <4>2. k + 1 <= 2 \/ k + 1 = 3
          OBVIOUS
        <4> QED  BY <3>2, <4>1, <4>2
      <3>4. over = 1 => k = 3
        BY <1>5
      <3>5. ~(k <= 2)
        BY <3>1, <3>3, <3>4
      <3> QED  BY <1>1, <3>5 DEF KnowsAT, Unsure, StepIs
    <2>2. CASE op # "InitByUart"
      BY <1>1, <2>2 DEF KnowsAT, Unsure, StepIs
    <2> QED  BY <2>1, <2>2
  <1>10. ASSUME KnowsMenu' PROVE KnowsMenu \/ StepIs("InitByUart", 4)
    <2>1. CASE op = "InitByUart" /\ over = 0
      <3>1. k \in 1 .. 6 /\ (k = 6 <=> ~Calling')
        BY <1>8, <2>1
      <3>2. ~(Calling' /\ caller'.k <= 4)
        BY <1>3, <1>4, <1>10, <2>1 DEF KnowsMenu, Unsure
      <3>3. ~(k \in 1 .. 3)
        <4> SUFFICES ASSUME k \in 1 .. 3 PROVE FALSE
          OBVIOUS
        <4>1. Calling' /\ caller'.k = k + 1
          BY <1>3, <1>6, <2>1, <3>1
        <4>2. k + 1 <= 4
          OBVIOUS
        <4> QED  BY <3>2, <4>1, <4>2
      <3>4. k = 4 \/ ~(k <= 4)
        BY <3>1, <3>3
      <3> QED  BY <1>1, <2>1, <3>4 DEF KnowsMenu, Unsure, StepIs
    <2>2. CASE over = 1
      BY <2>2 DEF KnowsMenu, StepIs
    <2>3. CASE op # "InitByUart"
      BY <1>1, <2>3 DEF KnowsMenu, Unsure
    <2> QED  BY <2>1, <2>2, <2>3
  <1> QED  BY <1>7, <1>9, <1>10

(* What the driver expects when all has been heard stays right.            *)
LEMMA FollowsSay ==
    ASSUME HonestA, FollowsA, SayA, ~Overdue
    PROVE  FollowsA'
  <1>1. TypeA /\ PlacedA
    BY DEF HonestA, BasicA
  <1>2. PICK s, t : s = spoken /\ t = Tail(spoken)
    OBVIOUS
  <1>3. /\ s \in Seq(Spoken) /\ s # <<>>
        /\ AdrasteaI_open =>
             /\ AdrasteaI_ATMode' = IF OfMode(s[1]) THEN ModeOf(s[1].what)
                                    ELSE AdrasteaI_ATMode
             /\ \/ spoken' = t /\ prompt' = prompt
                \/ prompt = "menu" /\ prompt' = "AT" /\ MapLines(t, spoken')
        /\ UNCHANGED <<AdrasteaI_open, caller>>
    BY <1>1, <1>2, SaidIs
  <1>4. Heard => ((Confirmed \/ Grants(spoken)) <=> (Confirmed' \/ Grants(spoken')))
    BY SaidTalk
  <1>5. (Trails' <=> Trails) /\ (KnowsAT' <=> KnowsAT) /\ (KnowsMenu' <=> KnowsMenu)
    <2>1. (Calling' <=> Calling) /\ (Heard' <=> Heard)
      BY <1>3 DEF Calling, Heard
    <2> QED  BY <1>3, <1>4, <2>1, KnowsSame
  <1>6. SUFFICES ASSUME Trails
                 PROVE  /\ prompt' = "AT" /\ KnowsAT => EndsA("Ready")'
                        /\ prompt' = "menu" /\ KnowsMenu => EndsA("Off")'
    BY <1>5 DEF FollowsA
  <1>7. AdrasteaI_open
    BY <1>6 DEF Trails
  <1>8. CASE spoken' = t /\ prompt' = prompt
    <2>1. PICK now, now2 : /\ now = AdrasteaI_ATMode /\ now2 = AdrasteaI_ATMode'
                           /\ now2 = IF OfMode(s[1]) THEN ModeOf(s[1].what) ELSE now
      BY <1>3, <1>7
    <2>2. \A v \in 1 .. Len(s) : \A mode :
             SettlesA(s, now, v, mode) => SettlesA(t, now2, v - 1, mode)
      BY <1>2, <1>3, <2>1, TailA
    <2>3. Len(t) = Len(s) - 1 /\ Len(s) \in 1 .. Len(s)
      BY <1>2, <1>3
    <2>4. \A mode : SettlesA(s, now, Len(s), mode) => SettlesA(t, now2, Len(t), mode)
      BY <2>2, <2>3
    <2>5. \A mode : EndsA(mode) => SettlesA(spoken', AdrasteaI_ATMode', Len(spoken'), mode)
      BY <1>2, <1>8, <2>1, <2>4 DEF EndsA
    <2> QED  BY <1>6, <1>8, <2>5 DEF FollowsA, EndsA
  <1>9. CASE prompt' = "AT" /\ MapLines(t, spoken')
    <2>1. t \in Seq(Spoken)
      BY <1>2, <1>3
    <2>2. \A now : SettlesA(spoken', now, Len(spoken'), "Ready")
      BY <1>9, <2>1, MapTalk
    <2> QED  BY <1>9, <2>2 DEF EndsA
  <1> QED  BY <1>3, <1>7, <1>8, <1>9

LEMMA FollowsTransmit ==
    ASSUME HonestA, FollowsA, TransmitA
    PROVE  FollowsA'
  <1>1. PlacedA /\ TypeA /\ spoken \in Seq(Spoken)
    BY DEF HonestA, BasicA, TypeA
  <1>2. PICK c : c = StepA.command
    OBVIOUS
  <1>3. /\ Calling /\ caller.at = "name" /\ StepA.do \in Asking
        /\ Calling' /\ caller'.op = caller.op /\ caller'.k = caller.k /\ caller'.at = "arm"
        /\ \/ prompt # Place(c) /\ prompt' = prompt /\ spoken' = spoken
           \/ prompt = Place(c) /\ \E r : Answers(c, r)
    BY <1>1, <1>2, TransmitIs
  <1>4. UNCHANGED <<AdrasteaI_open, AdrasteaI_ATMode>>
    BY DEF TransmitA, modes
  <1>5. ~Heard /\ Heard' /\ ~Confirmed'
    BY <1>3 DEF Heard, Polling, Confirmed
  <1>6. AllMode(spoken) /\ ~Grants(spoken)
    <2>1. AllMode(spoken)
      BY <1>5 DEF HonestA, TalkA
    <2> QED  BY <2>1 DEF AllMode, Grants, OfMode, GrantedA, ModeLines, Confirms
  <1>7. /\ Unsure("InitByPin", 2)' <=> Unsure("InitByPin", 2)
        /\ Unsure("InitByUart", 2)' <=> Unsure("InitByUart", 2)
        /\ Unsure("InitByUart", 4)' <=> Unsure("InitByUart", 4)
        /\ StepIs("InitByUart", 3)' <=> StepIs("InitByUart", 3)
    BY <1>3 DEF Unsure, StepIs
  <1>8. Trails' <=> Trails
    BY <1>4, <1>7 DEF Trails
  <1>9. KnowsAT' => KnowsAT \/ c = "RESET"
    <2>1. StepIs("InitByUart", 3) => c = "RESET"
      BY <1>1, <1>2, <1>3, AskedIs DEF StepIs
    <2> QED  BY <1>7, <2>1 DEF KnowsAT
  <1>10. KnowsMenu' /\ ~Grants(spoken') => KnowsMenu
    BY <1>5, <1>7 DEF KnowsMenu
  <1>11. c \in MenuCommands => KnowsMenu
    <2>1. c \in MenuCommands => caller.op # "InitByUart"
      BY <1>1, <1>2, <1>3, AskedIs DEF MenuCommands
    <2> QED  BY <2>1 DEF KnowsMenu, Unsure
  <1>12. SUFFICES ASSUME Trails
                  PROVE  /\ prompt' = "AT" /\ KnowsAT' => EndsA("Ready")'
                         /\ prompt' = "menu" /\ KnowsMenu' => EndsA("Off")'
    BY <1>8 DEF FollowsA
  <1>13. CASE prompt # Place(c) /\ prompt' = prompt /\ spoken' = spoken
    <2>1. Place("RESET") = "AT"
      BY DEF Place, MenuCommands
    <2>2. \A mode : EndsA(mode) => SettlesA(spoken', AdrasteaI_ATMode', Len(spoken'), mode)
      BY <1>4, <1>13 DEF EndsA
    <2> QED  BY <1>6, <1>9, <1>10, <1>12, <1>13, <2>1, <2>2 DEF FollowsA, EndsA
  <1>14. CASE prompt = Place(c) /\ \E r : Answers(c, r)
    <2>1. PICK r : Answers(c, r)
      BY <1>14
    <2>2. /\ r \in Seq(Spoken) /\ NoMode(r) /\ spoken' = spoken \o r
          /\ c = "RESET" => prompt' \in Leads(c)
          /\ prompt' \in Leads(c) \cup {prompt}
      BY <2>1 DEF Answers
    <2>3. \A now, mode : SettlesA(spoken, now, Len(spoken), mode) =>
                            SettlesA(spoken', now, Len(spoken'), mode)
      BY <1>1, <2>2, ConcatA
    <2>4. \A mode : EndsA(mode) => SettlesA(spoken', AdrasteaI_ATMode', Len(spoken'), mode)
      BY <1>4, <2>3 DEF EndsA
    <2>5. Place(c) = IF c \in MenuCommands THEN "menu" ELSE "AT"
      BY DEF Place
    <2>6. prompt' = "AT" => prompt = "AT" /\ c # "RESET"
      BY <2>2 DEF Leads
    <2>7. prompt' = "menu" => prompt = "menu"
      BY <1>14, <2>2, <2>5 DEF Leads, MenuCommands
    <2>8. prompt' = "menu" => KnowsMenu
      BY <1>11, <1>14, <2>5, <2>7
    <2> QED  BY <1>9, <1>12, <2>4, <2>6, <2>7, <2>8 DEF FollowsA, EndsA
  <1> QED  BY <1>3, <1>13, <1>14

LEMMA FollowsSame ==
    ASSUME FollowsA, Trails' => Trails \/ prompt' \notin {"AT", "menu"},
           prompt' = "AT" => prompt = "AT" /\ (KnowsAT' => KnowsAT),
           prompt' = "menu" => prompt = "menu" /\ (KnowsMenu' => KnowsMenu),
           spoken' = spoken \/ prompt' \notin {"AT", "menu"},
           AdrasteaI_ATMode' = AdrasteaI_ATMode
    PROVE  FollowsA'
  <1>1. CASE prompt' \notin {"AT", "menu"}
    BY <1>1 DEF FollowsA
  <1>2. CASE prompt' \in {"AT", "menu"}
    <2>1. \A mode : EndsA(mode) => SettlesA(spoken', AdrasteaI_ATMode', Len(spoken'), mode)
      BY <1>2 DEF EndsA
    <2> QED  BY <1>2, <2>1 DEF FollowsA, EndsA
  <1> QED  BY <1>1, <1>2

LEMMA FollowsSteps ==
    ASSUME HonestA, FollowsA,
           UntilMode \/ TellA \/ OpenA \/ PulseResetA \/ PulseWakeUp \/ Awake \/ CloseA
    PROVE  FollowsA'
  <1>1. PlacedA /\ TypeA /\ spoken \in Seq(Spoken) /\ calledA \in Nat
    BY DEF HonestA, BasicA, TypeA
  <1>2. Calling /\ caller.at = "next" /\ StepA.do \notin Asking /\ Pass(0)
    BY DEF UntilMode, TellA, OpenA, PulseResetA, PulseWakeUp, Awake, CloseA, AtA, Asking,
           Advance
  <1>3. PICK op, k, n, step : /\ op = caller.op /\ k = caller.k /\ step = StepA
                              /\ StepKind(op, k, n, step)
    BY <1>1, <1>2, HereA
  <1>4. /\ step.do = "tell" => TellsA(op, k, n, step)
        /\ step.do = "until" => UntilsA(op, k, n, step)
        /\ step.do \in {"open", "pin", "close", "wake", "awake"} => DoesA(op, k, n, step)
    BY <1>3, KindIsA
  <1>5. ~(op = "InitByUart" /\ k = 3)
    <2>1. ASSUME op = "InitByUart", k = 3 PROVE step = Try("RESET", 1)
      BY <1>3, <2>1 DEF StepKind, AsksA, TriesA, TellsA, UntilsA, DoesA
    <2>2. Try("RESET", 1).do = "try"
      BY DEF Try
    <2> QED  BY <1>2, <1>3, <2>1, <2>2 DEF Asking
  <1>6. AdrasteaI_open' = AdrasteaI_open =>
          /\ Trails' => Trails \/ StepIs("InitByPin", 2)
          /\ KnowsAT' => KnowsAT
          /\ KnowsMenu' => KnowsMenu \/ StepIs("InitByUart", 4)
    BY <1>1, <1>2, <1>3, <1>5, KnowsPass
  <1>7. /\ StepIs("InitByPin", 2) => step = DoA("pin")
        /\ StepIs("InitByUart", 4) => step = Tell("reset all")
    <2>1. ASSUME op = "InitByPin", k = 2 PROVE step = DoA("pin")
      BY <1>3, <2>1 DEF StepKind, AsksA, TriesA, TellsA, UntilsA, DoesA
    <2>2. ASSUME op = "InitByUart", k = 4 PROVE step = Tell("reset all")
      <3>1. ~AsksA(op, k, n, step)
        BY <2>2 DEF AsksA
      <3>2. ~TriesA(op, k, n, step) /\ ~UntilsA(op, k, n, step) /\ ~DoesA(op, k, n, step)
        BY <2>2 DEF TriesA, UntilsA, DoesA
      <3>3. TellsA(op, k, n, step)
        BY <1>3, <3>1, <3>2 DEF StepKind
      <3> QED  BY <2>2, <3>3 DEF TellsA
    <2> QED  BY <1>3, <2>1, <2>2 DEF StepIs
  <1>8. /\ StepIs("InitByPin", 2) => step.do = "pin"
        /\ StepIs("InitByUart", 4) => step.do = "tell" /\ step.text = "reset all"
    <2>1. /\ DoA("pin").do = "pin"
          /\ Tell("reset all").do = "tell" /\ Tell("reset all").text = "reset all"
      BY DEF DoA, Tell
    <2> QED  BY <1>7, <2>1
  <1>9. CASE UntilMode
    <2>1. UNCHANGED <<modes, moduleA>> /\ StepA.do = "until"
      BY <1>9 DEF UntilMode, AtA
    <2> QED  BY <1>3, <1>6, <1>8, <2>1, FollowsSame DEF modes, moduleA
  <1>10. CASE TellA
    <2>1. UNCHANGED <<modes>> /\ StepA.do = "tell" /\ HearText(StepA.text, spoken)
      BY <1>10 DEF TellA, AtA
    <2>2. CASE prompt' = "AT" /\ MapLines(spoken, spoken')
      <3>1. \A now : SettlesA(spoken', now, Len(spoken'), "Ready")
        BY <1>1, <2>2, MapTalk
      <3> QED  BY <2>2, <3>1 DEF FollowsA, EndsA
    <2>3. CASE /\ prompt' = "menu"
               /\ \E a \in Spoken : a.what = "MAP CLI Closed" /\ spoken' = Append(spoken, a)
      <3>1. PICK a \in Spoken : a.what = "MAP CLI Closed" /\ spoken' = Append(spoken, a)
        BY <2>3
      <3>2. OfMode(a) /\ ModeOf(a.what) = "Off"
        BY <3>1 DEF OfMode, ModeLines, ModeOf
      <3>3. \A now : SettlesA(spoken', now, Len(spoken'), ModeOf(a.what))
        BY <1>1, <3>1, <3>2, AppendA
      <3> QED  BY <2>3, <3>2, <3>3 DEF FollowsA, EndsA
    <2>4. CASE prompt' = "starting"
      BY <2>4 DEF FollowsA
    <2>5. CASE /\ prompt' = prompt /\ spoken' = spoken
               /\ ~(StepA.text = "reset all" /\ prompt = "menu")
      BY <1>3, <1>6, <1>8, <2>1, <2>5, FollowsSame DEF modes
    <2> QED  BY <1>1, <2>1, <2>2, <2>3, <2>4, <2>5, HearTextIs
  <1>11. CASE OpenA
    <2>1. StepA.do = "open"
      BY <1>11 DEF OpenA, AtA
    <2>2. DoesA(op, k, n, step)
      BY <1>3, <1>4, <2>1
    <2>3. op \in OpensA /\ k = 1
      BY <1>3, <2>1, <2>2 DEF DoesA, DoA, OpensA
    <2>4. k # Len(ScriptA[op])
      <3>1. ScriptA["InitByPin"] = <<DoA("open"), DoA("pin"), Until("Ready"), AskA("CGMR")>>
            /\ ScriptA["InitByUart"] = <<DoA("open"), Try("", 0), Try("RESET", 1),
                                         Tell("reset all"), Until("Ready"), AskA("CGMR")>>
        BY FunctionsA
      <3>2. Len(ScriptA["InitByPin"]) = 4 /\ Len(ScriptA["InitByUart"]) = 6
        BY <3>1
      <3> QED  BY <2>3, <3>2 DEF OpensA
    <2>5. Calling' /\ caller'.op = op /\ caller'.k = 1 + 1 + 0 /\ caller'.at = "next"
      BY <1>1, <1>2, <1>3, <2>3, <2>4, PassIs
    <2>6. caller'.k <= 2 /\ caller'.k <= 4 /\ caller'.k # 3
      <3>1. caller'.k = 1 + 1 + 0
        BY <2>5
      <3> QED  BY <3>1
    <2>7. ~Heard'
      BY <2>5 DEF Heard
    <2>8. CASE op = "InitByPin"
      BY <2>5, <2>6, <2>8 DEF FollowsA, Trails, Unsure
    <2>9. CASE op = "InitByUart"
      BY <2>5, <2>6, <2>7, <2>9 DEF FollowsA, KnowsAT, KnowsMenu, Unsure
    <2> QED  BY <2>3, <2>8, <2>9 DEF OpensA
  <1>12. CASE PulseResetA
    <2>1. prompt' = "starting"
      BY <1>12 DEF PulseResetA
    <2> QED  BY <2>1 DEF FollowsA
  <1>13. CASE PulseWakeUp
    <2>1. /\ prompt' \in {prompt, "starting"} /\ StepA.do = "wake"
          /\ UNCHANGED <<AdrasteaI_ATMode, AdrasteaI_open, spoken>>
      BY <1>13 DEF PulseWakeUp, AtA
    <2> QED  BY <1>3, <1>6, <1>8, <2>1, FollowsSame
  <1>14. CASE Awake
    <2>1. /\ UNCHANGED <<AdrasteaI_ATMode, AdrasteaI_open, moduleA>> /\ StepA.do = "awake"
      BY <1>14 DEF Awake, AtA
    <2> QED  BY <1>3, <1>6, <1>8, <2>1, FollowsSame DEF moduleA
  <1>15. CASE CloseA
    <2>1. AdrasteaI_open' = FALSE
      BY <1>15 DEF CloseA
    <2> QED  BY <2>1 DEF FollowsA, Trails
  <1> QED  BY <1>9, <1>10, <1>11, <1>12, <1>13, <1>14, <1>15

LEMMA FollowsWait ==
    ASSUME HonestA, FollowsA, WaitForConfirmA
    PROVE  FollowsA'
  <1>1. PlacedA
    BY DEF HonestA, BasicA
  <1>2. /\ Calling /\ caller.at = "poll" /\ StepA.do \in Asking
        /\ UNCHANGED <<AdrasteaI_cmdConfirmStatus, modes, moduleA>>
    BY DEF WaitForConfirmA, AtA
  <1>3. Heard /\ (Confirmed <=> AdrasteaI_cmdConfirmStatus = "Success")
    BY <1>2 DEF Heard, Polling, Confirmed
  <1>4. /\ \/ StepA.do = "ask"
           \/ StepA.do = "try" /\ StepA.over = 0
           \/ StepA.do = "try" /\ StepA.over = 1 /\ caller.op = "InitByUart" /\ caller.k = 3
        /\ ~StepIs("InitByPin", 2) /\ ~StepIs("InitByUart", 4)
        /\ StepA.do = "ask" => /\ caller.op = "InitByPin" => caller.k = 4
                               /\ caller.op = "InitByUart" => caller.k = 6
    <2>1. PICK op, k, do, over : /\ op = caller.op /\ k = caller.k
                                 /\ do = StepA.do /\ over = StepA.over
      OBVIOUS
    <2>2. \/ /\ do = "ask"
             /\ \/ op = "InitByPin" /\ k = 4
                \/ op = "InitByUart" /\ k = 6
                \/ op \notin {"InitByPin", "InitByUart"}
          \/ do = "try" /\ op = "InitByUart" /\ k = 2 /\ over = 0
          \/ do = "try" /\ op = "InitByUart" /\ k = 3 /\ over = 1
      BY <1>1, <1>2, <2>1, AskedIs
    <2>3. ~(op = "InitByPin" /\ k = 2) /\ ~(op = "InitByUart" /\ k = 4)
      BY <2>2
    <2>4. /\ \/ do = "ask"
             \/ do = "try" /\ over = 0
             \/ do = "try" /\ over = 1 /\ op = "InitByUart" /\ k = 3
          /\ do = "ask" => (op = "InitByPin" => k = 4) /\ (op = "InitByUart" => k = 6)
      BY <2>2
    <2> QED  BY <2>1, <2>3, <2>4 DEF StepIs
  <1>5. ASSUME NEW over \in {0, 1}, Pass(over),
               over = 1 => caller.op = "InitByUart" /\ caller.k = 3 /\ Confirmed
        PROVE  FollowsA'
    <2>1. /\ Trails' => Trails \/ StepIs("InitByPin", 2)
          /\ KnowsAT' => KnowsAT
          /\ KnowsMenu' => KnowsMenu \/ StepIs("InitByUart", 4)
      BY <1>1, <1>2, <1>3, <1>5, KnowsPass DEF modes
    <2> QED  BY <1>2, <1>4, <2>1, FollowsSame DEF modes, moduleA
  <1>6. ASSUME EndA(FALSE), StepA.do = "ask" PROVE FollowsA'
    <2>1. ~(4 <= 2) /\ ~(6 <= 2) /\ ~(6 <= 4) /\ 6 # 3
      OBVIOUS
    <2>2. ~Unsure("InitByPin", 2) /\ KnowsAT /\ KnowsMenu
      BY <1>4, <1>6, <2>1 DEF Unsure, KnowsAT, KnowsMenu, StepIs
    <2>3. Trails' => Trails
      BY <1>2, <2>2 DEF Trails, modes
    <2> QED  BY <1>2, <2>2, <2>3, FollowsSame DEF modes, moduleA
  <1>7. CASE AdrasteaI_cmdConfirmStatus = "Success"
    <2>1. Pass(IF StepA.do = "try" THEN StepA.over ELSE 0)
      BY <1>7 DEF WaitForConfirmA
    <2>2. CASE StepA.do = "ask" \/ StepA.over = 0
      <3>1. Pass(0)
        BY <1>4, <2>1, <2>2
      <3> QED  BY <1>5, <3>1
    <2>3. CASE StepA.do = "try" /\ StepA.over = 1 /\ caller.op = "InitByUart" /\ caller.k = 3
      <3>1. Pass(1)
        BY <2>1, <2>3
      <3> QED  BY <1>3, <1>5, <1>7, <2>3, <3>1
    <2> QED  BY <1>4, <2>2, <2>3
  <1>8. CASE AdrasteaI_cmdConfirmStatus # "Success" /\ StepA.do = "try"
    <2>1. Pass(0)
      BY <1>8 DEF WaitForConfirmA, Advance
    <2> QED  BY <1>5, <2>1
  <1>9. CASE AdrasteaI_cmdConfirmStatus # "Success" /\ StepA.do # "try"
    <2>1. EndA(FALSE)
      BY <1>9 DEF WaitForConfirmA
    <2> QED  BY <1>4, <1>6, <1>9, <2>1
  <1> QED  BY <1>7, <1>8, <1>9

LEMMA FollowsNext ==
    ASSUME HonestA, FollowsA, [NextA]_varsA, ~Overdue
    PROVE  FollowsA'
  <1>1. PlacedA /\ TypeA /\ spoken \in Seq(Spoken)
    BY DEF HonestA, BasicA, TypeA
  <1>2. ASSUME NEW op \in AdrasteaI_Called, CallA(op) PROVE FollowsA'
    <2>1. /\ ~Calling /\ caller' = [Unoccupied EXCEPT !.op = op]
          /\ (op \in OpensA) = ~AdrasteaI_open
          /\ UNCHANGED <<modes, moduleA>>
      BY <1>2 DEF CallA
    <2>2. Trails' => op \notin OpensA
      BY <2>1 DEF Trails, modes
    <2>3. /\ Trails' => Trails
          /\ ~Unsure("InitByUart", 2) /\ ~Unsure("InitByUart", 4) /\ ~StepIs("InitByUart", 3)
      BY <2>1 DEF Trails, Unsure, StepIs, modes
    <2>4. KnowsAT /\ KnowsMenu
      BY <2>3 DEF KnowsAT, KnowsMenu
    <2> QED  BY <2>1, <2>3, <2>4, FollowsSame DEF modes, moduleA
  <1>3. ASSUME Calling' <=> Calling, caller'.op = caller.op, caller'.k = caller.k,
               Heard' <=> Heard, (~Confirmed /\ ~Confirmed') \/ (Confirmed' <=> Confirmed),
               UNCHANGED <<AdrasteaI_open, AdrasteaI_ATMode, moduleA>>
        PROVE  FollowsA'
    <2>1. Heard => ((Confirmed \/ Grants(spoken)) <=> (Confirmed' \/ Grants(spoken')))
      BY <1>3 DEF moduleA
    <2>2. (Trails' <=> Trails) /\ (KnowsAT' <=> KnowsAT) /\ (KnowsMenu' <=> KnowsMenu)
      BY <1>3, <2>1, KnowsSame
    <2> QED  BY <1>3, <2>2, FollowsSame DEF moduleA
  <1>4. CASE PendA
    <2>1. /\ Calling /\ caller.at = "next" /\ Move("name") /\ "name" \in PlacesA
          /\ UNCHANGED <<modes, moduleA>>
      BY <1>4 DEF PendA, AtA, PlacesA
    <2>2. Calling' /\ caller'.op = caller.op /\ caller'.k = caller.k /\ caller'.at = "name"
      BY <1>1, <2>1, MoveA
    <2> QED  BY <1>3, <2>1, <2>2 DEF Heard, Polling, Confirmed, modes
  <1>5. CASE ArmA
    <2>1. /\ Calling /\ caller.at = "arm" /\ Move("poll") /\ "poll" \in PlacesA
          /\ AdrasteaI_cmdConfirmStatus' = "Invalid"
          /\ UNCHANGED <<modes, moduleA>>
      BY <1>5 DEF ArmA, AtA, PlacesA
    <2>2. Calling' /\ caller'.op = caller.op /\ caller'.k = caller.k /\ caller'.at = "poll"
      BY <1>1, <2>1, MoveA
    <2> QED  BY <1>3, <2>1, <2>2 DEF Heard, Polling, Confirmed, modes
  <1>6. CASE MainA
    BY <1>4, <1>5, <1>6, FollowsTransmit, FollowsWait, FollowsSteps DEF MainA
  <1>7. CASE StartUp
    <2>1. /\ prompt' = "menu" /\ spoken' = Append(spoken, Line("MCU menu"))
      BY <1>7 DEF StartUp
    <2>2. PICK a : a = Line("MCU menu")
      OBVIOUS
    <2>3. a = [what |-> "MCU menu", call |-> calledA] /\ calledA \in Nat
      BY <1>1, <2>2 DEF Line, TypeA
    <2>4. "MCU menu" \in Words
      BY DEF Words, ModeLines
    <2>5. a \in Spoken /\ a.what = "MCU menu"
      BY <2>3, <2>4 DEF Spoken
    <2>6. OfMode(a) /\ ModeOf(a.what) = "Off"
      BY <2>5 DEF OfMode, ModeLines, ModeOf
    <2>7. \A now : SettlesA(spoken', now, Len(spoken'), ModeOf(a.what))
      BY <1>1, <2>1, <2>2, <2>5, <2>6, AppendA
    <2> QED  BY <2>1, <2>6, <2>7 DEF FollowsA, EndsA
  <1>8. CASE RestartA
    <2>1. prompt' = "starting"
      BY <1>8 DEF RestartA
    <2> QED  BY <2>1 DEF FollowsA
  <1>9. CASE SayA
    BY <1>9, FollowsSay
  <1>10. CASE EventA
    <2>1. PICK l : l = Line("+event")
      OBVIOUS
    <2>2. l.what = "+event"
      BY <2>1 DEF Line
    <2>3. /\ HandleRxLineA(l, spoken) /\ UNCHANGED <<AdrasteaI_open, caller>>
      BY <1>10, <2>1 DEF EventA
    <2>4. /\ AdrasteaI_cmdConfirmStatus' = AdrasteaI_cmdConfirmStatus
          /\ UNCHANGED <<AdrasteaI_ATMode, moduleA>>
      BY <2>2, <2>3 DEF HandleRxLineA, HandleResponse, ModeAfter, Confirms, moduleA
    <2> QED  BY <1>3, <2>3, <2>4 DEF Calling, Heard, Polling, Confirmed
  <1>11. CASE UNCHANGED varsA
    <2>1. UNCHANGED <<requestA, modes, caller, moduleA>>
      BY <1>11 DEF varsA
    <2> QED  BY <1>3, <2>1 DEF Calling, Heard, Polling, Confirmed, requestA, modes
  <1> QED  BY <1>2, <1>6, <1>7, <1>8, <1>9, <1>10, <1>11 DEF NextA

(* The module leads where it was asked to: the lines it says on the way.   *)
LEMMA StartLine ==
    ASSUME TypeA, StartUp
    PROVE  \E a \in Spoken : /\ a.what = "MCU menu" /\ OfMode(a) /\ ModeOf(a.what) = "Off"
                             /\ spoken' = Append(spoken, a)
  <1>1. spoken' = Append(spoken, Line("MCU menu"))
    BY DEF StartUp
  <1>2. PICK a : a = Line("MCU menu")
    OBVIOUS
  <1>3. a = [what |-> "MCU menu", call |-> calledA] /\ calledA \in Nat
    BY <1>2 DEF Line, TypeA
  <1>4. "MCU menu" \in Words
    BY DEF Words, ModeLines
  <1>5. a \in Spoken /\ a.what = "MCU menu"
    BY <1>3, <1>4 DEF Spoken
  <1>6. OfMode(a) /\ ModeOf(a.what) = "Off"
    BY <1>5 DEF OfMode, ModeLines, ModeOf
  <1> QED  BY <1>1, <1>2, <1>5, <1>6

LEMMA ClearStart ==
    ASSUME TypeA, StartUp
    PROVE  /\ (Clear(0) => Clear(0)') /\ (Led => Led')
           /\ (EverSince => EverSince') /\ (OffSince => OffSince')
  <1>1. PICK a \in Spoken : /\ a.what = "MCU menu" /\ OfMode(a) /\ ModeOf(a.what) = "Off"
                            /\ spoken' = Append(spoken, a)
    BY StartLine
  <1>2. /\ prompt = "starting" /\ spoken \in Seq(Spoken)
        /\ UNCHANGED <<AdrasteaI_ATMode, caller, AdrasteaI_cmdConfirmStatus>>
    BY DEF TypeA, StartUp, modes, requestA
  <1>3. PICK s, t, now : s = spoken /\ t = spoken' /\ now = AdrasteaI_ATMode
    OBVIOUS
  <1>4. s \in Seq(Spoken) /\ t = Append(s, a)
    BY <1>1, <1>2, <1>3
  <1>5. /\ Len(t) = Len(s) + 1 /\ Len(s) \in Nat
        /\ \A i \in 1 .. Len(s) : t[i] = s[i]
    BY <1>4, AppendA
  <1>6. \A x \in 0 .. Len(s) : \A mode : SettlesA(s, now, x, mode) => SettlesA(t, now, x, mode)
    BY <1>4, AppendA
  <1>7. \A v \in 0 .. Len(s) : ~ReadyIn(s, v) => LastIn(t, v) /\ ~ReadyIn(t, v)
    <2>1. a.what # "%SCMNOTIFYEV"
      BY <1>1
    <2>2. \A v \in 0 .. Len(s) : ~ReadyIn(s, v) =>
                LastIn(t, v) /\ (a.what # "%SCMNOTIFYEV" => ~ReadyIn(t, v))
      BY <1>4, AppendA
    <2> QED  BY <2>1, <2>2
  <1>8. ASSUME NEW v \in 0 .. Len(s), Clear(v) PROVE Clear(v)'
    <2>1. ~ReadyIn(s, v)
      BY <1>2, <1>3, <1>8 DEF Clear
    <2>2. LastIn(t, v) /\ ~ReadyIn(t, v)
      BY <1>7, <2>1
    <2> QED  BY <1>3, <2>2 DEF Clear
  <1>9. 0 \in 0 .. Len(s) /\ \A v \in 0 .. Len(s) : v \in 0 .. Len(t) /\ (v # 0 => v \in 1 .. Len(s))
    <2>1. Len(s) \in Nat /\ Len(t) = Len(s) + 1
      BY <1>5
    <2> QED  BY <2>1
  <1>10. Clear(0) => Clear(0)'
    BY <1>8, <1>9
  <1>11. Led => Led'
    BY <1>2, <1>10 DEF Led
  <1>12. ASSUME NEW v \in 0 .. Len(s), Since(v) PROVE Since(v)'
    <2>1. Clear(v)'
      BY <1>8, <1>12 DEF Since
    <2>2. Confirmed' <=> Confirmed
      BY <1>2 DEF Confirmed, Polling, Calling
    <2>3. v # 0 => t[v] = s[v]
      BY <1>5, <1>9
    <2> QED  BY <1>3, <1>12, <2>1, <2>2, <2>3 DEF Since
  <1>13. EverSince => EverSince'
    BY <1>3, <1>9, <1>12 DEF EverSince
  <1>14. OffSince => OffSince'
    <2> SUFFICES ASSUME OffSince PROVE OffSince'
      OBVIOUS
    <2>1. PICK v \in 0 .. Len(s) : Since(v) /\ SettlesA(s, now, v, "Off")
      BY <1>3 DEF OffSince
    <2>2. SettlesA(t, now, v, "Off") /\ v \in 0 .. Len(t)
      BY <1>6, <1>9, <2>1
    <2>3. Since(v)'
      BY <1>12, <2>1
    <2> QED  BY <1>2, <1>3, <2>2, <2>3 DEF OffSince
  <1> QED  BY <1>10, <1>11, <1>13, <1>14

(* The lines after line v when one line has been heard.                    *)
LEMMA ClearSay ==
    ASSUME TypeA, SayA, AdrasteaI_open, NEW v \in 0 .. Len(spoken), NEW w,
           (v # 0 /\ w = v - 1) \/ (v = 0 /\ w = 0), Clear(v)
    PROVE  LastIn(spoken', w) /\ (ReadyIn(spoken', w) => prompt' = "AT")
  <1>1. PICK s, t : s = spoken /\ t = Tail(spoken)
    OBVIOUS
  <1>2. /\ s \in Seq(Spoken) /\ s # <<>>
        /\ \/ spoken' = t /\ prompt' = prompt
           \/ prompt = "menu" /\ prompt' = "AT" /\ MapLines(t, spoken')
    BY <1>1, SaidIs
  <1>3. /\ t \in Seq(Spoken) /\ Len(t) = Len(s) - 1 /\ Len(s) \in Nat /\ Len(s) > 0
    BY <1>1, <1>2
  <1>5. /\ \A x \in 1 .. Len(s) : /\ ReadyIn(t, x - 1) => ReadyIn(s, x)
                                  /\ LastIn(s, x) => LastIn(t, x - 1)
        /\ ReadyIn(t, 0) => ReadyIn(s, 0)
        /\ LastIn(s, 0) => LastIn(t, 0)
    BY <1>1, <1>2, TailReady
  <1>6. /\ ReadyIn(t, w) => ReadyIn(s, v)
        /\ LastIn(s, v) => LastIn(t, w)
        /\ w \in 0 .. Len(t)
    <2>1. CASE v = 0 /\ w = 0
      BY <1>3, <1>5, <2>1
    <2>2. CASE v # 0 /\ w = v - 1
      <3>1. v \in 1 .. Len(s) /\ w \in 0 .. Len(t)
        BY <1>1, <1>3, <2>2
      <3> QED  BY <1>5, <2>2, <3>1
    <2> QED  BY <2>1, <2>2
  <1>7. LastIn(s, v) /\ (ReadyIn(s, v) => prompt = "AT")
    BY <1>1 DEF Clear
  <1>8. CASE spoken' = t /\ prompt' = prompt
    BY <1>6, <1>7, <1>8
  <1>9. CASE prompt = "menu" /\ prompt' = "AT" /\ MapLines(t, spoken')
    <2>1. ~ReadyIn(t, w)
      BY <1>6, <1>7, <1>9
    <2>2. \A x \in 0 .. Len(t) : ~ReadyIn(t, x) => LastIn(spoken', x)
      BY <1>3, <1>9, MapTalk
    <2> QED  BY <1>6, <1>9, <2>1, <2>2
  <1> QED  BY <1>2, <1>8, <1>9

LEMMA LedSay ==
    ASSUME TypeA, SayA, AdrasteaI_open
    PROVE  (Clear(0) => Clear(0)') /\ (Led => Led')
  <1>1. PICK s, t : s = spoken /\ t = Tail(spoken)
    OBVIOUS
  <1>2. /\ s \in Seq(Spoken) /\ s # <<>>
        /\ AdrasteaI_ATMode' = IF OfMode(s[1]) THEN ModeOf(s[1].what) ELSE AdrasteaI_ATMode
        /\ \/ spoken' = t /\ prompt' = prompt
           \/ prompt = "menu" /\ prompt' = "AT" /\ MapLines(t, spoken')
    BY <1>1, SaidIs
  <1>3. 0 \in 0 .. Len(spoken)
    BY <1>1, <1>2
  <1>4. Clear(0) => Clear(0)'
    BY <1>3, ClearSay DEF Clear
  <1>5. ASSUME Led, AdrasteaI_ATMode' = "Ready" PROVE prompt' = "AT" /\ NoMode(spoken')
    <2>1. CASE OfMode(s[1])
      <3>1. s[1].what = "%SCMNOTIFYEV"
        BY <1>2, <1>5, <2>1 DEF ModeOf
      <3>3. ReadyIn(s, 0) /\ (LastIn(s, 0) => NoMode(t))
        BY <1>1, <1>2, <3>1, TailReady
      <3>4. LastIn(s, 0) /\ prompt = "AT"
        BY <1>1, <1>5, <3>3 DEF Led, Clear
      <3> QED  BY <1>2, <3>3, <3>4
    <2>2. CASE ~OfMode(s[1])
      <3>1. prompt = "AT" /\ NoMode(s)
        BY <1>1, <1>2, <1>5, <2>2 DEF Led
      <3>2. NoMode(t)
        <4>1. Len(t) = Len(s) - 1 /\ Len(s) \in Nat /\ \A i \in 1 .. Len(t) : t[i] = s[i + 1]
          BY <1>1, <1>2
        <4>2. \A i \in 1 .. Len(t) : i + 1 \in 1 .. Len(s)
          BY <4>1
        <4> QED  BY <3>1, <4>1, <4>2 DEF NoMode
      <3> QED  BY <1>2, <3>1, <3>2
    <2> QED  BY <2>1, <2>2
  <1> QED  BY <1>4, <1>5 DEF Led

LEMMA SinceSay ==
    ASSUME HonestA, SayA, ~Overdue, Heard, NEW v \in 0 .. Len(spoken), Since(v)
    PROVE  /\ v # 0 /\ v - 1 \in 0 .. Len(spoken')
           /\ v - 1 = 0 <=> Confirmed'
           /\ v - 1 # 0 => GrantedA(spoken'[v - 1])
           /\ LastIn(spoken', v - 1) /\ (ReadyIn(spoken', v - 1) => prompt' = "AT")
           /\ SettlesA(spoken, AdrasteaI_ATMode, v, "Off") =>
                SettlesA(spoken', AdrasteaI_ATMode', v - 1, "Off")
  <1>1. PICK s, t : s = spoken /\ t = Tail(spoken)
    OBVIOUS
  <1>2. TypeA /\ PlacedA
    BY DEF HonestA, BasicA
  <1>3. /\ Talk(s, calledA) /\ AdrasteaI_open /\ AdrasteaI_requestPending
        /\ ~OfMode(s[1]) => Polling
    BY <1>1, SaidTalk
  <1>4. /\ s \in Seq(Spoken) /\ s # <<>> /\ s[1] \in Spoken
        /\ OfMode(s[1]) => Watching
        /\ HandleResponse(s[1])
        /\ AdrasteaI_ATMode' = IF OfMode(s[1]) THEN ModeOf(s[1].what) ELSE AdrasteaI_ATMode
        /\ \/ spoken' = t /\ prompt' = prompt
           \/ prompt = "menu" /\ prompt' = "AT" /\ MapLines(t, spoken')
        /\ caller' = caller
    BY <1>1, <1>2, <1>3, SaidIs
  <1>5. /\ t \in Seq(Spoken) /\ Len(t) = Len(s) - 1 /\ Len(s) \in Nat /\ Len(s) > 0
        /\ \A i \in 1 .. Len(t) : t[i] = s[i + 1]
    BY <1>1, <1>4
  <1>6. (Polling' <=> Polling) /\ (Confirmed' <=> Polling /\ AdrasteaI_cmdConfirmStatus' = "Success")
    BY <1>4 DEF Confirmed, Polling, Calling
  <1>7. v # 0
    <2> SUFFICES ASSUME v = 0 PROVE FALSE
      OBVIOUS
    <2>1. Confirmed
      BY DEF Since
    <2>2. AllMode(s)
      BY <1>1, <2>1 DEF HonestA, TalkA, Confirmed
    <2>3. OfMode(s[1])
      BY <1>5, <2>2 DEF AllMode
    <2>4. Calling /\ caller.at = "poll" /\ AdrasteaI_cmdConfirmStatus # "Invalid"
      BY <2>1 DEF Confirmed, Polling
    <2> QED  BY <1>4, <2>3, <2>4 DEF Watching, AtA
  <1>8. v \in 1 .. Len(s) /\ v - 1 \in 0 .. Len(t) /\ GrantedA(s[v]) /\ ~Confirmed
    <2>1. v \in 1 .. Len(s) /\ v - 1 \in 0 .. Len(t)
      BY <1>1, <1>5, <1>7
    <2> QED  BY <1>1, <1>7, <2>1 DEF Since
  <1>9. VerdictA(s[1]) => v = 1
    <2> SUFFICES ASSUME VerdictA(s[1]), v # 1 PROVE FALSE
      OBVIOUS
    <2>1. 1 \in 1 .. Len(s) /\ v \in 1 + 1 .. Len(s)
      BY <1>5, <1>8
    <2>2. ~OfMode(s[1]) /\ ~OfMode(s[v])
      BY <1>8 DEF VerdictA, GrantedA, OfMode, ModeLines, Confirms
    <2> QED  BY <1>3, <2>1, <2>2 DEF Talk
  <1>10. Confirmed' <=> v = 1
    <2>0. AdrasteaI_pendingCommandName \in CommandsA /\ s[1] \in Spoken
      BY <1>2, <1>4 DEF TypeA
    <2>1. /\ ~VerdictA(s[1]) => AdrasteaI_cmdConfirmStatus' = AdrasteaI_cmdConfirmStatus
          /\ VerdictA(s[1]) =>
               AdrasteaI_cmdConfirmStatus' = IF GrantedA(s[1]) THEN "Success" ELSE "Failed"
      <3>1. PICK l : l = s[1]
        OBVIOUS
      <3> QED  BY <1>2, <1>3, <1>4, <2>0, <3>1, ResponseIs
    <2>2. CASE v = 1
      <3>1. GrantedA(s[1]) /\ VerdictA(s[1]) /\ ~OfMode(s[1])
        BY <1>8, <2>2 DEF VerdictA, GrantedA, OfMode, ModeLines, Confirms
      <3> QED  BY <1>3, <1>6, <2>1, <2>2, <3>1
    <2>3. CASE v # 1
      BY <1>6, <1>8, <1>9, <2>1, <2>3 DEF Confirmed
    <2> QED  BY <2>2, <2>3
  <1>11. Len(t) \in Nat /\ Len(spoken') \in Nat /\ Len(t) <= Len(spoken')
         /\ \A i \in 1 .. Len(t) : spoken'[i] = t[i]
    <2>1. CASE spoken' = t
      BY <1>5, <2>1
    <2>2. CASE MapLines(t, spoken')
      <3>1. Len(spoken') = Len(t) + 2 /\ \A i \in 1 .. Len(t) : spoken'[i] = t[i]
        BY <1>5, <2>2, MapTalk
      <3> QED  BY <1>5, <3>1
    <2> QED  BY <1>4, <2>1, <2>2
  <1>12. v - 1 \in 0 .. Len(spoken')
    BY <1>8, <1>11
  <1>13. v - 1 # 0 => GrantedA(spoken'[v - 1])
    <2>1. v - 1 # 0 => v - 1 \in 1 .. Len(t) /\ (v - 1) + 1 = v
      BY <1>8
    <2> QED  BY <1>5, <1>8, <1>11, <2>1
  <1>14. v - 1 = 0 <=> v = 1
    BY <1>8
  <1>15. LastIn(spoken', v - 1) /\ (ReadyIn(spoken', v - 1) => prompt' = "AT")
    <2>1. PICK w : w = v - 1
      OBVIOUS
    <2>2. Clear(v) /\ AdrasteaI_open
      BY <1>3 DEF Since
    <2>3. LastIn(spoken', w) /\ (ReadyIn(spoken', w) => prompt' = "AT")
      BY <1>2, <1>7, <2>1, <2>2, ClearSay
    <2> QED  BY <2>1, <2>3
  <1>16. ASSUME SettlesA(spoken, AdrasteaI_ATMode, v, "Off")
         PROVE  SettlesA(spoken', AdrasteaI_ATMode', v - 1, "Off")
    <2>1. PICK now, now2 : /\ now = AdrasteaI_ATMode /\ now2 = AdrasteaI_ATMode'
                           /\ now2 = IF OfMode(s[1]) THEN ModeOf(s[1].what) ELSE now
      BY <1>4
    <2>2. \A x \in 1 .. Len(s) : \A mode :
             SettlesA(s, now, x, mode) => SettlesA(t, now2, x - 1, mode)
      BY <1>1, <1>4, <2>1, TailA
    <2>3. SettlesA(t, now2, v - 1, "Off")
      BY <1>1, <1>8, <1>16, <2>1, <2>2
    <2>4. CASE spoken' = t
      BY <2>1, <2>3, <2>4
    <2>5. CASE MapLines(t, spoken')
      <3>1. \A x \in 0 .. Len(t) : \A m, mode :
               SettlesA(t, m, x, mode) => SettlesA(spoken', m, x, mode)
        BY <1>5, <2>5, MapTalk
      <3> QED  BY <1>8, <2>1, <2>3, <3>1
    <2> QED  BY <1>4, <2>4, <2>5
  <1> QED  BY <1>7, <1>10, <1>12, <1>13, <1>14, <1>15, <1>16

LEMMA EverSay ==
    ASSUME HonestA, SayA, ~Overdue, Heard
    PROVE  (EverSince => EverSince') /\ (OffSince => OffSince')
  <1>1. ASSUME NEW v \in 0 .. Len(spoken), Since(v)
        PROVE  \E w \in 0 .. Len(spoken') :
                 /\ Since(w)'
                 /\ SettlesA(spoken, AdrasteaI_ATMode, v, "Off") =>
                      SettlesA(spoken', AdrasteaI_ATMode', w, "Off")
    <2>1. /\ v - 1 \in 0 .. Len(spoken')
          /\ v - 1 = 0 <=> Confirmed'
          /\ v - 1 # 0 => GrantedA(spoken'[v - 1])
          /\ LastIn(spoken', v - 1) /\ (ReadyIn(spoken', v - 1) => prompt' = "AT")
          /\ SettlesA(spoken, AdrasteaI_ATMode, v, "Off") =>
               SettlesA(spoken', AdrasteaI_ATMode', v - 1, "Off")
      BY <1>1, SinceSay
    <2>2. PICK w \in 0 .. Len(spoken') : w = v - 1
      BY <2>1
    <2>3. Since(w)'
      BY <2>1, <2>2 DEF Since, Clear
    <2> QED  BY <2>1, <2>2, <2>3
  <1>2. EverSince => EverSince'
    BY <1>1 DEF EverSince
  <1>3. OffSince => OffSince'
    <2> SUFFICES ASSUME OffSince PROVE OffSince'
      OBVIOUS
    <2>1. PICK v \in 0 .. Len(spoken) : Since(v) /\ SettlesA(spoken, AdrasteaI_ATMode, v, "Off")
      BY DEF OffSince
    <2>2. PICK w \in 0 .. Len(spoken') :
                 /\ Since(w)'
                 /\ SettlesA(spoken, AdrasteaI_ATMode, v, "Off") =>
                      SettlesA(spoken', AdrasteaI_ATMode', w, "Off")
      BY <1>1, <2>1
    <2> QED  BY <2>1, <2>2 DEF OffSince
  <1> QED  BY <1>2, <1>3

(* A step that leaves the main thread where it is.                         *)
LEMMA LeadsSame ==
    ASSUME LeadsA, Calling' <=> Calling, caller'.op = caller.op, caller'.k = caller.k,
           Heard' => Heard, obeyed' => obeyed, alone' => alone,
           (Clear(0) => Clear(0)') /\ (Led => Led'),
           Heard' => (EverSince => EverSince') /\ (OffSince => OffSince')
    PROVE  LeadsA'
  <1>1. /\ StepIs("SetPowerMode", 3)' => StepIs("SetPowerMode", 3)
        /\ StepIs("SetPowerMode", 4)' => StepIs("SetPowerMode", 4)
        /\ StepIs("SetPowerMode", 5)' => StepIs("SetPowerMode", 5)
        /\ StepIs("FactoryReset", 1)' => StepIs("FactoryReset", 1)
        /\ StepIs("FactoryReset", 2)' => StepIs("FactoryReset", 2)
        /\ StepIs("FactoryReset", 3)' => StepIs("FactoryReset", 3)
    BY DEF StepIs
  <1> QED  BY <1>1 DEF LeadsA

LEMMA StillClear ==
    ASSUME UNCHANGED <<moduleA, AdrasteaI_ATMode>>
    PROVE  /\ (Clear(0) => Clear(0)') /\ (Led => Led')
           /\ (Confirmed' <=> Confirmed) => (EverSince => EverSince') /\ (OffSince => OffSince')
  <1>1. spoken' = spoken /\ prompt' = prompt /\ AdrasteaI_ATMode' = AdrasteaI_ATMode
    BY DEF moduleA
  <1>2. (Clear(0) => Clear(0)') /\ (Led => Led')
    BY <1>1 DEF Clear, Led
  <1>3. ASSUME Confirmed' <=> Confirmed, NEW v, Since(v) PROVE Since(v)'
    BY <1>1, <1>3 DEF Since, Clear
  <1> QED  BY <1>1, <1>2, <1>3 DEF EverSince, OffSince

(* A step that takes it further.                                           *)
LEMMA LeadsPass ==
    ASSUME PlacedA, Calling, NEW over \in {0, 1}, Pass(over),
           over = 1 => caller.op = "InitByUart" /\ caller.k = 3,
           StepIs("SetPowerMode", 3) /\ alone' => Led',
           StepIs("SetPowerMode", 4) /\ alone' => Led',
           StepIs("FactoryReset", 1) /\ alone' => Clear(0)',
           StepIs("FactoryReset", 2) /\ alone' => Led'
    PROVE  LeadsA'
  <1>1. PICK k \in Nat : k = caller.k
    <2>1. caller.k \in Nat
      BY DEF PlacedA
    <2> QED  BY <2>1
  <1>2. \/ ~Calling'
        \/ /\ Calling' /\ caller'.op = caller.op /\ caller'.k = caller.k + 1 + over
           /\ caller'.at = "next"
    BY PassIs
  <1>3. ~Heard'
    BY <1>2 DEF Heard
  <1>4. caller.op # "InitByUart" /\ Calling' => caller'.op = caller.op /\ caller'.k = k + 1
    <2>1. caller.op # "InitByUart" => k + 1 + over = k + 1
      BY <1>1
    <2> QED  BY <1>1, <1>2, <2>1
  <1>5. \A j \in Nat : k + 1 = j + 1 => k = j
    OBVIOUS
  <1>6. k + 1 = 4 => k = 3
    OBVIOUS
  <1>7. k + 1 = 5 => k = 4
    OBVIOUS
  <1>8. k + 1 = 2 => k = 1
    OBVIOUS
  <1>9. k + 1 = 3 => k = 2
    OBVIOUS
  <1>10. /\ StepIs("SetPowerMode", 4)' => StepIs("SetPowerMode", 3)
         /\ StepIs("SetPowerMode", 5)' => StepIs("SetPowerMode", 4)
         /\ StepIs("FactoryReset", 2)' => StepIs("FactoryReset", 1)
         /\ StepIs("FactoryReset", 3)' => StepIs("FactoryReset", 2)
    <2>1. ASSUME NEW op, NEW i, NEW j, op # "InitByUart", StepIs(op, j)', k + 1 = j => k = i
          PROVE  StepIs(op, i)
      BY <1>1, <1>2, <1>4, <2>1 DEF StepIs
    <2> QED  BY <1>6, <1>7, <1>8, <1>9, <2>1
  <1> QED  BY <1>3, <1>10 DEF LeadsA

LEMMA LeadsTransmit ==
    ASSUME HonestA, FollowsA, LeadsA, TransmitA
    PROVE  LeadsA'
  <1>1. PlacedA /\ TypeA /\ spoken \in Seq(Spoken)
    BY DEF HonestA, BasicA, TypeA
  <1>2. PICK c : c = StepA.command
    OBVIOUS
  <1>3. /\ Calling /\ caller.at = "name" /\ StepA.do \in Asking
        /\ Calling' /\ caller'.op = caller.op /\ caller'.k = caller.k /\ caller'.at = "arm"
        /\ \/ /\ prompt # Place(c) /\ prompt' = prompt /\ spoken' = spoken
              /\ obeyed' <=> obeyed /\ StepA.do = "try"
           \/ prompt = Place(c) /\ \E r : Answers(c, r)
    BY <1>1, <1>2, TransmitIs
  <1>4. UNCHANGED <<AdrasteaI_open, AdrasteaI_ATMode, alone>>
    BY DEF TransmitA, modes
  <1>5. ~Heard /\ Heard' /\ ~Confirmed'
    BY <1>3 DEF Heard, Polling, Confirmed
  <1>6. /\ ~StepIs("SetPowerMode", 4)' /\ ~StepIs("SetPowerMode", 5)'
        /\ ~StepIs("FactoryReset", 2)' /\ ~StepIs("FactoryReset", 3)'
        /\ StepIs("SetPowerMode", 3)' => /\ caller.op = "SetPowerMode" /\ c = "pwrMode"
                                         /\ StepA.do = "ask"
        /\ StepIs("FactoryReset", 1)' => StepA.do = "ask"
    <2>1. PICK op, k, do : op = caller.op /\ k = caller.k /\ do = StepA.do
      OBVIOUS
    <2>2. \/ /\ do = "ask"
             /\ \/ op = "SetPowerMode" /\ k = 3 /\ c = "pwrMode"
                \/ op = "FactoryReset" /\ k = 1
                \/ op \notin {"SetPowerMode", "FactoryReset"}
          \/ do = "try" /\ op = "InitByUart"
      BY <1>1, <1>2, <1>3, <2>1, AskedIs
    <2>3. /\ ~(op = "SetPowerMode" /\ k = 4) /\ ~(op = "SetPowerMode" /\ k = 5)
          /\ ~(op = "FactoryReset" /\ k = 2) /\ ~(op = "FactoryReset" /\ k = 3)
      BY <2>2
    <2>4. /\ op = "SetPowerMode" /\ k = 3 => c = "pwrMode" /\ do = "ask"
          /\ op = "FactoryReset" /\ k = 1 => do = "ask"
      BY <2>2
    <2> QED  BY <1>3, <2>1, <2>3, <2>4 DEF StepIs
  <1>7. ASSUME StepA.do = "ask", obeyed'
        PROVE  /\ prompt = Place(c)
               /\ \E v \in 0 .. Len(spoken') :
                    /\ Since(v)'
                    /\ EndsA("Off") => SettlesA(spoken', AdrasteaI_ATMode', v, "Off")
    <2>1. prompt = Place(c) /\ \E r : Answers(c, r)
      BY <1>3, <1>7
    <2>2. PICK r : Answers(c, r)
      BY <2>1
    <2>3. /\ r \in Seq(Spoken) /\ NoMode(r) /\ spoken' = spoken \o r
          /\ Len(r) > 0 /\ GrantedA(r[Len(r)])
      BY <1>7, <2>2 DEF Answers
    <2>4. PICK s, t : s = spoken /\ t = spoken'
      OBVIOUS
    <2>5. s \in Seq(Spoken) /\ r \in Seq(Spoken) /\ t = s \o r /\ NoMode(r)
      BY <1>1, <2>3, <2>4
    <2>6. /\ t \in Seq(Spoken) /\ Len(t) = Len(s) + Len(r)
          /\ \A i \in 1 .. Len(r) : t[Len(s) + i] = r[i]
      BY <2>5, ConcatA
    <2>7. Len(s) \in Nat /\ Len(r) \in Nat /\ Len(r) > 0
      BY <2>3, <2>5
    <2>8. PICK v : v = Len(t)
      OBVIOUS
    <2>9. v \in Nat /\ v # 0 /\ v \in 0 .. v /\ Len(r) \in 1 .. Len(r) /\ v = Len(s) + Len(r)
      BY <2>6, <2>7, <2>8
    <2>10. GrantedA(t[v])
      BY <2>3, <2>6, <2>9
    <2>11. v + 1 .. Len(t) = {}
      BY <2>8, <2>9
    <2>12. Since(v)'
      BY <1>5, <2>4, <2>9, <2>10, <2>11 DEF Since, Clear, LastIn, ReadyIn
    <2>13. EndsA("Off") => SettlesA(spoken', AdrasteaI_ATMode', v, "Off")
      <3>1. \A now, mode : SettlesA(s, now, Len(s), mode) => SettlesA(t, now, Len(t), mode)
        BY <2>5, ConcatA
      <3> QED  BY <1>4, <2>4, <2>8, <3>1 DEF EndsA
    <2> QED  BY <2>1, <2>4, <2>8, <2>9, <2>12, <2>13
  <1>8. StepIs("FactoryReset", 1)' /\ obeyed' => EverSince'
    <2> SUFFICES ASSUME StepIs("FactoryReset", 1)', obeyed' PROVE EverSince'
      OBVIOUS
    <2>1. StepA.do = "ask"
      BY <1>6
    <2> QED  BY <1>7, <2>1 DEF EverSince
  <1>9. StepIs("SetPowerMode", 3)' /\ obeyed' => OffSince'
    <2> SUFFICES ASSUME StepIs("SetPowerMode", 3)', obeyed' PROVE OffSince'
      OBVIOUS
    <2>1. StepA.do = "ask" /\ c = "pwrMode" /\ caller.op = "SetPowerMode"
      BY <1>6
    <2>2. prompt = "menu"
      BY <1>7, <2>1 DEF Place, MenuCommands
    <2>3. AdrasteaI_open
      BY <1>1, <1>3, OpenIs DEF Asking
    <2>4. Trails /\ KnowsMenu
      BY <2>1, <2>3 DEF Trails, KnowsMenu, Unsure
    <2>5. EndsA("Off")
      BY <2>2, <2>4 DEF FollowsA
    <2> QED  BY <1>7, <2>1, <2>5 DEF OffSince
  <1> QED  BY <1>6, <1>8, <1>9 DEF LeadsA

LEMMA LeadsWait ==
    ASSUME HonestA, LeadsA, WaitForConfirmA
    PROVE  LeadsA'
  <1>1. PlacedA /\ TypeA /\ spoken \in Seq(Spoken)
    BY DEF HonestA, BasicA, TypeA
  <1>2. /\ Calling /\ caller.at = "poll" /\ StepA.do \in Asking
        /\ UNCHANGED <<AdrasteaI_cmdConfirmStatus, modes, moduleA, alone>>
    BY DEF WaitForConfirmA, AtA
  <1>3. Heard /\ (Confirmed <=> AdrasteaI_cmdConfirmStatus = "Success")
    BY <1>2 DEF Heard, Polling, Confirmed
  <1>4. /\ StepA.do = "try" => StepA.over \in {0, 1}
                               /\ (StepA.over = 1 => caller.op = "InitByUart" /\ caller.k = 3)
        /\ ~StepIs("SetPowerMode", 4) /\ ~StepIs("FactoryReset", 2)
        /\ StepIs("SetPowerMode", 3) \/ StepIs("FactoryReset", 1) => StepA.do = "ask"
    <2>1. PICK op, k, do, over : /\ op = caller.op /\ k = caller.k
                                 /\ do = StepA.do /\ over = StepA.over
      OBVIOUS
    <2>2. \/ /\ do = "ask"
             /\ \/ op = "SetPowerMode" /\ k = 3
                \/ op = "FactoryReset" /\ k = 1
                \/ op \notin {"SetPowerMode", "FactoryReset"}
          \/ do = "try" /\ op = "InitByUart" /\ k = 2 /\ over = 0
          \/ do = "try" /\ op = "InitByUart" /\ k = 3 /\ over = 1
      BY <1>1, <1>2, <2>1, AskedIs
    <2>3. ~(op = "SetPowerMode" /\ k = 4) /\ ~(op = "FactoryReset" /\ k = 2)
      BY <2>2
    <2>4. op = "SetPowerMode" \/ op = "FactoryReset" => do = "ask"
      BY <2>2
    <2>5. do = "try" => over \in {0, 1} /\ (over = 1 => op = "InitByUart" /\ k = 3)
      BY <2>2
    <2> QED  BY <2>1, <2>3, <2>4, <2>5 DEF StepIs
  <1>5. ASSUME Confirmed, StepA.do = "ask" PROVE obeyed
    BY <1>3, <1>5 DEF HonestA, ObeyedA
  <1>6. ASSUME NEW v \in 0 .. Len(spoken), Since(v), Confirmed
        PROVE  v = 0 /\ Clear(0)
    BY <1>6 DEF Since
  <1>7. Confirmed /\ StepIs("FactoryReset", 1) /\ alone' => Clear(0)'
    <2> SUFFICES ASSUME Confirmed, StepIs("FactoryReset", 1), alone' PROVE Clear(0)'
      OBVIOUS
    <2>1. EverSince
      BY <1>2, <1>3, <1>4, <1>5 DEF LeadsA
    <2>2. Clear(0)
      BY <1>6, <2>1 DEF EverSince
    <2> QED  BY <1>2, <2>2, StillClear DEF modes
  <1>8. Confirmed /\ StepIs("SetPowerMode", 3) /\ alone' => Led'
    <2> SUFFICES ASSUME Confirmed, StepIs("SetPowerMode", 3), alone' PROVE Led'
      OBVIOUS
    <2>1. OffSince
      BY <1>2, <1>3, <1>4, <1>5 DEF LeadsA
    <2>2. PICK v \in 0 .. Len(spoken) : Since(v) /\ SettlesA(spoken, AdrasteaI_ATMode, v, "Off")
      BY <2>1 DEF OffSince
    <2>3. v = 0 /\ Clear(0)
      BY <1>6, <2>2
    <2>4. \A z \in 1 .. 0 : FALSE
      OBVIOUS
    <2>5. AdrasteaI_ATMode = "Off"
      BY <2>2, <2>3, <2>4 DEF SettlesA
    <2>6. Led
      BY <2>3, <2>5 DEF Led
    <2> QED  BY <1>2, <2>6, StillClear DEF modes
  <1>9. ASSUME NEW over \in {0, 1}, Pass(over),
               over = 1 => caller.op = "InitByUart" /\ caller.k = 3,
               Confirmed \/ StepA.do = "try"
        PROVE  LeadsA'
    <2>1. Confirmed \/ (~StepIs("SetPowerMode", 3) /\ ~StepIs("FactoryReset", 1))
      BY <1>4, <1>9
    <2> QED  BY <1>1, <1>2, <1>4, <1>7, <1>8, <1>9, <2>1, LeadsPass
  <1>10. ASSUME EndA(FALSE) PROVE LeadsA'
    <2>1. ~Calling'
      BY <1>10, EndIs
    <2> QED  BY <2>1 DEF LeadsA, StepIs
  <1>11. CASE AdrasteaI_cmdConfirmStatus = "Success"
    <2>1. Pass(IF StepA.do = "try" THEN StepA.over ELSE 0)
      BY <1>11 DEF WaitForConfirmA
    <2>2. CASE StepA.do = "try"
      BY <1>3, <1>4, <1>9, <1>11, <2>1, <2>2
    <2>3. CASE StepA.do # "try"
      <3>1. Pass(0)
        BY <2>1, <2>3
      <3> QED  BY <1>3, <1>9, <1>11, <3>1
    <2> QED  BY <2>2, <2>3
  <1>12. CASE AdrasteaI_cmdConfirmStatus # "Success" /\ StepA.do = "try"
    <2>1. Pass(0)
      BY <1>12 DEF WaitForConfirmA, Advance
    <2> QED  BY <1>9, <1>12, <2>1
  <1>13. CASE AdrasteaI_cmdConfirmStatus # "Success" /\ StepA.do # "try"
    BY <1>10, <1>13 DEF WaitForConfirmA
  <1> QED  BY <1>11, <1>12, <1>13

LEMMA LeadsSteps ==
    ASSUME HonestA, LeadsA,
           UntilMode \/ TellA \/ OpenA \/ PulseResetA \/ PulseWakeUp \/ Awake \/ CloseA
    PROVE  LeadsA'
  <1>1. PlacedA /\ TypeA /\ spoken \in Seq(Spoken) /\ calledA \in Nat
    BY DEF HonestA, BasicA, TypeA
  <1>2. /\ Calling /\ caller.at = "next" /\ StepA.do \notin Asking /\ Pass(0)
        /\ alone' = alone
    BY DEF UntilMode, TellA, OpenA, PulseResetA, PulseWakeUp, Awake, CloseA, AtA, Asking,
           Advance
  <1>3. PICK op, k, n, step : /\ op = caller.op /\ k = caller.k /\ step = StepA
                              /\ StepKind(op, k, n, step)
    BY <1>1, <1>2, HereA
  <1>4. /\ op = "SetPowerMode" /\ k = 3 => step = AskA("pwrMode")
        /\ op = "SetPowerMode" /\ k = 4 => step = Tell("map")
        /\ op = "FactoryReset" /\ k = 1 => step = AskA("F0")
        /\ op = "FactoryReset" /\ k = 2 => step = Until("Off")
    <2>0. PICK c : AsksA(op, k, n, step) => step = AskA(c)
      BY DEF AsksA
    <2>1. ASSUME op = "SetPowerMode", k = 4 PROVE step = Tell("map")
      <3>1. ~AsksA(op, k, n, step)
        BY <2>1 DEF AsksA
      <3>2. ~TriesA(op, k, n, step) /\ ~UntilsA(op, k, n, step) /\ ~DoesA(op, k, n, step)
        BY <2>1 DEF TriesA, UntilsA, DoesA
      <3>3. TellsA(op, k, n, step)
        BY <1>3, <3>1, <3>2 DEF StepKind
      <3> QED  BY <2>1, <3>3 DEF TellsA
    <2>2. ASSUME op = "FactoryReset", k = 2 PROVE step = Until("Off")
      <3>1. ~AsksA(op, k, n, step)
        BY <2>2 DEF AsksA
      <3>2. ~TriesA(op, k, n, step) /\ ~TellsA(op, k, n, step) /\ ~DoesA(op, k, n, step)
        BY <2>2 DEF TriesA, TellsA, DoesA
      <3>3. UntilsA(op, k, n, step)
        BY <1>3, <3>1, <3>2 DEF StepKind
      <3> QED  BY <2>2, <3>3 DEF UntilsA
    <2>3. ASSUME op = "SetPowerMode", k = 3 PROVE step = AskA("pwrMode")
      <3>1. ~TriesA(op, k, n, step) /\ ~TellsA(op, k, n, step)
        BY <2>3 DEF TriesA, TellsA
      <3>2. ~UntilsA(op, k, n, step) /\ ~DoesA(op, k, n, step)
        BY <2>3 DEF UntilsA, DoesA
      <3>3. AsksA(op, k, n, step)
        BY <1>3, <3>1, <3>2 DEF StepKind
      <3> QED  BY <2>3, <3>3 DEF AsksA
    <2>4. ASSUME op = "FactoryReset", k = 1 PROVE step = AskA("F0")
      <3>1. ~TriesA(op, k, n, step) /\ ~TellsA(op, k, n, step)
        BY <2>4 DEF TriesA, TellsA
      <3>2. ~UntilsA(op, k, n, step) /\ ~DoesA(op, k, n, step)
        BY <2>4 DEF UntilsA, DoesA
      <3>3. AsksA(op, k, n, step)
        BY <1>3, <3>1, <3>2 DEF StepKind
      <3> QED  BY <2>4, <3>3 DEF AsksA
    <2> QED  BY <2>1, <2>2, <2>3, <2>4
  <1>5. /\ ~StepIs("SetPowerMode", 3) /\ ~StepIs("FactoryReset", 1)
        /\ StepIs("SetPowerMode", 4) => step.do = "tell" /\ step.text = "map"
        /\ StepIs("FactoryReset", 2) => step.do = "until" /\ step.mode = "Off"
    <2>1. /\ AskA("pwrMode").do = "ask" /\ AskA("F0").do = "ask"
          /\ Tell("map").do = "tell" /\ Tell("map").text = "map"
          /\ Until("Off").do = "until" /\ Until("Off").mode = "Off"
      BY DEF AskA, Tell, Until
    <2>2. step.do # "ask"
      BY <1>2, <1>3 DEF Asking
    <2> QED  BY <1>3, <1>4, <2>1, <2>2 DEF StepIs
  <1>6. StepIs("SetPowerMode", 4) /\ alone' => Led'
    <2> SUFFICES ASSUME StepIs("SetPowerMode", 4), alone' PROVE Led'
      OBVIOUS
    <2>1. StepA.do = "tell" /\ StepA.text = "map" /\ Led
      BY <1>2, <1>3, <1>5 DEF LeadsA
    <2>2. TellA
      BY <2>1 DEF UntilMode, TellA, OpenA, PulseResetA, PulseWakeUp, Awake, CloseA, AtA
    <2>3. HearText("map", spoken) /\ AdrasteaI_ATMode' = AdrasteaI_ATMode
      BY <2>1, <2>2 DEF TellA, modes
    <2>4. \/ prompt = "menu" /\ prompt' = "AT" /\ MapLines(spoken, spoken')
          \/ prompt' = prompt /\ spoken' = spoken
      <3>1. PICK text : text = "map"
        OBVIOUS
      <3>2. \/ text = "map" /\ prompt = "menu" /\ prompt' = "AT" /\ MapLines(spoken, spoken')
            \/ /\ text = "ctrl-D" /\ prompt = "AT" /\ prompt' = "menu"
               /\ \E a \in Spoken : a.what = "MAP CLI Closed" /\ spoken' = Append(spoken, a)
            \/ text = "reset all" /\ prompt = "menu" /\ prompt' = "starting" /\ spoken' = <<>>
            \/ /\ prompt' = prompt /\ spoken' = spoken
               /\ ~(text = "map" /\ prompt = "menu") /\ ~(text = "ctrl-D" /\ prompt = "AT")
               /\ ~(text = "reset all" /\ prompt = "menu")
        BY <1>1, <2>3, <3>1, HearTextIs
      <3> QED  BY <3>1, <3>2
    <2>5. CASE prompt = "menu" /\ prompt' = "AT" /\ MapLines(spoken, spoken')
      <3>1. ~ReadyIn(spoken, 0) /\ AdrasteaI_ATMode # "Ready"
        BY <2>1, <2>5 DEF Led, Clear
      <3>2. \A v \in 0 .. Len(spoken) : ~ReadyIn(spoken, v) => LastIn(spoken', v)
        BY <1>1, <2>5, MapTalk
      <3>3. 0 \in 0 .. Len(spoken)
        BY <1>1
      <3> QED  BY <2>3, <2>5, <3>1, <3>2, <3>3 DEF Led, Clear
    <2>6. CASE prompt' = prompt /\ spoken' = spoken
      BY <2>1, <2>3, <2>6 DEF Led, Clear
    <2> QED  BY <2>4, <2>5, <2>6
  <1>7. StepIs("FactoryReset", 2) /\ alone' => Led'
    <2> SUFFICES ASSUME StepIs("FactoryReset", 2), alone' PROVE Led'
      OBVIOUS
    <2>1. StepA.do = "until" /\ StepA.mode = "Off" /\ Clear(0)
      BY <1>2, <1>3, <1>5 DEF LeadsA
    <2>2. UntilMode
      BY <2>1 DEF UntilMode, TellA, OpenA, PulseResetA, PulseWakeUp, Awake, CloseA, AtA
    <2>3. /\ AdrasteaI_ATMode = "Off" /\ UNCHANGED <<AdrasteaI_ATMode, moduleA>>
      BY <2>1, <2>2 DEF UntilMode, Arrives, modes
    <2>4. Led
      BY <2>1, <2>3 DEF Led
    <2> QED  BY <2>3, <2>4, StillClear
  <1> QED  BY <1>1, <1>2, <1>5, <1>6, <1>7, LeadsPass

LEMMA LeadsNext ==
    ASSUME HonestA, FollowsA, LeadsA, [NextA]_varsA, ~Overdue
    PROVE  LeadsA'
  <1>1. PlacedA /\ TypeA
    BY DEF HonestA, BasicA
  <1>2. ASSUME NEW op \in AdrasteaI_Called, CallA(op) PROVE LeadsA'
    <2>1. caller' = [Unoccupied EXCEPT !.op = op]
      BY <1>2 DEF CallA
    <2>2. caller' = [op |-> op, k |-> 1, at |-> "next"]
      BY <2>1 DEF Unoccupied
    <2>3. caller'.k = 1 /\ caller'.at = "next"
      BY <2>2
    <2> QED  BY <2>3 DEF LeadsA, StepIs, Heard
  <1>3. CASE PendA
    <2>1. /\ Calling /\ Move("name") /\ "name" \in PlacesA
          /\ UNCHANGED <<modes, moduleA, obeyed, alone>>
      BY <1>3 DEF PendA, AtA, PlacesA, historyA
    <2>2. Calling' /\ caller'.op = caller.op /\ caller'.k = caller.k /\ caller'.at = "name"
      BY <1>1, <2>1, MoveA
    <2>3. ~Heard'
      BY <2>2 DEF Heard
    <2> QED  BY <2>1, <2>2, <2>3, StillClear, LeadsSame DEF modes
  <1>4. CASE ArmA
    <2>1. /\ Calling /\ caller.at = "arm" /\ Move("poll") /\ "poll" \in PlacesA
          /\ AdrasteaI_cmdConfirmStatus' = "Invalid"
          /\ UNCHANGED <<modes, moduleA, obeyed, alone>>
      BY <1>4 DEF ArmA, AtA, PlacesA, historyA
    <2>2. Calling' /\ caller'.op = caller.op /\ caller'.k = caller.k /\ caller'.at = "poll"
      BY <1>1, <2>1, MoveA
    <2>3. Heard /\ (Confirmed' <=> Confirmed)
      BY <2>1, <2>2 DEF Heard, Polling, Confirmed
    <2> QED  BY <2>1, <2>2, <2>3, StillClear, LeadsSame DEF modes
  <1>5. CASE MainA
    BY <1>3, <1>4, <1>5, LeadsTransmit, LeadsWait, LeadsSteps DEF MainA
  <1>6. CASE StartUp
    <2>1. UNCHANGED <<caller, obeyed, alone>>
      BY <1>6 DEF StartUp, historyA
    <2> QED  BY <1>1, <1>6, <2>1, ClearStart, LeadsSame DEF Calling, Heard
  <1>7. CASE RestartA \/ EventA
    <2>1. alone' = FALSE
      BY <1>7 DEF RestartA, EventA
    <2> QED  BY <2>1 DEF LeadsA
  <1>8. CASE SayA
    <2>1. UNCHANGED <<AdrasteaI_open, caller, obeyed, alone>>
      BY <1>8 DEF SayA, historyA
    <2>2. CASE AdrasteaI_open
      <3>1. (Clear(0) => Clear(0)') /\ (Led => Led')
        BY <1>1, <1>8, <2>2, LedSay
      <3>2. Heard => (EverSince => EverSince') /\ (OffSince => OffSince')
        BY <1>8, EverSay
      <3> QED  BY <2>1, <3>1, <3>2, LeadsSame DEF Calling, Heard
    <2>3. CASE ~AdrasteaI_open
      <3>1. ~StepIs("SetPowerMode", 3) /\ ~StepIs("SetPowerMode", 4)
            /\ ~StepIs("SetPowerMode", 5) /\ ~StepIs("FactoryReset", 1)
            /\ ~StepIs("FactoryReset", 2) /\ ~StepIs("FactoryReset", 3)
        BY <1>1, <2>3 DEF PlacedA, StepIs, OpensA
      <3>2. ~StepIs("SetPowerMode", 3)' /\ ~StepIs("SetPowerMode", 4)'
            /\ ~StepIs("SetPowerMode", 5)' /\ ~StepIs("FactoryReset", 1)'
            /\ ~StepIs("FactoryReset", 2)' /\ ~StepIs("FactoryReset", 3)'
        BY <2>1, <3>1 DEF StepIs, Calling
      <3> QED  BY <3>2 DEF LeadsA
    <2> QED  BY <2>2, <2>3
  <1>9. CASE UNCHANGED varsA
    <2>1. UNCHANGED <<caller, requestA, modes, moduleA, obeyed, alone>>
      BY <1>9 DEF varsA, historyA
    <2>2. Confirmed' <=> Confirmed
      BY <2>1 DEF Confirmed, Polling, Calling, requestA
    <2> QED  BY <2>1, <2>2, StillClear, LeadsSame DEF modes, Calling, Heard
  <1> QED  BY <1>2, <1>5, <1>6, <1>7, <1>8, <1>9 DEF NextA

(* The answer to a query, line by line.                                    *)
LEMMA RestTail ==
    ASSUME NEW s \in Seq(Spoken), s # <<>>, NEW t, t = Tail(s), NEW a, NEW b, NEW c
    PROVE  /\ Rest3(s, 0, a, b, c) => Rest2(t, 0, b, c) /\ Says(s[1], a)
           /\ Rest2(s, 0, a, b) => Rest1(t, 0, b) /\ Says(s[1], a)
           /\ Rest1(s, 0, a) => t = <<>> /\ Says(s[1], a)
           /\ \A p \in 1 .. Len(s) :
                /\ Rest3(s, p, a, b, c) => Rest3(t, p - 1, a, b, c)
                /\ Rest2(s, p, a, b) => Rest2(t, p - 1, a, b)
                /\ p - 1 \in 0 .. Len(t)
                /\ (\A x \in 1 .. p : OfMode(s[x])) =>
                      OfMode(s[1]) /\ \A x \in 1 .. p - 1 : OfMode(t[x])
  <1>1. /\ t \in Seq(Spoken) /\ Len(t) = Len(s) - 1 /\ Len(s) \in Nat /\ Len(s) > 0
        /\ \A i \in 1 .. Len(t) : t[i] = s[i + 1]
    OBVIOUS
  <1>2. PICK n \in Nat : n = Len(t) /\ Len(s) = n + 1
    <2>1. Len(s) \in Nat /\ Len(s) > 0
      BY <1>1
    <2>2. Len(s) - 1 \in Nat /\ Len(s) = (Len(s) - 1) + 1
      BY <2>1
    <2>3. Len(t) = Len(s) - 1
      BY <1>1
    <2> QED  BY <2>2, <2>3
  <1>3. ASSUME Rest3(s, 0, a, b, c) PROVE Rest2(t, 0, b, c) /\ Says(s[1], a)
    <2>1. Len(s) = 3 /\ Says(s[1], a) /\ Says(s[2], b) /\ Says(s[3], c)
      BY <1>3 DEF Rest3
    <2>0. Len(s) = 3
      BY <2>1
    <2>5. n + 1 = 3
      BY <1>2, <2>0
    <2>3. n = 2
      BY <2>5
    <2>4. 1 \in 1 .. 2 /\ 2 \in 1 .. 2 /\ 1 + 1 = 2 /\ 2 + 1 = 3
      OBVIOUS
    <2>2. t[1] = s[2] /\ t[2] = s[3]
      BY <1>1, <1>2, <2>3, <2>4
    <2> QED  BY <1>2, <2>1, <2>2, <2>3 DEF Rest2
  <1>4. ASSUME Rest2(s, 0, a, b) PROVE Rest1(t, 0, b) /\ Says(s[1], a)
    <2>1. Len(s) = 2 /\ Says(s[1], a) /\ Says(s[2], b)
      BY <1>4 DEF Rest2
    <2>3. n = 1
      BY <1>2, <2>1
    <2>4. 1 \in 1 .. 1 /\ 1 + 1 = 2
      OBVIOUS
    <2>2. t[1] = s[2]
      BY <1>1, <1>2, <2>3, <2>4
    <2> QED  BY <1>2, <2>1, <2>2, <2>3 DEF Rest1
  <1>5. ASSUME Rest1(s, 0, a) PROVE t = <<>> /\ Says(s[1], a)
    <2>1. Len(s) = 1 /\ Says(s[1], a)
      BY <1>5 DEF Rest1
    <2>2. Len(t) = 0
      BY <1>2, <2>1
    <2>3. t = <<>>
      BY <1>1, <2>2
    <2> QED  BY <2>1, <2>3
  <1>6. ASSUME NEW p \in 1 .. n + 1
        PROVE  /\ Rest3(s, p, a, b, c) => Rest3(t, p - 1, a, b, c)
               /\ Rest2(s, p, a, b) => Rest2(t, p - 1, a, b)
               /\ p - 1 \in 0 .. n
               /\ (\A x \in 1 .. p : OfMode(s[x])) =>
                     OfMode(s[1]) /\ \A x \in 1 .. p - 1 : OfMode(t[x])
    <2>1. p - 1 \in 0 .. n /\ (p - 1) + 1 = p /\ (p - 1) + 2 = p + 1 /\ (p - 1) + 3 = p + 2
      OBVIOUS
    <2>2. ASSUME Rest3(s, p, a, b, c) PROVE Rest3(t, p - 1, a, b, c)
      <3>1. n + 1 = p + 3 /\ Says(s[p + 1], a) /\ Says(s[p + 2], b) /\ Says(s[p + 3], c)
        BY <1>2, <2>2 DEF Rest3
      <3>2. n = (p - 1) + 3 /\ p \in 1 .. n /\ p + 1 \in 1 .. n /\ p + 2 \in 1 .. n
            /\ (p + 1) + 1 = p + 2 /\ (p + 2) + 1 = p + 3
        BY <3>1
      <3>3. t[p] = s[p + 1] /\ t[p + 1] = s[p + 2] /\ t[p + 2] = s[p + 3]
        BY <1>1, <1>2, <3>2
      <3> QED  BY <1>2, <2>1, <3>1, <3>2, <3>3 DEF Rest3
    <2>3. ASSUME Rest2(s, p, a, b) PROVE Rest2(t, p - 1, a, b)
      <3>1. n + 1 = p + 2 /\ Says(s[p + 1], a) /\ Says(s[p + 2], b)
        BY <1>2, <2>3 DEF Rest2
      <3>2. n = (p - 1) + 2 /\ p \in 1 .. n /\ p + 1 \in 1 .. n /\ (p + 1) + 1 = p + 2
        BY <3>1
      <3>3. t[p] = s[p + 1] /\ t[p + 1] = s[p + 2]
        BY <1>1, <1>2, <3>2
      <3> QED  BY <1>2, <2>1, <3>1, <3>2, <3>3 DEF Rest2
    <2>4. ASSUME \A x \in 1 .. p : OfMode(s[x])
          PROVE  OfMode(s[1]) /\ \A x \in 1 .. p - 1 : OfMode(t[x])
      <3>1. 1 \in 1 .. p /\ \A x \in 1 .. p - 1 : x \in 1 .. n /\ x + 1 \in 1 .. p
        OBVIOUS
      <3> QED  BY <1>1, <1>2, <2>4, <3>1
    <2> QED  BY <2>1, <2>2, <2>3, <2>4
  <1> QED  BY <1>2, <1>3, <1>4, <1>5, <1>6

LEMMA QueriesTransmit ==
    ASSUME HonestA, TransmitA
    PROVE  QueriesA'
  <1>1. PlacedA /\ TypeA /\ spoken \in Seq(Spoken)
    BY DEF HonestA, BasicA, TypeA
  <1>2. SUFFICES ASSUME NEW c \in Queries_A, Heard', obeyed', alone', (StepA.command = c)'
                 PROVE  prompt' = "AT" /\ Queried(c)'
    BY DEF QueriesA
  <1>3. /\ Calling /\ caller.at = "name" /\ StepA.do \in Asking
        /\ caller'.at = "arm" /\ StepA' = StepA
        /\ \/ /\ prompt # Place(StepA.command) /\ prompt' = prompt /\ spoken' = spoken
              /\ obeyed' <=> obeyed /\ StepA.do = "try"
           \/ prompt = Place(StepA.command) /\ \E r : Answers(StepA.command, r)
    BY <1>1, TransmitIs
  <1>4. StepA.command = c
    BY <1>2, <1>3
  <1>5. UNCHANGED <<AdrasteaI_responseincoming, AdrasteaI_currentResponse, calledA>>
    BY DEF TransmitA, boundsA
  <1>6. ~Heard /\ ~Polling /\ ~Confirmed'
    BY <1>3 DEF Heard, Polling, Confirmed
  <1>7. /\ ~AdrasteaI_responseincoming /\ AdrasteaI_currentResponse = <<>> /\ AllMode(spoken)
    BY <1>3, <1>6 DEF HonestA, ListenA, TalkA
  <1>8. StepA.do = "ask" /\ c \notin MenuCommands
    <2>1. PICK do, com : do = StepA.do /\ com = StepA.command
      OBVIOUS
    <2>2. do = "ask" \/ (do = "try" /\ com \in {"", "RESET"})
      BY <1>1, <1>3, <2>1, AskedIs
    <2> QED  BY <1>4, <2>1, <2>2 DEF Queries_A, MenuCommands
  <1>9. PICK r : prompt = Place(c) /\ Answers(c, r)
    BY <1>2, <1>3, <1>4, <1>8
  <1>10. /\ r \in Seq(Spoken) /\ spoken' = spoken \o r
         /\ \/ Rest3(r, 0, c, "text", "OK")
            \/ ~whole' /\ (Rest2(r, 0, "text", "OK") \/ Rest2(r, 0, c, "OK"))
         /\ prompt' \in Leads(c) \cup {prompt}
    BY <1>2, <1>8, <1>9 DEF Answers
  <1>11. prompt' = "AT"
    BY <1>8, <1>9, <1>10 DEF Leads, Place, Queries_A
  <1>12. PICK s, t : s = spoken /\ t = spoken' /\ s \in Seq(Spoken) /\ t = s \o r
    BY <1>1, <1>10
  <1>13. /\ Len(t) = Len(s) + Len(r) /\ Len(s) \in Nat /\ Len(r) \in Nat
         /\ \A i \in 1 .. Len(s) : t[i] = s[i]
         /\ \A i \in 1 .. Len(r) : t[Len(s) + i] = r[i]
    BY <1>10, <1>12
  <1>14. PICK p \in Nat : p = Len(s)
    BY <1>13
  <1>15. \A x \in 1 .. p : OfMode(t[x])
    BY <1>7, <1>12, <1>13, <1>14 DEF AllMode
  <1>16. p \in 0 .. Len(t)
    <2>1. Len(t) = p + Len(r) /\ Len(r) \in Nat
      BY <1>13, <1>14
    <2> QED  BY <2>1
  <1>17. ASSUME NEW a, NEW b, Rest2(r, 0, a, b) PROVE Rest2(t, p, a, b)
    <2>1. Len(r) = 2 /\ Says(r[1], a) /\ Says(r[2], b)
      BY <1>17 DEF Rest2
    <2>2. Len(t) = p + 2 /\ t[p + 1] = r[1] /\ t[p + 2] = r[2]
      BY <1>13, <1>14, <2>1
    <2> QED  BY <2>1, <2>2 DEF Rest2
  <1>18. ASSUME NEW a, NEW b, NEW d, Rest3(r, 0, a, b, d) PROVE Rest3(t, p, a, b, d)
    <2>1. Len(r) = 3 /\ Says(r[1], a) /\ Says(r[2], b) /\ Says(r[3], d)
      BY <1>18 DEF Rest3
    <2>2. Len(t) = p + 3 /\ t[p + 1] = r[1] /\ t[p + 2] = r[2] /\ t[p + 3] = r[3]
      BY <1>13, <1>14, <2>1
    <2> QED  BY <2>1, <2>2 DEF Rest3
  <1>19. \/ Rest3(t, p, c, "text", "OK")
         \/ ~whole' /\ (Rest2(t, p, "text", "OK") \/ Rest2(t, p, c, "OK"))
    BY <1>10, <1>17, <1>18
  <1>20. ASSUME NEW a, NEW b, NEW d
         PROVE  /\ Rest3(t, p, a, b, d) => Rest3(spoken, p, a, b, d)'
                /\ Rest2(t, p, a, b) => Rest2(spoken, p, a, b)'
    <2>1. spoken' = t /\ calledA' = calledA
      BY <1>5, <1>12
    <2> QED  BY <2>1 DEF Rest2, Rest3, Says
  <1>21. Queried(c)'
    <2>1. \/ Rest3(spoken, p, c, "text", "OK")'
          \/ ~whole' /\ (Rest2(spoken, p, "text", "OK")' \/ Rest2(spoken, p, c, "OK")')
      BY <1>19, <1>20
    <2> QED  BY <1>5, <1>6, <1>7, <1>12, <1>15, <1>16, <2>1 DEF Queried
  <1> QED  BY <1>11, <1>21

LEMMA QueriesSay ==
    ASSUME HonestA, QueriesA, SayA, ~Overdue
    PROVE  QueriesA'
  <1>1. PlacedA /\ TypeA
    BY DEF HonestA, BasicA
  <1>2. SUFFICES ASSUME NEW c \in Queries_A, Heard', obeyed', alone', (StepA.command = c)'
                 PROVE  prompt' = "AT" /\ Queried(c)'
    BY DEF QueriesA
  <1>3. PICK s, t : s = spoken /\ t = Tail(spoken)
    OBVIOUS
  <1>4. /\ s \in Seq(Spoken) /\ s # <<>> /\ s[1] \in Spoken
        /\ AdrasteaI_open =>
             /\ HandleResponse(s[1])
             /\ \/ spoken' = t /\ prompt' = prompt
                \/ prompt = "menu" /\ prompt' = "AT" /\ MapLines(t, spoken')
        /\ caller' = caller /\ obeyed' = obeyed /\ whole' = whole /\ alone' = alone
        /\ calledA' = calledA
    BY <1>1, <1>3, SaidIs DEF historyA, boundsA
  <1>5. (Heard' <=> Heard) /\ (Polling' <=> Polling) /\ StepA' = StepA
    BY <1>4 DEF Heard, Polling, Calling, StepA
  <1>6. Heard /\ StepA.command = c /\ prompt = "AT" /\ Queried(c)
    BY <1>2, <1>4, <1>5 DEF QueriesA
  <1>7. /\ AdrasteaI_open /\ AdrasteaI_requestPending
        /\ ~OfMode(s[1]) => Polling
    BY <1>3, <1>6, SaidTalk
  <1>8. HandleResponse(s[1]) /\ spoken' = t /\ prompt' = "AT"
    BY <1>4, <1>6, <1>7
  <1>9. /\ c \notin MenuCommands /\ c # "" /\ c # "text" /\ c \notin ModeLines
        /\ c \notin Confirms \cup {"ERROR"}
    BY DEF Queries_A, MenuCommands, ModeLines, Confirms
  <1>10. AdrasteaI_pendingCommandName = c
    BY <1>6, <1>9 DEF HonestA, ListenA
  <1>11. PICK l : l = s[1] /\ HandleResponse(l)
    BY <1>8
  <1>12. ~VerdictA(l) =>
           /\ AdrasteaI_currentResponse' =
                IF AdrasteaI_responseincoming THEN Append(AdrasteaI_currentResponse, l)
                ELSE AdrasteaI_currentResponse
           /\ AdrasteaI_responseincoming' <=> (AdrasteaI_responseincoming \/ l.what = c)
           /\ AdrasteaI_cmdConfirmStatus' = AdrasteaI_cmdConfirmStatus
    BY <1>7, <1>9, <1>10, <1>11 DEF HandleResponse, VerdictA
  <1>13. GrantedA(l) =>
           /\ ~AdrasteaI_responseincoming' /\ AdrasteaI_cmdConfirmStatus' = "Success"
           /\ AdrasteaI_currentResponse' = AdrasteaI_currentResponse
    BY <1>7, <1>11 DEF HandleResponse, GrantedA, Confirms
  <1>14. ~VerdictA(l) => (Confirmed' <=> Confirmed)
    BY <1>5, <1>12 DEF Confirmed
  <1>15. /\ Says(l, "text") => ~VerdictA(l) /\ l.what # c
         /\ Says(l, c) => ~VerdictA(l) /\ l.what = c
         /\ OfMode(l) => ~VerdictA(l) /\ l.what # c
         /\ Says(l, "OK") => GrantedA(l) /\ ~OfMode(l)
    BY <1>9 DEF Says, VerdictA, GrantedA, OfMode, ModeLines, Confirms
  <1>16. ASSUME NEW p, NEW a, NEW b, NEW d
         PROVE  /\ Rest3(t, p, a, b, d) => Rest3(spoken, p, a, b, d)'
                /\ Rest2(t, p, a, b) => Rest2(spoken, p, a, b)'
                /\ Rest1(t, p, a) => Rest1(spoken, p, a)'
    BY <1>4, <1>8 DEF Rest1, Rest2, Rest3, Says
  <1>17. ASSUME NEW a, NEW b, NEW d
         PROVE  /\ Rest3(s, 0, a, b, d) => Rest2(t, 0, b, d) /\ Says(l, a)
                /\ Rest2(s, 0, a, b) => Rest1(t, 0, b) /\ Says(l, a)
                /\ Rest1(s, 0, a) => t = <<>> /\ Says(l, a)
                /\ \A p \in 1 .. Len(s) :
                     /\ Rest3(s, p, a, b, d) => Rest3(t, p - 1, a, b, d)
                     /\ Rest2(s, p, a, b) => Rest2(t, p - 1, a, b)
                     /\ p - 1 \in 0 .. Len(t)
                     /\ (\A x \in 1 .. p : OfMode(s[x])) =>
                           OfMode(l) /\ \A x \in 1 .. p - 1 : OfMode(t[x])
    BY <1>3, <1>4, <1>11, RestTail
  (* The response begins, after lines about where the module is.           *)
  <1>18. ASSUME ~AdrasteaI_responseincoming, ~Confirmed, AdrasteaI_currentResponse = <<>>,
                NEW p \in 0 .. Len(s), \A x \in 1 .. p : OfMode(s[x]),
                \/ Rest3(s, p, c, "text", "OK")
                \/ ~whole /\ (Rest2(s, p, "text", "OK") \/ Rest2(s, p, c, "OK"))
         PROVE  Queried(c)'
    <2>1. CASE p # 0
      <3>1. p \in 1 .. Len(s)
        BY <1>4, <2>1
      <3>2. /\ OfMode(l) /\ \A x \in 1 .. p - 1 : OfMode(t[x])
            /\ p - 1 \in 0 .. Len(t)
            /\ Rest3(s, p, c, "text", "OK") => Rest3(t, p - 1, c, "text", "OK")
            /\ Rest2(s, p, "text", "OK") => Rest2(t, p - 1, "text", "OK")
            /\ Rest2(s, p, c, "OK") => Rest2(t, p - 1, c, "OK")
        BY <1>17, <1>18, <3>1
      <3>3. PICK q : q = p - 1
        OBVIOUS
      <3>4. \/ Rest3(spoken, q, c, "text", "OK")'
            \/ ~whole' /\ (Rest2(spoken, q, "text", "OK")' \/ Rest2(spoken, q, c, "OK")')
        BY <1>4, <1>16, <1>18, <3>2, <3>3
      <3>5. /\ ~AdrasteaI_responseincoming' /\ ~Confirmed'
            /\ AdrasteaI_currentResponse' = <<>>
        BY <1>12, <1>14, <1>15, <1>18, <3>2
      <3> QED  BY <1>8, <3>2, <3>3, <3>4, <3>5 DEF Queried
    <2>2. CASE p = 0 /\ Rest3(s, 0, c, "text", "OK")
      <3>1. Rest2(t, 0, "text", "OK") /\ Says(l, c)
        BY <1>17, <2>2
      <3>2. /\ AdrasteaI_responseincoming' /\ ~Confirmed'
            /\ AdrasteaI_currentResponse' = <<>>
        BY <1>12, <1>14, <1>15, <1>18, <3>1
      <3> QED  BY <1>16, <3>1, <3>2 DEF Queried
    <2>3. CASE p = 0 /\ ~whole /\ (Rest2(s, 0, "text", "OK") \/ Rest2(s, 0, c, "OK"))
      <3>1. Rest1(t, 0, "OK") /\ (Says(l, "text") \/ Says(l, c))
        BY <1>17, <2>3
      <3>2. ~Confirmed' /\ AdrasteaI_currentResponse' = <<>> /\ ~whole'
        BY <1>4, <1>12, <1>14, <1>15, <1>18, <2>3, <3>1
      <3> QED  BY <1>16, <3>1, <3>2 DEF Queried
    <2> QED  BY <1>18, <2>1, <2>2, <2>3
  <1>19. ASSUME AdrasteaI_responseincoming, ~Confirmed, AdrasteaI_currentResponse = <<>>,
                Rest2(s, 0, "text", "OK")
         PROVE  Queried(c)'
    <2>1. Rest1(t, 0, "OK") /\ Says(l, "text")
      BY <1>17, <1>19
    <2>2. /\ AdrasteaI_responseincoming' /\ ~Confirmed'
          /\ AdrasteaI_currentResponse' = Append(<<>>, l)
      BY <1>12, <1>14, <1>15, <1>19, <2>1
    <2>3. Texted(AdrasteaI_currentResponse)'
      <3>1. PICK got : got = Append(<<>>, l)
        OBVIOUS
      <3>2. Len(got) = 1 /\ got[1] = l
        BY <3>1
      <3> QED  BY <1>4, <2>1, <2>2, <3>1, <3>2 DEF Texted, Says
    <2> QED  BY <1>16, <2>1, <2>2, <2>3 DEF Queried
  <1>20. ASSUME Texted(AdrasteaI_currentResponse) \/ (~whole /\ AdrasteaI_currentResponse = <<>>),
                Rest1(s, 0, "OK")
         PROVE  Queried(c)'
    <2>1. t = <<>> /\ Says(l, "OK")
      BY <1>17, <1>20
    <2>2. Confirmed' /\ AdrasteaI_currentResponse' = AdrasteaI_currentResponse
      BY <1>5, <1>7, <1>11, <1>13, <1>15, <2>1 DEF Confirmed
    <2>3. Texted(AdrasteaI_currentResponse) => Texted(AdrasteaI_currentResponse)'
      BY <1>4, <2>2 DEF Texted, Says
    <2> QED  BY <1>4, <1>8, <1>20, <2>1, <2>2, <2>3 DEF Queried
  <1>21. Queried(c)'
    BY <1>3, <1>4, <1>6, <1>18, <1>19, <1>20 DEF Queried
  <1> QED  BY <1>8, <1>21

LEMMA QueriesNext ==
    ASSUME HonestA, QueriesA, [NextA]_varsA, ~Overdue
    PROVE  QueriesA'
  <1>1. PlacedA /\ TypeA /\ spoken \in Seq(Spoken)
    BY DEF HonestA, BasicA, TypeA
  <1>2. ~Heard' => QueriesA'
    BY DEF QueriesA
  <1>3. CASE \E op \in AdrasteaI_Called : CallA(op)
    <2>1. PICK op \in AdrasteaI_Called : CallA(op)
      BY <1>3
    <2>2. caller' = [op |-> op, k |-> 1, at |-> "next"]
      BY <2>1 DEF CallA, Unoccupied
    <2>3. caller'.at = "next"
      BY <2>2
    <2> QED  BY <1>2, <2>3 DEF Heard
  <1>4. CASE PendA
    <2>1. Calling /\ Move("name") /\ "name" \in PlacesA
      BY <1>4 DEF PendA, AtA, PlacesA
    <2>2. caller'.at = "name"
      BY <1>1, <2>1, MoveA
    <2> QED  BY <1>2, <2>2 DEF Heard
  <1>5. ASSUME UNCHANGED <<response, spoken, prompt, obeyed, whole, alone, calledA>>,
               Heard' <=> Heard, StepA' = StepA, Confirmed' <=> Confirmed
        PROVE  QueriesA'
    <2>1. ASSUME NEW c, Queried(c) PROVE Queried(c)'
      <3>1. UNCHANGED <<AdrasteaI_responseincoming, AdrasteaI_currentResponse, spoken, whole,
                        calledA>>
        BY <1>5 DEF response
      <3>2. ASSUME NEW p, NEW a, NEW b, NEW d
            PROVE  /\ Rest3(spoken, p, a, b, d)' <=> Rest3(spoken, p, a, b, d)
                   /\ Rest2(spoken, p, a, b)' <=> Rest2(spoken, p, a, b)
                   /\ Rest1(spoken, p, a)' <=> Rest1(spoken, p, a)
        BY <3>1 DEF Rest1, Rest2, Rest3, Says
      <3>3. Texted(AdrasteaI_currentResponse)' <=> Texted(AdrasteaI_currentResponse)
        BY <3>1 DEF Texted, Says
      <3>4. \A p : /\ Rest3(spoken, p, c, "text", "OK")' <=> Rest3(spoken, p, c, "text", "OK")
                   /\ Rest2(spoken, p, "text", "OK")' <=> Rest2(spoken, p, "text", "OK")
                   /\ Rest2(spoken, p, c, "OK")' <=> Rest2(spoken, p, c, "OK")
                   /\ Rest1(spoken, p, "OK")' <=> Rest1(spoken, p, "OK")
        BY <3>2
      <3>5. CASE \E p \in 0 .. Len(spoken) :
                   /\ ~AdrasteaI_responseincoming /\ ~Confirmed
                   /\ AdrasteaI_currentResponse = <<>>
                   /\ \A x \in 1 .. p : OfMode(spoken[x])
                   /\ \/ Rest3(spoken, p, c, "text", "OK")
                      \/ ~whole /\ \/ Rest2(spoken, p, "text", "OK")
                                   \/ Rest2(spoken, p, c, "OK")
        <4>1. PICK p \in 0 .. Len(spoken) :
                   /\ ~AdrasteaI_responseincoming /\ ~Confirmed
                   /\ AdrasteaI_currentResponse = <<>>
                   /\ \A x \in 1 .. p : OfMode(spoken[x])
                   /\ \/ Rest3(spoken, p, c, "text", "OK")
                      \/ ~whole /\ \/ Rest2(spoken, p, "text", "OK")
                                   \/ Rest2(spoken, p, c, "OK")
          BY <3>5
        <4>2. \/ Rest3(spoken, p, c, "text", "OK")'
              \/ ~whole' /\ \/ Rest2(spoken, p, "text", "OK")'
                            \/ Rest2(spoken, p, c, "OK")'
          BY <3>1, <3>4, <4>1
        <4>3. p \in 0 .. Len(spoken') /\ \A x \in 1 .. p : OfMode(spoken'[x])
          BY <3>1, <4>1
        <4> QED  BY <1>5, <3>1, <4>1, <4>2, <4>3 DEF Queried
      <3>6. CASE /\ AdrasteaI_responseincoming /\ ~Confirmed
                 /\ AdrasteaI_currentResponse = <<>> /\ Rest2(spoken, 0, "text", "OK")
        BY <1>5, <3>1, <3>4, <3>6 DEF Queried
      <3>7. CASE /\ AdrasteaI_responseincoming /\ ~Confirmed
                 /\ Texted(AdrasteaI_currentResponse) /\ Rest1(spoken, 0, "OK")
        BY <1>5, <3>1, <3>3, <3>4, <3>7 DEF Queried
      <3>8. CASE /\ ~whole /\ ~Confirmed /\ AdrasteaI_currentResponse = <<>>
                 /\ Rest1(spoken, 0, "OK")
        BY <1>5, <3>1, <3>4, <3>8 DEF Queried
      <3>9. CASE /\ Confirmed /\ spoken = <<>>
                 /\ \/ Texted(AdrasteaI_currentResponse)
                    \/ AdrasteaI_currentResponse = <<>> /\ ~whole
        BY <1>5, <3>1, <3>3, <3>9 DEF Queried
      <3> QED  BY <2>1, <3>5, <3>6, <3>7, <3>8, <3>9 DEF Queried
    <2> QED  BY <1>5, <2>1 DEF QueriesA
  <1>6. CASE ArmA
    <2>1. /\ Calling /\ caller.at = "arm" /\ Move("poll") /\ "poll" \in PlacesA
          /\ AdrasteaI_cmdConfirmStatus' = "Invalid"
          /\ UNCHANGED <<response, spoken, prompt, obeyed, whole, alone, calledA>>
      BY <1>6 DEF ArmA, AtA, PlacesA, historyA, moduleA, boundsA
    <2>2. Calling' /\ caller'.at = "poll" /\ StepA' = StepA
      BY <1>1, <2>1, MoveA
    <2> QED  BY <1>5, <2>1, <2>2 DEF Heard, Polling, Confirmed
  <1>7. CASE WaitForConfirmA
    <2>1. Calling /\ StepA.do \in Asking /\ caller.at = "poll"
      BY <1>7 DEF WaitForConfirmA, AtA
    <2>2. \/ EndA(FALSE)
          \/ \E over \in {0, 1} : Pass(over)
                                  /\ (over = 1 => caller.op = "InitByUart" /\ caller.k = 3)
      <3>1. StepA.do = "try" => StepA.over \in {0, 1}
                                /\ (StepA.over = 1 => caller.op = "InitByUart" /\ caller.k = 3)
        <4>1. PICK op, k, do, over : /\ op = caller.op /\ k = caller.k
                                     /\ do = StepA.do /\ over = StepA.over
          OBVIOUS
        <4>2. \/ do = "ask"
              \/ do = "try" /\ op = "InitByUart" /\ k = 2 /\ over = 0
              \/ do = "try" /\ op = "InitByUart" /\ k = 3 /\ over = 1
          BY <1>1, <2>1, <4>1, AskedIs
        <4>3. do = "try" => over \in {0, 1} /\ (over = 1 => op = "InitByUart" /\ k = 3)
          BY <4>2
        <4> QED  BY <4>1, <4>3
      <3>6. 0 \in {0, 1} /\ 0 # 1
        OBVIOUS
      <3>2. CASE AdrasteaI_cmdConfirmStatus = "Success" /\ StepA.do = "try"
        <4>1. Pass(StepA.over)
          BY <1>7, <3>2 DEF WaitForConfirmA
        <4> QED  BY <3>1, <3>2, <4>1
      <3>3. CASE AdrasteaI_cmdConfirmStatus = "Success" /\ StepA.do # "try"
        <4>1. Pass(0)
          BY <1>7, <3>3 DEF WaitForConfirmA
        <4> QED  BY <3>6, <4>1
      <3>4. CASE AdrasteaI_cmdConfirmStatus # "Success" /\ StepA.do = "try"
        <4>1. Pass(0)
          BY <1>7, <3>4 DEF WaitForConfirmA, Advance
        <4> QED  BY <3>6, <4>1
      <3>5. CASE AdrasteaI_cmdConfirmStatus # "Success" /\ StepA.do # "try"
        BY <1>7, <3>5 DEF WaitForConfirmA
      <3> QED  BY <3>2, <3>3, <3>4, <3>5
    <2>3. CASE EndA(FALSE)
      <3>1. ~Calling'
        BY <2>3, EndIs
      <3> QED  BY <1>2, <3>1 DEF Heard
    <2>4. ASSUME NEW over \in {0, 1}, Pass(over),
                 over = 1 => caller.op = "InitByUart" /\ caller.k = 3
          PROVE  ~Heard'
      <3>1. ~Calling' \/ caller'.at = "next"
        BY <1>1, <2>1, <2>4, PassIs
      <3> QED  BY <3>1 DEF Heard
    <2> QED  BY <1>2, <2>2, <2>3, <2>4
  <1>8. CASE UntilMode \/ TellA \/ OpenA \/ PulseResetA \/ PulseWakeUp \/ Awake \/ CloseA
    <2>1. Calling /\ Pass(0)
      BY <1>8 DEF UntilMode, TellA, OpenA, PulseResetA, PulseWakeUp, Awake, CloseA, AtA, Advance
    <2>2. ~Calling' \/ caller'.at = "next"
      BY <1>1, <2>1, PassIs
    <2> QED  BY <1>2, <2>2 DEF Heard
  <1>9. CASE StartUp
    <2>1. prompt = "starting" /\ UNCHANGED <<requestA, caller, obeyed, alone>>
      BY <1>9 DEF StartUp, historyA
    <2>2. (Heard' <=> Heard) /\ StepA' = StepA
      BY <2>1 DEF Heard, Calling, StepA
    <2>3. prompt # "AT"
      BY <2>1
    <2> QED  BY <2>1, <2>2, <2>3 DEF QueriesA
  <1>10. CASE RestartA \/ EventA
    <2>1. alone' = FALSE
      BY <1>10 DEF RestartA, EventA
    <2> QED  BY <2>1 DEF QueriesA
  <1>11. CASE SayA
    BY <1>11, QueriesSay
  <1>12. CASE UNCHANGED varsA
    <2>1. UNCHANGED <<caller, requestA, response, spoken, prompt, obeyed, whole, alone, calledA>>
      BY <1>12 DEF varsA, moduleA, historyA, boundsA
    <2> QED  BY <1>5, <2>1 DEF Heard, Polling, Confirmed, Calling, StepA, requestA
  <1> QED  BY <1>3, <1>4, <1>6, <1>7, <1>8, <1>9, <1>10, <1>11, <1>12, QueriesTransmit
         DEF NextA, MainA

-----------------------------------------------------------------------------
(* How a function ends.                                                    *)
LEMMA ReadyEnds ==
    ASSUME TypeA, Calling, NEW ok \in BOOLEAN,
           result' = [op |-> caller.op, ok |-> ok, text |-> AdrasteaI_currentResponse],
           calledA' = calledA, whole' = whole,
           ok /\ alone' /\ caller.op = "Get" => GotA(AdrasteaI_currentResponse),
           ok /\ alone' /\ caller.op \in OpensA \cup {"SetPowerMode", "FactoryReset"} => Settled'
    PROVE  ReadyA'
  <1>1. PICK now, got : now = caller.op /\ got = AdrasteaI_currentResponse
    OBVIOUS
  <1>2. result'.op = now /\ result'.ok = ok /\ result'.text = got
    BY <1>1
  <1>3. got \in Seq(Spoken)
    BY <1>1 DEF TypeA
  <1>4. GotA(got) => GotA(result.text)'
    BY <1>2 DEF GotA, Texted, Says
  <1>5. ResultOf("Get")' /\ result'.ok /\ alone' => GotA(result.text)'
    BY <1>1, <1>2, <1>4 DEF ResultOf
  <1>6. \A op \in OpensA \cup {"SetPowerMode", "FactoryReset"} :
            ResultOf(op)' /\ result'.ok /\ alone' => Settled'
    BY <1>1, <1>2 DEF ResultOf
  <1> QED  BY <1>2, <1>3, <1>5, <1>6 DEF ReadyA

(* A step that ends none.                                                  *)
LEMMA ReadyKept ==
    ASSUME ReadyA, result' = result,
           \/ Calling' \/ ~alone'
           \/ /\ Calling' <=> Calling
              /\ UNCHANGED <<whole, alone, calledA>>
              /\ ~Calling /\ Settled => Settled'
    PROVE  ReadyA'
  <1>1. CASE Calling' \/ ~alone'
    BY <1>1 DEF ReadyA, ResultOf
  <1>2. CASE /\ Calling' <=> Calling
             /\ UNCHANGED <<whole, alone, calledA>>
             /\ ~Calling /\ Settled => Settled'
    <2>1. GotA(result.text) => GotA(result.text)'
      BY <1>2 DEF GotA, Texted, Says
    <2>2. ResultOf("Get")' /\ result'.ok /\ alone' => GotA(result.text)'
      BY <1>2, <2>1 DEF ReadyA, ResultOf
    <2>3. \A op \in OpensA \cup {"SetPowerMode", "FactoryReset"} :
              ResultOf(op)' /\ result'.ok /\ alone' => Settled'
      BY <1>2 DEF ReadyA, ResultOf
    <2> QED  BY <2>2, <2>3 DEF ReadyA
  <1> QED  BY <1>1, <1>2

(* A function whose last step is passed.                                   *)
LEMMA ReadyPass ==
    ASSUME TypeA, PlacedA, ReadyA, Calling, NEW over \in {0, 1}, Pass(over),
           over = 1 => caller.op = "InitByUart" /\ caller.k = 3,
           calledA' = calledA, whole' = whole, alone' = alone,
           caller.k = Len(ScriptA[caller.op]) /\ alone =>
             /\ caller.op = "Get" => GotA(AdrasteaI_currentResponse)
             /\ caller.op \in OpensA \cup {"SetPowerMode", "FactoryReset"} => Settled'
    PROVE  ReadyA'
  <1>1. CASE /\ caller.k = Len(ScriptA[caller.op])
             /\ result' = [op |-> caller.op, ok |-> TRUE, text |-> AdrasteaI_currentResponse]
    BY <1>1, ReadyEnds
  <1>2. CASE Calling' /\ result' = result
    BY <1>2, ReadyKept
  <1> QED  BY <1>1, <1>2, PassIs

LEMMA ReadyWait ==
    ASSUME HonestA, FollowsA, QueriesA, ReadyA, WaitForConfirmA
    PROVE  ReadyA'
  <1>1. PlacedA /\ TypeA /\ spoken \in Seq(Spoken)
    BY DEF HonestA, BasicA, TypeA
  <1>2. /\ Calling /\ caller.at = "poll" /\ StepA.do \in Asking
        /\ UNCHANGED <<modes, moduleA, whole, alone, boundsA>>
    BY DEF WaitForConfirmA, AtA
  <1>3. Heard /\ (Confirmed <=> AdrasteaI_cmdConfirmStatus = "Success")
    BY <1>2 DEF Heard, Polling, Confirmed
  <1>4. PICK op, k, n, step : /\ op = caller.op /\ k = caller.k /\ step = StepA
                              /\ n = Len(ScriptA[caller.op]) /\ StepKind(op, k, n, step)
    BY <1>1, <1>2, HereA
  <1>5. /\ StepA.do = "try" => StepA.over \in {0, 1}
                               /\ (StepA.over = 1 => caller.op = "InitByUart" /\ caller.k = 3)
        /\ StepA.do = "try" => k # n
    <2>1. PICK f, i, do, over : /\ f = caller.op /\ i = caller.k
                                /\ do = StepA.do /\ over = StepA.over
      OBVIOUS
    <2>2. \/ do = "ask"
          \/ do = "try" /\ f = "InitByUart" /\ i = 2 /\ over = 0
          \/ do = "try" /\ f = "InitByUart" /\ i = 3 /\ over = 1
      BY <1>1, <1>2, <2>1, AskedIs
    <2>3. do = "try" => over \in {0, 1} /\ (over = 1 => f = "InitByUart" /\ i = 3)
      BY <2>2
    <2>4. do = "try" => TriesA(op, k, n, step)
      BY <1>4, <2>1, KindIsA
    <2>5. TriesA(op, k, n, step) => n = 6 /\ (k = 2 \/ k = 3)
      BY DEF TriesA
    <2>6. n = 6 /\ (k = 2 \/ k = 3) => k # n
      OBVIOUS
    <2> QED  BY <2>1, <2>3, <2>4, <2>5, <2>6
  <1>6. ASSUME Confirmed, alone, k = n, op \in OpensA \cup {"SetPowerMode", "FactoryReset", "Get"}
        PROVE  /\ op = "Get" => GotA(AdrasteaI_currentResponse)
               /\ op \in OpensA \cup {"SetPowerMode", "FactoryReset"} => Settled
    <2>1. step.do = "ask"
      BY <1>2, <1>4, <1>5, <1>6 DEF Asking
    <2>2. PICK c \in CommandsA :
            /\ step = AskA(c)
            /\ \/ op = "InitByPin" /\ k = 4 /\ n = 4 /\ c = "CGMR"
               \/ op = "InitByUart" /\ k = 6 /\ n = 6 /\ c = "CGMR"
               \/ op = "Get" /\ k = 1 /\ n = 1 /\ c = "CGMI"
      <3>1. AsksA(op, k, n, step)
        BY <1>4, <2>1, KindIsA
      <3>2. PICK c \in CommandsA :
              /\ step = AskA(c)
              /\ \/ op = "InitByPin" /\ k = 4 /\ n = 4 /\ c = "CGMR"
                 \/ op = "InitByUart" /\ k = 6 /\ n = 6 /\ c = "CGMR"
                 \/ op = "Get" /\ k = 1 /\ n = 1 /\ c = "CGMI"
                 \/ k = 3 /\ n = 5
                 \/ k = 1 /\ n = 3
                 \/ op \notin OpensA \cup {"SetPowerMode", "FactoryReset", "Get"}
        BY <3>1 DEF AsksA, OpensA
      <3>3. ~(k = 3 /\ n = 5) /\ ~(k = 1 /\ n = 3)
        BY <1>6
      <3> QED  BY <1>6, <3>2, <3>3, Zenon
    <2>3. StepA.command = c /\ c \in Queries_A
      BY <1>4, <2>2 DEF AskA, Queries_A
    <2>4. obeyed
      BY <1>3, <1>4, <1>6, <2>1 DEF HonestA, ObeyedA
    <2>5. prompt = "AT" /\ Queried(c)
      BY <1>3, <1>6, <2>3, <2>4 DEF QueriesA
    <2>6. spoken = <<>> /\ GotA(AdrasteaI_currentResponse)
      BY <1>6, <2>5 DEF Queried, GotA
    <2>7. op \in OpensA => AdrasteaI_ATMode = "Ready"
      <3> SUFFICES ASSUME op \in OpensA PROVE AdrasteaI_ATMode = "Ready"
        OBVIOUS
      <3>0. "Get" \notin OpensA
        BY DEF OpensA
      <3>1. (op = "InitByPin" /\ k = 4) \/ (op = "InitByUart" /\ k = 6)
        BY <2>2, <3>0, Zenon
      <3>2. AdrasteaI_open
        BY <1>1, <1>2, <1>4, <3>1 DEF PlacedA
      <3>3. Trails /\ KnowsAT
        BY <1>4, <3>1, <3>2 DEF Trails, KnowsAT, Unsure, StepIs
      <3>4. EndsA("Ready")
        BY <2>5, <3>3 DEF FollowsA
      <3>5. Len(spoken) = 0 /\ \A z \in 1 .. 0 : FALSE
        BY <2>6
      <3> QED  BY <3>4, <3>5 DEF EndsA, SettlesA
    <2>8. op \notin {"SetPowerMode", "FactoryReset"}
      BY <2>2
    <2> QED  BY <2>5, <2>6, <2>7, <2>8 DEF Settled
  <1>7. /\ calledA' = calledA /\ whole' = whole /\ alone' = alone
        /\ Settled => Settled'
    BY <1>2 DEF boundsA, moduleA, modes, Settled
  <1>8. ASSUME NEW over \in {0, 1}, Pass(over),
               over = 1 => caller.op = "InitByUart" /\ caller.k = 3,
               Confirmed \/ StepA.do = "try"
        PROVE  ReadyA'
    <2>1. k = n /\ alone =>
            /\ op = "Get" => GotA(AdrasteaI_currentResponse)
            /\ op \in OpensA \cup {"SetPowerMode", "FactoryReset"} => Settled
      BY <1>5, <1>6, <1>8
    <2>2. caller.k = Len(ScriptA[caller.op]) /\ alone =>
            /\ caller.op = "Get" => GotA(AdrasteaI_currentResponse)
            /\ caller.op \in OpensA \cup {"SetPowerMode", "FactoryReset"} => Settled'
      BY <1>4, <1>7, <2>1
    <2> QED  BY <1>1, <1>2, <1>7, <1>8, <2>2, ReadyPass
  <1>9. ASSUME EndA(FALSE) PROVE ReadyA'
    <2>1. result' = [op |-> caller.op, ok |-> FALSE, text |-> AdrasteaI_currentResponse]
      BY <1>9 DEF EndA
    <2> QED  BY <1>1, <1>2, <1>7, <2>1, ReadyEnds
  <1>10. 0 \in {0, 1} /\ 0 # 1
    OBVIOUS
  <1>11. CASE AdrasteaI_cmdConfirmStatus = "Success"
    <2>1. Pass(IF StepA.do = "try" THEN StepA.over ELSE 0)
      BY <1>11 DEF WaitForConfirmA
    <2>2. CASE StepA.do = "try"
      BY <1>5, <1>8, <2>1, <2>2
    <2>3. CASE StepA.do # "try"
      <3>1. Pass(0)
        BY <2>1, <2>3
      <3> QED  BY <1>3, <1>8, <1>10, <1>11, <3>1
    <2> QED  BY <2>2, <2>3
  <1>12. CASE AdrasteaI_cmdConfirmStatus # "Success" /\ StepA.do = "try"
    <2>1. Pass(0)
      BY <1>12 DEF WaitForConfirmA, Advance
    <2> QED  BY <1>8, <1>10, <1>12, <2>1
  <1>13. CASE AdrasteaI_cmdConfirmStatus # "Success" /\ StepA.do # "try"
    BY <1>9, <1>13 DEF WaitForConfirmA
  <1> QED  BY <1>11, <1>12, <1>13

LEMMA ReadySteps ==
    ASSUME HonestA, LeadsA, ReadyA,
           UntilMode \/ TellA \/ OpenA \/ PulseResetA \/ PulseWakeUp \/ Awake \/ CloseA
    PROVE  ReadyA'
  <1>1. PlacedA /\ TypeA /\ spoken \in Seq(Spoken)
    BY DEF HonestA, BasicA, TypeA
  <1>2. /\ Calling /\ caller.at = "next" /\ StepA.do \notin Asking /\ Pass(0)
        /\ calledA' = calledA /\ whole' = whole /\ alone' = alone
    BY DEF UntilMode, TellA, OpenA, PulseResetA, PulseWakeUp, Awake, CloseA, AtA, Asking,
           Advance, boundsA
  <1>3. PICK op, k, n, step : /\ op = caller.op /\ k = caller.k /\ step = StepA
                              /\ n = Len(ScriptA[caller.op]) /\ StepKind(op, k, n, step)
    BY <1>1, <1>2, HereA
  <1>4. ASSUME k = n, op \in OpensA \cup {"SetPowerMode", "FactoryReset", "Get"}
        PROVE  /\ (op = "SetPowerMode" /\ k = 5) \/ (op = "FactoryReset" /\ k = 3)
               /\ step.do = "until" /\ step.mode = "Ready"
    <2>1. ~AsksA(op, k, n, step)
      <3>1. PICK c : AsksA(op, k, n, step) => step = AskA(c)
        BY DEF AsksA
      <3>2. AskA(c).do = "ask"
        BY DEF AskA
      <3> QED  BY <1>2, <1>3, <3>1, <3>2 DEF Asking
    <2>2. ~TriesA(op, k, n, step) /\ ~TellsA(op, k, n, step) /\ ~DoesA(op, k, n, step)
      <3>1. TriesA(op, k, n, step) => n = 6 /\ (k = 2 \/ k = 3)
        BY DEF TriesA
      <3>2. TellsA(op, k, n, step) =>
              \/ n = 6 /\ k = 4
              \/ n = 4 /\ k = 3
              \/ n = 5 /\ (k = 1 \/ k = 4)
              \/ n = 3 /\ k = 1
        BY DEF TellsA
      <3>3. DoesA(op, k, n, step) /\ op \in OpensA \cup {"SetPowerMode", "FactoryReset", "Get"} =>
              \/ n = 4 /\ (k = 1 \/ k = 2)
              \/ n = 6 /\ k = 1
        BY DEF DoesA, OpensA
      <3>4. k = n
        BY <1>4
      <3>5. ~TriesA(op, k, n, step)
        BY <3>1, <3>4
      <3>6. ~TellsA(op, k, n, step)
        BY <3>2, <3>4
      <3>7. ~DoesA(op, k, n, step)
        BY <1>4, <3>3, <3>4
      <3> QED  BY <3>5, <3>6, <3>7
    <2>3. UntilsA(op, k, n, step)
      BY <1>3, <2>1, <2>2 DEF StepKind
    <2>4. /\ (op = "SetPowerMode" /\ k = 5) \/ (op = "FactoryReset" /\ k = 3)
          /\ step = Until("Ready")
      <3>1. \/ n = 4 /\ k = 3
            \/ n = 6 /\ k = 5
            \/ n = 5 /\ k = 2
            \/ n = 3 /\ k = 2
            \/ /\ (op = "SetPowerMode" /\ k = 5) \/ (op = "FactoryReset" /\ k = 3)
               /\ step = Until("Ready")
        BY <2>3 DEF UntilsA
      <3>2. ~(n = 4 /\ k = 3) /\ ~(n = 6 /\ k = 5) /\ ~(n = 5 /\ k = 2) /\ ~(n = 3 /\ k = 2)
        BY <1>4
      <3> QED  BY <3>1, <3>2, Zenon
    <2>5. Until("Ready").do = "until" /\ Until("Ready").mode = "Ready"
      BY DEF Until
    <2> QED  BY <2>4, <2>5
  <1>5. ASSUME k = n, alone, op \in OpensA \cup {"SetPowerMode", "FactoryReset", "Get"}
        PROVE  op # "Get" /\ Settled'
    <2>1. /\ (op = "SetPowerMode" /\ k = 5) \/ (op = "FactoryReset" /\ k = 3)
          /\ step.do = "until" /\ step.mode = "Ready"
      BY <1>4, <1>5
    <2>2. UntilMode
      BY <1>3, <2>1 DEF UntilMode, TellA, OpenA, PulseResetA, PulseWakeUp, Awake, CloseA, AtA
    <2>3. AdrasteaI_ATMode = "Ready" /\ UNCHANGED <<modes, moduleA>>
      BY <1>3, <2>1, <2>2 DEF UntilMode, Arrives
    <2>4. StepIs("SetPowerMode", 5) \/ StepIs("FactoryReset", 3)
      BY <1>2, <1>3, <2>1 DEF StepIs
    <2>5. Led
      BY <1>5, <2>4 DEF LeadsA
    <2>6. prompt = "AT" /\ NoMode(spoken)
      BY <2>3, <2>5 DEF Led
    <2>7. AllMode(spoken)
      BY <1>2 DEF HonestA, TalkA, Heard
    <2>8. spoken = <<>>
      <3>1. PICK m \in Nat : m = Len(spoken)
        BY <1>1
      <3>2. \A y \in 1 .. m : FALSE
        BY <2>6, <2>7, <3>1 DEF NoMode, AllMode
      <3>3. m = 0
        BY <3>2
      <3>4. Len(spoken) = 0
        BY <3>1, <3>3
      <3> QED  BY <1>1, <3>4
    <2> QED  BY <2>1, <2>3, <2>6, <2>8 DEF Settled, modes, moduleA
  <1>6. caller.k = Len(ScriptA[caller.op]) /\ alone =>
          /\ caller.op = "Get" => GotA(AdrasteaI_currentResponse)
          /\ caller.op \in OpensA \cup {"SetPowerMode", "FactoryReset"} => Settled'
    BY <1>3, <1>5
  <1>7. 0 \in {0, 1} /\ 0 # 1
    OBVIOUS
  <1> QED  BY <1>1, <1>2, <1>6, <1>7, ReadyPass

LEMMA ReadyNext ==
    ASSUME HonestA, FollowsA, LeadsA, QueriesA, ReadyA, [NextA]_varsA
    PROVE  ReadyA'
  <1>1. PlacedA /\ TypeA
    BY DEF HonestA, BasicA
  <1>2. ASSUME NEW op \in AdrasteaI_Called, CallA(op) PROVE ReadyA'
    <2>1. op # "none" /\ result' = result /\ caller' = [Unoccupied EXCEPT !.op = op]
      BY <1>2, AdrasteaICalled, FunctionsA DEF CallA
    <2>2. caller'.op = op
      BY <2>1 DEF Unoccupied
    <2>3. Calling'
      BY <2>1, <2>2 DEF Calling
    <2> QED  BY <2>1, <2>3, ReadyKept
  <1>3. CASE PendA \/ ArmA \/ TransmitA
    <2>1. Calling /\ result' = result
      BY <1>3 DEF PendA, ArmA, TransmitA, AtA, historyA
    <2>2. \E what \in PlacesA : Move(what)
      BY <1>3 DEF PendA, ArmA, TransmitA, PlacesA
    <2>3. Calling'
      BY <1>1, <2>1, <2>2, MoveA
    <2> QED  BY <2>1, <2>3, ReadyKept
  <1>4. CASE MainA
    BY <1>3, <1>4, ReadyWait, ReadySteps DEF MainA
  <1>5. CASE StartUp
    <2>1. prompt = "starting" /\ UNCHANGED <<caller, result, whole, alone, calledA>>
      BY <1>5 DEF StartUp, historyA, boundsA
    <2>2. ~Settled
      BY <2>1 DEF Settled
    <2> QED  BY <2>1, <2>2, ReadyKept DEF Calling
  <1>6. CASE RestartA \/ EventA
    <2>1. result' = result /\ ~alone'
      BY <1>6 DEF RestartA, EventA
    <2> QED  BY <2>1, ReadyKept
  <1>7. CASE SayA
    <2>1. spoken # <<>> /\ UNCHANGED <<caller, result, whole, alone, calledA>>
      BY <1>7 DEF SayA, historyA, boundsA
    <2>2. ~Settled
      BY <2>1 DEF Settled
    <2> QED  BY <2>1, <2>2, ReadyKept DEF Calling
  <1>8. CASE UNCHANGED varsA
    <2>1. UNCHANGED <<caller, modes, moduleA, result, whole, alone, calledA>>
      BY <1>8 DEF varsA, historyA, boundsA
    <2>2. (Calling' <=> Calling) /\ (Settled => Settled')
      BY <2>1 DEF Calling, Settled, modes, moduleA
    <2> QED  BY <2>1, <2>2, ReadyKept
  <1> QED  BY <1>2, <1>4, <1>5, <1>6, <1>7, <1>8 DEF NextA

-----------------------------------------------------------------------------
(* At the start the driver follows nothing, for it is closed.              *)
LEMMA StartsA ==
    ASSUME InitA
    PROVE  SureA
  <1>1. ~Calling /\ caller = Unoccupied
    BY DEF InitA, Unoccupied, Calling
  <1>2. ~Heard /\ ~Polling /\ ~Confirmed
    BY <1>1 DEF Heard, Polling, Confirmed
  <1>3. <<>> \in Seq(Spoken) /\ AllMode(<<>>) /\ \A n : Talk(<<>>, n)
    BY DEF AllMode, Talk
  <1>4. result.op = "none" /\ result.ok = TRUE /\ result.text = <<>>
    BY DEF InitA
  <1>5. TypeA
    <2>1. "" \in CommandsA
      BY DEF CommandsA
    <2> QED  BY <1>3, <2>1 DEF InitA, TypeA
  <1>6. PlacedA
    BY <1>1 DEF PlacedA
  <1>7. ListenA /\ TalkA /\ ObeyedA
    BY <1>1, <1>2, <1>3, <1>4 DEF InitA, ListenA, TalkA, ObeyedA
  <1>8. FollowsA
    BY DEF InitA, FollowsA, Trails
  <1>9. LeadsA
    BY <1>1 DEF LeadsA, StepIs
  <1>10. QueriesA
    BY <1>2 DEF QueriesA
  <1>11. ReadyA
    BY <1>3, <1>4 DEF ReadyA, ResultOf, OpensA
  <1> QED  BY <1>5, <1>6, <1>7, <1>8, <1>9, <1>10, <1>11 DEF SureA, HonestA, BasicA

LEMMA InductiveA ==
    ASSUME SureA, [NextA]_varsA, ~Overdue
    PROVE  SureA'
  BY HonestNext, FollowsNext, LeadsNext, QueriesNext, ReadyNext DEF SureA

LEMMA SureAgrees ==
    ASSUME SureA
    PROVE  AnswersAgree
  <1>1. ASSUME NEW op \in AdrasteaI_Called \ {"Deinit", "PinReset"}, ResultOf(op)
        PROVE  result.ok = obeyed
    <2>1. op # "none"
      BY AdrasteaICalled, FunctionsA
    <2>2. result.ok <=> obeyed
      BY <1>1, <2>1 DEF SureA, HonestA, ObeyedA, ResultOf
    <2>3. result.ok \in BOOLEAN /\ obeyed \in BOOLEAN
      BY DEF SureA, HonestA, BasicA, TypeA, ReadyA
    <2> QED  BY <2>2, <2>3
  <1>2. ASSUME ResultOf("Get"), result.ok, alone
        PROVE  /\ \A l \in Range(result.text) : l = [what |-> "text", call |-> calledA]
               /\ whole => Len(result.text) = 1
    <2>1. GotA(result.text) /\ result.text \in Seq(Spoken)
      BY <1>2 DEF SureA, ReadyA
    <2>2. CASE result.text = <<>> /\ ~whole
      <3>1. Range(<<>>) = {}
        BY DEF Range
      <3> QED  BY <2>2, <3>1
    <2>3. CASE Texted(result.text)
      <3>1. PICK s : s = result.text /\ s \in Seq(Spoken) /\ Len(s) = 1 /\ Says(s[1], "text")
        BY <2>1, <2>3 DEF Texted
      <3>2. s[1] \in Spoken /\ \A l \in Range(s) : l = s[1]
        BY <3>1 DEF Range
      <3>3. s[1] = [what |-> "text", call |-> calledA]
        BY <3>1, <3>2 DEF Spoken, Says
      <3> QED  BY <3>1, <3>2, <3>3
    <2> QED  BY <2>1, <2>2, <2>3 DEF GotA
  <1> QED  BY <1>1, <1>2 DEF AnswersAgree

(* The module answers before the caller gives up: whatever it leaves out,  *)
(* a function then returns true exactly when the module has done and       *)
(* confirmed everything asked in this call, and the response handed on is  *)
(* its own (SendRequest and WaitForConfirm, AdrasteaI.c:397-502, and       *)
(* HandleRxLine, :645-717), for every number of calls, events and restarts.*)
THEOREM AnswersTrue ==
    ASSUME ~Overdue
    PROVE  SpecA => []AnswersAgree
  <1>1. InitA => SureA
    BY StartsA
  <1>2. SureA /\ [NextA]_varsA => SureA'
    BY InductiveA
  <1>3. SureA => AnswersAgree
    BY SureAgrees
  <1> QED  BY <1>1, <1>2, <1>3, PTL DEF SpecA

(* Such a module is, when Init, SetPowerMode or FactoryReset has returned  *)
(* true and nothing came unasked, at the prompt for AT commands, and the   *)
(* driver knows it: a loop that waits for AdrasteaI_ATMode                 *)
(* (AdrasteaI.c:310, ATPower.c:46 and :89, ATDevice.c:439 and :443) and    *)
(* leaves at the mode before, as a second Init's may, does not lead to a   *)
(* success.                                                                *)
THEOREM RequestsTaken ==
    ASSUME ~Overdue
    PROVE  SpecA => []TakesRequests
  <1>1. InitA => SureA
    BY StartsA
  <1>2. SureA /\ [NextA]_varsA => SureA'
    BY InductiveA
  <1>3. SureA => TakesRequests
    BY DEF SureA, ReadyA, Settled, TakesRequests
  <1> QED  BY <1>1, <1>2, <1>3, PTL DEF SpecA
=============================================================================
