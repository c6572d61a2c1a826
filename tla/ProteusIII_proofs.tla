-------------------------- MODULE ProteusIII_proofs --------------------------
(***************************************************************************)
(* Proofs about ProteusIII: every step of the driver is a step of the core *)
(* (so what is proved of CommandDriver holds of it: confirmations, the     *)
(* array that suffices, the contract with the caller); the receive         *)
(* interrupt never finds a pointer to a structure GetDevices has given     *)
(* back to its caller; what GetDevices returns is the answer to its own    *)
(* request; the state the driver reports of its link is the state of it.   *)
(***************************************************************************)
EXTENDS ProteusIII, CommandDriver_proofs

-----------------------------------------------------------------------------
(* The tables: only GetDevices sets getDevicesP.                           *)

(* A sequence of n steps none of which sets it.                            *)
Unpointed(steps, n) ==
    /\ n \in Nat
    /\ steps = [j \in 1 .. n |-> steps[j]]
    /\ \A j \in 1 .. n : steps[j].status # "devicesP"

(* A function on 1 .. n is a sequence of length n.                         *)
LEMMA Lengths ==
    ASSUME NEW s, NEW n \in Nat, s = [j \in 1 .. n |-> s[j]]
    PROVE  /\ s \in Seq({s[j] : j \in 1 .. n})
           /\ Len(s) = n /\ DOMAIN s = 1 .. n
  <1> DEFINE S == {s[j] : j \in 1 .. n}
  <1>1. \A j \in 1 .. n : s[j] \in S
    OBVIOUS
  <1>2. s \in Seq(S)
    <2>1. [j \in 1 .. n |-> s[j]] \in Seq(S)
      <3> HIDE DEF S
      <3> QED  BY <1>1
    <2> QED  BY <2>1
  <1>3. DOMAIN s = 1 .. n
    OBVIOUS
  <1> HIDE DEF S
  <1>4. Len(s) = n
    BY <1>2, <1>3
  <1> QED  BY <1>2, <1>3, <1>4 DEF S

Extent(s, n) == n \in Nat /\ s = [j \in 1 .. n |-> s[j]]

Follows(both, s, n, t, m) ==
    /\ both = [j \in 1 .. n + m |-> both[j]]
    /\ \A j \in 1 .. n : both[j] = s[j]
    /\ \A j \in 1 .. m : both[n + j] = t[j]

(* Where the elements of a concatenation come from.                        *)
LEMMA Concatenation ==
    ASSUME NEW s, NEW t, NEW n, NEW m, Extent(s, n), Extent(t, m)
    PROVE  Follows(s \o t, s, n, t, m)
  <1>1. n \in Nat /\ m \in Nat
    BY DEF Extent
  <1>2. Len(s) = n /\ Len(t) = m
    BY Lengths DEF Extent
  <1>3. PICK S, T : s \in Seq(S) /\ t \in Seq(T)
    BY Lengths DEF Extent
  <1>4. s \in Seq(S \cup T) /\ t \in Seq(S \cup T)
    BY <1>3
  <1> HIDE <1>3
  <1>5. Len(s \o t) = n + m /\ s \o t \in Seq(S \cup T)
    BY <1>2, <1>4
  <1>6. DOMAIN (s \o t) = 1 .. n + m
    BY <1>5
  <1>7. /\ \A j \in 1 .. n : (s \o t)[j] = s[j]
        /\ \A j \in 1 .. m : (s \o t)[n + j] = t[j]
    BY <1>1, <1>2, <1>4
  <1> DEFINE both == s \o t
  <1> HIDE DEF both
  <1>8. both = [j \in 1 .. n + m |-> both[j]]
    <2>1. both \in Seq(S \cup T) /\ DOMAIN both = 1 .. n + m
      BY <1>5, <1>6 DEF both
    <2>2. \A q \in Seq(S \cup T) : q = [j \in DOMAIN q |-> q[j]]
      OBVIOUS
    <2> QED  BY <2>1, <2>2
  <1> QED  BY <1>7, <1>8 DEF Follows, both

Harmless(steps) == \E n : Unpointed(steps, n)

(* Two sequences of steps that do not set it, one after the other.         *)
LEMMA HarmlessPair ==
    ASSUME NEW s, NEW t, Harmless(s), Harmless(t)
    PROVE  Harmless(s \o t)
  <1>1. PICK n, m : Unpointed(s, n) /\ Unpointed(t, m)
    BY DEF Harmless
  <1>2. n \in Nat /\ m \in Nat /\ n + m \in Nat
    BY <1>1 DEF Unpointed
  <1>3. s = [j \in 1 .. n |-> s[j]] /\ t = [j \in 1 .. m |-> t[j]]
    BY <1>1 DEF Unpointed
  <1>4. /\ \A j \in 1 .. n : s[j].status # "devicesP"
        /\ \A j \in 1 .. m : t[j].status # "devicesP"
    BY <1>1 DEF Unpointed
  <1> DEFINE both == s \o t
  <1>5. /\ both = [j \in 1 .. n + m |-> both[j]]
        /\ \A j \in 1 .. n : both[j] = s[j]
        /\ \A j \in 1 .. m : both[n + j] = t[j]
    <2>1. Extent(s, n) /\ Extent(t, m)
      BY <1>2, <1>3 DEF Extent
    <2>2. Follows(both, s, n, t, m)
      BY <2>1, Concatenation
    <2> HIDE DEF both
    <2> QED  BY <2>2 DEF Follows
  <1> HIDE DEF both
  <1>6. ASSUME NEW j \in 1 .. n + m PROVE both[j].status # "devicesP"
    <2>1. CASE j <= n
      <3>1. j \in 1 .. n
        BY <1>2, <2>1
      <3> QED  BY <1>4, <1>5, <3>1
    <2>2. CASE j > n
      <3>1. j - n \in 1 .. m /\ j = n + (j - n)
        BY <1>2, <2>2
      <3>2. both[j] = t[j - n]
        BY <1>5, <3>1
      <3> QED  BY <1>4, <3>1, <3>2
    <2> QED  BY <1>2, <2>1, <2>2
  <1>7. Harmless(both)
    BY <1>2, <1>5, <1>6 DEF Harmless, Unpointed
  <1> QED  BY <1>7 DEF both

(* A single step that does not set it.                                     *)
LEMMA HarmlessStep ==
    ASSUME NEW step, step.status # "devicesP"
    PROVE  Harmless(<<step>>)
  <1>1. Unpointed(<<step>>, 1)
    BY DEF Unpointed
  <1> QED  BY <1>1 DEF Harmless

(* Two steps that do not set it.                                           *)
LEMMA HarmlessTwo ==
    ASSUME NEW a, NEW b, a.status # "devicesP", b.status # "devicesP"
    PROVE  Harmless(<<a, b>>)
  <1>1. Unpointed(<<a, b>>, 2)
    BY DEF Unpointed
  <1> QED  BY <1>1 DEF Harmless

(* What a request is made of.                                              *)
LEMMA RequestSteps ==
    ASSUME NEW req, NEW cnf, NEW status
    PROVE  LET ask == Request(req, cnf, status)
           IN  /\ ask = [j \in 1 .. Slots + 2 |-> ask[j]]
               /\ ask[1] = Send(req)
               /\ \A j \in 1 .. Slots : ask[1 + j] = [Do("clear") EXCEPT !.slot = j]
               /\ ask[Slots + 2] = Wait(cnf, status)
  <1>1. Slots \in Nat /\ Slots > 0 /\ 1 + Slots + 1 = Slots + 2 /\ 1 + Slots \in Nat
    BY Tables
  <1>2. Clear = [j \in 1 .. Slots |-> Clear[j]]
    BY DEF Clear
  <1>3. <<Send(req)>> = [j \in 1 .. 1 |-> <<Send(req)>>[j]]
        /\ <<Wait(cnf, status)>> = [j \in 1 .. 1 |-> <<Wait(cnf, status)>>[j]]
    OBVIOUS
  <1> DEFINE start == <<Send(req)>> \o Clear
  <1>4. /\ start = [j \in 1 .. 1 + Slots |-> start[j]]
        /\ \A j \in 1 .. 1 : start[j] = <<Send(req)>>[j]
        /\ \A j \in 1 .. Slots : start[1 + j] = Clear[j]
    <2>1. Extent(<<Send(req)>>, 1) /\ Extent(Clear, Slots)
      BY <1>1, <1>2, <1>3 DEF Extent
    <2>2. Follows(start, <<Send(req)>>, 1, Clear, Slots)
      BY <2>1, Concatenation
    <2> HIDE DEF start
    <2> QED  BY <2>2 DEF Follows
  <1> DEFINE ask == start \o <<Wait(cnf, status)>>
  <1> HIDE DEF start
  <1>5. /\ ask = [j \in 1 .. 1 + Slots + 1 |-> ask[j]]
        /\ \A j \in 1 .. 1 + Slots : ask[j] = start[j]
        /\ \A j \in 1 .. 1 : ask[1 + Slots + j] = <<Wait(cnf, status)>>[j]
    <2>1. Extent(start, 1 + Slots) /\ Extent(<<Wait(cnf, status)>>, 1)
      BY <1>1, <1>3, <1>4 DEF Extent
    <2>2. Follows(ask, start, 1 + Slots, <<Wait(cnf, status)>>, 1)
      BY <2>1, Concatenation
    <2> HIDE DEF ask
    <2> QED  BY <2>2 DEF Follows
  <1>6. ask = Request(req, cnf, status)
    BY DEF Request, start
  <1> HIDE DEF ask
  <1>7. ask = [j \in 1 .. Slots + 2 |-> ask[j]]
    BY <1>1, <1>5
  <1>8. ask[1] = Send(req)
    <2>1. 1 \in 1 .. 1 /\ 1 \in 1 .. 1 + Slots
      BY <1>1
    <2> QED  BY <1>4, <1>5, <2>1
  <1>9. ASSUME NEW j \in 1 .. Slots
        PROVE  ask[1 + j] = [Do("clear") EXCEPT !.slot = j]
    <2>1. 1 + j \in 1 .. 1 + Slots
      BY <1>1
    <2> QED  BY <1>4, <1>5, <2>1 DEF Clear
  <1>10. ask[Slots + 2] = Wait(cnf, status)
    <2>1. 1 \in 1 .. 1
      OBVIOUS
    <2>2. ask[1 + Slots + 1] = <<Wait(cnf, status)>>[1]
      BY <1>5, <2>1
    <2> QED  BY <1>1, <2>2
  <1> QED  BY <1>6, <1>7, <1>8, <1>9, <1>10

(* No request sets it.                                                     *)
LEMMA HarmlessRequest ==
    ASSUME NEW req, NEW cnf, NEW status, status # "devicesP"
    PROVE  Harmless(Request(req, cnf, status))
  <1>1. PICK ask : ask = Request(req, cnf, status)
    OBVIOUS
  <1>2. Slots \in Nat /\ Slots > 0
    BY Tables
  <1>3. /\ ask = [j \in 1 .. Slots + 2 |-> ask[j]]
        /\ ask[1] = Send(req)
        /\ \A j \in 1 .. Slots : ask[1 + j] = [Do("clear") EXCEPT !.slot = j]
        /\ ask[Slots + 2] = Wait(cnf, status)
    BY <1>1, RequestSteps
  <1>4. ASSUME NEW j \in 1 .. Slots + 2 PROVE ask[j].status # "devicesP"
    <2>1. CASE j = 1
      BY <1>3, <2>1 DEF Send, Do
    <2>2. CASE j = Slots + 2
      BY <1>3, <2>2 DEF Wait, Do
    <2>3. CASE j # 1 /\ j # Slots + 2
      <3>1. j - 1 \in 1 .. Slots /\ 1 + (j - 1) = j
        BY <1>2, <2>3
      <3>2. ask[j] = [Do("clear") EXCEPT !.slot = j - 1]
        BY <1>3, <3>1
      <3> QED  BY <3>2 DEF Do
    <2> QED  BY <2>1, <2>2, <2>3
  <1>5. Unpointed(ask, Slots + 2)
    <2>1. Slots + 2 \in Nat
      BY <1>2
    <2> QED  BY <1>3, <1>4, <2>1 DEF Unpointed
  <1> QED  BY <1>1, <1>5 DEF Harmless

(* Resetting the slots does not set it.                                    *)
LEMMA HarmlessClear == Harmless(Clear)
  <1>1. Unpointed(Clear, Slots)
    BY Tables DEF Unpointed, Clear, Do
  <1> QED  BY <1>1 DEF Harmless

(* Where a failure leads has no influence on what is set.                  *)
LEMMA HarmlessOrElse ==
    ASSUME NEW s, Harmless(s), NEW k
    PROVE  Harmless(OrElse(s, k))
  <1>1. PICK n : Unpointed(s, n)
    BY DEF Harmless
  <1>2. DOMAIN s = 1 .. n
    BY <1>1 DEF Unpointed
  <1>3. Unpointed(OrElse(s, k), n)
    <2>1. \A j \in 1 .. n : OrElse(s, k)[j] = [s[j] EXCEPT !.fail = k]
      BY <1>2 DEF OrElse
    <2>2. \A j \in 1 .. n : [s[j] EXCEPT !.fail = k].status # "devicesP"
      BY <1>1 DEF Unpointed
    <2> QED  BY <1>1, <1>2, <2>1, <2>2 DEF Unpointed, OrElse
  <1> QED  BY <1>3 DEF Harmless

(* Nor do the two usual forms of a request.                                *)
LEMMA HarmlessRequests ==
    ASSUME NEW req, NEW cnf
    PROVE  Harmless(Simple(req, cnf)) /\ Harmless(Rebooting(req))
BY HarmlessRequest DEF Simple, Rebooting

(* Every function but GetDevices.                                          *)
LEMMA HarmlessFunctions ==
    \A op \in DOMAIN Functions \ {"GetDevices"} : Harmless(Functions[op])
  <1>1. /\ Harmless(Reset) /\ Harmless(FactoryReset) /\ Harmless(Disconnect)
        /\ Harmless(Sleep) /\ Harmless(UartDisable) /\ Harmless(ScanStart)
        /\ Harmless(ScanStop) /\ Harmless(Connect) /\ Harmless(Passkey)
        /\ Harmless(NumericCompareConfirm) /\ Harmless(DeleteBonds)
        /\ Harmless(DeleteBond) /\ Harmless(AllowUnbondedConnections)
        /\ Harmless(DTMRun) /\ Harmless(GPIOLocalWriteConfig)
        /\ Harmless(GPIOLocalWrite) /\ Harmless(GPIORemoteWriteConfig)
        /\ Harmless(GPIORemoteWrite)
    BY HarmlessRequests
       DEF Reset, FactoryReset, Disconnect, Sleep, UartDisable, ScanStart, ScanStop,
           Connect, Passkey, NumericCompareConfirm, DeleteBonds, DeleteBond,
           AllowUnbondedConnections, DTMRun, GPIOLocalWriteConfig, GPIOLocalWrite,
           GPIORemoteWriteConfig, GPIORemoteWrite
  <1>2. /\ Harmless(<<Read>>) /\ Harmless(<<Check("DTM")>>)
        /\ Harmless(<<Test("ChannelOpen")>>) /\ Harmless(<<Test("Idle")>>)
        /\ Harmless(<<Wait("TXCOMPLETE_RSP", "Success")>>)
        /\ Harmless(<<Wait("GETSTATE_CNF", "NoStatus")>>)
    BY HarmlessStep DEF Read, Check, Test, Wait, Do
  <1>3. /\ Harmless(<<Pin>>) /\ Harmless(<<Open>>) /\ Harmless(<<Hold>>)
        /\ Harmless(<<Close>>) /\ Harmless(<<Set("Initial")>>)
        /\ Harmless(<<Return>>)
    BY HarmlessStep DEF Pin, Open, Hold, Close, Set, Return, Do
  <1>4. /\ Harmless(Get) /\ Harmless(GetState) /\ Harmless(GetBonds)
        /\ Harmless(GPIOLocalReadConfig) /\ Harmless(GPIOLocalRead)
        /\ Harmless(GPIORemoteReadConfig) /\ Harmless(GPIORemoteRead)
        /\ Harmless(DTMEnable)
    BY <1>2, HarmlessRequests, HarmlessPair
       DEF Get, GetState, GetBonds, GPIOLocalReadConfig, GPIOLocalRead,
           GPIORemoteReadConfig, GPIORemoteRead, DTMEnable
  <1>5. /\ Harmless(PhyUpdate) /\ Harmless(SetBeacon) /\ Harmless(TransmitData)
        /\ Harmless(SetSetting)
    BY <1>2, HarmlessRequests, HarmlessPair
       DEF PhyUpdate, SetBeacon, TransmitData, SetSetting
  <1>6. Harmless(CheckNSet) /\ Harmless(CheckEqual)
    BY <1>4, <1>5, HarmlessPair DEF CheckNSet, CheckEqual
  <1>7. Harmless(PinReset) /\ Harmless(Deinit)
    BY <1>3, HarmlessClear, HarmlessRequests, HarmlessPair DEF PinReset, Deinit
  <1>8. Harmless(PinWakeup) /\ Harmless(PinUartEnable)
    <2>1. /\ Harmless(<<Send("SLEEP_PIN"), Wait("GETSTATE_CNF", "NoStatus")>>)
          /\ Harmless(<<Send("UART_PIN"), Wait("UART_ENABLE_IND", "Success")>>)
      BY HarmlessTwo DEF Send, Wait, Do
    <2> QED
      BY <1>3, <2>1, HarmlessClear, HarmlessPair DEF PinWakeup, PinUartEnable
  <1>9. Harmless(InitByPin) /\ Harmless(InitByUart)
    <2>1. Harmless(<<Pin, Open>>) /\ Harmless(<<Set("Initial"), Return>>)
      BY HarmlessTwo DEF Pin, Open, Set, Return, Do
    <2>2. ASSUME NEW reset, Harmless(reset) PROVE Harmless(StartUp(reset))
      BY <1>7, <2>1, <2>2, HarmlessOrElse, HarmlessPair DEF StartUp
    <2> QED  BY <1>1, <1>7, <2>2 DEF InitByPin, InitByUart
  <1> QED
    BY <1>1, <1>4, <1>5, <1>6, <1>7, <1>8, <1>9 DEF Functions

(* A step that leads to the last one of GetDevices when it fails.          *)
InnerStep(step) ==
    step.fail = Slots + 4 /\ step.do \in {"send", "clear", "wait"}

(* GetDevices: all steps between the first and the last are such steps.    *)
LEMMA GetDevicesSteps ==
    /\ DOMAIN GetDevices = 1 .. Slots + 4 /\ Len(GetDevices) = Slots + 4
    /\ \A j \in 2 .. Slots + 3 : InnerStep(GetDevices[j])
    /\ GetDevices[1] = Set("devicesP") /\ GetDevices[Slots + 4] = Set("NULL")
    /\ GetDevices[2].do = "send"
    /\ \A i \in 1 .. Slots : GetDevices[2 + i].do = "clear" /\ GetDevices[2 + i].slot = i
    /\ GetDevices[Slots + 3].do = "wait"
    /\ GetDevices[Slots + 3].cmd = "GETDEVICES_CNF"
    /\ GetDevices[Slots + 3].status = "Success"
  <1>1. Slots \in Nat /\ Slots > 0
    BY Tables
  <1>2. PICK ask : ask = Simple("GETDEVICES_REQ", "GETDEVICES_CNF")
    OBVIOUS
  <1>a. PICK n \in Nat : n = Slots + 2 /\ n > 0
    BY <1>1
  <1>3. /\ ask = [j \in 1 .. n |-> ask[j]]
        /\ ask[1] = Send("GETDEVICES_REQ")
        /\ \A j \in 1 .. Slots : ask[1 + j] = [Do("clear") EXCEPT !.slot = j]
        /\ ask[n] = Wait("GETDEVICES_CNF", "Success")
    BY <1>2, <1>a, RequestSteps DEF Simple
  <1>4. Len(ask) = n /\ DOMAIN ask = 1 .. n
    BY <1>3, Lengths
  <1> DEFINE Redirected(step) == [step EXCEPT !.fail = n + 2]
  <1>b. PICK asking : asking = OrElse(ask, n + 2)
    OBVIOUS
  <1>5. /\ asking = [j \in 1 .. n |-> asking[j]]
        /\ \A j \in 1 .. n : asking[j] = Redirected(ask[j])
    BY <1>4, <1>b DEF OrElse
  <1>c. n + 2 = Slots + 4
    BY <1>1, <1>a
  <1>6. ASSUME NEW j \in 1 .. n PROVE InnerStep(asking[j])
    <2>1. ASSUME NEW step, step = Send("GETDEVICES_REQ") PROVE InnerStep(Redirected(step))
      BY <1>c, <2>1 DEF InnerStep, Send, Do
    <2>2. ASSUME NEW step, step = Wait("GETDEVICES_CNF", "Success")
          PROVE InnerStep(Redirected(step))
      BY <1>c, <2>2 DEF InnerStep, Wait, Do
    <2>3. ASSUME NEW step, NEW i, step = [Do("clear") EXCEPT !.slot = i]
          PROVE InnerStep(Redirected(step))
      BY <1>c, <2>3 DEF InnerStep, Do
    <2> HIDE DEF Redirected
    <2>4. CASE j = 1
      BY <1>3, <1>5, <2>1, <2>4
    <2>5. CASE j = n
      BY <1>3, <1>5, <2>2, <2>5
    <2>6. CASE j # 1 /\ j # n
      <3>1. j - 1 \in 1 .. Slots /\ 1 + (j - 1) = j
        BY <1>1, <1>a, <2>6
      <3>2. ask[j] = [Do("clear") EXCEPT !.slot = j - 1]
        BY <1>3, <3>1
      <3> QED  BY <1>5, <2>3, <3>2
    <2> QED  BY <2>4, <2>5, <2>6
  <1> HIDE DEF Redirected
  <1>7. GetDevices = <<Set("devicesP")>> \o asking \o <<Set("NULL")>>
    BY <1>2, <1>4, <1>b DEF GetDevices
  <1>8. <<Set("devicesP")>> = [j \in 1 .. 1 |-> <<Set("devicesP")>>[j]]
        /\ <<Set("NULL")>> = [j \in 1 .. 1 |-> <<Set("NULL")>>[j]]
    OBVIOUS
  <1>d. PICK start : start = <<Set("devicesP")>> \o asking
    OBVIOUS
  <1>9. /\ start = [j \in 1 .. 1 + n |-> start[j]]
        /\ \A j \in 1 .. n : start[1 + j] = asking[j]
        /\ start[1] = Set("devicesP")
    <2>1. Extent(<<Set("devicesP")>>, 1) /\ Extent(asking, n)
      BY <1>5, <1>8, <1>a, <1>1 DEF Extent
    <2>2. Follows(start, <<Set("devicesP")>>, 1, asking, n)
      BY <2>1, <1>d, Concatenation
    <2>3. 1 \in 1 .. 1 /\ <<Set("devicesP")>>[1] = Set("devicesP")
      OBVIOUS
    <2> QED  BY <2>2, <2>3 DEF Follows
  <1>10. 1 + n \in Nat
    OBVIOUS
  <1>11. /\ GetDevices = [j \in 1 .. 1 + n + 1 |-> GetDevices[j]]
         /\ \A j \in 1 .. 1 + n : GetDevices[j] = start[j]
         /\ \A j \in 1 .. 1 : GetDevices[1 + n + j] = <<Set("NULL")>>[j]
    <2>1. Extent(start, 1 + n) /\ Extent(<<Set("NULL")>>, 1)
      BY <1>8, <1>9, <1>10 DEF Extent
    <2>2. Follows(GetDevices, start, 1 + n, <<Set("NULL")>>, 1)
      BY <1>7, <1>d, <2>1, Concatenation
    <2> QED  BY <2>2 DEF Follows
  <1>13. 1 + n + 1 = Slots + 4 /\ 1 + n + 1 \in Nat
    BY <1>1, <1>a
  <1>14. Len(GetDevices) = Slots + 4 /\ DOMAIN GetDevices = 1 .. Slots + 4
    BY <1>11, <1>13, Lengths
  <1>15. ASSUME NEW j \in 2 .. Slots + 3
         PROVE  InnerStep(GetDevices[j])
    <2>1. j - 1 \in 1 .. n /\ 1 + (j - 1) = j /\ j \in 1 .. 1 + n
      BY <1>1, <1>a
    <2>2. GetDevices[j] = asking[j - 1]
      BY <1>9, <1>11, <2>1
    <2> QED  BY <1>6, <2>1, <2>2
  <1>16. GetDevices[Slots + 4] = Set("NULL") /\ GetDevices[1] = Set("devicesP")
    <2>1. 1 \in 1 .. 1 /\ 1 \in 1 .. 1 + n
      BY <1>a
    <2>2. GetDevices[1 + n + 1] = <<Set("NULL")>>[1] /\ GetDevices[1] = start[1]
      BY <1>11, <2>1
    <2> QED  BY <1>9, <1>13, <2>2
  <1>17. ASSUME NEW j \in 1 .. n
         PROVE  /\ GetDevices[1 + j].do = ask[j].do /\ GetDevices[1 + j].cmd = ask[j].cmd
                /\ GetDevices[1 + j].status = ask[j].status
                /\ GetDevices[1 + j].slot = ask[j].slot
    <2>1. GetDevices[1 + j] = Redirected(ask[j])
      <3>1. 1 + j \in 1 .. 1 + n
        BY <1>a
      <3>2. GetDevices[1 + j] = start[1 + j]
        BY <1>11, <3>1
      <3> QED  BY <1>5, <1>9, <3>2
    <2>2. PICK step, to : step = GetDevices[1 + j] /\ to = ask[j]
      OBVIOUS
    <2>3. step = [to EXCEPT !.fail = n + 2]
      BY <2>1, <2>2 DEF Redirected
    <2>4. to = Send("GETDEVICES_REQ") \/ to = Wait("GETDEVICES_CNF", "Success")
            \/ \E i \in 1 .. Slots : to = [Do("clear") EXCEPT !.slot = i]
      <3>1. CASE j = 1 \/ j = n
        BY <1>3, <2>2, <3>1
      <3>2. CASE j # 1 /\ j # n
        <4>1. j - 1 \in 1 .. Slots /\ 1 + (j - 1) = j
          BY <1>1, <1>a, <3>2
        <4> QED  BY <1>3, <2>2, <4>1
      <3> QED  BY <3>1, <3>2
    <2>5. step.do = to.do /\ step.cmd = to.cmd /\ step.status = to.status
          /\ step.slot = to.slot
      BY <2>3, <2>4 DEF Send, Wait, Do
    <2> QED  BY <2>2, <2>5
  <1>18. GetDevices[2].do = "send"
    <2>1. 1 \in 1 .. n /\ 1 + 1 = 2
      BY <1>a
    <2> QED  BY <1>3, <1>17, <2>1 DEF Send, Do
  <1>19. ASSUME NEW i \in 1 .. Slots
         PROVE  GetDevices[2 + i].do = "clear" /\ GetDevices[2 + i].slot = i
    <2>1. 1 + i \in 1 .. n /\ 1 + (1 + i) = 2 + i
      BY <1>1, <1>a
    <2>2. ask[1 + i] = [Do("clear") EXCEPT !.slot = i]
      BY <1>3
    <2>3. ask[1 + i].do = "clear" /\ ask[1 + i].slot = i
      BY <2>2 DEF Do
    <2> QED  BY <1>17, <2>1, <2>3
  <1>20. /\ GetDevices[Slots + 3].do = "wait"
         /\ GetDevices[Slots + 3].cmd = "GETDEVICES_CNF"
         /\ GetDevices[Slots + 3].status = "Success"
    <2>1. n \in 1 .. n /\ 1 + n = Slots + 3
      BY <1>1, <1>a
    <2> QED  BY <1>3, <1>17, <2>1 DEF Wait, Do
  <1> QED  BY <1>14, <1>15, <1>16, <1>18, <1>19, <1>20

-----------------------------------------------------------------------------
(* Every step of the driver is a step of the core.                         *)

ModeOK == mode \in {"Idle", "Connected", "ChannelOpen", "DTM"}

(* What the module reports of itself is data the core knows.               *)
LEMMA ReportKnown ==
    ASSUME ModeOK, outbox # <<>>
    PROVE  (IF Head(outbox).cmd = "GETSTATE_CNF" THEN Action(mode) ELSE "") \in Data
  <1>1. Actions \subseteq Data
    BY ProteusIIIAssumption
  <1>2. Action(mode) \in Actions /\ "" \in Actions
    BY DEF ModeOK, Action, Actions
  <1> QED  BY <1>1, <1>2

(* A step of the main thread is one in the core.                           *)
LEMMA MainRefines == MainP3 => MainStep
  <1> SUFFICES ASSUME MainP3 PROVE MainStep
    OBVIOUS
  <1>1. CASE PlainStep
    BY <1>1 DEF PlainStep, MainStep
  <1>2. CASE HoldP3
    BY <1>2 DEF HoldP3, MainStep
  <1>3. CASE SetP3
    BY <1>3 DEF SetP3, MainStep
  <1>4. CASE TestP3
    <2>1. PICK holds \in BOOLEAN : holds <=> (bleState = Step.status)
      OBVIOUS
    <2>2. TestState(holds)
      BY <1>4, <2>1 DEF TestP3, TestState
    <2> QED  BY <2>2 DEF MainStep
  <1> QED  BY <1>1, <1>2, <1>3, <1>4 DEF MainP3

(* A step of the module is one in the core.                                *)
LEMMA ModuleRefines == ModeOK /\ ModuleP3 => ModuleStep
  <1> SUFFICES ASSUME ModeOK, ModuleP3 PROVE ModuleStep
    OBVIOUS
  <1>1. CASE AnswerP3
    BY <1>1 DEF AnswerP3, ModuleStep
  <1>2. CASE EmitP3
    BY <1>2, ReportKnown DEF EmitP3, ModuleStep
  <1>3. CASE LinkEvent
    <2>1. PICK i \in LinkFrames : Indicate(i.cmd, i.status)
      BY <1>3 DEF LinkEvent, LinkFrames, Part
    <2>2. i \in Indications
      BY <2>1, ProteusIIIAssumption
    <2> QED  BY <2>1, <2>2 DEF ModuleStep
  <1>4. CASE OtherIndication
    BY <1>4 DEF OtherIndication, ModuleStep
  <1>5. CASE RestartP3
    BY <1>5 DEF RestartP3, ModuleStep
  <1> QED  BY <1>1, <1>2, <1>3, <1>4, <1>5 DEF ModuleP3

(* Every step of the driver is one of the core, or changes nothing there.  *)
LEMMA StepsRefine == ModeOK /\ [NextP3]_allVars => [Next]_vars
  <1> SUFFICES ASSUME ModeOK, [NextP3]_allVars PROVE [Next]_vars
    OBVIOUS
  <1>1. CASE StartP3
    BY <1>1 DEF StartP3, Next
  <1>2. CASE MainP3
    BY <1>2, MainRefines DEF Next
  <1>3. CASE ReceiveP3
    BY <1>3 DEF ReceiveP3, Next
  <1>4. CASE LoseP3
    BY <1>4 DEF LoseP3, Next
  <1>5. CASE ModuleP3
    BY <1>5, ModuleRefines DEF Next
  <1>6. CASE UNCHANGED allVars
    BY <1>6 DEF allVars
  <1> QED  BY <1>1, <1>2, <1>3, <1>4, <1>5, <1>6 DEF NextP3

(* The mode of the module keeps its type.                                  *)
LEMMA ModeStep == ModeOK /\ [NextP3]_allVars => ModeOK'
  <1> SUFFICES ASSUME ModeOK, [NextP3]_allVars PROVE ModeOK'
    OBVIOUS
  <1>1. CASE StartP3 \/ LoseP3 \/ EmitP3 \/ OtherIndication \/ UNCHANGED allVars
    BY <1>1 DEF StartP3, LoseP3, EmitP3, OtherIndication, allVars, added, ModeOK
  <1>2. CASE MainP3
    BY <1>2 DEF MainP3, PlainStep, HoldP3, TestP3, SetP3, added, ModeOK
  <1>3. CASE ReceiveP3
    BY <1>3 DEF ReceiveP3, ModeOK
  <1>4. CASE AnswerP3
    BY <1>4 DEF AnswerP3, ModeOK
  <1>5. CASE LinkEvent \/ RestartP3
    BY <1>5 DEF LinkEvent, RestartP3, ModeOK
  <1> QED  BY <1>1, <1>2, <1>3, <1>4, <1>5 DEF NextP3, ModuleP3

(* The driver implements the core: whatever is proved of CommandDriver     *)
(* holds of it.                                                            *)
THEOREM Implements == SpecP3 => Spec
  <1>1. InitP3 => ModeOK /\ Init
    BY DEF InitP3, ModeOK
  <1>2. ModeOK /\ [NextP3]_allVars => ModeOK' /\ [Next]_vars
    BY ModeStep, StepsRefine
  <1> QED  BY <1>1, <1>2, PTL DEF SpecP3, Spec

(* No call of the driver returns true unless a confirmation of the right   *)
(* kind and status was recorded, since the call began, for each of its     *)
(* waits.                                                                  *)
THEOREM DriverConfirmations == SpecP3 => []ConfirmedByKind
BY Implements, Confirmations, PTL

(* With a module that answers in time, no answer a call of the driver      *)
(* waits for finds its confirmation array full, however many frames are    *)
(* lost on the line.                                                       *)
THEOREM DriverAwaitedKept ==
    ASSUME Timely PROVE SpecP3 => AwaitedNeverDropped
<1>1. Serial
  BY SerialAssumption
<1>2. Spec => AwaitedNeverDropped
  BY <1>1, AwaitedKept
<1> QED  BY <1>2, Implements, PTL

(* And if no frame is lost either, its functions keep the contract with    *)
(* their caller: what they return is what the module did.                  *)
THEOREM DriverContractKept ==
    ASSUME Timely, MaxFaults = 0 PROVE SpecP3 => KeepsContract
<1>1. Serial
  BY SerialAssumption
<1>2. Spec => KeepsContract
  BY <1>1, ContractKept
<1> QED  BY <1>2, Implements, PTL

-----------------------------------------------------------------------------
(* Types of what the driver adds.                                          *)

AddedOK ==
    /\ bleState \in {"Idle", "Connected", "ChannelOpen"}
    /\ getDevicesP \in {"NULL", "caller"}
    /\ listed \subseteq Nat

(* What the driver adds keeps its types.                                   *)
LEMMA AddedStep == TypeOK /\ AddedOK /\ [NextP3]_allVars => AddedOK'
  <1> SUFFICES ASSUME TypeOK, AddedOK, [NextP3]_allVars PROVE AddedOK'
    OBVIOUS
  <1>1. CASE \/ StartP3 \/ PlainStep \/ HoldP3 \/ TestP3 \/ LoseP3 \/ AnswerP3
             \/ EmitP3 \/ LinkEvent \/ OtherIndication \/ RestartP3
             \/ UNCHANGED allVars
    BY <1>1 DEF StartP3, PlainStep, HoldP3, TestP3, LoseP3, AnswerP3, EmitP3,
                LinkEvent, OtherIndication, RestartP3, allVars, added, AddedOK
  <1>2. CASE SetP3
    <2>1. getDevicesP' \in {"NULL", "caller"} /\ listed' \subseteq Nat
      BY <1>2 DEF SetP3, AddedOK
    <2>2. bleState' \in {"Idle", "Connected", "ChannelOpen"}
      BY <1>2 DEF SetP3, AddedOK
    <2> QED  BY <2>1, <2>2 DEF AddedOK
  <1>3. CASE ReceiveP3
    <2>1. Head(line) \in Frame
      BY <1>3, FirstFrame DEF ReceiveP3, HandleRxPacket
    <2>2. Head(line).req \in Nat
      BY <2>1 DEF Frame
    <2>3. StateAfter(Head(line)) \in {"Idle", "Connected", "ChannelOpen"}
      BY DEF StateAfter, AddedOK
    <2> QED  BY <1>3, <2>2, <2>3 DEF ReceiveP3, AddedOK
  <1> QED  BY <1>1, <1>2, <1>3 DEF NextP3, MainP3, ModuleP3

(* Type correctness of the core's state and of the driver's own.           *)
THEOREM TypeCorrectP3 == SpecP3 => []TypeOKP3
  <1>1. InitP3 => AddedOK /\ ModeOK
    BY DEF InitP3, AddedOK, ModeOK
  <1>2. TypeOK /\ AddedOK /\ ModeOK /\ [NextP3]_allVars => AddedOK' /\ ModeOK'
    BY AddedStep, ModeStep
  <1>3. SpecP3 => []TypeOK
    BY Implements, TypeCorrect, PTL
  <1>4. TypeOK /\ AddedOK /\ ModeOK => TypeOKP3
    BY DEF AddedOK, ModeOK, TypeOKP3
  <1> QED  BY <1>1, <1>2, <1>3, <1>4, PTL DEF SpecP3

-----------------------------------------------------------------------------
(* The pointer the interrupt writes through.                               *)

(* Strengthening of DevicesPointerSafe: the call is past the step that set *)
(* the pointer and has the step that resets it before it.                  *)
PointerHeld ==
    getDevicesP # "NULL" =>
        call.op = "GetDevices" /\ call.k \in 2 .. Slots + 4

(* The table of functions is the one of this driver.                       *)
LEMMA OwnTables ==
    /\ Ops \subseteq DOMAIN Functions
    /\ \A op \in Ops : Script[op] = Functions[op]
BY ProteusIIIAssumption

(* In it, GetDevices is GetDevices.                                        *)
LEMMA GetDevicesScript == "GetDevices" \in Ops => Script["GetDevices"] = GetDevices
BY OwnTables DEF Functions

(* Only GetDevices points it to the caller's structure, not at its end.    *)
LEMMA WhoPoints ==
    ASSUME TypeOK, At("set") \/ At("pin"), Step.status = "devicesP"
    PROVE  call.op = "GetDevices" /\ call.k \in 1 .. Slots + 3
  <1>1. PICK op, k : op = call.op /\ k = call.k
    OBVIOUS
  <1>2. op \in Ops /\ k \in DOMAIN Script[op] /\ Script[op][k].status = "devicesP"
    BY <1>1, AtStep DEF Step
  <1>3. op = "GetDevices"
    <2> SUFFICES ASSUME op # "GetDevices" PROVE FALSE
      OBVIOUS
    <2>1. op \in DOMAIN Functions \ {"GetDevices"} /\ Script[op] = Functions[op]
      BY <1>2, OwnTables
    <2>2. PICK n : Unpointed(Script[op], n)
      BY <2>1, HarmlessFunctions DEF Harmless
    <2>3. DOMAIN Script[op] = 1 .. n
      BY <2>2 DEF Unpointed
    <2> QED  BY <1>2, <2>2, <2>3 DEF Unpointed
  <1>4. Script[op] = GetDevices
    BY <1>2, <1>3, GetDevicesScript
  <1>5. k \in 1 .. Slots + 4 /\ Slots \in Nat
    BY <1>2, <1>4, GetDevicesSteps, Tables
  <1>6. k # Slots + 4
    <2>1. GetDevices[Slots + 4].status = "NULL"
      BY GetDevicesSteps DEF Set, Do
    <2> QED  BY <1>2, <1>4, <2>1
  <1>7. k \in 1 .. Slots + 3
    BY <1>5, <1>6
  <1> QED  BY <1>1, <1>3, <1>7

(* Until the last step the call moves on or jumps to the last step.        *)
LEMMA HeldOn ==
    ASSUME TypeOK, PointerHeld, getDevicesP # "NULL",
           NEW what, At(what), what # "set", Advance \/ Fail
    PROVE  call'.op = "GetDevices" /\ call'.k \in 2 .. Slots + 4
  <1>1. PICK k : k = call.k
    OBVIOUS
  <1>2. /\ call.op = "GetDevices" /\ k \in 2 .. Slots + 4
        /\ call.op \in Ops /\ Slots \in Nat
    BY <1>1, AtStep, Tables DEF PointerHeld
  <1>3. Step = GetDevices[k]
    BY <1>1, <1>2, GetDevicesScript DEF Step
  <1>4. k # Slots + 4
    <2>1. GetDevices[Slots + 4].do = "set"
      BY GetDevicesSteps DEF Set, Do
    <2>2. Step.do = what
      BY DEF At
    <2> QED  BY <1>3, <2>1, <2>2
  <1>5. k \in 2 .. Slots + 3
    BY <1>2, <1>4
  <1>6. Step.fail = Slots + 4
    BY <1>3, <1>5, GetDevicesSteps DEF InnerStep
  <1>7. call \in Position
    BY DEF TypeOK
  <1>8. call'.op = call.op /\ (call'.k = k + 1 \/ call'.k = Slots + 4)
    <2>1. CASE Advance
      BY <1>1, <1>7, <2>1 DEF Advance, Position
    <2>2. CASE Fail
      <3>1. Step.fail # 0
        BY <1>2, <1>6
      <3>2. call'.op = call.op /\ call'.k = Step.fail
        BY <1>7, <2>2, <3>1 DEF Fail, Position
      <3> QED  BY <1>6, <3>2
    <2> QED  BY <2>1, <2>2
  <1>9. k + 1 \in 2 .. Slots + 4 /\ Slots + 4 \in 2 .. Slots + 4
    BY <1>2, <1>5
  <1> QED  BY <1>2, <1>8, <1>9

(* A step of the core keeps the strengthening.                             *)
LEMMA HeldPlain == TypeOK /\ PointerHeld /\ PlainStep => PointerHeld'
  <1> SUFFICES ASSUME TypeOK, PointerHeld, PlainStep, getDevicesP # "NULL"
               PROVE  call'.op = "GetDevices" /\ call'.k \in 2 .. Slots + 4
    BY DEF PlainStep, added, PointerHeld
  <1>1. CASE NextSlot \/ Delay
    <2>1. call \in Position
      BY DEF TypeOK
    <2>2. call'.op = call.op /\ call'.k = call.k
      BY <1>1, <2>1 DEF NextSlot, Delay, Position
    <2> QED  BY <2>2 DEF PointerHeld
  <1>2. CASE Finish
    <2>1. PICK k : k = call.k
      OBVIOUS
    <2>2. /\ call.op = "GetDevices" /\ k \in 2 .. Slots + 4
          /\ call.op \in Ops /\ Slots \in Nat
      BY <1>2, <2>1, Tables DEF PointerHeld, Finish, Ended, Running, TypeOK, Position
    <2>3. Step = GetDevices[k] /\ Length = Slots + 4
      BY <2>1, <2>2, GetDevicesScript, GetDevicesSteps DEF Step, Length
    <2>4. Step.do = "return"
      BY <1>2, <2>1, <2>2, <2>3 DEF Finish, Ended
    <2>5. k \in 2 .. Slots + 3 \/ k = Slots + 4
      BY <2>2
    <2> QED  BY <2>3, <2>4, <2>5, GetDevicesSteps DEF InnerStep, Set, Do
  <1>3. CASE Fault
    BY <1>3, HeldOn DEF Fault
  <1>4. CASE Transmit \/ ClearSlot
    BY <1>4, HeldOn DEF Transmit, ClearSlot
  <1>5. CASE Confirmed \/ GiveUp
    BY <1>5, HeldOn DEF Confirmed, GiveUp
  <1>6. CASE ReadPacket \/ CheckPacket
    BY <1>6, HeldOn DEF ReadPacket, CheckPacket
  <1>7. CASE OpenUart \/ CloseUart
    BY <1>7, HeldOn DEF OpenUart, CloseUart
  <1> QED  BY <1>1, <1>2, <1>3, <1>4, <1>5, <1>6, <1>7 DEF PlainStep

(* So does an assignment of the driver's own state.                        *)
LEMMA HeldSet == TypeOK /\ PointerHeld /\ SetP3 => PointerHeld'
  <1> SUFFICES ASSUME TypeOK, PointerHeld, SetP3, getDevicesP' # "NULL"
               PROVE  call'.op = "GetDevices" /\ call'.k \in 2 .. Slots + 4
    BY DEF PointerHeld
  <1>1. (At("set") \/ At("pin")) /\ Advance
    BY DEF SetP3, SetState
  <1>2. call \in Position /\ Slots \in Nat
    BY Tables DEF TypeOK
  <1>3. CASE Step.status = "devicesP"
    <2>1. call.op = "GetDevices" /\ call.k \in 1 .. Slots + 3
      BY <1>1, <1>3, WhoPoints
    <2>2. call'.op = call.op /\ call'.k = call.k + 1
      BY <1>1, <1>2 DEF Advance, Position
    <2>3. PICK k : k = call.k
      OBVIOUS
    <2>4. k + 1 \in 2 .. Slots + 4
      BY <1>2, <2>1, <2>3
    <2> QED  BY <2>1, <2>2, <2>3, <2>4
  <1>4. CASE Step.status # "devicesP"
    <2>1. getDevicesP # "NULL" /\ Step.status # "NULL"
      BY <1>4 DEF SetP3
    <2>2. CASE At("pin")
      BY <1>1, <2>1, <2>2, HeldOn
    <2>3. CASE At("set")
      <3>1. PICK k : k = call.k
        OBVIOUS
      <3>2. /\ call.op = "GetDevices" /\ k \in 2 .. Slots + 4 /\ call.op \in Ops
        BY <2>1, <2>3, <3>1, AtStep DEF PointerHeld
      <3>3. Step = GetDevices[k] /\ Step.do = "set"
        BY <2>3, <3>1, <3>2, GetDevicesScript DEF Step, At
      <3>4. k \in 2 .. Slots + 3 \/ k = Slots + 4
        BY <1>2, <3>2
      <3>5. GetDevices[Slots + 4].status = "NULL"
        BY GetDevicesSteps DEF Set, Do
      <3> QED  BY <2>1, <3>3, <3>4, <3>5, GetDevicesSteps DEF InnerStep
    <2> QED  BY <1>1, <2>2, <2>3
  <1> QED  BY <1>3, <1>4

(* So does every step of the driver.                                       *)
LEMMA PointerStep == TypeOK /\ PointerHeld /\ [NextP3]_allVars => PointerHeld'
  <1> SUFFICES ASSUME TypeOK, PointerHeld, [NextP3]_allVars PROVE PointerHeld'
    OBVIOUS
  <1>1. CASE StartP3
    <2>1. call.op = NoOp /\ getDevicesP' = getDevicesP
      BY <1>1 DEF StartP3, Start, Running, added
    <2> QED  BY <2>1 DEF PointerHeld, NoOp
  <1>2. CASE PlainStep
    BY <1>2, HeldPlain
  <1>3. CASE SetP3
    BY <1>3, HeldSet
  <1>4. CASE HoldP3
    <2>1. At("hold") /\ Advance /\ getDevicesP' = getDevicesP
      BY <1>4 DEF HoldP3, HoldInReset
    <2> QED  BY <2>1, HeldOn DEF PointerHeld
  <1>5. CASE TestP3
    <2>1. At("test") /\ (Advance \/ Fail) /\ getDevicesP' = getDevicesP
      BY <1>5 DEF TestP3, TestState, added
    <2> QED  BY <2>1, HeldOn DEF PointerHeld
  <1>6. CASE ReceiveP3 \/ LoseP3 \/ ModuleP3 \/ UNCHANGED allVars
    <2>1. CASE ReceiveP3 \/ LoseP3 \/ UNCHANGED allVars
      BY <2>1 DEF ReceiveP3, HandleRxPacket, LoseP3, LoseFrame, allVars, vars,
                  added, PointerHeld
    <2>2. CASE ModuleP3
      BY <2>2 DEF ModuleP3, AnswerP3, Answer, EmitP3, Emit, LinkEvent,
                  OtherIndication, Indicate, RestartP3, Restart, added, PointerHeld
    <2> QED  BY <1>6, <2>1, <2>2
  <1> QED  BY <1>1, <1>2, <1>3, <1>4, <1>5, <1>6 DEF NextP3, MainP3

(* The receive interrupt never writes through a pointer to a structure     *)
(* whose GetDevices has returned: not after a timeout, not after a failed  *)
(* transmission, however late the module's list comes.                     *)
THEOREM PointerSafe == SpecP3 => []DevicesPointerSafe
  <1>1. InitP3 => PointerHeld
    BY DEF InitP3, PointerHeld
  <1>2. TypeOK /\ PointerHeld /\ [NextP3]_allVars => PointerHeld'
    BY PointerStep
  <1>3. SpecP3 => []TypeOK
    BY Implements, TypeCorrect, PTL
  <1>4. PointerHeld => DevicesPointerSafe
    BY DEF PointerHeld, DevicesPointerSafe
  <1> QED  BY <1>1, <1>2, <1>3, <1>4, PTL DEF SpecP3

(* A step of the main thread stays in its call, or ends it.                *)
LEMMA RunningOn ==
    ASSUME TypeOK, MainP3, ~(PlainStep /\ Finish) PROVE Running /\ call'.op = call.op
  <1>1. call \in Position
    BY DEF TypeOK
  <1>2. Advance \/ Fail => call'.op = call.op
    BY <1>1 DEF Advance, Fail, Position
  <1>3. CASE PlainStep
    <2>1. CASE NextSlot \/ Delay
      BY <1>1, <2>1 DEF NextSlot, Delay, At, Position
    <2>2. CASE ~(NextSlot \/ Delay)
      BY <1>2, <1>3, <2>2 DEF PlainStep, Fault, Transmit, ClearSlot, Confirmed, GiveUp,
                              ReadPacket, CheckPacket, OpenUart, CloseUart, At
    <2> QED  BY <2>1, <2>2
  <1>4. CASE HoldP3 \/ TestP3 \/ SetP3
    BY <1>2, <1>4 DEF HoldP3, HoldInReset, TestP3, TestState, SetP3, SetState, At
  <1> QED  BY <1>3, <1>4 DEF MainP3

-----------------------------------------------------------------------------
(* The structure the interrupt fills.                                      *)

(* The list of devices, as HandleRxPacket records it.                      *)
List(i) == /\ cmdConfirmationArray[i].cmd = "GETDEVICES_CNF"
           /\ cmdConfirmationArray[i].status = "Success"

(* Strengthening of DevicesFilled: from its second step to its last,       *)
(* GetDevices has lent its structure, so that no list reaches a slot it    *)
(* has reset without reaching the structure.                               *)
Lent ==
    call.op = "GetDevices" /\ call.k >= 2 =>
        /\ call.k <= Slots + 4 => getDevicesP # "NULL"
        /\ call.ok /\ call.k <= Slots + 4 =>
             \A i \in 1 .. Slots : i + 2 < call.k /\ List(i) => listed # {}
        /\ call.ok /\ call.k > Slots + 3 => listed # {}

(* What GetDevices does at which step.                                     *)
LEMMA DevicesAt ==
    ASSUME TypeOK, call.op = "GetDevices", NEW what, At(what), NEW k, k = call.k
    PROVE  /\ \/ k = 1 /\ what = "set" /\ Step.status = "devicesP"
              \/ k = 2 /\ what = "send"
              \/ \E i \in 1 .. Slots : k = 2 + i /\ what = "clear" /\ Step.slot = i
              \/ /\ k = Slots + 3 /\ what = "wait"
                 /\ Step.cmd = "GETDEVICES_CNF" /\ Step.status = "Success"
              \/ k = Slots + 4 /\ what = "set" /\ Step.status = "NULL"
           /\ k \in 2 .. Slots + 3 => Step.fail = Slots + 4
           /\ k \in Nat /\ Slots \in Nat /\ Slots > 0
  <1>1. /\ call.op \in Ops /\ Step.do = what /\ Slots \in Nat /\ Slots > 0
        /\ k \in DOMAIN Script[call.op]
    BY AtStep, Tables
  <1>2. Step = GetDevices[k] /\ k \in 1 .. Slots + 4
    BY <1>1, GetDevicesScript, GetDevicesSteps DEF Step
  <1>3. k \in 2 .. Slots + 3 => Step.fail = Slots + 4
    BY <1>2, GetDevicesSteps DEF InnerStep
  <1>4. CASE k = 1 \/ k = Slots + 4
    <2>1. PICK first, last : /\ first = GetDevices[1] /\ first = Set("devicesP")
                             /\ last = GetDevices[Slots + 4] /\ last = Set("NULL")
      BY GetDevicesSteps
    <2>2. /\ first.do = "set" /\ first.status = "devicesP"
          /\ last.do = "set" /\ last.status = "NULL"
      BY <2>1 DEF Set, Do
    <2>3. (k = 1 /\ Step = first) \/ (k = Slots + 4 /\ Step = last)
      BY <1>2, <1>4, <2>1
    <2> QED  BY <1>1, <1>2, <1>3, <2>2, <2>3
  <1>5. CASE k = 2 \/ k = Slots + 3
    BY <1>1, <1>2, <1>3, <1>5, GetDevicesSteps
  <1>6. CASE k \in 3 .. Slots + 2
    <2>1. PICK i \in 1 .. Slots : k = 2 + i
      <3>1. k - 2 \in 1 .. Slots /\ k = 2 + (k - 2)
        BY <1>1, <1>6
      <3> QED  BY <3>1
    <2>2. GetDevices[2 + i].do = "clear" /\ GetDevices[2 + i].slot = i
      BY GetDevicesSteps
    <2> QED  BY <1>1, <1>2, <1>3, <2>1, <2>2
  <1>7. k = 1 \/ k = 2 \/ k \in 3 .. Slots + 2 \/ k = Slots + 3 \/ k = Slots + 4
    BY <1>1, <1>2
  <1> QED  BY <1>1, <1>2, <1>3, <1>4, <1>5, <1>6, <1>7

(* GetDevices ends after its last step.                                    *)
LEMMA DevicesEnd ==
    ASSUME TypeOK, call.op = "GetDevices", Ended
    PROVE  call.k > Slots + 4 /\ Slots \in Nat /\ call.k \in Nat
  <1>1. PICK k : k = call.k
    OBVIOUS
  <1>2. /\ call.op \in Ops /\ Slots \in Nat /\ k \in Nat /\ k >= 1
    BY <1>1, Tables DEF TypeOK, Position, Ended, Running
  <1>3. Step = GetDevices[k] /\ Length = Slots + 4
    BY <1>1, <1>2, GetDevicesScript, GetDevicesSteps DEF Step, Length
  <1>4. ASSUME k <= Slots + 4 PROVE FALSE
    <2>1. At("return")
      BY <1>1, <1>3, <1>4 DEF Ended, At
    <2> QED  BY <2>1, DevicesAt
  <1> QED  BY <1>1, <1>2, <1>4

(* A step that succeeds.                                                   *)
LEMMA LentAdvance ==
    ASSUME TypeOK, Lent, NEW what, At(what), what \notin {"set", "clear", "wait"},
           Advance, UNCHANGED <<getDevicesP, listed, cmdConfirmationArray>>
    PROVE  Lent'
  <1>1. SUFFICES ASSUME call.op = "GetDevices" PROVE Lent'
    BY DEF Lent, Advance, TypeOK, Position
  <1>2. PICK k : k = call.k
    OBVIOUS
  <1>3. k = 2 /\ Slots \in Nat /\ Slots > 0
    BY <1>1, <1>2, DevicesAt
  <1>4. call'.k = 3 /\ call'.ok = call.ok
    BY <1>2, <1>3 DEF Advance, TypeOK, Position
  <1>5. getDevicesP' # "NULL"
    BY <1>1, <1>2, <1>3 DEF Lent
  <1> QED  BY <1>3, <1>4, <1>5 DEF Lent

(* A step that fails leads to the last one.                                *)
LEMMA LentFail ==
    ASSUME TypeOK, Lent, NEW what, At(what), what # "set", Fail,
           UNCHANGED <<getDevicesP, listed, cmdConfirmationArray>>
    PROVE  Lent'
  <1>1. SUFFICES ASSUME call.op = "GetDevices" PROVE Lent'
    BY DEF Lent, Fail, TypeOK, Position
  <1>2. PICK k : k = call.k
    OBVIOUS
  <1>3. k \in 2 .. Slots + 3 /\ Slots \in Nat /\ Step.fail = Slots + 4
    BY <1>1, <1>2, DevicesAt
  <1>4. call'.k = Slots + 4 /\ call'.ok = FALSE
    BY <1>3 DEF Fail, TypeOK, Position
  <1>5. getDevicesP # "NULL"
    BY <1>1, <1>2, <1>3 DEF Lent
  <1> QED  BY <1>3, <1>4, <1>5 DEF Lent

(* A slot is reset.                                                        *)
LEMMA LentClear ==
    ASSUME TypeOK, Lent, ClearSlot, UNCHANGED added PROVE Lent'
  <1>1. SUFFICES ASSUME call.op = "GetDevices" PROVE Lent'
    BY DEF Lent, ClearSlot, Advance, TypeOK, Position
  <1>2. PICK k : k = call.k
    OBVIOUS
  <1>3. PICK i \in 1 .. Slots : k = 2 + i /\ Step.slot = i
    BY <1>1, <1>2, DevicesAt DEF ClearSlot
  <1>4. Slots \in Nat
    BY Tables
  <1>5. call'.k = i + 3 /\ call'.ok = call.ok
    BY <1>2, <1>3, <1>4 DEF ClearSlot, Advance, TypeOK, Position
  <1>6. UNCHANGED <<getDevicesP, listed>>
    BY DEF added
  <1>7. getDevicesP # "NULL"
    BY <1>1, <1>2, <1>3, <1>4 DEF Lent
  <1>8. /\ cmdConfirmationArray' = [cmdConfirmationArray EXCEPT ![i] = Free]
        /\ DOMAIN cmdConfirmationArray = 1 .. Slots
    BY <1>3 DEF ClearSlot, TypeOK
  <1>9. ~List(i)'
    BY <1>3, <1>8 DEF List, Free, CNFINVALID
  <1>10. \A s \in 1 .. Slots : s # i => (List(s)' <=> List(s))
    BY <1>8 DEF List
  <1>11. call.ok => \A s \in 1 .. Slots : s < i /\ List(s) => listed # {}
    BY <1>1, <1>2, <1>3, <1>4 DEF Lent
  <1>12. \A s \in 1 .. Slots : s + 2 < i + 3 => s < i \/ s = i
    BY <1>3, <1>4
  <1>13. \A s \in 1 .. Slots : (s + 2 < call.k)' => s < i \/ s = i
    BY <1>5, <1>12
  <1>14. call'.ok => \A s \in 1 .. Slots : (s + 2 < call.k)' /\ List(s)' => listed' # {}
    BY <1>5, <1>6, <1>9, <1>10, <1>11, <1>13
  <1>15. ~(call'.k > Slots + 3)
    BY <1>3, <1>4, <1>5
  <1> QED  BY <1>6, <1>7, <1>14, <1>15 DEF Lent

(* Wait4CNF finds the list.                                                *)
LEMMA LentConfirmed ==
    ASSUME TypeOK, Lent, Confirmed, UNCHANGED added PROVE Lent'
  <1>1. At("wait") /\ UNCHANGED <<getDevicesP, listed, cmdConfirmationArray>>
    BY DEF Confirmed, driver, added
  <1>2. CASE Fail
    BY <1>1, <1>2, LentFail
  <1>3. CASE Advance /\ cmdConfirmationArray[call.slot].status = Step.status
    <2>1. SUFFICES ASSUME call.op = "GetDevices" PROVE Lent'
      BY <1>3 DEF Lent, Advance, TypeOK, Position
    <2>2. PICK k : k = call.k
      OBVIOUS
    <2>3. /\ k = Slots + 3 /\ Step.cmd = "GETDEVICES_CNF" /\ Step.status = "Success"
          /\ Slots \in Nat
      BY <1>1, <2>1, <2>2, DevicesAt
    <2>4. call'.k = Slots + 4 /\ call'.ok = call.ok
      BY <1>3, <2>2, <2>3 DEF Advance, TypeOK, Position
    <2>5. PICK s \in 1 .. Slots : s = call.slot
      BY DEF TypeOK, Position
    <2>6. List(s) /\ s + 2 < k
      BY <1>3, <2>3, <2>5 DEF Confirmed, Matches, List
    <2>7. call.ok => listed # {}
      BY <2>1, <2>2, <2>3, <2>5, <2>6 DEF Lent
    <2>8. getDevicesP # "NULL"
      BY <2>1, <2>2, <2>3 DEF Lent
    <2> QED  BY <1>1, <2>3, <2>4, <2>7, <2>8 DEF Lent
  <1> QED  BY <1>2, <1>3 DEF Confirmed

(* GetDevices lends its structure first, and takes it back last.           *)
LEMMA LentSet == TypeOK /\ Lent /\ SetP3 => Lent'
  <1> SUFFICES ASSUME TypeOK, Lent, SetP3 PROVE Lent'
    OBVIOUS
  <1>1. PICK what \in {"set", "pin"} : At(what)
    BY DEF SetP3, SetState
  <1>2. call'.op = call.op /\ call'.k = call.k + 1 /\ call'.ok = call.ok
        /\ cmdConfirmationArray' = cmdConfirmationArray
    BY DEF SetP3, SetState, Advance, driver, TypeOK, Position
  <1>3. SUFFICES ASSUME call.op = "GetDevices" PROVE Lent'
    BY <1>2 DEF Lent
  <1>4. PICK k : k = call.k
    OBVIOUS
  <1>5. /\ \/ k = 1 /\ Step.status = "devicesP"
           \/ k = Slots + 4 /\ Step.status = "NULL"
        /\ Slots \in Nat /\ Slots > 0
    <2>1. CASE what = "set"
      BY <1>1, <1>3, <1>4, <2>1, DevicesAt
    <2>2. CASE what = "pin"
      BY <1>1, <1>3, <1>4, <2>2, DevicesAt
    <2> QED  BY <2>1, <2>2
  <1>6. CASE k = 1
    <2>1. getDevicesP' = "caller" /\ Step.status = "devicesP"
      BY <1>5, <1>6 DEF SetP3
    <2>2. call'.k = 2
      BY <1>2, <1>4, <1>6
    <2>3. \A i \in 1 .. Slots : ~(i + 2 < 2)
      BY <1>5
    <2> QED  BY <1>5, <2>1, <2>2, <2>3 DEF Lent
  <1>7. CASE k = Slots + 4
    <2>1. listed' = listed /\ call'.k = Slots + 5
      BY <1>2, <1>4, <1>5, <1>7 DEF SetP3
    <2>2. call.ok => listed # {}
      BY <1>3, <1>4, <1>5, <1>7 DEF Lent
    <2>3. ~(Slots + 5 <= Slots + 4)
      BY <1>5
    <2> QED  BY <1>2, <2>1, <2>2, <2>3 DEF Lent
  <1> QED  BY <1>5, <1>6, <1>7

(* Where a list comes from that has reached a slot.                        *)
LEMMA ListStored ==
    ASSUME TypeOK, NEW f, f = Head(line), Store(f), NEW i \in 1 .. Slots, List(i)'
    PROVE  List(i) \/ (f.cmd = "GETDEVICES_CNF" /\ f.status = "Success")
  <1>1. \/ cmdConfirmationArray'[i] = cmdConfirmationArray[i]
        \/ cmdConfirmationArray'[i] = Free
        \/ cmdConfirmationArray'[i]
             = [cmd |-> f.cmd, status |-> RecordedStatus(f), req |-> f.req]
    BY DEF Store
  <1>2. CASE cmdConfirmationArray'[i] = cmdConfirmationArray[i]
    BY <1>2 DEF List
  <1>3. CASE cmdConfirmationArray'[i] = Free
    BY <1>3 DEF List, Free, CNFINVALID
  <1>4. CASE cmdConfirmationArray'[i]
               = [cmd |-> f.cmd, status |-> RecordedStatus(f), req |-> f.req]
    BY <1>4 DEF List, RecordedStatus
  <1> QED  BY <1>1, <1>2, <1>3, <1>4

(* A frame arrives.                                                        *)
LEMMA LentReceive == TypeOK /\ Lent /\ ReceiveP3 => Lent'
  <1> SUFFICES ASSUME TypeOK, Lent, ReceiveP3 PROVE Lent'
    OBVIOUS
  <1>1. call' = call /\ getDevicesP' = getDevicesP
    BY DEF ReceiveP3, HandleRxPacket
  <1>2. CASE ~uartOpen
    <2>1. UNCHANGED <<listed, cmdConfirmationArray>>
      BY <1>2 DEF ReceiveP3, HandleRxPacket
    <2> QED  BY <1>1, <2>1 DEF Lent, List
  <1>3. CASE uartOpen
    <2>1. PICK f : f = Head(line)
      OBVIOUS
    <2>2. Store(f) /\ listed' = IF Lists(f) THEN {f.req} ELSE listed
      BY <1>3, <2>1 DEF ReceiveP3, HandleRxPacket
    <2>3. listed # {} => listed' # {}
      BY <2>2
    <2>4. SUFFICES ASSUME call.op = "GetDevices", call.k >= 2, call.ok,
                          call.k <= Slots + 4, NEW i \in 1 .. Slots,
                          i + 2 < call.k, List(i)'
                   PROVE  listed' # {}
      BY <1>1, <2>3 DEF Lent
    <2>5. CASE List(i)
      BY <2>3, <2>4, <2>5 DEF Lent
    <2>6. CASE f.cmd = "GETDEVICES_CNF" /\ f.status = "Success"
      <3>1. Lists(f)
        BY <2>4, <2>6 DEF Lent, Lists
      <3> QED  BY <2>2, <3>1
    <2> QED  BY <2>1, <2>2, <2>4, <2>5, <2>6, ListStored
  <1> QED  BY <1>2, <1>3

(* Every step of the driver.                                               *)
LEMMA LentStep == TypeOK /\ Lent /\ [NextP3]_allVars => Lent'
  <1> SUFFICES ASSUME TypeOK, Lent, [NextP3]_allVars PROVE Lent'
    OBVIOUS
  <1>1. CASE StartP3
    <2>1. call'.k = 1
      BY <1>1 DEF StartP3, Start, Idle
    <2> QED  BY <2>1 DEF Lent
  <1>2. CASE PlainStep
    <2>1. UNCHANGED <<getDevicesP, listed>>
      BY <1>2 DEF PlainStep, added
    <2>2. CASE Fault \/ GiveUp
      BY <2>1, <2>2, LentFail DEF Fault, GiveUp, driver
    <2>3. CASE Transmit
      BY <2>1, <2>3, LentAdvance DEF Transmit, driver
    <2>4. CASE ClearSlot
      BY <1>2, <2>4, LentClear DEF PlainStep
    <2>5. CASE Confirmed
      BY <1>2, <2>5, LentConfirmed DEF PlainStep
    <2>6. CASE NextSlot \/ Delay
      <3>1. call'.op = call.op /\ call'.k = call.k /\ call'.ok = call.ok
        BY <2>6 DEF NextSlot, Delay, TypeOK, Position
      <3>2. UNCHANGED cmdConfirmationArray
        BY <2>6 DEF NextSlot, Delay, driver
      <3> QED  BY <2>1, <3>1, <3>2 DEF Lent, List
    <2>7. CASE ReadPacket \/ OpenUart \/ CloseUart
      BY <2>1, <2>7, LentAdvance DEF ReadPacket, OpenUart, CloseUart, driver
    <2>8. CASE CheckPacket
      BY <2>1, <2>8, LentAdvance, LentFail DEF CheckPacket, driver
    <2>9. CASE Finish
      <3>1. call'.op # "GetDevices"
        BY <2>9 DEF Finish, Idle, NoOp
      <3> QED  BY <3>1 DEF Lent
    <2> QED  BY <1>2, <2>2, <2>3, <2>4, <2>5, <2>6, <2>7, <2>8, <2>9 DEF PlainStep
  <1>3. CASE SetP3
    BY <1>3, LentSet
  <1>4. CASE HoldP3
    BY <1>4, LentAdvance DEF HoldP3, HoldInReset, driver
  <1>5. CASE TestP3
    BY <1>5, LentAdvance, LentFail DEF TestP3, TestState, driver, added
  <1>6. CASE ReceiveP3
    BY <1>6, LentReceive
  <1>7. CASE LoseP3 \/ ModuleP3 \/ UNCHANGED allVars
    <2>1. UNCHANGED <<call, getDevicesP, listed, cmdConfirmationArray>>
      BY <1>7 DEF LoseP3, LoseFrame, ModuleP3, AnswerP3, Answer, EmitP3, Emit, LinkEvent,
                  OtherIndication, Indicate, RestartP3, Restart, allVars, vars, added, driver
    <2> QED  BY <2>1 DEF Lent, List
  <1> QED  BY <1>1, <1>2, <1>3, <1>4, <1>5, <1>6, <1>7 DEF NextP3, MainP3

(* A call of GetDevices that returns true leaves a list behind.            *)
LEMMA FilledStep ==
    TypeOK /\ Lent /\ DevicesFilled /\ [NextP3]_allVars => DevicesFilled'
  <1> SUFFICES ASSUME TypeOK, Lent, DevicesFilled, [NextP3]_allVars PROVE DevicesFilled'
    OBVIOUS
  <1>1. CASE PlainStep /\ Finish
    <2>1. SUFFICES ASSUME call.op = "GetDevices", call.ok PROVE listed # {}
      BY <1>1 DEF PlainStep, Finish, DevicesFilled, added
    <2>2. call.k > Slots + 4 /\ Slots \in Nat /\ call.k \in Nat
      BY <1>1, <2>1, DevicesEnd DEF Finish
    <2>3. call.k >= 2 /\ call.k > Slots + 3
      BY <2>2
    <2> QED  BY <2>1, <2>3 DEF Lent
  <1>2. CASE MainP3 /\ ~(PlainStep /\ Finish)
    <2>1. Running /\ call'.op = call.op
      BY <1>2, RunningOn
    <2> QED  BY <2>1 DEF DevicesFilled, Running
  <1>3. CASE StartP3
    <2>1. PICK op \in Ops : call'.op = op /\ op # NoOp
      BY <1>3, Tables DEF StartP3, Start, Idle, NoOp
    <2> QED  BY <2>1 DEF DevicesFilled, Running
  <1>4. CASE ReceiveP3
    <2>1. UNCHANGED <<call, returned>> /\ (listed # {} => listed' # {})
      BY <1>4 DEF ReceiveP3, HandleRxPacket
    <2> QED  BY <2>1 DEF DevicesFilled, Running
  <1>5. CASE LoseP3 \/ ModuleP3 \/ UNCHANGED allVars
    <2>1. UNCHANGED <<call, returned, listed>>
      BY <1>5 DEF LoseP3, LoseFrame, ModuleP3, AnswerP3, Answer, EmitP3, Emit, LinkEvent,
                  OtherIndication, Indicate, RestartP3, Restart, allVars, vars, added
    <2> QED  BY <2>1 DEF DevicesFilled, Running
  <1> QED
    BY <1>1, <1>2, <1>3, <1>4, <1>5 DEF NextP3, MainP3

(* GetDevices returns true only with a structure that was filled during    *)
(* this call, whatever was in cmdConfirmationArray before, whenever the    *)
(* list comes, and whatever is lost or fails.                              *)
THEOREM DevicesAreFilled == SpecP3 => []DevicesFilled
  <1>1. InitP3 => Lent /\ DevicesFilled
    <2> SUFFICES ASSUME InitP3 PROVE Lent /\ DevicesFilled
      OBVIOUS
    <2>1. call.op = "none" /\ returned.op = "none"
      BY DEF InitP3, Init, Idle, NoOp
    <2> QED  BY <2>1 DEF Lent, DevicesFilled
  <1>2. TypeOK /\ Lent /\ DevicesFilled /\ [NextP3]_allVars => Lent' /\ DevicesFilled'
    BY LentStep, FilledStep
  <1>3. SpecP3 => []TypeOK
    BY Implements, TypeCorrect, PTL
  <1> QED  BY <1>1, <1>2, <1>3, PTL DEF SpecP3

(* Strengthening of DevicesOwn: it holds as soon as the structure is lent. *)
Owned == call.op = "GetDevices" /\ call.k >= 2 => listed \subseteq asked

(* What comes for the structure comes for the running call.                *)
LEMMA ListIsOwn ==
    ASSUME Timely, Inv, PointerHeld, line # <<>>, NEW f, f = Head(line), Lists(f)
    PROVE  f.req \in asked
  <1>1. Serial /\ TypeOK
    BY SerialAssumption DEF Inv
  <1>2. PICK op, k, steps : op = call.op /\ k = call.k /\ steps = Script[op]
    OBVIOUS
  <1>3. op = "GetDevices" /\ op \in Ops /\ Running
    BY <1>1, <1>2 DEF PointerHeld, Lists, TypeOK, Position, NoOp, Running
  <1>4. f.cmd \in Recorded
    <2>1. PICK w : w = Slots + 3 /\ w \in DOMAIN steps
      BY <1>2, <1>3, GetDevicesScript, GetDevicesSteps, Tables
    <2>2. steps[w].do = "wait" /\ steps[w].cmd = "GETDEVICES_CNF"
      BY <1>2, <1>3, <2>1, GetDevicesScript, GetDevicesSteps
    <2>3. OneAtATime(steps) /\ DOMAIN steps = 1 .. Len(steps) /\ Len(steps) \in Nat
      BY <1>1, <1>2, <1>3, SerialTables
    <2>4. PICK h \in 1 .. w - 1 : Pending(steps, h, w) /\ Expects(steps, h, w)
      BY <2>1, <2>2, <2>3 DEF OneAtATime
    <2>5. h \in DOMAIN steps
      BY <2>1, <2>3, <2>4
    <2>6. Distinct(steps[h].cmd)
      BY <2>3, <2>4, <2>5 DEF OneAtATime, Pending
    <2>7. PICK yes, n : /\ yes = Reply[steps[h].cmd].yes /\ n \in DOMAIN yes
                        /\ yes[n].cmd = "GETDEVICES_CNF"
      BY <2>2, <2>4 DEF Expects
    <2>8. yes[n].cmd \in Recorded
      BY <2>6, <2>7 DEF Distinct
    <2> QED  BY <2>7, <2>8 DEF Lists
  <1>5. line \in Seq(Frame) /\ 1 \in DOMAIN line /\ f = line[1]
    BY <1>1 DEF TypeOK
  <1>6. ~Unsolicited(f)
    BY <1>4 DEF Unsolicited
  <1>7. ~Quiet
    BY <1>5, <1>6 DEF Quiet
  <1>8. PICK h : call.ok /\ Pending(steps, h, k)
    BY <1>1, <1>2, <1>7, Somebody
  <1>9. UnderWay(steps, h, k) /\ requests \in asked
    BY <1>1, <1>2, <1>3, <1>8, WhileUnderWay
  <1>10. PICK frames, i, j : Answered(steps, h, k, frames, i, j)
    BY <1>5, <1>6, <1>9 DEF UnderWay, Unread
  <1>11. PICK m : OfPart(f, frames[m])
    BY <1>5, <1>6, <1>10 DEF Answered, Flight
  <1> QED  BY <1>9, <1>11 DEF OfPart

(* What GetDevices has begun to fill is not given up.                      *)
LEMMA OwnedMain ==
    ASSUME TypeOK, Owned, MainP3, ~(PlainStep /\ Finish) PROVE Owned' /\ Running'
  <1>1. Running /\ call'.op = call.op /\ Running'
    BY RunningOn DEF Running
  <1>2. SUFFICES ASSUME call.op = "GetDevices" PROVE Owned'
    BY <1>1 DEF Owned
  <1>3. PICK k : k = call.k
    OBVIOUS
  <1>4. asked \subseteq asked'
    BY DEF MainP3, PlainStep, HoldP3, TestP3, SetP3, Fault, Transmit, ClearSlot, Confirmed,
           NextSlot, Delay, GiveUp, ReadPacket, CheckPacket, OpenUart, CloseUart, Finish,
           HoldInReset, TestState, SetState, history
  <1>5. CASE SetP3
    <2>1. PICK what \in {"set", "pin"} : At(what)
      BY <1>5 DEF SetP3, SetState
    <2>2. k = 1 => Step.status = "devicesP"
      <3>1. CASE what = "set"
        BY <1>2, <1>3, <2>1, <3>1, DevicesAt
      <3>2. CASE what = "pin"
        BY <1>2, <1>3, <2>1, <3>2, DevicesAt
      <3> QED  BY <3>1, <3>2
    <2>3. k \in Nat /\ k >= 1
      BY <1>3 DEF TypeOK, Position
    <2>4. CASE Step.status = "devicesP"
      BY <1>5, <2>4 DEF SetP3, Owned
    <2>5. CASE Step.status # "devicesP"
      <3>1. k >= 2 /\ listed' = listed
        BY <1>5, <2>2, <2>3, <2>5 DEF SetP3
      <3> QED  BY <1>2, <1>3, <1>4, <3>1 DEF Owned
    <2> QED  BY <2>4, <2>5
  <1>6. CASE ~SetP3
    <2>1. listed' = listed
      BY <1>6 DEF MainP3, PlainStep, HoldP3, TestP3, added
    <2>2. CASE call'.k = call.k
      BY <1>1, <1>4, <2>1, <2>2 DEF Owned
    <2>3. CASE call'.k # call.k
      <3>1. PICK what : At(what) /\ what # "set"
        <4>1. ~(NextSlot \/ Delay)
          BY <2>3 DEF NextSlot, Delay, TypeOK, Position
        <4>2. CASE PlainStep
          <5>1. PICK what \in {"send", "pin", "hold", "open", "close", "clear", "wait",
                               "read", "check"} : At(what)
            BY <4>1, <4>2 DEF PlainStep, Fault, Transmit, ClearSlot, Confirmed, GiveUp,
                              ReadPacket, CheckPacket, OpenUart, CloseUart
          <5> QED  BY <5>1
        <4>3. CASE HoldP3
          BY <4>3 DEF HoldP3, HoldInReset
        <4>4. CASE TestP3
          BY <4>4 DEF TestP3, TestState
        <4> QED  BY <1>6, <4>2, <4>3, <4>4 DEF MainP3
      <3>2. k >= 2
        BY <1>2, <1>3, <3>1, DevicesAt
      <3> QED  BY <1>2, <1>3, <1>4, <2>1, <3>2 DEF Owned
    <2> QED  BY <2>2, <2>3
  <1> QED  BY <1>5, <1>6

(* Every step of the driver, with a module that answers in time.           *)
LEMMA OwnedStep ==
    ASSUME Timely
    PROVE  Inv /\ PointerHeld /\ Owned /\ DevicesOwn /\ [NextP3]_allVars
             => Owned' /\ DevicesOwn'
  <1> SUFFICES ASSUME Inv, PointerHeld, Owned, DevicesOwn, [NextP3]_allVars
               PROVE  Owned' /\ DevicesOwn'
    OBVIOUS
  <1>1. TypeOK
    BY DEF Inv
  <1>2. CASE StartP3
    <2>1. PICK op \in Ops : call'.op = op /\ op # NoOp /\ call'.k = 1
      BY <1>2, Tables DEF StartP3, Start, Idle, NoOp
    <2> QED  BY <2>1 DEF Owned, DevicesOwn, Running
  <1>3. CASE PlainStep /\ Finish
    <2>1. call'.op = NoOp /\ UNCHANGED <<listed, asked>> /\ returned'.op = call.op
      BY <1>3 DEF PlainStep, Finish, Idle, added, history
    <2>2. call.op = "GetDevices" => listed \subseteq asked
      <3> SUFFICES ASSUME call.op = "GetDevices" PROVE listed \subseteq asked
        OBVIOUS
      <3>1. call.k > Slots + 4 /\ Slots \in Nat /\ call.k \in Nat
        BY <1>1, <1>3, DevicesEnd DEF Finish
      <3>2. call.k >= 2
        BY <3>1
      <3> QED  BY <3>2 DEF Owned
    <2> QED  BY <2>1, <2>2 DEF Owned, DevicesOwn, NoOp
  <1>4. CASE MainP3 /\ ~(PlainStep /\ Finish)
    BY <1>1, <1>4, OwnedMain DEF DevicesOwn
  <1>5. CASE ReceiveP3
    <2>1. UNCHANGED <<call, returned, asked>> /\ line # <<>>
      BY <1>5 DEF ReceiveP3, HandleRxPacket, history
    <2>2. CASE listed' = listed
      BY <2>1, <2>2 DEF Owned, DevicesOwn, Running
    <2>3. CASE listed' # listed
      <3>1. PICK f : f = Head(line)
        OBVIOUS
      <3>2. Lists(f) /\ listed' = {f.req}
        BY <1>5, <2>3, <3>1 DEF ReceiveP3
      <3>3. f.req \in asked
        BY <2>1, <3>1, <3>2, ListIsOwn
      <3> QED  BY <2>1, <3>2, <3>3 DEF Owned, DevicesOwn
    <2> QED  BY <2>2, <2>3
  <1>6. CASE LoseP3 \/ ModuleP3 \/ UNCHANGED allVars
    <2>1. UNCHANGED <<call, returned, listed, asked>>
      BY <1>6 DEF LoseP3, LoseFrame, ModuleP3, AnswerP3, Answer, EmitP3, Emit, LinkEvent,
                  OtherIndication, Indicate, RestartP3, Restart, allVars, vars, added, history
    <2> QED  BY <2>1 DEF Owned, DevicesOwn, Running
  <1> QED  BY <1>2, <1>3, <1>4, <1>5, <1>6 DEF NextP3, MainP3

(* With a module that answers in time, GetDevices never leaves its caller  *)
(* the answer to an earlier call.                                          *)
THEOREM DevicesAreOwn ==
    ASSUME Timely PROVE SpecP3 => []DevicesOwn
  <1>1. InitP3 => PointerHeld /\ Owned /\ DevicesOwn
    <2> SUFFICES ASSUME InitP3 PROVE PointerHeld /\ Owned /\ DevicesOwn
      OBVIOUS
    <2>1. call.op = "none" /\ returned.op = "none" /\ getDevicesP = "NULL"
      BY DEF InitP3, Init, Idle, NoOp
    <2> QED  BY <2>1 DEF PointerHeld, Owned, DevicesOwn
  <1>2. Inv /\ PointerHeld /\ Owned /\ DevicesOwn /\ [NextP3]_allVars
          => PointerHeld' /\ Owned' /\ DevicesOwn'
    BY PointerStep, OwnedStep DEF Inv
  <1>3. Spec => []Inv
    BY SerialAssumption, Invariance
  <1> QED  BY <1>1, <1>2, <1>3, Implements, PTL DEF SpecP3

-----------------------------------------------------------------------------
(* The state of the link.                                                  *)

(* The frames that change bleState, and what they make of it.              *)
Tells(f) ==
    \/ f.cmd \in {"CHANNELOPEN_RSP", "DISCONNECT_IND"}
    \/ f.cmd = "CONNECT_IND" /\ f.status = "Success"
    \/ f.cmd = "GETSTATE_CNF" /\ f.data = "Idle"
Told(f) ==
    IF f.cmd = "CHANNELOPEN_RSP" THEN "ChannelOpen"
    ELSE IF f.cmd = "CONNECT_IND" THEN "Connected" ELSE "Idle"

(* When the frames s have been handled, a state b will have become m.      *)
Becomes(s, b, m) ==
    /\ \A x \in DOMAIN s :
         Tells(s[x]) /\ (\A y \in DOMAIN s : y > x => ~Tells(s[y])) => Told(s[x]) = m
    /\ (\A x \in DOMAIN s : ~Tells(s[x])) => b = m

(* Strengthening of LinkAgrees: it will agree when the line is empty, or   *)
(* the module has still to report that it has no link.                     *)
Following ==
    ready /\ uartOpen =>
        (AboutState /\ mode = "Idle") \/ Becomes(line, bleState, Known(mode))

(* Nothing in the module or on the line speaks of a link.                  *)
Cold ==
    /\ mode = "Idle"
    /\ \A x \in DOMAIN inbox : inbox[x].cmd # "DTMSTART_REQ"
    /\ \A x \in DOMAIN line : Tells(line[x]) => Told(line[x]) = "Idle"

(* Init: after the reset the module is cold, and bleState says so in time. *)
Starting ==
    Running /\ call.op \in Opening =>
        /\ ~ready
        /\ call.ok =>
             /\ call.k <= Length + 1
             /\ ~Past(Script[call.op], call.k, "return")
             /\ Past(Script[call.op], call.k, "hold") => Cold
             /\ ResetBefore(Script[call.op], call.k) => bleState = "Idle"

LinkInv == Linkless(outbox) /\ Following /\ Starting

(* Under which the driver knows of its link: the module is not slow, sends *)
(* no frame that is lost, and has no link before Init has returned; Init   *)
(* resets it by its pin, and nobody does afterwards.                       *)
Undisturbed ==
    /\ ~LateAnswers /\ ~EarlyLinks /\ MaxFaults = 0
    /\ {"InitByUart", "PinReset"} \cap Ops = {}

(* A frame that tells of the link has the last word.                       *)
LEMMA BecomesTold ==
    ASSUME NEW s \in Seq(Frame), NEW b, NEW f \in Frame, Tells(f)
    PROVE  Becomes(Append(s, f), b, Told(f))
  <1> DEFINE n == Len(s) + 1
             t == Append(s, f)
  <1>1. n \in Nat /\ DOMAIN t = 1 .. n /\ t[n] = f /\ n \in DOMAIN t
    OBVIOUS
  <1>2. \A x \in 1 .. n : x # n => n > x
    BY <1>1
  <1> HIDE DEF t, n
  <1>3. Becomes(t, b, Told(f))
    BY <1>1, <1>2 DEF Becomes
  <1> QED  BY <1>3 DEF t

(* One that does not changes nothing.                                      *)
LEMMA BecomesStill ==
    ASSUME NEW s \in Seq(Frame), NEW b, NEW m, NEW f \in Frame, ~Tells(f),
           Becomes(s, b, m)
    PROVE  Becomes(Append(s, f), b, m)
  <1> DEFINE n == Len(s) + 1
             t == Append(s, f)
  <1>1. /\ n \in Nat /\ DOMAIN s = 1 .. n - 1 /\ DOMAIN t = 1 .. n /\ t[n] = f
        /\ \A x \in 1 .. n - 1 : t[x] = s[x]
    OBVIOUS
  <1>2. \A x \in 1 .. n : x = n \/ x \in 1 .. n - 1
    BY <1>1
  <1>3. \A x \in 1 .. n - 1 : x \in 1 .. n
    BY <1>1
  <1> HIDE DEF t, n
  <1>4. ASSUME NEW x \in DOMAIN t, Tells(t[x]),
               \A y \in DOMAIN t : y > x => ~Tells(t[y])
        PROVE  Told(t[x]) = m
    <2>1. x \in 1 .. n - 1 /\ t[x] = s[x]
      BY <1>1, <1>2, <1>4
    <2>2. \A y \in DOMAIN s : y > x => ~Tells(s[y])
      BY <1>1, <1>3, <1>4
    <2> QED  BY <1>1, <2>1, <2>2, <1>4 DEF Becomes
  <1>5. (\A x \in DOMAIN t : ~Tells(t[x])) => b = m
    BY <1>1, <1>3 DEF Becomes
  <1>6. Becomes(t, b, m)
    BY <1>4, <1>5 DEF Becomes
  <1> QED  BY <1>6 DEF t

(* To handle the first frame is a step on the way.                         *)
LEMMA BecomesTail ==
    ASSUME NEW s \in Seq(Frame), s # <<>>, NEW b, NEW m, Becomes(s, b, m)
    PROVE  Becomes(Tail(s), IF Tells(Head(s)) THEN Told(Head(s)) ELSE b, m)
  <1> DEFINE n == Len(s)
             t == Tail(s)
             c == IF Tells(Head(s)) THEN Told(Head(s)) ELSE b
  <1>1. /\ n \in Nat /\ n >= 1 /\ DOMAIN s = 1 .. n /\ Head(s) = s[1]
        /\ DOMAIN t = 1 .. n - 1 /\ \A x \in 1 .. n - 1 : t[x] = s[x + 1]
    OBVIOUS
  <1>2. \A y \in 1 .. n : y = 1 \/ (y - 1 \in 1 .. n - 1 /\ t[y - 1] = s[y])
    <2>1. \A y \in 1 .. n : y # 1 => y - 1 \in 1 .. n - 1 /\ (y - 1) + 1 = y
      BY <1>1
    <2> QED  BY <1>1, <2>1
  <1>3. \A x \in 1 .. n - 1 : x + 1 \in 1 .. n
    BY <1>1
  <1> HIDE DEF t, n
  <1>4. ASSUME NEW x \in DOMAIN t, Tells(t[x]),
               \A y \in DOMAIN t : y > x => ~Tells(t[y])
        PROVE  Told(t[x]) = m
    <2>1. x \in 1 .. n - 1 /\ x + 1 \in DOMAIN s /\ t[x] = s[x + 1]
      BY <1>1, <1>3
    <2>2. ASSUME NEW y \in DOMAIN s, y > x + 1 PROVE ~Tells(s[y])
      <3>1. y # 1 /\ y - 1 > x
        BY <1>1, <2>1, <2>2
      <3>2. y - 1 \in DOMAIN t /\ t[y - 1] = s[y]
        BY <1>1, <1>2, <3>1
      <3>3. PICK z : z = y - 1
        OBVIOUS
      <3> QED  BY <3>1, <3>2, <3>3, <1>4
    <2> QED  BY <2>1, <2>2, <1>4 DEF Becomes
  <1>5. ASSUME \A x \in DOMAIN t : ~Tells(t[x]) PROVE c = m
    <2>1. ASSUME NEW y \in DOMAIN s, y # 1 PROVE ~Tells(s[y])
      <3>1. PICK z : z = y - 1
        OBVIOUS
      <3> QED  BY <1>1, <1>2, <1>5, <2>1, <3>1
    <2>2. CASE Tells(s[1])
      <3>1. 1 \in DOMAIN s /\ \A y \in DOMAIN s : y > 1 => ~Tells(s[y])
        BY <1>1, <2>1
      <3> QED  BY <1>1, <2>2, <3>1 DEF Becomes
    <2>3. CASE ~Tells(s[1])
      <3>1. \A y \in DOMAIN s : ~Tells(s[y])
        BY <2>1, <2>3
      <3> QED  BY <1>1, <2>3, <3>1 DEF Becomes
    <2> QED  BY <2>2, <2>3
  <1> HIDE DEF c
  <1>6. Becomes(t, c, m)
    BY <1>4, <1>5 DEF Becomes
  <1> QED  BY <1>6 DEF t, c

(* What HandleRxPacket makes of a frame.                                   *)
LEMMA AfterFrame ==
    ASSUME NEW f
    PROVE  StateAfter(f) = IF Tells(f) THEN Told(f) ELSE bleState
  <1>1. CASE f.cmd = "GETSTATE_CNF"
    BY <1>1 DEF StateAfter, Tells, Told
  <1>2. CASE f.cmd = "CHANNELOPEN_RSP"
    BY <1>2 DEF StateAfter, Tells, Told
  <1>3. CASE f.cmd = "CONNECT_IND"
    BY <1>3 DEF StateAfter, Tells, Told
  <1>4. CASE f.cmd = "DISCONNECT_IND"
    BY <1>4 DEF StateAfter, Tells, Told
  <1>5. CASE f.cmd \notin {"GETSTATE_CNF", "CHANNELOPEN_RSP", "CONNECT_IND", "DISCONNECT_IND"}
    BY <1>5 DEF StateAfter, Tells, Told
  <1> QED  BY <1>1, <1>2, <1>3, <1>4, <1>5

(* Frames of the module, one after the other.                              *)
LEMMA LinklessPair ==
    ASSUME NEW s \in Seq(Frame), NEW t \in Seq(Frame), Linkless(s), Linkless(t)
    PROVE  Linkless(s \o t)
  <1> DEFINE u == s \o t
             n == Len(s)
             m == Len(t)
  <1>1. /\ n \in Nat /\ m \in Nat /\ DOMAIN u = 1 .. n + m
        /\ DOMAIN s = 1 .. n /\ DOMAIN t = 1 .. m
        /\ \A x \in 1 .. n + m : u[x] = IF x <= n THEN s[x] ELSE t[x - n]
    OBVIOUS
  <1>2. \A x \in 1 .. n + m : IF x <= n THEN x \in 1 .. n ELSE x - n \in 1 .. m
    BY <1>1
  <1> HIDE DEF u, n, m
  <1>3. ASSUME NEW x \in 1 .. n + m
        PROVE  u[x].cmd \notin {"CONNECT_IND", "CHANNELOPEN_RSP", "DISCONNECT_IND"}
    <2>1. PICK z : z = x - n
      OBVIOUS
    <2> QED  BY <1>1, <1>2, <2>1 DEF Linkless
  <1> QED  BY <1>1, <1>3 DEF Linkless, u

LEMMA LinklessTagged ==
    ASSUME NEW frames \in Seq(PartType), NEW req
    PROVE  /\ Linkless(frames) => Linkless(Tagged(frames, req))
           /\ Starts(frames) => Starts(Tagged(frames, req))
BY DEF Linkless, Starts, Tagged

(* The functions that may run while the driver is undisturbed.             *)
LEMMA LinkTables ==
    ASSUME Undisturbed, NEW op \in Ops
    PROVE  /\ op \in Opening => ResetsFirst(op)
           /\ op \notin Opening => LeavesLink(op)
BY LinkAssumption DEF Undisturbed

(* A step of a function, as far as the invariant sees it.                  *)
LEMMA StartingOn ==
    ASSUME TypeOK, Undisturbed, Starting, NEW what, At(what), what # "return",
           Advance \/ Fail, ready' = ready, Cold => Cold',
           what = "hold" => Cold', bleState' \in {bleState, "Idle"},
           what = "set" /\ Step.status = "Initial" => bleState' = "Idle"
    PROVE  Starting'
  <1> SUFFICES ASSUME call'.op \in Opening
               PROVE  /\ ~ready'
                      /\ call'.ok =>
                           /\ call'.k <= Len(Script[call'.op]) + 1
                           /\ ~Past(Script[call'.op], call'.k, "return")
                           /\ Past(Script[call'.op], call'.k, "hold") => Cold'
                           /\ ResetBefore(Script[call'.op], call'.k) => bleState' = "Idle"
    BY DEF Starting, Length
  <1>1. call \in Position /\ call'.op = call.op /\ Running
    BY DEF TypeOK, Advance, Fail, Position, At
  <1>2. /\ ~ready'
        /\ call.ok =>
             /\ ~Past(Script[call.op], call.k, "return")
             /\ Past(Script[call.op], call.k, "hold") => Cold
             /\ ResetBefore(Script[call.op], call.k) => bleState = "Idle"
    BY <1>1 DEF Starting
  <1>3. CASE Fail
    <2>1. ~call'.ok
      BY <1>1, <1>3 DEF Fail, Position
    <2> QED  BY <1>2, <2>1
  <1>4. CASE Advance
    <2>1. PICK k, steps : k = call.k /\ steps = Script[call.op]
      OBVIOUS
    <2>2. /\ k \in 1 .. Len(steps) /\ steps[k].do = what /\ steps[k] = Step
          /\ Len(steps) \in Nat
      BY <2>1, AtStep DEF Step
    <2>3. call'.k = k + 1 /\ call'.ok = call.ok
      BY <1>1, <1>4, <2>1 DEF Advance, Position
    <2>4. \A y \in 1 .. (k + 1) - 1 : y = k \/ y \in 1 .. k - 1
      BY <2>2
    <2>5. k + 1 <= Len(steps) + 1
      BY <2>2
    <2>6. ASSUME call.ok PROVE ~Past(steps, k + 1, "return")
      BY <1>2, <2>1, <2>2, <2>4, <2>6 DEF Past
    <2>7. ASSUME call.ok, Past(steps, k + 1, "hold") PROVE Cold'
      <3>1. what = "hold" \/ Past(steps, k, "hold")
        BY <2>2, <2>4, <2>7 DEF Past
      <3> QED  BY <1>2, <2>1, <2>7, <3>1
    <2>8. ASSUME call.ok, ResetBefore(steps, k + 1) PROVE bleState' = "Idle"
      <3>1. PICK x, y \in 1 .. (k + 1) - 1 :
              /\ x < y /\ steps[x].do = "hold"
              /\ steps[y].do = "set" /\ steps[y].status = "Initial"
        BY <2>8 DEF ResetBefore
      <3>2. CASE y = k
        BY <2>2, <3>1, <3>2
      <3>3. CASE y # k
        <4>1. y \in 1 .. k - 1 /\ x \in 1 .. k - 1
          BY <2>2, <2>4, <3>1, <3>3
        <4>2. ResetBefore(steps, k)
          BY <3>1, <4>1 DEF ResetBefore
        <4> QED  BY <1>2, <2>1, <2>8, <4>2
      <3> QED  BY <3>2, <3>3
    <2> QED  BY <1>1, <1>2, <2>1, <2>3, <2>5, <2>6, <2>7, <2>8
  <1> QED  BY <1>3, <1>4

(* Meanwhile the module or the interrupt does something.                   *)
LEMMA StartingStay ==
    ASSUME Starting, UNCHANGED <<call, ready>>, ~ready /\ Cold => Cold',
           ~ready /\ Cold /\ bleState = "Idle" => bleState' = "Idle"
    PROVE  Starting'
  <1>1. ResetBefore(Script[call.op], call.k) => Past(Script[call.op], call.k, "hold")
    BY DEF ResetBefore, Past
  <1> QED  BY <1>1 DEF Starting, Running, Length

(* What concerns the link is left alone.                                   *)
LEMMA LinkStill ==
    ASSUME Linkless(outbox), Following,
           UNCHANGED <<ready, uartOpen, outbox, line, bleState, mode>>
    PROVE  Linkless(outbox)' /\ Following'
BY DEF Following, AboutState

(* Where the driver is not in use there is nothing to know.                *)
LEMMA LinkUnused ==
    ASSUME ~(ready' /\ uartOpen'), Linkless(outbox')
    PROVE  Linkless(outbox)' /\ Following'
BY DEF Following

(* Most steps of the main thread.                                          *)
LEMMA PlainLink ==
    ASSUME TypeOK, Undisturbed, LinkInv, UNCHANGED added,
           Fault \/ ClearSlot \/ Confirmed \/ GiveUp \/ ReadPacket \/ CheckPacket
             \/ (\E holds \in BOOLEAN : TestState(holds))
    PROVE  LinkInv'
  <1>1. UNCHANGED <<ready, uartOpen, outbox, inbox, line, bleState, mode>>
    BY DEF Fault, ClearSlot, Confirmed, GiveUp, ReadPacket, CheckPacket, TestState,
           driver, module, added
  <1>2. Linkless(outbox)' /\ Following'
    BY <1>1, LinkStill DEF LinkInv
  <1>3. Cold => Cold'
    BY <1>1 DEF Cold
  <1>4. PICK what : /\ At(what) /\ what \notin {"return", "hold", "set"}
                    /\ Advance \/ Fail
    <2>1. CASE Fault
      BY <2>1 DEF Fault, Undisturbed, TypeOK
    <2>2. CASE ClearSlot \/ Confirmed \/ GiveUp \/ ReadPacket \/ CheckPacket
      BY <2>2 DEF ClearSlot, Confirmed, GiveUp, ReadPacket, CheckPacket
    <2>3. CASE \E holds \in BOOLEAN : TestState(holds)
      BY <2>3 DEF TestState
    <2> QED  BY <2>1, <2>2, <2>3
  <1>5. Starting'
    BY <1>1, <1>3, <1>4, StartingOn DEF LinkInv
  <1> QED  BY <1>2, <1>5 DEF LinkInv

(* Start.                                                                  *)
LEMMA StartLink == TypeOK /\ LinkInv /\ StartP3 => LinkInv'
  <1> SUFFICES ASSUME TypeOK, LinkInv, NEW op \in Ops, Start(op), UNCHANGED added
               PROVE  LinkInv'
    BY DEF StartP3
  <1>1. UNCHANGED <<ready, uartOpen, outbox, inbox, line, bleState, mode>>
    BY DEF Start, driver, module, added
  <1>2. Linkless(outbox)' /\ Following'
    BY <1>1, LinkStill DEF LinkInv
  <1>3. call'.op = op /\ call'.k = 1 /\ call'.ok
    BY DEF Start, Idle
  <1>4. op \in Opening => ~ready'
    BY <1>1 DEF Start, TypeOK
  <1>5. Len(Script[op]) \in Nat
    BY Tables
  <1>6. /\ 1 <= Len(Script[op]) + 1
        /\ ~Past(Script[op], 1, "return") /\ ~Past(Script[op], 1, "hold")
        /\ ~ResetBefore(Script[op], 1)
    BY <1>5 DEF Past, ResetBefore
  <1>7. Starting'
    BY <1>3, <1>4, <1>6 DEF Starting, Length
  <1> QED  BY <1>2, <1>7 DEF LinkInv

(* The loop of Wait4CNF goes on.                                           *)
LEMMA LoopLink ==
    ASSUME TypeOK, LinkInv, NextSlot \/ Delay, UNCHANGED added
    PROVE  LinkInv'
  <1>1. UNCHANGED <<ready, uartOpen, outbox, inbox, line, bleState, mode>>
    BY DEF NextSlot, Delay, driver, module, added
  <1>2. Linkless(outbox)' /\ Following'
    BY <1>1, LinkStill DEF LinkInv
  <1>3. call \in Position
    BY DEF TypeOK
  <1>4. call'.op = call.op /\ call'.k = call.k /\ call'.ok = call.ok
    BY <1>3 DEF NextSlot, Delay, Position
  <1>5. Cold => Cold'
    BY <1>1 DEF Cold
  <1>6. Starting'
    BY <1>1, <1>4, <1>5 DEF LinkInv, Starting, Running, Length
  <1> QED  BY <1>2, <1>6 DEF LinkInv

(* A request joins the others.                                             *)
LEMMA TransmitLink ==
    ASSUME TypeOK, Undisturbed, LinkInv, Transmit, UNCHANGED added
    PROVE  LinkInv'
  <1>1. UNCHANGED <<ready, uartOpen, outbox, line, bleState, mode>>
    BY DEF Transmit, driver, added
  <1>2. Linkless(outbox)' /\ Following'
    BY <1>1, LinkStill DEF LinkInv
  <1>3. At("send") /\ Advance
    BY DEF Transmit
  <1>4. CASE call.op \in Opening
    <2>1. /\ call.op \in Ops /\ call.k \in DOMAIN Script[call.op]
          /\ Step.cmd # "DTMSTART_REQ"
      BY <1>3, <1>4, AtStep, LinkTables DEF ResetsFirst, Step
    <2>2. ASSUME Cold PROVE Cold'
      <3>1. inbox \in Seq(Message) /\ \A x \in DOMAIN inbox : inbox[x].cmd # "DTMSTART_REQ"
        BY <2>2 DEF TypeOK, Cold
      <3>2. PICK r : r.cmd # "DTMSTART_REQ" /\ inbox' \in {inbox, Append(inbox, r)}
        <4>1. inbox' \in {inbox, Append(inbox, [cmd |-> Step.cmd, req |-> requests'])}
          BY DEF Transmit
        <4> QED  BY <2>1, <4>1
      <3>3. \A x \in DOMAIN inbox' : inbox'[x].cmd # "DTMSTART_REQ"
        <4>1. CASE inbox' = inbox
          BY <3>1, <4>1
        <4>2. CASE inbox' = Append(inbox, r)
          <5>1. /\ DOMAIN inbox' = 1 .. Len(inbox) + 1 /\ DOMAIN inbox = 1 .. Len(inbox)
                /\ Len(inbox) \in Nat
                /\ \A x \in 1 .. Len(inbox) + 1 :
                     inbox'[x] = IF x <= Len(inbox) THEN inbox[x] ELSE r
            BY <3>1, <4>2
          <5> QED  BY <3>1, <3>2, <5>1
        <4> QED  BY <3>2, <4>1, <4>2
      <3> QED  BY <1>1, <2>2, <3>3 DEF Cold
    <2>3. Starting'
      BY <1>1, <1>3, <2>2, StartingOn DEF LinkInv
    <2> QED  BY <1>2, <2>3 DEF LinkInv
  <1>5. CASE call.op \notin Opening
    <2>1. call'.op = call.op
      BY <1>3 DEF Advance, TypeOK, Position
    <2>2. Starting'
      BY <1>5, <2>1 DEF Starting
    <2> QED  BY <1>2, <2>2 DEF LinkInv
  <1> QED  BY <1>4, <1>5

(* Only Init touches reset pin, UART and state; it has not returned.       *)
LEMMA OnlyInit ==
    ASSUME TypeOK, Undisturbed, LinkInv,
           At("hold") \/ At("open")
             \/ ((At("set") \/ At("pin")) /\ Step.status = "Initial")
    PROVE  call.op \in Opening /\ ~ready
  <1>1. PICK what : /\ At(what)
                    /\ what \in {"hold", "open"} \/ Step.status = "Initial"
    OBVIOUS
  <1>2. call.op \in Ops /\ call.k \in DOMAIN Script[call.op] /\ Step.do = what
    BY <1>1, AtStep
  <1>3. call.op \in Opening
    BY <1>1, <1>2, LinkTables DEF LeavesLink, Step
  <1> QED  BY <1>1, <1>3 DEF LinkInv, Starting, At

LEMMA HoldLink == TypeOK /\ Undisturbed /\ LinkInv /\ HoldP3 => LinkInv'
  <1> SUFFICES ASSUME TypeOK, Undisturbed, LinkInv, HoldP3 PROVE LinkInv'
    OBVIOUS
  <1>1. /\ At("hold") /\ Advance /\ line = <<>> /\ inbox' = <<>> /\ outbox' = <<>>
        /\ UNCHANGED <<ready, line, bleState>> /\ mode' = "Idle"
    BY DEF HoldP3, HoldInReset, Undisturbed, driver
  <1>2. ~ready'
    BY <1>1, OnlyInit
  <1>3. Linkless(outbox)' /\ Following'
    <2>1. Linkless(outbox')
      BY <1>1 DEF Linkless
    <2> QED  BY <1>2, <2>1, LinkUnused
  <1>4. Cold'
    BY <1>1 DEF Cold
  <1>5. Starting'
    BY <1>1, <1>4, StartingOn DEF LinkInv
  <1> QED  BY <1>3, <1>5 DEF LinkInv

LEMMA UartLink ==
    ASSUME TypeOK, Undisturbed, LinkInv, OpenUart \/ CloseUart, UNCHANGED added
    PROVE  LinkInv'
  <1>1. /\ UNCHANGED <<ready, outbox, inbox, bleState, mode>>
        /\ line' \in {line, <<>>}
    BY DEF OpenUart, CloseUart, module, added
  <1>2. ~(ready' /\ uartOpen')
    <2>1. CASE OpenUart
      BY <1>1, <2>1, OnlyInit DEF OpenUart
    <2>2. CASE CloseUart
      BY <2>2 DEF CloseUart
    <2> QED  BY <2>1, <2>2
  <1>3. Linkless(outbox)' /\ Following'
    BY <1>1, <1>2, LinkUnused DEF LinkInv
  <1>4. Cold => Cold'
    BY <1>1 DEF Cold
  <1>5. PICK what \in {"open", "close"} : At(what) /\ Advance
    BY DEF OpenUart, CloseUart
  <1>6. Starting'
    BY <1>1, <1>4, <1>5, StartingOn DEF LinkInv
  <1> QED  BY <1>3, <1>6 DEF LinkInv

LEMMA SetLink == TypeOK /\ Undisturbed /\ LinkInv /\ SetP3 => LinkInv'
  <1> SUFFICES ASSUME TypeOK, Undisturbed, LinkInv, SetP3 PROVE LinkInv'
    OBVIOUS
  <1>1. /\ UNCHANGED <<ready, uartOpen, outbox, inbox, line, mode>>
        /\ bleState' = IF Step.status = "Initial" THEN "Idle" ELSE bleState
    BY DEF SetP3, SetState, driver, module
  <1>2. Linkless(outbox)' /\ Following'
    <2>1. CASE Step.status = "Initial"
      <3>1. ~ready' /\ Linkless(outbox')
        BY <1>1, <2>1, OnlyInit DEF SetP3, SetState, LinkInv
      <3> QED  BY <3>1, LinkUnused
    <2>2. CASE Step.status # "Initial"
      BY <1>1, <2>2, LinkStill DEF LinkInv
    <2> QED  BY <2>1, <2>2
  <1>3. Cold => Cold'
    BY <1>1 DEF Cold
  <1>4. PICK what \in {"set", "pin"} : At(what) /\ Advance
    BY DEF SetP3, SetState
  <1>5. Starting'
    BY <1>1, <1>3, <1>4, StartingOn DEF LinkInv
  <1> QED  BY <1>2, <1>5 DEF LinkInv

(* A function returns: after Init, the link is what bleState says.         *)
LEMMA FinishLink ==
    ASSUME TypeOK, Undisturbed, LinkInv, Finish, UNCHANGED added
    PROVE  LinkInv'
  <1>1. UNCHANGED <<uartOpen, outbox, inbox, line, bleState, mode>>
    BY DEF Finish, module, added
  <1>2. ~Running'
    BY DEF Finish, Idle, Running
  <1>3. call.op \in Ops /\ call.k \in Nat \ {0}
    BY DEF Finish, Ended, Running, TypeOK, Position
  <1>4. Linkless(outbox)' /\ Following'
    <2>1. CASE call.op \in Opening /\ call.ok
      <3>1. PICK op, k : op = call.op /\ k = call.k
        OBVIOUS
      <3>2. /\ k \in 1 .. Len(Script[op]) + 1
            /\ k <= Len(Script[op]) => Script[op][k].do = "return"
            /\ ~Past(Script[op], k, "return")
            /\ Past(Script[op], k, "hold") => Cold
            /\ ResetBefore(Script[op], k) => bleState = "Idle"
        <4>1. Len(Script[op]) \in Nat
          BY <1>3, <3>1, Tables
        <4> QED  BY <1>3, <2>1, <3>1, <4>1 DEF Finish, Ended, LinkInv, Starting, Length, Step
      <3>3. ResetBefore(Script[op], k)
        BY <1>3, <2>1, <3>1, <3>2, LinkTables DEF ResetsFirst
      <3>4. Past(Script[op], k, "hold")
        BY <3>3 DEF ResetBefore, Past
      <3>5. Cold /\ bleState = "Idle"
        BY <3>2, <3>3, <3>4
      <3>6. Becomes(line, bleState, Known(mode))
        BY <3>5 DEF Becomes, Cold, Known
      <3> QED  BY <1>1, <3>6 DEF Following, LinkInv
    <2>2. CASE call.op \in Opening /\ ~call.ok
      <3>1. ~ready'
        <4>1. ready' = call.ok
          BY <2>2, SerialAssumption DEF Finish, Serial
        <4> QED  BY <2>2, <4>1
      <3> QED  BY <1>1, <3>1, LinkUnused DEF LinkInv
    <2>3. CASE call.op \notin Opening
      <3>1. ready' => ready
        BY <2>3 DEF Finish
      <3> QED  BY <1>1, <3>1 DEF LinkInv, Following, AboutState
    <2> QED  BY <2>1, <2>2, <2>3
  <1> QED  BY <1>2, <1>4 DEF LinkInv, Starting

(* The main thread.                                                        *)
LEMMA MainLink == TypeOK /\ Undisturbed /\ LinkInv /\ MainP3 => LinkInv'
  <1> SUFFICES ASSUME TypeOK, Undisturbed, LinkInv, MainP3 PROVE LinkInv'
    OBVIOUS
  <1>1. CASE PlainStep
    BY <1>1, PlainLink, LoopLink, TransmitLink, UartLink, FinishLink DEF PlainStep
  <1>2. CASE TestP3
    <2>1. PICK holds \in BOOLEAN : holds <=> (bleState = Step.status)
      OBVIOUS
    <2>2. TestState(holds) /\ UNCHANGED added
      BY <1>2, <2>1 DEF TestP3, TestState
    <2> QED  BY <2>2, PlainLink
  <1> QED  BY <1>1, <1>2, HoldLink, SetLink DEF MainP3

(* The interrupt handles the first frame of the line.                      *)
LEMMA ReceiveLink == TypeOK /\ LinkInv /\ ReceiveP3 => LinkInv'
  <1> SUFFICES ASSUME TypeOK, LinkInv, ReceiveP3 PROVE LinkInv'
    OBVIOUS
  <1>1. /\ UNCHANGED <<ready, uartOpen, outbox, inbox, call, mode>>
        /\ line # <<>> /\ line' = Tail(line)
    BY DEF ReceiveP3, HandleRxPacket, module
  <1>2. PICK f : f = Head(line)
    OBVIOUS
  <1>3. IF uartOpen THEN bleState' = IF Tells(f) THEN Told(f) ELSE bleState
                    ELSE bleState' = bleState
    BY <1>2, AfterFrame DEF ReceiveP3
  <1>4. /\ line \in Seq(Frame) /\ 1 \in DOMAIN line /\ f = line[1]
        /\ \A x \in DOMAIN line' : x + 1 \in DOMAIN line /\ line'[x] = line[x + 1]
    <2>1. line \in Seq(Frame)
      BY DEF TypeOK
    <2> QED  BY <1>1, <1>2, <2>1
  <1>5. Linkless(outbox)' /\ Following'
    <2>1. CASE ready /\ uartOpen /\ Becomes(line, bleState, Known(mode))
      <3>1. PICK m, s, b : m = Known(mode) /\ s = line' /\ b = bleState'
        OBVIOUS
      <3>2. Becomes(s, b, m)
        BY <1>1, <1>2, <1>3, <1>4, <2>1, <3>1, BecomesTail
      <3>3. Becomes(line', bleState', Known(mode'))
        BY <1>1, <3>1, <3>2
      <3> QED  BY <1>1, <3>3 DEF LinkInv, Following
    <2>2. CASE (AboutState /\ mode = "Idle") \/ ~(ready /\ uartOpen)
      BY <1>1, <2>2 DEF LinkInv, Following, AboutState
    <2> QED  BY <2>1, <2>2 DEF LinkInv, Following
  <1>6. Cold => Cold'
    BY <1>1, <1>4 DEF Cold
  <1>7. Cold /\ bleState = "Idle" => bleState' = "Idle"
    BY <1>3, <1>4 DEF Cold
  <1>8. Starting'
    BY <1>1, <1>6, <1>7, StartingStay DEF LinkInv
  <1> QED  BY <1>5, <1>8 DEF LinkInv

(* The module is up again: it has no link and will say so.                 *)
LEMMA Booting ==
    ASSUME Starts(outbox'), mode' = "Idle"
    PROVE  Following'
BY DEF Following, AboutState, Starts

(* Frames that come after others are frames of the module, too.            *)
LEMMA StartsAfter ==
    ASSUME NEW s \in Seq(Frame), NEW t \in Seq(Frame), Starts(t)
    PROVE  Starts(s \o t)
  <1>1. PICK n \in DOMAIN t : t[n].cmd = "GETSTATE_CNF"
    BY DEF Starts
  <1>2. PICK z : z = Len(s) + n
    OBVIOUS
  <1>3. z \in DOMAIN (s \o t) /\ (s \o t)[z] = t[n]
    <2>1. Len(s) \in Nat /\ Len(t) \in Nat /\ n \in 1 .. Len(t)
      OBVIOUS
    <2>2. z \in 1 .. Len(s) + Len(t) /\ z > Len(s) /\ z - Len(s) = n
      BY <1>2, <2>1
    <2> QED  BY <2>1, <2>2
  <1> QED  BY <1>1, <1>3 DEF Starts

(* The module answers a request.                                           *)
LEMMA AnswerLink == TypeOK /\ LinkInv /\ AnswerP3 => LinkInv'
  <1> SUFFICES ASSUME TypeOK, LinkInv, AnswerP3 PROVE LinkInv'
    OBVIOUS
  <1>1. PICK granted \in BOOLEAN :
          /\ Answer(granted)
          /\ LET cmd == Head(inbox).cmd
             IN  /\ granted /\ cmd = "DTMSTART_REQ" => mode = "Idle"
                 /\ mode' = CASE granted /\ cmd \in Rebooted     -> "Idle"
                              [] granted /\ cmd = "DTMSTART_REQ" -> "DTM"
                              [] OTHER                           -> mode
    BY DEF AnswerP3
  <1>2. PICK r : r = Head(inbox)
    OBVIOUS
  <1>3. /\ UNCHANGED <<ready, uartOpen, call, line, bleState>> /\ ~AboutState
        /\ inbox # <<>> /\ inbox' = Tail(inbox)
    BY <1>1 DEF Answer, AnswerP3, driver
  <1>4. /\ inbox \in Seq(Message) /\ r \in Message /\ r = inbox[1] /\ 1 \in DOMAIN inbox
        /\ \A x \in DOMAIN inbox' : x + 1 \in DOMAIN inbox /\ inbox'[x] = inbox[x + 1]
    <2>1. inbox \in Seq(Message)
      BY DEF TypeOK
    <2> QED  BY <1>2, <1>3, <2>1
  <1>5. PICK frames : /\ outbox' = outbox \o Tagged(frames, r.req)
                      /\ frames \in {Reply[r.cmd].yes} \cup Reply[r.cmd].no
                      /\ granted => frames = Reply[r.cmd].yes
    BY <1>1, <1>2 DEF Answer
  <1>6. /\ r.cmd \in DOMAIN Reply /\ r.req \in Nat
        /\ frames \in Seq(PartType) /\ Linkless(frames)
        /\ granted /\ r.cmd \in Rebooted => Starts(frames)
    <2>1. r.cmd \in DOMAIN Reply /\ r.req \in Nat
      BY <1>4 DEF Message
    <2>2. frames \in Seq(PartType)
      BY <1>5, <2>1, ModuleAssumption
    <2> QED  BY <1>5, <2>1, <2>2, ReportAssumption
  <1>7. /\ Tagged(frames, r.req) \in Seq(Frame) /\ Linkless(Tagged(frames, r.req))
        /\ granted /\ r.cmd \in Rebooted => Starts(Tagged(frames, r.req))
    BY <1>6, TaggedType, LinklessTagged
  <1>8. /\ outbox \in Seq(Frame) /\ Linkless(outbox')
        /\ granted /\ r.cmd \in Rebooted => Starts(outbox')
    BY <1>5, <1>7, LinklessPair, StartsAfter DEF TypeOK, LinkInv
  <1>9. Linkless(outbox)' /\ Following'
    <2>1. CASE granted /\ r.cmd \in Rebooted
      <3>1. PICK cmd : cmd = r.cmd
        OBVIOUS
      <3>2. mode' = "Idle"
        BY <1>1, <1>2, <2>1, <3>1 DEF Rebooted
      <3> QED  BY <1>8, <2>1, <3>2, Booting
    <2>2. CASE ~(granted /\ r.cmd \in Rebooted)
      <3>1. Known(mode') = Known(mode)
        BY <1>1, <1>2, <2>2 DEF Known
      <3>2. ready /\ uartOpen => Becomes(line', bleState', Known(mode'))
        BY <1>3, <3>1 DEF LinkInv, Following
      <3> QED  BY <1>3, <1>8, <3>2 DEF Following
    <2> QED  BY <2>1, <2>2
  <1>10. Cold => Cold'
    <2>1. ASSUME Cold PROVE Cold'
      <3>1. mode' = "Idle"
        BY <1>1, <1>2, <1>4, <2>1 DEF Cold
      <3> QED  BY <1>3, <1>4, <2>1, <3>1 DEF Cold
    <2> QED  BY <2>1
  <1>11. Starting'
    BY <1>3, <1>10, StartingStay DEF LinkInv
  <1> QED  BY <1>9, <1>11 DEF LinkInv

(* A frame that does not tell of the link joins the line.                  *)
LEMMA UntoldLink ==
    ASSUME TypeOK, LinkInv, NEW f \in Frame, ~Tells(f), line' = Append(line, f),
           UNCHANGED <<ready, uartOpen, inbox, call, mode, bleState>>,
           Linkless(outbox'), AboutState => AboutState' \/ mode # "Idle"
    PROVE  LinkInv'
  <1>1. line \in Seq(Frame)
    BY DEF TypeOK
  <1>2. Following'
    <2>1. CASE ready /\ uartOpen /\ Becomes(line, bleState, Known(mode))
      <3>1. PICK s, m : s = line' /\ m = Known(mode)
        OBVIOUS
      <3>2. Becomes(s, bleState, m)
        BY <1>1, <2>1, <3>1, BecomesStill
      <3> QED  BY <3>1, <3>2 DEF Following
    <2>2. CASE (AboutState /\ mode = "Idle") \/ ~(ready /\ uartOpen)
      BY <2>2 DEF Following
    <2> QED  BY <2>1, <2>2 DEF LinkInv, Following
  <1>3. Cold => Cold'
    <2>1. \A x \in DOMAIN line' : line'[x] = f \/ (x \in DOMAIN line /\ line'[x] = line[x])
      BY <1>1
    <2> QED  BY <2>1 DEF Cold
  <1>4. Starting'
    BY <1>3, StartingStay DEF LinkInv
  <1> QED  BY <1>2, <1>4 DEF LinkInv

(* One that does joins it: it tells what is.                               *)
LEMMA ToldLink ==
    ASSUME TypeOK, LinkInv, NEW f \in Frame, Tells(f), line' = Append(line, f),
           UNCHANGED <<ready, uartOpen, inbox, call, bleState>>,
           Linkless(outbox'), Told(f) = Known(mode'), ~ready /\ Cold => mode' = "Idle"
    PROVE  LinkInv'
  <1>1. line \in Seq(Frame)
    BY DEF TypeOK
  <1>2. Following'
    <2>1. PICK s : s = line'
      OBVIOUS
    <2>2. Becomes(s, bleState, Told(f))
      BY <1>1, <2>1, BecomesTold
    <2> QED  BY <2>1, <2>2 DEF Following
  <1>3. ~ready /\ Cold => Cold'
    <2>1. \A x \in DOMAIN line' : line'[x] = f \/ (x \in DOMAIN line /\ line'[x] = line[x])
      BY <1>1
    <2>2. mode' = "Idle" => Told(f) = "Idle"
      BY DEF Known
    <2> QED  BY <2>1, <2>2 DEF Cold
  <1>4. Starting'
    BY <1>3, StartingStay DEF LinkInv
  <1> QED  BY <1>2, <1>4 DEF LinkInv

(* The module sends a frame: it reports no link only when it has none.     *)
LEMMA EmitLink == TypeOK /\ ModeOK /\ LinkInv /\ EmitP3 => LinkInv'
  <1> SUFFICES ASSUME TypeOK, ModeOK, LinkInv, EmitP3 PROVE LinkInv'
    OBVIOUS
  <1>1. PICK g, data : /\ g = Head(outbox)
                       /\ data = IF g.cmd = "GETSTATE_CNF" THEN Action(mode) ELSE ""
                       /\ Emit(data)
    BY DEF EmitP3
  <1>2. PICK f : f = [g EXCEPT !.data = data]
    OBVIOUS
  <1>3. /\ outbox # <<>> /\ outbox' = Tail(outbox) /\ line' = Append(line, f)
        /\ UNCHANGED <<ready, uartOpen, inbox, call, mode, bleState>>
    BY <1>1, <1>2 DEF Emit, EmitP3, added, driver
  <1>4. /\ outbox \in Seq(Frame) /\ g \in Frame /\ g = outbox[1] /\ 1 \in DOMAIN outbox
        /\ \A x \in DOMAIN outbox' : x + 1 \in DOMAIN outbox /\ outbox'[x] = outbox[x + 1]
        /\ \A y \in DOMAIN outbox : y # 1 =>
             \E z \in DOMAIN outbox' : outbox'[z] = outbox[y]
    <2>1. outbox \in Seq(Frame)
      BY DEF TypeOK
    <2>2. ASSUME NEW y \in DOMAIN outbox, y # 1
          PROVE  \E z \in DOMAIN outbox' : outbox'[z] = outbox[y]
      <3>1. PICK z : z = y - 1
        OBVIOUS
      <3>2. z \in DOMAIN outbox' /\ z + 1 = y /\ outbox'[z] = outbox[z + 1]
        BY <1>3, <2>1, <2>2, <3>1
      <3> QED  BY <3>2
    <2>3. \A x \in DOMAIN outbox' : x + 1 \in DOMAIN outbox /\ outbox'[x] = outbox[x + 1]
      BY <1>3, <2>1
    <2>4. g = Head(outbox)
      BY <1>1
    <2>5. g \in Frame /\ g = outbox[1] /\ 1 \in DOMAIN outbox
      BY <1>3, <2>1, <2>4
    <2> QED  BY <2>1, <2>2, <2>3, <2>5
  <1>5. data \in STRING
    BY <1>1, <1>3, ReportKnown, ModuleAssumption
  <1>6. f \in Frame /\ f.cmd = g.cmd /\ f.data = data
    BY <1>2, <1>4, <1>5 DEF Frame
  <1>7. Linkless(outbox')
    BY <1>4 DEF LinkInv, Linkless
  <1>8. g.cmd \notin {"CONNECT_IND", "CHANNELOPEN_RSP", "DISCONNECT_IND"}
    BY <1>4 DEF LinkInv, Linkless
  <1>9. CASE g.cmd = "GETSTATE_CNF" /\ Action(mode) = "Idle"
    <2>1. Tells(f) /\ Told(f) = "Idle"
      BY <1>1, <1>6, <1>9 DEF Tells, Told
    <2>2. mode = "Idle"
      BY <1>9 DEF Action
    <2>3. Told(f) = Known(mode')
      BY <1>3, <2>1, <2>2 DEF Known
    <2> QED  BY <1>3, <1>6, <1>7, <2>1, <2>2, <2>3, ToldLink
  <1>10. CASE ~(g.cmd = "GETSTATE_CNF" /\ Action(mode) = "Idle")
    <2>1. ~Tells(f)
      BY <1>1, <1>6, <1>8, <1>10 DEF Tells
    <2>2. AboutState => AboutState' \/ mode # "Idle"
      <3> SUFFICES ASSUME AboutState, mode = "Idle" PROVE AboutState'
        OBVIOUS
      <3>1. g.cmd # "GETSTATE_CNF"
        BY <1>10 DEF Action
      <3>2. PICK y \in DOMAIN outbox : outbox[y].cmd = "GETSTATE_CNF"
        BY DEF AboutState
      <3> QED  BY <1>4, <3>1, <3>2 DEF AboutState
    <2> QED  BY <1>3, <1>6, <1>7, <2>1, <2>2, UntoldLink
  <1> QED  BY <1>9, <1>10

(* What an indication is.                                                  *)
LEMMA IndicationFrame ==
    ASSUME NEW cmd \in STRING, NEW status \in STRING
    PROVE  [cmd |-> cmd, status |-> status, data |-> "", req |-> 0] \in Frame
BY Literals DEF Frame

(* A link comes, changes or goes, and the module tells.                    *)
LEMMA EventLink == TypeOK /\ Undisturbed /\ LinkInv /\ LinkEvent => LinkInv'
  <1> SUFFICES ASSUME TypeOK, Undisturbed, LinkInv, LinkEvent PROVE LinkInv'
    OBVIOUS
  <1>1. PICK i \in LinkFrames :
          /\ Indicate(i.cmd, i.status)
          /\ \/ mode = "Idle" /\ ready /\ i.cmd = "CONNECT_IND" /\ i.status = "Success"
                  /\ mode' = "Connected"
             \/ mode = "Connected" /\ i.cmd = "CHANNELOPEN_RSP" /\ mode' = "ChannelOpen"
             \/ mode \in {"Connected", "ChannelOpen"} /\ i.cmd = "DISCONNECT_IND"
                  /\ mode' = "Idle"
    BY DEF LinkEvent, LinkFrames, Part, Undisturbed
  <1>2. i.cmd \in STRING /\ i.status \in STRING
    BY ProteusIIIAssumption, ModuleAssumption DEF PartType
  <1>3. PICK f : f = [cmd |-> i.cmd, status |-> i.status, data |-> "", req |-> 0]
    OBVIOUS
  <1>4. f \in Frame /\ f.cmd = i.cmd /\ f.status = i.status
    BY <1>2, <1>3, IndicationFrame
  <1>5. /\ line' = Append(line, f)
        /\ UNCHANGED <<ready, uartOpen, outbox, inbox, call, bleState>>
    BY <1>1, <1>3 DEF Indicate, LinkEvent, driver, module
  <1>6. Tells(f) /\ Told(f) = Known(mode')
    BY <1>1, <1>4 DEF Tells, Told, Known
  <1>7. ~ready /\ Cold => mode' = "Idle"
    BY <1>1 DEF Cold
  <1>8. Linkless(outbox')
    BY <1>5 DEF LinkInv
  <1> QED  BY <1>4, <1>5, <1>6, <1>7, <1>8, ToldLink

(* What else the module sends unasked is not about the link.               *)
LEMMA OtherLink == TypeOK /\ LinkInv /\ OtherIndication => LinkInv'
  <1> SUFFICES ASSUME TypeOK, LinkInv, OtherIndication PROVE LinkInv'
    OBVIOUS
  <1>1. PICK i \in Indications \ LinkFrames : Indicate(i.cmd, i.status)
    BY DEF OtherIndication
  <1>2. i \in PartType
    BY ModuleAssumption
  <1>3. i.cmd \in STRING /\ i.status \in STRING /\ i = Part(i.cmd, i.status)
    BY <1>2 DEF PartType, Part
  <1>4. PICK f : f = [cmd |-> i.cmd, status |-> i.status, data |-> "", req |-> 0]
    OBVIOUS
  <1>5. /\ f \in Frame /\ f.cmd = i.cmd /\ f.status = i.status /\ f.data # "Idle"
    BY <1>3, <1>4, IndicationFrame
  <1>6. ~Tells(f)
    <2>1. i.cmd \notin {"CHANNELOPEN_RSP", "DISCONNECT_IND"}
      BY ReportAssumption
    <2>2. ~(i.cmd = "CONNECT_IND" /\ i.status = "Success")
      BY <1>1, <1>3 DEF LinkFrames
    <2> QED  BY <1>5, <2>1, <2>2 DEF Tells
  <1>7. /\ line' = Append(line, f)
        /\ UNCHANGED <<ready, uartOpen, outbox, inbox, call, mode, bleState>>
    BY <1>1, <1>4 DEF Indicate, OtherIndication, driver, module, added
  <1>8. Linkless(outbox') /\ (AboutState => AboutState')
    BY <1>7 DEF LinkInv, AboutState
  <1> QED  BY <1>5, <1>6, <1>7, <1>8, UntoldLink

(* The module restarts by itself.                                          *)
LEMMA RestartLink == TypeOK /\ LinkInv /\ RestartP3 => LinkInv'
  <1> SUFFICES ASSUME TypeOK, LinkInv, RestartP3 PROVE LinkInv'
    OBVIOUS
  <1>1. /\ outbox' = Tagged(BootFrames, 0) /\ inbox' = <<>> /\ mode' = "Idle"
        /\ UNCHANGED <<ready, uartOpen, call, line, bleState>>
    BY DEF RestartP3, Restart, driver
  <1>2. Linkless(outbox') /\ Starts(outbox')
    BY <1>1, ModuleAssumption, ReportAssumption, LinklessTagged
  <1>3. Following'
    BY <1>1, <1>2, Booting
  <1>4. Cold => Cold'
    BY <1>1 DEF Cold
  <1>5. Starting'
    BY <1>1, <1>4, StartingStay DEF LinkInv
  <1> QED  BY <1>2, <1>3, <1>5 DEF LinkInv

(* At the beginning nothing is in use.                                     *)
LEMMA LinkInit == InitP3 => LinkInv
  <1> SUFFICES ASSUME InitP3 PROVE LinkInv
    OBVIOUS
  <1>1. outbox = <<>> /\ ready = FALSE /\ call.op = NoOp
    BY DEF InitP3, Init, Idle
  <1>2. Linkless(outbox)
    BY <1>1 DEF Linkless
  <1> QED  BY <1>1, <1>2 DEF LinkInv, Following, Starting, Running

LEMMA LinkStep ==
    Undisturbed /\ TypeOK /\ ModeOK /\ LinkInv /\ [NextP3]_allVars => LinkInv'
  <1> SUFFICES ASSUME Undisturbed, TypeOK, ModeOK, LinkInv, [NextP3]_allVars PROVE LinkInv'
    OBVIOUS
  <1>1. CASE StartP3
    BY <1>1, StartLink
  <1>2. CASE MainP3
    BY <1>2, MainLink
  <1>3. CASE ReceiveP3
    BY <1>3, ReceiveLink
  <1>4. CASE LoseP3
    BY <1>4 DEF LoseP3, LoseFrame, Undisturbed, TypeOK
  <1>5. CASE ModuleP3
    BY <1>5, AnswerLink, EmitLink, EventLink, OtherLink, RestartLink DEF ModuleP3
  <1>6. CASE UNCHANGED allVars
    <2>1. UNCHANGED <<ready, uartOpen, call, inbox, outbox, line, bleState, mode>>
      BY <1>6 DEF allVars, added, vars, driver, module
    <2>2. Linkless(outbox)' /\ Following'
      BY <2>1, LinkStill DEF LinkInv
    <2>3. Starting'
      BY <2>1 DEF LinkInv, Starting, Cold, Running, Length
    <2> QED  BY <2>2, <2>3 DEF LinkInv
  <1> QED  BY <1>1, <1>2, <1>3, <1>4, <1>5, <1>6 DEF NextP3

(* ProteusIII_GetDriverState says what the link really is whenever the     *)
(* driver is in use and nothing is under way from the module, if the       *)
(* driver was started by a reset through the pin and what it is told       *)
(* arrives.                                                                *)
THEOREM LinkKnown ==
    ASSUME Undisturbed PROVE SpecP3 => []LinkAgrees
<1>1. InitP3 => ModeOK /\ LinkInv
  BY LinkInit DEF InitP3, ModeOK
<1>2. TypeOK /\ ModeOK /\ LinkInv /\ [NextP3]_allVars => ModeOK' /\ LinkInv'
  BY LinkStep, ModeStep
<1>3. SpecP3 => []TypeOK
  BY Implements, TypeCorrect, PTL
<1>4. LinkInv => LinkAgrees
  <2> SUFFICES ASSUME LinkInv, ready, uartOpen, line = <<>>, ~AboutState
               PROVE  bleState = Known(mode)
    BY DEF LinkAgrees
  <2>1. Becomes(line, bleState, Known(mode))
    BY DEF LinkInv, Following
  <2> QED  BY <2>1 DEF Becomes
<1> QED  BY <1>1, <1>2, <1>3, <1>4, PTL DEF SpecP3

=============================================================================
