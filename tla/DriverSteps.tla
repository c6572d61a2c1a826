---------------------------- MODULE DriverSteps ----------------------------
(***************************************************************************)
(* The vocabulary in which the tables of the binary-protocol drivers are   *)
(* written: the steps of a function, and the answers of a module. The      *)
(* source lines are those of ProteusIII.c; the other drivers have the same *)
(* code.                                                                   *)
(***************************************************************************)
EXTENDS Integers, Sequences

CONSTANT Slots            \* CMDCONFIRMATIONARRAY_LENGTH

(* The steps that the functions of a driver are made of. Where a step that *)
(* fails leads: 0 is "return false".                                       *)
Do(what) == [do |-> what, cmd |-> "", status |-> "", slot |-> 0, fail |-> 0]

Send(cmd)         == [Do("send") EXCEPT !.cmd = cmd]
Clear             == [i \in 1 .. Slots |-> [Do("clear") EXCEPT !.slot = i]]
Wait(cnf, status) == [Do("wait") EXCEPT !.cmd = cnf, !.status = status]
Read              == Do("read")
Check(data)       == [Do("check") EXCEPT !.status = data]
Test(state)       == [Do("test") EXCEPT !.status = state]
Set(what)         == [Do("set") EXCEPT !.status = what]
Hold              == Do("hold")
Release           == Do("release")
Pin               == Do("pin")
Open              == Do("open")
Close             == Do("close")
Return            == Do("return")

(* The same steps, except that failing leads to step k.                    *)
OrElse(steps, k) == [j \in DOMAIN steps |-> [steps[j] EXCEPT !.fail = k]]

(* A request, then Wait4CNF with resetConfirmState.                        *)
Request(req, cnf, status) == <<Send(req)>> \o Clear \o <<Wait(cnf, status)>>

StepType == [do : STRING, cmd : STRING, status : STRING, slot : 0 .. Slots,
             fail : Nat]
PartType == [cmd : STRING, status : STRING]

(* A request whose one confirmation carries a status.                      *)
Simple(req, cnf) == Request(req, cnf, "Success")

-----------------------------------------------------------------------------
(* How a module grants a request (yes) and may refuse it (no). It may      *)
(* ignore any request.                                                     *)
Part(cmd, status) == [cmd |-> cmd, status |-> status]
Plain(cnf) == [yes |-> <<Part(cnf, "Success")>>,
               no  |-> {<<>>, <<Part(cnf, "Failed")>>}]
Then(cnf, last) == [Plain(cnf) EXCEPT !.yes = Append(@, last)]
Unrefused(part) == [yes |-> <<part>>, no |-> {<<>>}]
=============================================================================
