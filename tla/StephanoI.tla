----------------------------- MODULE StephanoI -----------------------------
(***************************************************************************)
(* The Wi-Fi and Bluetooth LE driver StephanoI. Unlike the other drivers   *)
(* for lines of text it has no buffer of its own for responses: the        *)
(* receive interrupt writes through StephanoI_currentResponseText into an  *)
(* array on the stack of the function that waits, which lends it in        *)
(* WaitForConfirm_ex and must have it back, on every way out, before it    *)
(* returns. Any line may come at any time; how long a function waits and   *)
(* how often functions are called is left open.                            *)
(***************************************************************************)
EXTENDS Integers, Sequences

CONSTANTS
    StephanoI_Script,    \* per function: the confirmations it waits for
    MaxLine              \* bound: bytes that a line adds to a response

Statuses == {"Success", "Failed", "Ready4Data", "SendOK", "SetOK"}

ASSUME StephanoIAssumption ==
    /\ MaxLine \in Nat
    /\ \A f \in DOMAIN StephanoI_Script :
         StephanoI_Script[f] \in Seq([expected : Statuses, size : Nat]) \ {<<>>}
    /\ "none" \notin DOMAIN StephanoI_Script

VARIABLES
    StephanoI_requestPending, StephanoI_cmdConfirmStatus,
    StephanoI_currentResponseText,     \* "NULL", or the array that is lent
    StephanoI_currentResponseAvailableLength, StephanoI_currentResponseLength,
    StephanoI_open,                    \* uartInit was called
    task                               \* the main thread: function, where it is

buffer  == <<StephanoI_currentResponseText, StephanoI_currentResponseAvailableLength,
             StephanoI_currentResponseLength>>
varsS   == <<StephanoI_requestPending, StephanoI_cmdConfirmStatus, buffer,
             StephanoI_open, task>>

Nothing == [op |-> "none", k |-> 1, at |-> "send", ok |-> TRUE]

InitS ==
    /\ StephanoI_requestPending = FALSE /\ StephanoI_cmdConfirmStatus = "Invalid"
    /\ StephanoI_currentResponseText = "NULL"
    /\ StephanoI_currentResponseAvailableLength = 0
    /\ StephanoI_currentResponseLength = 0
    /\ StephanoI_open = FALSE
    /\ task = Nothing

Engaged == task.op # "none"
TaskAt(what) == Engaged /\ task.at = what
Turn(what) == task' = [task EXCEPT !.at = what]
Wanted == StephanoI_Script[task.op][task.k]

-----------------------------------------------------------------------------
(* Init and Deinit, which leaves the pointer as it is.                     *)
OpenS ==
    /\ ~Engaged /\ ~StephanoI_open
    /\ StephanoI_requestPending' = FALSE
    /\ StephanoI_open' = TRUE
    /\ UNCHANGED <<StephanoI_cmdConfirmStatus, buffer, task>>

CloseS ==
    /\ ~Engaged /\ StephanoI_open
    /\ StephanoI_requestPending' = FALSE
    /\ StephanoI_currentResponseLength' = 0
    /\ StephanoI_open' = FALSE
    /\ UNCHANGED <<StephanoI_cmdConfirmStatus, StephanoI_currentResponseText,
                   StephanoI_currentResponseAvailableLength, task>>

CallS(f) ==
    /\ ~Engaged /\ StephanoI_open
    /\ task' = [Nothing EXCEPT !.op = f]
    /\ UNCHANGED <<StephanoI_requestPending, StephanoI_cmdConfirmStatus, buffer,
                   StephanoI_open>>

(* SendRequest                                                             *)
SendS ==
    /\ TaskAt("send")
    /\ StephanoI_requestPending' = TRUE
    /\ StephanoI_currentResponseLength' = 0
    /\ Turn("arm")
    /\ UNCHANGED <<StephanoI_cmdConfirmStatus, StephanoI_currentResponseText,
                   StephanoI_currentResponseAvailableLength, StephanoI_open>>

(* WaitForConfirm_ex: the status, then pointer, size and length.           *)
ArmS ==
    /\ TaskAt("arm")
    /\ StephanoI_cmdConfirmStatus' = "Invalid"
    /\ Turn("lend")
    /\ UNCHANGED <<StephanoI_requestPending, buffer, StephanoI_open>>

Lend ==
    /\ TaskAt("lend")
    /\ StephanoI_currentResponseText' = IF Wanted.size > 0 THEN "lent" ELSE "NULL"
    /\ Turn("measure")
    /\ UNCHANGED <<StephanoI_requestPending, StephanoI_cmdConfirmStatus,
                   StephanoI_currentResponseAvailableLength,
                   StephanoI_currentResponseLength, StephanoI_open>>

Measure ==
    /\ TaskAt("measure")
    /\ StephanoI_currentResponseAvailableLength' = Wanted.size
    /\ Turn("empty")
    /\ UNCHANGED <<StephanoI_requestPending, StephanoI_cmdConfirmStatus,
                   StephanoI_currentResponseText, StephanoI_currentResponseLength,
                   StephanoI_open>>

Empty ==
    /\ TaskAt("empty")
    /\ StephanoI_currentResponseLength' = 0
    /\ Turn("poll")
    /\ UNCHANGED <<StephanoI_requestPending, StephanoI_cmdConfirmStatus,
                   StephanoI_currentResponseText,
                   StephanoI_currentResponseAvailableLength, StephanoI_open>>

(* It finds a confirmation, of the status it expects or not.               *)
ConfirmS ==
    /\ TaskAt("poll") /\ StephanoI_cmdConfirmStatus # "Invalid"
    /\ StephanoI_requestPending' = FALSE
    /\ task' = [task EXCEPT !.at = "release",
                            !.ok = StephanoI_cmdConfirmStatus = Wanted.expected]
    /\ UNCHANGED <<StephanoI_cmdConfirmStatus, buffer, StephanoI_open>>

(* Mutant of TimeoutS: the caller does not get its array back.             *)
TimeoutKeeps ==
    /\ TaskAt("poll") /\ StephanoI_cmdConfirmStatus = "Invalid"
    /\ StephanoI_requestPending' = FALSE
    /\ task' = Nothing
    /\ UNCHANGED <<StephanoI_cmdConfirmStatus, buffer, StephanoI_open>>

TimeoutS ==
    /\ TaskAt("poll") /\ StephanoI_cmdConfirmStatus = "Invalid"
    /\ StephanoI_requestPending' = FALSE
    /\ task' = [task EXCEPT !.at = "release", !.ok = FALSE]
    /\ UNCHANGED <<StephanoI_cmdConfirmStatus, buffer, StephanoI_open>>

Release ==
    /\ TaskAt("release")
    /\ StephanoI_currentResponseText' = "NULL"
    /\ Turn("forget")
    /\ UNCHANGED <<StephanoI_requestPending, StephanoI_cmdConfirmStatus,
                   StephanoI_currentResponseAvailableLength,
                   StephanoI_currentResponseLength, StephanoI_open>>

(* The next request, of the data when the module is ready for them, or the *)
(* end.                                                                    *)
Forget ==
    /\ TaskAt("forget")
    /\ StephanoI_currentResponseAvailableLength' = 0
    /\ StephanoI_currentResponseLength' = 0
    /\ task' = IF task.ok /\ task.k < Len(StephanoI_Script[task.op])
               THEN [Nothing EXCEPT !.op = task.op, !.k = task.k + 1]
               ELSE Nothing
    /\ UNCHANGED <<StephanoI_requestPending, StephanoI_cmdConfirmStatus,
                   StephanoI_currentResponseText, StephanoI_open>>

-----------------------------------------------------------------------------
(* The receive interrupt.                                                  *)
StatusLine(status) ==
    /\ StephanoI_open
    /\ StephanoI_cmdConfirmStatus' = IF StephanoI_requestPending THEN status
                                     ELSE StephanoI_cmdConfirmStatus
    /\ UNCHANGED <<StephanoI_requestPending, buffer, StephanoI_open, task>>

(* A line of a response is cut to what is left of the array.               *)
Stored(n) ==
    IF StephanoI_currentResponseLength + n > StephanoI_currentResponseAvailableLength
    THEN StephanoI_currentResponseAvailableLength - StephanoI_currentResponseLength
    ELSE n

(* n bytes of a line that starts like the name of the pending command.     *)
ResponseLine(n) ==
    /\ StephanoI_open
    /\ StephanoI_requestPending /\ StephanoI_currentResponseText # "NULL"
    /\ StephanoI_currentResponseLength' = StephanoI_currentResponseLength + Stored(n)
    /\ UNCHANGED <<StephanoI_requestPending, StephanoI_cmdConfirmStatus,
                   StephanoI_currentResponseText,
                   StephanoI_currentResponseAvailableLength, StephanoI_open, task>>

NextS ==
    \/ OpenS \/ CloseS
    \/ \E f \in DOMAIN StephanoI_Script : CallS(f)
    \/ SendS \/ ArmS \/ Lend \/ Measure \/ Empty
    \/ ConfirmS \/ TimeoutS \/ Release \/ Forget
    \/ \E status \in Statuses : StatusLine(status)
    \/ \E n \in 1 .. MaxLine : ResponseLine(n)

SpecS == InitS /\ [][NextS]_varsS

-----------------------------------------------------------------------------
(* Whatever the module sends and when: the interrupt can write into an     *)
(* array only while the function that lent it waits in WaitForConfirm_ex,  *)
(* and no line is stored past the end of the array (StephanoI.c:365-429,   *)
(* :556-604). The terminating zero that the main thread adds, at the       *)
(* length, is not in it: a response that fills the array leaves no room    *)
(* for it (:390-393).                                                      *)
BufferSafe ==
    StephanoI_currentResponseText # "NULL" =>
        /\ Engaged /\ task.at \in {"measure", "empty", "poll", "release"}
        /\ StephanoI_currentResponseLength \in 0 .. Wanted.size
=============================================================================
