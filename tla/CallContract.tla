---------------------------- MODULE CallContract ----------------------------
(***************************************************************************)
(* What a function of a radio driver promises its caller: the requests it  *)
(* makes take effect in the module while it runs, never later, and it      *)
(* returns true exactly if all of them did, unless the driver itself       *)
(* declined for a reason of its own. How the answers of the module travel, *)
(* are recorded and looked for is left out here.                           *)
(***************************************************************************)
VARIABLES active,         \* a function was called and has not returned
          asked,          \* the requests the latest call has made
          granted,        \* those that took effect
          outcome         \* how the latest call that returned ended

contract == <<active, asked, granted, outcome>>

Init ==
    /\ ~active /\ asked = {} /\ granted = {}
    /\ outcome = "none"

Call ==
    /\ ~active /\ active'
    /\ asked' = {} /\ granted' = {}
    /\ UNCHANGED outcome

Ask ==
    /\ active /\ active'
    /\ \E r \in asked' : r \notin asked /\ asked' = asked \cup {r}
    /\ UNCHANGED <<granted, outcome>>

Grant ==
    /\ active /\ active'
    /\ \E r \in asked \ granted : granted' = granted \cup {r}
    /\ UNCHANGED <<asked, outcome>>

Return ==
    /\ active /\ ~active'
    /\ outcome' \in {"true", "false", "declined"}
    /\ outcome' = "true"  => asked \subseteq granted
    /\ outcome' = "false" => ~(asked \subseteq granted)
    /\ UNCHANGED <<asked, granted>>

Next == Call \/ Ask \/ Grant \/ Return

Spec == Init /\ [][Next]_contract
=============================================================================
