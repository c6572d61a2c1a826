------------------------------ MODULE MCRadios ------------------------------
(* Instances of Radios for TLC: the tables of the devices a run has, and   *)
(* beside them Skoll-I, which has a core of its own.                       *)
EXTENDS Radios, SkollI

CONSTANTS
    Present,    \* the devices of this run
    Untold      \* the functions of Metis that a run has although they never
                \* see their confirmation: they break KeepsContract

Tarvos  == INSTANCE TarvosIII
Meter   == INSTANCE Metis
MeterE  == INSTANCE MetisE
Mesh    == INSTANCE Thyone
Proteus == INSTANCE Proteus
Several == INSTANCE ProteusIV

Entry(script, recorded, statusless, reply, unasked) ==
    [script |-> script, recorded |-> recorded, statusless |-> statusless,
     reply |-> reply, unasked |-> unasked]

Table(d) ==
    CASE d = "TarvosIII" ->
           Entry(Tarvos!Functions, Tarvos!RecordedCommands,
                 Tarvos!StatuslessCommands, Tarvos!Replies, Tarvos!Unasked)
      [] d = "Metis"     ->
           Entry(Meter!Functions @@ [f \in Untold |-> Meter!Unconfirmed[f]],
                 Meter!RecordedCommands,
                 Meter!StatuslessCommands, Meter!Replies, Meter!Unasked)
      [] d = "MetisE"    ->
           Entry(MeterE!Functions, MeterE!RecordedCommands,
                 MeterE!StatuslessCommands, MeterE!Replies, MeterE!Unasked)
      [] d = "ThyoneI"   ->
           Entry(Mesh!Functions, Mesh!RecordedCommands,
                 Mesh!StatuslessCommands, Mesh!Replies, Mesh!Unasked)
      [] d = "ThyoneE"   ->
           Entry(Mesh!FunctionsE, Mesh!RecordedCommands,
                 Mesh!StatuslessCommands, Mesh!Replies, Mesh!Unasked)
      [] d = "ProteusII" ->
           Entry(Proteus!FunctionsII, Proteus!RecordedII,
                 Proteus!StatuslessCommands, Proteus!Replies, Proteus!Unasked)
      [] d = "ProteusE"  ->
           Entry(Proteus!FunctionsE, Proteus!RecordedE,
                 Proteus!StatuslessCommands, Proteus!RepliesE, Proteus!Unasked)
      [] d = "ProteusIV" ->
           Entry(Several!Functions, Several!RecordedCommands,
                 Several!StatuslessCommands, Several!Replies, Several!Unasked)

Named(d, name) == IF name = "" THEN "" ELSE d \o "." \o name
Names(d, set)  == {Named(d, name) : name \in set}

(* (TLC evaluates a function whenever it is applied, a concatenation once.) *)
Tagging(d, frames) ==
    [i \in DOMAIN frames |-> [frames[i] EXCEPT !.cmd = Named(d, @)]] \o <<>>

(* The functions and frames of all devices, each with its device before    *)
(* its name: f with its arguments renamed, its values changed by Renew.    *)
Titled(d, f, Renew(_, _)) ==
    LET table == f @@ <<>>
        names == DOMAIN table
    IN  [title \in Names(d, names) |->
           Renew(d, table[CHOOSE name \in names : Named(d, name) = title])]
Joined(Part_(_)) ==
    LET Here(d) == IF d \in Present THEN Part_(d) ELSE <<>>
    IN  Here("TarvosIII") @@ Here("Metis") @@ Here("MetisE") @@ Here("ThyoneI")
          @@ Here("ThyoneE") @@ Here("ProteusII") @@ Here("ProteusE")
          @@ Here("ProteusIV")

Retag(d, reply) == [yes |-> Tagging(d, reply.yes),
                    no  |-> {Tagging(d, no) : no \in reply.no}]
First(d, steps) == d
Scripts == Joined(LAMBDA d : Titled(d, Table(d).script, Tagging))
Answers == Joined(LAMBDA d : Titled(d, Table(d).reply, Retag))
Owners  == Joined(LAMBDA d : Titled(d, Table(d).script, First))

(* Two pins of Tarvos-III, one of the others.                              *)
Sleepers(f) == CASE f = "WakeFromStandby"  -> {"Standby"}
                 [] f = "WakeFromShutdown" -> {"Shutdown"}
                 [] OTHER                  -> {"Sleep", "Standby", "Shutdown"}
Waking(d)  == DOMAIN Table(d).script \cap {"WakeFromStandby", "WakeFromShutdown", "PinWakeup"}
Wakers ==
    Joined(LAMBDA d : Titled(d, [f \in Waking(d) |->
             Sleepers(f) \cap DOMAIN Table(d).script], Names))

(* Three calls where the drivers differ from Proteus-III, and two of the   *)
(* others: a call that starts the driver, and each function after it.      *)
Calls == [d \in Present |-> IF d \in {"TarvosIII", "MetisE", "ThyoneE"} THEN 3 ELSE 2]

Starting   == {"Init", "InitPrepared", "InitByPin", "InitByUart"}
Openings   == UNION {Names(d, DOMAIN Table(d).script \cap Starting) : d \in Present}
Closings   == {Named(d, "Deinit") : d \in Present}

Records    == UNION {Names(d, Table(d).recorded) : d \in Present}
Bare       == UNION {Names(d, Table(d).statusless) : d \in Present}
Pins       == {Named(d, "RESET_PIN") : d \in Present}

Talk(d)    == {[i EXCEPT !.cmd = Named(d, @)] : i \in Table(d).unasked}
Talks      == Joined(LAMBDA d : d :> Talk(d))
(* Metis-e records what it is sent unasked; the runs differ in it.         *)
QuietTalks == Joined(LAMBDA d : d :> IF d = "MetisE" THEN {} ELSE Talk(d))
AllTalk    == UNION {Talk(d) : d \in Present}

(* What the constants stand for: TLC keeps the value of a definition, but  *)
(* evaluates the one that a constant is given whenever it is used.         *)
Script_MC      == Scripts
Reply_MC       == Answers
Owner_MC       == Owners
Opening_MC     == Openings
Closing_MC     == Closings
Rouses_MC      == Wakers
CallsOf_MC     == Calls
Recorded_MC    == Records
Statusless_MC  == Bare
ResetPins_MC   == Pins
UnaskedBy_MC   == Talks
QuietMeter_MC  == QuietTalks
Indications_MC == AllTalk
Data_MC        == {"", "DTM"}
BootFrames_MC  == <<>>

(* A restart of Tarvos-III is reported once more than the function waits   *)
(* for, a transmission of Proteus-IV by a response after the confirmation: *)
(* these frames are still to come when the function returns. All others    *)
(* wait for the last frame of their answers, and but for Metis-e nothing   *)
(* unasked is recorded: the tables are Serial.                             *)
Overlapping == {"TarvosIII.Reset", "TarvosIII.FactoryReset",
                "TarvosIII.ConfigureAfterReset", "ProteusIV.Transmit"}
                 \cup Names("Metis", Untold)
ASSUME SerialButFor ==
    /\ Opening \cap Closing = {}
    /\ \A op \in Ops \ Overlapping : OneAtATime(Script[op]) /\ OpenMeanwhile(op)
    /\ \A d \in Present \ {"MetisE"} : \A i \in Talk(d) : i.cmd \notin Recorded

SkollI_MC ==
    "in time" :> DOMAIN ScriptK
      @@ "any" :> {"InitTransparent", "Command", "CheckForPacket"}

InitAny ==
    \/ InitRadio /\ InitK /\ parser = "text" /\ pace = "any"
    \/ Init /\ InitK /\ device = "SkollI"

NextAny ==
    \/ device # "SkollI" /\ NextRadio /\ UNCHANGED varsK
    \/ device = "SkollI" /\ NextK /\ UNCHANGED radioVars

SpecAny == InitAny /\ [][NextAny]_<<radioVars, varsK>>
=============================================================================
