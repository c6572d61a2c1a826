# Verification of the Wireless Connectivity SDK for STM32

This directory holds TLA+ models of the SDK, the TLC configurations that check
them, and proofs checked by TLAPS. Paths are relative to `src/WCON_SDK/`;
drivers are in `WCON_Drivers/<name>/`.

## 1. The system

The SDK lets an STM32 host drive Würth Elektronik radio modules over a UART. A
program is one main thread (`main`, the application's calls into a driver) and
interrupts; there is no operating system.

    application ── calls ──► driver (WCON_Drivers/<module>) ── uartTransmit ──► module
         ▲                        ▲   ▲
         └── callbacks ───────────┘   └── HandleRxByte(s) ◄── platform (global_F4xx.c): DMA ring, PendSV
    any context ── printf ──► print ring (global/print.c) ── USART2 interrupt ──► terminal

| part | state | operations | what makes it correct |
|---|---|---|---|
| binary drivers: Metis(E), Tarvos III/E, Telesto III, Thebe II, Themisto I, Thyone I/E, Proteus II/III/E/IV | `txPacket`, `rxPacket`, `cmdConfirmationArray`, parser counters, link state, pointers to structures of the caller | Init, Deinit, pins, one function per request, `HandleRxByte` and `HandleRxPacket` in the receive interrupt | a function returns true iff the module did as asked; what it hands over is the answer; driver state agrees with the module; the interrupt writes nowhere it must not; frames are handled once and whole |
| AT drivers: Calypso, Cordelia I, Stephano I, Adrastea I, Daphnis I | request state (`requestPending`, current command, confirm status, response text), line buffer, in Daphnis I a buffer of events | SendRequest, WaitForConfirm, WaitForEvents, HandleRxLine, event callbacks | the same, over text lines |
| Skoll I | two slots for packets, the pending response, data mode | one command at a time through the vendor's EZ-Serial library, wait for a packet, transparent relay | a caller gets its own response, and the packet it points to stays as it is |
| platform (`global_F4xx.c`, `global_L0xx.c`) | DMA receive ring, last read position, on the F4 a trigger flag | UartInit, UartDeinit, receive interrupts, deferred processing, delays, pins | every received byte is delivered once and in order |
| print output (`global/print.c`) | ring, read and write position, `transferRunning`, lock | `_write`, `WE_Print_Flush`, USART2 interrupt | nothing lost, doubled or reordered; flush means flushed; output never stops |
| AT argument strings, JSON, Base64, conversions | none | pure functions | what is parsed is what was formatted |
| HAL, LL, CMSIS, generated start-up code, examples | | | vendored or demonstrations, left aside |

What is hard here: the receive interrupt preempts the main thread anywhere and
shares `rxPacket`, the confirmations, the state of the link and pointers to
structures of callers with it without locks; answers carry no sequence number;
requests time out; the module may restart or refuse; contexts of three
priorities print through one ring. `PROJECT.json` lists these hazards line by
line ("hazards"), with the properties that look for them.

## 2. Modules

| module | models | role |
|---|---|---|
| `PrintRing` | `global/print.c` | the print ring and its interrupt |
| `UartDma` | `STM32F4xx/Drivers/global_F4xx.c` and `STM32L0xx/Drivers/global_L0xx.c`, reception with `WE_UART_DMA` | the DMA ring, the interrupts, PendSV, opening and closing |
| `ByteStream` | | abstract: what goes in comes out once and in order; implemented by the two above |
| `DriverSteps` | | the vocabulary of steps that functions of binary drivers are written in |
| `CommandDriver` | `Wait4CNF`, the course of a call, the slots of `HandleRxPacket`, UART open or closed; the module as environment | the core all binary drivers share, parameterised by tables |
| `CallContract` | | abstract: a call and the module's verdict on it; implemented by `CommandDriver` |
| `Proteus`, `TarvosIII`, `Metis`, `MetisE`, `Thyone`, `ProteusIV` | the driver of that name, or family | tables: the functions as steps, the frames recorded, the module's answers |
| `ProteusIII` | `ProteusIII.c` | the tables of `Proteus`, with `bleState`, `getDevicesP` and the link; EXTENDS `CommandDriver` |
| `ProteusIVLinks` | `ProteusIV.c` | the list of connections, the pointers of the caller, the scan; EXTENDS `CommandDriver`, `ProteusIV` |
| `Radios` | | eight drivers over one `CommandDriver`, one at a time |
| `FrameParser` | `HandleRxByte` of the thirteen binary drivers | the bytes below "a frame arrives whole or is lost" |
| `ATDriver`, `Calypso` | `Calypso.c`, its `ATCommands`; `CordeliaI` | the core for lines of text; the table of functions |
| `DaphnisI` | `DaphnisI.c`, `P2P.c`, `ATDevice.c`, `ATGPIO.c` | functions that wait for events |
| `StephanoI` | `StephanoI.c` | the response buffer lent to the interrupt |
| `AdrasteaI` | `AdrasteaI.c`, `ATPower.c`, `ATDevice.c` | the module's two prompts and the loops that wait for one |
| `SkollI` | `Skoll_I.c` | the slots, the pending response, the packet handed to a caller |
| `MC*` | | instances for TLC: which functions a run calls, and compositions |
| `*_proofs` | | theorems |

Siblings: TarvosE, ThebeII, ThemistoI and TelestoIII have the functions of
TarvosIII at the same offsets and differ in the settings of the radio;
`TarvosIII` stands for them. ThyoneI and ThyoneE are two entries of `Thyone`,
ProteusII and ProteusE of `Proteus`.

### 2.1 CommandDriver and its tables

A function of a driver is a sequence of *steps* (`Script[op]`), each of which
is one thing that can fail, be interrupted or change state:

| step | code | action |
|---|---|---|
| `Send(cmd)` | filling `txPacket`, `Transparent_Transmit` | `Transmit`, `Fault` |
| `Clear` | the loop of `Wait4CNF` that resets the array, one step a slot | `ClearSlot` |
| `Wait(cnf, status)` | the polling loop of `Wait4CNF` | `Confirmed`, `NextSlot`, `Delay`, `GiveUp` |
| `Read` | copying out of `rxPacket` after the confirmation | `ReadPacket` |
| `Check(data)` | a decision on `rxPacket` | `CheckPacket` |
| `Test(state)`, `Set(what)` | a test of or assignment to driver state | `TestState`, `SetState` |
| `Pin`, `Hold`, `Open`, `Close` | pins and UART | `SetState`, `HoldInReset`, `OpenUart`, `CloseUart`, `Fault` |

`OrElse(steps, k)` says where a failure leads when the code cleans up before it
returns; otherwise a failure returns false. The receive interrupt
(`HandleRxPacket`) can come between any two steps: it copies the frame to
`rxPacket` and puts a recorded confirmation into the first free slot. The
variables keep the names of the code; `asked`, `requests`, `served`, `seen`,
`response` and `returned` are history.

The radio module is external: it reads requests in order, grants them (with all
frames of `Reply[req].yes`), refuses or ignores them, sends indications, and may
restart. Real time enters in two places only. `LateAnswers`: an answer may come
after the caller has given up. `FastAnswers`: an answer may come before the
caller has finished resetting the array. Confirmations carry no identity, so the
tag `req` in a frame is seen by the properties only, never by the driver.

A driver is then a table: which functions it has, what their steps are, what
its `HandleRxPacket` records, how its module answers. The tables hold what
differs: MetisE records every frame; Thyone has three slots and answers remote
requests twice; Metis records a GET_CNF only about the six settings it
knows (one about another address is `GET_OTHER_CNF` in the model), and leaves its UART
open when a `Get` of Init fails; Tarvos
modules report a restart that nobody waited for. `Serial` says what most tables have in
common, and what the proofs about answers in time start from: a function makes one
request at a time, resets the array for it, waits for the last frame of its answer and
only then goes on; the frames of an answer differ and fit the array, a refusal differs
from the consent; nothing sent unasked is recorded. TLC evaluates it for the table of
Proteus-III and the part about requests for those of `radios` (all but four functions).

`CallContract` says what a caller may rely on: a call makes requests, each takes
effect while the call runs or not at all, and the call returns true iff all
took effect. A driver may also decline for reasons of its own (a failed pin, a
check). `KeepsContract` is the refinement.

### 2.2 ProteusIII and ProteusIVLinks

`Proteus` gives the script of each of the 39 functions of ProteusIII that send a
request or wait, and what `HandleRxPacket` records; `ProteusIII` adds what the
interrupt does to `bleState` (`StateAfter`). `getDevicesP` is the pointer
through which the interrupt fills a structure of the caller; `listed` remembers
whose answer it was filled from. `mode` is the module's link, which changes when
a peer connects or leaves and when the module restarts.

`ProteusIVLinks` has `connectionList` against the module's own `links`, the
three pointers `ProteusIV_ConnectedDevicesP`, `ProteusIV_BondsP` and
`ProteusIV_ScanDevicesP` (`pointers` is the set of those that are not NULL), the
caller's list (`scanResult`) while it is `lent`, the devices `heard` meanwhile, and
whether the module is `scanning` or `deaf` (at another baud rate).

Left out of both: the interrupt's copying of a frame while the main thread reads
it, byte by byte; the peripheral-only branch of `PinReset`; the transparent mode;
the callbacks of the application; early returns on NULL arguments and on values
out of range; functions that change nothing of this state (`GetStatusLed2`,
`IsPeripheralOnlyModeBusy`, `SetByteRxCallback`).

### 2.3 FrameParser

The thirteen parsers have five forms, which differ in where the length stands,
how many bytes it has, what the count of bytes includes, what happens at a full
buffer and who clears the parser: `TarvosParser`, `MetisParser`, `MetisEParser`,
`ThyoneParser`, `ProteusParser`, records that the one `HandleRxByte` reads.
`Base` stands for the 256 of a byte, so that the 8-bit counters of the Metis and
Tarvos parsers wrap in a small instance as they do in C. The module sends frames
whose data may contain start bytes (`Send`); it may be reset in mid-frame
(`LowerReset`, `RaiseReset`, `Clear`), the UART closed and opened (`Close`, `Open`),
and a byte lost or spoilt (`Miss`, `Spoil`).

### 2.4 ATDriver, Calypso

A line is a verdict or starts with '+' and a name. `SendRequest` is taken apart
(`Pend`, `Unname`, `CopyName`, `MeasureName`, `Transmit`), since the interrupt
compares lines with the command name while it is written; `WaitForConfirm` is
`Arm`, `Poll`, `Timeout`, `Confirm`; `Proceed` is what the function does with the
response: the next chunk of the loops of Read, Write and SendTo, the next
request, or the end. `world` says what may happen: answers that are `late` or `fast`,
and lines that are taken for a response before the request is sent: `stale` in the
delay of `SendRequest`, while the name of the command before is still pending,
`anytime` while the name is copied, too. `Calypso` lists each
function of `ATCommands` by the requests it makes.

### 2.5 The other drivers with cores of their own

`DaphnisI` has the three slots of `DaphnisI_events`: `HandleRxLine` puts an event
into the first free one, `WaitForEvents` empties them one by one (`ClearEvent`) and
then goes round them (`FindEvent`, `NextEvent`, `MissEvent`). Functions are again
steps: a request and its confirmation (`Ask`), a wait for events (`Await`), with or
without emptying the slots. The module sends any beginning of a dialogue, since
lines may be lost.

`StephanoI` has no response buffer: the interrupt writes through
`StephanoI_currentResponseText` into an array on the stack of the function that
waits. Pointer, size and length are three assignments (`Lend`, `Measure`, `Empty`)
and two more to take them back (`Release`, `Forget`); a function is the list of
confirmations it waits for and the size of the array it lends. Nothing at all is
assumed of the lines.

`AdrasteaI` follows `AdrasteaI_ATMode` against where the module is (`prompt`: off,
starting, its processor's menu, the AT prompt, asleep). The interrupt
(`HandleRxLineA`) sets the mode, collects every line between echo and verdict as
the response, and sends "map" when the module has started, unless
`AdrasteaI_wakingUp`. Functions are steps again: `AskA` (a request and its wait),
`Tell` (a text), `Until(mode)` (a loop without a time-out), `DoA` (pins, UART,
flags). `Set` and `Get` stand for the many functions of one request.

`SkollI` has the two slots (`receiveBuffer`), which `internal_ezsHandler` fills in
the interrupt and `Skoll_I_Wait4CNF` empties, then searches in a loop: `ClearFirst`,
`ClearSecond`, `Expect`, and `Hand`, `Discard`, `LookAgain`, `GiveUpK`. `lent` is the
slot the caller was given a pointer to. `Refuse` and `TransmitK` are
`appOutput_uarttransmit`; `pace` says whether the module answers in time or
whenever it likes. Any command of EZ-Serial is `Command`; `FactoryReset` is the
way the example does it, sending without waiting for the response.

A program uses one module, so `MCATDriver` and `MCRadios` choose one driver at the
start (`device`); the others stay as they are.

### 2.6 UartDma

The DMA controller writes circularly into `WE_dmaRxBuffer`; the idle, half and
full interrupts (`Interrupt`) pend PendSV and set `triggered`; `PendSV_Handler`
is five steps, interruptible between any two: test, clear, look at the DMA's
position, hand over byte by byte, store the position. `WE_UARTx_Init` and
`WE_UARTx_DeInit` are sequences of steps of the main thread
(`OpenSteps`, `CloseSteps`), which runs only when no handler does
(`Undisturbed`). The UARTs 1 and 6 of the F4 are 1 and 2 here. `chip` is the
platform: the L0 has the same steps for its USART1, without the trigger flag.
USART4 of the L0, reception without DMA, transmission (a polling loop), pins,
clocks other than the DMA's and delays are not modelled.

### 2.7 PrintRing

A writer is a context that calls `_write` (`pc`, `call`); contexts nest by
priority (`MayRun`), and the handler of USART2 is one of them (`isr`). `_write`
is: test of the lock, `Take` (lock, space, truncation), `Store`, `Publish`,
`Start`. The handler is: `IsrEnter`, `IsrAdvance`, `IsrCompare`, `IsrSet` (the
comparison and the store of `transferRunning` are two steps), `IsrSend`. The
UART has a shift and a data register. What lies behind the buffer, and is
overwritten by the overrun of finding 1, is not modelled.

## 3. What the runs show

| run | instance | distinct states | properties |
|---|---|---|---|
| `print_ring` | ring of 4, calls of 2 and 3 characters from two nested contexts, 7 characters | 57,045 | `OneWriter`, `FlushIsSound`, `RunningHasPower`, `Accounted`, `Drains`, `ImplementsStream` |
| `p3_functions` | every pair of functions of Proteus-III after Init | 1,673,106 | `DevicesOwn`, `AwaitedNeverDropped`, `KeepsContract` |
| `p3_link` | Init by pin and by UART, Deinit, Transmit, Set, DTMEnable; 3 link events or restarts | 888,475 | `LinkAgrees` |
| `p3_hostile` | late and early answers, lost frames, faults, restarts | 313,100 | `ConfirmedByKind`, `DevicesPointerSafe`, `DevicesFilled`, `Returns` |
| `radios` | eight drivers over the core and Skoll-I, one at a time | 1,065,815 | `FailedInitCloses`, `AwaitedNeverDropped`, `KeepsContract`; `OwnAnswers`, `PacketKept` |
| `p4` | Proteus-IV: one connection, two devices heard, a list with room for one | 1,385,298 | `ConnectionsAgree`, `PointersSafe`, `CountIsRight` |
| `at` | Calypso, Daphnis-I, Stephano-I, Adrastea-I, one at a time | 558,163 | `Truthful`, `CountsBytes`, `ErrorIsOwn`, `OwnResponse`, `ResultsKept`; `EventsTruthful`; `BufferSafe`; `AnswersAgree`, `TakesRequests`; `AllReturn` |
| `frames` | the five parsers, bytes of 3 bits | 718,585 | `WholeFrames`, `Resumes` |
| `uart_one` | F4 and L0; one UART, ring of 4, 9 bytes, 3 sessions | 104,300 | `TypeOK`, `ReachesDriver`, `ImplementsStreams` |
| `uart_two` | two UARTs, ring of 3, 3 bytes a session, 3 sessions | 1,758,426 | `NothingLeft`, `HandlerReady`, `ImplementsStreams` |
| `print_overrun` | as `print_ring` | | finding 1 |
| `frames_long` | one frame with the longest data | | finding 2 |

**The abstract specifications.** `ByteStream`: what is accepted comes out once and
in order, and may be dropped only where the code says so. `PrintRing` implements
it (`ImplementsStream`), and each UART of `UartDma` does (`ImplementsStreams`).
`CallContract`: what a caller may rely on. `CommandDriver` implements it
(`KeepsContract`), with the tables of Proteus-III in `p3_functions` and of eight
other drivers in `radios`: "@return True if request succeeded, false otherwise" is
true of the functions in these tables, whatever the calls before them left behind. Two
functions of Metis (`Unconfirmed`) are modelled and not called (`Untold` = {}), since it is
false of them (section 5): `SetVolatile_ModePreselect`, and `GetMultiple` from an address
that is none of the six settings `HandleRxPacket` knows. `radios` has `GetMultiple` from
one of the six.

**The other properties** are stated with what they are about in the modules. They
are of four kinds. *What a caller is told*: `Truthful`, `CountsBytes`, `ErrorIsOwn`,
`OwnResponse`, `EventsTruthful`, `AnswersAgree`, `OwnAnswers`, `DevicesOwn`,
`CountIsRight`, `ConfirmedByKind` (what is left of the contract in the worst case).
*What the interrupt may write to*: `DevicesPointerSafe`, `PointersSafe`, `BufferSafe`,
`PacketKept`, `ResultsKept`, `OneWriter`. *What two parties know of each other*:
`LinkAgrees`, `ConnectionsAgree`, `TakesRequests`, `HandlerReady`, `RunningHasPower`,
`FailedInitCloses`. *What must come*: `AwaitedNeverDropped`, `NothingLeft`,
`WholeFrames`, and the liveness properties `Drains`, `ReachesDriver`, `Resumes`,
`Returns`, `AllReturn`.

**Bounds.** *Print*: a ring of 4 is the least in which a call of 3 fills it, one of
2 splits at the end, and both are truncated; 7 characters go round it nearly twice.
*DMA*: 9 bytes go round a ring of 4 twice with up to 3 in one delivery, so that one
wraps inside; the ring of 3 in `uart_two` wraps once per session. *Drivers over
`CommandDriver`*: `Slots` = 2 is the real size of `cmdConfirmationArray` (Thyone has
3, Proteus-IV 10: less makes dropping likelier); `MaxCount` = 1 is one delay before
giving up, since a longer wait only repeats the same poll. Two calls after Init are
enough for one to leave something for the next; `p3_functions` takes every pair, and
`radios` takes three calls where a driver differs most (Tarvos-III, Metis-e, Thyone-e)
and two elsewhere. `MaxIndications` = 2 lets a link come up (two frames), 3 lets it
go again. *Proteus-IV*: two devices and a list of one (32 in the source) overflow it.
*AT*: three bytes in chunks of two make a full and a partial chunk; one event, one
lost line or failed UART; two polls. In the world where the module answers at any
time five functions stand for the eight (`Unpaced`), one of each way through its
requests. Daphnis-I has its real three slots. Stephano-I is unbounded but for lines
of 4 and arrays of 0, 2 and 3 bytes. Adrastea-I's four calls put it to sleep, wake it
and then need a prompt. *Skoll-I*: three calls of any function with a module in time,
of three functions with one at any pace. *Frames*: a byte of 3 bits is wide enough for
a start byte, a command and a length with data, and for the count of a longer frame
to wrap.

**Assumptions of passing runs.** Each is a constant that a run sets, or a guard in the
module with a comment, and each is needed: section 5 says what fails without it.

* Print: contexts are less urgent than the USART interrupt, and the UART finishes at
  most one character during a call (`Calm`).
* UART: the host keeps up (`MaxLead`; the code cannot notice otherwise), and a UART is
  closed only when the other is (`Together` FALSE).
* Core: answers are neither later than the caller's patience nor faster than its next
  step (`LateAnswers`, `FastAnswers` FALSE; `p3_hostile` has both TRUE), and a peer
  connects when Init has returned (`EarlyLinks` FALSE). In `radios` Metis-e sends
  nothing unasked (`QuietMeter_MC`), and `LeavesOpen` exempts Metis from
  `FailedInitCloses`; two of its functions are not called (`Untold`).
* Proteus-IV: a caller that lent its list stops the scan before it lends another or
  closes the driver; a module that has confirmed the end of a scan sends no SCAN_IND (one
  that did could add an entry after the count of ScanStop); a CONNECT_IND with a failure
  carries the invalid ID; a module that ignores the reset pin counts as deaf; after a
  changed baud rate the list is not followed until the next Init.
* AT: `world` = {} for `Truthful`, `CountsBytes`, `ErrorIsOwn` and `OwnResponse`: answers are
  neither late nor fast, and before a request is sent, in the delay (`Calypso.c:355-370`)
  and while the name is copied (`:371-379`), no line comes that would be taken for its
  response; other events do come then. Daphnis-I:
  the module sends nothing before it is awaited and nothing after (`Prompt`, `Late` FALSE),
  and at most one foreign event. Adrastea-I: a wake-up succeeds (`Unwoken` FALSE), no line
  comes after the caller gave up (`Overdue` FALSE), the lines that tell of a new prompt are
  not lost, the module takes longer between two of them than the main thread between two
  looks, a caller wakes only a module that sleeps and does not call Init by UART on one.
* Skoll-I: no event comes between the emptying of the slots and the setting of the type
  (`Crossing` FALSE).

**Deadlock** is not checked (`CHECK_DEADLOCK FALSE`): a caller may stop calling, and the
bounds stop every behaviour. That nothing hangs is what the liveness properties say.

**Fairness.** The main thread's steps while a function runs are weakly fair: the
processor executes them as long as interrupts do not take all of its time. For `Returns`
that is all: nothing is assumed of the module. `AllReturn`, for Calypso, adds the receive
interrupt and a module that comes up and answers what it received (its loops over chunks
go on as long as the module moves something); for Adrastea-I, that the module starts
and its lines arrive, without which its loops do not end. `Drains`: each call under way,
the USART's shifting and its interrupt. `ReachesDriver`: PendSV and the interrupts, which
are taken in the end because nothing masks them, and the idle line, because a sender
pauses in the end. `Resumes`: the receive interrupt, and a module that goes on sending.
Steps of callers are nowhere fair.

## 4. What is proved

By TLAPS, for every value of the constants that the ASSUMEs admit:

* **PrintRing_proofs**: `Invariance` of
  `IInv == TypeOK /\ Nesting /\ Balance /\ Transfer /\ Calls`, and from it `TypeCorrect`,
  `FlushSound`, `RunningPowered`, `AllAccounted`, `LockExcludes`; `IsStream`
  (`Spec => ImplementsStream`): the ring implements `ByteStream`. They assume `Calm`. For the
  refinement `Order` says that the cell at distance d from the read position holds the
  d-th of the characters that were stored and not sent.
* **UartDma_proofs**: `TypeCorrect` and `HandlersReady` (`[]HandlerReady`) for every order in
  which drivers open and close their UARTs: `Stages` is the table of what is set up at each
  step of opening and of closing, `Ready` that no byte is handed over before the handler is
  set. `Invariance`, `NoneLeft` (`[]NothingLeft`) and `AreStreams` (each UART implements
  `ByteStream`) assume that the UARTs are not closed while another is used
  (`Together` FALSE, section 5). `Data`: the unread cells of the buffer hold the bytes that
  came since the last position, and the handler was given those before; `Noticed`: bytes
  not yet handed over have an interrupt or PendSV still to come; `Clocked`: an open UART has
  the DMA clock. The number of UARTs, the size of the buffer and the platform are
  arbitrary; the host keeps up (`MaxLead`).
* **CommandDriver_proofs**: `TypeCorrect`; `Confirmations` (`Spec => []ConfirmedByKind`). The
  tables are arbitrary but for `ScriptAssumption` (a function waits only after it has
  cleared all slots); the module, its speed and the line are unrestricted.
  `ConfirmedByKind` speaks of a call that has returned; `Progressed` strengthens it to
  every step a running call has behind it: a slot cleared since holds nothing or
  something recorded since (`Recent`), a wait passed has its confirmation in `seen`. The
  inductive invariant is `TypeOK /\ Progressed /\ ConfirmedByKind`.
  For drivers that make one request at a time (`Serial`) and modules that answer in time
  (`Timely`: not late, not fast, no restarts): `Invariance` of
  `Inv == TypeOK /\ Requesting /\ Powered`, and from it `AwaitedKept`
  (`Spec => AwaitedNeverDropped`, lost frames, faults and indications included) and, if no
  frame is lost and nothing else fails (`MaxFaults` = 0), `ContractKept`
  (`Spec => KeepsContract`, the refinement of `CallContract`). Neither follows from what the
  array alone holds: a slot may be free although an answer is under way. So `Requesting`
  says where the whole of it is: the request is unread (`Unread`), or the module has
  decided, and the frames of its answer have arrived, are on the line in this order, or
  are still to be sent (`Flight`); those that arrived fill the slots from the first on,
  as far as these were reset (`Filled`); when the last look at the array has begun,
  nothing is to come (`Expired`); between requests and after a failure the line carries
  only what was sent unasked (`Quiet`), so that nothing is left for the next call.
  `Powered` is when the UART is open. A first attempt showed that `Outcome` was written
  with overlapping arms of a CASE, which TLC reads in order and TLA+ does not.
* **ProteusIII_proofs**: `Implements` (`SpecP3 => Spec`: the driver with its own state and
  link is an instance of the core; the step simulation needs that `mode` has its type),
  hence `DriverConfirmations`, and, since its table is `Serial`, `DriverAwaitedKept` and
  `DriverContractKept` for modules that answer in time; `TypeCorrectP3`.
  `PointerSafe` (`[]DevicesPointerSafe`): `PointerHeld` says that the pointer is set only at
  the positions of `GetDevices` between its first step and its last; it needs that each of
  these steps fails to the resetting one, and that no other table sets the pointer
  (`Harmless`, proved of all 39 scripts).
  `DevicesAreFilled` (`[]DevicesFilled`), without any condition on the module: while the
  structure is lent, no list reaches a slot the call has reset without reaching the
  structure (`Lent`). `DevicesAreOwn` (`[]DevicesOwn`) for modules that answer in time: that
  a list on the line is of this call is what `Requesting` of the core says of it.
  `LinkKnown` (`[]LinkAgrees`), if the driver is `Undisturbed`: what the module sends is
  neither late nor lost, no peer connects before Init has returned, and Init resets by the
  pin. What `bleState` will become (`Becomes`) is said by the last frame on the line that
  tells of the link, or else by what it is now; `Following` is that this is the state of
  the link, or the module has still to report that it has none; `Starting` that from the
  falling edge of the reset pin on there is nothing in the module or on the line that
  speaks of a link (`Cold`). That only Init touches the pin, the UART and `bleState` is
  `LinkAssumption`, which TLC evaluates for the table. Init by UART (`p3_link` checks it) is
  not covered: it asks a module that may still have a link and be about to report it.
* **ATDriver_proofs**: `Invariance`, `TypeCorrect` (the offset of a chunk stays below the size
  of the data), `KeepsResults` (`ResultsKept`): `requestPending` is down between calls, on
  every way out of every function. `TruthHolds`, and from it what the driver tells its
  caller in the world {} of section 3, where the module answers in time and no line that
  would be taken for the response comes before the request is sent: `TellsTruth` (`Truthful`), `Counts` (`CountsBytes`),
  `TellsOwnError` (`ErrorIsOwn`), `ReadsOwnResponse` (`OwnResponse`). None of the four is
  inductive, since each speaks of one moment of a function. `TInv` adds the whole way of a
  request (`Story`: being prepared, waiting, responding, granted and parsed, or denied and
  refused; at each stage what lies in the module, on the line and in the driver), that
  the requests behind the current one are settled (`Underway`), and how far the data of a
  loop over chunks have been moved (`Reached`). A chunk of a file without a byte is
  granted but not settled: there Read returns false. The tables are arbitrary but for
  `TableAssumption`: a loop over chunks is a function of its own, and no event line can be
  taken for the response to a command that has one, which holds of the names in the
  commands of the source and which TLC evaluates for each driver's table.
  Of StephanoI: `InvarianceS` of `Placed /\ Lent /\ Measured`, where in `WaitForConfirm_ex` the
  pointer may be set and that the length the interrupt trusts is that of the array it
  points to; `BuffersSafe` (`[]BufferSafe`).
  Of DaphnisI: `EventsTellTruth` (`[]EventsTruthful`), for a module that is neither prompt nor
  late, any number of foreign events and at least three slots. `BasicD` are the places of
  the main thread and the pin; `TruthD` adds what the module has still to say and in which
  order (`LinesD`: of an older call at most its time on air, which comes first), that a
  denial and a grant are known only of what was decided (`GrantsD`), and that an event of
  the running dialogue finds a slot free unless a foreign one came (`RoomD`).
* **Radios_proofs**: the theorems of the core carry over to every driver of `Radios`:
  `RadiosAwaitedKept` (`SpecRadio => AwaitedNeverDropped`) and, with `MaxFaults` = 0,
  `RadiosContractKept` (`SpecRadio => KeepsContract`), for tables that are `Serial` and modules
  that are `Timely`. The one step the core has not, the release of Metis's reset pin, keeps
  the invariant of the core. TLC evaluates `Serial` for each table: it holds but for the
  indications of Metis-e and the functions in `Overlapping`, three of Tarvos-III and
  `Transmit` of Proteus-IV.
  `FailedInitsClose` (`SpecRadio => []FailedInitCloses`) for any module and timing, if no pin
  and not the UART itself refuses (`MaxFaults` = 0): `Undoing` says that an Init that has
  failed has closed the UART or has only steps before it that cannot fail, the closing one
  among them. That each failing step of Init leads there is `InitAssumption`, which TLC
  evaluates for the tables; Metis is the exception (`LeavesOpen`).
  Of ProteusIVLinks: `TypeCorrectP4`; `PointersStaySafe` (`[]PointersSafe`) without any
  condition on the module, the line or the pins. Its invariant `Lent` says of each pointer
  where in its function it is set, and that from there the function comes to the step
  that resets it, whatever fails on the way (`PointerAssumption`, evaluated by TLC).
  `ListIsRight` (`[]ConnectionsAgree`), again whatever the module, the line, the timing and the
  pins do. `LinksInv` says that there is a course of lists along the line (`Becomes`): from
  the list the driver has now, or from the emptied one at a STARTUP_IND on the line, each
  frame leads to the next list, and the last is what the module has (`Following`) - unless
  the module is still to announce its start, or in reset, or deaf. A driver in use follows;
  so does an Init that has passed its wait for STARTUP_IND or finds one in a slot it has
  reset since it opened the UART (`Trusted`), which is why Init must empty the list before
  it resets the array, and the array before it waits (`StartingAssumption`), and no answer to a
  request may bring news of connections (`AnswersAssumption`). The proof attempt found three
  CASEs with overlapping arms, which TLC reads in order and TLA+ does not; they are now
  conditionals.
  `CountsAreRight` (`[]CountIsRight`) for `Serial` tables (Proteus-IV's without `Transmit`), a
  `Timely` module and `MaxFaults` = 0. `CountInv` joins the core's `Inv` and `Lent` to what is
  known of a scan (`ScanInv`): a lent list has what was heard, as far as it has room
  (`Collecting`); the module scans only while a list is lent, and during ScanStart only after
  it was granted, so that a ScanStart which failed leaves no scan behind (`Scanning`); a
  module that has granted ScanStop scans no more, and every SCAN_IND on the line has an
  answer of that request behind it (`Followed`). The count is made after that answer was
  waited for, hence nothing is heard after it (`NoneToCome`) and before the pointer is
  NULL again, which is a step of its own. What ScanStart and ScanStop do
  in which order is `ScanAssumption`, which TLC evaluates.
* **OwnDrivers_proofs**, two drivers that share no core. Of SkollI: `Invariance` of
  `Shaped /\ Held /\ PacketKept`, where `Held` says that nothing is lent while a wait empties
  or searches the slots; `KeepsPacket` (`[]PacketKept`).
  `AnswersOwn` (`[]OwnAnswers`) if no event crosses the setting of the type (`~Crossing`): a
  packet of a call before is out of the slots once they are emptied, and what is in the
  second slot is of the type awaited, so that the response finds it free (`Slotted`); while a
  command is under way at most its response or the refusal is still to be sent, and once the
  response is in a slot nothing is (`Queued`); a command stays pending only if its answer is
  on its way or there will be none, and Configure, which goes on after a ping without an
  answer, sends its first command with none pending (`Pending`); the module has obeyed
  exactly if the response is in a slot or on its way (`Obeyed`). `Kinds` says of the table
  which step of which function a step can be. Hence its assumption `CalledAssumption`: the
  functions called are in the table.
  Of AdrasteaI: `AnswersTrue` (`[]AnswersAgree`) and `RequestsTaken` (`[]TakesRequests`), for any
  number of calls, events and restarts, a line lost of each answer and wake-ups that fail
  (`Unwoken`), if no answer comes after its caller has given up (`~Overdue`). Neither is
  inductive, since each speaks of the end of a function. `SureA` adds, for the way there:
  the module has done what is asked exactly if the confirmation was heard or is still to
  be (`ObeyedA`), and outside of a request it says only where it is (`TalkA`); what of an
  answer has been collected and what is still to come make up the whole of it, or lack the
  line that was lost (`QueriesA`); `AdrasteaI_ATMode` will be right once all that is said has
  been heard, from the point on where Init has reset the module (`FollowsA`); and after the
  module has confirmed a new power mode or the factory reset, no line says that it is
  ready until it is, and none follows that one (`LeadsA`), so that the second loop of
  `FactoryReset` cannot end early. (The loop of a second Init can, section 5: it then
  returns false, and `TakesRequests` claims nothing of it.) `StepKind` says of the table which step of which function a
  step can be; hence the assumption `AdrasteaICalled`: the functions called are in it.
* **FrameParser_proofs**: `Invariance` and `HandlesFrames` (`[]WholeFrames`), `TypeCorrect`, for
  every width of a byte and every frame that fits the buffer, the count and the index of
  the parser (`FramesFit`; `frames_long` is what happens otherwise). The invariant: while
  nothing is cut or spoilt, what is in the buffer and what has still to arrive make up the
  frame.

The type invariants of `PrintRing`, `ATDriver`, `FrameParser` and `ProteusIII` are proved and not
among the properties of a run.

Only model-checked: the liveness properties (fairness is out of the prover's reach);
`AwaitedNeverDropped` and `KeepsContract` of Tarvos-III and Proteus-IV, which leave a frame
under way when they return (not `Serial`); and `LinkAgrees` when Init resets by UART.

## 5. Findings

1. `global/print.c:230`: with an empty ring whose positions are not 0, a call longer than
   the rest of the buffer is stored past its end (`print_overrun`).
2. `Metis.c:362`: a frame whose data are as long as the driver's buffer allows is not
   handled, since the 8-bit count of the bytes to receive wraps (`frames_long`). The Tarvos
   family (`TarvosIII.c:374`) has the same count. In Metis-e the index of the loop that adds
   up the checksum (`MetisE.c:414`) has 8 bits and the count 16: for lengths of 257 to 260 the
   loop, and with it the interrupt, does not end.

**What the assumptions of section 3 hide.** These are why they are made; most were counterexamples
of TLC before.

| code | what happens | assumption |
|---|---|---|
| `print.c:191` | a more urgent context (an event callback in PendSV) that prints between the comparison and the store loses the wakeup | `Calm` |
| `print.c:257` | a call overtaken by the UART starts a transfer of nothing; `transferRunning` stays set for ever | `Calm` |
| `global_F4xx.c:614`, `:900` | closing one UART stops the DMA clock both use; the other goes deaf | `Together` FALSE |
| `ProteusIII.c:700` | a late answer confirms the next request of its kind | `LateAnswers` FALSE |
| `ProteusIII.c:689` | an answer before the array is reset is thrown away, the call times out. At 115200 baud it takes an interrupt that holds up the main thread for as long | `FastAnswers` FALSE |
| `ProteusIII.c:812` | a peer that connects after the module has started and before `bleState` is set to idle is forgotten | `EarlyLinks` FALSE |
| `ProteusIII.c:1203` | `rxPacket` is read when it holds a later frame | no property states it; the contract leaves out what was read |
| `MetisE.c:305` | every frame is recorded, those sent unasked too: two of them fill the slots | `QuietMeter_MC` |
| `Metis.c:252` | a GET_CNF about an address that is none of six settings is not recorded: a `GetMultiple` (`:681`) from such an address, which its header allows, times out although the module answered | `Untold` = {} |
| `Metis.c:912` | `SetVolatile_ModePreselect` waits for the confirmation of another request: it always returns false, although the module has set the mode | `Untold` = {} |
| `Metis.c:440-515` | a `Get` that fails in Init returns with the UART open | `LeavesOpen` |
| `ProteusIV.c:1538` | a second `ScanStart` lends another list; when it is refused the pointer of the first scan is lost | the caller stops a scan first |
| `Calypso.c:355-370` | `requestPending` is up, but for up to 3 ms (`:365`) the name pending is that of the command before: an event that begins like it ("+connect") is put in front of the response, and a `fileRead` that was granted returns false | "stale" not in `world` |
| `Calypso.c:371-379` | an event that comes while the command name is copied may match what there is of it, and is put into the response | "anytime" not in `world` |
| `DaphnisI.c:626` | a TxConf handled in the same batch as the OK is emptied by `WaitForEvents` | `Prompt` FALSE |
| `DaphnisI.c:299` | foreign events fill the slots and the awaited one is dropped | one foreign event, `Late` FALSE |
| `AdrasteaI.c:367-395` | a `PinWakeUp` that fails leaves `AdrasteaI_wakingUp` set: the interrupt never sends "map" again, the next Init loops for ever | `Unwoken` FALSE |
| `AdrasteaI.c:286-310` | Init by UART on a sleeping module, or one whose line about its mode was lost, loops for ever | guards of `CallA` and `SayA` |
| `AdrasteaI.c:700` | lines that come unasked between echo and verdict are part of the response | `alone` in `AnswersAgree` |
| `Skoll_I.c:100-107` | one packet takes both slots: an event after they were emptied and before the type is set lets the response be dropped, which comes before one is free again | `Crossing` FALSE |

Met while reading, and modelled as it is or left out: `StephanoI.c:392` writes the terminating
zero one past an array that the response fills. In Daphnis-I an Init whose
`GetGenericVersion` fails leaves the UART open. `AdrasteaI_ATMode` outlives Deinit and
PinReset, so that a second Init asks a module that is still starting (`:316`). An Adrastea-I
event callback that calls `SetPowerMode` or `EnableSleep` would loop in the interrupt. In
Skoll-I a command that is never answered, or could not be sent (`:176`), stays pending and
all later ones are refused until Init or PinReset. Of the frame parsers only those of the
Proteus family are cleared by PinReset and Deinit, and no time-out ends a partial frame in
any of them. Calypso's `rxByteCounter` survives Init, and a full line buffer drops the rest
of what was received with it (`Calypso.c:506-511`). `Calypso_ATFile_Read` fails when a chunk
brings no byte (`ATFile.c:599-636`): at the end of a file it returns false, with `bytesRead`
counting what was read before. Hence `settled` counts a chunk only if it has a byte.

## 6. Not modelled, and the plan

Every component is listed in `PROJECT.json`. Left aside for good: HAL, LL and CMSIS, which
are nine tenths of the lines of the repository, the generated start-up code, the vendored
JSON library, the EZ-Serial library of Skoll-I but for what the driver sees of it, the
examples, and the pin, clock and baud-rate set-up of the platform layer, which has no state
of its own. Of the drivers: the transparent and peripheral-only modes but for Skoll-I's,
the application's callbacks, early returns on arguments out of range, the bytes of AT lines
(`HandleRxByte`) and their arguments. Of the platform: transmission, USART4 of the L0 and
reception without DMA.

In this order, what could come next:

1. **AT lines**: `HandleRxByte` of the AT drivers, whose buffer, two-byte end of line and
   dropped chunks stand between `UartDma` and `ATDriver`, as `FrameParser` does for frames.
2. **Pure functions**: the AT argument formatter and parser, Base64 and the conversions of
   `global.c`, against reference definitions.
3. **Two modules at once**: the example with two drivers shares PendSV and the DMA clock.
