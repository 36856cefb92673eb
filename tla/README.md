# A verification development for CFU

This directory holds TLA+ models of the Component Firmware Update (CFU)
repository: the firmware-side engine (`Firmware/`), the stand-alone update tool
(`Tools/`), the simulated device and the Windows update driver (`Host/`). TLC
checks the models on small instances; TLAPS proves their safety properties and
both refinements (the engine implements an abstract session, tool and engine
together implement the tool on any device) for every value of the constants.
Liveness is checked by TLC alone. File names below are relative to `src/`; C line numbers are given
where a property or an action is about a particular line.

## 1. The system

CFU moves firmware images from a host to a controller, component by component.
A host *offers* an image with a short header; the controller answers accept,
reject, skip or busy; an accepted image follows as a sequence of *content*
commands, the first flagged FIRST_BLOCK and the last LAST_BLOCK, each of which is
answered. On the last block the controller verifies the image and hands it to
the component, and a bank swap (a restart) puts it in use.

| component | files | state it keeps | operations |
|---|---|---|---|
| CFU engine | `Firmware/ComponentFwUpdate.c`, `.h`, `McuStatus.h` | `s_currentOffer`, `s_bankSwapPending`, `s_updateTimer` | offer handler, content handler, timer callback, read-complete callback, initialisation |
| registration list | `Firmware/ComponentFwUpdate.c` 472-541 | `s_pFirstComponentIFace` and the links | register, version report |
| component interface, image store | `IComponentFirmwareUpdate.h`, `ICompFwUpdateBsp.h` | the store | declared only; the product implements them |
| update tool, update run | `FwUpdate.cpp` 303-672, `HidCommands.h` | input buffer and event shared by two threads, packet and sequence counters | offer, content loop, read thread |
| update tool, image file | `SrecParser.h` | the position of the stream | read the next packet, in two passes |
| update tool, program | `main.cpp`, `FwUpdate.cpp` 54-300, `HidCommands.h` 167-258 and 432-491 | settings, the list of devices found, one version report for all queries | command line, settings file, device search, version query, selection |
| virtual device | `CFUFirmwareSimulation/sys` | `DEVICE_CONTEXT`, response queue, thread event | write report, feature report, response thread, start and stop |
| update driver | `ComponentFirmwareUpdateDriver` | `FirmwareBlobCollection` | registry enumeration, module creation, open and close, file requests |
| DMF, VHF, KMDF | a submodule and Windows, not in the repository | - | - |
| packages, projects, tracing, docs | `*PackageExample`, `*.vcxproj`, `Trace.h`, `Documentation` | - | - |

How they interact. A host program (the tool, or the driver with the DMF protocol
module) sends output reports and gets input reports over HID. HID gives an
input report to *every* open handle, so hosts see each other's answers. On the
controller a transport, which is not in the repository, calls the two handlers
one at a time; the component interface is called from inside them, and calls
back with `_ReadCompleteCallback` at a time of its own choosing; the platform's
timer calls `_UpdateTimerCallback`. The virtual device plays the controller for
Windows: write callbacks enqueue responses that one thread sends.

What is hard in it:

- the callbacks of the engine clear `updateInProgress` without asking whose
  session it is, nothing takes a callback back, not even from a component that
  refused its image, and nothing stops the timer when a session ends;
- the store is protected by no session: content is taken from anyone, at any time;
- the engine forgets everything in a restart, the tool and the store do not;
- the tool identifies answers by neither token nor report id, and its read thread
  overwrites the one buffer as soon as it has set the event;
- that thread is ended by a flag and one attempt to cancel its read, which may come
  before the read has begun;
- a file that was cut off is a shorter file to the tool: it looks at no state of
  the stream but the end, and sends a record cut in its content like any other; it
  compares no length to the room it has;
- the search for devices takes a device that does not answer for one that does, and
  leaves the result of the last query where that of the search should be;
- the response thread of the virtual device gets a signal that cannot be counted;
- the driver mixes NTSTATUS and Win32 codes, and caches what it reads.

What makes each part correct:

- *engine*: an offer is accepted only when it may be, a session has a component
  and a timer and comes to an end, no other component is touched while one waits
  for its swap, and the callback of a component that took its image ends no later
  session;
- *registration*: no registration is lost, reports are complete and finite;
- *tool, a run*: a packet counts as sent only when acknowledged, success means
  installed, runs end;
- *tool, the program*: an image goes only to a device that the settings name, a
  listed version is the device's own, an index is in range, a command ends;
- *virtual device*: an answer to every command is sent or lost in the attempt, versions reported were offered,
  components are updated in turn;
- *driver*: exactly the complete pairs that can be read are announced, requests get
  the right file.

`PROJECT.json` lists the hazards by line; section 7 has those without a property.

## 2. The modules

| module | models | built on |
|---|---|---|
| `CfuSession` | what the engine promises: ready, updating, swap pending | - |
| `CfuEngine` | the engine | refines `CfuSession` |
| `SrecFile` | image files and what the tool reads from them (operators only) | - |
| `CfuTool` | runs of the tool, both threads, against any device | `SrecFile` |
| `CfuUpdate` | tool and engine together, with restarts | `CfuTool`, `CfuEngine` |
| `VirtualDevice` | the simulated device and its hosts | - |
| `CfuHostDriver` | the Windows driver | - |
| `CfuRegistration` | the registration list and the version report | - |
| `ToolSettings` | the settings file (operators only) | - |
| `CfuToolMain` | one command of the tool, from command line to exit code | `ToolSettings`, `CfuRegistration` |
| `MC*` | small instances for TLC | the module they name |
| `CfuEngineProofs`, `CfuToolProofs`, `CfuHostDriverProofs`, `VirtualDeviceProofs`, `CfuRegistrationProofs` | the theorems about the module they name | that module |
| `CfuToolMainProofs` | theorems | `CfuToolMain`, `CfuRegistrationProofs` |
| `CfuUpdateProofs` | theorems | `CfuUpdate`, instances of `CfuToolProofs` and `CfuEngineProofs` |
| `NaturalFacts` | least members and induction over the naturals, for the proofs about files | - |

Definitions whose name ends in `Slip` (and a few others introduced by "Slip:")
are plausible mistakes in the code. No specification uses them; each property is
checked to fail when one of them stands in for the definition it varies.

### CfuEngine

The handlers run on one task and do not overlap (lines 161, 337); the two
callbacks run elsewhere and may come between any two statements. A handler is a
single action where no callback can tell the difference. It is several where one
can: an accepted offer is `OfferPresented` (the decision), `OfferArm`
(`BSP_Timer_Restart`, line 450) and `OfferCommit` (lines 451-453); a last block that
verifies is `ContentLastHandOver` (up to `NotifySuccess`) and `ContentSwap`
(line 301 and the answer). `pc` says which is next.

| action | code |
|---|---|
| `OfferBusy`, `OfferGetStatus`, `OfferSwapPending` | the early returns, 363-400. A special command other than GET_STATUS escapes the swap-pending test, as the `else if` chain has it |
| `OfferUnmatched` | the loop finds no registration: the response is not written, so any value |
| `OfferPresented` | the component decides (any status); `Decision` is the reversal at 436-443 |
| `ContentFirst`, `ContentMiddle` | 178-194, 315-321 |
| `ContentLastRefused`, `ContentLastHandOver` | 196-314; `Verification` has the order of the checks |
| `ReadCompleteCallback` | 115-119, any time, any number of times |
| `ExpireAtOnce`, `ExpireQueued`, `UpdateTimerCallback...` | the timer, see below |
| `Reset` | a restart: the statics are zero, the store is kept |

Lines 123-126 leave the protection of the timer callback to the developer and
name two ways. `timerTask` holds which way the platform has gone: the timer task
has the highest priority ("highest"), the callback is a critical section
("guarded"), or neither ("bare", the code as it stands). It is chosen once, in
`Init`, from the constant `TimerTasks`.

`readComplete` says who may hold `_ReadCompleteCallback`. The handler hands it out
with `NotifySuccess` (line 288), before it knows the result, so a component that
refuses the image may keep it as well as one that takes it ("refused", "taken");
either may call it at any time and any number of times. "outlived" is a callback of
a component that took its image and has seen another session accepted.

Data. An image is a value and consists of a block per address; a store maps
addresses to the image the block is from, or "erased". The CRC comparison is taken
to succeed on a whole image and to fail on any other: a CRC that collides is out
of the model. A failed write leaves the old block or none.

### SrecFile, CfuTool and CfuUpdate

`SrecFile` is `ProcessSrecBin`: a file is a sequence of records, of which the
last may have been cut inside its content or inside its header. A record whose
length reads as zero ends the file. In a cut header the length is what the read of
the address left in the buffer, the lowest byte of the address
(`LengthRead`): records at addresses that end in a zero byte end the file, others
make a packet of what happens to be in the buffer. Nothing compares a length, read
from the file or left over, to the 52 bytes of a packet: beyond them (`Overruns`)
`memcpy_s` calls its invalid parameter handler, and the process ends (`Abort`). A
length beyond 64 has written past the buffer on the stack before that; the model takes
it, too, to end there.

`CfuTool` has a program counter for each of the two threads of a run. A wait
that times out is `OfferTimeout` (the run is given up); the wait for a content
answer repeats, and its timeouts are stutters. `OfferStatusIn`, `StatusIn` and
`SequenceIn` say what the tool reads through the wrong layout: zeros, and zero is
SUCCESS. `CountPacket` and `CountEnds` are the first pass over the file, `Rewind` the
two calls that set the stream back (548-549), `SendPacket` a step of the second pass,
`AllSent` the comparison at line 639. The file is taken not to change while the
tool runs. `DeviceAnswers` is any device that takes commands in order.

The end of a run is three steps: `Exit` sets `TerminateThread`, `CancelRead` ends a
read that is under way, `CloseHandles` closes the handles. The read thread tests the
flag for the last time in `ReadAgain` (HidCommands.h 423) and is in `ReadFile` with
`BeginRead` (309); a read that begins after the cancel is "late". The handles are
synchronous, so closing one may wait for the late read (`CloseWaits`): the
specification lets the close happen, and assumes no fairness of it.

`CfuUpdate` replaces that device by `CfuEngine`: `Dispatch` takes the head of
`commands` into a handler, `HandlerRunsOn` are its further steps, `CallbackRuns` the
timer and the component, and `SendAnswer` broadcasts the response when the handler
is back at "idle". A packet writes the block at its offset from the first; a cut
record writes a block of no image. A restart loses the command in the works, and
the queue of later ones stays with the host. `ToolSpec` says that the composition
implements the `CfuTool` specification: what is shown of the tool alone holds with
the engine. The variables `granted` and `installed` are history.

### VirtualDevice

`WriteReport` is the callback up to the completion of the write (line 227);
`WorkReady` (line 235) comes any time after, and by then the host may have sent
its next command. `workReady` is the auto-reset event of DMF's thread module,
`Wake` the wait that takes it, `ResponseThreadWork` the work callback, which
dequeues once and sends. A response that cannot be sent (CfuDevice.c 369-377) is lost,
as it has left the queue; `unsent` is a history variable and holds the hosts this has
happened to. `WriteFails` is a write that completes with an error. `DeviceAdd`
and `PrepareHardware` may fail, which leaves a device that is not started. The hosts
are as well behaved as the tool: they wait for answers, and send content after an
acceptance.

### CfuHostDriver

`phase` follows the device from `EvtDeviceAdd` (configuring, enumerating) to the
transport's open and close. `Faults` says what may fail; where the code mistakes a
failure for success (`QueryInfoKeyFails`, `EnumKeyFails`) the action does what
the code then does with the variables it finds unset or zero. The file cache is
`contents` in each member of `collection`; `FileContentRead` gives the results of
that function with the memory object it leaves behind, `Buffer` the buffer that a
request returns. Two history variables: `misread` has the subkeys that could not be
read, and `asked` the pair and the kind of file of the last request. A subkey whose
values cannot be read is skipped; one that cannot be opened (Registry.c 205-212) ends
the enumeration with an error, and no module is created (`EnumKeyFails`).

### CfuRegistration

The push on the list is two actions, for the two assignments (537-538); `MayEnter`
is the critical section that the comment at 529-535 asks the developer for. The
walk is one action a registration. `opening` is the registration whose version
comes first in the report, the one that the tool reads. The module has a
specification of its own (`RegistrationSpec`), and `CfuToolMain` takes its actions
over.

### ToolSettings and CfuToolMain

| `place` | actions | code |
|---|---|---|
| "start" | `Tmain` | `_tmain`, and the tests of argc in `FwUpdateMain` and `FwUpdateVersionRequest` |
| "settings" | `ReadSettings` | `ReadProtocolSettingsFile`; `ToolSettings` has its loop as a function of the number of lines read |
| "list" | `GetInterfaceList` | `RetrieveDevicesWithVersions` 76-117 |
| "query" | `GetVersionFails`, `GetVersionUnanswered`, `GetVersionFixed`, `AskController` | one turn of the loop at 122-144 with `GetVersion`: an exit with a failure; no feature report, which is no failure; a report; a request to the engine |
| "asked" | `ControllerAnswers`, `ControllerFails` | the engine has written its report, or the request fails earlier |
| "query" at the end | `EndOfList` | 146-154 and the two callers |
| "select" | `DeviceSelectAuto`, `EnterNumber`, `EnterWord`, `EnterNothing` | `DeviceSelect` |
| "update" | `Update` | `FwUpdateOfferSrec` as one step; `CfuTool` has its steps |
| "waiting" | `UpdateWaited` | an update that waits for an answer to content (FwUpdate.cpp 590-625), or for a handle to close; it may end, and need not |
| "ended", "undefined" | - | the exit code is `ret`, "aborted" where an overlong record took the process down; an index was out of range |

A HID interface is what the search asks about it: ids, usages, feature values,
report length. One of kind "controller" has the engine: while it writes the report,
its tasks may register (`FirmwareRuns`). `EnterNothing` is input that fails `std::cin`
without a number: the prompt is then repeated without end.

## 3. The runs

| run | instance | states |
|---|---|---|
| `engine` | 2 components, one of them without CRC, 1 image of 2 blocks, offers for both, for an unknown and the special id, all three timer tasks | 108640 |
| `tool` | 1 run, 15 files of up to 5 packets, whole, damaged or overlong, sequence numbers modulo 4 | 6290 |
| `update` | 1 run, 8 files made of an image of 3 blocks, sequence numbers modulo 2, 2 restarts | 51473 |
| `virtual_device` | 1 host, 3 ids, 2 versions, 7 commands, 1 stop | 51821 |
| `host_driver` | 3 subkeys of which the middle one is incomplete, files of 2 reads, everything may fail, 1 restart | 13658 |
| `tool_main` | 6 command lines, 7 settings files, 5 lists of interfaces, 5 entries, 2 registrations by 2 tasks | 95765 |

What they show:

- `engine`: `TypeOK`; a component that took its image never ends a later session
  with its callback (`NoStaleCompletion`); the null pointer of line 288 is never used
  (`SessionIsRegistered`); while a component waits for its swap no other is written to
  or handed an image (`SwapIsOfOneComponent`); with a timer task that nothing
  delays every session has its timer (`SessionIsTimed`) and ends (`UpdateEnds`);
  and the engine implements `CfuSession` (`SessionSpec`).
  `NoStaleCompletion` rests on line 301, which the comment at 293-295 calls optional
  for some components: without that line (`ContentSwapSlip`) a component's late
  callback ends whatever session is in progress. It cannot be said of a component
  that *failed* `NotifySuccess`: no swap is pending then, the next offer is accepted,
  and if the component has kept the callback it can end that session. The model has
  this behaviour, and the interface (`IComponentFirmwareUpdate.h`) says nothing of it.
- `tool`: no packet is counted that was not acknowledged, the report examined is
  the answer waited for, the result tells a finished delivery of the file from a
  broken one (`ResultTellsDelivery`), the second pass over it finds what the first has
  counted (`PassesAgree`: the stream is cleared of its failure and set back), and
  both threads end when the device answers (`RunEnds`), unless the read thread has
  missed the cancel: then the late read, and closing its handle, may wait for a report
  that never comes, as the code does.
- `update`: success is reported only of an image the engine has verified and
  handed over, whatever the timer, the component and two restarts do in between
  and although the tool takes a file that was cut off for a whole one; content is
  sent only after an acceptance of one's own offer; and unless the controller
  restarts every run ends as `RunEnds` says (`RunEndsUnlessRestarted`): the tool waits for a content
  answer without end, and the engine answers every command, in whatever state its
  timer and its components have left it.
- `virtual_device`: for a lone host an answer to every command is dequeued, and sent or
  lost because it could not be sent (`EveryCommandIsAnswered`); offers are refused for a
  pending swap only when both components are updated; a version report shows the
  default or what was offered for that component.
- `host_driver`: announced pairs have both names and the order of the registry
  (`PairsAreNamed`); once the modules exist, each complete subkey that could itself be
  read is announced (`EveryCompletePairIsOffered`): one that yields nothing, or cannot be
  read, costs only itself. One that cannot be opened costs all the others, and the
  modules are not created. What a request returns is of the pair and the kind that
  it asks for (`ServesTheRequestedFile`).
- `tool_main`: a version report is a snapshot of the registrations, and ends, while
  tasks register (`ReportIsSnapshot`, `ReportEnds`); a device is listed with its
  own version or none (`ListedVersionIsItsOwn`; the report is cleared for each device,
  and nothing else keeps an older answer out); the list of devices is indexed out of
  range only when Windows knows no HID interface at all (`IndexIsInRange`); an image
  goes only to a device of the vendor, product and usage page in the settings
  file (`TargetIsNamed`; a device whose vendor id is zero is matched by that zero alone,
  FwUpdate.cpp 192 and 205, and its product is then not compared); a command ends
  (`CommandEnds`) but for the index out of range, a prompt over an input stream that
  has failed, and an update that waits for ever.

Six runs are expected to fail. Each checks one sentence of the sources.

| run | what is said | what happens |
|---|---|---|
| `engine_busy` | ComponentFwUpdate.c 446: the timer makes sure "the FW does not wait forever" | an update ends, its timer runs on and expires; the callback is held up; the next offer is accepted and restarts the timer; the callback runs between lines 450 and 451 and stops it; the session then has no timer. A critical section around the callback does not help, as the handler has none. Only the highest-priority task of lines 124-126 does (run `engine`) |
| `engine_pending` | 298: the flag ensures that the engine "will not accept another image until the swap occurs" | a content command with FIRST_BLOCK, no offer before it, erases the image that waits |
| `update_rerun` | FwUpdate.cpp 315: "if the offer is accepted deliver the payload" | a run times out before its ACCEPT comes; the next run reads that ACCEPT |
| `update_empty` | FwUpdate.cpp 641: success is refused when "there were no content packets to send in the file" | a file that yields no packet: 0/0 is a NaN, which is not below 100, and the result is TRUE |
| `vdev_answers` | CfuDevice.c 19: "Trigger the consumer to process the buffer" | two hosts write, the event is set twice and taken once, one response is left |
| `driver_read` | Firmware.c 264: PayloadGet "returns contents of payload file" | a read fails half way; the next request is served the half |

Bounds, and why they are enough. In the engine, two components let a callback of one
meet a session of the other, and an image wait while the other is offered one; one of
them asks for no CRC. One image of two blocks is whole, in part or erased; mixtures of
two images are the matter of the proofs. The unknown id stands for all that are not
registered. Five packets with
sequence numbers modulo 4 pass a wrap, as do three modulo 2. Two restarts can hit the
session and the retry of the same run. The files are the whole image and each way in
which it may have been damaged, at the first packet, in the middle and at the end;
their addresses end in a zero byte or not, which is what a cut header depends on.
`Blocks` is the size of the image that the file should have held, and `AddressModulus`
stands for 2^32, `CountModulus` for the 2^8 of a component count. The lists of
interfaces have no interface, none that matches, one and two controllers, and devices
with versions of their own among others that are too short, of another product or of
another usage page; the settings files leave out or repeat each tag that the search
depends on, and have a line that is too long. Seven commands update both virtual
components (offer, content, last block each) and send one more offer. Three subkeys
put a bad one between two good ones. No run has symmetry. Bounds are constants:
`Restarts`, `Commands`, `Walks`. The bounded runs (`tool`, `update`, `virtual_device`,
`host_driver`, `tool_main`) stop when the bound is spent or the program has ended, so
deadlock is not checked in them; it is checked in the engine's.
The file of the run `tool` whose last header is cut at address 105 is one in which a
left-over byte is taken for a length that no packet holds.

Fairness, and why the code justifies it.

- `engine`: a handler that has begun runs on, and the timer keeps time. Nothing is
  assumed of hosts, components or restarts: an update ends although its host is gone.
- `tool`: both threads run, and the device answers. Without the last the wait at
  590-625 is endless, which is how the code is written. Nothing is assumed of a
  `CloseHandle` while a read is under way.
- `update`: both threads run, and so does the engine's task: it takes the next
  command, finishes a handler, sends the answer. Nothing is assumed of the timer or of a
  component.
- `virtual_device`: a callback that has enqueued sets the event, and the thread
  runs when it is set.
- `tool_main`: the program runs, the handler of the version report runs on, and a
  user who is asked for a number gives one that is shown at some time. An update that
  waits is not assumed to go on.

## 4. What is proved

Each theorem holds for every value of the constants that the module's named
assumptions allow: any sets of ids, images, addresses, files, settings, hosts, tasks,
any moduli and bounds. The assumptions are the ranges of the constants and that a
mark for "none" is none of the values (`ToolAssumption`, `IdAssumption`,
`DataAssumption`, `TimerTaskAssumption`, `UpdateAssumption` with `PartsAssumption`,
`VirtualDeviceAssumption`, `DriverAssumption`, `RegistrationAssumption`,
`MainAssumption`). TLC evaluates them in every run. Where a theorem needs more, the
hypothesis is in its statement and explained below.

| module | theorem | statement |
|---|---|---|
| `CfuEngineProofs` | `Invariance` | `Spec => []IInv` |
| | `TypeCorrect` | `Spec => []TypeOK` |
| | `CompletionIsNeverStale` | `Spec => []NoStaleCompletion` |
| | `SessionsAreRegistered` | `Spec => []SessionIsRegistered` |
| | `SwapIsOfOneComponentCorrect` | `Spec => []SwapIsOfOneComponent` |
| | `SessionsAreTimed` | `Spec => []SessionIsTimed` |
| | `EngineImplementsSession` | `Spec => SessionSpec` |
| `CfuToolProofs` | `Invariance` | `Spec => []IInv` |
| | `TypeCorrect` | `Spec => []TypeOK` |
| | `ResultTellsDeliveryCorrect` | `Spec => []ResultTellsDelivery` |
| | `PassesAgreeCorrect` | `Spec => []PassesAgree` |
| | `OneInvariance` | `OneRun /\ Spec => []OneInv` |
| | `NoPhantomAcknowledgementCorrect` | `OneRun /\ Spec => []NoPhantomAcknowledgement` |
| | `ReadsItsAnswerCorrect` | `OneRun /\ Spec => []ReadsItsAnswer` |
| `CfuUpdateProofs` | `Invariance` | `Spec => []IInv` |
| | `UpdateImplementsTool` | `Spec => ToolSpec` |
| | `TypeCorrect` | `Spec => []TypeOK` |
| | `EngineKeepsItsGuarantees` | `Spec => [](Engine!NoStaleCompletion /\ Engine!SessionIsRegistered /\ Engine!SwapIsOfOneComponent)` |
| | `DeliversOnlyIfAcceptedCorrect` | `OneRun /\ Spec => []DeliversOnlyIfAccepted` |
| | `SuccessMeansInstalledCorrect` | `OneRun /\ FilesHavePackets /\ 0 \notin Registered /\ Spec => []SuccessMeansInstalled` |
| `CfuHostDriverProofs` | `TypeCorrect` | `Spec => []TypeOK` |
| | `PairsAreNamedCorrect` | `Spec => []PairsAreNamed` |
| | `EveryCompletePairIsOfferedCorrect` | `Spec => []EveryCompletePairIsOffered` |
| | `ServesTheRequestedFileCorrect` | `Spec => []ServesTheRequestedFile` |
| `VirtualDeviceProofs` | `TypeCorrect` | `Spec => []TypeOK` |
| | `SwapPendingCorrect` | `Spec => []SwapPendingMeansAllUpdated` |
| | `ReportedCorrect` | `OneHost /\ Spec => []ReportedWasOffered` |
| `CfuRegistrationProofs` | `RegistrationInvariance` | `Guarded /\ RegistrationSpec => []RegistrationInv` |
| | `RegistrationTypeCorrect` | `Guarded /\ RegistrationSpec => []RegistrationTypeOK` |
| | `ReportIsSnapshotCorrect` | `Guarded /\ RegistrationSpec => []ReportIsSnapshot` |
| `CfuToolMainProofs` | `RunsTheRegistration` | `Spec => RegistrationSpec` |
| | `ReportedToTheTool` | `Guarded /\ Spec => []ReportIsSnapshot` |
| | `TypeCorrect` | `Guarded /\ Spec => []TypeOK` |
| | `ListedVersionCorrect` | `Spec => []ListedVersionIsItsOwn` |
| | `IndexCorrect` | `Spec => []IndexIsInRange` |
| | `TargetCorrect` | `Spec => []TargetIsNamed` |

So every state invariant of a passing run is a theorem as well.

### The engine

None of the four invariants is inductive by itself. That a callback that came with a
taken image is never stale needs to know when one is out: `SwapGuard` says that an image
is handed over, and such a callback held, only while a swap is pending or the handler is
about to set it (pc = "swap"), and that no offer is under way then. The callbacks of
components that refused are left free. `HandOverGuard` says that the image on its way is
whole, for any `CrcExempt`. A pending swap keeps ordinary offers out, and the special id, which
the test lets through, is not registered. That a session is timed needs the moment
between lines 450 and 451: `TimerGuard` says that there the timer is already running,
on a platform whose timer task is the highest. `IInv` is the conjunction of these three
with the state invariants. Each action has a lemma that it preserves `IInv`; the
callbacks' lemmas are short since a callback only ever clears the flag. For the
refinement, `OfferCommit` is `Accept`, `ContentSwap` is `Complete`, `Reset` is `Reset`,
whatever clears the flag is `End` or a stutter (a swap that is pending hides it), and
all else stutters; `SwapGuard` is what excludes an `Accept` from any phase but "ready".

### The tool

Two invariants. `IInv` holds of any number of runs. Its core is `RunGuard`: a run's
stream is as far as its acknowledged packets, or one packet further while it waits for
an answer; the count of the first pass is `PacketCount` of its file; and `ret` is set
only when the stream is at the end of what the file yields. A run that a record
too long has ended has no result, and nothing is said of it. `PacketsAreCounted` says
of `PacketCount`, which is a `CHOOSE`, that it is where the first packet is
missing, and that all before it are there; so both passes find the same packets
(`PassesAgree`), however the file was cut and whatever lengths its records claim.

`OneInv` is for a run that has the device to itself. `AnswerGuard` follows the one
command that is under way: it is with the device (`WithDevice`), its answer waits to be
read (`Waits`), has been read into the buffer (`IsRead`), or is signaled
(`IsSignaled`), or the device will not answer (`Quiet`). Between those places it moves
one step at a time, so nothing overwrites the buffer between the event and the look at
it, and the acknowledgement that is counted is the one that the device has counted in
`accepted`. TLC checked this invariant first, with a device that loses commands.
`OneRun` is needed: runs that share a device read each
other's answers, which is the finding of the run `update_rerun`.

### The tool against the engine

`CfuUpdateProofs` has both modules of proofs as instances and shows that each
lemma applies: a step of the composition is a step of the engine (`EngineStep`), of the
tool, or of the device that the tool takes for granted (`ToolNext`). The link is
`ServingGuard`: the engine is away from "idle" only while it works on the head of the
commands, on the branch for that command's kind, and leaves a response of that kind when
it is back. It gives `UpdateImplementsTool`: `SendAnswer`, and a restart in the middle of
a command, are `DeviceAnswers`, all other steps of the engine are stutters.
`CfuTool`'s process that goes down on a record too long is a step of the tool and
leaves the engine alone. For the engine, commands from the tool write at any address and with content of no image;
the lemmas of `CfuEngineProofs` are stated for those too.

`DeliversOnlyIfAcceptedCorrect` follows every acceptance on its way from the engine to the
buffer of the tool (`GrantInv`). `SuccessMeansInstalledCorrect` follows the answer to the last
block: `EngineSaysInstalled` says that the handler leaves SUCCESS for a last block only when the
image has been handed over, `AnswerSaysInstalled` that the report, wherever it is, and the
count of acknowledged packets say it only then; and a last block is what the tool sends
exactly when one packet is left (`Final`). A session may time out or be forgotten on the
way: content is taken all the same, and what counts is that the last block was verified.
Three hypotheses:

- `OneRun`, as above (`update_rerun`);
- `FilesHavePackets`: a file that yields no packet is a success without a delivery
  (`update_empty`);
- `0 \notin Registered`: before the first acceptance and after a restart the active
  component is zero. If that is a component, a restart in the middle of an update sends the rest of
  the image to it, and an answer COMMAND_READY, which the tool takes for an
  acceptance, all of it: the image is then verified and handed over, though not to the
  component it was offered for. TLC finds this on the instance of the run `update` with zero
  registered.

### The virtual device, the driver, the list, the program

- `VirtualDevice`: `SwapPendingMeansAllUpdated` is inductive together with the
  types, since only the last block of an image moves the turn (`TurnStep`). What is
  reported needs `FirstStart`: before the first restart a host that may send content
  has had an offer accepted for the component whose turn it is, and the answer in the
  queue is to its last command. It needs `OneHost`: two hosts' offers overwrite one pending
  version, and an acceptance read by the other host lets that one send content. The
  property itself says nothing of a device that has been restarted (section 7).
- `CfuHostDriver`: the collection is what the subkeys before `keyIndex` have yielded, in
  their order (`CollectionGuard`), all of the complete ones but those that were misread
  (`NothingIsLost`), and the modules exist for the collection as it is after the enumeration
  (`ModulesGuard`). `ReadIsOfTheFile` says of each result of `FileContentRead` that its memory
  object, if it has one, holds the file asked for, or part of it; `CacheGuard` keeps that for
  what stays in the collection, from where later requests are served.
- `CfuRegistration`: the list is described by the sequence of the registrations in the order of
  their insertion (`IsList`): none twice, each linked to the one before it. A walk
  that began when m were complete is at the k-th of them (`IsWalk`) and has seen those between;
  insertions make the sequence longer and leave what it had. From this, that the
  list is no ring and a report a snapshot. `Guarded` is the critical section that the
  comment at 529-535 asks for; without it a registration may be lost.
- `CfuToolMain`: the invariant is the three properties with what the search keeps:
  the devices found suit the settings (`FoundGuard`), the settings are those of the file
  (`SettingsGuard`), and as long as none is found the result is that of a failed query
  (`NothingFound`), which is what keeps an empty list from being indexed. The last
  line with a tag decides (`LastSays`) by induction over the lines. The reports of a
  controller come from `CfuRegistration`: the program implements `RegistrationSpec`, and its
  theorems carry over. That a listed version is the device's own needs no
  critical section: the first word of the report is of a registration, whatever was
  lost (`OpeningGuard`).

Induction. The library's induction theorems take an operator as parameter, which the
provers cannot instantiate. `NaturalFacts` proves the least-member principle and induction
for *sets* of natural numbers from a fact about well-founded relations that
takes none; `PacketsAreCounted` and the loop over the settings file rest on it.

### Left to TLC

The liveness properties `UpdateEnds`, `RunEnds`, `RunEndsUnlessRestarted`,
`EveryCommandIsAnswered`, `ReportEnds` and `CommandEnds`: they rest on fairness, hence on
ENABLED, which is out of the prover's reach. `UpdateEnds` on the highest-priority timer task
follows informally from `SessionsAreTimed` and the fairness of the timer, `ReportEnds` from
`RegistrationInvariance`, since a walk only ever moves to an earlier registration.

## 5. What is not modelled

- Of the tool: what it prints, the parsing of numbers and the comparison of strings, the
  bytes of the offer file and of the packets' content.
- The DMF protocol module, which drives an update from Windows: its code is a
  submodule that is not in the repository. `CfuHostDriver` takes it to ask for files
  between start and stop.
- The words of a version report, hence its capacity of 20 bytes.
- `forceReset`, which the engine passes on to `NotifySuccess` and nowhere else.
- The values of the driver's configuration, tracing and event log.
- Packages, projects, documentation.

## 6. The plan

1. Done: `CfuSession`, `CfuEngine`, proofs; `SrecFile`, `CfuTool`; `CfuUpdate`;
   `VirtualDevice`; `CfuHostDriver`; `CfuRegistration`; `ToolSettings`, `CfuToolMain`.
2. Done: every state invariant that a passing run checks, and both refinements, as
   theorems (section 4).
3. Possible later: the safety half of the liveness arguments (that no step but its
   own disables what must happen, that a walk or a run comes closer to its end with
   each step); theorems about several runs or hosts that take turns; a composition of
   `CfuTool` with `VirtualDevice`, whose answers need no engine.

## 7. Hazards without a property

In the engine: a component that failed `NotifySuccess` may keep the callback and end
another session with it (section 3, `engine`); content that follows no accepted offer is written all the same,
although the tool's header knows a status NO_OFFER for it; an offer that no registration
matches goes unanswered in the sense that the response is left as it was; the
status that asks to skip the CRC check is an error by its severity bits
(McuStatus.h 123), so line 228 refuses the image and the branch at 272 is never
taken (the model has it so, in `Verification` with `CrcExempt`; a component without
CRC is never updated, which is safe and probably not what was meant); a version
report of more than two components writes past its array; registering one object
twice makes a ring. Before the first acceptance and after a restart the active
component is the zero of a static: content that comes then is written to component
zero, and handed over to it if such a component is registered (the proof of
`SuccessMeansInstalledCorrect` found this, section 4).

In the tool: the read thread outlives the stack frame it uses; a record of more than 64
bytes writes past a buffer on the stack (the model ends the process there, as at 53); a line of more than
511 characters ends the settings file, which is then taken for complete; at a
failed input stream the prompt is repeated without end. Also, `_tmain` returns zero,
the code of success, when `CoInitializeEx` fails (line 124).

In the virtual device and the driver: a torn version read; a restart of the virtual
device keeps its turn and its queue; a failing allocation in the driver is taken for
success.

Most of these are in the models as the code has them, without a statement in the
sources to check them against; the rest lie in what section 5 leaves out.
