# GeraNES: verification of netplay and replay

GeraNES is a NES emulator. Its emulator core is deterministic and sequential.
Two parts around it are hard to get right and hard to test. In netplay
(`src/ConsoleNetplay`) several machines run the same game frame by frame over an
unreliable network and must feed every frame the same inputs. In the application
(`src/GeraNESApp`) the user interface and the emulation run in two threads that
record and play back replays together. This directory models these two parts.

Paths below are relative to the repository; `NC` is
`src/ConsoleNetplay/NetplayCoordinator.cpp`, `GA` is
`src/GeraNESApp/GeraNESApp.cpp`.

## Inventory

| Component | State | Operations | Interacts with |
|---|---|---|---|
| Input timeline (`InputTimeline.*`) | capacity, list of entries, hash index | configure, clear, push, findMutable, eraseFramesAfter | two instances in the coordinator: local and remote inputs |
| Coordinator, input part (`NetplayCoordinator.*`) | timelines, confirmed frames, sequences, contiguous frame per participant | record local input, receive input, publish and receive confirmed frames, frame status | transport, driver, room state |
| Coordinator, session part | room state, participants, epoch | start, pause, resume, end, join, leave, kick, assign, reconnect | transport, runtime |
| Coordinator, resync part | outgoing and incoming resync, pending acks, recovery input mode | begin, chunk, complete, ack, abort, request, retry, eject | runtime, snapshots |
| Input buffer driver (`ConfirmedInputBufferDriver.*`) | produced and queued frame | produce local inputs, prepare playback frames, reset, reanchor | coordinator, console |
| Runtime (`NetplayAppRuntime.*`, `NetplayRuntimeSupport.*`) | last seen session state, recovery bookkeeping | one tick: network, transitions, recovery, produce, queue, emulate | everything above |
| Stall detection (`RemoteInputStallMonitor`, `SelfStallDetector`) | pending stall, progress baseline, cooldown | note, clear, health report, update | asks for resyncs |
| Desync monitor (`DesyncMonitor`) | local and remote CRC history, mismatch count | submit, invalidate, reset | asks for resyncs |
| Snapshots (`SnapshotSystem`) | bounded deque of states | push, find, trim | resync |
| Transport (`NetTransport`, WebRTC) | connections | reliable and unreliable send | network |
| Emulation host (`ThreadedEmulationHost`) | console, pacing mode, command queue, prepared input, replay controller | worker iteration, commands, suspend, load, play, pause, seek | runtime, UI |
| Rewind (`Rewind.h`, `CircularBuffer.h`) | ring of states | new frame, rewind, reset | console |
| Replay (`ReplaySession`, `GeraNESApp`) | mode, recorded frames, automatic start | open, close, record, continue, stop, play, pause, seek, sync | emulation host |
| Emulator core, mappers, UI, audio, libretro | hardware state, widgets | - | - |

Hard behaviours: two channels with different guarantees carry the same facts
(unreliable inputs and statuses, reliable confirmed frames and session states);
a peer emulates frames before the host has confirmed them; gaps are filled by
repetition; a resume makes clients forget; publication and the progress report
share one mark; everyone waits for everyone's input. What makes each part
correct:

* timeline: list and index describe the same entries, eviction takes the oldest;
* lockstep: no two machines emulate a frame with different inputs; a confirmed
  frame is the same everywhere; a press is never replaced while the packets'
  redundancy covers the loss; what is advertised is published; clients stay
  behind the host; every frame is eventually emulated;
* resync: a resync ends, the session resumes only when every remaining player
  has loaded the state of the current epoch, a superseded payload is never
  loaded, a locked client is released, the inputs of a reserved player are made
  up;
* stall and desync detection: a wait that lost packets left behind is ended, a
  noted stall is a present one, only the timeline being stabilized validates a
  recovery, stabilization ends;
* replay: while a replay is loaded every frame uses its inputs; a recording is
  what was emulated; a seek and a playback end;
* rewind: the stored states are the past of the console, newest last.

`PROJECT.json` lists each hazard at its line with the properties that cover it.

## Modules

* `TimelineMap`: abstract specification, a bounded map from (frame, source) to
  an input.
* `InputTimeline`: the list and the hash index. A list node is a stamp; an
  iterator in the index is the stamp it points to, so a dangling iterator can
  be expressed. `makeKey`, `configure`, `clear`, `push` (`Overwrite`, `Insert`),
  `writeFound` (the writes through `findMutable`) and `eraseFramesAfter` are the
  operations of the class. `MCInputTimeline` instantiates it;
  `InputTimelineProofs` proves about it.
* `Lockstep`: a host and clients in one timeline epoch, from the state an
  initial synchronisation leaves (`realignAuthoritativeState` at frame 0).
  `MCLockstep` has the instances; `LockstepProofs` and `LockstepInputProofs` the
  proofs.
* `Resync`: the host, its clients and the reliable packets between them, from
  the begin of the initial resync on; `MCResync` has the instances, `ResyncProofs`
  the proofs.
* `Recovery`: what a running session does about missing inputs, missing progress
  and differing CRCs, through the resync they ask for and the stabilization after
  it; `MCRecovery` has the instance, `RecoveryProofs` the proofs.
* `Replay`: the UI thread and the worker of the emulation host, with replays,
  recordings and rewind; `MCReplay` has the instance, `ReplayProofs` and
  `RewindProofs` the proofs.
* `Extrema`: what `Max` and `Min` of a set of numbers are, for all the proofs.

`Lockstep` follows the code as follows.

| Action | Code |
|---|---|
| `Produce`, `ProduceObserver` | `produceLocalBufferedInputs` one slot at a time, with the whole of `recordLocalInputFrame`: entry, sequence, packet with up to `R` entries, at the host also publication |
| `DeliverToHost`, `DeliverToClient`, `HandleInput` | `handleInputFrame` and one `handleInputFrameEntry` per entry: classification by frame and sequence, gap backfill at the host, contiguous frame, relay, publication |
| `ReceiveConfirmed` | `handleConfirmedInputFrames` |
| `HostUpdate` | the end of `update`: publication and `broadcastFrameStatusIfNeeded` |
| `ReceiveStatus` | `handleFrameStatus` |
| `RunFrame`, `QueueAhead` | the end of a tick (`runActiveConsoleFrame`): prepare playback frames, queue the next one, emulate it if its input is there |
| `pauseSession`, `resumeSession`, `ReceiveSession`, `NoticeState` | the host's commands, `handleStartSession`, and the runtime's reaction to a state change |

Inputs are named by the frame they were read for, so a repeated input is
visible as a smaller number and no button mask is needed. A tick of the code is
several actions of the model: they are split where other packets may arrive in
between, and `Idle` keeps one packet's entries together, as the one worker
thread does. Channels: `cf` and `ctl` are reliable and ordered; `up`, `dn` and
`st` are unreliable. With `Lossy` any packet under way may arrive next and the
ones before it are lost (ENet's unreliable sequenced packets); without it the
channel loses nothing (the WebRTC data channel). ENet keeps order between the
reliable and unreliable packets of one channel; the model does not, so it has
more behaviours than the code and its invariants hold for either.

Left out of `Lockstep`: suspended and reserved participants whose inputs the
host synthesises, recovery input modes, epochs, the shared clock (catch-up only
changes when a frame runs, never its inputs), history capacities (16384 and
2400 entries, never reached in a bounded run; the timeline's own bound is
modelled in `InputTimeline`), changes of delay and assignment. The runtime skips
a frame the console reports as queued and stable; the only console
(`GeraNESNetplayConsole::hasStableQueuedInputFrame`) never reports one, so
`Playable` builds every frame anew.

`Resync` keeps the host's coordinator in one record `room` (session state,
recovery input mode, both resync ids and the target, awaited acknowledgements,
connected, reserved and suspended participants, queued work, and the packets
under way to each client) and each client's in `peer[c]`. The coordinator's
functions call each other in many combinations (a timeout ejects, an ejection
finalises, a finalisation sends), so they are operators from a room to a room
with the names of the code; an action applies the handler's whole chain.

| Action | Code |
|---|---|
| `ReceiveFromClient` | `handleResyncAck`, `handleResyncAbort`, `handleResyncRequest` |
| `HostNotices`, `ReservationExpires` | the disconnect event of `update` (and `handleLeaveRoom`), `updateReconnectReservations` |
| `AckTimeout`, `IncomingTimeout` | the two deadlines in `update` |
| `Stabilized`, `StabilizationFails` | `advanceRecoveryStabilization` |
| `ProcessHostResync`, `ProcessLateJoin`, `HostResync` | the runtime steps that begin a resync: a queued request, a late join, and the owner's force, reset or loaded state or the host's own stall |
| `pauseSession`, `resumeSession` | the owner's commands |
| `kickParticipant`, `processPendingKickDisconnects` | the owner removes a participant; its connection is closed 250 ms later if it is still open |
| `handleParticipantLeft` | a kicked client closes its connection |
| `ReceiveFromHost` | `handleResyncBegin`, `handleResyncComplete` (the chunks included), `handleStartSession` |
| `handleFrameStatus` | the adoption of a later epoch from the unreliable channel |
| `ProcessPendingResyncApply` | the client's runtime step that loads a payload, with `acknowledgeResync` |
| `requestHostResync` | the client's request |
| `LoseConnection`, `handleJoinRoom` | a lost connection; a join or a reconnection by token, with the client's own reset |

Frames are abstracted: a payload is known by its resync's number, and where the
code compares frames (which of two queued requests wins, whether a desync report
falls into the cooldown) both outcomes are possible. `epochs` and `crossed` are
history: the epoch each resync was begun in, and whether a targeted resync has
been begun during the full one that is still active. Steps that come in one tick
of the host stay in its order: `BetweenTicks` keeps the owner's commands from
falling between a join and the resync it queues, and requests are begun before
late joins.

Left out of `Resync`: changes of role and assignment, rejected joins;
the full resync that a repeated ROM validation of a late joiner asks for (the
runtime consumes the late join first, in the tick of the join); the branches of
`ejectParticipantForResyncFailure` that kick or that end a reservation (NC:2082):
it is called for participants still awaited or just heard from, and these are
connected and not reserved.

`Recovery` joins a coarse lockstep (an input is known by the frame it reaches to)
and a coarse resync (begun by the host, loaded and acknowledged by a client in
one step) with the whole of the monitors.

| Action | Code |
|---|---|
| `HostRuns`, `HostStops` | a tick that emulates, and one that stops at a participant without an input (`tryBuildPlaybackFrameInternal`, `noteStall`) |
| `handleInputFrame`, `ClientConfirms`, `handleFrameStatus`, `ClientRuns` | inputs and confirmed frames, the adoption of an epoch, the client's frames with the inputs it records then |
| `handlePeerHealth`, `SelfStallUpdate` | the two recoveries from stalls |
| `HostSubmitsCrc`, `ClientSubmitsCrc`, `handleCrcReport` | checkpoints and reports, with `DesyncMonitor` and `applyDesyncMonitorUpdate` |
| `ProcessHostResync`, `ClientLoads`, `ClientResumes` | the resync that was asked for |
| `advanceRecoveryStabilization` | validated, or timed out with another resync |
| `TopologyChanges`, `Diverges` | a change of the topology; a console that goes wrong |

The state of a console is known by the epoch its frames were emulated in: `line`
is the host's, `life` and `sig` a client's. A client that adopts an epoch from a
frame status before it loads the epoch's state has `epoch` ahead of `life`.
Clocks are not kept: any wait may have lasted long enough, and fairness says that
one that goes on has. `hollow` is history: whether a CRC of another timeline
validated a stabilization.

Left out of `Recovery`: a client's own stall detection and desync requests (its
request is in `Resync`), what goes wrong during a resync (the same), pauses,
confirmed frames lost to the lock, the cooldown of the self-stall detector, which
the resync that starts it also ends; suspended and reserved participants, whose
missing inputs the host makes up (NC:2330, 2366, 2589); a CRC that happens to be
0, which the monitor does not compare (`DesyncMonitor.cpp:86`); the count of
consecutive mismatches, which only the log shows.

`Replay` takes what a thread does under `m_emuMutex` as one step. A function of
the UI thread that takes the lock several times is several actions where the
worker can act in between; `app.at` is its place.

| Action | Code |
|---|---|
| `WorkerAdvances` | an iteration of `workerLoop`: prepare an input (`prepareCurrentFrameInputLocked`), tell the recording, emulate, `Rewind::newFrame`, update the replay controller |
| `WorkerDispatches` | a queued command: a pause toggle, or a seek with `seekReplayPlaybackLocked` |
| `OpenReplay`, `LoadReplay`, `SeekAfterLoad`, `OpenMismatch` | `openReplayFile`: reload of the ROM, load, seek to the start; or a replay of another ROM |
| `Play`, `Pause`, `Stop`, `Seek`, `Close`, `TogglePause` | the replay window and the pause key, with the conditions of `drawReplayWindow` |
| `StartRecording`, `ContinueRecording`, `ObserveRecording`, `StopRecording` | `startReplayRecording`, `continueReplayRecordingFromCurrentCursor`, `stopReplayRecording` |
| `SyncPlays`, `SyncSeesRunning`, `SyncToggles`, `SyncForgets`, `MainLoopPaces` | `syncReplayRuntimeState` and the request for a frame in `mainLoop` |

The console's state is the sequence of inputs since power-on (`line`), which is
all that a deterministic core adds to a ROM. A suspension does not stop the
iteration the worker has begun (`pace.late`). `past` is history with three
incidents that the properties name: `unseen`, a live input was prepared that the
session does not know of; `sought`, a seek went back behind states in the rewind
buffer; `strayed`, one of those was loaded. `Stop` is offered during a seek too:
the host then refuses it, but the automatic start after the seek is given up.
Clearing a replay keeps whether the last seek succeeded (`clearReplayPlayback`);
where the code pauses the host first, that counts as success if a replay was
loaded (`PauseAndClear`). `ContinueRecording` has read the console's frame before
the worker is free to run, and what it records at the replay's end is for that
frame (GA:1822, 1836).

Left out of `Replay`: netplay (replays are refused then), manual save states and
resets, a failing reload or save, replay files, mods, speed, and snapshots the
seek does not use. `OpenReplay` reads the file and changes the mode in one step:
an observer that still records could append a frame in between (GA:1938, 1956),
but the file dialog has paused the console and its next input is prepared. A
scheduled snapshot always has its state (`FrameReady`):
`recordFrameReadyNetplayState` saves it whenever one is due.

## Runs

| Run | Instance | Shows |
|---|---|---|
| `input_timeline` | 2 frames, 2 sources, 2 inputs, capacities 0..3, 5 nodes | `IndexExact`, `CapacityRespected`, `EvictsOldestFirst`, `ImplementsMap` |
| `lockstep` | host and client, a slot each, P=1, R=3, frames 0..2 emulated, 2 packets under way, lossy | `PlaybackAgreement`, `NoInputRepeated`, `HostInputsContiguous`, `AdvertisedFramesPublished`, `ClientsFollowHost` |
| `lockstep_pause` | the same, frames 0..1, one pause | `ConfirmedAgreement`, `PlaybackAgreement`, `ClientsFollowHost` |
| `lockstep_relay` | one player, host and second client observe, frames 0..1, lossy | `ConfirmedAgreement`, `PlaybackAgreement` |
| `lockstep_live` | one player and an observing host, one pause, lossless, fair | `EveryFrameEmulated` |
| `lockstep_two_slots` | one client with both slots, R=1 | violates `HostInputsContiguous` |
| `lockstep_pause_skips` | as `lockstep_pause` | violates `AdvertisedFramesPublished` |
| `resync` | a player and an observer, one request or pause, one fault, one join, fair | `TrackingConsistent`, `NewestPayloadOnly`, `ResumeNeedsEveryPlayer`, `UncrossedResyncEnds`, `LockedPlayerReleased`, `ReconnectedClientServed` |
| `resync_crossed` | the same without requests | violates `HostLeavesResync` |
| `resync_reserved` | the same without requests | violates `ReservedInputsSuspended` |
| `recovery` | host and client, P=1, frames 1..3, three epochs, stabilization 1 of 2 frames, grace 1, histories of 2, one upset, fair | `PendingStallIsCurrent`, `ValidationIsGenuine`, `WaitEnds`, `StabilizationEnds` |
| `replay` | a replay of 2 frames, 2 live inputs, rewind buffer of 2, frames 0..3, 5 operations, fair | `PlaybackFollowsReplay`, `RecordingFaithful`, `RewindIsThePast`, `SeekEnds`, `PlaybackEnds` |

Bounds. `MaxFrame` is the last frame emulated; inputs are recorded `P` frames
further. Three emulated frames with a delay of one let a packet be lost and its
entries arrive redundantly, a gap reach the host, a batch hold two frames
(`MaxBatch = 2`), and a peer emulate a frame the host has not confirmed. One
pause lets a resume meet every packet under way. `MaxInFlight` bounds packets
under way on an unreliable channel by dropping the oldest, which the channel may
do anyway. `CHECK_DEADLOCK FALSE`: after the last frame nothing is left to do,
and on a lossy channel everyone may end up waiting, which in the code the stall
detectors end.

In `Resync` the bounds count what the environment does: `MaxRequests` resyncs, kicks and
pauses wanted by the host or a client, `MaxFaults` lost connections and payloads
that time out, are incomplete or fail to load, `MaxJoins` joins. What the host
does about them (timeouts, ejections, cancellations, expiries) is unbounded. One
of each, after the initial resync, gives two full resyncs that overlap an old
acknowledgement, a targeted resync that meets a full one, and an ejection at any
moment. `CHECK_DEADLOCK FALSE`: a session with nothing requested stands still.

`Recovery` scales the code's numbers down and keeps their order: the window (8
frames) is shorter than its timeout (240), the histories (512 entries) can fill. Three epochs are two resyncs, so that a report of the first
timeline can meet the stabilization of the second, and a failed stabilization is
followed by another. `Exhausted` names the states where these bounds, not the
code, leave the host nothing to do.

In `Replay` two frames give every seek target (start, middle, end) and a scheduled
snapshot; one live frame behind the replay's end continues it. Five operations
allow, for example, to open, play, pause, seek back and continue recording, with
rewinds in between. `MaxQueue` bounds commands the worker has not dispatched.
`CHECK_DEADLOCK FALSE` in both: frames and operations are bounded.

The redundancy matters. A client records at most `P` frames past the one it
emulates next, which is at most two past the last frame the host has its input
for, so the runs use P + 2 <= R, and the proofs show that this is enough. It is
also needed: with P=1, R=2 TLC finds `PlaybackAgreement` violated: a
client emulates its own input, the host never receives it and publishes a
repetition. The shipped redundancy is 8 (`kInputFrameRedundancyCount`), which
covers the default delay of 2 (`NetSession.h:81`) and delays up to 6; the
settings window lets the delay go up to 16
(`src/GeraNESNetplay/NetplayWindowUI.cpp:477`).

Fairness (`FairSpec`): every peer keeps ticking (the frame loop calls update
without condition), a packet on a lossless channel arrives, and the owner of a
paused session resumes it. A peer's own steps share one weak fairness condition:
any of them is a step of its loop. `FairSpec` of `Resync` assumes the same of its
loops: packets on an open connection arrive, the deadline of missing
acknowledgements passes, queued resyncs are begun, a received payload is loaded,
a closed connection is noticed and a kicked participant's is closed. Nothing is
assumed of losses, joins,
requests, resumes or reservation expiry. Liveness of `Lockstep` is not checked on
the lossy channel, where a wait only ends by the recovery that `Recovery` models.
`FairSpec` of `Recovery` assumes that the host ticks, its clock goes on and
reliable packets arrive; nothing of inputs, health reports and statuses, which may
all be lost. `FairSpec` of `Replay` assumes that both threads run their loops and
nothing of the user.

### Where the code and its comments differ

* `lockstep_two_slots`: `NetplayCoordinator.h:332` calls the host's
  input-confirmed frame the "highest frame for which every assigned participant
  has a contiguous confirmed input contribution". After a gap the code moves the
  participant's contiguous frame up to the received entry but backfills only
  that entry's slot (NC:1783); a participant with two slots then counts as
  contiguous over frames its other slot has no input for.
* `lockstep_pause_skips`: `NetSession.h:84` calls `lastConfirmedFrame` the
  highest frame "confirmed/published". The status broadcast advances it, and the
  publication mark, while the session is paused and publication is switched off
  (NC:4110, NC:5910): the frame is advertised and never published.
* `resync_crossed`: a participant that joins or reconnects during a full resync
  starts a targeted one, which takes over the list of awaited acknowledgements
  (NC:6293). The full resync's acknowledgements no longer match, and after the
  targeted one nobody is awaited and no deadline runs: the host stays in
  Resyncing until somebody leaves. `tests/NetplayTests.cpp:5327` expects of a
  targeted resync that it "times out without stalling host forever".
  `UncrossedResyncEnds` shows that this crossing is the only way.
* `resync_reserved`: the comment at NC:4987 wants the timeline to keep moving
  with made-up inputs while a player's place is reserved; the end of a resync
  (NC:883) marks every participant's inputs as no longer suspended, so that the
  host waits for the absent player.

### What else the models show

These hazards have no line of the repository that says otherwise, or the line is
too general to be refuted; the properties name them as exceptions, and TLC finds
each when its exception is taken away.

* A wait during stabilization. Its success and its timeout count emulated frames
  (NC:2242), and both recoveries from stalls act in normal mode only (NC:2324,
  `SelfStallDetector.cpp:75`): a lost last input packet right after a resync is
  recovered by nobody. `StabilizationEnds` excepts it.
* A client that adopts an epoch from a frame status ahead of the resync
  (NC:2437) tags reports and inputs of its old timeline with the new epoch.
  `ValidationIsGenuine` excepts such reports.
* The first frames of a recording. The reload resumes the worker (GA:2867) before
  the observer records (GA:1788). `docs/user-guide/src/replay.md:37` says
  recording begins "from the start". `RecordingFaithful` excepts inputs that were
  prepared in between, as it does for a continued recording (GA:1831).
* A worker iteration between the reload and the load of a replay (GA:1962) makes
  the first snapshot later than frame 0. The automatic start then fails; a toggle
  the main loop had decided on (GA:2048) may pause a replay the user started by
  hand, for ever. `PlaybackFollowsReplay` and `PlaybackEnds` except it.
* Stale rewind states. `loadStateFromMemory` (`GeraNESEmu.h:2116`), unlike
  `_loadState`, leaves the rewind buffer: play a replay, seek back, continue as a
  recording and hold rewind, and the console jumps forward to a state of the
  replay behind the cursor, which the recording does not lead to.
  `docs/user-guide/src/save-states-and-rewind.md:28` says that rewind "moves
  gameplay backward through recent history". `RewindIsThePast` shows that a seek
  back is the only cause.
* A replay of another ROM, opened while one is loaded (GA:1945), clears the
  session but not the host's replay: the console stays blocked by a replay the
  window no longer offers to close.

## Proofs

Every invariant and every action property that a passing run checks is also
proved, for every value of the constants that satisfies the named assumptions of
its module (and, where said, hypotheses of the theorem). The assumptions say that
numbers are natural, that counts the code never has at zero are positive, and
which sets are disjoint. Each theorem follows the same argument: an invariant
holds initially, every action keeps it, and it implies the property.

`InputTimelineProofs`, for any sets of frames, sources, inputs and capacities:

* `TimelineTypeCorrect`, `IndexAlwaysExact`: `Spec => []TypeOK`, `[]IndexExact`.
  The two together are inductive: `IndexExact` needs that a new node's stamp is
  unused.
* `TimelineImplementsMap`: `Spec => ImplementsMap`, step by step from
  `IndexExact`: an eviction removes exactly one other key because no two nodes
  share one, and the list is full exactly when the map is because the index is a
  bijection between keys and nodes.
* `CapacityAlwaysRespected`: `Spec => []CapacityRespected`. What `configure`
  keeps lies at or after the oldest node kept, which by its own condition has at
  most `capacity` nodes from it on.
* `EvictionAlwaysOldestFirst`: `Spec => EvictsOldestFirst`, an action property:
  `push` unlinks the front only, which carries the smallest stamp.

`LockstepProofs`, for any clients, slots, assignment, delay, redundancy, batch
limit, bounds and either kind of channel:

* `LockstepTypeCorrect`: `Spec => []TypeOK`, packets under way included.
* `LockstepConfirmedAgreement`: `Spec => []ConfirmedAgreement`.
* `LockstepClientsFollowHost`: `Spec => []ClientsFollowHost`.

All three rest on one inductive invariant `IInv` of three parts. `TypeInv`: the
types, and that every timeline holds its baseline entry, which keeps the maxima
in the definitions meaningful. `Published`: the publication mark never exceeds
what the host advertises; every confirmed batch under way, and every frame a
client has stored, is a copy of the host's stored frame at or below the mark;
the host only ever stores frames above the mark, so copies never go stale even
though its timelines change and clients forget. `Followed`: a status under way
and a client's view of the host's progress never exceed the host's own, so
frames a client has queued or emulated are within what the host reached or
confirmed.

`LockstepInputProofs` adds hypotheses that the properties need; a run or the text
above shows what happens without each. `OneSlot`: a client plays at most one
slot (`lockstep_two_slots`); the host may play any number. `Covered`:
P + 2 <= R. `MaxPauses = 0` (`lockstep_pause_skips`).

* `HostInputsAlwaysContiguous`, from `OneSlot`: `Spec => []HostInputsContiguous`,
  whatever is lost and backfilled. `Provenance`: the host hears of a slot from
  its owner only. `Contiguous`: the host has every input of a slot up to its
  reach (the contiguous frame of the owner, or its own newest recording), and
  what it advertises lies within every slot's reach. The second part keeps
  `allowConfirmedFrontierRebase` from skipping frames of the host's own slots.
* `InputsNeverRepeated` and `PlaybackAlwaysAgrees`, from `OneSlot` and `Covered`:
  `Spec => []NoInputRepeated` and `Spec => []PlaybackAgreement`, lossy channel,
  relays and pauses included. `Transit`: a client's recordings have no gap and
  one sequence number per frame; every packet under way, or partly handled,
  reaches back without gap to the frame after the host's contiguous one; the
  host has exactly the frames through that one and does not emulate further than
  one past it. A client is at most one frame past what the host has emulated or
  confirmed, so it is two past the host's contiguous frame, and a packet of
  P + 2 entries closes any loss. Hence every entry the host takes is the next
  one: no sequence is rebased and no gap filled. `Exact`: then what any peer holds,
  has stored, queued or emulated for a frame is what was pressed for it, the
  relays included. A confirmed frame never rebuilds a client's own entry
  (`NothingRebuilt`).
* `AdvertisedAlwaysPublished`, also from `MaxPauses = 0`:
  `Spec => []AdvertisedFramesPublished`. Publication mark, advertised frame and
  input-confirmed frame coincide (`Advertised`): an input moves the last by one
  at most and publication, which follows every input, catches up.

`ResyncProofs`, for any players, observers and numbers of requests, faults and
joins: `ResyncTypeCorrect` (`[]TypeOK`), `TrackingAlwaysConsistent`
(`[]TrackingConsistent`), `OnlyNewestPayloadApplied` (`[]NewestPayloadOnly`) and
`ResumeAlwaysNeedsEveryPlayer` (the action property `ResumeNeedsEveryPlayer`).
The inductive invariant: `Tracked`, the host's fields agree, and a full resync
that no targeted one crossed is the newest one; `Closed`, nothing is under way
on a closed connection; `Pipelined`, begins under way to a client are newer than
anything it has received, in order, and a client that answers that it loaded the newest
state still has it; `AllSettled`, in an uncrossed full resync a connected player
that is not awaited has loaded the state or came back and was sent none. The
coordinator's functions are proved once each, as lemmas from a room to a room
(`Moved`, `Begun`): in the middle of a chain the room is only `AlmostTracked`.

`RecoveryProofs`, for any finite set of clients, delay, windows, histories and
epochs, with at least one frame to emulate: `RecoveryTypeCorrect`,
`PendingStallAlwaysCurrent`, `ValidationAlwaysGenuine`. The invariant adds to the
types that a client's frames stay within the bound, that a pending stall is
current (every step that brings an input or moves the host clears it) and that
the reports the host compares with are all of its present epoch, because every
change of epoch resets the monitor before a report can arrive.

`ReplayProofs`, for replays, rewind buffers and operations of any number:
`ReplayTypeCorrect`, `PlaybackAlwaysFollowsReplay`, `RecordingAlwaysFaithful`.
`FollowInv`: with a replay loaded, not only the console but every snapshot a seek
may start from and the input prepared for the next frame lie on the replay's
line. `RecordInv`: a recording has every emulated frame and the one prepared,
and at the end of a continued replay nothing is prepared.
`SessionInv` and `ReopenedInv` relate the session's mode to what the host has
loaded, at each place where the UI thread lets the worker run. A seek's run of
frames is a recursive function (`SeekFrames`); that it exists and what it keeps is
proved from a least counterexample, one frame at a time.

`RewindProofs` extends it: `RewindAlwaysThePast` (`[]RewindIsThePast`).
`RewindInv` relates three histories. The buffer leads to the console's inputs in
increasing order; the snapshots after the first were stored on the way and have
their state, or a later one, in the buffer, so a seek that starts from one and
is not behind a buffered state extends the buffer; the first snapshot, taken
when the replay was loaded, needs the two cases `Overtaken` and `BehindEnd`.

Only model-checked: liveness under fairness, which is out of the prover's reach
(`EveryFrameEmulated`, `UncrossedResyncEnds`, `LockedPlayerReleased`,
`ReconnectedClientServed`, `WaitEnds`, `StabilizationEnds`, `SeekEnds`,
`PlaybackEnds`), and the four runs that expect a violation.

## Plan

1. Done: all modules with their runs; a theorem for every invariant and action
   property of the passing runs.
2. Left: clients with several slots, whose packets share one sequence, so that
   `InputsNeverRepeated` and `PlaybackAlwaysAgrees` need a larger redundancy
   instead of `OneSlot`; and what agreement is left without `Covered`, among peers
   that emulate published frames only.

## Not modelled

* The emulator core, cartridges and mappers: cycle-exact hardware data, sequential
  and deterministic, checked by accuracy ROMs. The models need only determinism.
* Serialisation, signalling and sockets, replay files, ROM databases: byte layout
  and I/O.
* User interface, audio, video, input devices, mods, the libretro glue.
* Participants' roles, assignment, ROM validation, automatic delay: only
  what they change in a resync.
* Two joins within one tick of the host (NC:4386), of which the first is forgotten;
  two clients whose CRC reports share one history (`DesyncMonitor.cpp:21`); the
  composition of the full `Lockstep` with the full `Resync`, whose product is
  beyond TLC. `Recovery` composes coarse forms of both.

The map covers a few per cent of the repository's lines. Of about 166,000, some
45,000 are a generated database and a vendored archive library, and most others
are mappers, the core, user interface and mods, which hold no concurrency or
protocol to check; of the netplay coordinator the models cover about half.
