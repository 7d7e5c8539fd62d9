------------------------------- MODULE Replay -------------------------------
(***************************************************************************)
(* Recording and playing back replays: the application's UI thread         *)
(* (GeraNESApp, ReplaySession) against the worker thread of                *)
(* ThreadedEmulationHost, which prepares an input for the console's frame, *)
(* emulates it and runs the commands the UI thread queued.                 *)
(*                                                                         *)
(* What a thread does under m_emuMutex is one step.  A function of the UI  *)
(* thread that takes the lock more than once is several steps wherever the *)
(* worker can run in between and it matters; app.at says where the UI      *)
(* thread is.  The host publishes its snapshot before it releases the      *)
(* lock, so the UI thread reads the state itself.                          *)
(*                                                                         *)
(* An input is Recorded, the loaded replay's input of that frame, or one   *)
(* of Live, what the player holds.  The replay on disk has N frames and    *)
(* belongs to the loaded ROM, or not.  The state of the console is the     *)
(* inputs of its frames since power-on: the core is deterministic.         *)
(***************************************************************************)
EXTENDS Integers, Sequences, SequencesExt

CONSTANTS
    N,         \* frames of the replay on disk
    Live,      \* what the player may hold
    Capacity,  \* states the rewind buffer keeps
    MaxFrame,  \* bound: the console's frame
    MaxOps,    \* bound: what the user does
    MaxQueue   \* bound: commands in the worker's queue

ASSUME ReplayAssumption ==
    /\ {N, Capacity, MaxFrame, MaxQueue} \subseteq Nat \ {0}
    /\ MaxOps \in Nat /\ "Recorded" \notin Live

VARIABLES
    emu,    \* the console
    pb,     \* ReplayPlaybackController, and whether the last seek succeeded
    queue,  \* commands for the worker
    pace,   \* whether the worker emulates, m_framePacingMode
    app,    \* the UI thread: its ReplaySession and its place in a function
    past,   \* history: incidents of this session
    ops     \* what is left of MaxOps

vars == <<emu, pb, queue, pace, app, past, ops>>

Frame == 0..(MaxFrame + N)
Input == {"Recorded"} \cup Live
SessionMode == {"None", "Recording", "Playback"}
State == [frame : Frame, line : Seq(Input)]
RecordedFrame == [frame : Frame, input : Input]
Command == [kind : {"toggle"}] \cup [kind : {"seek"}, frame : 0..N]

MinOf(a, b) == IF a <= b THEN a ELSE b

\* The replay's inputs of its first k frames.
Prefix(k) == [i \in 1..k |-> "Recorded"]
ReplayFile == [i \in 1..N |-> [frame |-> i - 1, input |-> "Recorded"]]

\* The console after openRom; line is the input of every frame emulated since,
\* next the input prepared, buffer the states Rewind keeps.
PoweredOn == [frame |-> 0, line |-> <<>>, paused |-> FALSE, next |-> {},
              rewinding |-> FALSE, buffer |-> <<>>]

\* A live input was prepared that the session does not know of; a seek went
\* back behind states in the rewind buffer; one of those was loaded.
Incident == {"unseen", "sought", "strayed"}

NoReplay == [loaded |-> FALSE, playing |-> FALSE, seeking |-> FALSE, ok |-> TRUE,
             cursor |-> 0, snapshots |-> <<>>]

\* Whether the last seek succeeded is not part of what is cleared.
clearReplayPlayback(b) == [NoReplay EXCEPT !.ok = b.ok]
\* The same after replayPause, which changes only a controller with a replay.
PauseAndClear(b) == [NoReplay EXCEPT !.ok = b.ok \/ b.loaded]

Running == pace.running
\* setSimulationSuspended(true).  The iteration the worker has begun, waiting for
\* the lock, still runs; running freely, it has several to catch up with.
Suspend == pace' = [running |-> FALSE, late |-> pace.late \/ pace.running]
Resume == pace' = [running |-> TRUE, late |-> FALSE]

Post(c) == queue' = Append(queue, c)
Toggle == [kind |-> "toggle"]
Room == Len(queue) < MaxQueue

-----------------------------------------------------------------------------
(* ReplayPlaybackController and ReplaySession. *)

\* Mutant: a frame's snapshot is stored again.
StoreAgain(s, f, line) == Append(s, [frame |-> f, line |-> line])
storeSnapshot(s, f, line) ==
    IF \E i \in 1..Len(s) : s[i].frame = f
    THEN [i \in 1..Len(s) |-> IF s[i].frame = f THEN [s[i] EXCEPT !.line = line] ELSE s[i]]
    ELSE Append(s, [frame |-> f, line |-> line])

\* A replay this short has one of its ten scheduled snapshots at every frame.
shouldCaptureScheduledSnapshot(f) == f \in 1..(N - 1)

\* updateReplayPlaybackFrameReadyStateLocked when the console has come to frame f
FrameReady(b, f, line) ==
    IF ~b.loaded THEN b
    ELSE [b EXCEPT !.cursor = f,
                   !.snapshots = IF shouldCaptureScheduledSnapshot(f)
                                 THEN storeSnapshot(@, f, line) ELSE @]

\* bestSnapshotAtOrBefore: the one stored last, not the one nearest to f.
Usable(s, f) == {i \in 1..Len(s) : s[i].frame <= f}
bestSnapshotAtOrBefore(s, f) ==
    s[CHOOSE i \in Usable(s, f) : \A j \in Usable(s, f) : j <= i]

\* Mutant: a frame is always added at the end.
AppendAlways(frames, f, in) == Append(frames, [frame |-> f, input |-> in])
appendRecordedFrame(frames, f, in) ==
    IF f < Len(frames) THEN [frames EXCEPT ![f + 1] = [frame |-> f, input |-> in]]
    ELSE Append(frames, [frame |-> f, input |-> in])

-----------------------------------------------------------------------------
(* The worker. *)

\* resolveReplayPlaybackInputLocked: no input while the replay stands still, and
\* none behind its end, where it stops.
AtEnd == emu.frame >= N
Blocked == pb.loaded /\ (~(pb.playing \/ pb.seeking) \/ AtEnd)

\* prepareCurrentFrameInputLocked, also for a paused console.  Only an input of
\* the player can rewind.  The mutant takes the player's where the replay has
\* none.
FromPlayer(i, r) == [emu EXCEPT !.next = {i}, !.rewinding = r]
PlayerInputs == {FromPlayer(i, r) : i \in Live, r \in BOOLEAN}
FromReplay == [emu EXCEPT !.next = {"Recorded"}, !.rewinding = FALSE]
PreparedAnyway ==
    IF emu.next # {} THEN {emu}
    ELSE IF pb.loaded /\ ~Blocked THEN {FromReplay} ELSE PlayerInputs
Prepared ==
    IF emu.next # {} THEN {emu}
    ELSE IF Blocked THEN {[emu EXCEPT !.paused = TRUE]}
    ELSE IF pb.loaded THEN {FromReplay} ELSE PlayerInputs

\* Rewind::newFrame: the state is stored, or the newest stored state is loaded,
\* and taken out unless it is the last.
write(buffer, st) == Append(IF Len(buffer) = Capacity THEN Tail(buffer) ELSE buffer, st)
newFrame(e) ==
    LET stored == IF e.rewinding /\ e.buffer # <<>> THEN e.buffer
                  ELSE write(e.buffer, [frame |-> e.frame, line |-> e.line])
    IN  IF ~e.rewinding THEN [e EXCEPT !.buffer = stored]
        ELSE [e EXCEPT !.frame = Last(stored).frame, !.line = Last(stored).line,
                       !.buffer = IF Len(stored) > 1 THEN Front(stored) ELSE stored]

\* updateUntilFrame of a prepared console
Emulated(e) ==
    IF e.paused \/ e.next = {} THEN e
    ELSE newFrame([e EXCEPT !.frame = @ + 1, !.next = {},
                            !.line = Append(@, CHOOSE i \in e.next : TRUE)])

\* An iteration of workerLoop: the recording observes an input when it is
\* prepared.
WorkerAdvances ==
    /\ Running \/ pace.late
    /\ queue = <<>>
    /\ emu.frame < MaxFrame
    /\ \E more \in BOOLEAN : pace' = [pace EXCEPT !.late = @ /\ more]
    /\ \E e \in Prepared :
          LET live == (e.next \ emu.next) \cap Live
              blocked == emu.next = {} /\ Blocked
          IN  /\ emu' = Emulated(e)
              /\ pb' = IF blocked THEN [pb EXCEPT !.playing = FALSE, !.seeking = FALSE]
                       ELSE IF emu'.frame # emu.frame THEN FrameReady(pb, emu'.frame, emu'.line)
                       ELSE pb
              /\ app' = IF app.observing = "Recording" /\ live # {}
                        THEN [app EXCEPT !.frames =
                                appendRecordedFrame(@, emu.frame, CHOOSE i \in live : TRUE)]
                        ELSE app
              /\ past' = past
                   \cup (IF live # {} /\ ~pb.loaded /\ app.mode # "None" /\ app.observing # "Recording"
                         THEN {"unseen"} ELSE {})
                   \cup (IF IsPrefix(emu'.line, emu.line \o SetToSeq(e.next))
                         THEN {} ELSE {"strayed"})
    /\ UNCHANGED <<queue, ops>>

\* seekReplayPlaybackLocked.  loadStateFromMemory drops the input prepared for
\* the console.  Without a replay, or a snapshot of it to start from, nothing but
\* the flag changes; the mutant leaves it.
SeekLeftOpen(f) ==
    /\ Usable(pb.snapshots, f) = {}
    /\ pb' = [pb EXCEPT !.ok = FALSE]
    /\ UNCHANGED <<emu, past>>
SeekFails(f) ==
    /\ Usable(pb.snapshots, f) = {}
    /\ pb' = [pb EXCEPT !.seeking = FALSE, !.ok = FALSE]
    /\ UNCHANGED <<emu, past>>

\* The loop of a seek from snapshot s: the controller and the rewind buffer after
\* n frames of the replay, each emulated without presenting it.
LineAt(s, g) == s.line \o Prefix(g - s.frame)
SeekFrames(s, n) ==
    LET run[k \in 0..n] ==
          IF k = 0 THEN [pb |-> pb, buffer |-> emu.buffer]
          ELSE LET st == [frame |-> s.frame + k, line |-> LineAt(s, s.frame + k)]
               IN  [pb |-> FrameReady(run[k - 1].pb, st.frame, st.line),
                    buffer |-> write(run[k - 1].buffer, st)]
    IN  run[n]

SeekRuns(f) ==
    /\ Usable(pb.snapshots, f) # {}
    /\ LET s == bestSnapshotAtOrBefore(pb.snapshots, f)
           after == SeekFrames(s, f - s.frame)
       IN  /\ emu' = [frame |-> f, line |-> LineAt(s, f), paused |-> TRUE, next |-> {},
                      rewinding |-> emu.rewinding /\ s.frame = f, buffer |-> after.buffer]
           /\ pb' = [FrameReady(after.pb, f, LineAt(s, f)) EXCEPT
                        !.playing = FALSE, !.seeking = FALSE, !.ok = TRUE]
           /\ past' = IF \E i \in 1..Len(emu.buffer) : emu.buffer[i].frame > s.frame
                      THEN past \cup {"sought"} ELSE past

seekReplayPlaybackLocked(f) == SeekFails(f) \/ SeekRuns(f)

WorkerDispatches ==
    /\ queue # <<>>
    /\ queue' = Tail(queue)
    /\ \/ /\ Head(queue).kind = "toggle"
          /\ emu' = [emu EXCEPT !.paused = ~@]
          /\ UNCHANGED <<pb, past>>
       \/ /\ Head(queue).kind = "seek"
          /\ seekReplayPlaybackLocked(Head(queue).frame)
    /\ UNCHANGED <<pace, app, ops>>

-----------------------------------------------------------------------------
(* The UI thread. *)

Idle == app.at = "idle"
Op == Idle /\ ops > 0 /\ ops' = ops - 1

\* ReplaySession::clear with configureReplaySessionMode(None)
NoSession ==
    [mode |-> "None", observing |-> "None", frames |-> <<>>, auto |-> FALSE, at |-> "idle"]

\* replaySeekToFrame
StartSeek(b) == [b EXCEPT !.playing = FALSE, !.seeking = TRUE, !.ok = TRUE]

\* openReplayFile up to the ROM's reload, which leaves the worker suspended; a
\* recording in progress is given up.
OpenReplay ==
    /\ Op /\ ~(app.mode = "Playback" /\ pb.seeking)
    /\ app' = [mode |-> "Playback", observing |-> "Playback", frames |-> ReplayFile,
               auto |-> app.auto, at |-> "reopened"]
    /\ pb' = clearReplayPlayback(pb)
    /\ emu' = PoweredOn
    /\ Suspend
    /\ past' = {}
    /\ UNCHANGED queue

LoadReplay ==
    /\ app.at = "reopened"
    /\ app' = [app EXCEPT !.at = "loaded"]
    /\ pb' = [clearReplayPlayback(pb) EXCEPT !.loaded = TRUE, !.cursor = emu.frame,
                 !.snapshots = <<[frame |-> emu.frame, line |-> emu.line]>>]
    /\ UNCHANGED <<emu, queue, pace, past, ops>>

SeekAfterLoad ==
    /\ app.at = "loaded"
    /\ app' = [app EXCEPT !.at = "idle", !.auto = TRUE]
    /\ pb' = StartSeek(pb)
    /\ Post([kind |-> "seek", frame |-> 0])
    /\ Suspend
    /\ UNCHANGED <<emu, past, ops>>

\* openReplayFile with a replay of another ROM: the session is cleared, the
\* host and the observer's mode stay as they were.
OpenMismatch ==
    /\ Op /\ ~(app.mode = "Playback" /\ pb.seeking)
    /\ app' = [NoSession EXCEPT !.observing = app.observing, !.auto = app.auto]
    /\ UNCHANGED <<emu, pb, queue, pace, past>>

\* startReplayPlayback and replayPlay.  The mutant leaves the console paused.
replayPlayPaused ==
    /\ pb' = [pb EXCEPT !.playing = TRUE, !.seeking = FALSE, !.ok = TRUE]
    /\ UNCHANGED emu
replayPlay ==
    /\ pb' = [pb EXCEPT !.playing = TRUE, !.seeking = FALSE, !.ok = TRUE]
    /\ emu' = [emu EXCEPT !.paused = FALSE]

Standing == app.mode = "Playback" /\ ~pb.playing /\ ~pb.seeking

Play ==
    /\ Op /\ Standing
    /\ replayPlay
    /\ Resume
    /\ UNCHANGED <<queue, app, past>>

\* stopReplayPlayback(true)
Pause ==
    /\ Op /\ app.mode = "Playback" /\ pb.playing
    /\ pb' = [pb EXCEPT !.playing = FALSE, !.seeking = FALSE, !.ok = TRUE, !.cursor = emu.frame]
    /\ emu' = [emu EXCEPT !.paused = TRUE]
    /\ Suspend
    /\ UNCHANGED <<queue, app, past>>

\* stopReplayToStart: refused during a seek, except that the replay will not
\* start by itself after it.
Stop ==
    /\ Op /\ app.mode = "Playback"
    /\ app' = [app EXCEPT !.auto = FALSE]
    /\ \/ pb.seeking /\ UNCHANGED <<pb, queue, pace>>
       \/ /\ ~pb.seeking /\ Room
          /\ pb' = StartSeek(pb)
          /\ Post([kind |-> "seek", frame |-> 0])
          /\ Suspend
    /\ UNCHANGED <<emu, past>>

\* seekReplayToFrame, the slider
Seek(f) ==
    /\ Op /\ Standing /\ Room
    /\ pb' = StartSeek(pb)
    /\ Post([kind |-> "seek", frame |-> f])
    /\ Suspend
    /\ UNCHANGED <<emu, app, past>>

\* clearReplaySession: a console the replay left paused is to go on.
Close ==
    /\ Op /\ app.mode = "Playback" /\ ~pb.seeking /\ Room
    /\ app' = NoSession
    /\ pb' = PauseAndClear(pb)
    /\ queue' = IF emu.paused THEN Append(queue, Toggle) ELSE queue
    /\ Suspend
    /\ UNCHANGED <<emu, past>>

\* togglePauseAction without a replay, or the pause button of a recording
TogglePause ==
    /\ Op /\ app.mode # "Playback" /\ Room
    /\ Post(Toggle)
    /\ UNCHANGED <<emu, pb, pace, app, past>>

\* Mutant: the ROM's reload leaves the rewind buffer.
StartKeepsRewind ==
    /\ Op /\ app.mode = "None"
    /\ app' = [NoSession EXCEPT !.mode = "Recording", !.at = "recording"]
    /\ pb' = PauseAndClear(pb)
    /\ emu' = [PoweredOn EXCEPT !.buffer = emu.buffer]
    /\ Resume
    /\ past' = {}
    /\ UNCHANGED queue

\* startReplayRecording: the ROM's reload ends with the worker running, before
\* the observer is told that a recording has begun.
StartRecording ==
    /\ Op /\ app.mode = "None"
    /\ app' = [NoSession EXCEPT !.mode = "Recording", !.at = "recording"]
    /\ pb' = PauseAndClear(pb)
    /\ emu' = PoweredOn
    /\ Resume
    /\ past' = {}
    /\ UNCHANGED queue

\* continueReplayRecordingFromCurrentCursor up to clearReplayPlayback.  At the
\* replay's end the UI thread itself records the pending input for the frame it
\* has read here.  It does so after the observer is told to record, but no other
\* thread sets the pending input, so an observer that comes first records the same.
ContinueRecording ==
    /\ Op /\ Standing
    /\ \E i \in Live :
          LET c == MinOf(pb.cursor, N)
              kept == SubSeq(app.frames, 1, MinOf(c + 1, N))
          IN  app' = [app EXCEPT !.mode = "Recording", !.at = "recording",
                        !.frames = IF c >= N /\ emu.frame >= N
                                   THEN appendRecordedFrame(kept, emu.frame, i) ELSE kept]
    /\ pb' = clearReplayPlayback(pb)
    /\ UNCHANGED <<emu, queue, pace, past>>

\* configureReplaySessionMode(Recording), which the observer reads; a paused
\* console is to go on.
ObserveRecording ==
    /\ app.at = "recording" /\ Room
    /\ app' = [app EXCEPT !.at = "idle", !.observing = "Recording"]
    /\ queue' = IF emu.paused THEN Append(queue, Toggle) ELSE queue
    /\ UNCHANGED <<emu, pb, pace, past, ops>>

\* stopReplayRecording: the host has no replay loaded, so it pauses nothing.
StopRecording ==
    /\ Op /\ app.mode = "Recording"
    /\ app' = NoSession
    /\ pb' = PauseAndClear(pb)
    /\ Suspend
    /\ UNCHANGED <<emu, queue, past>>

\* syncReplayRuntimeState, in every iteration of the main loop.
SyncPlays ==
    /\ Idle /\ app.mode = "Playback" /\ ~pb.seeking /\ app.auto /\ pb.ok
    /\ app' = [app EXCEPT !.auto = FALSE]
    /\ replayPlay
    /\ Resume
    /\ UNCHANGED <<queue, past, ops>>

SyncSeesRunning ==
    /\ Idle /\ Standing /\ ~(app.auto /\ pb.ok) /\ ~emu.paused /\ Room
    /\ app' = [app EXCEPT !.auto = FALSE, !.at = "toggling"]
    /\ UNCHANGED <<emu, pb, queue, pace, past, ops>>

\* The automatic start is given up when the seek failed or the replay is gone.
SyncForgets ==
    /\ Idle /\ app.auto
    /\ app.mode # "Playback" \/ (Standing /\ ~pb.ok /\ emu.paused)
    /\ app' = [app EXCEPT !.auto = FALSE]
    /\ UNCHANGED <<emu, pb, queue, pace, past, ops>>

SyncToggles ==
    /\ app.at = "toggling"
    /\ app' = [app EXCEPT !.at = "idle"]
    /\ Post(Toggle)
    /\ UNCHANGED <<emu, pb, pace, past, ops>>

\* The main loop asks for a frame in every iteration, also after a suspension.
MainLoopPaces ==
    /\ Idle /\ ~Running
    /\ Resume
    /\ UNCHANGED <<emu, pb, queue, app, past, ops>>

UserActs ==
    \/ OpenReplay \/ OpenMismatch \/ Play \/ Pause \/ Stop \/ Close \/ TogglePause
    \/ StartRecording \/ ContinueRecording \/ StopRecording
    \/ \E f \in 0..N : Seek(f)

UiContinues ==
    \/ LoadReplay \/ SeekAfterLoad \/ ObserveRecording
    \/ SyncPlays \/ SyncForgets \/ SyncSeesRunning \/ SyncToggles \/ MainLoopPaces

Init ==
    /\ emu = PoweredOn
    /\ pb = NoReplay
    /\ queue = <<>>
    /\ pace = [running |-> TRUE, late |-> FALSE]
    /\ app = NoSession
    /\ past = {}
    /\ ops = MaxOps

Next == WorkerAdvances \/ WorkerDispatches \/ UserActs \/ UiContinues

Spec == Init /\ [][Next]_vars

\* Both threads run their loops.  Nothing is assumed of the user.
FairSpec ==
    Spec /\ WF_vars(WorkerAdvances) /\ WF_vars(WorkerDispatches) /\ WF_vars(UiContinues)
         /\ WF_vars(MainLoopPaces)

-----------------------------------------------------------------------------
\* Types of both threads' state; the controller keeps at most one snapshot of a
\* frame (storeSnapshot).
TypeOK ==
    /\ emu \in [frame : Frame, line : Seq(Input), paused : BOOLEAN, next : SUBSET Input,
                rewinding : BOOLEAN, buffer : Seq(State)]
    /\ Len(emu.line) = emu.frame /\ Len(emu.buffer) <= Capacity
    /\ pb \in [loaded : BOOLEAN, playing : BOOLEAN, seeking : BOOLEAN, ok : BOOLEAN,
               cursor : Frame, snapshots : Seq(State)]
    /\ \A i, j \in 1..Len(pb.snapshots) :
          i # j => pb.snapshots[i].frame # pb.snapshots[j].frame
    /\ queue \in Seq(Command)
    /\ pace \in [running : BOOLEAN, late : BOOLEAN]
    /\ app \in [mode : SessionMode, observing : SessionMode, frames : Seq(RecordedFrame),
                auto : BOOLEAN,
                at : {"idle", "reopened", "loaded", "recording", "toggling"}]
    /\ past \subseteq Incident /\ ops \in 0..MaxOps

\* While a replay is loaded the console is in the state the replay leads to:
\* every frame since power-on used the replay's input, through pauses, seeks to
\* and fro, stops and inputs the worker had prepared before; unless the
\* iteration the worker had begun emulated between reload and load (unseen).
PlaybackFollowsReplay ==
    (pb.loaded /\ "unseen" \notin past) => emu.line = Prefix(emu.frame)

\* What is being recorded is what the console emulates: each frame since
\* power-on is there, under its own number and with the input it used, also
\* when a replay is continued and when the player rewinds; unless the worker
\* prepared an input before it was told of the replay or of the recording
\* (unseen) or a rewind left the line of the recording (strayed).
RecordingFaithful ==
    (app.mode = "Recording" /\ app.observing = "Recording" /\ Idle
        /\ past \cap {"unseen", "strayed"} = {}) =>
            \A f \in 0..(emu.frame - 1) :
                f < Len(app.frames) /\ app.frames[f + 1] = [frame |-> f, input |-> emu.line[f + 1]]

\* The rewind buffer holds earlier states of the console on its way to the
\* present one, the newest last: across ROM reloads, rewinds and new frames.
\* Nothing but a seek back, whose state load leaves the buffer, can spoil it.
RewindIsThePast ==
    "sought" \notin past =>
        \A i \in 1..Len(emu.buffer) :
            /\ IsPrefix(emu.buffer[i].line, emu.line)
            /\ \A j \in 1..(i - 1) : emu.buffer[j].frame < emu.buffer[i].frame

\* A seek the user asked for ends, with success or not (the UI refuses nearly
\* everything while it lasts).
SeekEnds == pb.seeking ~> ~pb.seeking

\* Playback that was started does not hang: it comes to the replay's end, or the
\* user stops it or takes its session away (OpenMismatch); unless the replay was
\* loaded past its first frame (unseen).
PlaybackEnds ==
    (pb.playing /\ "unseen" \notin past) ~> (~pb.playing \/ app.mode # "Playback")
=============================================================================
