------------------------------ MODULE Recovery ------------------------------
(***************************************************************************)
(* How a running session notices that it is stuck or has diverged, and     *)
(* what it does about it: the host's RemoteInputStallMonitor (a client's   *)
(* input is missing), SelfStallDetector (no progress for two seconds) and  *)
(* DesyncMonitor (state CRCs differ), all of which ask for an              *)
(* authoritative resync, and the stabilization window that follows one.    *)
(*                                                                         *)
(* host is the host's coordinator and console, rec its recovery mode,      *)
(* stall and mon two of the monitors; of the third, which only measures    *)
(* time, there is no state to keep.  peer[c] is client c, with the packets *)
(* under way between it and the host.                                      *)
(*                                                                         *)
(* Inputs appear only as the frame they reach to: a packet repeats the     *)
(* inputs before its own, so the newest packet of a client under way makes *)
(* the older ones redundant.  A resync is begun by the host and then       *)
(* loaded and acknowledged by each client in one step; what may go wrong   *)
(* in between is the subject of module Resync.                             *)
(*                                                                         *)
(* The state a console has reached is known by the epoch it was emulated   *)
(* in: frames emulated in different epochs may have used different inputs  *)
(* and have different CRCs.  Diverged is the CRC of a state gone wrong.    *)
(***************************************************************************)
EXTENDS Integers, Sequences, FiniteSetsExt

CONSTANTS
    Clients,     \* connected remote players
    P,           \* the room's input delay
    Coalesce,    \* kTransientStallLogCoalesceFrames
    Stabilize,   \* kRecoveryStabilizationFrames
    FailTimeout, \* kRecoveryStabilizationFailTimeoutFrames
    Grace,       \* kPostRecoveryClientDesyncRequestGraceFrames
    Capacity,    \* kHistoryCapacity
    MaxFrame,    \* bound: frames the host emulates
    MaxEpoch,    \* bound: timeline epochs
    MaxReports,  \* bound: CRC reports of a client under way
    MaxUpsets    \* bound: consoles that diverge and changes of the input topology

ASSUME RecoveryAssumption ==
    /\ Clients # {} /\ IsFiniteSet(Clients)
    /\ {P, Coalesce, Stabilize, FailTimeout, Grace, MaxReports, MaxUpsets} \subseteq Nat
    /\ {Capacity, MaxFrame, MaxEpoch} \subseteq Nat \ {0}

VARIABLES
    host,   \* the host's room state, console and gathered inputs
    rec,    \* recoveryInputMode and what belongs to it
    stall,  \* RemoteInputStallMonitor
    mon,    \* DesyncMonitor
    peer,   \* peer[c]: client c and the packets to and from it
    left,   \* what is left of MaxUpsets
    hollow  \* history: a CRC of another timeline validated a stabilization

vars == <<host, rec, stall, mon, peer, left, hollow>>

Frame == 0..(MaxFrame + 2 * P + 1)
Epoch == 1..MaxEpoch
Diverged == 0

Mode == {"Normal", "ResyncLocked", "PostResyncStabilizing"}
Crc == Epoch \cup {Diverged}
\* A CRC report with the epoch it is tagged with, and the one it is about.
Report == [frame : Frame, crc : Crc, epoch : Epoch, life : Epoch]
\* ResyncBegin with its payload, and the state update that ends the resync.
Control == [kind : {"begin", "Running"}, epoch : Epoch, frame : Frame, sig : Crc]

\* lastConfirmedFrame: every input through it is at the host, its own P frames
\* ahead of the frame it emulates next.
Confirmed == Min({host.sim + P} \cup {host.have[c] : c \in Clients})

Missing == {c \in Clients : host.have[c] < host.sim}
HostWaits == host.state = "Running" /\ Missing # {}

\* The second half of a tick of runActiveConsoleFrame, which runs the console:
\* the first half took the packets and began the resync that was asked for.
Ticking == host.state = "Running" /\ host.request = {}

MinOf(a, b) == IF a <= b THEN a ELSE b
MaxOf(a, b) == IF a >= b THEN a ELSE b

Upset == left > 0 /\ left' = left - 1

\* queuePendingHostResync: of two requests the one for the earlier frame stays.
queuePendingHostResync(r, f) ==
    IF r = {} \/ \E g \in r : f < g THEN {f} ELSE r

-----------------------------------------------------------------------------
(* RemoteInputStallMonitor.  A report of the participant's health is always  *)
(* newer than the stall it answers: handlePeerHealth counts it first.        *)

NoStall == [pending |-> {}, recovered |-> {}]

RecentlyRecovered(m, c, f) ==
    \E r \in m.recovered : r.c = c /\ r.through < f /\ f <= r.through + Coalesce

\* A stall close to the one already pending is the same stall.
noteStall(m, c, f) ==
    IF \E p \in m.pending : p.c = c /\ f <= p.frame + Coalesce /\ p.frame <= f + Coalesce
    THEN [m EXCEPT !.pending = {[p EXCEPT !.frame = MinOf(p.frame, f)] : p \in m.pending}]
    ELSE [m EXCEPT !.pending = {[c |-> c, frame |-> f,
                                 loggable |-> ~RecentlyRecovered(m, c, f)]}]

\* Mutant of clearRecovered: the input has to reach past the stalled frame.
ClearPast(m, c, through) ==
    IF \E p \in m.pending : p.c = c /\ p.frame < through
    THEN [pending |-> {}, recovered |-> {[c |-> c, through |-> through]}]
    ELSE m
clearRecovered(m, c, through) ==
    IF \E p \in m.pending : p.c = c /\ p.frame <= through
    THEN [pending |-> {}, recovered |-> {[c |-> c, through |-> through]}]
    ELSE m

-----------------------------------------------------------------------------
(* DesyncMonitor: two histories in the order the reports came. *)

NoReports == [local |-> <<>>, remote |-> <<>>]

\* Mutant: the history is not bounded.
StoreUnbounded(h, e) ==
    IF \E i \in 1..Len(h) : h[i].frame = e.frame
    THEN [i \in 1..Len(h) |-> IF h[i].frame = e.frame THEN e ELSE h[i]]
    ELSE Append(h, e)
storeHistoryEntry(h, e) ==
    IF \E i \in 1..Len(h) : h[i].frame = e.frame
    THEN [i \in 1..Len(h) |-> IF h[i].frame = e.frame THEN e ELSE h[i]]
    ELSE LET n == Append(h, e)
         IN  SubSeq(n, MaxOf(1, Len(n) - Capacity + 1), Len(n))

\* invalidateHistoryAfter: entries are dropped from the back, up to the first
\* one that is older.
Kept(h, f) == SubSeq(h, 1, Max({0} \cup {i \in 1..Len(h) : h[i].frame < f}))
invalidateHistoryAfter(m, f) ==
    [local |-> Kept(m.local, f), remote |-> Kept(m.remote, f)]

EntriesAt(h, f) == {h[i] : i \in {j \in 1..Len(h) : h[j].frame = f}}

\* evaluateFrame: what comparing the two CRCs of frame f says.
Compared(m, f) == EntriesAt(m.local, f) # {} /\ EntriesAt(m.remote, f) # {}
Mismatch(m, f) ==
    \E l \in EntriesAt(m.local, f), r \in EntriesAt(m.remote, f) : l.crc # r.crc

\* applyDesyncMonitorUpdate with the report of frame f in the histories m.
\* During stabilization a comparison decides whether it succeeds, no more.
InWindow(f) == rec.mode = "PostResyncStabilizing" /\ f >= rec.at

\* A report of the host's timeline.  The exception is one whose sender's epoch
\* was raised by a FrameStatus ahead of the resync (handleFrameStatus below).
Genuine(r) == r.life = host.epoch \/ r.life # r.epoch

applyDesyncMonitorUpdate(m, f) ==
    LET acted == Mismatch(m, f) /\ ~InWindow(f)
        pass == Compared(m, f) /\ ~Mismatch(m, f) /\ InWindow(f)
    IN  /\ mon' = m
        /\ rec' = [rec EXCEPT !.passed = @ \/ pass]
        /\ host' = [host EXCEPT !.request =
                       IF acted THEN queuePendingHostResync(@, f) ELSE @]
        /\ hollow' = (hollow \/ (pass /\ \E r \in EntriesAt(m.remote, f) : ~Genuine(r)))

\* A checkpoint is taken when the console has caught up with the confirmed
\* frames.  Which ones are due depends on intervals longer than this instance
\* (30 frames, or 3 after a recovery): any that was not submitted may be.
Checkpoint(sim, conf, submitted) == conf = sim /\ sim # 0 /\ ~submitted

HostSubmitsCrc ==
    /\ Ticking
    /\ Checkpoint(host.sim, Confirmed, EntriesAt(mon.local, host.sim) # {})
    /\ LET e == [frame |-> host.sim, crc |-> host.line[host.sim],
                 epoch |-> host.epoch, life |-> host.epoch]
       IN  applyDesyncMonitorUpdate([mon EXCEPT !.local = storeHistoryEntry(@, e)], host.sim)
    /\ UNCHANGED <<stall, peer, left>>

ClientSubmitsCrc(c) ==
    LET q == peer[c] IN
    /\ q.state = "Running"
    /\ Checkpoint(q.sim, q.conf, q.submitted = q.sim)
    /\ Len(q.reports) < MaxReports
    /\ peer' = [peer EXCEPT
          ![c].submitted = q.sim,
          ![c].reports = Append(@, [frame |-> q.sim, crc |-> q.sig,
                                    epoch |-> q.epoch, life |-> q.life])]
    /\ UNCHANGED <<host, rec, stall, mon, left, hollow>>

\* Mutant: reports of every epoch are taken.
ReportOfAnyEpoch(c) ==
    /\ peer[c].reports # <<>>
    /\ peer' = [peer EXCEPT ![c].reports = Tail(@)]
    /\ LET e == Head(peer[c].reports)
       IN  IF host.state # "Running"
           THEN UNCHANGED <<host, rec, mon, hollow>>
           ELSE applyDesyncMonitorUpdate(
                    [mon EXCEPT !.remote = storeHistoryEntry(@, e)], e.frame)
    /\ UNCHANGED <<stall, left>>

handleCrcReport(c) ==
    /\ peer[c].reports # <<>>
    /\ peer' = [peer EXCEPT ![c].reports = Tail(@)]
    /\ LET e == Head(peer[c].reports)
       IN  IF e.epoch # host.epoch \/ host.state # "Running"
           THEN UNCHANGED <<host, rec, mon, hollow>>
           ELSE applyDesyncMonitorUpdate(
                    [mon EXCEPT !.remote = storeHistoryEntry(@, e)], e.frame)
    /\ UNCHANGED <<stall, left>>

-----------------------------------------------------------------------------
(* Resync and stabilization. *)

\* runtimeBeginAuthoritativeResync: the host itself goes back to the frame, all
\* inputs and histories after it are forgotten, a new epoch begins.
BeginResync(f) ==
    LET e == host.epoch + 1
        m == [kind |-> "begin", epoch |-> e, frame |-> f, sig |-> host.line[f]]
    IN  /\ host.epoch < MaxEpoch
        /\ host' = [host EXCEPT !.state = "Resyncing", !.epoch = e, !.sim = f,
                        !.have = [c \in Clients |-> f], !.acks = Clients,
                        !.line = [g \in Frame |-> IF g <= f THEN @[g] ELSE e],
                        !.request = {}]
        /\ rec' = [rec EXCEPT !.mode = "ResyncLocked", !.at = f]
        /\ stall' = NoStall
        /\ mon' = NoReports
        /\ peer' = [c \in Clients |-> [peer[c] EXCEPT !.control = Append(@, m)]]
        /\ UNCHANGED <<left, hollow>>

\* The runtime begins what was asked for: at the frame asked for, or where the
\* host is if it has no snapshot of that frame.
ProcessHostResync ==
    \E f \in host.request : BeginResync(MinOf(f, host.sim)) \/ BeginResync(host.sim)

\* finalizeActiveResyncIfReady: the last acknowledgement ends the resync.
Stabilizing(f) ==
    [rec EXCEPT !.mode = "PostResyncStabilizing", !.at = f,
                !.passed = FALSE]

\* produceLocalBufferedInputs at a client in the tick after it came to a frame:
\* the inputs through P frames ahead, in a packet that is sent once.
Recorded(q) == [q EXCEPT !.input = [frame |-> q.sim + P, epoch |-> q.epoch]]

ClientLoads(c) ==
    LET m == Head(peer[c].control)
        loaded == [peer[c] EXCEPT
            !.control = Tail(@), !.state = "Resyncing", !.epoch = m.epoch,
            !.life = m.epoch, !.sim = m.frame, !.conf = m.frame,
            !.sig = m.sig, !.submitted = 0]
        acks == IF m.epoch = host.epoch THEN host.acks \ {c} ELSE host.acks
        last == acks = {} /\ host.acks # {}
        end == [m EXCEPT !.kind = "Running"]
    IN  /\ peer[c].control # <<>> /\ m.kind = "begin"
        /\ host' = [host EXCEPT !.acks = acks, !.state = IF last THEN "Running" ELSE @]
        /\ rec' = IF last THEN Stabilizing(m.frame) ELSE rec
        /\ peer' = [d \in Clients |->
               LET q == IF d = c THEN loaded ELSE peer[d]
               IN  IF last THEN [q EXCEPT !.control = Append(@, end)] ELSE q]
        /\ UNCHANGED <<stall, mon, left, hollow>>

ClientResumes(c) ==
    LET resumed == [peer[c] EXCEPT !.control = Tail(@), !.state = "Running"] IN
    /\ peer[c].control # <<>> /\ Head(peer[c].control).kind = "Running"
    /\ peer' = [peer EXCEPT ![c] = Recorded(resumed)]
    /\ UNCHANGED <<host, rec, stall, mon, left, hollow>>

\* setRecoveryInputMode to Normal: what was observed meanwhile is forgotten, and
\* a time of grace begins at frame f.
NormalFrom(f) ==
    /\ rec' = [rec EXCEPT !.mode = "Normal", !.at = 0, !.passed = FALSE,
                          !.grace = MaxOf(@, f + Grace)]
    /\ stall' = NoStall
    /\ mon' = NoReports

\* advanceRecoveryStabilization, called in every tick with the host's frame.
Validated == host.sim >= rec.at + Stabilize /\ Confirmed >= rec.at /\ rec.passed
\* Mutant of TimedOut: only validation ends the stabilization.
NeverTimedOut == FALSE
TimedOut == host.sim >= rec.at + FailTimeout

advanceRecoveryStabilization ==
    /\ rec.mode = "PostResyncStabilizing" /\ host.state = "Running"
    /\ \/ /\ Validated
          /\ NormalFrom(host.sim)
          /\ UNCHANGED host
       \/ /\ ~Validated /\ TimedOut
          /\ LET f == MinOf(host.sim, Confirmed)
             IN  /\ NormalFrom(f)
                 /\ host' = [host EXCEPT !.request = queuePendingHostResync(@, f)]
    /\ UNCHANGED <<peer, left, hollow>>

\* setRoomInputTopology: CRCs from the resync's frame on are dropped at once, the
\* resync is begun later.
TopologyChanges ==
    /\ host.state = "Running"
    /\ LET f == MinOf(host.sim, Confirmed)
       IN  /\ mon' = invalidateHistoryAfter(mon, f)
           /\ host' = [host EXCEPT !.request = queuePendingHostResync(@, f)]
    /\ Upset
    /\ UNCHANGED <<rec, stall, peer, hollow>>

-----------------------------------------------------------------------------
(* Inputs and frames. *)

HostRuns ==
    /\ Ticking /\ Missing = {} /\ host.sim < MaxFrame
    /\ host' = [host EXCEPT !.sim = @ + 1]
    /\ UNCHANGED <<rec, stall, mon, peer, left, hollow>>

\* tryBuildPlaybackFrameInternal stops at a participant without an input.
HostStops(c) ==
    /\ Ticking /\ c \in Missing
    /\ stall' = noteStall(stall, c, host.sim)
    /\ stall' # stall
    /\ UNCHANGED <<host, rec, mon, peer, left, hollow>>

\* handleInputFrame at the host: other epochs and locked sessions take none.  A
\* packet that is not taken changes nothing; one that is lost is one that is
\* still not taken when the next one replaces it.
handleInputFrame(c) ==
    LET i == peer[c].input IN
    /\ i.epoch = host.epoch /\ rec.mode # "ResyncLocked" /\ i.frame > host.have[c]
    /\ host' = [host EXCEPT !.have[c] = i.frame]
    /\ stall' = clearRecovered(stall, c, i.frame)
    /\ UNCHANGED <<rec, mon, peer, left, hollow>>

\* handleConfirmedInputFrames: published frames come in order.
ClientConfirms(c) ==
    /\ host.state = "Running" /\ peer[c].life = host.epoch
    /\ peer[c].conf < Confirmed
    /\ peer' = [peer EXCEPT ![c].conf = @ + 1]
    /\ UNCHANGED <<host, rec, stall, mon, left, hollow>>

\* handleFrameStatus: a newer epoch is taken over; nothing keeps the status
\* behind the resync that opened the epoch.
handleFrameStatus(c) ==
    /\ peer[c].epoch < host.epoch
    /\ peer' = [peer EXCEPT ![c].epoch = host.epoch]
    /\ UNCHANGED <<host, rec, stall, mon, left, hollow>>

\* A client emulates a published frame, or one it has been told the host has
\* reached and for which it has everybody's inputs itself.
ClientRuns(c) ==
    LET q == peer[c]
        ran == [q EXCEPT !.sim = @ + 1, !.sig = IF @ = Diverged THEN @ ELSE q.life]
    IN
    /\ q.state = "Running"
    /\ \/ q.sim <= q.conf
       \/ /\ q.sim <= host.sim /\ q.life = host.epoch
          /\ \A d \in Clients \ {c} : q.sim <= host.have[d]
    /\ peer' = [peer EXCEPT ![c] = Recorded(ran)]
    /\ UNCHANGED <<host, rec, stall, mon, left, hollow>>

Diverges(c) ==
    /\ peer[c].state = "Running" /\ peer[c].sig # Diverged
    /\ peer' = [peer EXCEPT ![c].sig = Diverged]
    /\ Upset
    /\ UNCHANGED <<host, rec, stall, mon, hollow>>

-----------------------------------------------------------------------------
(* Recovery from stalls. *)

\* tryScheduleImplicitRecoveryResync
MayRecoverStall ==
    /\ host.state = "Running" /\ rec.mode = "Normal"
    /\ ~(rec.grace # 0 /\ host.sim <= rec.grace)

\* handlePeerHealth, onPeerHealth: the participant is alive, so what it sent
\* was lost.  A stall shortly after another is let go.
handlePeerHealth(c) ==
    /\ MayRecoverStall
    /\ \E p \in stall.pending :
          /\ p.c = c
          /\ host' = IF p.loggable
                     THEN [host EXCEPT !.request =
                              queuePendingHostResync(@, MinOf(host.sim, Confirmed))]
                     ELSE host
    /\ stall' = [stall EXCEPT !.pending = {}]
    /\ UNCHANGED <<rec, mon, peer, left, hollow>>

\* SelfStallDetector::update.  Its baseline is the host's last progress and its
\* clock says how long ago that was; here any wait may have lasted two seconds,
\* or three playback stops, and fairness says that one that goes on does.  The
\* cooldown is not kept: the resync that starts it also clears it, because the
\* session is not eligible meanwhile.
Eligible == host.state = "Running" /\ rec.mode = "Normal"

\* The console has every confirmed frame before it, and so have the others
\* according to their newest health report.
\* Mutant: the frame the host is at does not count.
LevelWithRemotes == \E c \in Clients : peer[c].conf >= Confirmed
Level ==
    /\ Confirmed >= host.sim
    /\ \E c \in Clients : peer[c].conf >= Confirmed

SelfStallUpdate == Ticking /\ Eligible /\ HostWaits /\ ~Level /\ BeginResync(host.sim)

-----------------------------------------------------------------------------
\* A session has been running normally for a while, at frame 1.
Init ==
    /\ host = [state |-> "Running", epoch |-> 1, sim |-> 1,
               have |-> [c \in Clients |-> 1], line |-> [f \in Frame |-> 1],
               acks |-> {}, request |-> {}]
    /\ rec = [mode |-> "Normal", at |-> 0, passed |-> FALSE, grace |-> 0]
    /\ stall = NoStall
    /\ mon = NoReports
    /\ peer = [c \in Clients |->
                  [state |-> "Running", epoch |-> 1, life |-> 1, sim |-> 1, conf |-> 1,
                   sig |-> 1, submitted |-> 0,
                   input |-> [frame |-> 1 + P, epoch |-> 1],
                   control |-> <<>>, reports |-> <<>>]]
    /\ left = MaxUpsets
    /\ hollow = FALSE

HostStep ==
    \/ HostRuns \/ HostSubmitsCrc \/ ProcessHostResync \/ advanceRecoveryStabilization
    \/ TopologyChanges \/ SelfStallUpdate
    \/ \E c \in Clients :
        HostStops(c) \/ handleInputFrame(c) \/ handlePeerHealth(c) \/ handleCrcReport(c)

ClientStep(c) ==
    \/ ClientLoads(c) \/ ClientResumes(c) \/ ClientConfirms(c)
    \/ handleFrameStatus(c) \/ ClientRuns(c) \/ ClientSubmitsCrc(c)
    \/ Diverges(c)

Next == HostStep \/ \E c \in Clients : ClientStep(c)

Spec == Init /\ [][Next]_vars

\* The host ticks and its clock goes on; reliable packets arrive.  Nothing is
\* assumed of inputs, health reports and frame status, which may all be lost.
FairSpec ==
    /\ Spec
    /\ WF_vars(HostRuns) /\ WF_vars(ProcessHostResync) /\ WF_vars(advanceRecoveryStabilization)
    /\ WF_vars(SelfStallUpdate)
    /\ \A c \in Clients : WF_vars(ClientLoads(c)) /\ WF_vars(ClientResumes(c))

-----------------------------------------------------------------------------
\* Types of the monitors, the host and the clients; the CRC histories keep to
\* kHistoryCapacity.
TypeOK ==
    /\ host \in [state : {"Running", "Resyncing"}, epoch : Epoch, sim : Frame,
                 have : [Clients -> Frame], line : [Frame -> Epoch],
                 acks : SUBSET Clients, request : SUBSET Frame]
    /\ rec \in [mode : Mode, at : Frame, passed : BOOLEAN, grace : Nat]
    /\ stall \in [pending : SUBSET [c : Clients, frame : Frame, loggable : BOOLEAN],
                  recovered : SUBSET [c : Clients, through : Frame]]
    /\ mon \in [local : Seq(Report), remote : Seq(Report)]
    /\ Len(mon.local) <= Capacity /\ Len(mon.remote) <= Capacity
    /\ peer \in [Clients -> [state : {"Running", "Resyncing"}, epoch : Epoch, life : Epoch,
                    sim : Frame, conf : Frame, sig : Crc,
                    submitted : Frame, input : [frame : Frame, epoch : Epoch],
                    control : Seq(Control), reports : Seq(Report)]]

\* The bounds leave the host nothing to do.
Exhausted ==
    \/ host.sim = MaxFrame /\ MaxFrame < rec.at + FailTimeout
    \/ host.request # {} /\ host.epoch = MaxEpoch

\* A stall the host has noted is one it is still waiting in: the participant's
\* input for the very frame the host is to emulate is missing (noteStall against
\* clearRecovered and the resets of the monitor).
PendingStallIsCurrent ==
    \A p \in stall.pending : p.c \in Missing /\ p.frame = host.sim

\* A stabilization is validated only by a console that emulates in the timeline
\* being stabilized: the CRC of the resync's own frame is the same in both
\* timelines, so a client's report of it from before the resync, still under way
\* when the session resumes, would pass for one (the epoch of handleCrcReport
\* and the resets of the histories).
ValidationIsGenuine == ~hollow

\* A wait of the host in normal operation ends although every packet of the
\* client may be lost: inputs arrive or a resync begins.
WaitEnds ==
    (HostWaits /\ rec.mode = "Normal" /\ host.epoch < MaxEpoch) ~>
        (~HostWaits \/ rec.mode # "Normal")

\* Stabilization ends, validated or with another resync asked for, unless inputs
\* are missing meanwhile (no recovery from stalls is attempted then).
StabilizationEnds ==
    rec.mode = "PostResyncStabilizing" ~>
        (rec.mode # "PostResyncStabilizing" \/ HostWaits \/ Exhausted)
=============================================================================
