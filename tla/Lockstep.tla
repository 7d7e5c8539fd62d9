------------------------------ MODULE Lockstep ------------------------------
(***************************************************************************)
(* Input lockstep of one netplay session within one timeline epoch.        *)
(*                                                                         *)
(* Every peer records its own controller P frames ahead of the frame it    *)
(* emulates and sends each recording, together with the previous ones up   *)
(* to R entries, over an unreliable channel.  The host gathers the inputs  *)
(* of all participants, publishes every complete frame over a reliable     *)
(* channel, relays inputs as they arrive, and advertises its progress with *)
(* unreliable status packets.  A peer emulates a frame from the published  *)
(* frame if it has it and otherwise from the inputs it has itself.         *)
(*                                                                         *)
(* Inputs are named by the frame they were read for: the reading of a      *)
(* controller for frame f is f, the neutral baseline is 0, and an entry    *)
(* that repeats an older reading holds the older frame.  None marks an     *)
(* absent entry.                                                           *)
(*                                                                         *)
(* A channel is the sequence of messages sent and not yet delivered.  A    *)
(* reliable channel delivers its head; an unreliable sequenced one may     *)
(* deliver any message, and the ones before it are lost.                   *)
(***************************************************************************)
EXTENDS Integers, Sequences, FiniteSetsExt

CONSTANTS
    Host,        \* the participant that hosts the room
    Clients,     \* the other connected participants
    Slots,       \* playable controller slots
    Owner,       \* Owner[s]: the participant slot s is assigned to
    P,           \* m_prebufferFrames, the room's input delay
    R,           \* kInputFrameRedundancyCount
    MaxBatch,    \* kMaxConfirmedFramesPerPacket
    Lossy,       \* TRUE: ENet's unreliable channel; FALSE: WebRTC's channel
    MaxFrame,    \* bound: last frame a peer emulates
    MaxPauses,   \* bound: pauses of the session
    MaxInFlight  \* bound: undelivered packets an unreliable channel keeps

Peers == Clients \cup {Host}

ASSUME ClientsAssumption == Host \notin Clients
ASSUME SlotsAssumption == Slots # {} /\ Slots \subseteq Nat
ASSUME OwnerAssumption == Owner \in [Slots -> Peers]
ASSUME DelayAssumption == P \in Nat \ {0} /\ R \in Nat \ {0} /\ MaxBatch \in Nat \ {0}
ASSUME BoundsAssumption ==
    MaxFrame \in Nat /\ MaxPauses \in Nat /\ MaxInFlight \in Nat /\ Lossy \in BOOLEAN

Frame == 0..(MaxFrame + P)
None == -1

SlotsOf(q) == {s \in Slots : Owner[s] = q}
Players == {Owner[s] : s \in Slots}
IsObserver(q) == SlotsOf(q) = {}

\* The inputs of one frame, and a frame without them.
Inputs == [Slots -> Frame \cup {None}]
Absent == [s \in Slots |-> None]

\* InputFrameData: one recorded input as it travels.
Entry == [slot : Slots, frame : Frame, seq : Nat, val : Frame]

\* ConfirmedInputFramesData: the inputs of consecutive published frames.
Batch == UNION {[D -> Inputs] : D \in (SUBSET Frame) \ {{}}}

\* FrameStatusData, and the session states used here.
Status == [cur : Frame, conf : Frame]
SessionState == {"Running", "Paused"}

VARIABLES
    tl,         \* tl[p][s][f]: p's m_localInputs and m_remoteInputs
    sq,         \* sq[s][f]: sequence the owner recorded frame f of slot s under
    localSeq,   \* m_localInputSequence
    produced,   \* m_producedThroughFrame
    todo,       \* slots still to record for frame produced[p]
    contig,     \* contig[p][q]: p's lastContiguousInputFrame of q
    rseq,       \* rseq[p][q]: p's lastReceivedInputSequence of q
    rebase,     \* rebase[p][q]: p's sequenceRebasePending of q
    store,      \* store[p][f]: m_confirmedFrames
    back,       \* m_confirmedFrames.back().frame, 0 when empty
    lastPub,    \* the host's m_lastBroadcastConfirmedFrame
    conf,       \* roomState().lastConfirmedFrame
    cur,        \* roomState().currentFrame
    state,      \* roomState().state
    seen,       \* lastSessionState of the runtime: the state it last acted on
    queued,     \* inputs queued to the console
    sim,        \* console.frameCount(): the frame emulated next
    played,     \* history: the inputs each frame was emulated with
    inbox,      \* entries of the input packet being handled
    pauses,     \* history: how often the session was paused
    up,         \* up[c]: input packets from c to the host, unreliable
    dn,         \* dn[c]: input packets from the host to c, unreliable
    cf,         \* cf[c]: confirmed frames for c, reliable
    st,         \* st[c]: frame status for c, unreliable
    ctl         \* ctl[c]: session states for c, reliable

inputVars == <<tl, sq, localSeq, contig, rseq, rebase>>
driverVars == <<produced, todo>>
confirmVars == <<store, back, lastPub>>
roomVars == <<conf, cur, state, seen>>
consoleVars == <<queued, sim, played>>
vars == <<inputVars, driverVars, confirmVars, roomVars, consoleVars, inbox,
          pauses, up, dn, cf, st, ctl>>

MaxOf(a, b) == IF a >= b THEN a ELSE b

\* The initial synchronisation has just loaded frame 0 everywhere: neutral
\* baseline entries, sequences reset, every remote sequence to be rebased.
Init ==
    /\ tl = [p \in Peers |-> [s \in Slots |->
                [f \in Frame |-> IF f = 0 THEN 0 ELSE None]]]
    /\ sq = [s \in Slots |-> [f \in Frame |-> 0]]
    /\ localSeq = [p \in Peers |-> 0]
    /\ produced = [p \in Peers |-> 0]
    /\ todo = [p \in Peers |-> {}]
    /\ contig = [p \in Peers |-> [q \in Peers |-> 0]]
    /\ rseq = [p \in Peers |-> [q \in Peers |-> 0]]
    /\ rebase = [p \in Peers |-> [q \in Peers |-> p # q]]
    /\ store = [p \in Peers |-> [f \in Frame |->
                   IF f = 0 THEN [s \in Slots |-> 0] ELSE Absent]]
    /\ back = [p \in Peers |-> 0]
    /\ lastPub = 0
    /\ conf = [p \in Peers |-> 0]
    /\ cur = [p \in Peers |-> 0]
    /\ state = [p \in Peers |-> "Running"]
    /\ seen = [p \in Peers |-> "Running"]
    /\ queued = [p \in Peers |-> [f \in Frame |-> Absent]]
    /\ sim = [p \in Peers |-> 0]
    /\ played = [p \in Peers |-> [f \in Frame |-> Absent]]
    /\ inbox = [p \in Peers |-> {}]
    /\ pauses = 0
    /\ up = [c \in Clients |-> << >>]
    /\ dn = [c \in Clients |-> << >>]
    /\ cf = [c \in Clients |-> << >>]
    /\ st = [c \in Clients |-> << >>]
    /\ ctl = [c \in Clients |-> << >>]

\* A peer's network and runtime work is one thread: a packet's entries, and
\* the slots of a frame being recorded, are finished before anything else.
Idle(p) == inbox[p] = {} /\ todo[p] = {}

-----------------------------------------------------------------------------
\* Publishing at the host.  t and cg are the host's timelines and
\* contiguous frames after the inputs at hand have been applied.

\* latestFor(...)->frame: local entries are appended in frame order.
LatestFor(t, s) == Max({f \in Frame : t[s][f] # None})

LatestInput(t, cg, q) ==
    IF q = Host THEN Min({LatestFor(t, s) : s \in SlotsOf(Host)}) ELSE cg[q]

\* Mutant: the fastest participant decides instead of the slowest.
HostInputConfirmedByFastest(t, cg) ==
    Max({LatestInput(t, cg, q) : q \in Players})

computeHostInputConfirmedFrame(t, cg) ==
    Min({LatestInput(t, cg, q) : q \in Players})

\* tryAssembleConfirmedFrame: every assigned slot has a confirmed entry (all
\* of the host's entries are confirmed).
Assemblable(t, f) == \A s \in Slots : t[s][f] # None
Assemble(t, f) == [s \in Slots |-> t[s][f]]

\* Mutant: the loop stops one frame short of the input-confirmed frame.
PublishableBefore(t, cg) ==
    IF state[Host] # "Running" THEN lastPub
    ELSE Max({n \in Frame :
                /\ lastPub <= n /\ n <= lastPub + MaxBatch
                /\ \A f \in (lastPub + 1)..n :
                      /\ f < computeHostInputConfirmedFrame(t, cg)
                      /\ Assemblable(t, f)})

\* The frame the publishing loop stops at, lastPub when it publishes nothing.
PublishableThrough(t, cg) ==
    IF state[Host] # "Running" THEN lastPub
    ELSE Max({n \in Frame :
                /\ lastPub <= n /\ n <= lastPub + MaxBatch
                /\ \A f \in (lastPub + 1)..n :
                      /\ f <= computeHostInputConfirmedFrame(t, cg)
                      /\ Assemblable(t, f)})

\* Stores the frames after lastPub through n and broadcasts them, reliably.
StoreAndBroadcast(t, n) ==
    /\ store' = [store EXCEPT ![Host] =
                    [f \in Frame |-> IF lastPub < f /\ f <= n
                                     THEN Assemble(t, f) ELSE @[f]]]
    /\ back' = [back EXCEPT ![Host] = IF n > lastPub THEN n ELSE @]
    /\ cf' = IF n > lastPub
             THEN [c \in Clients |->
                      Append(cf[c], [f \in (lastPub + 1)..n |-> Assemble(t, f)])]
             ELSE cf

publishConfirmedFramesIfReady(t, cg) ==
    LET n == PublishableThrough(t, cg)
    IN  /\ StoreAndBroadcast(t, n)
        /\ lastPub' = n
        /\ conf' = [conf EXCEPT ![Host] = IF n > lastPub THEN MaxOf(@, n) ELSE @]
-----------------------------------------------------------------------------
\* Channels.

\* A sender of an unreliable channel never waits: when MaxInFlight packets
\* are under way the oldest is lost.
Send(q, m) ==
    IF Lossy /\ Len(q) >= MaxInFlight THEN Append(Tail(q), m) ELSE Append(q, m)

\* Message i of channel q can be delivered: any for an unreliable sequenced
\* channel, the head for one that neither loses nor reorders.
Deliverable(q, i) == i \in 1..Len(q) /\ (Lossy \/ i = 1)

\* The channel after message i was delivered.
After(q, i) == SubSeq(q, i + 1, Len(q))

-----------------------------------------------------------------------------
\* Recording local input.

\* The entries a packet carries for slot s after frame f was recorded: local
\* frames are contiguous, so the last R entries are the last R frames.
\* Mutant: a packet carries the new entry only.
WindowOfOne(p, s, f) == {f}
\* Mutant: the window ends one frame late.
WindowPastEnd(p, s, f) == {g \in Frame : g <= f + 1 /\ f < g + R}
Window(p, s, f) == {g \in Frame : g <= f /\ f < g + R /\ tl'[p][s][g] # None}
PacketFor(p, s, f) ==
    {[slot |-> s, frame |-> g, seq |-> sq'[s][g], val |-> tl'[p][s][g]]
        : g \in Window(p, s, f)}

\* allowConfirmedFrontierRebase: recording may skip frames that are already
\* confirmed.
MayRecord(p, s, f) ==
    LET latest == LatestFor(tl[p], s)
    IN  \/ f = latest + 1
        \/ /\ f > latest + 1
           /\ conf[p] >= f - 1
           /\ p = Host => cur[p] >= f - 1

recordLocalInputFrame(p, s, f) ==
    IF tl[p][s][f] = None /\ MayRecord(p, s, f)
    THEN /\ tl' = [tl EXCEPT ![p][s][f] = f]
         /\ sq' = [sq EXCEPT ![s][f] = localSeq[p] + 1]
         /\ localSeq' = [localSeq EXCEPT ![p] = @ + 1]
         /\ IF p = Host
            THEN /\ dn' = [c \in Clients |-> Send(dn[c], PacketFor(p, s, f))]
                 /\ UNCHANGED up
                 /\ publishConfirmedFramesIfReady(tl'[Host], contig[Host])
            ELSE /\ up' = [up EXCEPT ![p] = Send(@, PacketFor(p, s, f))]
                 /\ UNCHANGED <<dn, confirmVars, conf, cf>>
    ELSE UNCHANGED <<tl, sq, localSeq, up, dn, confirmVars, conf, cf>>

\* produceLocalBufferedInputs, one slot of one frame: frames through the
\* newest confirmed one are taken as produced, and production runs P frames
\* ahead of the frame to be emulated.
\* Mutant: the frame after next is produced, one is skipped.
ProduceFrameSkips(p) == MaxOf(produced[p], back[p]) + 2
ProduceFrame(p) == MaxOf(produced[p], back[p]) + 1
Produce(p) ==
    /\ inbox[p] = {}
    /\ state[p] = "Running" /\ seen[p] = state[p]
    /\ ~IsObserver(p)
    /\ \E s \in Slots, f \in Frame, left \in SUBSET Slots :
          /\ IF todo[p] = {}
             THEN /\ f = ProduceFrame(p) /\ f <= sim[p] + P
                  /\ left = SlotsOf(p)
             ELSE f = produced[p] /\ left = todo[p]
          /\ s \in left /\ \A o \in left : s <= o
          /\ produced' = [produced EXCEPT ![p] = f]
          /\ todo' = [todo EXCEPT ![p] = left \ {s}]
          /\ recordLocalInputFrame(p, s, f)
    /\ UNCHANGED <<contig, rseq, rebase, cur, state, seen, consoleVars, inbox,
                   pauses, st, ctl>>

\* A peer without slots records nothing and only moves its horizon.
ProduceObserver(p) ==
    /\ Idle(p)
    /\ state[p] = "Running" /\ seen[p] = state[p]
    /\ IsObserver(p)
    /\ produced[p] < sim[p] + P /\ sim[p] <= MaxFrame
    /\ produced' = [produced EXCEPT ![p] = sim[p] + P]
    /\ UNCHANGED <<inputVars, todo, confirmVars, roomVars, consoleVars, inbox,
                   pauses, up, dn, cf, st, ctl>>

-----------------------------------------------------------------------------
\* Receiving input.

DeliverToHost(c) ==
    /\ Idle(Host)
    /\ \E i \in 1..Len(up[c]) :
          /\ Deliverable(up[c], i)
          /\ up' = [up EXCEPT ![c] = After(@, i)]
          /\ inbox' = [inbox EXCEPT ![Host] = up[c][i]]
    /\ UNCHANGED <<inputVars, driverVars, confirmVars, roomVars, consoleVars,
                   pauses, dn, cf, st, ctl>>

DeliverToClient(c) ==
    /\ Idle(c)
    /\ \E i \in 1..Len(dn[c]) :
          /\ Deliverable(dn[c], i)
          /\ dn' = [dn EXCEPT ![c] = After(@, i)]
          /\ inbox' = [inbox EXCEPT ![c] = dn[c][i]]
    /\ UNCHANGED <<inputVars, driverVars, confirmVars, roomVars, consoleVars,
                   pauses, up, cf, st, ctl>>

\* The classification handleInputFrameEntry makes of entry e of participant
\* q at peer p.
ExpectedFrame(p, q) == contig[p][q] + 1
ExpectedSeq(p, q) == rseq[p][q] + 1
BaselineReset(p, q, e) ==
    rebase[p][q] /\ e.frame >= ExpectedFrame(p, q) /\ e.seq > 0
SequenceRebase(p, q, e) == BaselineReset(p, q, e) /\ e.seq # ExpectedSeq(p, q)
ForwardGap(p, q, e) ==
    e.frame > ExpectedFrame(p, q) /\ e.seq > ExpectedSeq(p, q)
Rebased(p, q, e) == SequenceRebase(p, q, e) \/ ForwardGap(p, q, e)

\* Redundant, stale or non-sequential: ignored without a trace.
Ignored(p, q, e) ==
    \/ e.seq <= rseq[p][q] /\ tl[p][e.slot][e.frame] = e.val
    \/ e.seq <= rseq[p][q] /\ ~BaselineReset(p, q, e)
    \/ e.seq # ExpectedSeq(p, q) /\ ~Rebased(p, q, e)

\* Input for a frame this peer has already committed.
LateCommitted(p, q, e) ==
    tl[p][e.slot][e.frame] # None /\ e.frame < ExpectedFrame(p, q)

NonSequentialFrame(p, q, e) ==
    e.frame # ExpectedFrame(p, q) /\ ~Rebased(p, q, e)

\* backfillConfirmedRemoteInputGap: a missing frame g of the gap repeats the
\* entry before it in the gap, or else the newest entry of the slot.
Repeated(t, s, from, g) ==
    LET held == {h \in Frame : from <= h /\ h < g /\ t[s][h] # None}
        all == {h \in Frame : t[s][h] # None}
    IN  t[s][Max(IF held = {} THEN all ELSE held)]

\* Mutant: a client fills a gap before an entry by itself.
AcceptedTimelineFillsAtClient(p, q, e) ==
    [tl[p] EXCEPT ![e.slot] = [f \in Frame |->
        IF f = e.frame THEN e.val
        ELSE IF /\ Rebased(p, q, e) /\ @[f] = None
                /\ ExpectedFrame(p, q) <= f /\ f < e.frame
             THEN Repeated(tl[p], e.slot, ExpectedFrame(p, q), f)
             ELSE @[f]]]

\* The timelines of p after it accepted e, a gap before it filled at the host.
AcceptedTimeline(p, q, e) ==
    [tl[p] EXCEPT ![e.slot] = [f \in Frame |->
        IF f = e.frame THEN e.val
        ELSE IF /\ p = Host /\ Rebased(p, q, e) /\ @[f] = None
                /\ ExpectedFrame(p, q) <= f /\ f < e.frame
             THEN Repeated(tl[p], e.slot, ExpectedFrame(p, q), f)
             ELSE @[f]]]

\* advanceParticipantContiguousInputFrame from frame n in timelines t.
AdvanceContiguous(t, q, n) ==
    Max({m \in Frame :
            n <= m /\ \A f \in (n + 1)..m : \A s \in SlotsOf(q) : t[s][f] # None})

Accept(p, q, e) ==
    /\ tl' = [tl EXCEPT ![p] = AcceptedTimeline(p, q, e)]
    /\ contig' = [contig EXCEPT ![p][q] =
          AdvanceContiguous(AcceptedTimeline(p, q, e), q,
              IF Rebased(p, q, e) /\ e.frame > ExpectedFrame(p, q)
              THEN e.frame - 1 ELSE @)]
    /\ rseq' = [rseq EXCEPT ![p][q] =
          IF Rebased(p, q, e) THEN e.seq ELSE MaxOf(@, e.seq)]
    /\ rebase' = [rebase EXCEPT ![p][q] = FALSE]

\* handleInputFrameEntry for the next entry of the packet at hand.  The host
\* relays what it accepts to everyone but the sender.
HandleInput(p) ==
    /\ \E e \in inbox[p] :
          LET q == Owner[e.slot]
          IN  /\ \A o \in inbox[p] : e.frame <= o.frame
              /\ inbox' = [inbox EXCEPT ![p] = @ \ {e}]
              /\ \/ /\ \/ Ignored(p, q, e)
                       \/ ~LateCommitted(p, q, e) /\ NonSequentialFrame(p, q, e)
                    /\ UNCHANGED <<tl, contig, rseq, rebase, confirmVars, conf,
                                   dn, cf>>
                 \/ /\ ~Ignored(p, q, e) /\ LateCommitted(p, q, e)
                    /\ rseq' = [rseq EXCEPT ![p][q] = MaxOf(@, e.seq)]
                    /\ rebase' = [rebase EXCEPT ![p][q] = FALSE]
                    /\ UNCHANGED <<tl, contig, confirmVars, conf, dn, cf>>
                 \/ /\ ~Ignored(p, q, e) /\ ~LateCommitted(p, q, e)
                    /\ ~NonSequentialFrame(p, q, e)
                    /\ Accept(p, q, e)
                    /\ IF p = Host
                       THEN /\ dn' = [c \in Clients |->
                                   IF c = q THEN dn[c] ELSE Send(dn[c], {e})]
                            /\ publishConfirmedFramesIfReady(tl'[Host], contig'[Host])
                       ELSE UNCHANGED <<dn, confirmVars, conf, cf>>
    /\ UNCHANGED <<sq, localSeq, driverVars, cur, state, seen, consoleVars,
                   pauses, up, st, ctl>>

-----------------------------------------------------------------------------
\* Confirmed frames and frame status.

\* Mutant: a packet's frames are stored one frame late.
ReceiveConfirmedShifted(c) ==
    /\ Idle(c)
    /\ cf[c] # << >>
    /\ LET m == Head(cf[c])
           first == Min(DOMAIN m)
           last == Max(DOMAIN m)
       IN  /\ store' = [store EXCEPT ![c] =
                   [f \in Frame |-> IF f \in (first + 1)..(last + 1)
                                    THEN m[f - 1] ELSE @[f]]]
           /\ back' = [back EXCEPT ![c] = last]
           /\ conf' = [conf EXCEPT ![c] = MaxOf(@, last)]
    /\ cf' = [cf EXCEPT ![c] = Tail(@)]
    /\ UNCHANGED <<inputVars, driverVars, lastPub, cur, state, seen,
                   consoleVars, inbox, up, dn, st, ctl, pauses>>

\* handleConfirmedInputFrames: stores the frames, and rebuilds a local entry
\* that is missing for a frame already emulated, under the present sequence.
Rebuilds(c, m, s, f) ==
    Owner[s] = c /\ f \in DOMAIN m /\ tl[c][s][f] = None /\ f <= sim[c]

ReceiveConfirmed(c) ==
    /\ Idle(c)
    /\ cf[c] # << >>
    /\ LET m == Head(cf[c])
           last == Max(DOMAIN m)
       IN  /\ store' = [store EXCEPT ![c] =
                   [f \in Frame |-> IF f \in DOMAIN m THEN m[f] ELSE @[f]]]
           /\ back' = [back EXCEPT ![c] = IF store[c][last] = Absent THEN last ELSE @]
           /\ conf' = [conf EXCEPT ![c] = MaxOf(@, last)]
           /\ tl' = [tl EXCEPT ![c] = [s \in Slots |-> [f \in Frame |->
                   IF Rebuilds(c, m, s, f) THEN m[f][s] ELSE tl[c][s][f]]]]
           /\ sq' = [s \in Slots |-> [f \in Frame |->
                   IF Rebuilds(c, m, s, f) THEN localSeq[c] ELSE sq[s][f]]]
    /\ cf' = [cf EXCEPT ![c] = Tail(@)]
    /\ UNCHANGED <<localSeq, contig, rseq, rebase, driverVars, lastPub, cur,
                   state, seen, consoleVars, inbox, up, dn, st, ctl,
                   pauses>>

\* The network part of the host's tick: publishes, then broadcasts a frame
\* status if anything in it changed.  The status carries the input-confirmed
\* frame whether or not publishing got that far, and moves lastPub to it.
HostUpdate ==
    LET n == PublishableThrough(tl[Host], contig[Host])
        published == MaxOf(conf[Host], IF n > lastPub THEN n ELSE 0)
        confirmed == MaxOf(published,
                           computeHostInputConfirmedFrame(tl[Host], contig[Host]))
    IN  /\ Idle(Host)
        /\ cur[Host] # sim[Host] \/ published # confirmed \/ n # confirmed
        /\ StoreAndBroadcast(tl[Host], n)
        /\ lastPub' = confirmed
        /\ conf' = [conf EXCEPT ![Host] = confirmed]
        /\ cur' = [cur EXCEPT ![Host] = sim[Host]]
        /\ st' = [c \in Clients |->
                     Send(st[c], [cur |-> sim[Host], conf |-> confirmed])]
        /\ UNCHANGED <<inputVars, driverVars, state, seen, consoleVars, inbox,
                       pauses, up, dn, ctl>>

\* handleFrameStatus
ReceiveStatus(c) ==
    /\ Idle(c)
    /\ \E i \in 1..Len(st[c]) :
          /\ Deliverable(st[c], i)
          /\ st' = [st EXCEPT ![c] = After(@, i)]
          /\ cur' = [cur EXCEPT ![c] = st[c][i].cur]
          /\ conf' = [conf EXCEPT ![c] = st[c][i].conf]
    /\ UNCHANGED <<inputVars, driverVars, confirmVars, state, seen, consoleVars,
                   inbox, pauses, up, dn, cf, ctl>>

-----------------------------------------------------------------------------
\* Playback.

\* Mutant: assembles a frame although a slot's input is missing.
BuildIncomplete(p, f) ==
    IF store[p][f] # Absent THEN store[p][f] ELSE Assemble(tl[p], f)

\* tryBuildPlaybackFrame: the published frame, or else the peer's own view.
Build(p, f) ==
    IF store[p][f] # Absent THEN store[p][f]
    ELSE IF Assemblable(tl[p], f) THEN Assemble(tl[p], f)
    ELSE Absent

\* runtimeClientHostPlaybackCapFrame: clients stay behind what the host has
\* reported; the host has no cap.
\* Mutant: clients are not held back.
NoCap(p, f) == TRUE
WithinCap(p, f) == p = Host \/ f <= MaxOf(cur[p], conf[p])

\* An observing host with remote players follows the published frames only.
FollowsPublished(p) == p = Host /\ IsObserver(p)

\* preparePlaybackFramesForEmulationThread and consumePendingFrames: frames
\* handed to the console ahead of the one emulated next.
Ahead(p) ==
    {f \in Frame : /\ sim[p] < f /\ f <= sim[p] + P
                   /\ \A g \in (sim[p] + 1)..f :
                         /\ g <= back[p] /\ WithinCap(p, g)
                         /\ FollowsPublished(p) \/ g <= produced[p]
                         /\ Build(p, g) # Absent}

\* tryQueuePlaybackFrameToConsole for the frame emulated next.  The console's
\* hasStableQueuedInputFrame is never true, so a queued input is built again.
Now(p) == {f \in {sim[p]} : WithinCap(p, f) /\ Build(p, f) # Absent}

\* The end of a tick: once production is complete the frames are queued and
\* the console emulates the next frame if its input is there.
Playable(p) == [f \in Frame |->
    IF f \in Ahead(p) \cup Now(p) THEN Build(p, f) ELSE queued[p][f]]

RunFrame(p) ==
    /\ Idle(p)
    /\ state[p] = "Running" /\ seen[p] = state[p]
    /\ MaxOf(produced[p], back[p]) >= sim[p] + P
    /\ sim[p] <= MaxFrame
    /\ Playable(p)[sim[p]] # Absent
    /\ played' = [played EXCEPT ![p][sim[p]] = Playable(p)[sim[p]]]
    /\ queued' = [queued EXCEPT ![p] = [Playable(p) EXCEPT ![sim[p]] = Absent]]
    /\ sim' = [sim EXCEPT ![p] = @ + 1]
    /\ UNCHANGED <<inputVars, driverVars, confirmVars, roomVars, inbox, pauses,
                   up, dn, cf, st, ctl>>

\* The same when the next frame's input is missing: frames after it may be
\* queued all the same.
QueueAhead(p) ==
    /\ Idle(p)
    /\ state[p] = "Running" /\ seen[p] = state[p]
    /\ MaxOf(produced[p], back[p]) >= sim[p] + P
    /\ Playable(p)[sim[p]] = Absent
    /\ Playable(p) # queued[p]
    /\ queued' = [queued EXCEPT ![p] = Playable(p)]
    /\ UNCHANGED <<inputVars, driverVars, confirmVars, roomVars, sim, played,
                   inbox, pauses, up, dn, cf, st, ctl>>

-----------------------------------------------------------------------------
\* Pausing and resuming.

pauseSession ==
    /\ Idle(Host)
    /\ state[Host] = "Running"
    /\ pauses < MaxPauses
    /\ pauses' = pauses + 1
    /\ state' = [state EXCEPT ![Host] = "Paused"]
    /\ ctl' = [c \in Clients |-> Append(ctl[c], "Paused")]
    /\ UNCHANGED <<inputVars, driverVars, confirmVars, conf, cur, seen,
                   consoleVars, inbox, up, dn, cf, st>>

resumeSession ==
    /\ Idle(Host)
    /\ state[Host] = "Paused"
    /\ state' = [state EXCEPT ![Host] = "Running"]
    /\ ctl' = [c \in Clients |-> Append(ctl[c], "Running")]
    /\ UNCHANGED <<inputVars, driverVars, confirmVars, conf, cur, seen,
                   consoleVars, inbox, pauses, up, dn, cf, st>>

\* handleStartSession for a pause or a resume: a resume that was not preceded
\* by a resynchronisation forgets every confirmed frame.
ReceiveSession(c) ==
    /\ Idle(c)
    /\ ctl[c] # << >>
    /\ ctl' = [ctl EXCEPT ![c] = Tail(@)]
    /\ state' = [state EXCEPT ![c] = Head(ctl[c])]
    /\ IF Head(ctl[c]) = "Running"
       THEN /\ store' = [store EXCEPT ![c] = [f \in Frame |-> Absent]]
            /\ back' = [back EXCEPT ![c] = 0]
            /\ conf' = [conf EXCEPT ![c] = 0]
       ELSE UNCHANGED <<store, back, conf>>
    /\ UNCHANGED <<inputVars, driverVars, lastPub, cur, seen, consoleVars, inbox,
                   pauses, up, dn, cf, st>>

\* runtimeHandleSessionStateTransitions: the runtime notices a state it has
\* not acted on; leaving Running resets the input driver.
NoticeState(p) ==
    /\ Idle(p)
    /\ seen[p] # state[p]
    /\ seen' = [seen EXCEPT ![p] = state[p]]
    /\ produced' = [produced EXCEPT ![p] = IF state[p] = "Running" THEN @ ELSE 0]
    /\ UNCHANGED <<inputVars, todo, confirmVars, conf, cur, state, consoleVars,
                   inbox, pauses, up, dn, cf, st, ctl>>

-----------------------------------------------------------------------------
PeerStep(p) ==
    \/ Produce(p)
    \/ ProduceObserver(p)
    \/ HandleInput(p)
    \/ RunFrame(p)
    \/ QueueAhead(p)
    \/ NoticeState(p)

ClientStep(c) ==
    \/ DeliverToHost(c)
    \/ DeliverToClient(c)
    \/ ReceiveConfirmed(c)
    \/ ReceiveStatus(c)
    \/ ReceiveSession(c)

Next ==
    \/ \E p \in Peers : PeerStep(p)
    \/ \E c \in Clients : ClientStep(c)
    \/ HostUpdate
    \/ pauseSession
    \/ resumeSession

Spec == Init /\ [][Next]_vars

-----------------------------------------------------------------------------
\* Every variable has its type.
TypeOK ==
    /\ tl \in [Peers -> [Slots -> [Frame -> Frame \cup {None}]]]
    /\ sq \in [Slots -> [Frame -> Nat]]
    /\ localSeq \in [Peers -> Nat]
    /\ produced \in [Peers -> Frame]
    /\ todo \in [Peers -> SUBSET Slots]
    /\ contig \in [Peers -> [Peers -> Frame]]
    /\ rseq \in [Peers -> [Peers -> Nat]]
    /\ rebase \in [Peers -> [Peers -> BOOLEAN]]
    /\ store \in [Peers -> [Frame -> Inputs]]
    /\ back \in [Peers -> Frame]
    /\ lastPub \in Frame
    /\ conf \in [Peers -> Frame]
    /\ cur \in [Peers -> Frame]
    /\ state \in [Peers -> SessionState]
    /\ seen \in [Peers -> SessionState]
    /\ queued \in [Peers -> [Frame -> Inputs]]
    /\ sim \in [Peers -> 0..(MaxFrame + 1)]
    /\ played \in [Peers -> [Frame -> Inputs]]
    /\ inbox \in [Peers -> SUBSET Entry]
    /\ pauses \in 0..MaxPauses
    /\ up \in [Clients -> Seq(SUBSET Entry)]
    /\ dn \in [Clients -> Seq(SUBSET Entry)]
    /\ cf \in [Clients -> Seq(Batch)]
    /\ st \in [Clients -> Seq(Status)]
    /\ ctl \in [Clients -> Seq(SessionState)]

\* A client that has a confirmed frame has exactly the inputs the host stored
\* for it, although the host's timelines keep changing after publication and
\* the client forgets and receives frames in its own order.
ConfirmedAgreement ==
    \A c \in Clients, f \in Frame :
        store[c][f] # Absent => store[c][f] = store[Host][f]

\* Lockstep: whenever two peers have emulated a frame they emulated it with
\* the same inputs, whether they took them from the published frame or
\* assembled them from their own recordings and relayed packets.
PlaybackAgreement ==
    \A p, q \in Peers, f \in Frame :
        played[p][f] # Absent /\ played[q][f] # Absent => played[p][f] = played[q][f]

\* The host never replaces what a player pressed by a repetition of an older
\* input: within the redundancy of the packets no gap can open.
NoInputRepeated ==
    \A s \in Slots, f \in Frame : tl[Host][s][f] \in {None, f}

\* computeHostInputConfirmedFrame is the highest frame for which every
\* assigned participant has a contiguous contribution: every frame through
\* it can be assembled.
HostInputsContiguous ==
    \A f \in 0..computeHostInputConfirmedFrame(tl[Host], contig[Host]) :
        Assemblable(tl[Host], f)

\* Every frame the host advertises as confirmed has been published: it is
\* stored, and its broadcast can reach the clients.
AdvertisedFramesPublished ==
    \A f \in 0..conf[Host] : store[Host][f] # Absent

\* No client emulates a frame the host has neither reached nor confirmed.
ClientsFollowHost ==
    \A c \in Clients : sim[c] <= MaxOf(sim[Host], conf[Host]) + 1

-----------------------------------------------------------------------------
\* Every peer keeps ticking and every packet that is not lost arrives; the
\* owner resumes a session it paused.
Fairness ==
    /\ \A p \in Peers : WF_vars(PeerStep(p))
    /\ \A c \in Clients :
          /\ WF_vars(DeliverToHost(c))
          /\ WF_vars(DeliverToClient(c))
          /\ WF_vars(ReceiveConfirmed(c))
          /\ WF_vars(ReceiveStatus(c))
          /\ WF_vars(ReceiveSession(c))
    /\ WF_vars(HostUpdate)
    /\ WF_vars(resumeSession)

FairSpec == Spec /\ Fairness

\* Nobody waits for ever: every peer emulates every frame.
EveryFrameEmulated == \A p \in Peers : <>(sim[p] = MaxFrame + 1)
=============================================================================
