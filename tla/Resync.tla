------------------------------- MODULE Resync -------------------------------
(***************************************************************************)
(* Authoritative resynchronisation: the host sends its emulator state to   *)
(* everyone (a full resync, which opens a new timeline epoch) or to one    *)
(* participant (a targeted resync, for a participant that joins late,      *)
(* reconnects or was hidden), and waits for an acknowledgement from each   *)
(* before the session runs again.  Connections are lost and made again     *)
(* meanwhile, loading may fail, and the host's deadlines may pass.         *)
(*                                                                         *)
(* room is the host's coordinator, with the reliable packets under way to  *)
(* each client; peer[c] is the coordinator of client c.  Operators that    *)
(* take a room r and return a room are the coordinator's functions: they   *)
(* call each other as the code does.                                       *)
(*                                                                         *)
(* Resyncs are numbered from 1 as in the code; room.epochs[i] is the       *)
(* timeline epoch resync i was begun in.  A payload is known by the number *)
(* of its resync.  Frames do not appear: where a comparison of frames      *)
(* decides, both outcomes are possible.                                    *)
(***************************************************************************)
EXTENDS Naturals, Sequences

CONSTANTS
    Players,     \* remote participants with an assigned slot
    Observers,   \* remote participants without one
    Nobody,      \* kInvalidParticipantId
    MaxRequests, \* bound: resyncs, pauses and kicks wanted by the host or by clients
    MaxFaults,   \* bound: lost connections, and payloads that time out, are
                 \* incomplete or fail to load
    MaxJoins     \* bound: joins and reconnections

Clients == Players \cup Observers

ASSUME ParticipantsAssumption ==
    Players \cap Observers = {} /\ Nobody \notin Players \cup Observers
ASSUME ResyncBoundsAssumption ==
    {MaxRequests, MaxFaults, MaxJoins} \subseteq Nat

VARIABLES
    room,   \* the host's session, participants and resync tracking
    peer,   \* peer[c]: client c's session and incoming resync
    up,     \* up[c]: reliable packets under way from c to the host
    left    \* what is left of each bound

vars == <<room, peer, up, left>>

SessionState == {"Lobby", "Starting", "Running", "Paused", "Resyncing"}
RecoveryInputMode == {"Normal", "ResyncLocked", "PostResyncStabilizing"}

\* Packets to a client: a session state, the begin or the last part of a payload,
\* or that it has been removed from the room.
ToClient == [kind : SessionState \cup {"begin", "complete", "left"}, id : Nat]
StatePacket(s) == [kind |-> s, id |-> 0]
Payload(id) == <<[kind |-> "begin", id |-> id], [kind |-> "complete", id |-> id]>>

\* Packets to the host.  An ack says what came of loading the state: its CRC is
\* the host's, it differs, or the state did not load.  tag is a resync's number,
\* or the epoch a request was made in.
Loaded == {"same", "differs", "failed"}
ResyncReason == {"ConfirmedDesync", "ClientStallRecovery", "ObserverVisibilityRestore"}
ToHost == [kind : Loaded \cup {"abort"} \cup ResyncReason, tag : Nat]

-----------------------------------------------------------------------------
(* The host's coordinator. *)

Epoch(r) == r.epochs[Len(r.epochs)]

activeResyncIsTargeted(r) == r.targetId # 0 /\ r.target # Nobody

\* sendReliable to some clients: what is sent to a closed connection is lost.
Send(r, to, packets) ==
    [r EXCEPT !.down = [c \in Clients |->
        IF c \in to \cap r.link THEN @[c] \o packets ELSE @[c]]]

sendCurrentSessionStateToPeer(r, c) ==
    IF r.state \in {"Running", "Paused"} THEN Send(r, {c}, <<StatePacket(r.state)>>) ELSE r

clearTargetedResyncTracking(r) ==
    [r EXCEPT !.acks = {}, !.target = Nobody, !.targetId = 0, !.targetChecked = FALSE]

clearActiveResyncTracking(r, resumeState) ==
    [clearTargetedResyncTracking(r) EXCEPT
        !.state = resumeState, !.activeId = 0, !.checked = FALSE, !.crossed = FALSE]

finalizeActiveResyncIfReady(r) ==
    LET synced(q) == [q EXCEPT !.suspended = {}, !.resuming = {}] IN
    CASE r.acks # {} \/ (~activeResyncIsTargeted(r) /\ r.activeId = 0) -> r
      [] OTHER ->
           IF activeResyncIsTargeted(r)
           THEN sendCurrentSessionStateToPeer(synced(clearTargetedResyncTracking(r)), r.target)
           ELSE Send([synced(clearActiveResyncTracking(r, "Running"))
                         EXCEPT !.mode = "PostResyncStabilizing"],
                     Clients, <<StatePacket("Running")>>)

\* Mutant of cancelTargetedResync: the target is not told the session's state.
CancelSilently(r) ==
    IF activeResyncIsTargeted(r) THEN clearTargetedResyncTracking(r) ELSE r

cancelTargetedResync(r) ==
    IF activeResyncIsTargeted(r)
    THEN sendCurrentSessionStateToPeer(clearTargetedResyncTracking(r), r.target)
    ELSE r

\* Participants that leave the room or are reserved a place in it are no longer
\* waited for.
Unlist(r, S) ==
    [r EXCEPT !.connected = @ \ S, !.reserved = @ \ S, !.suspended = @ \ S,
              !.resuming = @ \ S, !.acks = @ \ S]
\* Mutant of Reserve: reserved participants are still waited for.
ReserveKeepsAcks(r, S) ==
    [Unlist(r, S) EXCEPT !.reserved = @ \cup S, !.suspended = @ \cup S, !.acks = r.acks]
Reserve(r, S) ==
    [Unlist(r, S) EXCEPT !.reserved = @ \cup S, !.suspended = @ \cup S]
\* Mutant of CancelOrFinalize: nobody checks whether the one who left was the last.
CancelOnly(r, c) == IF r.target = c THEN cancelTargetedResync(r) ELSE r
CancelOrFinalize(r, c) ==
    IF r.target = c THEN cancelTargetedResync(r) ELSE finalizeActiveResyncIfReady(r)

removeParticipant(r, c) == CancelOrFinalize(Unlist(r, {c}), c)

\* The connection is closed by the host; what is under way to the client is lost.
Disconnect(r, S) ==
    [r EXCEPT !.link = @ \ S, !.down = [c \in Clients |-> IF c \in S THEN <<>> ELSE @[c]]]

ejectParticipantForResyncFailure(r, S) ==
    finalizeActiveResyncIfReady(Disconnect(Reserve(r, S), S))

\* What may be queued after asking for a resync of t: an earlier frame wins, and
\* of two requests for one frame one for everybody.
queuePendingHostResync(r, t) ==
    {[r EXCEPT !.request = q] : q \in {{t}} \cup (IF r.request = {} THEN {} ELSE {r.request})}

scheduleResyncRetry(r) ==
    [clearActiveResyncTracking(r, IF r.state = "Resyncing" THEN "Running" ELSE r.state)
        EXCEPT !.mode = "Normal"]

BeginTargeted(r, t, crc) ==
    IF t \notin r.connected THEN r
    ELSE LET id == Len(r.epochs) + 1 IN
         Send([r EXCEPT !.epochs = Append(@, Epoch(r)), !.target = t, !.targetId = id,
                        !.targetChecked = crc, !.checked = FALSE, !.acks = {t},
                        !.crossed = r.activeId # 0],
              {t}, Payload(id))

BeginFull(r) ==
    LET id == Len(r.epochs) + 1
        begun == [r EXCEPT !.epochs = Append(@, Epoch(r) + 1), !.state = "Resyncing",
                           !.activeId = id, !.target = Nobody, !.checked = TRUE,
                           !.acks = r.connected, !.mode = "ResyncLocked",
                           !.suspended = {}, !.resuming = {}, !.crossed = FALSE]
    IN IF r.connected = {}
       THEN [clearActiveResyncTracking(begun, "Running") EXCEPT !.mode = "Normal"]
       ELSE Send(begun, Clients, Payload(id))

\* crc: whether the host knows the CRC to expect.  A full resync always does,
\* because the host loads the state itself first.
beginResync(r, t, crc) == IF t = Nobody THEN BeginFull(r) ELSE BeginTargeted(r, t, crc)

Settle(r, c) == finalizeActiveResyncIfReady([r EXCEPT !.acks = @ \ {c}])

handleResyncFailure(r, c) ==
    IF activeResyncIsTargeted(r) THEN cancelTargetedResync(r)
    ELSE IF c \notin r.connected \cup r.reserved THEN r
    ELSE IF c \in Observers THEN Settle(r, c)
    ELSE ejectParticipantForResyncFailure(r, {c})

AnsweredId(r) == IF activeResyncIsTargeted(r) THEN r.targetId ELSE r.activeId

\* Mutant of handleResyncAck: an ack of an earlier resync counts.
AckOfAnyResync(r, c, p) ==
    IF p.kind = "failed" THEN handleResyncFailure(r, c) ELSE Settle(r, c)

handleResyncAck(r, c, p) ==
    LET crcExpected == IF activeResyncIsTargeted(r) THEN r.targetChecked ELSE r.checked
    IN IF p.tag # AnsweredId(r) THEN r
       ELSE IF p.kind = "failed" \/ (p.kind = "differs" /\ crcExpected)
       THEN handleResyncFailure(r, c)
       ELSE Settle(r, c)

handleResyncAbort(r, c, p) == IF p.tag # AnsweredId(r) THEN r ELSE handleResyncFailure(r, c)

\* The rooms a request may lead to.  A desync report is ignored during recovery
\* and for a number of frames after it.
handleResyncRequest(r, c, p) ==
    IF \/ c \notin r.connected
       \/ r.state \notin {"Running", "Paused"}
       \/ r.activeId # 0 \/ r.targetId # 0
       \/ p.tag # Epoch(r)
       \/ p.kind = "ConfirmedDesync" /\ r.mode # "Normal"
    THEN {r}
    ELSE LET t == IF p.kind = "ObserverVisibilityRestore" /\ c \in Observers THEN c ELSE Nobody
         IN queuePendingHostResync(r, t) \cup (IF p.kind = "ConfirmedDesync" THEN {r} ELSE {})

-----------------------------------------------------------------------------
(* The host's steps.  Packets are handled first in a tick, then deadlines,  *)
(* then the runtime begins what was queued; the owner's commands come       *)
(* between ticks, when no join is waiting.                                  *)

Spend(bound) == left[bound] > 0 /\ left' = [left EXCEPT ![bound] = @ - 1]
HostOnly == UNCHANGED <<peer, up>>
BetweenTicks == room.lateJoin = {}

ReceiveFromClient(c) ==
    /\ up[c] # <<>>
    /\ LET p == Head(up[c]) IN
       \/ p.kind \in Loaded /\ room' = handleResyncAck(room, c, p)
       \/ p.kind = "abort" /\ room' = handleResyncAbort(room, c, p)
       \/ p.kind \in ResyncReason /\ room' \in handleResyncRequest(room, c, p)
    /\ up' = [d \in Clients |-> IF d \notin room'.link THEN <<>>
                                ELSE IF d = c THEN Tail(up[d]) ELSE up[d]]
    /\ UNCHANGED <<peer, left>>

\* Mutant of HostNotices: an observer's place is reserved too.
NoticesReservingAll(c) ==
    /\ c \in room.connected \ room.link
    /\ room' = CancelOrFinalize(Reserve([room EXCEPT !.lateJoin = @ \ {c}], {c}), c)
    /\ HostOnly /\ UNCHANGED left

\* A closed connection is noticed, or the client has left: a player keeps its
\* place, an observer does not.
HostNotices(c) ==
    /\ c \in room.connected \ room.link
    /\ LET r == [room EXCEPT !.lateJoin = @ \ {c}] IN
       room' = IF c \in Players THEN CancelOrFinalize(Reserve(r, {c}), c)
                                ELSE removeParticipant(r, c)
    /\ HostOnly /\ UNCHANGED left

\* The deadline of the acknowledgements still missing passes.
AckTimeout ==
    /\ room.acks # {}
    /\ LET stalled == room.acks \cap Players
           r == [room EXCEPT !.acks = stalled]
       IN room' = IF activeResyncIsTargeted(room) THEN cancelTargetedResync(room)
                  ELSE IF stalled = {} THEN finalizeActiveResyncIfReady(r)
                  ELSE ejectParticipantForResyncFailure(r, stalled)
    /\ up' = [c \in Clients |-> IF c \in room'.link THEN up[c] ELSE <<>>]
    /\ UNCHANGED <<peer, left>>

ReservationExpires(c) ==
    /\ c \in room.reserved
    /\ room' = removeParticipant(room, c)
    /\ HostOnly /\ UNCHANGED left

\* The frames after a resync were validated, or could not be.
Stabilized ==
    /\ room.mode = "PostResyncStabilizing" /\ room.state = "Running"
    /\ room' = [room EXCEPT !.mode = "Normal"]
    /\ HostOnly /\ UNCHANGED left

StabilizationFails ==
    /\ room.mode = "PostResyncStabilizing" /\ room.state = "Running"
    /\ room' \in queuePendingHostResync(scheduleResyncRetry(room), Nobody)
    /\ Spend("requests") /\ HostOnly

\* The runtime begins what was queued: first the requests, then late joins.
ProcessHostResync ==
    \E t \in room.request, crc \in BOOLEAN :
        /\ room' = beginResync([room EXCEPT !.request = {}], t, crc)
        /\ HostOnly /\ UNCHANGED left

ProcessLateJoin ==
    /\ room.request = {}
    /\ \E t \in room.lateJoin, crc \in BOOLEAN :
        /\ t \in room.resuming => ~crc
        /\ room' = beginResync([room EXCEPT !.lateJoin = {}], t, crc)
    /\ HostOnly /\ UNCHANGED left

\* The owner forces a resync or loads a state, or the host finds itself stalled.
HostResync ==
    /\ room.state \in {"Running", "Paused"}
    /\ room' = beginResync(room, Nobody, TRUE)
    /\ Spend("requests") /\ HostOnly

pauseSession ==
    /\ room.state = "Running" /\ BetweenTicks
    /\ room' = Send([room EXCEPT !.state = "Paused"], Clients, <<StatePacket("Paused")>>)
    /\ Spend("requests") /\ HostOnly

\* A session resumes only while every player is connected.
resumeSession ==
    /\ room.state = "Paused" /\ room.reserved = {} /\ BetweenTicks
    /\ room' = Send([room EXCEPT !.state = "Running"], Clients, <<StatePacket("Running")>>)
    /\ HostOnly /\ UNCHANGED left

\* The owner removes a participant.  Its connection stays open until it hears of
\* it, or for a moment longer: what it sends meanwhile still reaches the host.
kickParticipant(c) ==
    /\ c \in room.connected \cup room.reserved /\ BetweenTicks
    /\ room' = Send(removeParticipant(room, c), {c}, <<[kind |-> "left", id |-> 0]>>)
    /\ Spend("requests") /\ HostOnly

processPendingKickDisconnects(c) ==
    /\ c \in room.link \ room.connected
    /\ room' = Disconnect(room, {c})
    /\ up' = [up EXCEPT ![c] = <<>>]
    /\ UNCHANGED <<peer, left>>

-----------------------------------------------------------------------------
(* The clients' steps. *)

\* Mutant of handleResyncBegin: a payload waiting to be loaded is kept.
BeginKeepsApply(q, id) ==
    [q EXCEPT !.state = "Resyncing", !.locked = TRUE, !.epoch = room.epochs[id],
              !.activeId = id, !.incoming = id, !.fresh = FALSE]

handleResyncBegin(q, id) ==
    [q EXCEPT !.state = "Resyncing", !.locked = TRUE, !.epoch = room.epochs[id],
              !.activeId = id, !.incoming = id, !.apply = 0, !.fresh = FALSE]

\* A client that reconnected does not run before its state has begun to arrive.
handleStartSession(q, s) ==
    IF s = "Running" /\ q.fresh THEN q
    ELSE [q EXCEPT !.state = s,
                   !.locked = IF s = "Starting" THEN TRUE
                              ELSE IF s = "Running" THEN FALSE ELSE @]

Reply(c, kind, tag) == up' = [up EXCEPT ![c] = Append(@, [kind |-> kind, tag |-> tag])]

\* The payload is whole, or a part of it is missing and the client gives up.
handleResyncComplete(c, id) ==
    LET q == [peer[c] EXCEPT !.incoming = 0] IN
    \/ peer[c].incoming # id /\ UNCHANGED <<peer, up, left>>
    \/ peer[c].incoming = id /\ peer' = [peer EXCEPT ![c] = [q EXCEPT !.apply = id]]
                             /\ UNCHANGED <<up, left>>
    \/ peer[c].incoming = id /\ peer' = [peer EXCEPT ![c] = q]
                             /\ Reply(c, "abort", id) /\ Spend("faults")

\* The client was kicked: it closes its connection and does not reconnect.
handleParticipantLeft(c) ==
    /\ room.down[c] # <<>> /\ Head(room.down[c]).kind = "left"
    /\ room' = Disconnect(room, {c})
    /\ up' = [up EXCEPT ![c] = <<>>]
    /\ UNCHANGED <<peer, left>>

ReceiveFromHost(c) ==
    /\ room.down[c] # <<>>
    /\ LET p == Head(room.down[c]) IN
       \/ /\ p.kind \in SessionState
          /\ peer' = [peer EXCEPT ![c] = handleStartSession(@, p.kind)]
          /\ UNCHANGED <<up, left>>
       \/ /\ p.kind = "begin"
          /\ peer' = [peer EXCEPT ![c] = handleResyncBegin(@, p.id)]
          /\ UNCHANGED <<up, left>>
       \/ p.kind = "complete" /\ handleResyncComplete(c, p.id)
    /\ room' = [room EXCEPT !.down[c] = Tail(@)]

\* An unreliable frame status raises the client's epoch.
handleFrameStatus(c) ==
    /\ c \in room.link /\ peer[c].epoch < Epoch(room)
    /\ peer' = [peer EXCEPT ![c].epoch = Epoch(room)]
    /\ UNCHANGED <<room, up, left>>

\* No part of the payload has come for a while.
IncomingTimeout(c) ==
    /\ c \in room.link /\ peer[c].incoming # 0
    /\ Reply(c, "abort", peer[c].incoming)
    /\ peer' = [peer EXCEPT ![c].incoming = 0]
    /\ Spend("faults") /\ UNCHANGED room

acknowledgeResync(q, outcome) ==
    IF outcome = "failed" THEN q
    ELSE [q EXCEPT !.state = "Resyncing", !.locked = FALSE, !.activeId = 0]

\* The runtime loads a received payload, unless it is known to be outdated.
\* loaded: the resync whose state the client's emulator continues from.
ProcessPendingResyncApply(c) ==
    /\ c \in room.link /\ peer[c].apply # 0
    /\ LET q == [peer[c] EXCEPT !.apply = 0] IN
       \/ /\ peer[c].activeId \notin {0, peer[c].apply}
          /\ peer' = [peer EXCEPT ![c] = q] /\ UNCHANGED <<up, left>>
       \/ \E outcome \in Loaded :
          /\ peer[c].activeId \in {0, peer[c].apply}
          /\ peer' = [peer EXCEPT ![c] = acknowledgeResync(
                [q EXCEPT !.loaded = IF outcome = "same" THEN peer[c].apply ELSE 0], outcome)]
          /\ Reply(c, outcome, peer[c].apply)
          /\ IF outcome = "same" THEN UNCHANGED left ELSE Spend("faults")
    /\ UNCHANGED room

\* A stalled or diverged client, or an observer shown again, asks for a resync.
requestHostResync(c) ==
    /\ c \in room.link /\ peer[c].state = "Running"
    /\ \E reason \in ResyncReason :
        /\ reason = "ObserverVisibilityRestore" => c \in Observers
        /\ Reply(c, reason, peer[c].epoch)
    /\ Spend("requests") /\ UNCHANGED <<room, peer>>

\* The client's own state is reset when it joins again; it takes no step before.
LoseConnection(c) ==
    /\ c \in room.link
    /\ room' = Disconnect(room, {c})
    /\ up' = [up EXCEPT ![c] = <<>>]
    /\ Spend("faults") /\ UNCHANGED peer

\* Mutant of handleJoinRoom: a join during a resync is not remembered.
JoinWhileResyncing(c) ==
    /\ c \notin room.link
    /\ c \in Observers \/ c \in room.connected \cup room.reserved
    /\ room' = [room EXCEPT !.connected = @ \cup {c}, !.reserved = @ \ {c},
                    !.suspended = @ \ {c}, !.lateJoin = IF room.state = "Resyncing" THEN @ ELSE {c},
                    !.link = @ \cup {c},
                    !.resuming = IF c \in room.reserved THEN @ \cup {c} ELSE @ \ {c},
                    !.down[c] = <<StatePacket(room.state)>>]
    /\ \E reconnects \in BOOLEAN :
        /\ c \in room.connected \cup room.reserved => reconnects
        /\ peer' = [peer EXCEPT ![c] = [state |-> "Lobby", locked |-> FALSE,
                        epoch |-> Epoch(room), activeId |-> 0, incoming |-> 0,
                        apply |-> 0, loaded |-> 0, fresh |-> reconnects]]
    /\ Spend("joins") /\ UNCHANGED up

\* A client joins, or reconnects with its token: into its reserved place, or
\* replacing a connection the host still believes in.  It starts from nothing.
handleJoinRoom(c) ==
    /\ c \notin room.link
    /\ c \in Observers \/ c \in room.connected \cup room.reserved
    /\ room' = [room EXCEPT !.connected = @ \cup {c}, !.reserved = @ \ {c},
                    !.suspended = @ \ {c}, !.lateJoin = {c}, !.link = @ \cup {c},
                    !.resuming = IF c \in room.reserved THEN @ \cup {c} ELSE @ \ {c},
                    !.down[c] = <<StatePacket(room.state)>>]
    /\ \E reconnects \in BOOLEAN :
        /\ c \in room.connected \cup room.reserved => reconnects
        /\ peer' = [peer EXCEPT ![c] = [state |-> "Lobby", locked |-> FALSE,
                        epoch |-> Epoch(room), activeId |-> 0, incoming |-> 0,
                        apply |-> 0, loaded |-> 0, fresh |-> reconnects]]
    /\ Spend("joins") /\ UNCHANGED up

-----------------------------------------------------------------------------
(* The owner has started a session: the initial resync has just begun. *)

Init ==
    /\ room = [state |-> "Resyncing", mode |-> "ResyncLocked", epochs |-> <<1>>,
               activeId |-> 1, checked |-> TRUE,
               target |-> Nobody, targetId |-> 0, targetChecked |-> FALSE,
               acks |-> Clients, connected |-> Clients, reserved |-> {},
               suspended |-> {}, resuming |-> {}, request |-> {}, lateJoin |-> {},
               crossed |-> FALSE, link |-> Clients,
               down |-> [c \in Clients |-> <<StatePacket("Starting")>> \o Payload(1)]]
    /\ peer = [c \in Clients |-> [state |-> "Lobby", locked |-> FALSE, epoch |-> 0,
                   activeId |-> 0, incoming |-> 0, apply |-> 0, loaded |-> 0,
                   fresh |-> FALSE]]
    /\ up = [c \in Clients |-> <<>>]
    /\ left = [requests |-> MaxRequests, faults |-> MaxFaults, joins |-> MaxJoins]

HostStep ==
    \/ AckTimeout \/ Stabilized \/ StabilizationFails
    \/ ProcessHostResync \/ ProcessLateJoin
    \/ HostResync \/ pauseSession \/ resumeSession
    \/ \E c \in Clients :
        \/ ReceiveFromClient(c) \/ HostNotices(c) \/ ReservationExpires(c)
        \/ kickParticipant(c) \/ processPendingKickDisconnects(c)

ClientStep(c) ==
    \/ ReceiveFromHost(c) \/ handleParticipantLeft(c)
    \/ handleFrameStatus(c) \/ IncomingTimeout(c)
    \/ ProcessPendingResyncApply(c) \/ requestHostResync(c)
    \/ LoseConnection(c) \/ handleJoinRoom(c)

Next == HostStep \/ \E c \in Clients : ClientStep(c)

Spec == Init /\ [][Next]_vars

\* The host's and the clients' loops go on: packets on an open connection arrive,
\* deadlines pass, queued work is begun, and a received payload is loaded.
FairSpec ==
    /\ Spec
    /\ WF_vars(AckTimeout) /\ WF_vars(ProcessHostResync) /\ WF_vars(ProcessLateJoin)
    /\ \A c \in Clients :
        /\ WF_vars(ReceiveFromClient(c)) /\ WF_vars(HostNotices(c))
        /\ WF_vars(processPendingKickDisconnects(c))
        /\ WF_vars(ReceiveFromHost(c)) /\ WF_vars(ProcessPendingResyncApply(c))

-----------------------------------------------------------------------------

\* Types of the host's and the clients' coordinator state and of the packets
\* under way.
TypeOK ==
    /\ room \in [state : SessionState \ {"Lobby", "Starting"}, mode : RecoveryInputMode,
                 epochs : Seq(Nat), activeId : Nat, checked : BOOLEAN,
                 target : Clients \cup {Nobody}, targetId : Nat, targetChecked : BOOLEAN,
                 acks : SUBSET Clients, connected : SUBSET Clients,
                 reserved : SUBSET Players, suspended : SUBSET Players,
                 resuming : SUBSET Players, request : SUBSET (Clients \cup {Nobody}),
                 lateJoin : SUBSET Clients, crossed : BOOLEAN, link : SUBSET Clients,
                 down : [Clients -> Seq(ToClient)]]
    /\ peer \in [Clients -> [state : SessionState, locked : BOOLEAN, epoch : Nat,
                             activeId : Nat, incoming : Nat, apply : Nat, loaded : Nat,
                             fresh : BOOLEAN]]
    /\ up \in [Clients -> Seq(ToHost)]

\* The host waits only for participants it believes connected, is in the
\* Resyncing state exactly while a full resync is active, and in a targeted one
\* waits for the target alone (m_pendingResyncAcks, activeResyncId and
\* m_activeResyncTargetParticipantId are updated by many handlers separately).
TrackingConsistent ==
    /\ room.acks \subseteq room.connected
    /\ room.connected \cap room.reserved = {}
    /\ room.state = "Resyncing" <=> room.activeId # 0
    /\ activeResyncIsTargeted(room) => room.acks = {room.target}
    /\ room.acks # {} => activeResyncIsTargeted(room) \/ room.activeId # 0

\* When a full resync ends, every player still connected has loaded the state of
\* the current epoch, or has reconnected and will not run before it gets one;
\* unless a targeted resync was begun meanwhile (finalizeActiveResyncIfReady,
\* "all-resync-acks-received").
ResumeNeedsEveryPlayer ==
    [][(room.state = "Resyncing" /\ room'.state = "Running" /\ ~room.crossed) =>
        \A p \in Players \cap room'.connected :
            \/ peer[p].fresh
            \/ peer[p].loaded # 0 /\ room.epochs[peer[p].loaded] = Epoch(room)]_vars

\* A client that runs accepts confirmed inputs again, and a payload waiting to
\* be loaded is the one of the newest begin the client received (handleResyncBegin,
\* handleStartSession, consumePendingResyncApply).
NewestPayloadOnly ==
    \A c \in room.link :
        /\ peer[c].state = "Running" => ~peer[c].locked
        /\ peer[c].apply # 0 => peer[c].apply = peer[c].activeId

\* A full resync that no targeted one crosses ends: the host runs again.
UncrossedResyncEnds ==
    (room.state = "Resyncing" /\ ~room.crossed) ~> (room.state # "Resyncing" \/ room.crossed)

\* A player locked out of the game by a resync is let in again or loses its
\* connection, unless the owner pauses the game or a targeted resync crosses a
\* full one (ResyncLocked drops every confirmed frame).
LockedPlayerReleased ==
    \A p \in Players :
        (p \in room.link /\ peer[p].locked) ~>
            (p \notin room.link \/ ~peer[p].locked \/ room.state = "Paused" \/ room.crossed)

\* A client that reconnects to a running session, and will not run before it gets
\* a state, is sent one or loses its connection again: whatever resync is queued
\* or under way then, on both ends of the replaced connection.  The host
\* remembers one late joiner, so this needs that no other joins before its next
\* tick (m_pendingHostLateJoinResyncParticipant); MaxJoins = 1 sees to it.
ReconnectedClientServed ==
    \A c \in Clients :
        (c \in room.link /\ peer[c].fresh) ~> (c \notin room.link \/ ~peer[c].fresh)

\* "Targeted observer resync times out without stalling host forever"
\* (tests/NetplayTests.cpp): the host leaves the Resyncing state.
HostLeavesResync == room.state = "Resyncing" ~> room.state # "Resyncing"

\* "Keep the host authoritative timeline moving while this participant is
\* temporarily disconnected": the inputs of a player whose place is reserved are
\* suspended, so that the host makes them up (update, Disconnected event).
ReservedInputsSuspended == room.reserved \subseteq room.suspended
=============================================================================
