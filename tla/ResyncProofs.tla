---------------------------- MODULE ResyncProofs ----------------------------
(***************************************************************************)
(* Proofs about Resync for any players and observers and any number of     *)
(* requests, faults and joins: type correctness, consistent tracking of    *)
(* the acknowledgements, that a client never loads an outdated payload,    *)
(* and that a full resync ends only when every connected player has the    *)
(* state of the current epoch or waits for one.                            *)
(***************************************************************************)
EXTENDS Resync, SequenceTheorems, TLAPS

\* The host's coordinator and a client's, as in TypeOK.
Room ==
    [state : SessionState \ {"Lobby", "Starting"}, mode : RecoveryInputMode,
     epochs : Seq(Nat), activeId : Nat, checked : BOOLEAN,
     target : Clients \cup {Nobody}, targetId : Nat, targetChecked : BOOLEAN,
     acks : SUBSET Clients, connected : SUBSET Clients,
     reserved : SUBSET Players, suspended : SUBSET Players,
     resuming : SUBSET Players, request : SUBSET (Clients \cup {Nobody}),
     lateJoin : SUBSET Clients, crossed : BOOLEAN, link : SUBSET Clients,
     down : [Clients -> Seq(ToClient)]]
PeerState ==
    [state : SessionState, locked : BOOLEAN, epoch : Nat, activeId : Nat,
     incoming : Nat, apply : Nat, loaded : Nat, fresh : BOOLEAN]

\* How many resyncs there have been: the number of the newest one.
Newest(r) == Len(r.epochs)

PartOfPayload == {"begin", "complete"}
NoBegin(d) == \A i \in 1..Len(d) : d[i].kind # "begin"

\* A full resync that no targeted one crosses.
Uncrossed(r) == r.activeId # 0 /\ ~r.crossed

\* TrackingConsistent of a room, and what else its fields say about each other:
\* an uncrossed full resync is the newest one, and checked.  Between two
\* functions of one handler the target may be missing from the acknowledgements.
AlmostTracked(r) ==
    /\ Newest(r) # 0
    /\ r.acks \subseteq r.connected
    /\ r.connected \cap r.reserved = {}
    /\ r.state = "Resyncing" <=> r.activeId # 0
    /\ activeResyncIsTargeted(r) => r.acks \subseteq {r.target}
    /\ r.acks # {} => activeResyncIsTargeted(r) \/ r.activeId # 0
    /\ Uncrossed(r) => r.target = Nobody /\ r.activeId = Newest(r) /\ r.checked
Tracked(r) ==
    /\ AlmostTracked(r)
    /\ activeResyncIsTargeted(r) => r.acks = {r.target}

\* The packets d under way to a client q, when n resyncs have been begun: each
\* payload is newer than what the client has received and than those before it.
Ordered(d, q, n) ==
    /\ \A i \in 1..Len(d) : d[i].kind \in PartOfPayload => d[i].id \in 1..n
    /\ \A i \in 1..Len(d) : d[i].kind = "begin" =>
          /\ q.loaded < d[i].id /\ q.apply < d[i].id /\ q.incoming < d[i].id
          /\ \A j \in 1..(i - 1) : d[j].kind = "begin" => d[j].id < d[i].id

\* What a client has received is newer than what it has loaded, and belongs to
\* the newest begin it has seen.
Received(q, n) ==
    /\ q.incoming # 0 => q.apply = 0 /\ q.incoming = q.activeId /\ q.loaded < q.incoming
    /\ q.apply # 0 => q.apply = q.activeId /\ q.loaded < q.apply
    /\ q.incoming <= n /\ q.apply <= n /\ q.loaded <= n
    /\ q.state = "Running" => ~q.locked

\* A client that says it loaded the newest state has it still.
Honest(u, q, n) ==
    \A i \in 1..Len(u) : u[i].kind = "same" =>
        u[i].tag <= n /\ (u[i].tag = n => q.loaded = n)

Closed == \A c \in Clients \ room.link : room.down[c] = <<>> /\ up[c] = <<>>

Pipelined ==
    \A c \in Clients :
        /\ Ordered(room.down[c], peer[c], Newest(room))
        /\ Received(peer[c], Newest(room))
        /\ Honest(up[c], peer[c], Newest(room))

\* In a full resync a player that is connected and not waited for has loaded its
\* state, or came back meanwhile and has not been sent one.
Settled(r, q, c) ==
    q.loaded = Newest(r) \/ (q.fresh /\ NoBegin(r.down[c]))
AllSettled ==
    Uncrossed(room) =>
        \A c \in (Players \cap room.connected) \ room.acks : Settled(room, peer[c], c)

IInv == TypeOK /\ Tracked(room) /\ Closed /\ Pipelined /\ AllSettled

-----------------------------------------------------------------------------
(* The coordinator's functions, from room to room. *)

\* The parts of payloads in d are those of e, in the same places.
PayloadsOf(d, e) ==
    \A i \in 1..Len(d) : d[i].kind \in PartOfPayload => i \in 1..Len(e) /\ d[i] = e[i]

\* Nothing is under way on a closed connection.
Shut(r) == \A c \in Clients \ r.link : r.down[c] = <<>>

\* What every function of the host does that begins no resync and lets nobody
\* in: no payload is sent, and a player in a full resync is no longer waited for
\* only because it is not connected or is one of ok.
Moved(r, s, ok) ==
    /\ s \in Room
    /\ s.epochs = r.epochs /\ s.link \subseteq r.link /\ s.connected \subseteq r.connected
    /\ \A c \in Clients : PayloadsOf(s.down[c], r.down[c])
    /\ Shut(r) => Shut(s)
    /\ Uncrossed(s) => Uncrossed(r)
    /\ r.target = Nobody =>
          s.target = Nobody /\ Players \cap s.connected \cap r.acks \subseteq ok \cup s.acks

LEMMA MovedReflexive ==
    ASSUME NEW r \in Room
    PROVE  Moved(r, r, {})
BY DEF Moved, PayloadsOf

LEMMA MovedTransitive ==
    ASSUME NEW r, NEW s, NEW t, NEW ok, Moved(r, s, ok), Moved(s, t, {})
    PROVE  Moved(r, t, ok)
<1>1. \A c \in Clients : PayloadsOf(t.down[c], r.down[c])
  BY DEF Moved, PayloadsOf
<1> QED BY <1>1 DEF Moved

\* The tracking of resyncs, as opposed to packets and participants.
SameTracking(r, s) ==
    /\ s.state = r.state /\ s.mode = r.mode /\ s.activeId = r.activeId
    /\ s.checked = r.checked /\ s.target = r.target /\ s.targetId = r.targetId
    /\ s.targetChecked = r.targetChecked /\ s.acks = r.acks /\ s.crossed = r.crossed
SameParticipants(r, s) ==
    /\ s.epochs = r.epochs /\ s.link = r.link /\ s.connected = r.connected
    /\ s.reserved = r.reserved /\ s.request = r.request /\ s.lateJoin = r.lateJoin

LEMMA SendPlain ==
    ASSUME NEW r \in Room, NEW to, NEW p \in ToClient, p.kind \notin PartOfPayload
    PROVE  LET s == Send(r, to, <<p>>)
           IN  Moved(r, s, {}) /\ SameTracking(r, s) /\ SameParticipants(r, s)
<1> DEFINE d == [c \in Clients |-> IF c \in to \cap r.link
                                    THEN r.down[c] \o <<p>> ELSE r.down[c]]
           s == [r EXCEPT !.down = d]
<1>1. r.down \in [Clients -> Seq(ToClient)]
  BY DEF Room
<1>2. /\ d \in [Clients -> Seq(ToClient)]
      /\ \A c \in Clients : PayloadsOf(d[c], r.down[c])
      /\ \A c \in Clients \ r.link : d[c] = r.down[c]
  <2>1. ASSUME NEW c \in Clients
        PROVE  r.down[c] \o <<p>> \in Seq(ToClient) /\ PayloadsOf(r.down[c] \o <<p>>, r.down[c])
    <3> DEFINE e == r.down[c]
    <3>1. e \in Seq(ToClient) /\ <<p>> \in Seq(ToClient) /\ Len(<<p>>) = 1 /\ <<p>>[1] = p
      BY <1>1
    <3> HIDE DEF e
    <3> DEFINE o == e \o <<p>>
    <3>2. o \in Seq(ToClient) /\ Len(o) = Len(e) + 1 /\ \A i \in 1..(Len(e) + 1) :
               o[i] = IF i <= Len(e) THEN e[i] ELSE <<p>>[i - Len(e)]
      BY <3>1, ConcatProperties
    <3> HIDE DEF o
    <3>3. PayloadsOf(o, e)
      BY <3>1, <3>2 DEF PayloadsOf
    <3> QED BY <3>2, <3>3 DEF o, e
  <2>2. \A c \in Clients : PayloadsOf(r.down[c], r.down[c])
    BY DEF PayloadsOf
  <2> QED BY <1>1, <2>1, <2>2
<1>3. Send(r, to, <<p>>) = s
  BY DEF Send
<1> HIDE DEF d
<1>4. s \in Room
  BY <1>2 DEF Room
<1>5. s.down = d
  BY DEF Room
<1>6. SameTracking(r, s) /\ SameParticipants(r, s)
  BY DEF Room, SameTracking, SameParticipants
<1>7. Moved(r, s, {})
  BY <1>2, <1>4, <1>5, <1>6 DEF Moved, SameTracking, SameParticipants, Shut, Uncrossed
<1> QED
  BY <1>3, <1>6, <1>7

LEMMA StatePackets ==
    \A st \in SessionState : StatePacket(st) \in ToClient /\ StatePacket(st).kind \notin PartOfPayload
BY DEF StatePacket, ToClient, SessionState, PartOfPayload

LEMMA SendCurrentState ==
    ASSUME NEW r \in Room, NEW c
    PROVE  LET s == sendCurrentSessionStateToPeer(r, c)
           IN  Moved(r, s, {}) /\ SameTracking(r, s) /\ SameParticipants(r, s)
<1>1. CASE r.state \in {"Running", "Paused"}
  <2>1. r.state \in SessionState
    BY DEF Room
  <2> QED BY <1>1, <2>1, StatePackets, SendPlain DEF sendCurrentSessionStateToPeer
<1>2. CASE r.state \notin {"Running", "Paused"}
  BY <1>2, MovedReflexive DEF sendCurrentSessionStateToPeer, SameTracking, SameParticipants
<1> QED BY <1>1, <1>2

LEMMA ClearTargeted ==
    ASSUME NEW r \in Room
    PROVE  LET s == clearTargetedResyncTracking(r)
           IN  /\ s \in Room /\ SameParticipants(r, s) /\ s.down = r.down
               /\ s.state = r.state /\ s.activeId = r.activeId
               /\ s.checked = r.checked /\ s.crossed = r.crossed
               /\ s.acks = {} /\ s.target = Nobody /\ s.targetId = 0
BY DEF clearTargetedResyncTracking, Room, SameParticipants

LEMMA ClearActive ==
    ASSUME NEW r \in Room, NEW st \in {"Running", "Paused"}
    PROVE  LET s == clearActiveResyncTracking(r, st)
           IN  /\ s \in Room /\ SameParticipants(r, s) /\ s.down = r.down
               /\ s.state = st /\ s.activeId = 0 /\ ~s.crossed
               /\ s.acks = {} /\ s.target = Nobody /\ s.targetId = 0
<1> DEFINE q == clearTargetedResyncTracking(r)
<1>1. /\ q \in Room /\ SameParticipants(r, q) /\ q.down = r.down
      /\ q.acks = {} /\ q.target = Nobody /\ q.targetId = 0
  BY ClearTargeted
<1> HIDE DEF q
<1> DEFINE s == [q EXCEPT !.state = st, !.activeId = 0, !.checked = FALSE, !.crossed = FALSE]
<1>2. clearActiveResyncTracking(r, st) = s
  BY DEF clearActiveResyncTracking, q
<1>3. st \in SessionState \ {"Lobby", "Starting"}
  BY DEF SessionState
<1>4. s \in Room
  <2>1. [q EXCEPT !.state = st] \in Room
    BY <1>1, <1>3 DEF Room
  <2>2. \A p \in Room : [p EXCEPT !.activeId = 0, !.checked = FALSE, !.crossed = FALSE] \in Room
    BY DEF Room
  <2> QED BY <2>1, <2>2
<1>5. /\ SameParticipants(q, s) /\ s.down = q.down
      /\ s.state = st /\ s.activeId = 0 /\ ~s.crossed
      /\ s.acks = q.acks /\ s.target = q.target /\ s.targetId = q.targetId
  BY <1>1 DEF Room, SameParticipants
<1> HIDE DEF s
<1>6. SameParticipants(r, s)
  BY <1>1, <1>5 DEF SameParticipants
<1> QED BY <1>1, <1>2, <1>4, <1>5, <1>6

\* A move that ends all tracking of a resync ends in a consistent room.
LEMMA ClearedTracked ==
    ASSUME NEW r \in Room, NEW s \in Room, AlmostTracked(r), SameParticipants(r, s),
           s.acks = {}, s.target = Nobody,
           \/ s.state = r.state /\ s.activeId = r.activeId /\ s.crossed = r.crossed
                /\ s.checked = r.checked
           \/ s.activeId = 0 /\ s.state # "Resyncing"
    PROVE  Tracked(s)
BY DEF Tracked, AlmostTracked, SameParticipants, Uncrossed, Newest, activeResyncIsTargeted

\* The same room with other tracking, in which nobody is waited for any more.
LEMMA ClearedMoved ==
    ASSUME NEW r \in Room, NEW s \in Room, SameParticipants(r, s), s.down = r.down,
           s.target = Nobody, r.target # Nobody \/ r.acks = {},
           Uncrossed(s) => Uncrossed(r)
    PROVE  Moved(r, s, {})
BY DEF Moved, SameParticipants, PayloadsOf, Shut

LEMMA CancelMoves ==
    ASSUME NEW r \in Room, AlmostTracked(r)
    PROVE  LET s == cancelTargetedResync(r)
           IN  Moved(r, s, {}) /\ Tracked(s) /\ s.link = r.link
<1>1. CASE activeResyncIsTargeted(r)
  <2> DEFINE q == clearTargetedResyncTracking(r)
             s == sendCurrentSessionStateToPeer(q, r.target)
  <2>1. /\ q \in Room /\ SameParticipants(r, q) /\ q.down = r.down
        /\ q.state = r.state /\ q.activeId = r.activeId
        /\ q.checked = r.checked /\ q.crossed = r.crossed
        /\ q.acks = {} /\ q.target = Nobody
    BY ClearTargeted
  <2>2. r.target # Nobody
    BY <1>1 DEF activeResyncIsTargeted
  <2> HIDE DEF q
  <2>3. Moved(r, q, {})
    BY <2>1, <2>2, ClearedMoved DEF Uncrossed
  <2>4. Moved(q, s, {}) /\ SameTracking(q, s) /\ SameParticipants(q, s)
    BY <2>1, SendCurrentState
  <2>5. cancelTargetedResync(r) = s
    BY <1>1 DEF cancelTargetedResync, q
  <2> HIDE DEF s
  <2>6. Moved(r, s, {})
    BY <2>3, <2>4, MovedTransitive
  <2>7. Tracked(s)
    BY <2>1, <2>4, <2>6, ClearedTracked DEF Moved, SameTracking, SameParticipants
  <2>8. s.link = r.link
    BY <2>1, <2>4 DEF SameParticipants
  <2> QED BY <2>5, <2>6, <2>7, <2>8
<1>2. CASE ~activeResyncIsTargeted(r)
  BY <1>2, MovedReflexive DEF cancelTargetedResync, Tracked
<1> QED BY <1>1, <1>2

\* Everybody has answered: what finalizing leaves behind.
LEMMA FinalizeMoves ==
    ASSUME NEW r \in Room, AlmostTracked(r)
    PROVE  LET s == finalizeActiveResyncIfReady(r)
           IN  Moved(r, s, {}) /\ Tracked(s) /\ s.link = r.link
<1> DEFINE f == finalizeActiveResyncIfReady(r)
           Synced(q) == [q EXCEPT !.suspended = {}, !.resuming = {}]
<1>0. ASSUME NEW q \in Room
      PROVE  /\ Synced(q) \in Room /\ SameParticipants(q, Synced(q))
             /\ SameTracking(q, Synced(q)) /\ Synced(q).down = q.down
  BY DEF Room, SameParticipants, SameTracking
<1>1. CASE r.acks # {} \/ (~activeResyncIsTargeted(r) /\ r.activeId = 0)
  <2>1. f = r
    BY <1>1 DEF finalizeActiveResyncIfReady
  <2>2. Tracked(r)
    BY <1>1 DEF Tracked, AlmostTracked
  <2> QED BY <2>1, <2>2, MovedReflexive
<1>2. CASE r.acks = {} /\ activeResyncIsTargeted(r)
  <2> DEFINE q == clearTargetedResyncTracking(r)
             u == Synced(q)
             s == sendCurrentSessionStateToPeer(u, r.target)
  <2>1. /\ q \in Room /\ SameParticipants(r, q) /\ q.down = r.down
        /\ q.state = r.state /\ q.activeId = r.activeId
        /\ q.checked = r.checked /\ q.crossed = r.crossed
        /\ q.acks = {} /\ q.target = Nobody
    BY ClearTargeted
  <2>2. f = s
    BY <1>2 DEF finalizeActiveResyncIfReady
  <2> HIDE DEF q
  <2>3. /\ u \in Room /\ SameParticipants(r, u) /\ u.down = r.down
        /\ u.state = r.state /\ u.activeId = r.activeId
        /\ u.checked = r.checked /\ u.crossed = r.crossed
        /\ u.acks = {} /\ u.target = Nobody
    BY <1>0, <2>1 DEF SameTracking, SameParticipants
  <2> HIDE DEF u
  <2>4. Moved(r, u, {})
    BY <1>2, <2>3, ClearedMoved DEF Uncrossed
  <2>5. Moved(u, s, {}) /\ SameTracking(u, s) /\ SameParticipants(u, s)
    BY <2>3, SendCurrentState
  <2> HIDE DEF s
  <2>6. Moved(r, s, {})
    BY <2>4, <2>5, MovedTransitive
  <2>7. Tracked(s)
    BY <2>3, <2>5, <2>6, ClearedTracked DEF Moved, SameTracking, SameParticipants
  <2>8. s.link = r.link
    BY <2>3, <2>5 DEF SameParticipants
  <2> QED BY <2>2, <2>6, <2>7, <2>8
<1>3. CASE r.acks = {} /\ ~activeResyncIsTargeted(r) /\ r.activeId # 0
  <2> DEFINE q == clearActiveResyncTracking(r, "Running")
             u == [Synced(q) EXCEPT !.mode = "PostResyncStabilizing"]
             s == Send(u, Clients, <<StatePacket("Running")>>)
  <2>1. /\ q \in Room /\ SameParticipants(r, q) /\ q.down = r.down
        /\ q.state = "Running" /\ q.activeId = 0 /\ q.acks = {} /\ q.target = Nobody
    BY ClearActive
  <2>2. f = s
    BY <1>3 DEF finalizeActiveResyncIfReady
  <2> HIDE DEF q
  <2>3. /\ u \in Room /\ SameParticipants(r, u) /\ u.down = r.down
        /\ u.state = "Running" /\ u.activeId = 0 /\ u.acks = {} /\ u.target = Nobody
    BY <2>1 DEF Room, SameParticipants, RecoveryInputMode
  <2> HIDE DEF u
  <2>4. Moved(r, u, {})
    BY <1>3, <2>3, ClearedMoved DEF Uncrossed
  <2>5. Moved(u, s, {}) /\ SameTracking(u, s) /\ SameParticipants(u, s)
    BY <2>3, StatePackets, SendPlain DEF SessionState
  <2> HIDE DEF s
  <2>6. Moved(r, s, {})
    BY <2>4, <2>5, MovedTransitive
  <2>7. Tracked(s)
    BY <2>3, <2>5, <2>6, ClearedTracked DEF Moved, SameTracking, SameParticipants
  <2>8. s.link = r.link
    BY <2>3, <2>5 DEF SameParticipants
  <2> QED BY <2>2, <2>6, <2>7, <2>8
<1> QED BY <1>1, <1>2, <1>3

LEMMA UnlistMoves ==
    ASSUME NEW r \in Room, Tracked(r), NEW S \in SUBSET Clients
    PROVE  LET s == Unlist(r, S)
           IN  /\ Moved(r, s, {}) /\ AlmostTracked(s)
               /\ s.link = r.link /\ s.down = r.down
               /\ s.connected = r.connected \ S /\ s.reserved = r.reserved \ S
               /\ s.target = r.target /\ s.acks = r.acks \ S
<1> DEFINE s == Unlist(r, S)
<1>1. s \in Room
  BY DEF Unlist, Room
<1>2. /\ s.epochs = r.epochs /\ s.link = r.link /\ s.down = r.down
      /\ s.connected = r.connected \ S /\ s.reserved = r.reserved \ S
      /\ s.acks = r.acks \ S /\ s.target = r.target /\ s.targetId = r.targetId
      /\ s.state = r.state /\ s.activeId = r.activeId
      /\ s.checked = r.checked /\ s.crossed = r.crossed
  BY DEF Unlist, Room
<1> HIDE DEF s
<1>3. Moved(r, s, {})
  BY <1>1, <1>2 DEF Moved, PayloadsOf, Shut, Uncrossed
<1>4. AlmostTracked(s)
  BY <1>2 DEF Tracked, AlmostTracked, Newest, Uncrossed, activeResyncIsTargeted
<1> QED BY <1>2, <1>3, <1>4 DEF s

LEMMA ReserveMoves ==
    ASSUME NEW r \in Room, Tracked(r), NEW S \in SUBSET Players
    PROVE  LET s == Reserve(r, S)
           IN  /\ Moved(r, s, {}) /\ AlmostTracked(s)
               /\ s.link = r.link /\ s.connected = r.connected \ S
<1> DEFINE q == Unlist(r, S)
           s == [q EXCEPT !.reserved = @ \cup S, !.suspended = @ \cup S]
<1>1. /\ Moved(r, q, {}) /\ AlmostTracked(q)
      /\ q.link = r.link /\ q.connected = r.connected \ S
  BY UnlistMoves DEF Clients
<1>2. q \in Room
  BY <1>1 DEF Moved
<1>3. Reserve(r, S) = s
  BY DEF Reserve
<1> HIDE DEF q
<1>4. s \in Room
  BY <1>2 DEF Room
<1>5. /\ s.epochs = q.epochs /\ s.link = q.link /\ s.down = q.down
      /\ s.connected = q.connected /\ s.reserved = q.reserved \cup S
      /\ s.acks = q.acks /\ s.target = q.target /\ s.targetId = q.targetId
      /\ s.state = q.state /\ s.activeId = q.activeId
      /\ s.checked = q.checked /\ s.crossed = q.crossed
  BY <1>2 DEF Room
<1> HIDE DEF s
<1>6. Moved(q, s, {})
  BY <1>2, <1>4, <1>5 DEF Moved, PayloadsOf, Shut, Uncrossed
<1>7. AlmostTracked(s)
  BY <1>1, <1>5 DEF AlmostTracked, Newest, Uncrossed, activeResyncIsTargeted
<1> QED BY <1>1, <1>3, <1>5, <1>6, <1>7, MovedTransitive

LEMMA CancelOrFinalizeMoves ==
    ASSUME NEW r \in Room, AlmostTracked(r), NEW c
    PROVE  LET s == CancelOrFinalize(r, c)
           IN  Moved(r, s, {}) /\ Tracked(s) /\ s.link = r.link
BY CancelMoves, FinalizeMoves DEF CancelOrFinalize

LEMMA RemoveMoves ==
    ASSUME NEW r \in Room, Tracked(r), NEW c \in Clients
    PROVE  LET s == removeParticipant(r, c)
           IN  Moved(r, s, {}) /\ Tracked(s) /\ s.link = r.link
<1> DEFINE q == Unlist(r, {c})
<1>1. Moved(r, q, {}) /\ AlmostTracked(q) /\ q.link = r.link
  BY UnlistMoves
<1>2. q \in Room
  BY <1>1 DEF Moved
<1> HIDE DEF q
<1>3. /\ Moved(q, CancelOrFinalize(q, c), {}) /\ Tracked(CancelOrFinalize(q, c))
      /\ CancelOrFinalize(q, c).link = q.link
  BY <1>1, <1>2, CancelOrFinalizeMoves
<1>4. removeParticipant(r, c) = CancelOrFinalize(q, c)
  BY DEF removeParticipant, q
<1> QED BY <1>1, <1>3, <1>4, MovedTransitive

LEMMA DisconnectMoves ==
    ASSUME NEW r \in Room, NEW S
    PROVE  LET s == Disconnect(r, S)
           IN  /\ Moved(r, s, {}) /\ SameTracking(r, s) /\ s.link = r.link \ S
               /\ s.connected = r.connected /\ s.reserved = r.reserved
<1> DEFINE d == [c \in Clients |-> IF c \in S THEN <<>> ELSE r.down[c]]
           s == [r EXCEPT !.link = @ \ S, !.down = d]
<1>1. r.down \in [Clients -> Seq(ToClient)]
  BY DEF Room
<1>2. d \in [Clients -> Seq(ToClient)]
  BY <1>1
<1>3. Disconnect(r, S) = s
  BY DEF Disconnect
<1>4. \A c \in Clients : d[c] = IF c \in S THEN <<>> ELSE r.down[c]
  OBVIOUS
<1> HIDE DEF d
<1>5. s \in Room
  BY <1>2 DEF Room
<1>6. /\ s.down = d /\ s.link = r.link \ S /\ SameTracking(r, s)
      /\ s.epochs = r.epochs /\ s.connected = r.connected /\ s.reserved = r.reserved
  BY DEF Room, SameTracking
<1> HIDE DEF s
<1>7. \A c \in Clients : PayloadsOf(d[c], r.down[c])
  <2>1. \A c \in S \cap Clients : Len(d[c]) = 0
    BY <1>4
  <2> QED BY <1>4, <2>1 DEF PayloadsOf
<1>8. Shut(r) => Shut(s)
  BY <1>4, <1>6 DEF Shut
<1>9. Moved(r, s, {})
  BY <1>5, <1>6, <1>7, <1>8 DEF Moved, SameTracking, Uncrossed
<1> QED BY <1>3, <1>6, <1>9

LEMMA EjectMoves ==
    ASSUME NEW r \in Room, Tracked(r), NEW S \in SUBSET Players
    PROVE  LET s == ejectParticipantForResyncFailure(r, S)
           IN  Moved(r, s, {}) /\ Tracked(s)
<1> DEFINE q == Reserve(r, S)
           u == Disconnect(q, S)
           s == finalizeActiveResyncIfReady(u)
<1>1. Moved(r, q, {}) /\ AlmostTracked(q)
  BY ReserveMoves
<1>2. q \in Room
  BY <1>1 DEF Moved
<1> HIDE DEF q
<1>3. /\ Moved(q, u, {}) /\ SameTracking(q, u)
      /\ u.connected = q.connected /\ u.reserved = q.reserved
  BY <1>2, DisconnectMoves
<1> HIDE DEF u
<1>4. u \in Room /\ AlmostTracked(u)
  BY <1>1, <1>3 DEF Moved, AlmostTracked, SameTracking, Uncrossed, Newest, activeResyncIsTargeted
<1>5. Moved(u, s, {}) /\ Tracked(s)
  BY <1>4, FinalizeMoves
<1>6. ejectParticipantForResyncFailure(r, S) = s
  BY DEF ejectParticipantForResyncFailure, u, q
<1> HIDE DEF s
<1>7. Moved(r, s, {})
  BY <1>1, <1>3, <1>5, MovedTransitive
<1> QED BY <1>5, <1>6, <1>7

LEMMA SettleMoves ==
    ASSUME NEW r \in Room, Tracked(r), NEW c \in Clients
    PROVE  LET s == Settle(r, c)
           IN  Moved(r, s, {c}) /\ Tracked(s)
<1> DEFINE q == [r EXCEPT !.acks = @ \ {c}]
           s == finalizeActiveResyncIfReady(q)
<1>1. q \in Room
  BY DEF Room
<1>2. /\ SameParticipants(r, q) /\ q.down = r.down /\ q.acks = r.acks \ {c}
      /\ q.target = r.target /\ q.targetId = r.targetId
      /\ q.state = r.state /\ q.activeId = r.activeId
      /\ q.checked = r.checked /\ q.crossed = r.crossed
  BY DEF Room, SameParticipants
<1>3. Settle(r, c) = s
  BY DEF Settle
<1> HIDE DEF q
<1>4. Moved(r, q, {c})
  BY <1>1, <1>2 DEF Moved, SameParticipants, PayloadsOf, Shut, Uncrossed
<1>5. AlmostTracked(q)
  BY <1>2 DEF Tracked, AlmostTracked, SameParticipants, Newest, Uncrossed, activeResyncIsTargeted
<1>6. Moved(q, s, {}) /\ Tracked(s)
  BY <1>1, <1>5, FinalizeMoves
<1> QED BY <1>3, <1>4, <1>6, MovedTransitive

LEMMA MovedWeaker ==
    ASSUME NEW r, NEW s, NEW ok, Moved(r, s, {})
    PROVE  Moved(r, s, ok)
BY DEF Moved

LEMMA FailureMoves ==
    ASSUME NEW r \in Room, Tracked(r), NEW c \in Clients
    PROVE  LET s == handleResyncFailure(r, c)
           IN  Moved(r, s, {}) /\ Tracked(s)
<1>1. CASE activeResyncIsTargeted(r)
  BY <1>1, CancelMoves DEF handleResyncFailure, Tracked
<1>2. CASE ~activeResyncIsTargeted(r) /\ c \notin r.connected \cup r.reserved
  BY <1>2, MovedReflexive DEF handleResyncFailure
<1>3. CASE ~activeResyncIsTargeted(r) /\ c \in r.connected \cup r.reserved /\ c \in Observers
  <2>1. handleResyncFailure(r, c) = Settle(r, c)
    BY <1>3 DEF handleResyncFailure
  <2>2. c \notin Players
    BY <1>3, ParticipantsAssumption
  <2>3. Moved(r, Settle(r, c), {c}) /\ Tracked(Settle(r, c))
    BY SettleMoves
  <2>4. Moved(r, Settle(r, c), {})
    BY <2>2, <2>3 DEF Moved
  <2> QED BY <2>1, <2>3, <2>4
<1>4. CASE ~activeResyncIsTargeted(r) /\ c \in r.connected \cup r.reserved /\ c \notin Observers
  <2>1. handleResyncFailure(r, c) = ejectParticipantForResyncFailure(r, {c})
    BY <1>4 DEF handleResyncFailure
  <2>2. {c} \in SUBSET Players
    BY <1>4 DEF Clients
  <2> QED BY <2>1, <2>2, EjectMoves
<1> QED BY <1>1, <1>2, <1>3, <1>4

\* A player is no longer waited for in an uncrossed full resync only when it
\* says it has loaded the very state of that resync.
LEMMA AckMoves ==
    ASSUME NEW r \in Room, Tracked(r), NEW c \in Clients, NEW p \in ToHost, p.kind \in Loaded
    PROVE  LET s == handleResyncAck(r, c, p)
           IN  /\ Moved(r, s, {c}) /\ Tracked(s)
               /\ (Uncrossed(r) /\ ~(p.kind = "same" /\ p.tag = Newest(r))) => Moved(r, s, {})
<1> DEFINE crc == IF activeResyncIsTargeted(r) THEN r.targetChecked ELSE r.checked
           s == handleResyncAck(r, c, p)
<1>1. CASE p.tag # AnsweredId(r)
  <2>1. s = r
    BY <1>1 DEF handleResyncAck
  <2> QED BY <2>1, MovedReflexive, MovedWeaker
<1>2. CASE p.tag = AnsweredId(r) /\ (p.kind = "failed" \/ (p.kind = "differs" /\ crc))
  <2>1. s = handleResyncFailure(r, c)
    BY <1>2 DEF handleResyncAck
  <2> QED BY <2>1, FailureMoves, MovedWeaker
<1>3. CASE p.tag = AnsweredId(r) /\ ~(p.kind = "failed" \/ (p.kind = "differs" /\ crc))
  <2>1. s = Settle(r, c)
    BY <1>3 DEF handleResyncAck
  <2>2. ASSUME Uncrossed(r) PROVE p.kind = "same" /\ p.tag = Newest(r)
    <3>1. r.target = Nobody /\ r.activeId = Newest(r) /\ r.checked
      BY <2>2 DEF Tracked, AlmostTracked
    <3>2. ~activeResyncIsTargeted(r) /\ AnsweredId(r) = r.activeId
      BY <3>1 DEF activeResyncIsTargeted, AnsweredId
    <3>3. p.kind # "differs" /\ p.kind # "failed"
      BY <1>3, <3>1, <3>2
    <3> QED BY <1>3, <3>1, <3>2, <3>3 DEF Loaded
  <2> QED BY <2>1, <2>2, SettleMoves
<1> QED BY <1>1, <1>2, <1>3

LEMMA AbortMoves ==
    ASSUME NEW r \in Room, Tracked(r), NEW c \in Clients, NEW p
    PROVE  LET s == handleResyncAbort(r, c, p)
           IN  Moved(r, s, {}) /\ Tracked(s)
BY FailureMoves, MovedReflexive DEF handleResyncAbort

\* What is queued, and the mode, are no concern of the tracking.
SameButQueues(r, s) ==
    /\ s.epochs = r.epochs /\ s.link = r.link /\ s.connected = r.connected
    /\ s.reserved = r.reserved /\ s.down = r.down
    /\ s.activeId = r.activeId /\ s.checked = r.checked /\ s.target = r.target
    /\ s.targetId = r.targetId /\ s.acks = r.acks /\ s.crossed = r.crossed

LEMMA QueuesMove ==
    ASSUME NEW r \in Room, Tracked(r), NEW s \in Room, SameButQueues(r, s),
           s.state = r.state \/ "Resyncing" \notin {r.state, s.state}
    PROVE  Moved(r, s, {}) /\ Tracked(s)
<1>1. Moved(r, s, {})
  BY DEF Moved, SameButQueues, PayloadsOf, Shut, Uncrossed
<1>2. Tracked(s)
  BY DEF Tracked, AlmostTracked, SameButQueues, Uncrossed, Newest, activeResyncIsTargeted
<1> QED BY <1>1, <1>2

LEMMA RequestedMoves ==
    ASSUME NEW r \in Room, Tracked(r), NEW q \in SUBSET (Clients \cup {Nobody})
    PROVE  LET s == [r EXCEPT !.request = q]
           IN  Moved(r, s, {}) /\ Tracked(s)
<1> DEFINE s == [r EXCEPT !.request = q]
<1>1. s \in Room /\ s.state = r.state /\ SameButQueues(r, s)
  BY DEF Room, SameButQueues
<1> QED BY <1>1, QueuesMove

LEMMA QueueMoves ==
    ASSUME NEW r \in Room, Tracked(r), NEW t \in Clients \cup {Nobody},
           NEW s \in queuePendingHostResync(r, t)
    PROVE  Moved(r, s, {}) /\ Tracked(s)
<1>1. PICK q \in {{t}} \cup (IF r.request = {} THEN {} ELSE {r.request}) :
          s = [r EXCEPT !.request = q]
  BY DEF queuePendingHostResync
<1>2. q \in SUBSET (Clients \cup {Nobody})
  <2>1. r.request \in SUBSET (Clients \cup {Nobody})
    BY DEF Room
  <2> QED BY <1>1, <2>1
<1> QED BY <1>1, <1>2, RequestedMoves

LEMMA RequestMoves ==
    ASSUME NEW r \in Room, Tracked(r), NEW c \in Clients, NEW p,
           NEW s \in handleResyncRequest(r, c, p)
    PROVE  Moved(r, s, {}) /\ Tracked(s)
<1> DEFINE t == IF p.kind = "ObserverVisibilityRestore" /\ c \in Observers THEN c ELSE Nobody
<1>1. s = r \/ s \in queuePendingHostResync(r, t)
  BY DEF handleResyncRequest
<1>2. t \in Clients \cup {Nobody}
  OBVIOUS
<1> HIDE DEF t
<1> QED BY <1>1, <1>2, QueueMoves, MovedReflexive

-----------------------------------------------------------------------------
(* The host's steps. *)

LEMMA PayloadsOrdered ==
    ASSUME NEW d \in Seq(ToClient), NEW e \in Seq(ToClient), PayloadsOf(d, e),
           NEW q \in PeerState, NEW n \in Nat
    PROVE  /\ Ordered(e, q, n) => Ordered(d, q, n)
           /\ NoBegin(e) => NoBegin(d)
<1>1. Len(d) \in Nat /\ Len(e) \in Nat
  OBVIOUS
<1>2. \A i \in 1..Len(d) : d[i].kind = "begin" => i \in 1..Len(e) /\ d[i] = e[i]
  BY DEF PayloadsOf, PartOfPayload
<1>3. ASSUME Ordered(e, q, n) PROVE Ordered(d, q, n)
  <2>1. \A i \in 1..Len(d) : d[i].kind \in PartOfPayload => d[i].id \in 1..n
    BY <1>3 DEF Ordered, PayloadsOf
  <2>2. ASSUME NEW i \in 1..Len(d), d[i].kind = "begin"
        PROVE  /\ q.loaded < d[i].id /\ q.apply < d[i].id /\ q.incoming < d[i].id
               /\ \A j \in 1..(i - 1) : d[j].kind = "begin" => d[j].id < d[i].id
    <3>1. i \in 1..Len(e) /\ d[i] = e[i] /\ e[i].kind = "begin"
      BY <1>2, <2>2
    <3>2. ASSUME NEW j \in 1..(i - 1), d[j].kind = "begin" PROVE d[j].id < d[i].id
      <4>1. j \in 1..Len(d)
        BY <1>1
      <4>2. d[j] = e[j]
        BY <1>2, <3>2, <4>1
      <4> QED BY <1>3, <3>1, <3>2, <4>2 DEF Ordered
    <3> QED BY <1>3, <3>1, <3>2 DEF Ordered
  <2> QED BY <2>1, <2>2 DEF Ordered
<1>4. ASSUME NoBegin(e) PROVE NoBegin(d)
  BY <1>2, <1>4 DEF NoBegin
<1> QED BY <1>3, <1>4

LEMMA TypeFacts ==
    ASSUME TypeOK
    PROVE  /\ room \in Room /\ peer \in [Clients -> PeerState] /\ up \in [Clients -> Seq(ToHost)]
           /\ room.down \in [Clients -> Seq(ToClient)] /\ Newest(room) \in Nat
BY DEF TypeOK, Room, PeerState, Newest

\* A host's step that begins no resync and lets nobody in keeps the invariant,
\* if whoever is no longer waited for has loaded the newest state; and if it
\* ends a full resync then every player has.
HostMoves(ok) ==
    /\ Moved(room, room', ok) /\ Tracked(room')
    /\ Uncrossed(room) => \A c \in ok : peer[c].loaded = Newest(room)
    /\ peer' = peer
    /\ up' \in [Clients -> Seq(ToHost)]
    /\ \A c \in Clients : Honest(up'[c], peer[c], Newest(room))
    /\ \A c \in Clients \ room'.link : up'[c] = <<>>

ResumeStep ==
    (room.state = "Resyncing" /\ room'.state = "Running" /\ ~room.crossed) =>
        \A p \in Players \cap room'.connected :
            \/ peer[p].fresh
            \/ peer[p].loaded # 0 /\ room.epochs[peer[p].loaded] = Epoch(room)

LEMMA HostMovesKeep ==
    ASSUME IInv, NEW ok \in SUBSET Clients, HostMoves(ok)
    PROVE  IInv' /\ ResumeStep
<1>1. /\ room \in Room /\ peer \in [Clients -> PeerState]
      /\ room.down \in [Clients -> Seq(ToClient)] /\ Newest(room) \in Nat
  BY TypeFacts DEF IInv
<1>2. room' \in Room /\ room'.down \in [Clients -> Seq(ToClient)]
  BY DEF HostMoves, Moved, Room
<1>3. TypeOK'
  BY <1>1, <1>2 DEF HostMoves, TypeOK, Room, PeerState
<1>4. Tracked(room') /\ Tracked(room)
  BY DEF HostMoves, IInv
<1>5. Closed'
  <2>1. Shut(room)
    BY DEF IInv, Closed, Shut
  <2> QED BY <2>1 DEF HostMoves, Moved, Shut, Closed
<1>6. Newest(room') = Newest(room)
  BY DEF HostMoves, Moved, Newest
<1>7. Pipelined'
  <2> SUFFICES ASSUME NEW c \in Clients
               PROVE  /\ Ordered(room'.down[c], peer'[c], Newest(room'))
                      /\ Received(peer'[c], Newest(room'))
                      /\ Honest(up'[c], peer'[c], Newest(room'))
    BY DEF Pipelined
  <2>1. Ordered(room.down[c], peer[c], Newest(room)) /\ Received(peer[c], Newest(room))
    BY DEF IInv, Pipelined
  <2>2. PayloadsOf(room'.down[c], room.down[c])
    BY DEF HostMoves, Moved
  <2>3. Ordered(room'.down[c], peer[c], Newest(room))
    BY <1>1, <1>2, <2>1, <2>2, PayloadsOrdered
  <2> QED BY <1>6, <2>1, <2>3 DEF HostMoves
<1>8. ASSUME Uncrossed(room), NEW c \in (Players \cap room'.connected) \ room'.acks
      PROVE  Settled(room', peer[c], c) /\ Settled(room, peer[c], c)
  <2>1. room.target = Nobody
    BY <1>4, <1>8 DEF Tracked, AlmostTracked
  <2>2. c \in Clients /\ c \in room.connected /\ (c \in room.acks => c \in ok)
    BY <2>1 DEF HostMoves, Moved, Clients
  <2>3. CASE c \in room.acks
    BY <1>6, <1>8, <2>2, <2>3 DEF HostMoves, Settled
  <2>4. CASE c \notin room.acks
    <3>1. Settled(room, peer[c], c)
      BY <1>8, <2>2, <2>4 DEF IInv, AllSettled
    <3>2. NoBegin(room.down[c]) => NoBegin(room'.down[c])
      BY <1>1, <1>2, <2>2, PayloadsOrdered DEF HostMoves, Moved
    <3> QED BY <1>6, <3>1, <3>2 DEF Settled
  <2> QED BY <2>3, <2>4
<1>9. AllSettled'
  BY <1>8 DEF AllSettled, HostMoves, Moved
<1>10. ResumeStep
  <2> SUFFICES ASSUME room.state = "Resyncing", room'.state = "Running", ~room.crossed,
                      NEW p \in Players \cap room'.connected
               PROVE  \/ peer[p].fresh
                      \/ peer[p].loaded # 0 /\ room.epochs[peer[p].loaded] = Epoch(room)
    BY DEF ResumeStep
  <2>1. Uncrossed(room) /\ room.target = Nobody /\ Newest(room) # 0
    BY <1>4 DEF Tracked, AlmostTracked, Uncrossed
  <2>2. room'.acks = {}
    <3>1. room'.target = Nobody
      BY <2>1 DEF HostMoves, Moved
    <3>2. room'.activeId = 0
      BY <1>4 DEF Tracked, AlmostTracked
    <3> QED BY <1>4, <3>1, <3>2 DEF Tracked, AlmostTracked, activeResyncIsTargeted
  <2>3. Settled(room, peer[p], p)
    BY <1>8, <2>1, <2>2
  <2> QED BY <2>1, <2>3 DEF Settled, Epoch, Newest
<1> QED BY <1>3, <1>4, <1>5, <1>7, <1>9, <1>10 DEF IInv

LEMMA RoomFacts ==
    ASSUME IInv
    PROVE  room \in Room /\ Tracked(room) /\ up \in [Clients -> Seq(ToHost)]
BY TypeFacts DEF IInv

\* Steps of the host that take nothing from up, except what closed connections lose.
LEMMA QuietHostMoves ==
    ASSUME IInv, Moved(room, room', {}), Tracked(room'), peer' = peer,
           up' \in [Clients -> Seq(ToHost)],
           \A c \in Clients : up'[c] = <<>> \/ (c \in room'.link /\ up'[c] = up[c])
                                          \/ (room'.link = room.link /\ up'[c] = up[c])
    PROVE  IInv' /\ ResumeStep
<1>1. \A c \in Clients : Honest(up'[c], peer[c], Newest(room))
  <2>1. Len(<<>>) = 0
    OBVIOUS
  <2> QED BY <2>1 DEF IInv, Pipelined, Honest
<1>2. \A c \in Clients \ room'.link : up'[c] = <<>>
  BY DEF IInv, Closed
<1> QED BY <1>1, <1>2, HostMovesKeep DEF HostMoves

LEMMA AckTimeoutKeeps == IInv /\ AckTimeout => IInv' /\ ResumeStep
<1> SUFFICES ASSUME IInv, AckTimeout PROVE IInv' /\ ResumeStep
  OBVIOUS
<1> DEFINE stalled == room.acks \cap Players
           r == [room EXCEPT !.acks = stalled]
<1>1. room \in Room /\ Tracked(room) /\ up \in [Clients -> Seq(ToHost)]
  BY RoomFacts
<1>2. Moved(room, room', {}) /\ Tracked(room')
  <2>1. CASE activeResyncIsTargeted(room)
    BY <1>1, <2>1, CancelMoves DEF AckTimeout, Tracked
  <2>2. CASE ~activeResyncIsTargeted(room)
    <3>1. /\ SameParticipants(room, r) /\ r.down = room.down /\ r.acks = stalled
          /\ r.target = room.target /\ r.targetId = room.targetId
          /\ r.state = room.state /\ r.activeId = room.activeId
          /\ r.checked = room.checked /\ r.crossed = room.crossed
      BY <1>1 DEF Room, SameParticipants
    <3>2. r \in Room
      BY <1>1 DEF Room
    <3>3. room' = IF stalled = {} THEN finalizeActiveResyncIfReady(r)
                  ELSE ejectParticipantForResyncFailure(r, stalled)
      BY <2>2 DEF AckTimeout
    <3>4. Moved(room, r, {})
      BY <3>1, <3>2 DEF Moved, SameParticipants, PayloadsOf, Shut, Uncrossed
    <3>5. Tracked(r)
      BY <1>1, <2>2, <3>1 DEF Tracked, AlmostTracked, SameParticipants, Newest, Uncrossed,
                              activeResyncIsTargeted
    <3>6. stalled \in SUBSET Players
      OBVIOUS
    <3> HIDE DEF r, stalled
    <3>7. Moved(r, room', {}) /\ Tracked(room')
      BY <3>2, <3>3, <3>5, <3>6, FinalizeMoves, EjectMoves DEF Tracked
    <3> QED BY <3>4, <3>7, MovedTransitive
  <2> QED BY <2>1, <2>2
<1>3. /\ up' \in [Clients -> Seq(ToHost)]
      /\ \A c \in Clients : up'[c] = <<>> \/ (c \in room'.link /\ up'[c] = up[c])
  BY <1>1 DEF AckTimeout
<1> QED BY <1>2, <1>3, QuietHostMoves DEF AckTimeout

LEMMA ReceiveFromClientKeeps ==
    ASSUME IInv, NEW c \in Clients, ReceiveFromClient(c)
    PROVE  IInv' /\ ResumeStep
<1> DEFINE p == Head(up[c])
<1>1. /\ room \in Room /\ Tracked(room) /\ up \in [Clients -> Seq(ToHost)]
      /\ up[c] \in Seq(ToHost) /\ up[c] # <<>>
  BY RoomFacts DEF ReceiveFromClient
<1>2. /\ p \in ToHost /\ Tail(up[c]) \in Seq(ToHost) /\ Len(Tail(up[c])) = Len(up[c]) - 1
      /\ \A i \in 1..Len(Tail(up[c])) : Tail(up[c])[i] = up[c][i + 1]
  BY <1>1, HeadTailProperties
<1>3. p = up[c][1] /\ 1 \in 1..Len(up[c]) /\ Len(up[c]) \in Nat
  BY <1>1
<1>4. peer' = peer
  BY DEF ReceiveFromClient
<1>5. /\ up' \in [Clients -> Seq(ToHost)]
      /\ \A d \in Clients : up'[d] = IF d \notin room'.link THEN <<>>
                                     ELSE IF d = c THEN Tail(up[d]) ELSE up[d]
  BY <1>1, <1>2 DEF ReceiveFromClient
<1>6. \A d \in Clients : Honest(up'[d], peer[d], Newest(room))
  <2> SUFFICES ASSUME NEW d \in Clients PROVE Honest(up'[d], peer[d], Newest(room))
    OBVIOUS
  <2>1. Honest(up[d], peer[d], Newest(room))
    BY DEF IInv, Pipelined
  <2>2. CASE d \notin room'.link
    <3>1. Len(up'[d]) = 0
      BY <1>5, <2>2
    <3> QED BY <3>1 DEF Honest
  <2>3. CASE d \in room'.link /\ d # c
    BY <1>5, <2>1, <2>3
  <2>4. CASE d \in room'.link /\ d = c
    <3>1. up'[d] = Tail(up[c])
      BY <1>5, <2>4
    <3> QED BY <1>2, <1>3, <2>1, <2>4, <3>1 DEF Honest
  <2> QED BY <2>2, <2>3, <2>4
<1>7. \A d \in Clients \ room'.link : up'[d] = <<>>
  BY <1>5
<1> HIDE DEF p
<1>8. CASE p.kind \in Loaded /\ room' = handleResyncAck(room, c, p)
  <2>1. /\ Moved(room, room', {c}) /\ Tracked(room')
        /\ (Uncrossed(room) /\ ~(p.kind = "same" /\ p.tag = Newest(room))) =>
               Moved(room, room', {})
    BY <1>1, <1>2, <1>8, AckMoves
  <2>2. CASE p.kind = "same" /\ p.tag = Newest(room)
    <3>1. peer[c].loaded = Newest(room)
      BY <1>3, <2>2 DEF IInv, Pipelined, Honest
    <3> QED BY <1>4, <1>5, <1>6, <1>7, <2>1, <3>1, HostMovesKeep DEF HostMoves
  <2>3. CASE Uncrossed(room) /\ ~(p.kind = "same" /\ p.tag = Newest(room))
    BY <1>4, <1>5, <1>6, <1>7, <2>1, <2>3, HostMovesKeep DEF HostMoves
  <2>4. CASE ~Uncrossed(room)
    BY <1>4, <1>5, <1>6, <1>7, <2>1, <2>4, HostMovesKeep DEF HostMoves
  <2> QED BY <2>2, <2>3, <2>4
<1>9. CASE p.kind = "abort" /\ room' = handleResyncAbort(room, c, p)
  <2>1. Moved(room, room', {}) /\ Tracked(room')
    BY <1>1, <1>9, AbortMoves
  <2> QED BY <1>4, <1>5, <1>6, <1>7, <2>1, HostMovesKeep DEF HostMoves
<1>10. CASE p.kind \in ResyncReason /\ room' \in handleResyncRequest(room, c, p)
  <2>1. Moved(room, room', {}) /\ Tracked(room')
    BY <1>1, <1>10, RequestMoves
  <2> QED BY <1>4, <1>5, <1>6, <1>7, <2>1, HostMovesKeep DEF HostMoves
<1> QED BY <1>8, <1>9, <1>10 DEF ReceiveFromClient, p

LEMMA HostNoticesKeeps ==
    ASSUME IInv, NEW c \in Clients, HostNotices(c)
    PROVE  IInv' /\ ResumeStep
<1> DEFINE r == [room EXCEPT !.lateJoin = @ \ {c}]
<1>1. room \in Room /\ Tracked(room) /\ up \in [Clients -> Seq(ToHost)]
  BY RoomFacts
<1>2. r \in Room /\ r.state = room.state /\ SameButQueues(room, r)
  BY <1>1 DEF Room, SameButQueues
<1>3. room' = IF c \in Players THEN CancelOrFinalize(Reserve(r, {c}), c) ELSE removeParticipant(r, c)
  BY DEF HostNotices
<1> HIDE DEF r
<1>4. Moved(room, r, {}) /\ Tracked(r)
  BY <1>1, <1>2, QueuesMove
<1>5. Moved(r, room', {}) /\ Tracked(room') /\ room'.link = r.link
  <2>1. CASE c \in Players
    <3> DEFINE q == Reserve(r, {c})
    <3>1. Moved(r, q, {}) /\ AlmostTracked(q) /\ q.link = r.link
      BY <1>2, <1>4, <2>1, ReserveMoves
    <3>2. q \in Room
      BY <3>1 DEF Moved
    <3>3. room' = CancelOrFinalize(q, c)
      BY <1>3, <2>1
    <3> HIDE DEF q
    <3>4. Moved(q, room', {}) /\ Tracked(room') /\ room'.link = q.link
      BY <3>1, <3>2, <3>3, CancelOrFinalizeMoves
    <3> QED BY <3>1, <3>4, MovedTransitive
  <2>2. CASE c \notin Players
    BY <1>2, <1>3, <1>4, <2>2, RemoveMoves
  <2> QED BY <2>1, <2>2
<1>6. Moved(room, room', {})
  BY <1>4, <1>5, MovedTransitive
<1>7. room'.link = room.link /\ up' = up /\ peer' = peer
  BY <1>2, <1>5 DEF SameButQueues, HostNotices, HostOnly
<1> QED BY <1>1, <1>5, <1>6, <1>7, QuietHostMoves

\* Steps that change the queues, the mode or, without a full resync, the state.
LEMMA QueueStepKeeps ==
    ASSUME IInv, Moved(room, room', {}), Tracked(room'), room'.link = room.link, HostOnly
    PROVE  IInv' /\ ResumeStep
BY RoomFacts, QuietHostMoves DEF HostOnly

LEMMA ReservationExpiresKeeps ==
    ASSUME IInv, NEW c \in Clients, ReservationExpires(c)
    PROVE  IInv' /\ ResumeStep
BY RoomFacts, RemoveMoves, QueueStepKeeps DEF ReservationExpires

LEMMA StabilizedKeeps == IInv /\ Stabilized => IInv' /\ ResumeStep
<1> SUFFICES ASSUME IInv, Stabilized PROVE IInv' /\ ResumeStep
  OBVIOUS
<1>1. room \in Room /\ Tracked(room)
  BY RoomFacts
<1>2. room' \in Room /\ room'.state = room.state /\ SameButQueues(room, room')
  BY <1>1 DEF Stabilized, Room, SameButQueues, RecoveryInputMode
<1>3. Moved(room, room', {}) /\ Tracked(room') /\ room'.link = room.link
  BY <1>1, <1>2, QueuesMove DEF SameButQueues
<1> QED BY <1>3, QueueStepKeeps DEF Stabilized

LEMMA StabilizationFailsKeeps == IInv /\ StabilizationFails => IInv' /\ ResumeStep
<1> SUFFICES ASSUME IInv, StabilizationFails PROVE IInv' /\ ResumeStep
  OBVIOUS
<1> DEFINE q == clearActiveResyncTracking(room, "Running")
           s == [q EXCEPT !.mode = "Normal"]
<1>1. room \in Room /\ Tracked(room) /\ room.state = "Running"
  BY RoomFacts DEF StabilizationFails
<1>2. room' \in queuePendingHostResync(s, Nobody)
  BY <1>1 DEF StabilizationFails, scheduleResyncRetry
<1>3. /\ q \in Room /\ SameParticipants(room, q) /\ q.down = room.down
      /\ q.state = "Running" /\ q.activeId = 0 /\ q.acks = {} /\ q.target = Nobody
  BY <1>1, ClearActive
<1> HIDE DEF q
<1>4. s \in Room /\ s.state = q.state /\ SameButQueues(q, s)
  BY <1>3 DEF Room, SameButQueues, RecoveryInputMode
<1>5. room.target # Nobody \/ room.acks = {}
  BY <1>1 DEF Tracked, AlmostTracked, activeResyncIsTargeted
<1>6. Moved(room, q, {}) /\ Tracked(q)
  BY <1>1, <1>3, <1>5, ClearedMoved, ClearedTracked DEF Uncrossed, Tracked
<1> HIDE DEF s
<1>7. Moved(q, s, {}) /\ Tracked(s)
  BY <1>3, <1>4, <1>6, QueuesMove
<1>8. Moved(s, room', {}) /\ Tracked(room')
  BY <1>2, <1>4, <1>7, QueueMoves
<1>9. room'.link = room.link
  <2>1. \A z \in queuePendingHostResync(s, Nobody) : z.link = s.link
    BY <1>4 DEF queuePendingHostResync, Room
  <2> QED BY <1>2, <1>3, <1>4, <2>1 DEF SameParticipants, SameButQueues
<1> QED BY <1>6, <1>7, <1>8, <1>9, MovedTransitive, QueueStepKeeps DEF StabilizationFails

\* The owner's commands that set another state and tell everybody.
LEMMA AnnouncedKeeps ==
    ASSUME IInv, NEW st \in {"Running", "Paused"}, room.state \in {"Running", "Paused"},
           room' = Send([room EXCEPT !.state = st], Clients, <<StatePacket(st)>>), HostOnly
    PROVE  IInv' /\ ResumeStep
<1> DEFINE s == [room EXCEPT !.state = st]
<1>1. room \in Room /\ Tracked(room)
  BY RoomFacts
<1>2. st \in SessionState \ {"Lobby", "Starting"} /\ st \in SessionState
  BY DEF SessionState
<1>3. s \in Room /\ s.state = st /\ SameButQueues(room, s)
  BY <1>1, <1>2 DEF Room, SameButQueues
<1>4. room' = Send(s, Clients, <<StatePacket(st)>>)
  OBVIOUS
<1> HIDE DEF s
<1>5. Moved(room, s, {}) /\ Tracked(s)
  BY <1>1, <1>3, QueuesMove
<1>6. Moved(s, room', {}) /\ SameTracking(s, room') /\ SameParticipants(s, room')
  BY <1>2, <1>3, <1>4, StatePackets, SendPlain
<1>7. Tracked(room') /\ room'.link = room.link
  BY <1>3, <1>5, <1>6 DEF Tracked, AlmostTracked, SameTracking, SameParticipants, SameButQueues,
                          Newest, Uncrossed, activeResyncIsTargeted
<1> QED BY <1>5, <1>6, <1>7, MovedTransitive, QueueStepKeeps

LEMMA PauseKeeps == IInv /\ (pauseSession \/ resumeSession) => IInv' /\ ResumeStep
BY AnnouncedKeeps DEF pauseSession, resumeSession

LEMMA KickKeeps ==
    ASSUME IInv, NEW c \in Clients, kickParticipant(c)
    PROVE  IInv' /\ ResumeStep
<1> DEFINE q == removeParticipant(room, c)
           p == [kind |-> "left", id |-> 0]
<1>1. Moved(room, q, {}) /\ Tracked(q) /\ q.link = room.link
  BY RoomFacts, RemoveMoves
<1>2. q \in Room
  BY <1>1 DEF Moved
<1>3. p \in ToClient /\ p.kind \notin PartOfPayload
  BY DEF ToClient, PartOfPayload
<1>4. room' = Send(q, {c}, <<p>>)
  BY DEF kickParticipant
<1> HIDE DEF q, p
<1>5. Moved(q, room', {}) /\ SameTracking(q, room') /\ SameParticipants(q, room')
  BY <1>2, <1>3, <1>4, SendPlain
<1>6. Tracked(room') /\ room'.link = room.link
  BY <1>1, <1>5 DEF Tracked, AlmostTracked, SameTracking, SameParticipants, Newest, Uncrossed,
                    activeResyncIsTargeted
<1> QED BY <1>1, <1>5, <1>6, MovedTransitive, QueueStepKeeps DEF kickParticipant

\* A connection is closed by either end, or is lost.
LEMMA DisconnectKeeps ==
    ASSUME IInv, NEW c \in Clients, room' = Disconnect(room, {c}),
           up' = [up EXCEPT ![c] = <<>>], peer' = peer
    PROVE  IInv' /\ ResumeStep
<1>1. room \in Room /\ Tracked(room) /\ up \in [Clients -> Seq(ToHost)]
  BY RoomFacts
<1>2. /\ Moved(room, room', {}) /\ SameTracking(room, room') /\ room'.link = room.link \ {c}
      /\ room'.connected = room.connected /\ room'.reserved = room.reserved
  BY <1>1, DisconnectMoves
<1>3. Tracked(room')
  BY <1>1, <1>2 DEF Tracked, AlmostTracked, SameTracking, Moved, Newest, Uncrossed,
                    activeResyncIsTargeted
<1>4. /\ up' \in [Clients -> Seq(ToHost)] /\ up'[c] = <<>>
      /\ \A d \in Clients : d # c => up'[d] = up[d]
  BY <1>1
<1>5. \A d \in Clients : up'[d] = <<>> \/ (d \in room'.link /\ up'[d] = up[d])
  BY <1>2, <1>4 DEF IInv, Closed
<1> QED BY <1>2, <1>3, <1>4, <1>5, QuietHostMoves

-----------------------------------------------------------------------------
(* Beginning a resync. *)

LEMMA PayloadFacts ==
    ASSUME NEW d \in Seq(ToClient), NEW n \in Nat
    PROVE  LET e == d \o Payload(n)
           IN  /\ e \in Seq(ToClient) /\ Len(e) = Len(d) + 2
               /\ \A i \in 1..Len(d) : e[i] = d[i]
               /\ e[Len(d) + 1].kind = "begin" /\ e[Len(d) + 1].id = n
               /\ e[Len(d) + 2].kind = "complete" /\ e[Len(d) + 2].id = n
<1> DEFINE p == Payload(n)
           e == d \o p
<1>1. /\ p \in Seq(ToClient) /\ Len(p) = 2 /\ p[1].kind = "begin" /\ p[1].id = n
      /\ p[2].kind = "complete" /\ p[2].id = n
  BY DEF Payload, ToClient
<1> HIDE DEF p
<1>2. /\ e \in Seq(ToClient) /\ Len(e) = Len(d) + 2
      /\ \A i \in 1..(Len(d) + 2) : e[i] = IF i <= Len(d) THEN d[i] ELSE p[i - Len(d)]
  <2>1. /\ e \in Seq(ToClient) /\ Len(e) = Len(d) + Len(p)
        /\ \A i \in 1..(Len(d) + Len(p)) : e[i] = IF i <= Len(d) THEN d[i] ELSE p[i - Len(d)]
    BY <1>1, ConcatProperties
  <2> QED BY <1>1, <2>1
<1> HIDE DEF e
<1>3. e[Len(d) + 1] = p[1] /\ e[Len(d) + 2] = p[2] /\ \A i \in 1..Len(d) : e[i] = d[i]
  BY <1>2
<1> QED BY <1>1, <1>2, <1>3 DEF e, p

\* A payload numbered beyond all others may follow whatever is under way.
LEMMA PayloadOrdered ==
    ASSUME NEW d \in Seq(ToClient), NEW q \in PeerState, NEW n \in Nat,
           Ordered(d, q, n), Received(q, n)
    PROVE  Ordered(d \o Payload(n + 1), q, n + 1) /\ Ordered(d, q, n + 1)
<1> DEFINE e == d \o Payload(n + 1)
<1>1. /\ e \in Seq(ToClient) /\ Len(e) = Len(d) + 2
      /\ \A i \in 1..Len(d) : e[i] = d[i]
      /\ e[Len(d) + 1].kind = "begin" /\ e[Len(d) + 1].id = n + 1
      /\ e[Len(d) + 2].kind = "complete" /\ e[Len(d) + 2].id = n + 1
  <2>1. n + 1 \in Nat
    OBVIOUS
  <2> QED BY <2>1, PayloadFacts
<1> HIDE DEF e
<1>2. Len(d) \in Nat /\ q.loaded \in Nat /\ q.apply \in Nat /\ q.incoming \in Nat
  BY DEF PeerState
<1>3. \A i \in 1..Len(e) : i \in 1..Len(d) \/ i = Len(d) + 1 \/ i = Len(d) + 2
  BY <1>1, <1>2
<1>4. Ordered(d, q, n + 1)
  BY <1>2 DEF Ordered
<1>5. \A i \in 1..Len(e) : e[i].kind \in PartOfPayload => e[i].id \in 1..(n + 1)
  BY <1>1, <1>3, <1>4 DEF Ordered
<1>6. ASSUME NEW i \in 1..Len(e), e[i].kind = "begin"
      PROVE  /\ q.loaded < e[i].id /\ q.apply < e[i].id /\ q.incoming < e[i].id
             /\ \A j \in 1..(i - 1) : e[j].kind = "begin" => e[j].id < e[i].id
  <2>1. CASE i \in 1..Len(d)
    <3>1. \A j \in 1..(i - 1) : j \in 1..Len(d)
      BY <1>2, <2>1
    <3> QED BY <1>1, <1>6, <2>1, <3>1 DEF Ordered
  <2>2. CASE i = Len(d) + 1
    <3>1. \A j \in 1..(i - 1) : j \in 1..Len(d)
      BY <1>2, <2>2
    <3>2. \A j \in 1..Len(d) : d[j].kind = "begin" => d[j].id \in 1..n
      BY DEF Ordered, PartOfPayload
    <3>3. q.loaded <= n /\ q.apply <= n /\ q.incoming <= n
      BY DEF Received
    <3> QED BY <1>1, <1>2, <2>2, <3>1, <3>2, <3>3
  <2> QED BY <1>1, <1>3, <1>6, <2>1, <2>2
<1>7. Ordered(e, q, n + 1)
  BY <1>5, <1>6 DEF Ordered
<1> QED BY <1>4, <1>7 DEF e

\* What beginning a resync in room r does.
Begun(r, s) ==
    /\ s \in Room /\ Tracked(s) /\ s.link = r.link
    /\ Newest(s) = Newest(r) + 1
    /\ \A c \in Clients : \/ s.down[c] = r.down[c]
                          \/ c \in r.link /\ s.down[c] = r.down[c] \o Payload(Newest(r) + 1)
    /\ Uncrossed(s) => s.acks = s.connected
    /\ (r.state = "Resyncing" /\ s.state = "Running") => s.connected = {}

LEMMA BegunKeeps ==
    ASSUME IInv, NEW r, SameButQueues(room, r), r.state = room.state, Begun(r, room'), HostOnly
    PROVE  IInv' /\ ResumeStep
<1> DEFINE n == Newest(room)
<1>1. /\ room \in Room /\ peer \in [Clients -> PeerState] /\ up \in [Clients -> Seq(ToHost)]
      /\ room.down \in [Clients -> Seq(ToClient)] /\ n \in Nat
  BY TypeFacts DEF IInv
<1>2. /\ room' \in Room /\ Tracked(room') /\ room'.link = room.link /\ Newest(room') = n + 1
      /\ \A c \in Clients : \/ room'.down[c] = room.down[c]
                            \/ c \in room.link /\ room'.down[c] = room.down[c] \o Payload(n + 1)
      /\ Uncrossed(room') => room'.acks = room'.connected
      /\ (room.state = "Resyncing" /\ room'.state = "Running") => room'.connected = {}
      /\ peer' = peer /\ up' = up
  BY DEF Begun, SameButQueues, Newest, HostOnly
<1> HIDE DEF n
<1>3. TypeOK'
  BY <1>1, <1>2 DEF TypeOK, Room, PeerState
<1>4. Closed'
  BY <1>2 DEF IInv, Closed
<1>5. Pipelined'
  <2> SUFFICES ASSUME NEW c \in Clients
               PROVE  /\ Ordered(room'.down[c], peer[c], n + 1)
                      /\ Received(peer[c], n + 1) /\ Honest(up[c], peer[c], n + 1)
    BY <1>2 DEF Pipelined
  <2>1. /\ Ordered(room.down[c], peer[c], n) /\ Received(peer[c], n)
        /\ Honest(up[c], peer[c], n)
    BY DEF IInv, Pipelined, n
  <2>2. peer[c] \in PeerState /\ room.down[c] \in Seq(ToClient) /\ up[c] \in Seq(ToHost)
    BY <1>1
  <2>3. Ordered(room'.down[c], peer[c], n + 1)
    BY <1>1, <1>2, <2>1, <2>2, PayloadOrdered
  <2>4. Received(peer[c], n + 1)
    BY <1>1, <2>1, <2>2 DEF Received, PeerState
  <2>5. Honest(up[c], peer[c], n + 1)
    <3>1. \A i \in 1..Len(up[c]) : up[c][i].tag \in Nat
      <4>1. \A i \in 1..Len(up[c]) : up[c][i] \in ToHost
        BY <2>2
      <4> QED BY <4>1 DEF ToHost
    <3> QED BY <1>1, <2>1, <3>1 DEF Honest
  <2> QED BY <2>3, <2>4, <2>5
<1>6. AllSettled'
  BY <1>2 DEF AllSettled
<1>7. ResumeStep
  BY <1>2 DEF ResumeStep
<1> QED BY <1>2, <1>3, <1>4, <1>5, <1>6, <1>7 DEF IInv

\* Send of a payload.
LEMMA SendPayload ==
    ASSUME NEW r \in Room, NEW to, NEW n \in Nat
    PROVE  LET s == Send(r, to, Payload(n))
           IN  /\ s \in Room /\ SameTracking(r, s) /\ SameParticipants(r, s)
               /\ \A c \in Clients : \/ s.down[c] = r.down[c]
                                     \/ c \in r.link /\ s.down[c] = r.down[c] \o Payload(n)
<1> DEFINE d == [c \in Clients |-> IF c \in to \cap r.link
                                    THEN r.down[c] \o Payload(n) ELSE r.down[c]]
           s == [r EXCEPT !.down = d]
<1>1. r.down \in [Clients -> Seq(ToClient)]
  BY DEF Room
<1>2. \A c \in Clients : r.down[c] \o Payload(n) \in Seq(ToClient)
  BY <1>1, PayloadFacts
<1>3. /\ d \in [Clients -> Seq(ToClient)]
      /\ \A c \in Clients : d[c] = r.down[c] \/ (c \in r.link /\ d[c] = r.down[c] \o Payload(n))
  BY <1>1, <1>2
<1>4. Send(r, to, Payload(n)) = s
  BY DEF Send
<1> HIDE DEF d
<1>5. s \in Room
  BY <1>3 DEF Room
<1>6. s.down = d /\ SameTracking(r, s) /\ SameParticipants(r, s)
  BY DEF Room, SameTracking, SameParticipants
<1> QED BY <1>3, <1>4, <1>5, <1>6

LEMMA EpochsGrow ==
    ASSUME NEW r \in Room, Tracked(r), NEW e \in Nat
    PROVE  /\ Epoch(r) \in Nat /\ r.epochs \in Seq(Nat) /\ Len(r.epochs) \in Nat
           /\ Append(r.epochs, e) \in Seq(Nat)
           /\ Len(Append(r.epochs, e)) = Len(r.epochs) + 1
<1>1. r.epochs \in Seq(Nat) /\ Len(r.epochs) # 0
  BY DEF Room, Tracked, AlmostTracked, Newest
<1> QED BY <1>1 DEF Epoch

LEMMA BeginTargetedBegun ==
    ASSUME NEW r \in Room, Tracked(r), NEW t \in r.connected, NEW crc \in BOOLEAN
    PROVE  Begun(r, BeginTargeted(r, t, crc))
<1> DEFINE id == Len(r.epochs) + 1
           eps == Append(r.epochs, Epoch(r))
           q == [r EXCEPT !.epochs = eps, !.target = t, !.targetId = id,
                        !.targetChecked = crc, !.checked = FALSE, !.acks = {t},
                        !.crossed = r.activeId # 0]
           s == Send(q, {t}, Payload(id))
<1>1. t \in Clients /\ id \in Nat /\ id # 0 /\ eps \in Seq(Nat) /\ Len(eps) = id
  <2>1. Epoch(r) \in Nat
    <3>1. 0 \in Nat
      OBVIOUS
    <3> QED BY <3>1, EpochsGrow
  <2>2. r.connected \in SUBSET Clients
    BY DEF Room
  <2> QED BY <2>1, <2>2, EpochsGrow
<1>2. BeginTargeted(r, t, crc) = s
  BY DEF BeginTargeted
<1> HIDE DEF id, eps
<1>3. q \in Room
  <2>1. [r EXCEPT !.epochs = eps, !.target = t, !.targetId = id] \in Room
    BY <1>1 DEF Room
  <2>2. \A p \in Room : [p EXCEPT !.targetChecked = crc, !.checked = FALSE] \in Room
    BY DEF Room
  <2>3. \A p \in Room, b \in BOOLEAN : [p EXCEPT !.acks = {t}, !.crossed = b] \in Room
    BY <1>1 DEF Room
  <2>4. (r.activeId # 0) \in BOOLEAN
    OBVIOUS
  <2> QED BY <2>1, <2>2, <2>3, <2>4
<1>4. /\ q.epochs = eps /\ q.target = t /\ q.targetId = id /\ q.acks = {t}
      /\ q.state = r.state /\ q.activeId = r.activeId /\ q.link = r.link /\ q.down = r.down
      /\ q.connected = r.connected /\ q.reserved = r.reserved
  BY DEF Room
<1>5. q.crossed <=> r.activeId # 0
  BY DEF Room
<1> HIDE DEF q
<1>6. /\ s \in Room /\ SameTracking(q, s) /\ SameParticipants(q, s)
      /\ \A c \in Clients : \/ s.down[c] = q.down[c]
                            \/ c \in q.link /\ s.down[c] = q.down[c] \o Payload(id)
  BY <1>1, <1>3, SendPayload
<1> HIDE DEF s
<1>7. ~Uncrossed(s)
  BY <1>4, <1>5, <1>6 DEF Uncrossed, SameTracking
<1>8. Newest(s) = id /\ id = Newest(r) + 1
  BY <1>1, <1>4, <1>6 DEF Newest, SameParticipants, id
<1>9. activeResyncIsTargeted(s) /\ s.acks = {s.target}
  BY <1>1, <1>4, <1>6, ParticipantsAssumption DEF activeResyncIsTargeted, SameTracking, Clients
<1>10. Tracked(s)
  BY <1>1, <1>4, <1>6, <1>7, <1>8, <1>9
     DEF Tracked, AlmostTracked, SameTracking, SameParticipants
<1> QED BY <1>2, <1>4, <1>6, <1>7, <1>8, <1>10 DEF Begun, SameParticipants, SameTracking

LEMMA BeginFullBegun ==
    ASSUME NEW r \in Room, Tracked(r)
    PROVE  Begun(r, BeginFull(r))
<1> DEFINE id == Len(r.epochs) + 1
           eps == Append(r.epochs, Epoch(r) + 1)
           q == [r EXCEPT !.epochs = eps, !.state = "Resyncing",
                           !.activeId = id, !.target = Nobody, !.checked = TRUE,
                           !.acks = r.connected, !.mode = "ResyncLocked",
                           !.suspended = {}, !.resuming = {}, !.crossed = FALSE]
<1>1. id \in Nat /\ id # 0 /\ eps \in Seq(Nat) /\ Len(eps) = id
  <2>1. Epoch(r) + 1 \in Nat
    BY EpochsGrow
  <2> QED BY <2>1, EpochsGrow
<1>2. BeginFull(r) = IF r.connected = {}
                     THEN [clearActiveResyncTracking(q, "Running") EXCEPT !.mode = "Normal"]
                     ELSE Send(q, Clients, Payload(id))
  BY DEF BeginFull
<1> HIDE DEF id, eps
<1>3. q \in Room
  <2>1. "Resyncing" \in SessionState \ {"Lobby", "Starting"} /\ "ResyncLocked" \in RecoveryInputMode
    BY DEF SessionState, RecoveryInputMode
  <2>2. [r EXCEPT !.epochs = eps, !.state = "Resyncing", !.activeId = id, !.target = Nobody] \in Room
    BY <1>1, <2>1 DEF Room
  <2>3. \A p \in Room, S \in SUBSET Clients :
            [p EXCEPT !.checked = TRUE, !.acks = S, !.mode = "ResyncLocked"] \in Room
    BY <2>1 DEF Room
  <2>4. \A p \in Room : [p EXCEPT !.suspended = {}, !.resuming = {}, !.crossed = FALSE] \in Room
    BY DEF Room
  <2>5. r.connected \in SUBSET Clients
    BY DEF Room
  <2> QED BY <2>2, <2>3, <2>4, <2>5
<1>4. /\ q.epochs = eps /\ q.target = Nobody /\ q.acks = r.connected
      /\ q.state = "Resyncing" /\ q.activeId = id /\ q.link = r.link /\ q.down = r.down
      /\ q.connected = r.connected /\ q.reserved = r.reserved
  BY DEF Room
<1>5. q.checked /\ ~q.crossed
  BY DEF Room
<1> HIDE DEF q
<1>6. CASE r.connected = {}
  <2> DEFINE u == clearActiveResyncTracking(q, "Running")
             s == [u EXCEPT !.mode = "Normal"]
  <2>1. /\ u \in Room /\ SameParticipants(q, u) /\ u.down = q.down
        /\ u.state = "Running" /\ u.activeId = 0 /\ u.acks = {} /\ u.target = Nobody
    BY <1>3, ClearActive
  <2> HIDE DEF u
  <2>2. /\ s \in Room /\ SameParticipants(q, s) /\ s.down = q.down
        /\ s.state = "Running" /\ s.activeId = 0 /\ s.acks = {} /\ s.target = Nobody
    BY <2>1 DEF Room, SameParticipants, RecoveryInputMode
  <2>3. BeginFull(r) = s
    BY <1>2, <1>6 DEF u
  <2> HIDE DEF s
  <2>4. Newest(s) = id /\ id = Newest(r) + 1
    BY <1>1, <1>4, <2>2 DEF Newest, SameParticipants, id
  <2>5. Tracked(s)
    BY <1>1, <1>4, <1>6, <2>2, <2>4
       DEF Tracked, AlmostTracked, SameParticipants, Uncrossed, activeResyncIsTargeted
  <2> QED BY <1>4, <1>6, <2>2, <2>3, <2>4, <2>5 DEF Begun, SameParticipants, Uncrossed
<1>7. CASE r.connected # {}
  <2> DEFINE s == Send(q, Clients, Payload(id))
  <2>1. /\ s \in Room /\ SameTracking(q, s) /\ SameParticipants(q, s)
        /\ \A c \in Clients : \/ s.down[c] = q.down[c]
                              \/ c \in q.link /\ s.down[c] = q.down[c] \o Payload(id)
    BY <1>1, <1>3, SendPayload
  <2>2. BeginFull(r) = s
    BY <1>2, <1>7
  <2> HIDE DEF s
  <2>3. Newest(s) = id /\ id = Newest(r) + 1
    BY <1>1, <1>4, <2>1 DEF Newest, SameParticipants, id
  <2>4. Tracked(s)
    <3>1. r.connected \cap r.reserved = {}
      BY DEF Tracked, AlmostTracked
    <3> QED BY <1>1, <1>4, <1>5, <2>1, <2>3, <3>1
       DEF Tracked, AlmostTracked, SameParticipants, SameTracking, Uncrossed,
           activeResyncIsTargeted
  <2> QED BY <1>4, <2>1, <2>2, <2>3, <2>4 DEF Begun, SameParticipants, SameTracking
<1> QED BY <1>6, <1>7

\* From a room whose queues have been emptied.
LEMMA BeginKeeps ==
    ASSUME IInv, NEW r \in Room, SameButQueues(room, r), r.state = room.state,
           NEW t \in Clients \cup {Nobody}, NEW crc \in BOOLEAN,
           room' = beginResync(r, t, crc), HostOnly
    PROVE  IInv' /\ ResumeStep
<1>1. room \in Room /\ Tracked(room)
  BY RoomFacts
<1>2. Moved(room, r, {}) /\ Tracked(r)
  BY <1>1, QueuesMove
<1>3. CASE t # Nobody /\ t \notin r.connected
  <2>1. room' = r
    BY <1>3 DEF beginResync, BeginTargeted
  <2> QED BY <1>2, <2>1, QueueStepKeeps DEF SameButQueues
<1>4. CASE t # Nobody /\ t \in r.connected
  BY <1>2, <1>4, BeginTargetedBegun, BegunKeeps DEF beginResync
<1>5. CASE t = Nobody
  BY <1>2, <1>5, BeginFullBegun, BegunKeeps DEF beginResync
<1> QED BY <1>3, <1>4, <1>5

LEMMA ProcessHostResyncKeeps == IInv /\ ProcessHostResync => IInv' /\ ResumeStep
<1> SUFFICES ASSUME IInv, ProcessHostResync PROVE IInv' /\ ResumeStep
  OBVIOUS
<1> DEFINE r == [room EXCEPT !.request = {}]
<1>1. room \in Room
  BY RoomFacts
<1>2. r \in Room /\ r.state = room.state /\ SameButQueues(room, r)
  BY <1>1 DEF Room, SameButQueues
<1>3. PICK t \in room.request, crc \in BOOLEAN : room' = beginResync(r, t, crc) /\ HostOnly
  BY DEF ProcessHostResync
<1>4. t \in Clients \cup {Nobody}
  BY <1>1 DEF Room
<1> HIDE DEF r
<1> QED BY <1>2, <1>3, <1>4, BeginKeeps

LEMMA ProcessLateJoinKeeps == IInv /\ ProcessLateJoin => IInv' /\ ResumeStep
<1> SUFFICES ASSUME IInv, ProcessLateJoin PROVE IInv' /\ ResumeStep
  OBVIOUS
<1> DEFINE r == [room EXCEPT !.lateJoin = {}]
<1>1. room \in Room
  BY RoomFacts
<1>2. r \in Room /\ r.state = room.state /\ SameButQueues(room, r)
  BY <1>1 DEF Room, SameButQueues
<1>3. PICK t \in room.lateJoin, crc \in BOOLEAN : room' = beginResync(r, t, crc)
  BY DEF ProcessLateJoin
<1>4. t \in Clients \cup {Nobody}
  BY <1>1 DEF Room
<1> HIDE DEF r
<1> QED BY <1>2, <1>3, <1>4, BeginKeeps DEF ProcessLateJoin

LEMMA HostResyncKeeps == IInv /\ HostResync => IInv' /\ ResumeStep
<1> SUFFICES ASSUME IInv, HostResync PROVE IInv' /\ ResumeStep
  OBVIOUS
<1>1. room \in Room /\ SameButQueues(room, room) /\ room' = beginResync(room, Nobody, TRUE)
  BY RoomFacts DEF SameButQueues, HostResync
<1>2. Nobody \in Clients \cup {Nobody} /\ TRUE \in BOOLEAN
  OBVIOUS
<1> QED BY <1>1, <1>2, BeginKeeps DEF HostResync

-----------------------------------------------------------------------------
(* The clients' steps. *)

\* A step of client c, to q, that leaves d under way to it and u from it.
ClientMoves(c, d, q, u) ==
    /\ room' \in Room /\ SameTracking(room, room') /\ SameParticipants(room, room')
    /\ room'.down[c] = d /\ \A b \in Clients \ {c} : room'.down[b] = room.down[b]
    /\ peer' = [peer EXCEPT ![c] = q] /\ q \in PeerState
    /\ up' = [up EXCEPT ![c] = u] /\ u \in Seq(ToHost)
    /\ Ordered(d, q, Newest(room)) /\ Received(q, Newest(room)) /\ Honest(u, q, Newest(room))
    /\ Settled(room, peer[c], c) => q.loaded = Newest(room) \/ (q.fresh /\ NoBegin(d))

LEMMA ClientMovesKeep ==
    ASSUME IInv, NEW c \in room.link, NEW d, NEW q, NEW u, ClientMoves(c, d, q, u)
    PROVE  IInv' /\ ResumeStep
<1>1. /\ room \in Room /\ peer \in [Clients -> PeerState] /\ up \in [Clients -> Seq(ToHost)]
      /\ Newest(room) \in Nat
  BY TypeFacts DEF IInv
<1>2. c \in Clients
  BY <1>1 DEF Room
<1>3. /\ room' \in Room /\ peer' \in [Clients -> PeerState] /\ up' \in [Clients -> Seq(ToHost)]
      /\ peer'[c] = q /\ up'[c] = u
      /\ \A b \in Clients \ {c} : peer'[b] = peer[b] /\ up'[b] = up[b]
  BY <1>1, <1>2 DEF ClientMoves
<1>4. TypeOK'
  BY <1>3 DEF TypeOK, Room, PeerState
<1>5. Tracked(room')
  BY DEF IInv, ClientMoves, Tracked, AlmostTracked, SameTracking, SameParticipants, Newest,
         Uncrossed, activeResyncIsTargeted
<1>6. Closed'
  BY <1>3 DEF IInv, Closed, ClientMoves, SameParticipants
<1>7. Newest(room') = Newest(room)
  BY DEF ClientMoves, SameParticipants, Newest
<1>8. Pipelined'
  <2> SUFFICES ASSUME NEW b \in Clients
               PROVE  /\ Ordered(room'.down[b], peer'[b], Newest(room))
                      /\ Received(peer'[b], Newest(room))
                      /\ Honest(up'[b], peer'[b], Newest(room))
    BY <1>7 DEF Pipelined
  <2>1. CASE b = c
    BY <1>3, <2>1 DEF ClientMoves
  <2>2. CASE b # c
    BY <1>3, <2>2 DEF ClientMoves, IInv, Pipelined
  <2> QED BY <2>1, <2>2
<1>9. AllSettled'
  <2> SUFFICES ASSUME Uncrossed(room'), NEW b \in (Players \cap room'.connected) \ room'.acks
               PROVE  Settled(room', peer'[b], b)
    BY DEF AllSettled
  <2>1. Settled(room, peer[b], b)
    BY DEF IInv, AllSettled, ClientMoves, SameTracking, SameParticipants, Uncrossed
  <2>2. CASE b = c
    BY <1>3, <1>7, <2>1, <2>2 DEF ClientMoves, Settled
  <2>3. CASE b # c
    BY <1>3, <1>7, <2>1, <2>3 DEF ClientMoves, Settled, Clients
  <2> QED BY <2>2, <2>3
<1>10. ResumeStep
  BY DEF ResumeStep, ClientMoves, SameTracking
<1> QED BY <1>4, <1>5, <1>6, <1>8, <1>9, <1>10 DEF IInv

\* What the invariant says of one client.
LEMMA ClientFacts ==
    ASSUME IInv, NEW c \in Clients
    PROVE  /\ peer[c] \in PeerState /\ up[c] \in Seq(ToHost) /\ room.down[c] \in Seq(ToClient)
           /\ Newest(room) \in Nat
           /\ Ordered(room.down[c], peer[c], Newest(room)) /\ Received(peer[c], Newest(room))
           /\ Honest(up[c], peer[c], Newest(room))
BY TypeFacts DEF IInv, Pipelined

LEMMA OpenFacts ==
    ASSUME IInv
    PROVE  /\ room.link \subseteq Clients
           /\ \A c \in Clients : room.down[c] # <<>> => c \in room.link
BY TypeFacts DEF IInv, Closed, Room

\* What is left of the packets under way once the first has been received.
LEMMA TailOrdered ==
    ASSUME NEW d \in Seq(ToClient), d # <<>>, NEW q \in PeerState, NEW n \in Nat, Ordered(d, q, n)
    PROVE  /\ Tail(d) \in Seq(ToClient) /\ Ordered(Tail(d), q, n)
           /\ NoBegin(d) => NoBegin(Tail(d)) /\ Head(d).kind # "begin"
           /\ Head(d).kind \in PartOfPayload => Head(d).id \in 1..n
           /\ Head(d).kind = "begin" =>
                 /\ q.loaded < Head(d).id
                 /\ \A i \in 1..Len(Tail(d)) :
                        Tail(d)[i].kind = "begin" => Head(d).id < Tail(d)[i].id
<1> DEFINE e == Tail(d)
<1>1. /\ e \in Seq(ToClient) /\ Len(e) = Len(d) - 1 /\ Len(d) \in Nat
      /\ \A i \in 1..Len(e) : e[i] = d[i + 1]
  BY HeadTailProperties
<1>2. Head(d) = d[1] /\ 1 \in 1..Len(d)
  BY <1>1
<1> HIDE DEF e
<1>3. \A i \in 1..Len(e) : i + 1 \in 1..Len(d) /\ 1 \in 1..((i + 1) - 1)
  BY <1>1
<1>4. Ordered(e, q, n)
  <2>1. \A i \in 1..Len(e) : e[i].kind \in PartOfPayload => e[i].id \in 1..n
    BY <1>1, <1>3 DEF Ordered
  <2>2. ASSUME NEW i \in 1..Len(e), e[i].kind = "begin"
        PROVE  /\ q.loaded < e[i].id /\ q.apply < e[i].id /\ q.incoming < e[i].id
               /\ \A j \in 1..(i - 1) : e[j].kind = "begin" => e[j].id < e[i].id
    <3>1. /\ q.loaded < e[i].id /\ q.apply < e[i].id /\ q.incoming < e[i].id
          /\ \A j \in 1..((i + 1) - 1) : d[j].kind = "begin" => d[j].id < e[i].id
      BY <1>1, <1>3, <2>2 DEF Ordered
    <3>2. \A j \in 1..(i - 1) : j + 1 \in 1..((i + 1) - 1) /\ j \in 1..Len(e)
      BY <1>1
    <3> QED BY <1>1, <3>1, <3>2
  <2> QED BY <2>1, <2>2 DEF Ordered
<1>5. NoBegin(d) => NoBegin(e) /\ d[1].kind # "begin"
  BY <1>1, <1>2, <1>3 DEF NoBegin
<1>6. d[1].kind \in PartOfPayload => d[1].id \in 1..n
  BY <1>2 DEF Ordered
<1>7. d[1].kind = "begin" => /\ q.loaded < d[1].id
                             /\ \A i \in 1..Len(e) : e[i].kind = "begin" => d[1].id < e[i].id
  BY <1>1, <1>2, <1>3 DEF Ordered
<1> QED BY <1>1, <1>2, <1>4, <1>5, <1>6, <1>7 DEF e

\* Only what a client has loaded, has waiting and is receiving orders packets.
LEMMA SameOrder ==
    ASSUME NEW d, NEW q, NEW p, NEW n, Ordered(d, q, n),
           p.loaded = q.loaded, p.apply = q.apply, p.incoming = q.incoming
    PROVE  Ordered(d, p, n)
BY DEF Ordered

\* A client that answers, asks or gives up says nothing of having loaded.
LEMMA ReplyHonest ==
    ASSUME NEW u \in Seq(ToHost), NEW q, NEW n \in Nat, NEW p \in ToHost,
           Honest(u, q, n), p.kind = "same" => p.tag <= n /\ (p.tag = n => q.loaded = n)
    PROVE  Append(u, p) \in Seq(ToHost) /\ Honest(Append(u, p), q, n)
<1> DEFINE v == Append(u, p)
<1>1. /\ v \in Seq(ToHost) /\ Len(v) = Len(u) + 1 /\ Len(u) \in Nat /\ v[Len(u) + 1] = p
      /\ \A i \in 1..Len(u) : v[i] = u[i]
  BY AppendProperties
<1> HIDE DEF v
<1>2. \A i \in 1..Len(v) : i \in 1..Len(u) \/ i = Len(u) + 1
  BY <1>1
<1>3. Honest(v, q, n)
  BY <1>1, <1>2 DEF Honest
<1> QED BY <1>1, <1>3 DEF v

\* The room once c has received the first packet under way to it.
LEMMA TakenRoom ==
    ASSUME NEW r \in Room, NEW c \in Clients, r.down[c] # <<>>
    PROVE  LET s == [r EXCEPT !.down[c] = Tail(@)]
           IN  /\ s \in Room /\ SameTracking(r, s) /\ SameParticipants(r, s)
               /\ s.down[c] = Tail(r.down[c])
               /\ \A b \in Clients \ {c} : s.down[b] = r.down[b]
<1> DEFINE d == [r.down EXCEPT ![c] = Tail(r.down[c])]
           s == [r EXCEPT !.down = d]
<1>1. r.down \in [Clients -> Seq(ToClient)]
  BY DEF Room
<1>2. r.down[c] \in Seq(ToClient) /\ Tail(r.down[c]) \in Seq(ToClient)
  BY <1>1
<1>3. /\ d \in [Clients -> Seq(ToClient)] /\ d[c] = Tail(r.down[c])
      /\ \A b \in Clients \ {c} : d[b] = r.down[b]
  BY <1>1, <1>2
<1>4. [r EXCEPT !.down[c] = Tail(@)] = s
  BY <1>1
<1> HIDE DEF d
<1>5. s \in Room
  BY <1>3 DEF Room
<1>6. s.down = d /\ SameTracking(r, s) /\ SameParticipants(r, s)
  BY DEF Room, SameTracking, SameParticipants
<1> QED BY <1>3, <1>4, <1>5, <1>6

\* A client that receives a packet becomes q and has u under way to the host.
Takes(c, q, u) ==
    /\ peer' = [peer EXCEPT ![c] = q] /\ q \in PeerState
    /\ up' = [up EXCEPT ![c] = u] /\ u \in Seq(ToHost)
    /\ Ordered(Tail(room.down[c]), q, Newest(room)) /\ Received(q, Newest(room))
    /\ Honest(u, q, Newest(room)) /\ q.loaded = peer[c].loaded
    /\ NoBegin(room.down[c]) => q.fresh = peer[c].fresh

LEMMA TakesKeep ==
    ASSUME IInv, NEW c \in Clients, room.down[c] # <<>>,
           room' = [room EXCEPT !.down[c] = Tail(@)], NEW q, NEW u, Takes(c, q, u)
    PROVE  IInv' /\ ResumeStep
<1>1. /\ room' \in Room /\ SameTracking(room, room') /\ SameParticipants(room, room')
      /\ room'.down[c] = Tail(room.down[c])
      /\ \A b \in Clients \ {c} : room'.down[b] = room.down[b]
  BY RoomFacts, TakenRoom
<1>2. NoBegin(room.down[c]) => NoBegin(Tail(room.down[c]))
  BY ClientFacts, TailOrdered
<1>3. ClientMoves(c, Tail(room.down[c]), q, u)
  BY <1>1, <1>2 DEF Takes, ClientMoves, Settled
<1>4. c \in room.link
  BY OpenFacts
<1> QED BY <1>3, <1>4, ClientMovesKeep

LEMMA ReceiveFromHostKeeps ==
    ASSUME IInv, NEW c \in Clients, ReceiveFromHost(c)
    PROVE  IInv' /\ ResumeStep
<1> DEFINE o == peer[c]
           d == room.down[c]
           p == Head(d)
           n == Newest(room)
<1>1. /\ o \in PeerState /\ up[c] \in Seq(ToHost) /\ d \in Seq(ToClient) /\ n \in Nat
      /\ Ordered(d, o, n) /\ Received(o, n) /\ Honest(up[c], o, n)
  BY ClientFacts
<1>2. d # <<>> /\ room' = [room EXCEPT !.down[c] = Tail(@)]
  BY DEF ReceiveFromHost
<1>3. /\ Tail(d) \in Seq(ToClient) /\ Ordered(Tail(d), o, n)
      /\ NoBegin(d) => p.kind # "begin"
      /\ p.kind \in PartOfPayload => p.id \in 1..n
      /\ p.kind = "begin" => /\ o.loaded < p.id
                             /\ \A i \in 1..Len(Tail(d)) :
                                    Tail(d)[i].kind = "begin" => p.id < Tail(d)[i].id
  BY <1>1, <1>2, TailOrdered
<1>4. /\ peer \in [Clients -> PeerState] /\ up \in [Clients -> Seq(ToHost)]
      /\ up = [up EXCEPT ![c] = up[c]] /\ peer = [peer EXCEPT ![c] = peer[c]]
  BY TypeFacts DEF IInv
<1>5. SUFFICES \E q, u : Takes(c, q, u)
  BY <1>2, TakesKeep
<1>6. CASE /\ p.kind \in SessionState
           /\ peer' = [peer EXCEPT ![c] = handleStartSession(@, p.kind)]
           /\ UNCHANGED up
  <2> DEFINE q == handleStartSession(o, p.kind)
  <2>1. /\ q \in PeerState /\ q.loaded = o.loaded /\ q.apply = o.apply /\ q.fresh = o.fresh
        /\ q.incoming = o.incoming /\ q.activeId = o.activeId
        /\ q.state = "Running" => ~q.locked \/ (q.state = o.state /\ q.locked = o.locked)
    BY <1>1, <1>6 DEF handleStartSession, PeerState
  <2>2. peer' = [peer EXCEPT ![c] = q]
    BY <1>4, <1>6
  <2> HIDE DEF q
  <2>3. Received(q, n)
    BY <1>1, <2>1 DEF Received
  <2>4. Ordered(Tail(d), q, n)
    BY <1>3, <2>1, SameOrder
  <2>5. Honest(up[c], q, n)
    BY <1>1, <2>1 DEF Honest
  <2>6. Takes(c, q, up[c])
    BY <1>1, <1>4, <1>6, <2>1, <2>2, <2>3, <2>4, <2>5 DEF Takes
  <2> QED BY <2>6
<1>7. CASE /\ p.kind = "begin"
           /\ peer' = [peer EXCEPT ![c] = handleResyncBegin(@, p.id)]
           /\ UNCHANGED up
  <2> DEFINE q == handleResyncBegin(o, p.id)
  <2>1. p.id \in 1..n /\ o.loaded < p.id /\ p.id \in Nat /\ p.id # 0
    BY <1>1, <1>3, <1>7 DEF PartOfPayload
  <2>2. room.epochs[p.id] \in Nat
    <3>1. room.epochs \in Seq(Nat)
      BY RoomFacts DEF Room
    <3> QED BY <2>1, <3>1 DEF Newest
  <2>3. /\ q \in PeerState /\ q.loaded = o.loaded /\ q.apply = 0
        /\ q.incoming = p.id /\ q.activeId = p.id /\ q.state = "Resyncing"
    BY <1>1, <2>1, <2>2 DEF handleResyncBegin, PeerState, SessionState
  <2>4. peer' = [peer EXCEPT ![c] = q]
    BY <1>4, <1>7
  <2> HIDE DEF q
  <2>5. Received(q, n)
    BY <1>1, <2>1, <2>3 DEF Received, PeerState
  <2>6. Ordered(Tail(d), q, n)
    <3>1. \A i \in 1..Len(Tail(d)) : Tail(d)[i].kind = "begin" => Tail(d)[i].id \in 1..n
      BY <1>3 DEF Ordered, PartOfPayload
    <3> QED BY <1>1, <1>3, <1>7, <2>3, <3>1 DEF Ordered
  <2>7. Honest(up[c], q, n)
    BY <1>1, <2>3 DEF Honest
  <2>8. Takes(c, q, up[c])
    BY <1>1, <1>3, <1>4, <1>7, <2>3, <2>4, <2>5, <2>6, <2>7 DEF Takes
  <2> QED BY <2>8
<1>8. CASE p.kind = "complete" /\ handleResyncComplete(c, p.id)
  <2>1. p.id \in 1..n /\ p.id \in Nat /\ p.id # 0
    BY <1>1, <1>3, <1>8 DEF PartOfPayload
  <2>2. CASE o.incoming # p.id /\ UNCHANGED <<peer, up>>
    <3>1. Takes(c, o, up[c])
      BY <1>1, <1>3, <1>4, <2>2 DEF Takes
    <3> QED BY <3>1
  <2>3. CASE /\ o.incoming = p.id
             /\ peer' = [peer EXCEPT ![c] = [[o EXCEPT !.incoming = 0] EXCEPT !.apply = p.id]]
             /\ UNCHANGED up
    <3> DEFINE q == [[o EXCEPT !.incoming = 0] EXCEPT !.apply = p.id]
    <3>1. /\ q \in PeerState /\ q.loaded = o.loaded /\ q.apply = o.incoming /\ q.fresh = o.fresh
          /\ q.incoming = 0 /\ q.activeId = o.activeId /\ q.state = o.state /\ q.locked = o.locked
      BY <1>1, <2>1, <2>3 DEF PeerState
    <3>2. peer' = [peer EXCEPT ![c] = q]
      BY <2>3
    <3> HIDE DEF q
    <3>3. Received(q, n)
      BY <1>1, <2>1, <2>3, <3>1 DEF Received, PeerState
    <3>4. Ordered(Tail(d), q, n)
      <4>1. \A i \in 1..Len(Tail(d)) : Tail(d)[i].kind = "begin" => Tail(d)[i].id \in 1..n
        BY <1>3 DEF Ordered, PartOfPayload
      <4> QED BY <1>1, <1>3, <3>1, <4>1 DEF Ordered
    <3>5. Honest(up[c], q, n)
      BY <1>1, <3>1 DEF Honest
    <3>6. Takes(c, q, up[c])
      BY <1>1, <1>4, <2>3, <3>1, <3>2, <3>3, <3>4, <3>5 DEF Takes
    <3> QED BY <3>6
  <2>4. CASE /\ o.incoming = p.id /\ peer' = [peer EXCEPT ![c] = [o EXCEPT !.incoming = 0]]
             /\ Reply(c, "abort", p.id)
    <3> DEFINE q == [o EXCEPT !.incoming = 0]
               a == [kind |-> "abort", tag |-> p.id]
    <3>1. /\ q \in PeerState /\ q.loaded = o.loaded /\ q.apply = o.apply /\ q.fresh = o.fresh
          /\ q.incoming = 0 /\ q.activeId = o.activeId /\ q.state = o.state /\ q.locked = o.locked
      BY <1>1 DEF PeerState
    <3>2. a \in ToHost /\ a.kind # "same"
      BY <2>1 DEF ToHost
    <3>3. peer' = [peer EXCEPT ![c] = q] /\ up' = [up EXCEPT ![c] = Append(up[c], a)]
      BY <1>4, <2>4 DEF Reply
    <3> HIDE DEF q, a
    <3>4. Received(q, n)
      BY <1>1, <3>1 DEF Received, PeerState
    <3>5. Ordered(Tail(d), q, n)
      <4>1. \A i \in 1..Len(Tail(d)) : Tail(d)[i].kind = "begin" => Tail(d)[i].id \in 1..n
        BY <1>3 DEF Ordered, PartOfPayload
      <4> QED BY <1>1, <1>3, <3>1, <4>1 DEF Ordered
    <3>6. Honest(up[c], q, n)
      BY <1>1, <3>1 DEF Honest
    <3>7. Append(up[c], a) \in Seq(ToHost) /\ Honest(Append(up[c], a), q, n)
      BY <1>1, <3>2, <3>6, ReplyHonest
    <3>8. Takes(c, q, Append(up[c], a))
      BY <3>1, <3>3, <3>4, <3>5, <3>7 DEF Takes
    <3> QED BY <3>8
  <2> QED BY <1>8, <2>2, <2>3, <2>4 DEF handleResyncComplete
<1> QED BY <1>6, <1>7, <1>8 DEF ReceiveFromHost

\* A step of a client alone, that receives nothing.
LEMMA AloneKeeps ==
    ASSUME IInv, NEW c \in room.link, UNCHANGED room, NEW q \in PeerState,
           NEW u \in Seq(ToHost),
           peer' = [peer EXCEPT ![c] = q], up' = [up EXCEPT ![c] = u],
           Ordered(room.down[c], q, Newest(room)), Received(q, Newest(room)),
           Honest(u, q, Newest(room)),
           peer[c].loaded = Newest(room) => q.loaded = peer[c].loaded, q.fresh = peer[c].fresh
    PROVE  IInv' /\ ResumeStep
<1>1. /\ room' \in Room /\ SameTracking(room, room') /\ SameParticipants(room, room')
  BY RoomFacts DEF SameTracking, SameParticipants
<1>2. ClientMoves(c, room.down[c], q, u)
  BY <1>1 DEF ClientMoves, Settled
<1> QED BY <1>2, ClientMovesKeep

LEMMA FrameStatusKeeps ==
    ASSUME IInv, NEW c \in Clients, handleFrameStatus(c)
    PROVE  IInv' /\ ResumeStep
<1> DEFINE o == peer[c]
           n == Newest(room)
           q == [o EXCEPT !.epoch = Epoch(room)]
<1>1. /\ o \in PeerState /\ up[c] \in Seq(ToHost) /\ n \in Nat
      /\ Ordered(room.down[c], o, n) /\ Received(o, n) /\ Honest(up[c], o, n)
  BY ClientFacts
<1>2. /\ c \in room.link /\ room' = room
      /\ peer' = [peer EXCEPT ![c] = q] /\ up' = [up EXCEPT ![c] = up[c]]
  BY TypeFacts DEF handleFrameStatus, IInv
<1>3. Epoch(room) \in Nat
  <2>1. 0 \in Nat
    OBVIOUS
  <2> QED BY <2>1, RoomFacts, EpochsGrow
<1>4. /\ q \in PeerState /\ q.loaded = o.loaded /\ q.apply = o.apply /\ q.fresh = o.fresh
      /\ q.incoming = o.incoming /\ q.activeId = o.activeId /\ q.state = o.state
      /\ q.locked = o.locked
  BY <1>1, <1>3 DEF PeerState
<1> HIDE DEF q
<1>5. Ordered(room.down[c], q, n) /\ Received(q, n) /\ Honest(up[c], q, n)
  BY <1>1, <1>4, SameOrder DEF Received, Honest
<1> QED BY <1>1, <1>2, <1>4, <1>5, AloneKeeps

LEMMA IncomingTimeoutKeeps ==
    ASSUME IInv, NEW c \in Clients, IncomingTimeout(c)
    PROVE  IInv' /\ ResumeStep
<1> DEFINE o == peer[c]
           n == Newest(room)
           q == [o EXCEPT !.incoming = 0]
           a == [kind |-> "abort", tag |-> o.incoming]
<1>1. /\ o \in PeerState /\ up[c] \in Seq(ToHost) /\ n \in Nat
      /\ Ordered(room.down[c], o, n) /\ Received(o, n) /\ Honest(up[c], o, n)
  BY ClientFacts
<1>2. /\ c \in room.link /\ room' = room
      /\ peer' = [peer EXCEPT ![c] = q] /\ up' = [up EXCEPT ![c] = Append(up[c], a)]
  BY TypeFacts DEF IncomingTimeout, IInv, Reply
<1>3. /\ q \in PeerState /\ q.loaded = o.loaded /\ q.apply = o.apply /\ q.fresh = o.fresh
      /\ q.incoming = 0 /\ q.activeId = o.activeId /\ q.state = o.state /\ q.locked = o.locked
  BY <1>1 DEF PeerState
<1>4. a \in ToHost /\ a.kind # "same"
  BY <1>1 DEF ToHost, PeerState
<1> HIDE DEF q, a
<1>5. Received(q, n) /\ Honest(up[c], q, n)
  BY <1>1, <1>3 DEF Received, Honest, PeerState
<1>6. Ordered(room.down[c], q, n)
  <2>1. \A i \in 1..Len(room.down[c]) :
            room.down[c][i].kind = "begin" => room.down[c][i].id \in 1..n
    BY <1>1 DEF Ordered, PartOfPayload
  <2> QED BY <1>1, <1>3, <2>1 DEF Ordered
<1>7. Append(up[c], a) \in Seq(ToHost) /\ Honest(Append(up[c], a), q, n)
  BY <1>1, <1>4, <1>5, ReplyHonest
<1> QED BY <1>2, <1>3, <1>5, <1>6, <1>7, AloneKeeps

LEMMA ProcessPendingResyncApplyKeeps ==
    ASSUME IInv, NEW c \in Clients, ProcessPendingResyncApply(c)
    PROVE  IInv' /\ ResumeStep
<1> DEFINE o == peer[c]
           n == Newest(room)
<1>1. /\ o \in PeerState /\ up[c] \in Seq(ToHost) /\ n \in Nat
      /\ Ordered(room.down[c], o, n) /\ Received(o, n) /\ Honest(up[c], o, n)
  BY ClientFacts
<1>2. c \in room.link /\ room' = room /\ o.apply # 0
  BY DEF ProcessPendingResyncApply
<1>3. /\ peer \in [Clients -> PeerState] /\ up \in [Clients -> Seq(ToHost)]
      /\ up = [up EXCEPT ![c] = up[c]]
  BY TypeFacts DEF IInv
<1>4. /\ o.apply \in Nat /\ o.loaded \in Nat /\ o.incoming = 0 /\ o.apply = o.activeId
      /\ o.loaded < o.apply /\ o.apply <= n /\ o.loaded # n
  BY <1>1, <1>2 DEF Received, PeerState
<1>5. \A i \in 1..Len(room.down[c]) :
          room.down[c][i].kind = "begin" => room.down[c][i].id \in 1..n
  BY <1>1 DEF Ordered, PartOfPayload
<1>6. PICK outcome \in Loaded :
          /\ peer' = [peer EXCEPT ![c] = acknowledgeResync([[o EXCEPT !.apply = 0]
                        EXCEPT !.loaded = IF outcome = "same" THEN o.apply ELSE 0], outcome)]
          /\ Reply(c, outcome, o.apply)
  BY <1>4 DEF ProcessPendingResyncApply
<1> DEFINE l == IF outcome = "same" THEN o.apply ELSE 0
           w == [[o EXCEPT !.apply = 0] EXCEPT !.loaded = l]
           q == acknowledgeResync(w, outcome)
           a == [kind |-> outcome, tag |-> o.apply]
<1>7. /\ l \in Nat /\ l <= o.apply /\ (outcome = "same" => l = o.apply)
  BY <1>4
<1>8. peer' = [peer EXCEPT ![c] = q] /\ up' = [up EXCEPT ![c] = Append(up[c], a)]
  BY <1>3, <1>6 DEF Reply
<1>9. a \in ToHost /\ a.kind = outcome /\ a.tag = o.apply
  BY <1>4, <1>6 DEF ToHost
<1> HIDE DEF l, a
<1>10. /\ w \in PeerState /\ w.loaded = l /\ w.apply = 0 /\ w.fresh = o.fresh
       /\ w.incoming = 0 /\ w.state = o.state /\ w.locked = o.locked
  BY <1>1, <1>4, <1>7 DEF PeerState
<1> HIDE DEF w
<1>11. /\ q \in PeerState /\ q.loaded = l /\ q.apply = 0 /\ q.fresh = o.fresh /\ q.incoming = 0
       /\ q.state = "Running" => q.state = o.state /\ q.locked = o.locked
  BY <1>10 DEF acknowledgeResync, PeerState, SessionState
<1> HIDE DEF q
<1>12. Received(q, n)
  BY <1>1, <1>4, <1>7, <1>11 DEF Received
<1>13. Ordered(room.down[c], q, n)
  BY <1>1, <1>4, <1>5, <1>7, <1>11 DEF Ordered
<1>14. Honest(up[c], q, n)
  BY <1>1, <1>4 DEF Honest
<1>15. Append(up[c], a) \in Seq(ToHost) /\ Honest(Append(up[c], a), q, n)
  <2>1. a.kind = "same" => a.tag <= n /\ (a.tag = n => q.loaded = n)
    BY <1>4, <1>7, <1>9, <1>11
  <2> QED BY <1>1, <1>9, <1>14, <2>1, ReplyHonest
<1> QED BY <1>2, <1>4, <1>8, <1>11, <1>12, <1>13, <1>15, AloneKeeps

LEMMA RequestHostResyncKeeps ==
    ASSUME IInv, NEW c \in Clients, requestHostResync(c)
    PROVE  IInv' /\ ResumeStep
<1> DEFINE o == peer[c]
           n == Newest(room)
<1>1. /\ o \in PeerState /\ up[c] \in Seq(ToHost) /\ n \in Nat
      /\ Ordered(room.down[c], o, n) /\ Received(o, n) /\ Honest(up[c], o, n)
  BY ClientFacts
<1>2. PICK reason \in ResyncReason : Reply(c, reason, o.epoch)
  BY DEF requestHostResync
<1> DEFINE a == [kind |-> reason, tag |-> o.epoch]
<1>3. /\ c \in room.link /\ room' = room
      /\ peer' = [peer EXCEPT ![c] = o] /\ up' = [up EXCEPT ![c] = Append(up[c], a)]
  BY <1>2, TypeFacts DEF requestHostResync, IInv, Reply
<1>4. a \in ToHost /\ a.kind # "same"
  BY <1>1, <1>2 DEF ToHost, PeerState, ResyncReason
<1> HIDE DEF a
<1>5. Append(up[c], a) \in Seq(ToHost) /\ Honest(Append(up[c], a), o, n)
  BY <1>1, <1>4, ReplyHonest
<1> QED BY <1>1, <1>3, <1>5, AloneKeeps

LEMMA ClosesKeep ==
    ASSUME IInv, NEW c \in Clients,
           handleParticipantLeft(c) \/ processPendingKickDisconnects(c) \/ LoseConnection(c)
    PROVE  IInv' /\ ResumeStep
BY DisconnectKeeps DEF handleParticipantLeft, processPendingKickDisconnects, LoseConnection

LEMMA JoinRoomKeeps ==
    ASSUME IInv, NEW c \in Clients, handleJoinRoom(c)
    PROVE  IInv' /\ ResumeStep
<1> DEFINE n == Newest(room)
           res == IF c \in room.reserved THEN room.resuming \cup {c} ELSE room.resuming \ {c}
           first == <<StatePacket(room.state)>>
           dn == [room.down EXCEPT ![c] = first]
           s == [room EXCEPT !.connected = @ \cup {c}, !.reserved = @ \ {c},
                    !.suspended = @ \ {c}, !.lateJoin = {c}, !.link = @ \cup {c},
                    !.resuming = res, !.down = dn]
<1>1. /\ room \in Room /\ peer \in [Clients -> PeerState] /\ up \in [Clients -> Seq(ToHost)]
      /\ room.down \in [Clients -> Seq(ToClient)] /\ n \in Nat /\ Tracked(room)
  BY TypeFacts DEF IInv
<1>2. PICK reconnects \in BOOLEAN :
          /\ c \in room.connected \cup room.reserved => reconnects
          /\ peer' = [peer EXCEPT ![c] = [state |-> "Lobby", locked |-> FALSE,
                        epoch |-> Epoch(room), activeId |-> 0, incoming |-> 0,
                        apply |-> 0, loaded |-> 0, fresh |-> reconnects]]
  BY DEF handleJoinRoom
<1> DEFINE q == [state |-> "Lobby", locked |-> FALSE, epoch |-> Epoch(room), activeId |-> 0,
                 incoming |-> 0, apply |-> 0, loaded |-> 0, fresh |-> reconnects]
<1>3. /\ q \in PeerState /\ q.state = "Lobby" /\ q.incoming = 0 /\ q.apply = 0 /\ q.loaded = 0
      /\ q.fresh = reconnects
  <2>1. Epoch(room) \in Nat
    <3>1. 0 \in Nat
      OBVIOUS
    <3> QED BY <1>1, <3>1, EpochsGrow
  <2> QED BY <2>1 DEF PeerState, SessionState
<1>4. peer' = [peer EXCEPT ![c] = q]
  BY <1>2
<1> HIDE DEF q
<1>5. /\ first \in Seq(ToClient) /\ Len(first) = 1
      /\ first[1] = StatePacket(room.state) /\ first[1].kind \notin PartOfPayload
  <2>1. room.state \in SessionState
    BY <1>1 DEF Room
  <2>2. StatePacket(room.state) \in ToClient /\ StatePacket(room.state).kind \notin PartOfPayload
    BY <2>1, StatePackets
  <2> QED BY <2>2
<1>6. room' = s /\ up' = up
  BY <1>1 DEF handleJoinRoom
<1> HIDE DEF first
<1>7. dn \in [Clients -> Seq(ToClient)] /\ dn[c] = first
      /\ \A b \in Clients \ {c} : dn[b] = room.down[b]
  BY <1>1, <1>5
<1>8. res \in SUBSET Players
  BY <1>1 DEF Room
<1> HIDE DEF res, dn
<1>9. s \in Room
  <2>1. [room EXCEPT !.connected = @ \cup {c}, !.reserved = @ \ {c}, !.suspended = @ \ {c}] \in Room
    BY <1>1 DEF Room
  <2>2. \A p \in Room, l \in SUBSET Clients : [p EXCEPT !.lateJoin = {c}, !.link = l] \in Room
    BY DEF Room
  <2>3. \A p \in Room : [p EXCEPT !.resuming = res, !.down = dn] \in Room
    BY <1>7, <1>8 DEF Room
  <2>4. room.link \cup {c} \in SUBSET Clients
    BY <1>1 DEF Room
  <2> QED BY <2>1, <2>2, <2>3, <2>4
<1>10. /\ s.connected = room.connected \cup {c} /\ s.reserved = room.reserved \ {c}
       /\ s.link = room.link \cup {c} /\ s.down = dn
       /\ s.epochs = room.epochs /\ SameTracking(room, s)
  BY <1>1 DEF Room, SameTracking
<1> HIDE DEF s
<1>11. /\ peer' \in [Clients -> PeerState] /\ peer'[c] = q
       /\ \A b \in Clients \ {c} : peer'[b] = peer[b]
  BY <1>1, <1>3, <1>4
<1>12. TypeOK'
  BY <1>1, <1>6, <1>9, <1>11 DEF TypeOK, Room, PeerState
<1>13. Tracked(room')
  BY <1>1, <1>6, <1>10 DEF Tracked, AlmostTracked, SameTracking, Newest, Uncrossed,
                           activeResyncIsTargeted
<1>14. Closed'
  BY <1>6, <1>7, <1>10 DEF IInv, Closed
<1>15. Newest(room') = n
  BY <1>6, <1>10 DEF Newest
<1>16. c \notin room.link /\ (c \in Observers \/ c \in room.connected \cup room.reserved)
  BY DEF handleJoinRoom
<1>17. Pipelined'
  <2> SUFFICES ASSUME NEW b \in Clients
               PROVE  /\ Ordered(room'.down[b], peer'[b], n) /\ Received(peer'[b], n)
                      /\ Honest(up'[b], peer'[b], n)
    BY <1>15 DEF Pipelined
  <2>1. CASE b = c
    <3>1. Len(up'[b]) = 0
      BY <1>6, <1>16, <2>1 DEF IInv, Closed
    <3>2. Honest(up'[b], q, n)
      BY <3>1 DEF Honest
    <3>3. Received(q, n)
      BY <1>1, <1>3 DEF Received
    <3>4. \A i \in 1..Len(first) : first[i].kind \notin PartOfPayload /\ first[i].kind # "begin"
      BY <1>5 DEF PartOfPayload
    <3>5. Ordered(first, q, n)
      BY <3>4 DEF Ordered
    <3> QED BY <1>6, <1>7, <1>10, <1>11, <2>1, <3>2, <3>3, <3>5
  <2>2. CASE b # c
    BY <1>6, <1>7, <1>10, <1>11, <2>2 DEF IInv, Pipelined
  <2> QED BY <2>1, <2>2
<1>18. AllSettled'
  <2> SUFFICES ASSUME Uncrossed(room'), NEW b \in (Players \cap room'.connected) \ room'.acks
               PROVE  Settled(room', peer'[b], b)
    BY DEF AllSettled
  <2>1. b \in Clients
    BY DEF Clients
  <2>2. CASE b = c
    <3>1. q.fresh
      BY <1>2, <1>3, <1>16, <2>2, ParticipantsAssumption
    <3>2. NoBegin(first)
      BY <1>5 DEF NoBegin, PartOfPayload
    <3> QED BY <1>6, <1>7, <1>10, <1>11, <2>2, <3>1, <3>2 DEF Settled
  <2>3. CASE b # c
    <3>1. Settled(room, peer[b], b)
      BY <1>6, <1>10, <2>3 DEF IInv, AllSettled, SameTracking, Uncrossed
    <3> QED BY <1>6, <1>7, <1>10, <1>11, <1>15, <2>1, <2>3, <3>1 DEF Settled
  <2> QED BY <2>2, <2>3
<1>19. ResumeStep
  BY <1>6, <1>10 DEF ResumeStep, SameTracking
<1> QED BY <1>12, <1>13, <1>14, <1>17, <1>18, <1>19 DEF IInv

-----------------------------------------------------------------------------
(* The invariant holds throughout, and what it implies. *)

LEMMA InitIInv == Init => IInv
<1> SUFFICES ASSUME Init PROVE IInv
  OBVIOUS
<1> DEFINE d == <<StatePacket("Starting")>> \o Payload(1)
           q == [state |-> "Lobby", locked |-> FALSE, epoch |-> 0,
                   activeId |-> 0, incoming |-> 0, apply |-> 0, loaded |-> 0, fresh |-> FALSE]
<1>1. /\ d \in Seq(ToClient) /\ Len(d) = 3
      /\ d[1].kind \notin PartOfPayload /\ d[2].kind = "begin" /\ d[2].id = 1
      /\ d[3].kind = "complete" /\ d[3].id = 1
  <2> DEFINE e == <<StatePacket("Starting")>>
  <2>1. /\ StatePacket("Starting") \in ToClient
        /\ StatePacket("Starting").kind \notin PartOfPayload
    BY StatePackets DEF SessionState
  <2>2. e \in Seq(ToClient) /\ Len(e) = 1 /\ e[1] = StatePacket("Starting")
    BY <2>1
  <2> HIDE DEF e
  <2>3. 1 \in Nat
    OBVIOUS
  <2>4. LET f == e \o Payload(1)
        IN  /\ f \in Seq(ToClient) /\ Len(f) = Len(e) + 2
            /\ \A i \in 1..Len(e) : f[i] = e[i]
            /\ f[Len(e) + 1].kind = "begin" /\ f[Len(e) + 1].id = 1
            /\ f[Len(e) + 2].kind = "complete" /\ f[Len(e) + 2].id = 1
    BY <2>2, <2>3, PayloadFacts
  <2> DEFINE f == e \o Payload(1)
  <2>5. d = f
    BY DEF e
  <2> HIDE DEF f, d
  <2> QED BY <2>1, <2>2, <2>4, <2>5 DEF f
<1>2. /\ room.state = "Resyncing" /\ room.mode = "ResyncLocked" /\ room.epochs = <<1>>
      /\ room.activeId = 1 /\ room.target = Nobody /\ room.targetId = 0
      /\ room.acks = Clients /\ room.connected = Clients /\ room.reserved = {}
      /\ room.link = Clients /\ room.down = [c \in Clients |-> d]
      /\ room.checked /\ ~room.crossed
      /\ peer = [c \in Clients |-> q] /\ up = [c \in Clients |-> <<>>]
  BY DEF Init
<1> HIDE DEF d
<1>3. room \in Room
  BY <1>1 DEF Init, Room, d, SessionState, RecoveryInputMode
<1>4. q \in PeerState
  BY DEF PeerState, SessionState
<1>5. q.incoming = 0 /\ q.apply = 0 /\ q.loaded = 0 /\ q.state = "Lobby"
  OBVIOUS
<1> HIDE DEF q
<1>6. TypeOK
  BY <1>2, <1>3, <1>4 DEF TypeOK, Room, PeerState
<1>7. Newest(room) = 1
  BY <1>2 DEF Newest
<1>8. Tracked(room)
  BY <1>2, <1>7 DEF Tracked, AlmostTracked, activeResyncIsTargeted, Uncrossed
<1>9. Closed
  BY <1>2 DEF Closed
<1>10. Pipelined
  <2>1. Ordered(d, q, 1)
    <3>1. \A i \in 1..Len(d) : i = 1 \/ i = 2 \/ i = 3
      BY <1>1
    <3> QED BY <1>1, <1>5, <3>1 DEF Ordered, PartOfPayload
  <2>2. Received(q, 1)
    BY <1>5 DEF Received
  <2>3. Honest(<<>>, q, 1)
    BY DEF Honest
  <2> QED BY <1>2, <1>7, <2>1, <2>2, <2>3 DEF Pipelined
<1>11. AllSettled
  BY <1>2 DEF AllSettled
<1> QED BY <1>6, <1>8, <1>9, <1>10, <1>11 DEF IInv

LEMMA NextIInv == IInv /\ Next => IInv' /\ ResumeStep
<1> SUFFICES ASSUME IInv, Next PROVE IInv' /\ ResumeStep
  OBVIOUS
<1>1. CASE AckTimeout
  BY <1>1, AckTimeoutKeeps
<1>2. CASE Stabilized
  BY <1>2, StabilizedKeeps
<1>3. CASE StabilizationFails
  BY <1>3, StabilizationFailsKeeps
<1>4. CASE ProcessHostResync
  BY <1>4, ProcessHostResyncKeeps
<1>5. CASE ProcessLateJoin
  BY <1>5, ProcessLateJoinKeeps
<1>6. CASE HostResync
  BY <1>6, HostResyncKeeps
<1>7. CASE pauseSession \/ resumeSession
  BY <1>7, PauseKeeps
<1>8. ASSUME NEW c \in Clients, ReceiveFromClient(c) PROVE IInv' /\ ResumeStep
  BY <1>8, ReceiveFromClientKeeps
<1>9. ASSUME NEW c \in Clients, HostNotices(c) PROVE IInv' /\ ResumeStep
  BY <1>9, HostNoticesKeeps
<1>10. ASSUME NEW c \in Clients, ReservationExpires(c) PROVE IInv' /\ ResumeStep
  BY <1>10, ReservationExpiresKeeps
<1>11. ASSUME NEW c \in Clients, kickParticipant(c) PROVE IInv' /\ ResumeStep
  BY <1>11, KickKeeps
<1>12. ASSUME NEW c \in Clients, ReceiveFromHost(c) PROVE IInv' /\ ResumeStep
  BY <1>12, ReceiveFromHostKeeps
<1>13. ASSUME NEW c \in Clients, handleFrameStatus(c) PROVE IInv' /\ ResumeStep
  BY <1>13, FrameStatusKeeps
<1>14. ASSUME NEW c \in Clients, IncomingTimeout(c) PROVE IInv' /\ ResumeStep
  BY <1>14, IncomingTimeoutKeeps
<1>15. ASSUME NEW c \in Clients, ProcessPendingResyncApply(c) PROVE IInv' /\ ResumeStep
  BY <1>15, ProcessPendingResyncApplyKeeps
<1>16. ASSUME NEW c \in Clients, requestHostResync(c) PROVE IInv' /\ ResumeStep
  BY <1>16, RequestHostResyncKeeps
<1>17. ASSUME NEW c \in Clients,
              handleParticipantLeft(c) \/ processPendingKickDisconnects(c) \/ LoseConnection(c)
       PROVE IInv' /\ ResumeStep
  BY <1>17, ClosesKeep
<1>18. ASSUME NEW c \in Clients, handleJoinRoom(c) PROVE IInv' /\ ResumeStep
  BY <1>18, JoinRoomKeeps
<1> QED
  BY <1>1, <1>2, <1>3, <1>4, <1>5, <1>6, <1>7, <1>8, <1>9, <1>10, <1>11, <1>12, <1>13, <1>14,
     <1>15, <1>16, <1>17, <1>18 DEF Next, HostStep, ClientStep

LEMMA StutterIInv == IInv /\ UNCHANGED vars => IInv'
<1> SUFFICES ASSUME IInv, UNCHANGED vars PROVE IInv'
  OBVIOUS
<1>1. room' = room /\ peer' = peer /\ up' = up
  BY DEF vars
<1>2. TypeOK'
  BY <1>1 DEF IInv, TypeOK
<1>3. Tracked(room') /\ Closed' /\ Pipelined' /\ AllSettled'
  BY <1>1 DEF IInv, Closed, Pipelined, AllSettled
<1> QED BY <1>2, <1>3 DEF IInv

LEMMA AlwaysIInv == Spec => []IInv
<1>1. IInv /\ [Next]_vars => IInv'
  BY NextIInv, StutterIInv
<1> QED BY <1>1, InitIInv, PTL DEF Spec

\* Every reachable state of the host's and the clients' coordinators and every
\* packet under way has its type, for any participants and any number of
\* requests, faults and joins; in particular a begin names a resync that
\* exists, so that handleResyncBegin finds its epoch.
THEOREM ResyncTypeCorrect == Spec => []TypeOK
<1>1. IInv => TypeOK
  BY DEF IInv
<1> QED BY <1>1, AlwaysIInv, PTL

\* However acknowledgements, failures, timeouts, joins, kicks and disconnections
\* interleave, m_pendingResyncAcks, activeResyncId and the target of a targeted
\* resync agree: the host waits only for connected participants, is Resyncing
\* exactly while a full resync is active, and in a targeted one waits for its
\* target alone.
THEOREM TrackingAlwaysConsistent == Spec => []TrackingConsistent
<1>1. IInv => TrackingConsistent
  BY DEF IInv, Tracked, AlmostTracked, TrackingConsistent
<1> QED BY <1>1, AlwaysIInv, PTL

\* A client never has an outdated payload waiting to be loaded, whatever resyncs
\* were begun while an earlier payload was under way, and never runs with its
\* confirmed inputs locked (handleResyncBegin, consumePendingResyncApply,
\* handleStartSession).
THEOREM OnlyNewestPayloadApplied == Spec => []NewestPayloadOnly
<1>1. IInv => NewestPayloadOnly
  <2> SUFFICES ASSUME IInv PROVE NewestPayloadOnly
    OBVIOUS
  <2>1. \A c \in room.link : Received(peer[c], Newest(room))
    BY OpenFacts DEF IInv, Pipelined
  <2> QED BY <2>1 DEF NewestPayloadOnly, Received
<1> QED BY <1>1, AlwaysIInv, PTL

\* finalizeActiveResyncIfReady lets the session run again after a full resync
\* only when every player still connected continues from the state of the
\* current epoch, or reconnected meanwhile and waits for a state; this holds of
\* every step, whoever left, failed or timed out during the resync.
THEOREM ResumeAlwaysNeedsEveryPlayer == Spec => ResumeNeedsEveryPlayer
<1>1. IInv /\ [Next]_vars => [ResumeStep]_vars
  BY NextIInv
<1>2. Spec => [][ResumeStep]_vars
  BY <1>1, AlwaysIInv, PTL DEF Spec
<1>3. [][ResumeStep]_vars => ResumeNeedsEveryPlayer
  BY PTL DEF ResumeStep, ResumeNeedsEveryPlayer
<1> QED BY <1>2, <1>3, PTL
=============================================================================
