------------------------ MODULE LockstepInputProofs ------------------------
(***************************************************************************)
(* What becomes of a player's inputs, for any number of peers, frames and  *)
(* losses, when every client plays at most one slot: the host counts only  *)
(* contiguous inputs as confirmed, and within the redundancy of the input  *)
(* packets every peer emulates exactly what was pressed.                   *)
(***************************************************************************)
EXTENDS LockstepProofs

\* No client plays two slots.  The run lockstep_two_slots shows what happens
\* to one that does.
OneSlot == \A s, t \in Slots : Owner[s] = Owner[t] /\ Owner[s] # Host => s = t

\* The last frame the host has an input of slot s for.
Reach(t, cg, s) == IF Owner[s] = Host THEN LatestFor(t, s) ELSE cg[Owner[s]]

LEMMA LatestForFacts ==
    ASSUME NEW t \in Timelines, NEW s \in Slots
    PROVE  /\ LatestFor(t, s) \in Frame
           /\ t[s][LatestFor(t, s)] # None
           /\ \A f \in Frame : t[s][f] # None => f <= LatestFor(t, s)
<1> DEFINE S == {f \in Frame : t[s][f] # None}
<1>1. S \in SUBSET Frame /\ 0 \in S
  BY FrameFacts DEF Timelines
<1>2. Max(S) \in S /\ \A y \in S : y <= Max(S)
  BY <1>1, MaxFrameSet
<1> QED BY <1>2 DEF LatestFor

LEMMA ReachType ==
    ASSUME NEW t \in Timelines, NEW cg \in [Peers -> Frame], NEW s \in Slots
    PROVE  Reach(t, cg, s) \in Frame
BY LatestForFacts, OwnerAssumption DEF Reach

\* The input-confirmed frame is the reach of the slowest slot.
LEMMA ConfirmedIsLeastReach ==
    ASSUME NEW t \in Timelines, NEW cg \in [Peers -> Frame]
    PROVE  /\ \A s \in Slots : computeHostInputConfirmedFrame(t, cg) <= Reach(t, cg, s)
           /\ \E s \in Slots : computeHostInputConfirmedFrame(t, cg) = Reach(t, cg, s)
<1> DEFINE L == {LatestFor(t, s) : s \in SlotsOf(Host)}
           S == {LatestInput(t, cg, q) : q \in Players}
<1>1. L \in SUBSET Frame
  BY LatestForFacts DEF SlotsOf
<1>2. ASSUME Host \in Players
      PROVE  Min(L) \in L /\ \A y \in L : Min(L) <= y
  <2>1. L # {}
    BY <1>2 DEF Players, SlotsOf
  <2> HIDE DEF L
  <2> QED BY <1>1, <2>1, MinFrameSet
<1>3. ASSUME NEW q \in Players PROVE LatestInput(t, cg, q) \in Frame
  <2>1. CASE q = Host
    BY <1>1, <1>2, <2>1 DEF LatestInput
  <2>2. CASE q # Host
    BY <2>2, <1>3, OwnerAssumption DEF LatestInput, Players
  <2> QED BY <2>1, <2>2
<1>4. S \in SUBSET Frame /\ S # {}
  BY <1>3, SlotsAssumption DEF Players
<1>5. Min(S) \in S /\ \A y \in S : Min(S) <= y
  <2> HIDE DEF S
  <2> QED BY <1>4, MinFrameSet
<1>6. computeHostInputConfirmedFrame(t, cg) = Min(S)
  BY DEF computeHostInputConfirmedFrame
<1>7. ASSUME NEW s \in Slots PROVE Min(S) <= Reach(t, cg, s)
  <2>1. Owner[s] \in Players
    BY DEF Players
  <2>2. Min(S) <= LatestInput(t, cg, Owner[s])
    BY <1>5, <2>1
  <2>3. CASE Owner[s] # Host
    BY <2>2, <2>3 DEF LatestInput, Reach
  <2>4. CASE Owner[s] = Host
    <3>1. LatestFor(t, s) \in L
      BY <2>4 DEF SlotsOf
    <3>2. LatestInput(t, cg, Owner[s]) = Min(L)
      BY <2>4 DEF LatestInput
    <3>3. Min(L) <= LatestFor(t, s) /\ Min(L) \in Nat /\ LatestFor(t, s) \in Nat
      BY <1>1, <1>2, <2>1, <2>4, <3>1, FrameFacts
    <3>4. Min(S) \in Nat
      BY <1>4, <1>5, FrameFacts
    <3>5. Min(S) <= Min(L)
      BY <2>2, <3>2
    <3>6. Reach(t, cg, s) = LatestFor(t, s)
      BY <2>4 DEF Reach
    <3> HIDE DEF S, L
    <3> QED BY <3>3, <3>4, <3>5, <3>6
  <2> QED BY <2>3, <2>4
<1>8. \E s \in Slots : Min(S) = Reach(t, cg, s)
  <2>1. PICK q \in Players : Min(S) = LatestInput(t, cg, q)
    BY <1>5
  <2>2. CASE q # Host
    <3>1. PICK s \in Slots : Owner[s] = q
      BY <2>1 DEF Players
    <3>2. Reach(t, cg, s) = LatestInput(t, cg, q)
      BY <2>2, <3>1 DEF Reach, LatestInput
    <3> QED BY <2>1, <3>2
  <2>3. CASE q = Host
    <3>1. PICK s \in SlotsOf(Host) : Min(L) = LatestFor(t, s)
      BY <1>2, <2>1, <2>3
    <3>2. s \in Slots /\ Reach(t, cg, s) = LatestInput(t, cg, q)
      BY <2>3, <3>1 DEF Reach, LatestInput, SlotsOf
    <3> QED BY <2>1, <3>2
  <2> QED BY <2>2, <2>3
<1> QED BY <1>6, <1>7, <1>8

\* Every frame the publishing loop passes is input-confirmed and complete.
LEMMA PublishableFrames ==
    ASSUME lastPub \in Frame, NEW t \in Timelines, NEW cg \in [Peers -> Frame],
           NEW f \in (lastPub + 1)..PublishableThrough(t, cg)
    PROVE  f <= computeHostInputConfirmedFrame(t, cg) /\ Assemblable(t, f)
<1>1. CASE state[Host] # "Running"
  BY <1>1, FrameFacts DEF PublishableThrough
<1>2. CASE state[Host] = "Running"
  <2> DEFINE S == {n \in Frame :
                /\ lastPub <= n /\ n <= lastPub + MaxBatch
                /\ \A g \in (lastPub + 1)..n :
                      /\ g <= computeHostInputConfirmedFrame(t, cg)
                      /\ Assemblable(t, g)}
  <2>1. S \in SUBSET Frame
    OBVIOUS
  <2>2. lastPub \in S
    BY FrameFacts, DelayAssumption
  <2>3. Max(S) \in S
    BY <2>1, <2>2, MaxFrameSet
  <2>4. PublishableThrough(t, cg) = Max(S)
    BY <1>2 DEF PublishableThrough
  <2>5. \A g \in (lastPub + 1)..Max(S) :
            g <= computeHostInputConfirmedFrame(t, cg) /\ Assemblable(t, g)
    BY <2>3
  <2> HIDE DEF S
  <2> QED BY <2>4, <2>5
<1> QED BY <1>1, <1>2

LEMMA PublishableWithinReach ==
    ASSUME lastPub \in Frame, NEW t \in Timelines, NEW cg \in [Peers -> Frame],
           NEW s \in Slots, PublishableThrough(t, cg) > lastPub
    PROVE  PublishableThrough(t, cg) <= Reach(t, cg, s)
<1> DEFINE n == PublishableThrough(t, cg)
           h == computeHostInputConfirmedFrame(t, cg)
<1>1. n \in Frame /\ h \in Frame /\ Reach(t, cg, s) \in Frame
  BY PublishableRange, HostConfirmedType, ReachType
<1>2. n \in (lastPub + 1)..n
  <2>1. n \in Nat /\ lastPub \in Nat /\ n > lastPub
    BY <1>1, FrameFacts
  <2> HIDE DEF n
  <2> QED BY <2>1
<1>3. n <= h
  BY <1>2, PublishableFrames
<1>4. h <= Reach(t, cg, s)
  BY ConfirmedIsLeastReach
<1>5. n \in Nat /\ h \in Nat /\ Reach(t, cg, s) \in Nat
  BY <1>1, FrameFacts
<1>6. n <= Reach(t, cg, s)
  <2> HIDE DEF n, h
  <2> QED BY <1>3, <1>4, <1>5
<1> QED BY <1>6

-----------------------------------------------------------------------------
\* Whose inputs travel where: a client sends those of its own slots only, so
\* that the host hears of a slot from its owner.
FromOwner(c) == {e \in Entry : Owner[e.slot] = c}

Provenance ==
    /\ \A p \in Peers : todo[p] \subseteq SlotsOf(p)
    /\ \A c \in Clients : up[c] \in Seq(SUBSET FromOwner(c))
    /\ \A e \in inbox[Host] : Owner[e.slot] # Host

LEMMA InitProvenance == Init => Provenance
BY PeersFacts DEF Init, Provenance

\* What a step of Produce records: a slot of the producer.
LEMMA ProduceOwnSlot ==
    ASSUME TypeInv, Provenance, NEW p \in Peers, Produce(p)
    PROVE  \E s \in SlotsOf(p), f \in Frame :
              /\ todo'[p] \subseteq SlotsOf(p)
              /\ \A r \in Peers : r # p => todo'[r] = todo[r]
              /\ recordLocalInputFrame(p, s, f)
              /\ todo[p] = {} => f <= sim[p] + P /\ todo'[p] = SlotsOf(p) \ {s}
<1>1. PICK s \in Slots, f \in Frame, left \in SUBSET Slots :
          /\ IF todo[p] = {}
             THEN /\ f = ProduceFrame(p) /\ f <= sim[p] + P
                  /\ left = SlotsOf(p)
             ELSE f = produced[p] /\ left = todo[p]
          /\ s \in left
          /\ todo' = [todo EXCEPT ![p] = left \ {s}]
          /\ recordLocalInputFrame(p, s, f)
  BY DEF Produce
<1>2. todo \in [Peers -> SUBSET Slots]
  BY DEF TypeInv, TypeOK
<1>3. left \subseteq SlotsOf(p)
  BY <1>1 DEF Provenance
<1>4. todo'[p] = left \ {s} /\ \A r \in Peers : r # p => todo'[r] = todo[r]
  BY <1>1, <1>2
<1>5. s \in SlotsOf(p)
  BY <1>1, <1>3
<1> QED BY <1>1, <1>3, <1>4, <1>5

LEMMA NextProvenance == TypeInv /\ TypeInv' /\ Provenance /\ [Next]_vars => Provenance'
<1> SUFFICES ASSUME TypeInv, TypeInv', Provenance, [Next]_vars PROVE Provenance'
  OBVIOUS
<1>1. ASSUME UNCHANGED <<todo, up, inbox>> PROVE Provenance'
  BY <1>1 DEF Provenance
<1>2. ASSUME NEW p \in Peers, Produce(p) PROVE Provenance'
  <2>1. PICK s \in SlotsOf(p), f \in Frame :
              /\ todo'[p] \subseteq SlotsOf(p)
              /\ \A r \in Peers : r # p => todo'[r] = todo[r]
              /\ recordLocalInputFrame(p, s, f)
    BY <1>2, ProduceOwnSlot
  <2>2. inbox' = inbox
    BY <1>2 DEF Produce
  <2>3. CASE up' = up
    BY <2>1, <2>2, <2>3 DEF Provenance
  <2>4. CASE up' # up
    <3>1. p \in Clients /\ up' = [up EXCEPT ![p] = Send(@, PacketFor(p, s, f))]
      BY <2>1, <2>4 DEF recordLocalInputFrame, Peers
    <3>2. s \in Slots /\ Owner[s] = p
      BY DEF SlotsOf
    <3>3. PacketFor(p, s, f) \in SUBSET Entry
      <4>1. (tl \in [Peers -> Timelines])' /\ (sq \in [Slots -> [Frame -> Nat]])'
        BY DEF TypeInv, TypeOK, BaselineHeld, Timelines
      <4> QED BY <3>2, <4>1, PacketType
    <3>4. \A e \in PacketFor(p, s, f) : e.slot = s
      BY DEF PacketFor
    <3>5. PacketFor(p, s, f) \in SUBSET FromOwner(p)
      BY <3>2, <3>3, <3>4 DEF FromOwner
    <3>6. Send(up[p], PacketFor(p, s, f)) \in Seq(SUBSET FromOwner(p))
      BY <3>1, <3>5, ChannelTypes DEF Provenance
    <3>7. \A c \in Clients : up'[c] \in Seq(SUBSET FromOwner(c))
      BY <3>1, <3>6 DEF Provenance, TypeInv, TypeOK
    <3> QED BY <2>1, <2>2, <3>7 DEF Provenance
  <2> QED BY <2>3, <2>4
<1>3. ASSUME NEW c \in Clients, DeliverToHost(c) PROVE Provenance'
  <2>1. PICK i \in 1..Len(up[c]) :
            /\ up' = [up EXCEPT ![c] = After(@, i)]
            /\ inbox' = [inbox EXCEPT ![Host] = up[c][i]]
    BY <1>3 DEF DeliverToHost
  <2>2. up[c] \in Seq(SUBSET FromOwner(c))
    BY DEF Provenance
  <2>3. After(up[c], i) \in Seq(SUBSET FromOwner(c)) /\ up[c][i] \in SUBSET FromOwner(c)
    BY <2>2, ChannelTypes
  <2>4. inbox'[Host] = up[c][i]
    BY <2>1, PeersFacts DEF TypeInv, TypeOK
  <2>5. \A e \in inbox'[Host] : Owner[e.slot] # Host
    BY <2>3, <2>4, PeersFacts DEF FromOwner
  <2>6. ASSUME NEW d \in Clients PROVE up'[d] \in Seq(SUBSET FromOwner(d))
    <3>1. up \in [Clients -> Seq(SUBSET Entry)] /\ up[d] \in Seq(SUBSET FromOwner(d))
      BY DEF Provenance, TypeInv, TypeOK
    <3>2. up'[d] = IF d = c THEN After(up[c], i) ELSE up[d]
      BY <2>1, <3>1
    <3> QED BY <2>3, <3>1, <3>2
  <2>7. todo' = todo
    BY <1>3 DEF DeliverToHost, driverVars
  <2> QED BY <2>5, <2>6, <2>7 DEF Provenance
<1>4. ASSUME NEW p \in Peers, HandleInput(p) PROVE Provenance'
  <2>0. PICK e \in inbox[p] : inbox' = [inbox EXCEPT ![p] = @ \ {e}]
    BY <1>4 DEF HandleInput
  <2>1. /\ inbox'[Host] \subseteq inbox[Host]
        /\ UNCHANGED <<todo, up>>
    BY <1>4, <2>0, PeersFacts DEF HandleInput, driverVars, TypeInv, TypeOK
  <2> QED BY <2>1 DEF Provenance
<1>5. ASSUME NEW c \in Clients, DeliverToClient(c) PROVE Provenance'
  <2>1. inbox'[Host] = inbox[Host] /\ UNCHANGED <<todo, up>>
    BY <1>5, PeersFacts DEF DeliverToClient, driverVars, TypeInv, TypeOK
  <2> QED BY <2>1 DEF Provenance
<1>6. ASSUME NEW p \in Peers, PeerStep(p) PROVE Provenance'
  BY <1>1, <1>2, <1>4, <1>6
  DEF PeerStep, ProduceObserver, RunFrame, QueueAhead, NoticeState, driverVars
<1>7. ASSUME NEW c \in Clients, ClientStep(c) PROVE Provenance'
  BY <1>1, <1>3, <1>5, <1>7
  DEF ClientStep, ReceiveConfirmed, ReceiveStatus, ReceiveSession, driverVars
<1>8. CASE HostUpdate \/ pauseSession \/ resumeSession \/ UNCHANGED vars
  BY <1>1, <1>8 DEF HostUpdate, pauseSession, resumeSession, vars, driverVars
<1> QED BY <1>6, <1>7, <1>8 DEF Next

-----------------------------------------------------------------------------
\* The host's inputs are contiguous: every slot has an input for each frame
\* through its reach, and the host confirms no further than any slot reaches.
\* The second part is what keeps recordLocalInputFrame from skipping frames
\* of the host's own slots.
Filled(t, cg) == \A s \in Slots : \A f \in 0..Reach(t, cg, s) : t[s][f] # None
Within(t, cg, n) == \A s \in Slots : n <= Reach(t, cg, s)

Contiguous ==
    /\ Filled(tl[Host], contig[Host])
    /\ Within(tl[Host], contig[Host], conf[Host])

LEMMA HostInputTypes ==
    ASSUME TypeInv
    PROVE  /\ tl[Host] \in Timelines
           /\ contig[Host] \in [Peers -> Frame]
           /\ lastPub \in Frame
           /\ conf[Host] \in Frame
           /\ \A s \in Slots : Reach(tl[Host], contig[Host], s) \in Frame
<1>1. tl[Host] \in Timelines /\ contig[Host] \in [Peers -> Frame]
      /\ lastPub \in Frame /\ conf[Host] \in Frame
  BY TimelinesOfPeers, PeersFacts DEF TypeInv, TypeOK
<1> QED BY <1>1, ReachType

LEMMA InitContiguous == Init => Contiguous
<1> SUFFICES ASSUME Init PROVE Contiguous
  OBVIOUS
<1>0. TypeInv
  BY InitTypeInv
<1>1. /\ \A s \in Slots, f \in Frame : tl[Host][s][f] = IF f = 0 THEN 0 ELSE None
      /\ \A q \in Peers : contig[Host][q] = 0
      /\ conf[Host] = 0
  BY PeersFacts DEF Init
<1>2. ASSUME NEW s \in Slots PROVE Reach(tl[Host], contig[Host], s) = 0
  <2>1. tl[Host] \in Timelines
    BY <1>0, HostInputTypes
  <2>2. LatestFor(tl[Host], s) = 0
    BY <1>1, <2>1, LatestForFacts
  <2> QED BY <1>1, <2>2, OwnerAssumption DEF Reach
<1>3. 0 # None
  BY FrameFacts
<1>4. Filled(tl[Host], contig[Host])
  BY <1>1, <1>2, <1>3, FrameFacts DEF Filled
<1>5. Within(tl[Host], contig[Host], conf[Host])
  BY <1>1, <1>2 DEF Within
<1> QED BY <1>4, <1>5 DEF Contiguous

\* Publishing confirms no further than every slot reaches.
LEMMA PublishWithin ==
    ASSUME TypeInv, NEW t \in Timelines, NEW cg \in [Peers -> Frame],
           publishConfirmedFramesIfReady(t, cg), Within(t, cg, conf[Host])
    PROVE  Within(t, cg, conf'[Host])
<1> DEFINE n == PublishableThrough(t, cg)
<1> SUFFICES ASSUME NEW s \in Slots PROVE conf'[Host] <= Reach(t, cg, s)
  BY DEF Within
<1>1. n > lastPub => n <= Reach(t, cg, s)
  BY HostInputTypes, PublishableWithinReach
<1>2. conf[Host] <= Reach(t, cg, s)
  BY DEF Within
<1>3. conf' = [conf EXCEPT ![Host] = IF n > lastPub THEN MaxOf(@, n) ELSE @]
  BY DEF publishConfirmedFramesIfReady
<1> HIDE DEF n
<1>4. conf'[Host] = IF n > lastPub THEN MaxOf(conf[Host], n) ELSE conf[Host]
  BY <1>3, PeersFacts DEF TypeInv, TypeOK
<1> QED BY <1>1, <1>2, <1>4 DEF MaxOf

\* The host records its own slots frame by frame.
LEMMA HostRecords ==
    ASSUME TypeInv, TypeInv', Contiguous, NEW s \in SlotsOf(Host), NEW f \in Frame,
           tl[Host][s][f] = None, MayRecord(Host, s, f),
           tl' = [tl EXCEPT ![Host][s][f] = f], contig' = contig
    PROVE  /\ \A o \in Slots : o # s =>
                 Reach(tl'[Host], contig'[Host], o) = Reach(tl[Host], contig[Host], o)
           /\ Reach(tl'[Host], contig'[Host], s) = f
           /\ Reach(tl[Host], contig[Host], s) = f - 1
           /\ Filled(tl'[Host], contig'[Host])
           /\ Within(tl'[Host], contig'[Host], conf[Host])
<1> DEFINE t == tl[Host]
           u == tl'[Host]
           l == LatestFor(t, s)
<1>1. /\ s \in Slots /\ Owner[s] = Host
      /\ t \in Timelines /\ u \in Timelines /\ contig[Host] \in [Peers -> Frame]
  <2>1. u \in Timelines
    BY PeersFacts DEF TypeInv, TypeOK, BaselineHeld, Timelines
  <2> QED BY <2>1, HostInputTypes DEF SlotsOf
<1>2. /\ \A o \in Slots : o # s => u[o] = t[o]
      /\ \A g \in Frame : u[s][g] = IF g = f THEN f ELSE t[s][g]
  BY <1>1, PeersFacts DEF TypeInv, TypeOK
<1>3. l \in Frame /\ t[s][l] # None /\ \A g \in Frame : t[s][g] # None => g <= l
  BY <1>1, LatestForFacts
<1>4. Reach(t, contig[Host], s) = l /\ conf[Host] <= l /\ (\A g \in 0..l : t[s][g] # None)
  BY <1>1 DEF Reach, Contiguous, Within, Filled
<1>5. f \in Nat /\ l \in Nat /\ conf[Host] \in Nat /\ Frame \subseteq Nat
  BY <1>3, NumberTypes, FrameFacts, PeersFacts
<1>6. f = l + 1
  <2>1. f = l + 1 \/ (f > l + 1 /\ conf[Host] >= f - 1)
    BY DEF MayRecord
  <2> HIDE DEF l
  <2> QED BY <1>4, <1>5, <2>1
<1>7. LatestFor(u, s) = f
  <2>1. LatestFor(u, s) \in Frame /\ u[s][LatestFor(u, s)] # None
        /\ \A g \in Frame : u[s][g] # None => g <= LatestFor(u, s)
    BY <1>1, LatestForFacts
  <2>2. f <= LatestFor(u, s)
    BY <1>2, <2>1, FrameFacts
  <2>3. CASE LatestFor(u, s) # f
    <3>1. t[s][LatestFor(u, s)] # None
      BY <1>2, <2>1, <2>3
    <3>2. LatestFor(u, s) <= l
      BY <1>3, <2>1, <3>1
    <3>3. LatestFor(u, s) \in Nat
      BY <1>5, <2>1
    <3> HIDE DEF l, u
    <3> QED BY <1>5, <1>6, <2>2, <3>2, <3>3
  <2> QED BY <2>3
<1>8. ASSUME NEW o \in Slots, o # s
      PROVE  Reach(u, contig'[Host], o) = Reach(t, contig[Host], o)
  <2>1. LatestFor(u, o) = LatestFor(t, o)
    BY <1>2, <1>8 DEF LatestFor
  <2> QED BY <2>1 DEF Reach
<1>9. Reach(u, contig'[Host], s) = f
  BY <1>1, <1>7 DEF Reach
<1>10. Filled(u, contig'[Host])
  <2> SUFFICES ASSUME NEW o \in Slots, NEW g \in 0..Reach(u, contig'[Host], o)
               PROVE  u[o][g] # None
    BY DEF Filled
  <2>1. CASE o = s
    <3>1. g \in 0..f
      BY <1>9, <2>1
    <3>2. g \in Frame
      BY <1>5, <3>1, FrameFacts
    <3>3. g = f \/ g \in 0..l
      <4> HIDE DEF l
      <4> QED BY <1>5, <1>6, <3>1
    <3>4. f # None
      BY FrameFacts
    <3> HIDE DEF l, u, t
    <3> QED BY <1>2, <1>4, <2>1, <3>2, <3>3, <3>4
  <2>2. CASE o # s
    <3>1. g \in 0..Reach(t, contig[Host], o) /\ u[o] = t[o]
      BY <1>2, <1>8, <2>2
    <3> QED BY <3>1 DEF Contiguous, Filled
  <2> QED BY <2>1, <2>2
<1>11. Within(u, contig'[Host], conf[Host])
  <2> SUFFICES ASSUME NEW o \in Slots PROVE conf[Host] <= Reach(u, contig'[Host], o)
    BY DEF Within
  <2>1. CASE o = s
    <3>1. conf[Host] <= f
      <4> HIDE DEF l
      <4> QED BY <1>4, <1>5, <1>6
    <3> QED BY <1>9, <2>1, <3>1
  <2>2. CASE o # s
    BY <1>8, <2>2 DEF Contiguous, Within
  <2> QED BY <2>1, <2>2
<1>12. Reach(t, contig[Host], s) = f - 1
  <2> HIDE DEF l
  <2> QED BY <1>4, <1>5, <1>6
<1> QED BY <1>8, <1>9, <1>10, <1>11, <1>12

\* The frames advanceParticipantContiguousInputFrame passes are filled.
LEMMA AdvanceContiguousFacts ==
    ASSUME NEW t \in Timelines, NEW q \in Peers, NEW n \in Frame
    PROVE  LET m == AdvanceContiguous(t, q, n)
           IN  /\ m \in Frame /\ n <= m
               /\ \A f \in (n + 1)..m : \A s \in SlotsOf(q) : t[s][f] # None
               /\ \A k \in Frame :
                     /\ n <= k
                     /\ \A f \in (n + 1)..k : \A s \in SlotsOf(q) : t[s][f] # None
                     => k <= m
<1> DEFINE S == {m \in Frame :
            n <= m /\ \A f \in (n + 1)..m : \A s \in SlotsOf(q) : t[s][f] # None}
<1>1. S \in SUBSET Frame /\ n \in S
  BY FrameFacts
<1>2. Max(S) \in S /\ \A y \in S : y <= Max(S)
  BY <1>1, MaxFrameSet
<1>3. AdvanceContiguous(t, q, n) = Max(S)
  BY DEF AdvanceContiguous
<1> QED BY <1>2, <1>3

\* What the host accepts from a client with one slot leaves no hole before
\* the contiguous frame: a gap is filled for the slot it belongs to.
LEMMA HostAccepts ==
    ASSUME OneSlot, TypeInv, TypeInv', Contiguous, NEW e \in Entry, Owner[e.slot] # Host,
           Accept(Host, Owner[e.slot], e)
    PROVE  /\ \A s \in Slots : s # e.slot =>
                 Reach(tl'[Host], contig'[Host], s) = Reach(tl[Host], contig[Host], s)
           /\ \A s \in Slots :
                 Reach(tl[Host], contig[Host], s) <= Reach(tl'[Host], contig'[Host], s)
           /\ Filled(tl'[Host], contig'[Host])
           /\ Within(tl'[Host], contig'[Host], conf[Host])
<1> DEFINE q == Owner[e.slot]
           k == contig[Host][q]
           t == tl[Host]
           u == AcceptedTimeline(Host, q, e)
           gap == Rebased(Host, q, e) /\ e.frame > ExpectedFrame(Host, q)
           n == IF gap THEN e.frame - 1 ELSE k
           m == AdvanceContiguous(u, q, n)
<1>1. /\ e.slot \in Slots /\ e.frame \in Frame /\ e.val \in Frame
      /\ q \in Peers /\ k \in Frame /\ t \in Timelines /\ u \in Timelines
  <2>1. e.slot \in Slots /\ e.frame \in Frame /\ e.val \in Frame /\ q \in Peers
    BY OwnerAssumption DEF Entry
  <2>2. u \in Timelines
    BY <2>1, AcceptedTimelineType, PeersFacts
  <2> QED BY <2>1, <2>2, HostInputTypes
<1>2. tl'[Host] = u /\ contig'[Host] = [contig[Host] EXCEPT ![q] = m]
  <2>1. tl' = [tl EXCEPT ![Host] = u] /\ contig' = [contig EXCEPT ![Host][q] = m]
    BY DEF Accept
  <2> HIDE DEF u, m
  <2> QED BY <1>1, <2>1, PeersFacts DEF TypeInv, TypeOK
<1>3. /\ \A s \in Slots : s # e.slot => u[s] = t[s]
      /\ \A f \in Frame : u[e.slot][f] =
            IF f = e.frame THEN e.val
            ELSE IF /\ Rebased(Host, q, e) /\ t[e.slot][f] = None
                    /\ ExpectedFrame(Host, q) <= f /\ f < e.frame
                 THEN Repeated(t, e.slot, ExpectedFrame(Host, q), f)
                 ELSE t[e.slot][f]
  BY <1>1 DEF AcceptedTimeline, Timelines
<1>4. e.frame \in Nat /\ k \in Nat /\ ExpectedFrame(Host, q) = k + 1
  BY <1>1, FrameFacts DEF ExpectedFrame
<1>5. n \in Frame /\ n \in Nat /\ k <= n
  <2>1. CASE gap
    <3>1. e.frame - 1 \in Nat /\ e.frame - 1 <= e.frame /\ k <= e.frame - 1
      BY <1>4, <2>1
    <3> QED BY <1>1, <2>1, <3>1, FrameFacts
  <2>2. CASE ~gap
    BY <1>1, <1>4, <2>2
  <2> QED BY <2>1, <2>2
<1>6. \A f \in Frame : f <= k => t[e.slot][f] # None
  <2>1. Reach(t, contig[Host], e.slot) = k
    BY DEF Reach
  <2> QED BY <1>1, <1>4, <2>1, FrameFacts DEF Contiguous, Filled
<1>7. ASSUME NEW f \in Frame, f <= n PROVE u[e.slot][f] # None
  <2>1. f \in Nat
    BY FrameFacts
  <2>2. Repeated(t, e.slot, ExpectedFrame(Host, q), f) \in Frame
    <3>1. ExpectedFrame(Host, q) \in Nat
      BY <1>4
    <3> QED BY <1>1, <3>1, RepeatedType
  <2>3. CASE f <= k
    <3>1. t[e.slot][f] # None
      BY <1>6, <2>3
    <3> HIDE DEF u, t, q
    <3> QED BY <1>1, <1>3, <2>2, <3>1, FrameFacts
  <2>4. CASE ~(f <= k)
    <3>1. gap /\ ExpectedFrame(Host, q) <= f /\ f < e.frame
      BY <1>4, <1>7, <2>1, <2>4
    <3> HIDE DEF u, t, q
    <3> QED BY <1>1, <1>3, <2>2, <3>1, FrameFacts
  <2> QED BY <2>3, <2>4
<1>8. /\ m \in Frame /\ n <= m
      /\ \A f \in (n + 1)..m : \A s \in SlotsOf(q) : u[s][f] # None
  <2> HIDE DEF u, n
  <2> QED BY <1>1, <1>5, AdvanceContiguousFacts
<1>9. m \in Nat
  BY <1>8, FrameFacts
<1> HIDE DEF m, n
<1>10. Reach(u, contig'[Host], e.slot) = m /\ Reach(t, contig[Host], e.slot) = k
  BY <1>1, <1>2, HostInputTypes DEF Reach
<1>11. ASSUME NEW s \in Slots, s # e.slot
       PROVE  Reach(u, contig'[Host], s) = Reach(t, contig[Host], s)
  <2>1. CASE Owner[s] = Host
    <3>1. LatestFor(u, s) = LatestFor(t, s)
      BY <1>3, <1>11 DEF LatestFor
    <3> QED BY <2>1, <3>1 DEF Reach
  <2>2. CASE Owner[s] # Host
    <3>1. Owner[s] # q /\ Owner[s] \in Peers
      BY <1>1, <1>11, <2>2, OwnerAssumption DEF OneSlot
    <3>2. contig'[Host][Owner[s]] = contig[Host][Owner[s]]
      BY <1>2, <3>1, HostInputTypes
    <3> QED BY <2>2, <3>2 DEF Reach
  <2> QED BY <2>1, <2>2
<1>12. \A s \in Slots : Reach(t, contig[Host], s) \in Nat
  BY HostInputTypes, FrameFacts
<1>13. \A s \in Slots : Reach(t, contig[Host], s) <= Reach(u, contig'[Host], s)
  <2> SUFFICES ASSUME NEW s \in Slots
               PROVE  Reach(t, contig[Host], s) <= Reach(u, contig'[Host], s)
    OBVIOUS
  <2>1. CASE s = e.slot
    <3> HIDE DEF k, u, t
    <3> QED BY <1>4, <1>5, <1>8, <1>9, <1>10, <2>1
  <2>2. CASE s # e.slot
    <3> HIDE DEF u, t
    <3> QED BY <1>11, <1>12, <2>2
  <2> QED BY <2>1, <2>2
<1>14. Filled(u, contig'[Host])
  <2> SUFFICES ASSUME NEW s \in Slots, NEW g \in 0..Reach(u, contig'[Host], s)
               PROVE  u[s][g] # None
    BY DEF Filled
  <2>1. CASE s = e.slot
    <3>1. g \in 0..m
      BY <1>10, <2>1
    <3>2. g \in Frame
      BY <1>8, <3>1, FrameFacts
    <3>3. g <= n \/ g \in (n + 1)..m
      BY <1>5, <1>9, <3>1
    <3>4. e.slot \in SlotsOf(q)
      BY <1>1 DEF SlotsOf
    <3> HIDE DEF u, q
    <3> QED BY <1>7, <1>8, <2>1, <3>2, <3>3, <3>4
  <2>2. CASE s # e.slot
    <3>1. g \in 0..Reach(t, contig[Host], s) /\ u[s] = t[s]
      BY <1>3, <1>11, <2>2
    <3> QED BY <3>1 DEF Contiguous, Filled
  <2> QED BY <2>1, <2>2
<1>15. Within(u, contig'[Host], conf[Host])
  <2> SUFFICES ASSUME NEW s \in Slots PROVE conf[Host] <= Reach(u, contig'[Host], s)
    BY DEF Within
  <2>1. conf[Host] <= Reach(t, contig[Host], s) /\ conf[Host] \in Nat
    BY NumberTypes, PeersFacts DEF Contiguous, Within
  <2>2. Reach(u, contig'[Host], s) \in Nat
    <3> HIDE DEF u, t
    <3>1. CASE s = e.slot
      BY <1>9, <1>10, <3>1
    <3>2. CASE s # e.slot
      BY <1>11, <1>12, <3>2
    <3> QED BY <3>1, <3>2
  <2> HIDE DEF u, t
  <2> QED BY <1>12, <1>13, <2>1, <2>2
<1> QED BY <1>2, <1>11, <1>13, <1>14, <1>15

\* What a step of HandleInput does at the host, and at a client.
LEMMA HandleInputCases ==
    ASSUME TypeInv, NEW p \in Peers, HandleInput(p)
    PROVE  \E e \in inbox[p] :
             /\ e \in Entry /\ Owner[e.slot] \in Peers
             /\ \A o \in inbox[p] : e.frame <= o.frame
             /\ inbox' = [inbox EXCEPT ![p] = @ \ {e}]
             /\ \/ /\ \/ Ignored(p, Owner[e.slot], e)
                      \/ /\ ~LateCommitted(p, Owner[e.slot], e)
                         /\ NonSequentialFrame(p, Owner[e.slot], e)
                   /\ UNCHANGED <<tl, contig, rseq, store, back, lastPub, conf, dn, cf>>
                \/ /\ ~Ignored(p, Owner[e.slot], e) /\ LateCommitted(p, Owner[e.slot], e)
                   /\ rseq' = [rseq EXCEPT ![p][Owner[e.slot]] = MaxOf(@, e.seq)]
                   /\ UNCHANGED <<tl, contig, store, back, lastPub, conf, dn, cf>>
                \/ /\ ~Ignored(p, Owner[e.slot], e) /\ ~LateCommitted(p, Owner[e.slot], e)
                   /\ ~NonSequentialFrame(p, Owner[e.slot], e)
                   /\ Accept(p, Owner[e.slot], e)
                   /\ p = Host =>
                        /\ dn' = [c \in Clients |-> IF c = Owner[e.slot] THEN dn[c]
                                                    ELSE Send(dn[c], {e})]
                        /\ publishConfirmedFramesIfReady(tl'[Host], contig'[Host])
                   /\ p # Host => UNCHANGED <<store, back, lastPub, conf, dn, cf>>
<1>1. PICK e \in inbox[p] :
          LET q == Owner[e.slot]
          IN  /\ \A o \in inbox[p] : e.frame <= o.frame
              /\ inbox' = [inbox EXCEPT ![p] = @ \ {e}]
              /\ \/ /\ \/ Ignored(p, q, e)
                       \/ ~LateCommitted(p, q, e) /\ NonSequentialFrame(p, q, e)
                    /\ UNCHANGED <<tl, contig, rseq, rebase, confirmVars, conf,
                                   dn, cf>>
                 \/ /\ ~Ignored(p, q, e) /\ LateCommitted(p, q, e)
                    /\ rseq' = [rseq EXCEPT ![p][q] = MaxOf(@, e.seq)]
                    /\ rebase' = [rebase EXCEPT ![p][q] = FALSE]
                    /\ UNCHANGED <<tl, contig, confirmVars, conf, dn, cf>>
                 \/ /\ ~Ignored(p, q, e) /\ ~LateCommitted(p, q, e)
                    /\ ~NonSequentialFrame(p, q, e)
                    /\ Accept(p, q, e)
                    /\ IF p = Host
                       THEN /\ dn' = [c \in Clients |->
                                   IF c = q THEN dn[c] ELSE Send(dn[c], {e})]
                            /\ publishConfirmedFramesIfReady(tl'[Host], contig'[Host])
                       ELSE UNCHANGED <<dn, confirmVars, conf, cf>>
  BY DEF HandleInput
<1>2. e \in Entry
  BY <1>1 DEF TypeInv, TypeOK
<1>3. Owner[e.slot] \in Peers
  BY <1>2, OwnerAssumption DEF Entry
<1> QED BY <1>1, <1>2, <1>3 DEF confirmVars

LEMMA NextContiguous ==
    ASSUME OneSlot, TypeInv, TypeInv', Provenance, Contiguous, [Next]_vars
    PROVE  Contiguous'
<1>1. ASSUME tl'[Host] = tl[Host], contig'[Host] = contig[Host], conf'[Host] = conf[Host]
      PROVE  Contiguous'
  BY <1>1 DEF Contiguous
<1>2. ASSUME NEW p \in Peers, Produce(p) PROVE Contiguous'
  <2>1. PICK s \in SlotsOf(p), f \in Frame : recordLocalInputFrame(p, s, f)
    BY <1>2, ProduceOwnSlot
  <2>2. contig' = contig
    BY <1>2 DEF Produce
  <2>3. CASE tl[p][s][f] = None /\ MayRecord(p, s, f) /\ p = Host
    <3>1. /\ tl' = [tl EXCEPT ![Host][s][f] = f]
          /\ publishConfirmedFramesIfReady(tl'[Host], contig[Host])
      BY <2>1, <2>3 DEF recordLocalInputFrame
    <3>2. /\ Filled(tl'[Host], contig'[Host])
          /\ Within(tl'[Host], contig'[Host], conf[Host])
      BY <2>2, <2>3, <3>1, HostRecords
    <3>3. tl'[Host] \in Timelines /\ contig[Host] \in [Peers -> Frame]
      BY PeersFacts, HostInputTypes DEF TypeInv, TypeOK, BaselineHeld, Timelines
    <3>4. Within(tl'[Host], contig'[Host], conf'[Host])
      BY <2>2, <3>1, <3>2, <3>3, PublishWithin
    <3> QED BY <3>2, <3>4 DEF Contiguous
  <2>4. CASE ~(tl[p][s][f] = None /\ MayRecord(p, s, f) /\ p = Host)
    <3>1. (tl' = tl \/ (p # Host /\ tl' = [tl EXCEPT ![p][s][f] = f])) /\ conf' = conf
      BY <2>1, <2>4 DEF recordLocalInputFrame
    <3>2. tl'[Host] = tl[Host]
      BY <3>1, PeersFacts DEF TypeInv, TypeOK
    <3> QED BY <1>1, <2>2, <3>1, <3>2
  <2> QED BY <2>3, <2>4
<1>3. ASSUME NEW p \in Peers, HandleInput(p) PROVE Contiguous'
  <2>1. PICK e \in inbox[p] :
             /\ e \in Entry
             /\ \/ UNCHANGED <<tl, contig, conf>>
                \/ /\ Accept(p, Owner[e.slot], e)
                   /\ p = Host => publishConfirmedFramesIfReady(tl'[Host], contig'[Host])
                   /\ p # Host => UNCHANGED conf
    BY <1>3, HandleInputCases
  <2>2. CASE UNCHANGED <<tl, contig, conf>>
    BY <1>1, <2>2
  <2>3. CASE Accept(p, Owner[e.slot], e) /\ p # Host
    <3>1. tl'[Host] = tl[Host] /\ contig'[Host] = contig[Host]
      BY <2>3, PeersFacts DEF Accept, TypeInv, TypeOK
    <3> QED BY <1>1, <2>1, <2>3, <3>1
  <2>4. CASE Accept(Host, Owner[e.slot], e) /\ p = Host
    <3>1. Owner[e.slot] # Host
      BY <2>1, <2>4 DEF Provenance
    <3>2. /\ Filled(tl'[Host], contig'[Host])
          /\ Within(tl'[Host], contig'[Host], conf[Host])
      BY <2>1, <2>4, <3>1, HostAccepts
    <3>3. tl'[Host] \in Timelines /\ contig'[Host] \in [Peers -> Frame]
      BY PeersFacts DEF TypeInv, TypeOK, BaselineHeld, Timelines
    <3>4. Within(tl'[Host], contig'[Host], conf'[Host])
      BY <2>1, <2>4, <3>2, <3>3, PublishWithin
    <3> QED BY <3>2, <3>4 DEF Contiguous
  <2> QED BY <2>1, <2>2, <2>3, <2>4
<1>4. CASE HostUpdate
  <2> DEFINE n == PublishableThrough(tl[Host], contig[Host])
             h == computeHostInputConfirmedFrame(tl[Host], contig[Host])
  <2>1. conf' = [conf EXCEPT ![Host] =
                    MaxOf(MaxOf(conf[Host], IF n > lastPub THEN n ELSE 0), h)]
    BY <1>4 DEF HostUpdate
  <2>2. UNCHANGED <<tl, contig>>
    BY <1>4 DEF HostUpdate, inputVars
  <2>3. ASSUME NEW s \in Slots PROVE conf'[Host] <= Reach(tl[Host], contig[Host], s)
    <3>1. n > lastPub => n <= Reach(tl[Host], contig[Host], s)
      BY HostInputTypes, PublishableWithinReach
    <3>2. h <= Reach(tl[Host], contig[Host], s)
      BY HostInputTypes, ConfirmedIsLeastReach
    <3>3. conf[Host] <= Reach(tl[Host], contig[Host], s)
      BY DEF Contiguous, Within
    <3>4. Reach(tl[Host], contig[Host], s) \in Nat
      BY HostInputTypes, FrameFacts
    <3> HIDE DEF n, h
    <3>5. conf'[Host] = MaxOf(MaxOf(conf[Host], IF n > lastPub THEN n ELSE 0), h)
      BY <2>1, PeersFacts DEF TypeInv, TypeOK
    <3> QED BY <3>1, <3>2, <3>3, <3>4, <3>5 DEF MaxOf
  <2> QED BY <2>2, <2>3 DEF Contiguous, Within
<1>5. ASSUME NEW p \in Peers, PeerStep(p) PROVE Contiguous'
  BY <1>1, <1>2, <1>3, <1>5
  DEF PeerStep, ProduceObserver, RunFrame, QueueAhead, NoticeState, inputVars, roomVars
<1>6. ASSUME NEW c \in Clients, ClientStep(c) PROVE Contiguous'
  <2>1. CASE DeliverToHost(c) \/ DeliverToClient(c)
    BY <1>1, <2>1 DEF DeliverToHost, DeliverToClient, inputVars, roomVars
  <2>2. CASE ReceiveConfirmed(c)
    <3>1. tl'[Host] = tl[Host] /\ conf'[Host] = conf[Host] /\ contig' = contig
      BY <2>2, PeersFacts DEF ReceiveConfirmed, TypeInv, TypeOK
    <3> QED BY <1>1, <3>1
  <2>3. CASE ReceiveStatus(c)
    <3>1. conf'[Host] = conf[Host] /\ UNCHANGED <<tl, contig>>
      BY <2>3, PeersFacts DEF ReceiveStatus, TypeInv, TypeOK, inputVars
    <3> QED BY <1>1, <3>1
  <2>4. CASE ReceiveSession(c)
    <3>1. conf' = conf \/ conf' = [conf EXCEPT ![c] = 0]
      BY <2>4 DEF ReceiveSession
    <3>2. conf'[Host] = conf[Host]
      BY <3>1, PeersFacts DEF TypeInv, TypeOK
    <3>3. UNCHANGED <<tl, contig>>
      BY <2>4 DEF ReceiveSession, inputVars
    <3> QED BY <1>1, <3>2, <3>3
  <2> QED BY <1>6, <2>1, <2>2, <2>3, <2>4 DEF ClientStep
<1>7. CASE pauseSession \/ resumeSession \/ UNCHANGED vars
  BY <1>1, <1>7 DEF pauseSession, resumeSession, vars, inputVars, roomVars
<1> QED BY <1>4, <1>5, <1>6, <1>7 DEF Next

\* computeHostInputConfirmedFrame counts contiguous inputs only: when every
\* client plays at most one slot, every frame through it has an input of every
\* slot, whatever the redundancy, the losses, the gaps filled and the pauses.
THEOREM HostInputsAlwaysContiguous ==
    ASSUME OneSlot
    PROVE  Spec => []HostInputsContiguous
<1> DEFINE Inv == IInv /\ Provenance /\ Contiguous
<1>1. Init => Inv
  BY InitIInv, InitProvenance, InitContiguous
<1>2. Inv /\ [Next]_vars => Inv'
  <2> SUFFICES ASSUME Inv, [Next]_vars PROVE Inv'
    OBVIOUS
  <2>1. IInv' /\ TypeInv /\ TypeInv'
    BY NextIInv DEF IInv
  <2>2. Provenance' /\ Contiguous'
    BY <2>1, NextProvenance, NextContiguous
  <2> QED BY <2>1, <2>2
<1>3. Inv => HostInputsContiguous
  <2> SUFFICES ASSUME Inv,
                      NEW f \in 0..computeHostInputConfirmedFrame(tl[Host], contig[Host]),
                      NEW s \in Slots
               PROVE  tl[Host][s][f] # None
    BY DEF HostInputsContiguous, Assemblable
  <2> DEFINE h == computeHostInputConfirmedFrame(tl[Host], contig[Host])
             r == Reach(tl[Host], contig[Host], s)
  <2>1. TypeInv
    BY DEF IInv
  <2>2. h <= r /\ h \in Frame /\ r \in Frame
    BY <2>1, HostInputTypes, ConfirmedIsLeastReach, HostConfirmedType
  <2>3. h \in Nat /\ r \in Nat
    BY <2>2, FrameFacts
  <2>4. f \in 0..r
    <3>1. f \in 0..h
      OBVIOUS
    <3> HIDE DEF h, r
    <3> QED BY <2>2, <2>3, <3>1
  <2> QED BY <2>4 DEF Contiguous, Filled
<1> HIDE DEF Inv
<1> QED BY <1>1, <1>2, <1>3, PTL DEF Spec

-----------------------------------------------------------------------------
\* Within the redundancy.  A client's recordings, the packets that carry them
\* and the host's copy advance together: frame, sequence and value of every
\* entry coincide, and every packet under way reaches back to the frame after
\* the host's contiguous one.  A client records at most P frames past the one
\* it emulates, and that one is at most two past the last frame the host has
\* an input of the client for, so R >= P + 2 entries leave no gap.
Covered == P + 2 <= R

\* The slots played by clients.
Remote == {s \in Slots : Owner[s] # Host}

\* A packet of slot s, or what is left of it in the host's inbox.
Packet(s) ==
    {pkt \in SUBSET Entry :
        /\ \A e \in pkt : /\ e.slot = s /\ e.seq = e.frame /\ e.val = e.frame
                          /\ e.frame <= localSeq[Owner[s]]
        /\ \A e \in pkt : e.frame > contig[Host][Owner[s]] + 1 =>
                             \E d \in pkt : d.frame = e.frame - 1}

\* The client's side of slot s: recorded without gap, one sequence number per
\* frame.
OwnInputs(s) ==
    LET c == Owner[s]
    IN  /\ todo[c] = {}
        /\ localSeq[c] \in Frame
        /\ \A f \in Frame : /\ tl[c][s][f] # None <=> f <= localSeq[c]
                            /\ f <= localSeq[c] => sq[s][f] = f
        /\ up[c] \in Seq(Packet(s))

\* The host's side: it has exactly the frames through the contiguous one, and
\* neither emulates nor queues a frame behind them.
HostInputs(s) ==
    LET c == Owner[s]
    IN  /\ \A f \in Frame : tl[Host][s][f] # None <=> f <= contig[Host][c]
        /\ rseq[Host][c] = contig[Host][c]
        /\ contig[Host][c] <= localSeq[c]
        /\ sim[Host] <= contig[Host][c] + 1
        /\ \A f \in Frame : queued[Host][f] # Absent => f <= contig[Host][c]

SlotInv(s) == OwnInputs(s) /\ HostInputs(s)

Transit ==
    /\ \A s \in Remote : SlotInv(s)
    /\ inbox[Host] # {} => \E s \in Remote : inbox[Host] \in Packet(s)

\* What every peer holds, has queued and has emulated of a frame is what was
\* pressed for it.  Clients hear of their own slot from nobody else.
Pressed(f) == [s \in Slots |-> f]
Relayed(c) == {e \in Entry : Owner[e.slot] # c /\ e.val = e.frame}

Named(t) == \A s \in Slots, f \in Frame : t[s][f] \in {None, f}
ExactHeld == \A p \in Peers : Named(tl[p])
ExactStored ==
    \A f \in Frame : store[Host][f] # Absent =>
                        f <= lastPub /\ store[Host][f] = Pressed(f)
ExactPlayed ==
    \A p \in Peers, f \in Frame : /\ queued[p][f] \in {Absent, Pressed(f)}
                                  /\ played[p][f] \in {Absent, Pressed(f)}
ExactSent ==
    \A c \in Clients : dn[c] \in Seq(SUBSET Relayed(c)) /\ inbox[c] \subseteq Relayed(c)

Exact == ExactHeld /\ ExactStored /\ ExactPlayed /\ ExactSent

LEMMA RemoteFacts ==
    ASSUME NEW s \in Remote
    PROVE  /\ s \in Slots
           /\ Owner[s] \in Clients /\ Owner[s] \in Peers /\ Owner[s] # Host
           /\ s \in SlotsOf(Owner[s])
BY OwnerAssumption DEF Remote, Peers, SlotsOf

LEMMA RemoteTypes ==
    ASSUME TypeInv, NEW s \in Remote
    PROVE  /\ contig[Host][Owner[s]] \in Frame /\ contig[Host][Owner[s]] \in Nat
           /\ localSeq[Owner[s]] \in Nat /\ rseq[Host][Owner[s]] \in Nat
           /\ Reach(tl[Host], contig[Host], s) = contig[Host][Owner[s]]
<1>0. Owner[s] \in Peers /\ Host \in Peers
  BY RemoteFacts, PeersFacts
<1>1. contig[Host][Owner[s]] \in Frame /\ localSeq[Owner[s]] \in Nat
      /\ rseq[Host][Owner[s]] \in Nat
  BY <1>0 DEF TypeInv, TypeOK
<1>2. Reach(tl[Host], contig[Host], s) = contig[Host][Owner[s]]
  BY RemoteFacts DEF Reach
<1> QED BY <1>1, <1>2, FrameFacts

LEMMA InitTransit == Init => Transit
<1> SUFFICES ASSUME Init PROVE Transit
  OBVIOUS
<1>1. ASSUME NEW s \in Remote PROVE SlotInv(s)
  <2> DEFINE c == Owner[s]
  <2>1. c \in Clients /\ c \in Peers /\ s \in Slots /\ Host \in Peers
    BY RemoteFacts, PeersFacts
  <2>2. /\ todo[c] = {} /\ localSeq[c] = 0
        /\ \A f \in Frame : /\ tl[c][s][f] = IF f = 0 THEN 0 ELSE None
                            /\ tl[Host][s][f] = IF f = 0 THEN 0 ELSE None
                            /\ sq[s][f] = 0 /\ queued[Host][f] = Absent
        /\ up[c] = << >> /\ contig[Host][c] = 0 /\ rseq[Host][c] = 0 /\ sim[Host] = 0
    BY <2>1 DEF Init
  <2>3. /\ 0 # None /\ 0 \in Frame
        /\ \A f \in Frame : f <= 0 <=> f = 0
    BY FrameFacts
  <2> HIDE DEF c
  <2>4. up[c] \in Seq(Packet(s))
    BY <2>2
  <2>5. OwnInputs(s)
    BY <2>2, <2>3, <2>4 DEF OwnInputs, c
  <2>6. HostInputs(s)
    BY <2>2, <2>3 DEF HostInputs, c
  <2> QED BY <2>5, <2>6 DEF SlotInv
<1>2. inbox[Host] = {}
  BY PeersFacts DEF Init
<1> QED BY <1>1, <1>2 DEF Transit

LEMMA PressedFacts == \A f \in Frame : Pressed(f) # Absent
<1> SUFFICES ASSUME NEW f \in Frame, Pressed(f) = Absent PROVE FALSE
  OBVIOUS
<1>1. PICK s \in Slots : TRUE
  BY SlotsAssumption
<1>2. Pressed(f)[s] = f /\ Absent[s] = None
  BY DEF Pressed, Absent
<1> QED BY <1>2, FrameFacts

LEMMA InitExact == Init => Exact
<1> SUFFICES ASSUME Init PROVE Exact
  OBVIOUS
<1>1. \A p \in Peers, s \in Slots, f \in Frame : tl[p][s][f] \in {None, f}
  BY DEF Init
<1>2. \A f \in Frame : store[Host][f] # Absent =>
                          f <= lastPub /\ store[Host][f] = Pressed(f)
  BY PeersFacts, FrameFacts DEF Init, Pressed
<1>3. \A p \in Peers, f \in Frame : /\ queued[p][f] \in {Absent, Pressed(f)}
                                    /\ played[p][f] \in {Absent, Pressed(f)}
  BY DEF Init
<1>4. \A c \in Clients : dn[c] \in Seq(SUBSET Relayed(c)) /\ inbox[c] \subseteq Relayed(c)
  BY PeersFacts DEF Init
<1> QED BY <1>1, <1>2, <1>3, <1>4
    DEF Exact, ExactHeld, ExactStored, ExactPlayed, ExactSent, Named

\* A packet stays within reach of the host while recordings and contiguous
\* frame advance.
LEMMA PacketGrows ==
    ASSUME TypeInv, TypeInv', NEW s \in Remote,
           localSeq[Owner[s]] <= localSeq'[Owner[s]],
           contig[Host][Owner[s]] <= contig'[Host][Owner[s]]
    PROVE  Packet(s) \subseteq Packet(s)'
<1> DEFINE c == Owner[s]
<1>1. /\ contig[Host][c] \in Nat /\ localSeq[c] \in Nat
      /\ contig'[Host][c] \in Nat /\ localSeq'[c] \in Nat
  <2>0. c \in Peers /\ Host \in Peers
    BY RemoteFacts, PeersFacts
  <2>1. contig'[Host][c] \in Frame /\ localSeq'[c] \in Nat
    BY <2>0 DEF TypeInv, TypeOK
  <2> QED BY <2>1, RemoteTypes, FrameFacts
<1> SUFFICES ASSUME NEW pkt \in Packet(s) PROVE pkt \in Packet(s)'
  OBVIOUS
<1>2. pkt \in SUBSET Entry /\ \A e \in pkt : e.frame \in Nat
  BY FrameFacts DEF Packet, Entry
<1>3. ASSUME NEW e \in pkt
      PROVE  /\ e.slot = s /\ e.seq = e.frame /\ e.val = e.frame
             /\ e.frame <= localSeq'[c]
             /\ e.frame > contig'[Host][c] + 1 => \E d \in pkt : d.frame = e.frame - 1
  <2>1. /\ e.slot = s /\ e.seq = e.frame /\ e.val = e.frame
        /\ e.frame <= localSeq[c]
        /\ e.frame > contig[Host][c] + 1 => \E d \in pkt : d.frame = e.frame - 1
    BY DEF Packet
  <2>2. e.frame <= localSeq'[c]
    BY <1>1, <1>2, <2>1
  <2>3. e.frame > contig'[Host][c] + 1 => e.frame > contig[Host][c] + 1
    BY <1>1, <1>2
  <2> QED BY <2>1, <2>2, <2>3
<1> QED BY <1>2, <1>3 DEF Packet

\* What a step must leave alone for slot s to keep its invariant.
Untouched(s) ==
    /\ todo'[Owner[s]] = todo[Owner[s]]
    /\ tl'[Owner[s]][s] = tl[Owner[s]][s]
    /\ tl'[Host][s] = tl[Host][s]
    /\ sq'[s] = sq[s]
    /\ localSeq'[Owner[s]] = localSeq[Owner[s]]
    /\ contig'[Host][Owner[s]] = contig[Host][Owner[s]]
    /\ rseq'[Host][Owner[s]] = rseq[Host][Owner[s]]

LEMMA UntouchedSlot ==
    ASSUME TypeInv, TypeInv', NEW s \in Remote, SlotInv(s), Untouched(s),
           up'[Owner[s]] = up[Owner[s]] \/ up'[Owner[s]] \in Seq(Packet(s)),
           sim'[Host] = sim[Host], queued'[Host] = queued[Host]
    PROVE  SlotInv(s)' /\ Packet(s)' = Packet(s)
<1>1. Packet(s)' = Packet(s)
  BY DEF Packet, Untouched
<1>2. OwnInputs(s)'
  BY <1>1 DEF SlotInv, OwnInputs, Untouched
<1>3. HostInputs(s)'
  BY DEF SlotInv, HostInputs, Untouched
<1> QED BY <1>1, <1>2, <1>3 DEF SlotInv

\* A client records the next frame of its slot, never skips one, and its
\* packet reaches back to what the host is missing.
LEMMA ClientRecords ==
    ASSUME OneSlot, Covered, IInv, TypeInv', Contiguous, Exact,
           NEW s \in Remote, SlotInv(s), NEW f \in Frame, f <= sim[Owner[s]] + P,
           tl[Owner[s]][s][f] = None, MayRecord(Owner[s], s, f),
           tl' = [tl EXCEPT ![Owner[s]][s][f] = f],
           sq' = [sq EXCEPT ![s][f] = localSeq[Owner[s]] + 1],
           localSeq' = [localSeq EXCEPT ![Owner[s]] = @ + 1],
           up' = [up EXCEPT ![Owner[s]] = Send(@, PacketFor(Owner[s], s, f))],
           todo'[Owner[s]] = {},
           UNCHANGED <<contig, rseq, sim, queued>>
    PROVE  SlotInv(s)' /\ Packet(s) \subseteq Packet(s)'
<1> DEFINE c == Owner[s]
           l == localSeq[c]
           k == contig[Host][c]
<1>1. /\ c \in Clients /\ c \in Peers /\ c # Host /\ Host \in Peers /\ s \in Slots
      /\ TypeInv /\ Followed
  BY RemoteFacts, PeersFacts DEF IInv
<1>2. /\ l \in Frame /\ l \in Nat /\ f \in Nat /\ k \in Nat /\ k \in Frame
      /\ conf[c] \in Nat /\ conf[Host] \in Nat /\ sim[c] \in Nat /\ sim[Host] \in Nat
      /\ P \in Nat /\ R \in Nat /\ Frame \subseteq Nat
  BY <1>1, RemoteTypes, NumberTypes, FrameFacts, DelayAssumption DEF SlotInv, OwnInputs
<1>3. /\ conf[c] <= conf[Host] /\ conf[Host] <= k /\ k <= l
      /\ sim[Host] <= k + 1
      /\ sim[c] <= MaxOf(sim[Host], conf[Host]) + 1
  <2>1. conf[c] <= conf[Host] /\ sim[c] <= MaxOf(sim[Host], conf[Host]) + 1
    BY <1>1 DEF Followed, ClientsFollowHost
  <2>2. conf[Host] <= k
    BY <1>1, RemoteTypes DEF Contiguous, Within
  <2>3. k <= l /\ sim[Host] <= k + 1
    BY DEF SlotInv, HostInputs
  <2> QED BY <2>1, <2>2, <2>3
<1>4. \A g \in Frame : (tl[c][s][g] # None <=> g <= l) /\ (g <= l => sq[s][g] = g)
  BY DEF SlotInv, OwnInputs
<1>5. LatestFor(tl[c], s) = l
  <2>1. tl[c] \in Timelines
    BY <1>1, TimelinesOfPeers
  <2>2. /\ LatestFor(tl[c], s) \in Frame /\ tl[c][s][LatestFor(tl[c], s)] # None
        /\ \A g \in Frame : tl[c][s][g] # None => g <= LatestFor(tl[c], s)
    BY <1>1, <2>1, LatestForFacts
  <2>3. l <= LatestFor(tl[c], s) /\ LatestFor(tl[c], s) <= l
    <3> HIDE DEF l, c
    <3> QED BY <1>2, <1>4, <2>2
  <2>4. LatestFor(tl[c], s) \in Nat
    BY <1>2, <2>2
  <2> HIDE DEF l, c
  <2> QED BY <1>2, <2>3, <2>4
<1>6. f = l + 1
  <2>1. f = l + 1 \/ (f > l + 1 /\ conf[c] >= f - 1)
    BY <1>5 DEF MayRecord
  <2> HIDE DEF l, c, k
  <2> QED BY <1>2, <1>3, <2>1
<1>7. f <= k + R
  <2>1. f <= sim[c] + P /\ P + 2 <= R
    BY DEF Covered
  <2> HIDE DEF l, c, k
  <2> QED BY <1>2, <1>3, <2>1 DEF MaxOf
<1>8. /\ \A g \in Frame : tl'[c][s][g] = IF g = f THEN f ELSE tl[c][s][g]
      /\ \A g \in Frame : sq'[s][g] = IF g = f THEN l + 1 ELSE sq[s][g]
      /\ localSeq'[c] = l + 1
      /\ tl'[Host] = tl[Host]
      /\ up'[c] = Send(up[c], PacketFor(c, s, f))
  <2>1. /\ tl \in [Peers -> [Slots -> [Frame -> Frame \cup {None}]]]
        /\ sq \in [Slots -> [Frame -> Nat]] /\ localSeq \in [Peers -> Nat]
        /\ up \in [Clients -> Seq(SUBSET Entry)]
    BY <1>1 DEF TypeInv, TypeOK
  <2>2. \A g \in Frame : tl'[c][s][g] = IF g = f THEN f ELSE tl[c][s][g]
    BY <1>1, <2>1
  <2>3. \A g \in Frame : sq'[s][g] = IF g = f THEN l + 1 ELSE sq[s][g]
    BY <1>1, <2>1
  <2>4. localSeq'[c] = l + 1 /\ tl'[Host] = tl[Host]
    BY <1>1, <2>1
  <2>5. up'[c] = Send(up[c], PacketFor(c, s, f))
    BY <1>1, <2>1
  <2> QED BY <2>2, <2>3, <2>4, <2>5
<1>9. \A g \in Frame : (tl'[c][s][g] # None <=> g <= f) /\ (g <= f => sq'[s][g] = g)
  <2>1. f # None
    BY FrameFacts
  <2> SUFFICES ASSUME NEW g \in Frame
               PROVE  (tl'[c][s][g] # None <=> g <= f) /\ (g <= f => sq'[s][g] = g)
    OBVIOUS
  <2>2. g \in Nat
    BY <1>2
  <2> HIDE DEF l, c, k
  <2>3. CASE g = f
    BY <1>2, <1>6, <1>8, <2>1, <2>3
  <2>4. CASE g # f
    <3>1. tl'[c][s][g] = tl[c][s][g] /\ sq'[s][g] = sq[s][g]
      BY <1>8, <2>4
    <3>2. g <= f <=> g <= l
      BY <1>2, <1>6, <2>2, <2>4
    <3> QED BY <1>4, <3>1, <3>2
  <2> QED BY <2>3, <2>4
<1>10. localSeq'[c] = f
  BY <1>6, <1>8
<1>11. PacketFor(c, s, f) \in Packet(s)'
  <2>1. PacketFor(c, s, f) \in SUBSET Entry
    <3>1. (tl \in [Peers -> Timelines])' /\ (sq \in [Slots -> [Frame -> Nat]])'
      BY DEF TypeInv, TypeOK, BaselineHeld, Timelines
    <3> QED BY <1>1, <3>1, PacketType
  <2>2. ASSUME NEW e \in PacketFor(c, s, f)
        PROVE  /\ e.slot = s /\ e.seq = e.frame /\ e.val = e.frame
               /\ e.frame <= f
               /\ e.frame > k + 1 => \E d \in PacketFor(c, s, f) : d.frame = e.frame - 1
    <3>1. PICK g \in Window(c, s, f) :
             e = [slot |-> s, frame |-> g, seq |-> sq'[s][g], val |-> tl'[c][s][g]]
      BY DEF PacketFor
    <3>2. g \in Frame /\ g <= f /\ f < g + R /\ tl'[c][s][g] # None
      BY DEF Window
    <3>3. sq'[s][g] = g
      BY <1>9, <3>2
    <3>4. tl'[c][s][g] = g
      <4>1. tl[c][s][g] \in {None, g}
        BY <1>1, <3>2 DEF Exact, ExactHeld, Named
      <4> HIDE DEF c
      <4> QED BY <1>8, <3>2, <4>1
    <3>5. e.slot = s /\ e.seq = e.frame /\ e.val = e.frame /\ e.frame = g
      BY <3>1, <3>3, <3>4
    <3>6. ASSUME g > k + 1 PROVE \E d \in PacketFor(c, s, f) : d.frame = g - 1
      <4>1. g - 1 \in Nat /\ g - 1 <= g /\ g - 1 <= f /\ f < (g - 1) + R
        <5>1. g \in Nat
          BY <1>2, <3>2
        <5> HIDE DEF k, l, c
        <5> QED BY <1>2, <1>7, <3>2, <3>6, <5>1
      <4>2. g - 1 \in Frame
        BY <3>2, <4>1, FrameFacts
      <4>3. tl'[c][s][g - 1] # None
        BY <1>9, <4>1, <4>2
      <4>4. g - 1 \in Window(c, s, f)
        BY <4>1, <4>2, <4>3 DEF Window
      <4> DEFINE d == [slot |-> s, frame |-> g - 1, seq |-> sq'[s][g - 1],
                       val |-> tl'[c][s][g - 1]]
      <4>5. d \in PacketFor(c, s, f)
        BY <4>4 DEF PacketFor
      <4>6. d.frame = g - 1
        OBVIOUS
      <4> HIDE DEF d
      <4> QED BY <4>5, <4>6
    <3> QED BY <3>2, <3>5, <3>6
  <2>3. contig' = contig
    OBVIOUS
  <2> QED BY <1>10, <2>1, <2>2, <2>3 DEF Packet
<1>12. Packet(s) \subseteq Packet(s)'
  <2>1. localSeq[c] <= localSeq'[c] /\ contig[Host][c] <= contig'[Host][c]
    <3>1. l <= l + 1 /\ k <= k
      BY <1>2
    <3> QED BY <1>8, <3>1
  <2> QED BY <1>1, <2>1, PacketGrows
<1>13. up'[c] \in Seq(Packet(s)')
  <2>1. up[c] \in Seq(Packet(s))
    BY DEF SlotInv, OwnInputs
  <2>2. up[c] \in Seq(Packet(s)')
    BY <1>12, <2>1, SeqMonotonic
  <2> QED BY <1>8, <1>11, <2>2, ChannelTypes
<1>14. OwnInputs(s)'
  <2>1. todo'[c] = {} /\ localSeq'[c] \in Frame
    BY <1>10
  <2> QED BY <1>9, <1>10, <1>13, <2>1 DEF OwnInputs
<1>15. HostInputs(s)'
  <2>1. contig'[Host][c] <= localSeq'[c]
    <3>1. k <= l + 1
      <4> HIDE DEF k, l
      <4> QED BY <1>2, <1>3
    <3> QED BY <1>8, <3>1
  <2> QED BY <1>8, <2>1 DEF SlotInv, HostInputs
<1> QED BY <1>12, <1>14, <1>15 DEF SlotInv

\* The host takes the entries of a packet one frame after the other: what it
\* has already is ignored, the next frame is accepted as it was sent, and no
\* gap is ever filled.
LEMMA HostHandlesNext ==
    ASSUME OneSlot, TypeInv, Exact, Transit, HandleInput(Host)
    PROVE  \E s \in Remote, e \in inbox[Host] :
             /\ e \in Entry /\ e.slot = s /\ e.val = e.frame /\ inbox[Host] \in Packet(s)
             /\ inbox' = [inbox EXCEPT ![Host] = @ \ {e}]
             /\ \/ /\ e.frame <= contig[Host][Owner[s]]
                   /\ UNCHANGED <<tl, contig, rseq, store, back, lastPub, conf, dn, cf>>
                \/ /\ e.frame = contig[Host][Owner[s]] + 1
                   /\ Accept(Host, Owner[s], e)
                   /\ tl' = [tl EXCEPT ![Host][s][e.frame] = e.frame]
                   /\ contig' = [contig EXCEPT ![Host][Owner[s]] = e.frame]
                   /\ rseq' = [rseq EXCEPT ![Host][Owner[s]] = e.frame]
                   /\ dn' = [c \in Clients |-> IF c = Owner[s] THEN dn[c]
                                               ELSE Send(dn[c], {e})]
                   /\ publishConfirmedFramesIfReady(tl'[Host], contig'[Host])
<1>1. PICK e \in inbox[Host] :
             /\ e \in Entry
             /\ \A o \in inbox[Host] : e.frame <= o.frame
             /\ inbox' = [inbox EXCEPT ![Host] = @ \ {e}]
             /\ \/ /\ \/ Ignored(Host, Owner[e.slot], e)
                      \/ /\ ~LateCommitted(Host, Owner[e.slot], e)
                         /\ NonSequentialFrame(Host, Owner[e.slot], e)
                   /\ UNCHANGED <<tl, contig, rseq, store, back, lastPub, conf, dn, cf>>
                \/ ~Ignored(Host, Owner[e.slot], e) /\ LateCommitted(Host, Owner[e.slot], e)
                \/ /\ ~Ignored(Host, Owner[e.slot], e)
                   /\ Accept(Host, Owner[e.slot], e)
                   /\ dn' = [c \in Clients |-> IF c = Owner[e.slot] THEN dn[c]
                                               ELSE Send(dn[c], {e})]
                   /\ publishConfirmedFramesIfReady(tl'[Host], contig'[Host])
  BY HandleInputCases, PeersFacts
<1>2. PICK s \in Remote : inbox[Host] \in Packet(s)
  BY <1>1 DEF Transit
<1> DEFINE q == Owner[s]
           k == contig[Host][q]
           n == e.frame
<1>3. /\ e.slot = s /\ e.seq = n /\ e.val = n
      /\ n > k + 1 => \E d \in inbox[Host] : d.frame = n - 1
  BY <1>1, <1>2 DEF Packet
<1>4. /\ n \in Frame /\ n \in Nat /\ k \in Frame /\ k \in Nat /\ s \in Slots /\ q \in Peers
      /\ Host \in Peers /\ Frame \subseteq Nat /\ tl[Host] \in Timelines
  BY <1>1, RemoteTypes, RemoteFacts, FrameFacts, PeersFacts, HostInputTypes DEF Entry
<1>5. /\ rseq[Host][q] = k
      /\ \A f \in Frame : tl[Host][s][f] # None <=> f <= k
  BY DEF Transit, SlotInv, HostInputs
<1>6. n <= k + 1
  <2> SUFFICES ASSUME n > k + 1 PROVE FALSE
    BY <1>4
  <2>1. PICK d \in inbox[Host] : d.frame = n - 1
    BY <1>3
  <2>2. n <= n - 1
    BY <1>1, <2>1
  <2> HIDE DEF n
  <2> QED BY <1>4, <2>2
<1>7. ExpectedFrame(Host, q) = k + 1 /\ ExpectedSeq(Host, q) = k + 1
  BY <1>5 DEF ExpectedFrame, ExpectedSeq
<1>8. CASE n <= k
  <2>1. tl[Host][s][n] = n
    BY <1>4, <1>5, <1>8 DEF Exact, ExactHeld, Named
  <2>2. e.seq <= rseq[Host][q] /\ tl[Host][e.slot][e.frame] = e.val
    BY <1>3, <1>5, <1>8, <2>1
  <2>3. Ignored(Host, q, e)
    BY <2>2 DEF Ignored
  <2>4. Owner[e.slot] = q
    BY <1>3
  <2>5. UNCHANGED <<tl, contig, rseq, store, back, lastPub, conf, dn, cf>>
    BY <1>1, <2>3, <2>4
  <2> QED BY <1>1, <1>2, <1>3, <1>8, <2>5
<1>9. CASE n = k + 1
  <2>1. ~(e.seq <= rseq[Host][q]) /\ e.seq = ExpectedSeq(Host, q)
    <3>1. ~(k + 1 <= k)
      BY <1>4
    <3> QED BY <1>3, <1>5, <1>7, <1>9, <3>1
  <2>2. ~Rebased(Host, q, e)
    <3>1. ~(e.frame > ExpectedFrame(Host, q))
      <4>1. ~(k + 1 > k + 1)
        BY <1>4
      <4> QED BY <1>7, <1>9, <4>1
    <3> QED BY <2>1, <3>1 DEF Rebased, SequenceRebase, ForwardGap
  <2>3. ~Ignored(Host, q, e) /\ ~LateCommitted(Host, q, e) /\ ~NonSequentialFrame(Host, q, e)
    <3>1. ~(e.frame < ExpectedFrame(Host, q)) /\ e.frame = ExpectedFrame(Host, q)
      <4>1. ~(k + 1 < k + 1)
        BY <1>4
      <4> QED BY <1>7, <1>9, <4>1
    <3> QED BY <2>1, <3>1 DEF Ignored, LateCommitted, NonSequentialFrame
  <2>4. /\ Accept(Host, q, e)
        /\ dn' = [c \in Clients |-> IF c = q THEN dn[c] ELSE Send(dn[c], {e})]
        /\ publishConfirmedFramesIfReady(tl'[Host], contig'[Host])
    BY <1>1, <1>3, <2>3
  <2> DEFINE u == [tl[Host] EXCEPT ![s] = [f \in Frame |-> IF f = n THEN n ELSE tl[Host][s][f]]]
             m == AdvanceContiguous(u, q, k)
  <2>5. AcceptedTimeline(Host, q, e) = u
    BY <1>3, <2>2 DEF AcceptedTimeline
  <2>6. u \in Timelines
    <3>1. u \in [Slots -> [Frame -> Frame \cup {None}]]
      BY <1>4 DEF Timelines
    <3>2. ASSUME NEW o \in Slots PROVE u[o][0] # None
      BY <1>4, FrameFacts DEF Timelines
    <3> HIDE DEF u
    <3> QED BY <3>1, <3>2 DEF Timelines
  <2>7. \A f \in Frame : u[s][f] # None <=> f <= k + 1
    <3>1. \A f \in Frame : u[s][f] = IF f = n THEN n ELSE tl[Host][s][f]
      BY <1>4 DEF Timelines
    <3> SUFFICES ASSUME NEW f \in Frame PROVE u[s][f] # None <=> f <= k + 1
      OBVIOUS
    <3>2. f \in Nat /\ n # None
      BY <1>4, FrameFacts
    <3>3. CASE f = n
      <4>1. f <= k + 1
        BY <1>6, <3>3
      <4> HIDE DEF u, n
      <4> QED BY <3>1, <3>2, <3>3, <4>1
    <3>4. CASE f # n
      <4>1. u[s][f] = tl[Host][s][f]
        BY <3>1, <3>4
      <4>2. f <= k <=> f <= k + 1
        <5>1. f # k + 1
          BY <1>9, <3>4
        <5> HIDE DEF k, n, u
        <5> QED BY <1>4, <3>2, <5>1
      <4> HIDE DEF u, k, q, n
      <4> QED BY <1>5, <4>1, <4>2
    <3> QED BY <3>3, <3>4
  <2>8. SlotsOf(q) = {s}
    BY <1>4, RemoteFacts DEF OneSlot, SlotsOf
  <2>9. m = k + 1
    <3>1. /\ m \in Frame /\ k <= m
          /\ \A f \in (k + 1)..m : u[s][f] # None
          /\ \A j \in Frame : (k <= j /\ \A f \in (k + 1)..j : u[s][f] # None) => j <= m
      <4> HIDE DEF u
      <4> QED BY <1>4, <2>6, <2>8, AdvanceContiguousFacts
    <3>2. m \in Nat
      BY <1>4, <3>1
    <3>3. k + 1 \in Frame /\ k <= k + 1
      BY <1>4, <1>9
    <3>4. \A f \in (k + 1)..(k + 1) : u[s][f] # None
      <4>1. \A f \in (k + 1)..(k + 1) : f = k + 1 /\ f <= k + 1
        BY <1>4
      <4> HIDE DEF u, k, m
      <4> QED BY <2>7, <3>3, <4>1
    <3>5. k + 1 <= m
      <4> HIDE DEF u, k, m
      <4> QED BY <3>1, <3>3, <3>4
    <3>6. m <= k + 1
      <4>1. m \in (k + 1)..m
        <5> HIDE DEF m, k
        <5> QED BY <1>4, <3>2, <3>5
      <4>2. u[s][m] # None
        <5> HIDE DEF m, k, u
        <5> QED BY <3>1, <4>1
      <4> HIDE DEF m, k, u
      <4> QED BY <2>7, <3>1, <4>2
    <3> HIDE DEF m, k
    <3> QED BY <1>4, <3>2, <3>5, <3>6
  <2>10. contig' = [contig EXCEPT ![Host][q] = n]
    <3>1. contig' = [contig EXCEPT ![Host][q] = m]
      BY <2>2, <2>4, <2>5 DEF Accept
    <3> HIDE DEF m, n
    <3> QED BY <1>9, <2>9, <3>1
  <2>11. rseq' = [rseq EXCEPT ![Host][q] = n]
    <3>1. rseq' = [rseq EXCEPT ![Host][q] = MaxOf(rseq[Host][q], e.seq)]
      BY <2>2, <2>4 DEF Accept
    <3>2. MaxOf(rseq[Host][q], e.seq) = n
      <4>1. ~(k >= k + 1)
        BY <1>4
      <4> QED BY <1>3, <1>5, <1>9, <4>1 DEF MaxOf
    <3> QED BY <3>1, <3>2
  <2>12. tl' = [tl EXCEPT ![Host][s][n] = n]
    <3>1. tl' = [tl EXCEPT ![Host] = u]
      BY <2>4, <2>5 DEF Accept
    <3>2. [tl[Host][s] EXCEPT ![n] = n] = [f \in Frame |-> IF f = n THEN n ELSE tl[Host][s][f]]
      BY <1>4 DEF Timelines
    <3>3. u = [tl[Host] EXCEPT ![s] = [tl[Host][s] EXCEPT ![n] = n]]
      BY <3>2
    <3> HIDE DEF n
    <3> QED BY <3>1, <3>3
  <2> QED BY <1>1, <1>2, <1>3, <1>9, <2>4, <2>10, <2>11, <2>12
<1>10. n <= k \/ n = k + 1
  <2> HIDE DEF n, k
  <2> QED BY <1>4, <1>6
<1> QED BY <1>8, <1>9, <1>10

\* Taking the next entry keeps the slots and the rest of the packet in step.
LEMMA HandleInputTransit ==
    ASSUME OneSlot, TypeInv, TypeInv', Exact, Transit, HandleInput(Host)
    PROVE  Transit'
<1>1. PICK s \in Remote, e \in inbox[Host] :
             /\ e \in Entry /\ e.slot = s /\ inbox[Host] \in Packet(s)
             /\ inbox' = [inbox EXCEPT ![Host] = @ \ {e}]
             /\ \/ /\ e.frame <= contig[Host][Owner[s]]
                   /\ UNCHANGED <<tl, contig, rseq>>
                \/ /\ e.frame = contig[Host][Owner[s]] + 1
                   /\ tl' = [tl EXCEPT ![Host][s][e.frame] = e.frame]
                   /\ contig' = [contig EXCEPT ![Host][Owner[s]] = e.frame]
                   /\ rseq' = [rseq EXCEPT ![Host][Owner[s]] = e.frame]
  BY HostHandlesNext
<1> DEFINE q == Owner[s]
           k == contig[Host][q]
           n == e.frame
<1>2. UNCHANGED <<sq, localSeq, todo, up, sim, queued>>
  BY DEF HandleInput, driverVars, consoleVars
<1>3. /\ q \in Peers /\ q # Host /\ Host \in Peers /\ s \in Slots
      /\ n \in Frame /\ n \in Nat /\ k \in Nat /\ localSeq[q] \in Nat
  BY <1>1, RemoteFacts, RemoteTypes, PeersFacts, FrameFacts DEF Entry
<1>4. /\ tl \in [Peers -> [Slots -> [Frame -> Frame \cup {None}]]]
      /\ contig \in [Peers -> [Peers -> Frame]] /\ rseq \in [Peers -> [Peers -> Nat]]
  BY DEF TypeInv, TypeOK
<1>5. ASSUME NEW o \in Remote, o # s
      PROVE  SlotInv(o)'
  <2>1. /\ Owner[o] # q /\ Owner[o] \in Peers /\ o \in Slots
        /\ Owner[o] # Host
    BY <1>3, <1>5, RemoteFacts DEF OneSlot
  <2>2. /\ tl'[Owner[o]] = tl[Owner[o]] /\ tl'[Host][o] = tl[Host][o]
    BY <1>1, <1>3, <1>4, <1>5, <2>1
  <2>3. contig'[Host][Owner[o]] = contig[Host][Owner[o]]
    BY <1>1, <1>3, <1>4, <2>1
  <2>4. rseq'[Host][Owner[o]] = rseq[Host][Owner[o]]
    BY <1>1, <1>3, <1>4, <2>1
  <2>5. Untouched(o)
    BY <1>2, <2>2, <2>3, <2>4 DEF Untouched
  <2> QED BY <1>2, <2>5, UntouchedSlot DEF Transit
<1>6. SlotInv(s)
  BY DEF Transit
<1>7. inbox'[Host] = inbox[Host] \ {e}
  BY <1>1, <1>3 DEF TypeInv, TypeOK
<1>8. /\ inbox[Host] \in SUBSET Entry
      /\ \A x \in inbox[Host] : x.frame \in Nat
      /\ \A x \in inbox[Host] : /\ x.slot = s /\ x.seq = x.frame /\ x.val = x.frame
                                /\ x.frame <= localSeq[q]
      /\ \A x \in inbox[Host] : x.frame > k + 1 =>
                                   \E d \in inbox[Host] : d.frame = x.frame - 1
  BY <1>1, FrameFacts DEF Packet, Entry
<1>9. CASE n <= k /\ UNCHANGED <<tl, contig, rseq>>
  <2>1. Untouched(s)
    BY <1>2, <1>9 DEF Untouched
  <2>2. SlotInv(s)' /\ Packet(s)' = Packet(s)
    BY <1>2, <1>6, <2>1, UntouchedSlot
  <2>3. inbox'[Host] \in Packet(s)
    <3>1. ASSUME NEW x \in inbox[Host] \ {e}, x.frame > k + 1
          PROVE  \E d \in inbox[Host] \ {e} : d.frame = x.frame - 1
      <4>1. PICK d \in inbox[Host] : d.frame = x.frame - 1
        BY <1>8, <3>1
      <4>2. d.frame # n
        <5>1. x.frame \in Nat
          BY <1>8
        <5> HIDE DEF n, k
        <5> QED BY <1>3, <1>9, <3>1, <4>1, <5>1
      <4> QED BY <4>1, <4>2
    <3> QED BY <1>7, <1>8, <3>1 DEF Packet
  <2> QED BY <1>5, <2>2, <2>3 DEF Transit
<1>10. CASE /\ n = k + 1
            /\ tl' = [tl EXCEPT ![Host][s][n] = n]
            /\ contig' = [contig EXCEPT ![Host][q] = n]
            /\ rseq' = [rseq EXCEPT ![Host][q] = n]
  <2>1. contig'[Host][q] = n /\ rseq'[Host][q] = n
    BY <1>3, <1>4, <1>10
  <2>2. /\ tl'[q] = tl[q]
        /\ \A f \in Frame : tl'[Host][s][f] = IF f = n THEN n ELSE tl[Host][s][f]
    BY <1>3, <1>4, <1>10
  <2>3. OwnInputs(s)'
    <3>1. localSeq[q] <= localSeq'[q] /\ contig[Host][q] <= contig'[Host][q]
      <4>1. k <= k + 1 /\ localSeq[q] <= localSeq[q]
        BY <1>3
      <4> QED BY <1>2, <1>10, <2>1, <4>1
    <3>2. Packet(s) \subseteq Packet(s)'
      BY <3>1, PacketGrows
    <3>3. up'[q] \in Seq(Packet(s)')
      BY <1>2, <1>6, <3>2, SeqMonotonic DEF SlotInv, OwnInputs
    <3> QED BY <1>2, <1>6, <2>2, <3>3 DEF SlotInv, OwnInputs
  <2>4. HostInputs(s)'
    <3>1. /\ \A f \in Frame : tl[Host][s][f] # None <=> f <= k
          /\ sim[Host] <= k + 1
          /\ \A f \in Frame : queued[Host][f] # Absent => f <= k
      BY <1>6 DEF SlotInv, HostInputs
    <3>2. n <= localSeq[q]
      BY <1>8
    <3>3. sim[Host] \in Nat
      BY <1>3, NumberTypes
    <3>4. sim[Host] <= n + 1
      <4> HIDE DEF n, k
      <4> QED BY <1>3, <1>10, <3>1, <3>3
    <3>5. \A f \in Frame : f \in Nat /\ n # None
      BY <1>3, FrameFacts
    <3>6. \A f \in Frame : (tl'[Host][s][f] # None <=> f <= n)
                           /\ (queued[Host][f] # Absent => f <= n)
      <4> HIDE DEF n, k, q
      <4> SUFFICES ASSUME NEW f \in Frame
                   PROVE  (tl'[Host][s][f] # None <=> f <= n)
                          /\ (queued[Host][f] # Absent => f <= n)
        OBVIOUS
      <4>1. f \in Nat /\ n # None
        BY <3>5
      <4>2. f <= k => f <= n
        BY <1>3, <1>10, <4>1
      <4>3. CASE f = n
        <5>1. tl'[Host][s][f] = n /\ f <= n
          BY <1>3, <2>2, <4>3
        <5> QED BY <4>1, <5>1
      <4>4. CASE f # n
        <5>1. tl'[Host][s][f] = tl[Host][s][f] /\ (f <= k <=> f <= n)
          BY <1>3, <1>10, <2>2, <4>1, <4>4
        <5> QED BY <3>1, <4>2, <5>1
      <4> QED BY <4>3, <4>4
    <3>7. contig'[Host][q] = n /\ rseq'[Host][q] = n /\ localSeq'[q] = localSeq[q]
          /\ sim'[Host] = sim[Host] /\ queued'[Host] = queued[Host]
      BY <1>2, <2>1
    <3> HIDE DEF n
    <3> QED BY <3>2, <3>4, <3>6, <3>7 DEF HostInputs
  <2>5. inbox'[Host] \in Packet(s)'
    <3>1. ASSUME NEW x \in inbox[Host] \ {e}, x.frame > n + 1
          PROVE  \E d \in inbox[Host] \ {e} : d.frame = x.frame - 1
      <4>1. x.frame \in Nat /\ x.frame > k + 1
        <5>1. x.frame \in Nat
          BY <1>8
        <5> HIDE DEF n, k
        <5> QED BY <1>3, <1>10, <3>1, <5>1
      <4>2. PICK d \in inbox[Host] : d.frame = x.frame - 1
        BY <1>8, <4>1
      <4>3. d.frame # n
        <5> HIDE DEF n, k
        <5> QED BY <1>3, <3>1, <4>1, <4>2
      <4> QED BY <4>2, <4>3
    <3>2. inbox'[Host] \in SUBSET Entry
      BY <1>7, <1>8
    <3>3. \A x \in inbox'[Host] :
             /\ x.slot = s /\ x.seq = x.frame /\ x.val = x.frame
             /\ x.frame <= localSeq'[q]
             /\ x.frame > contig'[Host][q] + 1 => \E d \in inbox'[Host] : d.frame = x.frame - 1
      BY <1>2, <1>7, <1>8, <2>1, <3>1
    <3> QED BY <3>2, <3>3 DEF Packet
  <2> QED BY <1>5, <2>3, <2>4, <2>5 DEF Transit, SlotInv
<1> QED BY <1>1, <1>9, <1>10

\* The host emulates and queues only what it has every client's input for.
LEMMA HostPlayable ==
    ASSUME IInv, Contiguous, Exact, NEW s \in Remote, SlotInv(s), NEW f \in Frame,
           Playable(Host)[f] # Absent
    PROVE  f <= contig[Host][Owner[s]]
<1> DEFINE k == contig[Host][Owner[s]]
<1>1. TypeInv /\ s \in Slots /\ f \in Nat /\ k \in Nat /\ lastPub \in Nat /\ conf[Host] \in Nat
  BY RemoteFacts, RemoteTypes, FrameFacts, NumberTypes, PeersFacts DEF IInv
<1>2. CASE f \in Ahead(Host) \cup Now(Host)
  <2>1. Build(Host, f) # Absent
    BY <1>2 DEF Playable
  <2>2. CASE store[Host][f] # Absent
    <3>1. f <= lastPub /\ lastPub <= conf[Host] /\ conf[Host] <= k
      BY <1>1, <2>2, RemoteTypes DEF Exact, ExactStored, IInv, Published, Contiguous, Within
    <3> HIDE DEF k
    <3> QED BY <1>1, <3>1 DEF k
  <2>3. CASE store[Host][f] = Absent
    <3>1. Assemblable(tl[Host], f)
      BY <2>1, <2>3 DEF Build
    <3>2. tl[Host][s][f] # None
      BY <1>1, <3>1 DEF Assemblable
    <3> QED BY <3>2 DEF SlotInv, HostInputs
  <2> QED BY <2>2, <2>3
<1>3. CASE f \notin Ahead(Host) \cup Now(Host)
  BY <1>3 DEF Playable, SlotInv, HostInputs
<1> QED BY <1>2, <1>3

\* A confirmed frame never tells a client about its own slot: it has recorded
\* every frame the host can have confirmed.
LEMMA NothingRebuilt ==
    ASSUME IInv, Contiguous, Transit, NEW c \in Clients, ReceiveConfirmed(c)
    PROVE  tl' = tl /\ sq' = sq
<1> DEFINE m == Head(cf[c])
           row(s) == [f \in Frame |->
                   IF Rebuilds(c, m, s, f) THEN m[f][s] ELSE tl[c][s][f]]
           seqs(s) == [f \in Frame |->
                   IF Rebuilds(c, m, s, f) THEN localSeq[c] ELSE sq[s][f]]
<1>1. TypeInv /\ c \in Peers /\ c # Host
  BY PeersFacts DEF IInv
<1>2. tl' = [tl EXCEPT ![c] = [s \in Slots |-> row(s)]] /\ sq' = [s \in Slots |-> seqs(s)]
  BY DEF ReceiveConfirmed
<1>3. cf[c] \in Seq(AgreedBatch) /\ cf[c] # << >>
  BY DEF ReceiveConfirmed, IInv, Published
<1>4. m \in AgreedBatch
  BY <1>3
<1>5. \A f \in DOMAIN m : f \in Frame /\ f \in Nat /\ f <= lastPub
  BY <1>4, FrameFacts DEF AgreedBatch, Batch
<1> HIDE DEF m
<1>6. ASSUME NEW s \in Slots PROVE row(s) = tl[c][s] /\ seqs(s) = sq[s]
  <2>0. tl[c][s] \in [Frame -> Frame \cup {None}] /\ sq[s] \in [Frame -> Nat]
    BY <1>1 DEF TypeInv, TypeOK
  <2>1. ASSUME NEW f \in Frame, Owner[s] = c, f \in DOMAIN m PROVE tl[c][s][f] # None
    <3>1. s \in Remote /\ SlotInv(s)
      BY <1>1, <2>1 DEF Remote, Transit
    <3>2. /\ f \in Nat /\ f <= lastPub /\ lastPub \in Nat /\ conf[Host] \in Nat
          /\ contig[Host][c] \in Nat /\ localSeq[c] \in Nat
      BY <1>1, <1>5, <2>1, <3>1, NumberTypes, RemoteTypes, PeersFacts
    <3>3. lastPub <= conf[Host] /\ conf[Host] <= contig[Host][c]
          /\ contig[Host][c] <= localSeq[c]
      BY <1>1, <2>1, <3>1, RemoteTypes
      DEF IInv, Published, Contiguous, Within, SlotInv, HostInputs
    <3>4. f <= localSeq[c]
      BY <3>2, <3>3
    <3> QED BY <2>1, <3>1, <3>4 DEF SlotInv, OwnInputs
  <2>2. \A f \in Frame : ~Rebuilds(c, m, s, f)
    BY <2>1 DEF Rebuilds
  <2> QED BY <2>0, <2>2
<1> HIDE DEF row, seqs
<1>7. /\ tl[c] \in [Slots -> [Frame -> Frame \cup {None}]]
      /\ tl \in [Peers -> [Slots -> [Frame -> Frame \cup {None}]]]
      /\ sq \in [Slots -> [Frame -> Nat]]
  BY <1>1 DEF TypeInv, TypeOK
<1>8. [s \in Slots |-> row(s)] = tl[c] /\ [s \in Slots |-> seqs(s)] = sq
  BY <1>6, <1>7
<1> QED BY <1>1, <1>2, <1>7, <1>8

LEMMA TransitKept ==
    ASSUME TypeInv, TypeInv', Transit, \A s \in Remote : Untouched(s),
           \A s \in Remote : up'[Owner[s]] = up[Owner[s]],
           sim'[Host] = sim[Host], queued'[Host] = queued[Host], inbox'[Host] = inbox[Host]
    PROVE  Transit'
<1>1. \A s \in Remote : SlotInv(s)' /\ Packet(s)' = Packet(s)
  BY UntouchedSlot DEF Transit
<1> QED BY <1>1 DEF Transit

LEMMA ProduceTransit ==
    ASSUME OneSlot, Covered, IInv, TypeInv', Provenance, Contiguous, Exact, Transit,
           NEW p \in Peers, Produce(p)
    PROVE  Transit'
<1>0. /\ TypeInv
      /\ tl \in [Peers -> [Slots -> [Frame -> Frame \cup {None}]]]
      /\ sq \in [Slots -> [Frame -> Nat]] /\ localSeq \in [Peers -> Nat]
      /\ up \in [Clients -> Seq(SUBSET Entry)]
  BY DEF IInv, TypeInv, TypeOK
<1>1. PICK s \in SlotsOf(p), f \in Frame :
              /\ \A r \in Peers : r # p => todo'[r] = todo[r]
              /\ recordLocalInputFrame(p, s, f)
              /\ todo[p] = {} => f <= sim[p] + P /\ todo'[p] = SlotsOf(p) \ {s}
  BY <1>0, ProduceOwnSlot
<1>2. UNCHANGED <<contig, rseq, sim, queued, inbox>>
  BY DEF Produce, consoleVars
<1>3. s \in Slots /\ Owner[s] = p /\ Host \in Peers
  BY PeersFacts DEF SlotsOf
<1>4. \/ UNCHANGED <<tl, sq, localSeq, up>>
      \/ /\ tl[p][s][f] = None /\ MayRecord(p, s, f)
         /\ tl' = [tl EXCEPT ![p][s][f] = f]
         /\ sq' = [sq EXCEPT ![s][f] = localSeq[p] + 1]
         /\ localSeq' = [localSeq EXCEPT ![p] = @ + 1]
         /\ p = Host => UNCHANGED up
         /\ p # Host => up' = [up EXCEPT ![p] = Send(@, PacketFor(p, s, f))]
  BY <1>1 DEF recordLocalInputFrame
<1>5. ASSUME NEW o \in Remote, Owner[o] # p
      PROVE  Untouched(o) /\ up'[Owner[o]] = up[Owner[o]]
  <2>1. /\ o \in Slots /\ o # s /\ Owner[o] \in Peers /\ Owner[o] \in Clients
    BY <1>3, <1>5, RemoteFacts
  <2>2. tl'[Owner[o]][o] = tl[Owner[o]][o] /\ tl'[Host][o] = tl[Host][o]
    BY <1>0, <1>3, <1>4, <1>5, <2>1
  <2>3. sq'[o] = sq[o] /\ localSeq'[Owner[o]] = localSeq[Owner[o]]
    BY <1>0, <1>3, <1>4, <1>5, <2>1
  <2>4. up'[Owner[o]] = up[Owner[o]]
    BY <1>0, <1>4, <1>5, <2>1
  <2>5. todo'[Owner[o]] = todo[Owner[o]]
    BY <1>1, <1>5, <2>1
  <2> QED BY <1>2, <2>2, <2>3, <2>4, <2>5 DEF Untouched
<1>6. CASE p = Host
  <2>1. \A o \in Remote : Untouched(o) /\ up'[Owner[o]] = up[Owner[o]]
    BY <1>5, <1>6, RemoteFacts
  <2> QED BY <1>0, <1>2, <2>1, TransitKept
<1>7. CASE p # Host
  <2>1. s \in Remote /\ SlotInv(s) /\ todo[p] = {}
    BY <1>3, <1>7 DEF Remote, Transit, SlotInv, OwnInputs
  <2>2. SlotsOf(p) = {s}
    BY <1>3, <1>7 DEF OneSlot, SlotsOf
  <2>3. todo'[p] = {} /\ f <= sim[p] + P
    BY <1>1, <2>1, <2>2
  <2>4. ASSUME NEW o \in Remote, o # s PROVE SlotInv(o)' /\ Packet(o)' = Packet(o)
    <3>1. Owner[o] # p
      BY <1>3, <2>4, RemoteFacts DEF OneSlot
    <3>2. Untouched(o) /\ up'[Owner[o]] = up[Owner[o]]
      BY <1>5, <3>1
    <3> QED BY <1>0, <1>2, <3>2, UntouchedSlot DEF Transit
  <2>5. SlotInv(s)' /\ Packet(s) \subseteq Packet(s)'
    <3>1. CASE UNCHANGED <<tl, sq, localSeq, up>>
      <4>1. Untouched(s) /\ up'[Owner[s]] = up[Owner[s]]
        BY <1>2, <1>3, <2>1, <2>3, <3>1 DEF Untouched
      <4> QED BY <1>0, <1>2, <2>1, <4>1, UntouchedSlot
    <3>2. CASE ~UNCHANGED <<tl, sq, localSeq, up>>
      <4>1. /\ tl[Owner[s]][s][f] = None /\ MayRecord(Owner[s], s, f)
            /\ tl' = [tl EXCEPT ![Owner[s]][s][f] = f]
            /\ sq' = [sq EXCEPT ![s][f] = localSeq[Owner[s]] + 1]
            /\ localSeq' = [localSeq EXCEPT ![Owner[s]] = @ + 1]
            /\ up' = [up EXCEPT ![Owner[s]] = Send(@, PacketFor(Owner[s], s, f))]
            /\ todo'[Owner[s]] = {} /\ f <= sim[Owner[s]] + P
        BY <1>3, <1>4, <1>7, <2>3, <3>2
      <4> QED BY <1>2, <2>1, <4>1, ClientRecords
    <3> QED BY <3>1, <3>2
  <2>6. ASSUME inbox'[Host] # {} PROVE \E o \in Remote : inbox'[Host] \in Packet(o)'
    <3>1. PICK o \in Remote : inbox[Host] \in Packet(o)
      BY <1>2, <2>6 DEF Transit
    <3> QED BY <1>2, <2>4, <2>5, <3>1
  <2> QED BY <2>4, <2>5, <2>6 DEF Transit
<1> QED BY <1>6, <1>7

LEMMA NextTransit ==
    ASSUME OneSlot, Covered, IInv, TypeInv', Provenance, Contiguous, Exact, Transit,
           [Next]_vars
    PROVE  Transit'
<1>0. /\ TypeInv /\ Host \in Peers
      /\ tl \in [Peers -> [Slots -> [Frame -> Frame \cup {None}]]]
      /\ contig \in [Peers -> [Peers -> Frame]] /\ rseq \in [Peers -> [Peers -> Nat]]
      /\ inbox \in [Peers -> SUBSET Entry]
      /\ up \in [Clients -> Seq(SUBSET Entry)]
      /\ sim \in [Peers -> 0..(MaxFrame + 1)] /\ queued \in [Peers -> [Frame -> Inputs]]
  BY PeersFacts DEF IInv, TypeInv, TypeOK
<1>1. ASSUME UNCHANGED <<todo, tl, sq, localSeq, contig, rseq, up>>,
             sim'[Host] = sim[Host], queued'[Host] = queued[Host], inbox'[Host] = inbox[Host]
      PROVE  Transit'
  <2>1. \A s \in Remote : Untouched(s) /\ up'[Owner[s]] = up[Owner[s]]
    BY <1>1 DEF Untouched
  <2> QED BY <1>0, <1>1, <2>1, TransitKept
<1>2. ASSUME NEW c \in Clients, HandleInput(c) PROVE Transit'
  <2>1. PICK e \in inbox[c] :
             /\ e \in Entry
             /\ inbox' = [inbox EXCEPT ![c] = @ \ {e}]
             /\ \/ UNCHANGED <<tl, contig>> /\ UNCHANGED rseq
                \/ /\ rseq' = [rseq EXCEPT ![c][Owner[e.slot]] = MaxOf(@, e.seq)]
                   /\ UNCHANGED <<tl, contig>>
                \/ Accept(c, Owner[e.slot], e)
    BY <1>0, <1>2, HandleInputCases, PeersFacts
  <2>2. c \in Peers /\ c # Host /\ e.slot \in Slots /\ Owner[e.slot] # c
    BY <1>0, <2>1, PeersFacts DEF Exact, ExactSent, Relayed, Entry
  <2>3. contig'[Host] = contig[Host]
    BY <1>0, <2>1, <2>2 DEF Accept
  <2>4. rseq'[Host] = rseq[Host]
    BY <1>0, <2>1, <2>2 DEF Accept
  <2>5. inbox'[Host] = inbox[Host]
    BY <1>0, <2>1, <2>2
  <2>6. tl' = tl \/ tl' = [tl EXCEPT ![c] = AcceptedTimeline(c, Owner[e.slot], e)]
    BY <2>1 DEF Accept
  <2>7. \A s \in Slots : s # e.slot => AcceptedTimeline(c, Owner[e.slot], e)[s] = tl[c][s]
    BY <1>0, <2>2 DEF AcceptedTimeline
  <2>8. UNCHANGED <<sq, localSeq, todo, up, sim, queued>>
    BY <1>2 DEF HandleInput, driverVars, consoleVars
  <2>9. ASSUME NEW s \in Remote PROVE Untouched(s)
    <3>1. s \in Slots /\ Owner[s] \in Peers /\ Owner[s] # Host
      BY RemoteFacts
    <3>2. tl'[Host] = tl[Host]
      BY <1>0, <2>2, <2>6
    <3>3. tl'[Owner[s]][s] = tl[Owner[s]][s]
      <4>1. CASE Owner[s] = c
        <5>1. s # e.slot
          BY <2>2, <4>1
        <5> QED BY <1>0, <2>2, <2>6, <2>7, <3>1, <4>1, <5>1
      <4>2. CASE Owner[s] # c
        BY <1>0, <2>6, <3>1, <4>2
      <4> QED BY <4>1, <4>2
    <3> QED BY <2>3, <2>4, <2>8, <3>2, <3>3 DEF Untouched
  <2> QED BY <1>0, <2>5, <2>8, <2>9, TransitKept
<1>3. ASSUME NEW c \in Clients, DeliverToHost(c) PROVE Transit'
  <2>1. PICK i \in 1..Len(up[c]) :
            /\ up' = [up EXCEPT ![c] = After(@, i)]
            /\ inbox' = [inbox EXCEPT ![Host] = up[c][i]]
    BY <1>3 DEF DeliverToHost
  <2>2. UNCHANGED <<todo, tl, sq, localSeq, contig, rseq, sim, queued>>
    BY <1>3 DEF DeliverToHost, inputVars, driverVars, consoleVars
  <2>3. inbox'[Host] = up[c][i]
    BY <1>0, <2>1
  <2>4. ASSUME NEW s \in Remote PROVE SlotInv(s)' /\ Packet(s)' = Packet(s)
    <3>1. Untouched(s)
      BY <2>2 DEF Untouched
    <3>2. up'[Owner[s]] = up[Owner[s]] \/ up'[Owner[s]] \in Seq(Packet(s))
      <4>1. CASE Owner[s] = c
        <5>1. up[c] \in Seq(Packet(s))
          BY <4>1 DEF Transit, SlotInv, OwnInputs
        <5>2. After(up[c], i) \in Seq(Packet(s))
          BY <5>1, ChannelTypes
        <5> QED BY <1>0, <2>1, <4>1, <5>2
      <4>2. CASE Owner[s] # c
        BY <1>0, <2>1, <4>2, RemoteFacts
      <4> QED BY <4>1, <4>2
    <3> QED BY <1>0, <2>2, <3>1, <3>2, UntouchedSlot DEF Transit
  <2>5. ASSUME inbox'[Host] # {} PROVE \E s \in Remote : inbox'[Host] \in Packet(s)'
    <3>1. PICK e \in up[c][i] : TRUE
      BY <2>3, <2>5
    <3>2. up[c][i] \in SUBSET FromOwner(c)
      <4>1. up[c] \in Seq(SUBSET FromOwner(c))
        BY DEF Provenance
      <4> QED BY <4>1, ChannelTypes
    <3>3. e.slot \in Remote /\ Owner[e.slot] = c
      BY <3>1, <3>2, PeersFacts DEF FromOwner, Entry, Remote
    <3>4. up[c] \in Seq(Packet(e.slot))
      BY <3>3 DEF Transit, SlotInv, OwnInputs
    <3>5. up[c][i] \in Packet(e.slot)
      BY <3>4, ChannelTypes
    <3> QED BY <2>3, <2>4, <3>3, <3>5
  <2> QED BY <2>4, <2>5 DEF Transit
<1>4. CASE RunFrame(Host) \/ QueueAhead(Host)
  <2>1. UNCHANGED <<todo, tl, sq, localSeq, contig, rseq, up, inbox>>
    BY <1>4 DEF RunFrame, QueueAhead, inputVars, driverVars
  <2>2. ASSUME NEW s \in Remote PROVE SlotInv(s)' /\ Packet(s)' = Packet(s)
    <3> DEFINE k == contig[Host][Owner[s]]
    <3>1. Packet(s)' = Packet(s)
      BY <2>1 DEF Packet
    <3>2. SlotInv(s) /\ k \in Nat /\ sim[Host] \in Nat
      BY <1>0, RemoteTypes, NumberTypes DEF Transit
    <3>3. \A f \in Frame : Playable(Host)[f] # Absent => f <= k
      BY <3>2, HostPlayable
    <3>4. \A f \in Frame : queued'[Host][f] # Absent => f <= k
      <4>1. Playable(Host) \in [Frame -> Inputs]
        BY <1>0, PlayableType
      <4>2. \A f \in Frame : queued'[Host][f] # Absent => Playable(Host)[f] # Absent
        BY <1>0, <1>4, <4>1 DEF RunFrame, QueueAhead
      <4> QED BY <3>3, <4>2
    <3>5. sim'[Host] <= k + 1
      <4>1. CASE RunFrame(Host)
        <5>1. Playable(Host)[sim[Host]] # Absent /\ sim'[Host] = sim[Host] + 1
          BY <1>0, <4>1 DEF RunFrame
        <5>2. sim[Host] \in Frame
          BY <1>0, FrameFacts
        <5>3. sim[Host] <= k
          BY <3>3, <5>1, <5>2
        <5> HIDE DEF k
        <5> QED BY <3>2, <5>1, <5>3
      <4>2. CASE QueueAhead(Host)
        BY <3>2, <4>2 DEF QueueAhead, SlotInv, HostInputs
      <4> QED BY <1>4, <4>1, <4>2
    <3>6. OwnInputs(s)'
      BY <2>1, <3>1, <3>2 DEF SlotInv, OwnInputs
    <3>7. HostInputs(s)'
      BY <2>1, <3>2, <3>4, <3>5 DEF SlotInv, HostInputs
    <3> QED BY <3>1, <3>6, <3>7 DEF SlotInv
  <2> QED BY <2>1, <2>2 DEF Transit
<1>5. ASSUME NEW c \in Clients, RunFrame(c) \/ QueueAhead(c) PROVE Transit'
  <2>1. UNCHANGED <<todo, tl, sq, localSeq, contig, rseq, up, inbox>>
    BY <1>5 DEF RunFrame, QueueAhead, inputVars, driverVars
  <2>2. c # Host /\ c \in Peers
    BY PeersFacts
  <2>3. sim'[Host] = sim[Host]
    BY <1>0, <1>5, <2>2 DEF RunFrame, QueueAhead
  <2>4. queued'[Host] = queued[Host]
    BY <1>0, <1>5, <2>2 DEF RunFrame, QueueAhead
  <2> QED BY <1>1, <2>1, <2>3, <2>4
<1>6. ASSUME NEW p \in Peers, PeerStep(p) PROVE Transit'
  <2>1. p = Host \/ p \in Clients
    BY DEF Peers
  <2>2. CASE Produce(p)
    BY <2>2, ProduceTransit
  <2>3. CASE HandleInput(p)
    BY <1>0, <1>2, <2>1, <2>3, HandleInputTransit
  <2>4. CASE RunFrame(p) \/ QueueAhead(p)
    BY <1>4, <1>5, <2>1, <2>4
  <2>5. CASE ProduceObserver(p)
    BY <1>1, <2>5 DEF ProduceObserver, inputVars, consoleVars
  <2>6. CASE NoticeState(p)
    BY <1>1, <2>6 DEF NoticeState, inputVars, consoleVars
  <2> QED BY <1>6, <2>2, <2>3, <2>4, <2>5, <2>6 DEF PeerStep
<1>7. ASSUME NEW c \in Clients, ClientStep(c) PROVE Transit'
  <2>1. CASE DeliverToClient(c)
    <3>1. inbox'[Host] = inbox[Host]
      BY <1>0, <2>1, PeersFacts DEF DeliverToClient
    <3> QED BY <1>1, <2>1, <3>1 DEF DeliverToClient, inputVars, driverVars, consoleVars
  <2>2. CASE ReceiveConfirmed(c)
    <3>1. tl' = tl /\ sq' = sq
      BY <2>2, NothingRebuilt
    <3> QED BY <1>1, <2>2, <3>1 DEF ReceiveConfirmed, driverVars, consoleVars
  <2>3. CASE ReceiveStatus(c)
    BY <1>1, <2>3 DEF ReceiveStatus, inputVars, driverVars, consoleVars
  <2>4. CASE ReceiveSession(c)
    BY <1>1, <2>4 DEF ReceiveSession, inputVars, driverVars, consoleVars
  <2> QED BY <1>3, <1>7, <2>1, <2>2, <2>3, <2>4 DEF ClientStep
<1>8. CASE HostUpdate \/ pauseSession \/ resumeSession \/ UNCHANGED vars
  BY <1>1, <1>8 DEF HostUpdate, pauseSession, resumeSession, vars, inputVars,
     driverVars, consoleVars
<1> QED BY <1>6, <1>7, <1>8 DEF Next


\* What is assembled from exact timelines is what was pressed.
LEMMA AssemblePressed ==
    ASSUME NEW t, Named(t), NEW f \in Frame, Assemblable(t, f)
    PROVE  Assemble(t, f) = Pressed(f)
<1>1. \A s \in Slots : t[s][f] = f
  BY DEF Named, Assemblable
<1> QED BY <1>1 DEF Assemble, Pressed

\* The host stores a frame only when it has every input of it.
LEMMA BroadcastExact ==
    ASSUME TypeInv, TypeInv', ExactStored, NEW t \in Timelines, Named(t),
           NEW cg \in [Peers -> Frame],
           StoreAndBroadcast(t, PublishableThrough(t, cg)),
           PublishableThrough(t, cg) <= lastPub'
    PROVE  ExactStored'
<1> DEFINE n == PublishableThrough(t, cg)
<1>1. /\ n \in Frame /\ lastPub <= n /\ lastPub \in Frame /\ lastPub' \in Frame
      /\ store \in [Peers -> [Frame -> Inputs]]
  BY PublishableRange DEF TypeInv, TypeOK
<1>2. store' = [store EXCEPT ![Host] = [f \in Frame |->
                   IF lastPub < f /\ f <= n THEN Assemble(t, f) ELSE store[Host][f]]]
  BY DEF StoreAndBroadcast
<1>3. \A f \in (lastPub + 1)..n : Assemblable(t, f)
  BY <1>1, PublishableFrames
<1>4. n <= lastPub'
  OBVIOUS
<1> HIDE DEF n
<1>5. \A f \in Frame : store'[Host][f] =
           IF lastPub < f /\ f <= n THEN Assemble(t, f) ELSE store[Host][f]
  BY <1>1, <1>2, PeersFacts
<1>6. n \in Nat /\ lastPub \in Nat /\ lastPub' \in Nat /\ Frame \subseteq Nat
  BY <1>1, FrameFacts
<1> SUFFICES ASSUME NEW f \in Frame, store'[Host][f] # Absent
             PROVE  f <= lastPub' /\ store'[Host][f] = Pressed(f)
  BY DEF ExactStored
<1>7. f \in Nat
  BY <1>6
<1>8. CASE lastPub < f /\ f <= n
  <2>1. f \in (lastPub + 1)..n /\ f <= lastPub'
    BY <1>4, <1>6, <1>7, <1>8
  <2>2. Assemble(t, f) = Pressed(f)
    BY <1>3, <2>1, AssemblePressed
  <2> QED BY <1>5, <1>8, <2>1, <2>2
<1>9. CASE ~(lastPub < f /\ f <= n)
  <2>1. store'[Host][f] = store[Host][f]
    BY <1>5, <1>9
  <2>2. f <= lastPub /\ store[Host][f] = Pressed(f)
    BY <2>1 DEF ExactStored
  <2>3. f <= lastPub'
    BY <1>1, <1>4, <1>6, <1>7, <2>2
  <2> QED BY <2>1, <2>2, <2>3
<1> QED BY <1>8, <1>9

LEMMA PublishExact ==
    ASSUME TypeInv, TypeInv', ExactStored, NEW t \in Timelines, Named(t),
           NEW cg \in [Peers -> Frame], publishConfirmedFramesIfReady(t, cg)
    PROVE  ExactStored'
<1>1. StoreAndBroadcast(t, PublishableThrough(t, cg)) /\ lastPub' = PublishableThrough(t, cg)
  BY DEF publishConfirmedFramesIfReady
<1>2. PublishableThrough(t, cg) \in Nat
  BY PublishableRange, FrameFacts DEF TypeInv, TypeOK
<1>3. PublishableThrough(t, cg) <= lastPub'
  BY <1>1, <1>2
<1> QED BY <1>1, <1>3, BroadcastExact

\* A peer builds a frame from what was published or from what it holds, and
\* both are what was pressed.
LEMMA BuildExact ==
    ASSUME IInv, ExactHeld, ExactStored, NEW p \in Peers, NEW f \in Frame
    PROVE  Build(p, f) \in {Absent, Pressed(f)}
<1>1. CASE store[p][f] # Absent
  <2>1. store[p][f] = store[Host][f]
    BY <1>1 DEF Peers, IInv, Published
  <2>2. store[p][f] = Pressed(f)
    BY <1>1, <2>1 DEF ExactStored
  <2> QED BY <1>1, <2>2 DEF Build
<1>2. CASE store[p][f] = Absent /\ Assemblable(tl[p], f)
  <2>1. Assemble(tl[p], f) = Pressed(f)
    BY <1>2, AssemblePressed DEF ExactHeld
  <2> QED BY <1>2, <2>1 DEF Build
<1> QED BY <1>1, <1>2 DEF Build

LEMMA PlayExact ==
    ASSUME IInv, ExactHeld, ExactStored, ExactPlayed, NEW p \in Peers,
           RunFrame(p) \/ QueueAhead(p)
    PROVE  ExactPlayed'
<1> DEFINE pl == Playable(p)
<1>1. /\ TypeInv /\ pl \in [Frame -> Inputs] /\ sim[p] \in Frame
      /\ queued \in [Peers -> [Frame -> Inputs]] /\ played \in [Peers -> [Frame -> Inputs]]
  <2>1. TypeInv
    BY DEF IInv
  <2>2. pl \in [Frame -> Inputs]
    BY <2>1, PlayableType
  <2>3. sim[p] \in 0..(MaxFrame + 1)
    BY <2>1 DEF TypeInv, TypeOK
  <2> HIDE DEF pl
  <2> QED BY <2>1, <2>2, <2>3, FrameFacts DEF TypeInv, TypeOK
<1>2. \A f \in Frame : pl[f] \in {Absent, Pressed(f)}
  BY BuildExact DEF Playable, ExactPlayed
<1>3. \/ /\ played' = [played EXCEPT ![p][sim[p]] = pl[sim[p]]]
         /\ queued' = [queued EXCEPT ![p] = [pl EXCEPT ![sim[p]] = Absent]]
      \/ /\ queued' = [queued EXCEPT ![p] = pl]
         /\ played' = played
  BY DEF RunFrame, QueueAhead
<1> HIDE DEF pl
<1>4. ASSUME NEW r \in Peers, NEW f \in Frame
      PROVE  queued'[r][f] \in {Absent, Pressed(f)}
  <2>1. queued[r][f] \in {Absent, Pressed(f)}
    BY DEF ExactPlayed
  <2>2. CASE r = p
    BY <1>1, <1>2, <1>3, <2>2
  <2>3. CASE r # p
    BY <1>1, <1>3, <2>1, <2>3
  <2> QED BY <2>2, <2>3
<1>5. ASSUME NEW r \in Peers, NEW f \in Frame
      PROVE  played'[r][f] \in {Absent, Pressed(f)}
  <2>1. played[r][f] \in {Absent, Pressed(f)}
    BY DEF ExactPlayed
  <2>2. CASE r = p /\ f = sim[p]
    BY <1>1, <1>2, <1>3, <2>1, <2>2
  <2>3. CASE ~(r = p /\ f = sim[p])
    BY <1>1, <1>3, <2>1, <2>3
  <2> QED BY <2>2, <2>3
<1> QED BY <1>4, <1>5 DEF ExactPlayed

\* Recording: the new entry holds its own frame, and so does all of the packet.
LEMMA ProduceExact ==
    ASSUME TypeInv, TypeInv', Provenance, Exact, NEW p \in Peers, Produce(p)
    PROVE  Exact'
<1>0. /\ tl \in [Peers -> [Slots -> [Frame -> Frame \cup {None}]]]
      /\ tl' \in [Peers -> [Slots -> [Frame -> Frame \cup {None}]]]
      /\ Host \in Peers
      /\ (tl \in [Peers -> Timelines])' /\ contig[Host] \in [Peers -> Frame]
      /\ (sq \in [Slots -> [Frame -> Nat]])'
  <2>1. /\ tl \in [Peers -> [Slots -> [Frame -> Frame \cup {None}]]]
        /\ tl' \in [Peers -> [Slots -> [Frame -> Frame \cup {None}]]]
        /\ Host \in Peers /\ contig[Host] \in [Peers -> Frame]
        /\ (sq \in [Slots -> [Frame -> Nat]])'
    BY PeersFacts DEF TypeInv, TypeOK
  <2>2. \A r \in Peers : tl'[r] \in Timelines
    BY <2>1 DEF TypeInv, BaselineHeld, Timelines
  <2> QED BY <2>1, <2>2
<1>1. PICK s \in SlotsOf(p), f \in Frame : recordLocalInputFrame(p, s, f)
  BY ProduceOwnSlot
<1>2. s \in Slots /\ Owner[s] = p
  BY DEF SlotsOf
<1>3. UNCHANGED <<queued, played, inbox>>
  BY DEF Produce, consoleVars
<1>4. \/ UNCHANGED <<tl, store, lastPub, dn>>
      \/ /\ tl' = [tl EXCEPT ![p][s][f] = f]
         /\ p # Host => UNCHANGED <<store, lastPub, dn>>
         /\ p = Host => /\ dn' = [c \in Clients |-> Send(dn[c], PacketFor(p, s, f))]
                        /\ publishConfirmedFramesIfReady(tl'[Host], contig[Host])
  BY <1>1 DEF recordLocalInputFrame, confirmVars
<1>5. ExactHeld'
  <2> SUFFICES ASSUME NEW r \in Peers, NEW o \in Slots, NEW g \in Frame
               PROVE  tl'[r][o][g] \in {None, g}
    BY DEF ExactHeld, Named
  <2>1. tl[r][o][g] \in {None, g}
    BY DEF Exact, ExactHeld, Named
  <2>2. tl'[r][o][g] = tl[r][o][g] \/ (g = f /\ tl'[r][o][g] = f)
    BY <1>0, <1>2, <1>4
  <2> QED BY <2>1, <2>2
<1>6. ExactPlayed'
  BY <1>3 DEF Exact, ExactPlayed
<1>7. ExactStored'
  <2>1. CASE UNCHANGED <<store, lastPub>>
    BY <2>1 DEF Exact, ExactStored
  <2>2. CASE publishConfirmedFramesIfReady(tl'[Host], contig[Host])
    <3>1. tl'[Host] \in Timelines /\ Named(tl'[Host])
      BY <1>0, <1>5 DEF ExactHeld
    <3> QED BY <1>0, <2>2, <3>1, PublishExact DEF Exact
  <2> QED BY <1>4, <2>1, <2>2
<1>8. ExactSent'
  <2>1. CASE UNCHANGED dn
    BY <1>3, <2>1 DEF Exact, ExactSent
  <2>2. CASE p = Host /\ dn' = [c \in Clients |-> Send(dn[c], PacketFor(p, s, f))]
    <3>1. PacketFor(p, s, f) \in SUBSET Entry
      BY <1>0, <1>2, PacketType
    <3>2. ASSUME NEW c \in Clients PROVE PacketFor(p, s, f) \in SUBSET Relayed(c)
      <4> SUFFICES ASSUME NEW g \in Window(p, s, f)
                   PROVE  [slot |-> s, frame |-> g, seq |-> sq'[s][g], val |-> tl'[p][s][g]]
                              \in Relayed(c)
        BY DEF PacketFor
      <4>1. g \in Frame /\ tl'[p][s][g] # None
        BY DEF Window
      <4>2. tl'[p][s][g] = g
        BY <1>2, <1>5, <4>1 DEF ExactHeld, Named
      <4>3. [slot |-> s, frame |-> g, seq |-> sq'[s][g], val |-> tl'[p][s][g]] \in Entry
        BY <3>1 DEF PacketFor
      <4>4. Owner[s] # c
        BY <1>2, <2>2, PeersFacts
      <4> QED BY <4>2, <4>3, <4>4 DEF Relayed
    <3>3. ASSUME NEW c \in Clients PROVE dn'[c] \in Seq(SUBSET Relayed(c))
      <4>1. dn[c] \in Seq(SUBSET Relayed(c))
        BY DEF Exact, ExactSent
      <4>2. Send(dn[c], PacketFor(p, s, f)) \in Seq(SUBSET Relayed(c))
        BY <3>2, <4>1, ChannelTypes
      <4> QED BY <2>2, <4>2
    <3> QED BY <1>3, <3>3 DEF Exact, ExactSent
  <2> QED BY <1>4, <2>1, <2>2
<1> QED BY <1>5, <1>6, <1>7, <1>8 DEF Exact


\* The host accepts an entry as it was sent, and relays it to the others.
LEMMA HostInputExact ==
    ASSUME OneSlot, TypeInv, TypeInv', Transit, Exact, HandleInput(Host)
    PROVE  Exact'
<1>0. /\ tl \in [Peers -> [Slots -> [Frame -> Frame \cup {None}]]]
      /\ inbox \in [Peers -> SUBSET Entry] /\ Host \in Peers
      /\ tl'[Host] \in Timelines /\ contig'[Host] \in [Peers -> Frame]
  BY PeersFacts DEF TypeInv, TypeOK, BaselineHeld, Timelines
<1>1. PICK s \in Remote, e \in inbox[Host] :
             /\ e \in Entry /\ e.slot = s /\ e.val = e.frame
             /\ inbox' = [inbox EXCEPT ![Host] = @ \ {e}]
             /\ \/ UNCHANGED <<tl, store, lastPub, dn>>
                \/ /\ tl' = [tl EXCEPT ![Host][s][e.frame] = e.frame]
                   /\ dn' = [c \in Clients |-> IF c = Owner[s] THEN dn[c]
                                               ELSE Send(dn[c], {e})]
                   /\ publishConfirmedFramesIfReady(tl'[Host], contig'[Host])
  BY HostHandlesNext
<1>2. s \in Slots /\ e.frame \in Frame
  BY <1>1, RemoteFacts DEF Entry
<1>3. UNCHANGED <<queued, played>>
  BY DEF HandleInput, consoleVars
<1>4. \A c \in Clients : inbox'[c] = inbox[c]
  BY <1>0, <1>1, PeersFacts
<1>5. ExactHeld'
  <2> SUFFICES ASSUME NEW r \in Peers, NEW o \in Slots, NEW g \in Frame
               PROVE  tl'[r][o][g] \in {None, g}
    BY DEF ExactHeld, Named
  <2>1. tl[r][o][g] \in {None, g}
    BY DEF Exact, ExactHeld, Named
  <2>2. tl'[r][o][g] = tl[r][o][g] \/ (g = e.frame /\ tl'[r][o][g] = e.frame)
    <3>1. tl' = tl \/ tl' = [tl EXCEPT ![Host][s][e.frame] = e.frame]
      BY <1>1
    <3> DEFINE n == e.frame
    <3>2. n \in Frame /\ s \in Slots /\ Host \in Peers
      BY <1>0, <1>2
    <3>3. tl \in [Peers -> [Slots -> [Frame -> Frame \cup {None}]]]
      BY <1>0
    <3>4. tl' = tl \/ tl' = [tl EXCEPT ![Host][s][n] = n]
      BY <3>1
    <3> HIDE DEF n
    <3>5. tl'[r][o][g] = tl[r][o][g] \/ (g = n /\ tl'[r][o][g] = n)
      <4>1. CASE r = Host /\ o = s
        BY <3>2, <3>3, <3>4, <4>1
      <4>2. CASE ~(r = Host /\ o = s)
        BY <3>2, <3>3, <3>4, <4>2
      <4> QED BY <4>1, <4>2
    <3> QED BY <3>5 DEF n
  <2> QED BY <2>1, <2>2
<1>6. ExactPlayed'
  BY <1>3 DEF Exact, ExactPlayed
<1>7. ExactStored'
  <2>1. CASE UNCHANGED <<store, lastPub>>
    BY <2>1 DEF Exact, ExactStored
  <2>2. CASE publishConfirmedFramesIfReady(tl'[Host], contig'[Host])
    BY <1>0, <1>5, <2>2, PublishExact DEF Exact, ExactHeld
  <2> QED BY <1>1, <2>1, <2>2
<1>8. ASSUME NEW c \in Clients PROVE dn'[c] \in Seq(SUBSET Relayed(c))
  <2>1. dn[c] \in Seq(SUBSET Relayed(c))
    BY DEF Exact, ExactSent
  <2>2. CASE dn'[c] = dn[c]
    BY <2>1, <2>2
  <2>3. CASE c # Owner[s] /\ dn'[c] = Send(dn[c], {e})
    <3>1. {e} \in SUBSET Relayed(c)
      BY <1>1, <2>3 DEF Relayed
    <3> QED BY <2>1, <2>3, <3>1, ChannelTypes
  <2> QED BY <1>1, <2>2, <2>3
<1>9. ExactSent'
  BY <1>4, <1>8 DEF Exact, ExactSent
<1> QED BY <1>5, <1>6, <1>7, <1>9 DEF Exact

\* A client takes an entry as it was relayed and never fills a gap.
LEMMA ClientInputExact ==
    ASSUME TypeInv, Exact, NEW c \in Clients, HandleInput(c)
    PROVE  Exact'
<1>0. /\ tl \in [Peers -> [Slots -> [Frame -> Frame \cup {None}]]]
      /\ inbox \in [Peers -> SUBSET Entry] /\ c \in Peers /\ c # Host
  BY PeersFacts DEF TypeInv, TypeOK
<1>1. PICK e \in inbox[c] :
             /\ e \in Entry
             /\ inbox' = [inbox EXCEPT ![c] = @ \ {e}]
             /\ tl' = tl \/ tl' = [tl EXCEPT ![c] = AcceptedTimeline(c, Owner[e.slot], e)]
             /\ UNCHANGED <<store, lastPub, dn>>
  BY <1>0, HandleInputCases DEF Accept
<1>2. e.slot \in Slots /\ e.frame \in Frame /\ e.val = e.frame
  BY <1>1 DEF Exact, ExactSent, Relayed, Entry
<1>3. UNCHANGED <<queued, played>>
  BY DEF HandleInput, consoleVars
<1>4. ExactHeld'
  <2> SUFFICES ASSUME NEW r \in Peers, NEW o \in Slots, NEW g \in Frame
               PROVE  tl'[r][o][g] \in {None, g}
    BY DEF ExactHeld, Named
  <2>1. tl[r][o][g] \in {None, g}
    BY DEF Exact, ExactHeld, Named
  <2> DEFINE a == AcceptedTimeline(c, Owner[e.slot], e)
  <2>2. a[o][g] = IF o = e.slot /\ g = e.frame THEN e.val ELSE tl[c][o][g]
    BY <1>0, <1>2 DEF AcceptedTimeline
  <2> HIDE DEF a
  <2>3. tl' = tl \/ tl' = [tl EXCEPT ![c] = a]
    BY <1>1 DEF a
  <2> QED BY <1>0, <1>2, <2>1, <2>2, <2>3
<1>5. \A d \in Clients : inbox'[d] \subseteq inbox[d]
  BY <1>0, <1>1, PeersFacts
<1>6. ExactSent'
  BY <1>1, <1>5 DEF Exact, ExactSent
<1> QED BY <1>1, <1>3, <1>4, <1>6 DEF Exact, ExactPlayed, ExactStored

LEMMA NextExact ==
    ASSUME OneSlot, IInv, TypeInv', Provenance, Contiguous, Transit, Exact, [Next]_vars
    PROVE  Exact'
<1>0. /\ TypeInv /\ Host \in Peers
      /\ inbox \in [Peers -> SUBSET Entry]
      /\ dn \in [Clients -> Seq(SUBSET Entry)]
      /\ store \in [Peers -> [Frame -> Inputs]]
  BY PeersFacts DEF IInv, TypeInv, TypeOK
<1>1. ASSUME UNCHANGED <<tl, lastPub, queued, played, dn>>, store'[Host] = store[Host],
             \A c \in Clients : inbox'[c] = inbox[c]
      PROVE  Exact'
  <2>1. ExactHeld' /\ ExactPlayed'
    BY <1>1 DEF Exact, ExactHeld, ExactPlayed
  <2>2. ExactStored'
    BY <1>1 DEF Exact, ExactStored
  <2>3. ExactSent'
    BY <1>1 DEF Exact, ExactSent
  <2> QED BY <2>1, <2>2, <2>3 DEF Exact
<1>2. ASSUME NEW p \in Peers, PeerStep(p) PROVE Exact'
  <2>1. CASE Produce(p)
    BY <1>0, <2>1, ProduceExact
  <2>2. CASE HandleInput(p)
    BY <1>0, <2>2, HostInputExact, ClientInputExact DEF Peers
  <2>3. CASE RunFrame(p) \/ QueueAhead(p)
    <3>1. ExactPlayed'
      BY <2>3, PlayExact DEF Exact
    <3>2. UNCHANGED <<tl, store, lastPub, dn, inbox>>
      BY <2>3 DEF RunFrame, QueueAhead, inputVars, confirmVars
    <3> QED BY <3>1, <3>2 DEF Exact, ExactHeld, ExactStored, ExactSent
  <2>4. CASE ProduceObserver(p)
    BY <1>1, <2>4 DEF ProduceObserver, inputVars, confirmVars, consoleVars
  <2>5. CASE NoticeState(p)
    BY <1>1, <2>5 DEF NoticeState, inputVars, confirmVars, consoleVars
  <2> QED BY <1>2, <2>1, <2>2, <2>3, <2>4, <2>5 DEF PeerStep
<1>3. ASSUME NEW c \in Clients, ClientStep(c) PROVE Exact'
  <2>0. c \in Peers /\ c # Host
    BY PeersFacts
  <2>1. CASE DeliverToHost(c)
    <3>1. \A d \in Clients : inbox'[d] = inbox[d]
      BY <1>0, <2>1, PeersFacts DEF DeliverToHost
    <3> QED BY <1>1, <2>1, <3>1 DEF DeliverToHost, inputVars, confirmVars, consoleVars
  <2>2. CASE DeliverToClient(c)
    <3>1. PICK i \in 1..Len(dn[c]) :
              /\ dn' = [dn EXCEPT ![c] = After(@, i)]
              /\ inbox' = [inbox EXCEPT ![c] = dn[c][i]]
      BY <2>2 DEF DeliverToClient
    <3>2. dn[c] \in Seq(SUBSET Relayed(c))
      BY DEF Exact, ExactSent
    <3>3. After(dn[c], i) \in Seq(SUBSET Relayed(c)) /\ dn[c][i] \in SUBSET Relayed(c)
      BY <3>2, ChannelTypes
    <3>4. ASSUME NEW d \in Clients
          PROVE  dn'[d] \in Seq(SUBSET Relayed(d)) /\ inbox'[d] \subseteq Relayed(d)
      <4>1. CASE d = c
        BY <1>0, <2>0, <3>1, <3>3, <4>1
      <4>2. CASE d # c
        <5>1. dn'[d] = dn[d] /\ inbox'[d] = inbox[d]
          BY <1>0, <3>1, <4>2, PeersFacts
        <5> QED BY <5>1 DEF Exact, ExactSent
      <4> QED BY <4>1, <4>2
    <3>5. UNCHANGED <<tl, store, lastPub, queued, played>>
      BY <2>2 DEF DeliverToClient, inputVars, confirmVars, consoleVars
    <3> QED BY <3>4, <3>5 DEF Exact, ExactHeld, ExactStored, ExactPlayed, ExactSent
  <2>3. CASE ReceiveConfirmed(c)
    <3>1. tl' = tl
      BY <2>3, NothingRebuilt
    <3>2. store'[Host] = store[Host]
      BY <1>0, <2>0, <2>3 DEF ReceiveConfirmed
    <3> QED BY <1>1, <2>3, <3>1, <3>2 DEF ReceiveConfirmed, consoleVars
  <2>4. CASE ReceiveStatus(c)
    BY <1>1, <2>4 DEF ReceiveStatus, inputVars, confirmVars, consoleVars
  <2>5. CASE ReceiveSession(c)
    <3>1. store' = store \/ store' = [store EXCEPT ![c] = [f \in Frame |-> Absent]]
      BY <2>5 DEF ReceiveSession
    <3>2. store'[Host] = store[Host]
      BY <1>0, <2>0, <3>1
    <3> QED BY <1>1, <2>5, <3>2 DEF ReceiveSession, inputVars, consoleVars
  <2> QED BY <1>3, <2>1, <2>2, <2>3, <2>4, <2>5 DEF ClientStep
<1>4. CASE HostUpdate
  <2> DEFINE n == PublishableThrough(tl[Host], contig[Host])
             h == computeHostInputConfirmedFrame(tl[Host], contig[Host])
  <2>1. /\ StoreAndBroadcast(tl[Host], n)
        /\ lastPub' = MaxOf(MaxOf(conf[Host], IF n > lastPub THEN n ELSE 0), h)
        /\ UNCHANGED <<tl, queued, played, dn, inbox>>
    BY <1>4 DEF HostUpdate, inputVars, consoleVars
  <2>2. n \in Frame /\ h \in Frame /\ lastPub <= n /\ lastPub <= conf[Host]
    BY <1>0, HostInputTypes, PublishableRange, HostConfirmedType DEF IInv, Published
  <2>3. n <= lastPub'
    <3>1. n \in Nat /\ h \in Nat /\ lastPub \in Nat /\ conf[Host] \in Nat
      BY <1>0, <2>2, NumberTypes, FrameFacts
    <3> HIDE DEF n, h
    <3> QED BY <2>1, <2>2, <3>1 DEF MaxOf
  <2>4. ExactStored'
    BY <1>0, <2>1, <2>3, HostInputTypes, BroadcastExact DEF Exact, ExactHeld
  <2> QED BY <2>1, <2>4 DEF Exact, ExactHeld, ExactPlayed, ExactSent
<1>5. CASE pauseSession \/ resumeSession \/ UNCHANGED vars
  BY <1>1, <1>5 DEF pauseSession, resumeSession, vars, inputVars, confirmVars, consoleVars
<1> QED BY <1>2, <1>3, <1>4, <1>5 DEF Next

\* The invariant behind the next three theorems.
InputInv == IInv /\ Provenance /\ Contiguous /\ Transit /\ Exact

LEMMA InitInputInv == Init => InputInv
BY InitIInv, InitProvenance, InitContiguous, InitTransit, InitExact DEF InputInv

LEMMA NextInputInv ==
    ASSUME OneSlot, Covered, InputInv, [Next]_vars
    PROVE  InputInv'
<1>1. /\ IInv /\ Provenance /\ Contiguous /\ Transit /\ Exact
      /\ IInv' /\ TypeInv /\ TypeInv'
  BY NextIInv DEF InputInv, IInv
<1>2. Provenance' /\ Contiguous'
  BY <1>1, NextProvenance, NextContiguous
<1>3. Transit' /\ Exact'
  BY <1>1, NextTransit, NextExact
<1> QED BY <1>1, <1>2, <1>3 DEF InputInv

\* backfillConfirmedRemoteInputGap never runs: when every client plays at most
\* one slot and a packet repeats at least P + 2 entries, whatever packets are
\* lost the host holds for every slot and frame what was pressed, or nothing.
THEOREM InputsNeverRepeated ==
    ASSUME OneSlot, Covered
    PROVE  Spec => []NoInputRepeated
<1>1. Init => InputInv
  BY InitInputInv
<1>2. InputInv /\ [Next]_vars => InputInv'
  BY NextInputInv
<1>3. InputInv => NoInputRepeated
  BY PeersFacts DEF InputInv, Exact, ExactHeld, Named, NoInputRepeated
<1> QED BY <1>1, <1>2, <1>3, PTL DEF Spec

\* Lockstep, for every number of peers, delay and loss, pauses included: under
\* the same hypotheses two peers that emulated a frame, from published frames or
\* from their own timelines, emulated it with the same inputs.
THEOREM PlaybackAlwaysAgrees ==
    ASSUME OneSlot, Covered
    PROVE  Spec => []PlaybackAgreement
<1>1. Init => InputInv
  BY InitInputInv
<1>2. InputInv /\ [Next]_vars => InputInv'
  BY NextInputInv
<1>3. InputInv => PlaybackAgreement
  BY DEF InputInv, Exact, ExactPlayed, PlaybackAgreement
<1> QED BY <1>1, <1>2, <1>3, PTL DEF Spec


-----------------------------------------------------------------------------
\* Without pauses.  The host publishes on every input it takes, and an input
\* moves the input-confirmed frame by one at most, so that publishing keeps up
\* with it and the status never advertises more.
Advertised ==
    /\ state[Host] = "Running"
    /\ lastPub = conf[Host]
    /\ lastPub = computeHostInputConfirmedFrame(tl[Host], contig[Host])
    /\ \A f \in 0..lastPub : store[Host][f] # Absent

LEMMA InitAdvertised == Init => Advertised
<1> SUFFICES ASSUME Init PROVE Advertised
  OBVIOUS
<1>0. TypeInv
  BY InitTypeInv
<1>1. /\ state[Host] = "Running" /\ lastPub = 0 /\ conf[Host] = 0
      /\ \A s \in Slots, f \in Frame : tl[Host][s][f] = IF f = 0 THEN 0 ELSE None
      /\ \A q \in Peers : contig[Host][q] = 0
  BY PeersFacts DEF Init
<1>2. ASSUME NEW s \in Slots PROVE Reach(tl[Host], contig[Host], s) = 0
  <2>1. LatestFor(tl[Host], s) = 0
    BY <1>0, <1>1, HostInputTypes, LatestForFacts
  <2> QED BY <1>1, <2>1, OwnerAssumption DEF Reach
<1>3. computeHostInputConfirmedFrame(tl[Host], contig[Host]) = 0
  BY <1>0, <1>2, HostInputTypes, ConfirmedIsLeastReach
<1>4. store[Host][0] = Pressed(0) /\ 0 \in Frame
  BY PeersFacts, FrameFacts DEF Init, Pressed
<1>5. store[Host][0] # Absent
  BY <1>4, PressedFacts
<1> QED BY <1>1, <1>3, <1>5 DEF Advertised

\* One slot that advances by at most one moves the slowest by at most one.
LEMMA ConfirmedAdvances ==
    ASSUME NEW t \in Timelines, NEW u \in Timelines,
           NEW cg \in [Peers -> Frame], NEW ch \in [Peers -> Frame],
           \A s \in Slots : /\ Reach(t, cg, s) <= Reach(u, ch, s)
                            /\ Reach(u, ch, s) <= Reach(t, cg, s) + 1
    PROVE  /\ computeHostInputConfirmedFrame(t, cg) <= computeHostInputConfirmedFrame(u, ch)
           /\ computeHostInputConfirmedFrame(u, ch)
                <= computeHostInputConfirmedFrame(t, cg) + 1
<1> DEFINE h == computeHostInputConfirmedFrame(t, cg)
           k == computeHostInputConfirmedFrame(u, ch)
<1>1. PICK v \in Slots : h = Reach(t, cg, v)
  BY ConfirmedIsLeastReach
<1>2. PICK w \in Slots : k = Reach(u, ch, w)
  BY ConfirmedIsLeastReach
<1>3. h <= Reach(t, cg, w) /\ k <= Reach(u, ch, v)
  BY ConfirmedIsLeastReach
<1>4. \A s \in Slots : Reach(t, cg, s) \in Nat /\ Reach(u, ch, s) \in Nat
  BY ReachType, FrameFacts
<1>5. h <= k /\ k <= h + 1
  <2> HIDE DEF h, k
  <2> QED BY <1>1, <1>2, <1>3, <1>4
<1> QED BY <1>5

\* The publishing loop reaches an input-confirmed frame that is one ahead.
LEMMA PublishesThrough ==
    ASSUME lastPub \in Frame, state[Host] = "Running",
           NEW t \in Timelines, NEW cg \in [Peers -> Frame], Filled(t, cg),
           lastPub <= computeHostInputConfirmedFrame(t, cg),
           computeHostInputConfirmedFrame(t, cg) <= lastPub + 1
    PROVE  /\ PublishableThrough(t, cg) = computeHostInputConfirmedFrame(t, cg)
           /\ \A f \in 0..computeHostInputConfirmedFrame(t, cg) : Assemblable(t, f)
<1> DEFINE h == computeHostInputConfirmedFrame(t, cg)
           S == {n \in Frame :
                /\ lastPub <= n /\ n <= lastPub + MaxBatch
                /\ \A f \in (lastPub + 1)..n :
                      /\ f <= computeHostInputConfirmedFrame(t, cg)
                      /\ Assemblable(t, f)}
<1>1. /\ h \in Frame /\ h \in Nat /\ lastPub \in Nat /\ Frame \subseteq Nat
      /\ MaxBatch \in Nat /\ MaxBatch >= 1
  <2>1. h \in Frame
    BY HostConfirmedType
  <2>2. MaxBatch \in Nat /\ MaxBatch >= 1
    BY DelayAssumption
  <2> HIDE DEF h
  <2> QED BY <2>1, <2>2, FrameFacts
<1>2. ASSUME NEW f \in 0..h, NEW s \in Slots PROVE t[s][f] # None
  <2> DEFINE r == Reach(t, cg, s)
  <2>1. h <= r /\ r \in Nat
    BY ConfirmedIsLeastReach, ReachType, FrameFacts
  <2>2. f \in 0..h
    OBVIOUS
  <2>3. f \in 0..r
    <3> HIDE DEF h, r
    <3> QED BY <1>1, <2>1, <2>2
  <2> QED BY <2>3 DEF Filled
<1>3. \A f \in 0..h : Assemblable(t, f)
  BY <1>2 DEF Assemblable
<1>4. h \in S
  <2>1. lastPub <= h /\ h <= lastPub + 1
    OBVIOUS
  <2>2. h <= lastPub + MaxBatch /\ \A f \in (lastPub + 1)..h : f <= h /\ f \in 0..h
    <3> HIDE DEF h
    <3> QED BY <1>1, <2>1
  <2> QED BY <1>1, <1>3, <2>1, <2>2
<1>5. ASSUME NEW n \in S PROVE n <= h
  <2>1. n \in Nat /\ lastPub <= n /\ \A f \in (lastPub + 1)..n : f <= h
    BY <1>1
  <2>2. lastPub <= h
    OBVIOUS
  <2> HIDE DEF h, S
  <2>3. CASE n = lastPub
    BY <2>2, <2>3
  <2>4. CASE n # lastPub
    <3>1. n \in (lastPub + 1)..n
      BY <1>1, <2>1, <2>4
    <3> QED BY <2>1, <3>1
  <2> QED BY <2>3, <2>4
<1>6. S \in SUBSET Frame
  OBVIOUS
<1>7. PublishableThrough(t, cg) = Max(S)
  BY DEF PublishableThrough
<1>8. Max(S) = h
  <2> HIDE DEF h, S
  <2>1. Max(S) \in S /\ h <= Max(S) /\ Max(S) \in Nat
    BY <1>1, <1>4, <1>6, MaxFrameSet
  <2>2. Max(S) <= h
    BY <1>5, <2>1
  <2> QED BY <1>1, <2>1, <2>2
<1> QED BY <1>3, <1>7, <1>8

LEMMA PublishAdvertised ==
    ASSUME TypeInv, Advertised, NEW t \in Timelines, NEW cg \in [Peers -> Frame],
           Filled(t, cg),
           lastPub <= computeHostInputConfirmedFrame(t, cg),
           computeHostInputConfirmedFrame(t, cg) <= lastPub + 1,
           publishConfirmedFramesIfReady(t, cg)
    PROVE  /\ lastPub' = computeHostInputConfirmedFrame(t, cg)
           /\ conf'[Host] = computeHostInputConfirmedFrame(t, cg)
           /\ \A f \in 0..lastPub' : store'[Host][f] # Absent
<1> DEFINE h == computeHostInputConfirmedFrame(t, cg)
<1>1. /\ lastPub \in Frame /\ lastPub \in Nat /\ h \in Frame /\ h \in Nat
      /\ Host \in Peers /\ store \in [Peers -> [Frame -> Inputs]]
      /\ conf \in [Peers -> Frame]
  BY HostConfirmedType, FrameFacts, PeersFacts DEF TypeInv, TypeOK
<1>2. PublishableThrough(t, cg) = h /\ \A f \in 0..h : Assemblable(t, f)
  <2>1. lastPub \in Frame /\ state[Host] = "Running"
    BY <1>1 DEF Advertised
  <2> QED BY <2>1, PublishesThrough
<1>3. /\ store' = [store EXCEPT ![Host] = [f \in Frame |->
                   IF lastPub < f /\ f <= h THEN Assemble(t, f) ELSE store[Host][f]]]
      /\ lastPub' = h
      /\ conf' = [conf EXCEPT ![Host] = IF h > lastPub THEN MaxOf(@, h) ELSE @]
  BY <1>2 DEF publishConfirmedFramesIfReady, StoreAndBroadcast
<1>4. lastPub = conf[Host] /\ lastPub <= h /\ \A f \in 0..lastPub : store[Host][f] # Absent
  BY DEF Advertised
<1> HIDE DEF h
<1>5. conf'[Host] = h
  <2>1. conf'[Host] = IF h > lastPub THEN MaxOf(conf[Host], h) ELSE conf[Host]
    BY <1>1, <1>3
  <2> QED BY <1>1, <1>4, <2>1 DEF MaxOf
<1>6. ASSUME NEW f \in 0..h PROVE store'[Host][f] # Absent
  <2>1. f \in Nat /\ f \in Frame
    BY <1>1, FrameFacts
  <2>2. store'[Host][f] =
            IF lastPub < f /\ f <= h THEN Assemble(t, f) ELSE store[Host][f]
    BY <1>1, <1>3, <2>1
  <2>3. CASE lastPub < f
    <3>1. PICK s \in Slots : TRUE
      BY SlotsAssumption
    <3>2. t[s][f] # None
      BY <1>2 DEF Assemblable
    <3>3. Assemble(t, f)[s] # Absent[s]
      BY <3>2 DEF Assemble, Absent
    <3>4. f <= h
      BY <1>1
    <3> QED BY <2>2, <2>3, <3>3, <3>4
  <2>4. CASE ~(lastPub < f)
    <3>1. f \in 0..lastPub
      BY <1>1, <2>1, <2>4
    <3> QED BY <1>4, <2>2, <2>4, <3>1
  <2> QED BY <2>3, <2>4
<1>7. lastPub' = h /\ conf'[Host] = h /\ \A f \in 0..lastPub' : store'[Host][f] # Absent
  BY <1>3, <1>5, <1>6
<1> QED BY <1>7 DEF h


LEMMA NextAdvertised ==
    ASSUME OneSlot, MaxPauses = 0, InputInv, InputInv', Advertised, [Next]_vars
    PROVE  Advertised'
<1> DEFINE h == computeHostInputConfirmedFrame(tl[Host], contig[Host])
<1>0. /\ TypeInv /\ TypeInv' /\ Contiguous /\ Provenance /\ Transit /\ Exact
      /\ Host \in Peers /\ pauses \in 0..0
  BY PeersFacts DEF InputInv, IInv, TypeInv, TypeOK
<1>1. /\ tl \in [Peers -> [Slots -> [Frame -> Frame \cup {None}]]]
      /\ contig \in [Peers -> [Peers -> Frame]] /\ store \in [Peers -> [Frame -> Inputs]]
      /\ conf \in [Peers -> Frame] /\ state \in [Peers -> SessionState]
      /\ tl[Host] \in Timelines /\ contig[Host] \in [Peers -> Frame]
      /\ tl'[Host] \in Timelines /\ contig'[Host] \in [Peers -> Frame]
  <2>1. tl'[Host] \in Timelines /\ contig'[Host] \in [Peers -> Frame]
    BY <1>0 DEF TypeInv, TypeOK, BaselineHeld, Timelines
  <2> QED BY <1>0, <2>1, HostInputTypes DEF TypeInv, TypeOK
<1>2. h \in Frame /\ h \in Nat /\ lastPub = h /\ conf[Host] = h /\ state[Host] = "Running"
  BY <1>1, HostConfirmedType, FrameFacts DEF Advertised
<1>3. ASSUME tl'[Host] = tl[Host], contig'[Host] = contig[Host], lastPub' = lastPub,
             conf'[Host] = conf[Host], store'[Host] = store[Host], state'[Host] = state[Host]
      PROVE  Advertised'
  BY <1>3 DEF Advertised
<1>4. ASSUME state' = state, publishConfirmedFramesIfReady(tl'[Host], contig'[Host]),
             Filled(tl'[Host], contig'[Host]), NEW s \in Slots,
             \A o \in Slots : o # s =>
                 Reach(tl'[Host], contig'[Host], o) = Reach(tl[Host], contig[Host], o),
             Reach(tl'[Host], contig'[Host], s) = Reach(tl[Host], contig[Host], s) + 1
      PROVE  Advertised'
  <2> DEFINE k == computeHostInputConfirmedFrame(tl'[Host], contig'[Host])
  <2>1. \A o \in Slots :
            /\ Reach(tl[Host], contig[Host], o) <= Reach(tl'[Host], contig'[Host], o)
            /\ Reach(tl'[Host], contig'[Host], o) <= Reach(tl[Host], contig[Host], o) + 1
    <3>1. \A o \in Slots : Reach(tl[Host], contig[Host], o) \in Nat
      BY <1>1, ReachType, FrameFacts
    <3> QED BY <1>4, <3>1
  <2>2. h <= k /\ k <= h + 1
    BY <1>1, <2>1, ConfirmedAdvances
  <2>3. lastPub <= k /\ k <= lastPub + 1
    <3> HIDE DEF h, k
    <3> QED BY <1>2, <2>2
  <2>4. /\ lastPub' = k /\ conf'[Host] = k
        /\ \A f \in 0..lastPub' : store'[Host][f] # Absent
    BY <1>0, <1>1, <1>4, <2>3, PublishAdvertised
  <2> QED BY <1>2, <1>4, <2>4 DEF Advertised
<1>5. ASSUME NEW p \in Peers, Produce(p) PROVE Advertised'
  <2>1. PICK s \in SlotsOf(p), f \in Frame : recordLocalInputFrame(p, s, f)
    BY <1>0, <1>5, ProduceOwnSlot
  <2>2. contig' = contig /\ state' = state
    BY <1>5 DEF Produce
  <2>3. CASE tl[p][s][f] = None /\ MayRecord(p, s, f) /\ p = Host
    <3>1. /\ tl' = [tl EXCEPT ![Host][s][f] = f]
          /\ publishConfirmedFramesIfReady(tl'[Host], contig'[Host])
      BY <2>1, <2>2, <2>3 DEF recordLocalInputFrame
    <3>2. /\ \A o \in Slots : o # s =>
                 Reach(tl'[Host], contig'[Host], o) = Reach(tl[Host], contig[Host], o)
          /\ Reach(tl'[Host], contig'[Host], s) = f
          /\ Reach(tl[Host], contig[Host], s) = f - 1
          /\ Filled(tl'[Host], contig'[Host])
      BY <1>0, <2>2, <2>3, <3>1, HostRecords
    <3>3. f \in Nat /\ s \in Slots
      BY FrameFacts DEF SlotsOf
    <3>4. Reach(tl'[Host], contig'[Host], s) = Reach(tl[Host], contig[Host], s) + 1
      BY <3>2, <3>3
    <3> QED BY <1>4, <2>2, <3>1, <3>2, <3>3, <3>4
  <2>4. CASE ~(tl[p][s][f] = None /\ MayRecord(p, s, f) /\ p = Host)
    <3>1. /\ tl' = tl \/ (p # Host /\ tl' = [tl EXCEPT ![p][s][f] = f])
          /\ UNCHANGED <<conf, store, lastPub>>
      BY <2>1, <2>4 DEF recordLocalInputFrame, confirmVars
    <3>2. tl'[Host] = tl[Host]
      BY <1>0, <1>1, <3>1
    <3> QED BY <1>3, <2>2, <3>1, <3>2
  <2> QED BY <2>3, <2>4
<1>6. CASE HandleInput(Host)
  <2>1. PICK s \in Remote, e \in inbox[Host] :
             /\ e \in Entry /\ e.slot = s
             /\ \/ UNCHANGED <<tl, contig, store, lastPub, conf>>
                \/ /\ e.frame = contig[Host][Owner[s]] + 1
                   /\ Accept(Host, Owner[s], e)
                   /\ contig' = [contig EXCEPT ![Host][Owner[s]] = e.frame]
                   /\ publishConfirmedFramesIfReady(tl'[Host], contig'[Host])
    BY <1>0, <1>6, HostHandlesNext
  <2>2. state' = state
    BY <1>6 DEF HandleInput
  <2>3. CASE UNCHANGED <<tl, contig, store, lastPub, conf>>
    BY <1>3, <2>2, <2>3
  <2>4. CASE /\ e.frame = contig[Host][Owner[s]] + 1
             /\ Accept(Host, Owner[s], e)
             /\ contig' = [contig EXCEPT ![Host][Owner[s]] = e.frame]
             /\ publishConfirmedFramesIfReady(tl'[Host], contig'[Host])
    <3>1. s \in Slots /\ Owner[s] \in Peers /\ Owner[s] # Host
      BY RemoteFacts
    <3>2. /\ \A o \in Slots : o # s =>
                 Reach(tl'[Host], contig'[Host], o) = Reach(tl[Host], contig[Host], o)
          /\ Filled(tl'[Host], contig'[Host])
      BY <1>0, <2>1, <2>4, <3>1, HostAccepts
    <3>3. contig'[Host][Owner[s]] = contig[Host][Owner[s]] + 1
      BY <1>0, <1>1, <2>4, <3>1
    <3>4. Reach(tl'[Host], contig'[Host], s) = Reach(tl[Host], contig[Host], s) + 1
      BY <3>1, <3>3 DEF Reach
    <3> QED BY <1>4, <2>2, <2>4, <3>1, <3>2, <3>4
  <2> QED BY <2>1, <2>3, <2>4
<1>7. ASSUME NEW c \in Clients, HandleInput(c) PROVE Advertised'
  <2>1. PICK e \in inbox[c] :
             /\ UNCHANGED <<store, lastPub, conf>>
             /\ UNCHANGED <<tl, contig>> \/ Accept(c, Owner[e.slot], e)
    BY <1>0, <1>7, HandleInputCases, PeersFacts
  <2>2. c \in Peers /\ c # Host /\ state' = state
    BY <1>7, PeersFacts DEF HandleInput
  <2>3. tl'[Host] = tl[Host]
    BY <1>0, <1>1, <2>1, <2>2 DEF Accept
  <2>4. contig'[Host] = contig[Host]
    BY <1>0, <1>1, <2>1, <2>2 DEF Accept
  <2> QED BY <1>3, <2>1, <2>2, <2>3, <2>4
<1>8. CASE HostUpdate
  <2> DEFINE n == PublishableThrough(tl[Host], contig[Host])
  <2>1. n = h
    <3>1. /\ lastPub \in Frame /\ Filled(tl[Host], contig[Host])
      BY <1>0, HostInputTypes DEF Contiguous
    <3>2. lastPub <= h /\ h <= lastPub + 1
      <4> HIDE DEF h
      <4> QED BY <1>2
    <3> QED BY <1>1, <1>2, <3>1, <3>2, PublishesThrough
  <2>2. /\ store' = [store EXCEPT ![Host] = [f \in Frame |->
                 IF lastPub < f /\ f <= n THEN Assemble(tl[Host], f) ELSE store[Host][f]]]
        /\ lastPub' = MaxOf(MaxOf(conf[Host], IF n > lastPub THEN n ELSE 0), h)
        /\ conf' = [conf EXCEPT ![Host] = lastPub']
        /\ UNCHANGED <<tl, contig, state>>
    BY <1>8 DEF HostUpdate, StoreAndBroadcast, inputVars
  <2> HIDE DEF h, n
  <2>3. lastPub' = h
    BY <1>2, <2>1, <2>2 DEF MaxOf
  <2>4. conf'[Host] = h
    BY <1>0, <1>1, <2>2, <2>3
  <2>5. ASSUME NEW f \in 0..h PROVE store'[Host][f] # Absent
    <3>1. f \in Nat /\ f \in Frame /\ ~(lastPub < f)
      BY <1>2, FrameFacts
    <3>2. store'[Host][f] = store[Host][f]
      BY <1>0, <1>1, <2>2, <3>1
    <3> QED BY <1>2, <3>2 DEF Advertised
  <2>6. h' = h
    BY <2>2 DEF h
  <2> QED BY <1>2, <2>2, <2>3, <2>4, <2>5, <2>6 DEF Advertised, h
<1>9. ASSUME NEW p \in Peers, PeerStep(p) PROVE Advertised'
  <2>1. CASE Produce(p)
    BY <1>5, <2>1
  <2>2. CASE HandleInput(p)
    BY <1>6, <1>7, <2>2 DEF Peers
  <2>3. CASE ProduceObserver(p) \/ RunFrame(p) \/ QueueAhead(p) \/ NoticeState(p)
    BY <1>3, <2>3 DEF ProduceObserver, RunFrame, QueueAhead, NoticeState, inputVars,
       confirmVars, roomVars
  <2> QED BY <1>9, <2>1, <2>2, <2>3 DEF PeerStep
<1>10. ASSUME NEW c \in Clients, ClientStep(c) PROVE Advertised'
  <2>0. c \in Peers /\ c # Host
    BY PeersFacts
  <2>1. CASE DeliverToHost(c) \/ DeliverToClient(c)
    BY <1>3, <2>1 DEF DeliverToHost, DeliverToClient, inputVars, confirmVars, roomVars
  <2>2. CASE ReceiveConfirmed(c)
    <3>1. tl'[Host] = tl[Host] /\ UNCHANGED <<contig, lastPub, state>>
      BY <1>0, <1>1, <2>0, <2>2 DEF ReceiveConfirmed
    <3>2. store'[Host] = store[Host] /\ conf'[Host] = conf[Host]
      BY <1>0, <1>1, <2>0, <2>2 DEF ReceiveConfirmed
    <3> QED BY <1>3, <3>1, <3>2
  <2>3. CASE ReceiveStatus(c)
    <3>1. conf'[Host] = conf[Host]
      BY <1>0, <1>1, <2>0, <2>3 DEF ReceiveStatus
    <3> QED BY <1>3, <2>3, <3>1 DEF ReceiveStatus, inputVars, confirmVars
  <2>4. CASE ReceiveSession(c)
    <3>1. /\ state' = [state EXCEPT ![c] = Head(ctl[c])]
          /\ store' = store \/ store' = [store EXCEPT ![c] = [f \in Frame |-> Absent]]
          /\ conf' = conf \/ conf' = [conf EXCEPT ![c] = 0]
          /\ UNCHANGED <<tl, contig, lastPub>>
      BY <2>4 DEF ReceiveSession, inputVars
    <3>2. state'[Host] = state[Host] /\ store'[Host] = store[Host] /\ conf'[Host] = conf[Host]
      BY <1>0, <1>1, <2>0, <3>1
    <3> QED BY <1>3, <3>1, <3>2
  <2> QED BY <1>10, <2>1, <2>2, <2>3, <2>4 DEF ClientStep
<1>11. ~pauseSession /\ ~resumeSession
  BY <1>0, <1>2 DEF pauseSession, resumeSession
<1>12. CASE UNCHANGED vars
  BY <1>3, <1>12 DEF vars, inputVars, confirmVars, roomVars
<1> QED BY <1>8, <1>9, <1>10, <1>11, <1>12 DEF Next

\* Every frame advertised as confirmed was published: in a session that is never
\* paused, whatever is lost.  The run MCLockstepPauseSkips shows that a pause
\* breaks it.
THEOREM AdvertisedAlwaysPublished ==
    ASSUME OneSlot, Covered, MaxPauses = 0
    PROVE  Spec => []AdvertisedFramesPublished
<1> DEFINE Inv == InputInv /\ Advertised
<1>1. Init => Inv
  BY InitInputInv, InitAdvertised
<1>2. Inv /\ [Next]_vars => Inv'
  <2> SUFFICES ASSUME Inv, [Next]_vars PROVE Inv'
    OBVIOUS
  <2>1. InputInv'
    BY NextInputInv
  <2>2. Advertised'
    BY <2>1, NextAdvertised
  <2> QED BY <2>1, <2>2
<1>3. Inv => AdvertisedFramesPublished
  BY DEF Advertised, AdvertisedFramesPublished
<1> HIDE DEF Inv
<1> QED BY <1>1, <1>2, <1>3, PTL DEF Spec
=============================================================================
