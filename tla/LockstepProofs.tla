--------------------------- MODULE LockstepProofs ---------------------------
(***************************************************************************)
(* Proofs about Lockstep for every number of clients, slots and frames,    *)
(* every input delay and every redundancy, with and without packet loss:   *)
(* type correctness, agreement on the confirmed frames, and that clients   *)
(* stay behind what the host has reported.                                 *)
(***************************************************************************)
EXTENDS Lockstep, Extrema, SequenceTheorems, TLAPS

\* What the proofs need to know of the frame numbers.
LEMMA FrameFacts ==
    /\ Frame \subseteq Nat /\ 0 \in Frame /\ None \notin Frame
    /\ MaxFrame \in Nat /\ P \in Nat
    /\ \A n \in 0..(MaxFrame + 1) : n \in Frame
    /\ \A n \in 0..MaxFrame : n + P \in Frame
    /\ \A f \in Frame, n \in Nat : n <= f => n \in Frame
BY DelayAssumption, BoundsAssumption DEF Frame, None

LEMMA MaxFrameSet ==
    ASSUME NEW S \in SUBSET Frame, S # {}
    PROVE  Max(S) \in S /\ \A y \in S : y <= Max(S)
<1>1. MaxFrame + P \in Nat
  BY DelayAssumption, BoundsAssumption
<1> QED BY <1>1, MaxNat DEF Frame

LEMMA MinFrameSet ==
    ASSUME NEW S \in SUBSET Frame, S # {}
    PROVE  Min(S) \in S /\ \A y \in S : Min(S) <= y
BY FrameFacts, MinNat

-----------------------------------------------------------------------------
\* The operators of the model.

\* A peer's timelines, with the baseline entry of frame 0.
Timelines ==
    {t \in [Slots -> [Frame -> Frame \cup {None}]] : \A s \in Slots : t[s][0] # None}

LEMMA LatestForType ==
    ASSUME NEW t \in Timelines, NEW s \in Slots
    PROVE  LatestFor(t, s) \in Frame
<1> DEFINE S == {f \in Frame : t[s][f] # None}
<1>1. S \in SUBSET Frame /\ 0 \in S
  BY FrameFacts DEF Timelines
<1>2. Max(S) \in S
  BY <1>1, MaxFrameSet
<1> QED BY <1>2 DEF LatestFor

LEMMA HostConfirmedType ==
    ASSUME NEW t \in Timelines, NEW cg \in [Peers -> Frame]
    PROVE  computeHostInputConfirmedFrame(t, cg) \in Frame
<1>1. ASSUME NEW q \in Players PROVE LatestInput(t, cg, q) \in Frame
  <2>1. CASE q = Host
    <3> DEFINE S == {LatestFor(t, s) : s \in SlotsOf(Host)}
    <3>1. S \in SUBSET Frame
      BY LatestForType DEF SlotsOf
    <3>2. S # {}
      BY <2>1, <1>1 DEF Players, SlotsOf
    <3>3. Min(S) \in S
      BY <3>1, <3>2, MinFrameSet
    <3> QED BY <2>1, <3>1, <3>3 DEF LatestInput
  <2>2. CASE q # Host
    BY <2>2, <1>1, OwnerAssumption DEF LatestInput, Players
  <2> QED BY <2>1, <2>2
<1> DEFINE S == {LatestInput(t, cg, q) : q \in Players}
<1>2. S \in SUBSET Frame
  BY <1>1
<1>3. S # {}
  BY SlotsAssumption DEF Players
<1>4. Min(S) \in S
  BY <1>2, <1>3, MinFrameSet
<1> QED BY <1>2, <1>4 DEF computeHostInputConfirmedFrame

\* The publishing loop never moves back, and every frame it passes can be
\* assembled.
LEMMA PublishableRange ==
    ASSUME lastPub \in Frame, NEW t \in Timelines, NEW cg \in [Peers -> Frame]
    PROVE  /\ PublishableThrough(t, cg) \in Frame
           /\ lastPub <= PublishableThrough(t, cg)
<1>1. CASE state[Host] # "Running"
  BY <1>1, FrameFacts DEF PublishableThrough
<1>2. CASE state[Host] = "Running"
  <2> DEFINE S == {n \in Frame :
                /\ lastPub <= n /\ n <= lastPub + MaxBatch
                /\ \A f \in (lastPub + 1)..n :
                      /\ f <= computeHostInputConfirmedFrame(t, cg)
                      /\ Assemblable(t, f)}
  <2>1. S \in SUBSET Frame
    OBVIOUS
  <2>2. lastPub \in S
    BY FrameFacts, DelayAssumption
  <2>3. Max(S) \in S
    BY <2>1, <2>2, MaxFrameSet
  <2>4. PublishableThrough(t, cg) = Max(S)
    BY <1>2 DEF PublishableThrough
  <2> QED BY <2>3, <2>4
<1> QED BY <1>1, <1>2

LEMMA AdvanceContiguousType ==
    ASSUME NEW t \in Timelines, NEW q \in Peers, NEW n \in Frame
    PROVE  AdvanceContiguous(t, q, n) \in Frame
<1> DEFINE S == {m \in Frame :
            n <= m /\ \A f \in (n + 1)..m : \A s \in SlotsOf(q) : t[s][f] # None}
<1>1. S \in SUBSET Frame /\ n \in S
  BY FrameFacts
<1>2. Max(S) \in S
  BY <1>1, MaxFrameSet
<1> QED BY <1>2 DEF AdvanceContiguous

LEMMA AssembleType ==
    ASSUME NEW t \in Timelines, NEW f \in Frame
    PROVE  Assemble(t, f) \in Inputs
BY DEF Assemble, Inputs, Timelines

\* Sending and delivering keep the messages of a channel in their set.
LEMMA ChannelTypes ==
    ASSUME NEW M, NEW q \in Seq(M)
    PROVE  /\ \A m \in M : Send(q, m) \in Seq(M)
           /\ \A i \in 1..Len(q) : After(q, i) \in Seq(M) /\ q[i] \in M
<1>1. ASSUME NEW m \in M PROVE Send(q, m) \in Seq(M)
  <2>1. CASE Lossy /\ Len(q) >= MaxInFlight /\ q = << >>
    BY <2>1 DEF Send
  <2>2. CASE Lossy /\ Len(q) >= MaxInFlight /\ q # << >>
    BY <2>2 DEF Send
  <2>3. CASE ~(Lossy /\ Len(q) >= MaxInFlight)
    BY <2>3 DEF Send
  <2> QED BY <2>1, <2>2, <2>3
<1>2. ASSUME NEW i \in 1..Len(q) PROVE After(q, i) \in Seq(M) /\ q[i] \in M
  <2>1. After(q, i) \in Seq(M)
    BY SubSeqProperties DEF After
  <2> QED BY <2>1
<1> QED BY <1>1, <1>2

-----------------------------------------------------------------------------
\* Type correctness.  The baseline entry of frame 0 is what makes the newest
\* entry of a slot, and with it every Max and Min of the model, well defined.
BaselineHeld == \A p \in Peers, s \in Slots : tl[p][s][0] # None
TypeInv == TypeOK /\ BaselineHeld

LEMMA TimelinesOfPeers ==
    ASSUME TypeInv, NEW p \in Peers
    PROVE  tl[p] \in Timelines
BY DEF TypeInv, TypeOK, BaselineHeld, Timelines

LEMMA PeersFacts == Host \in Peers /\ Clients \subseteq Peers /\ \A c \in Clients : c # Host
BY ClientsAssumption DEF Peers

LEMMA InitTypeInv == Init => TypeInv
<1> SUFFICES ASSUME Init PROVE TypeInv
  OBVIOUS
<1>1. [s \in Slots |-> 0] \in Inputs /\ Absent \in Inputs
  BY FrameFacts DEF Inputs, Absent
<1>2. TypeOK
  BY <1>1, FrameFacts, PeersFacts, BoundsAssumption
  DEF Init, TypeOK, SessionState
<1>3. BaselineHeld
  BY FrameFacts DEF Init, BaselineHeld
<1> QED BY <1>2, <1>3 DEF TypeInv

\* Storing and broadcasting frames of well-typed timelines.
LEMMA BroadcastType ==
    ASSUME TypeInv, NEW t \in Timelines, NEW n \in Frame, lastPub <= n,
           StoreAndBroadcast(t, n)
    PROVE  /\ store' \in [Peers -> [Frame -> Inputs]]
           /\ back' \in [Peers -> Frame]
           /\ cf' \in [Clients -> Seq(Batch)]
<1>1. store' \in [Peers -> [Frame -> Inputs]]
  <2> DEFINE h == [f \in Frame |-> IF lastPub < f /\ f <= n
                                   THEN Assemble(t, f) ELSE store[Host][f]]
  <2>1. h \in [Frame -> Inputs]
    BY AssembleType, PeersFacts DEF TypeInv, TypeOK
  <2>2. store' = [store EXCEPT ![Host] = h]
    BY DEF StoreAndBroadcast
  <2> HIDE DEF h
  <2> QED BY <2>1, <2>2 DEF TypeInv, TypeOK
<1>2. back' \in [Peers -> Frame]
  BY PeersFacts DEF StoreAndBroadcast, TypeInv, TypeOK
<1>3. CASE n > lastPub
  <2> DEFINE m == [f \in (lastPub + 1)..n |-> Assemble(t, f)]
  <2>1. (lastPub + 1)..n \in (SUBSET Frame) \ {{}}
    <3>1. \A f \in (lastPub + 1)..n : f \in Frame
      BY FrameFacts DEF TypeInv, TypeOK
    <3>2. n \in (lastPub + 1)..n
      BY <1>3, FrameFacts DEF TypeInv, TypeOK
    <3> QED BY <3>1, <3>2
  <2>2. m \in [(lastPub + 1)..n -> Inputs]
    BY <2>1, AssembleType
  <2>3. m \in Batch
    BY <2>1, <2>2 DEF Batch
  <2>4. cf' = [c \in Clients |-> Append(cf[c], m)]
    BY <1>3 DEF StoreAndBroadcast
  <2> HIDE DEF m
  <2> QED BY <1>1, <1>2, <2>3, <2>4 DEF TypeInv, TypeOK
<1>4. CASE ~(n > lastPub)
  BY <1>1, <1>2, <1>4 DEF StoreAndBroadcast, TypeInv, TypeOK
<1> QED BY <1>3, <1>4

LEMMA PublishType ==
    ASSUME TypeInv, NEW t \in Timelines, NEW cg \in [Peers -> Frame],
           publishConfirmedFramesIfReady(t, cg)
    PROVE  /\ store' \in [Peers -> [Frame -> Inputs]]
           /\ back' \in [Peers -> Frame]
           /\ cf' \in [Clients -> Seq(Batch)]
           /\ lastPub' \in Frame
           /\ conf' \in [Peers -> Frame]
<1> DEFINE n == PublishableThrough(t, cg)
<1>1. n \in Frame /\ lastPub <= n
  BY PublishableRange DEF TypeInv, TypeOK
<1>2. /\ StoreAndBroadcast(t, n)
      /\ lastPub' = n
      /\ conf' = [conf EXCEPT ![Host] = IF n > lastPub THEN MaxOf(@, n) ELSE @]
  BY DEF publishConfirmedFramesIfReady
<1> HIDE DEF n
<1>3. lastPub' \in Frame /\ conf' \in [Peers -> Frame]
  BY <1>1, <1>2, PeersFacts DEF TypeInv, TypeOK, MaxOf
<1> QED BY <1>1, <1>2, <1>3, BroadcastType

LEMMA PacketType ==
    ASSUME NEW p \in Peers, NEW s \in Slots, NEW f \in Frame,
           (tl \in [Peers -> Timelines])', (sq \in [Slots -> [Frame -> Nat]])'
    PROVE  PacketFor(p, s, f) \in SUBSET Entry
<1> SUFFICES ASSUME NEW g \in Window(p, s, f)
             PROVE  [slot |-> s, frame |-> g, seq |-> sq'[s][g], val |-> tl'[p][s][g]]
                        \in Entry
  BY DEF PacketFor
<1>1. g \in Frame /\ tl'[p][s][g] # None
  BY DEF Window
<1>2. tl'[p][s][g] \in Frame /\ sq'[s][g] \in Nat
  BY <1>1 DEF Timelines
<1> QED BY <1>1, <1>2 DEF Entry

LEMMA RecordType ==
    ASSUME TypeInv, NEW p \in Peers, NEW s \in Slots, NEW f \in Frame,
           recordLocalInputFrame(p, s, f)
    PROVE  /\ tl' \in [Peers -> Timelines]
           /\ sq' \in [Slots -> [Frame -> Nat]]
           /\ localSeq' \in [Peers -> Nat]
           /\ up' \in [Clients -> Seq(SUBSET Entry)]
           /\ dn' \in [Clients -> Seq(SUBSET Entry)]
           /\ store' \in [Peers -> [Frame -> Inputs]]
           /\ back' \in [Peers -> Frame]
           /\ cf' \in [Clients -> Seq(Batch)]
           /\ lastPub' \in Frame
           /\ conf' \in [Peers -> Frame]
<1>0. tl \in [Peers -> Timelines]
  BY DEF TypeInv, TypeOK, BaselineHeld, Timelines
<1>1. CASE tl[p][s][f] = None /\ MayRecord(p, s, f)
  <2>1. /\ tl' = [tl EXCEPT ![p][s][f] = f]
        /\ sq' = [sq EXCEPT ![s][f] = localSeq[p] + 1]
        /\ localSeq' = [localSeq EXCEPT ![p] = @ + 1]
    BY <1>1 DEF recordLocalInputFrame
  <2>2. tl' \in [Peers -> Timelines]
    <3>1. [tl[p] EXCEPT ![s][f] = f] \in Timelines
      <4> DEFINE t == tl[p]
                 row == [t[s] EXCEPT ![f] = f]
      <4>1. t \in Timelines /\ row \in [Frame -> Frame \cup {None}]
        BY <1>0 DEF Timelines
      <4>2. row[0] # None
        BY <4>1, FrameFacts DEF Timelines
      <4>3. [tl[p] EXCEPT ![s][f] = f] = [t EXCEPT ![s] = row]
        OBVIOUS
      <4> HIDE DEF row
      <4> QED BY <4>1, <4>2, <4>3 DEF Timelines
    <3>2. tl' = [tl EXCEPT ![p] = [tl[p] EXCEPT ![s][f] = f]]
      BY <2>1
    <3> QED BY <1>0, <3>1, <3>2
  <2>3. sq' \in [Slots -> [Frame -> Nat]] /\ localSeq' \in [Peers -> Nat]
    BY <2>1 DEF TypeInv, TypeOK
  <2>4. PacketFor(p, s, f) \in SUBSET Entry
    BY <2>2, <2>3, PacketType
  <2>5. CASE p = Host
    <3>1. /\ dn' = [c \in Clients |-> Send(dn[c], PacketFor(p, s, f))]
          /\ up' = up
          /\ publishConfirmedFramesIfReady(tl'[Host], contig[Host])
      BY <1>1, <2>5 DEF recordLocalInputFrame
    <3>2. dn' \in [Clients -> Seq(SUBSET Entry)]
      BY <2>4, <3>1, ChannelTypes DEF TypeInv, TypeOK
    <3>3. tl'[Host] \in Timelines /\ contig[Host] \in [Peers -> Frame]
      BY <2>2, PeersFacts DEF TypeInv, TypeOK
    <3> QED BY <2>2, <2>3, <3>1, <3>2, <3>3, PublishType DEF TypeInv, TypeOK
  <2>6. CASE p # Host
    <3>1. /\ up' = [up EXCEPT ![p] = Send(@, PacketFor(p, s, f))]
          /\ UNCHANGED <<dn, confirmVars, conf, cf>>
      BY <1>1, <2>6 DEF recordLocalInputFrame
    <3>2. p \in Clients
      BY <2>6 DEF Peers
    <3>3. up' \in [Clients -> Seq(SUBSET Entry)]
      BY <2>4, <3>1, <3>2, ChannelTypes DEF TypeInv, TypeOK
    <3> QED BY <2>2, <2>3, <3>1, <3>3 DEF TypeInv, TypeOK, confirmVars
  <2> QED BY <2>5, <2>6
<1>2. CASE ~(tl[p][s][f] = None /\ MayRecord(p, s, f))
  <2>1. UNCHANGED <<tl, sq, localSeq, up, dn, confirmVars, conf, cf>>
    BY <1>2 DEF recordLocalInputFrame
  <2> QED BY <1>0, <2>1 DEF TypeInv, TypeOK, confirmVars
<1> QED BY <1>1, <1>2

\* A gap is filled with entries of the slot itself.
LEMMA RepeatedType ==
    ASSUME NEW t \in Timelines, NEW s \in Slots, NEW from \in Nat, NEW g \in Frame
    PROVE  Repeated(t, s, from, g) \in Frame
<1> DEFINE held == {h \in Frame : from <= h /\ h < g /\ t[s][h] # None}
           all == {h \in Frame : t[s][h] # None}
           S == IF held = {} THEN all ELSE held
<1>1. 0 \in all
  BY FrameFacts DEF Timelines
<1>2. S \in SUBSET Frame /\ S # {} /\ \A h \in S : t[s][h] # None
  BY <1>1
<1> HIDE DEF S
<1>3. Max(S) \in S
  BY <1>2, MaxFrameSet
<1>4. Repeated(t, s, from, g) = t[s][Max(S)]
  BY DEF Repeated, S
<1> QED BY <1>2, <1>3, <1>4 DEF Timelines

LEMMA AcceptedTimelineType ==
    ASSUME TypeInv, NEW p \in Peers, NEW q \in Peers, NEW e \in Entry
    PROVE  AcceptedTimeline(p, q, e) \in Timelines
<1> DEFINE row == [f \in Frame |->
        IF f = e.frame THEN e.val
        ELSE IF /\ p = Host /\ Rebased(p, q, e) /\ tl[p][e.slot][f] = None
                /\ ExpectedFrame(p, q) <= f /\ f < e.frame
             THEN Repeated(tl[p], e.slot, ExpectedFrame(p, q), f)
             ELSE tl[p][e.slot][f]]
<1>1. /\ tl[p] \in Timelines
      /\ e.slot \in Slots /\ e.frame \in Frame /\ e.val \in Frame
      /\ ExpectedFrame(p, q) \in Nat
  <2>1. contig[p][q] \in Frame
    BY DEF TypeInv, TypeOK
  <2>2. contig[p][q] \in Nat
    BY <2>1, FrameFacts
  <2>3. ExpectedFrame(p, q) \in Nat
    BY <2>2 DEF ExpectedFrame
  <2> QED BY <2>3, TimelinesOfPeers DEF Entry
<1>2. \A f \in Frame : Repeated(tl[p], e.slot, ExpectedFrame(p, q), f) \in Frame
  BY <1>1, RepeatedType
<1>3. row \in [Frame -> Frame \cup {None}]
  BY <1>1, <1>2 DEF Timelines
<1>4. row[0] # None
  BY <1>1, <1>2, FrameFacts DEF Timelines
<1>5. AcceptedTimeline(p, q, e) = [tl[p] EXCEPT ![e.slot] = row]
  BY DEF AcceptedTimeline
<1> HIDE DEF row
<1> QED BY <1>1, <1>3, <1>4, <1>5 DEF Timelines

LEMMA AcceptType ==
    ASSUME TypeInv, NEW p \in Peers, NEW q \in Peers, NEW e \in Entry, Accept(p, q, e)
    PROVE  /\ tl' \in [Peers -> Timelines]
           /\ contig' \in [Peers -> [Peers -> Frame]]
           /\ rseq' \in [Peers -> [Peers -> Nat]]
           /\ rebase' \in [Peers -> [Peers -> BOOLEAN]]
<1> DEFINE n == IF Rebased(p, q, e) /\ e.frame > ExpectedFrame(p, q)
                THEN e.frame - 1 ELSE contig[p][q]
<1>0. tl \in [Peers -> Timelines]
  BY DEF TypeInv, TypeOK, BaselineHeld, Timelines
<1>1. AcceptedTimeline(p, q, e) \in Timelines
  BY AcceptedTimelineType
<1>2. n \in Frame
  <2>1. contig[p][q] \in Frame /\ e.frame \in Frame
    BY DEF TypeInv, TypeOK, Entry
  <2>2. ASSUME e.frame > contig[p][q] + 1 PROVE e.frame - 1 \in Frame
    <3>1. e.frame \in Nat /\ contig[p][q] \in Nat
      BY <2>1, FrameFacts
    <3>2. e.frame - 1 \in Nat /\ e.frame - 1 <= e.frame
      BY <2>2, <3>1
    <3> QED BY <2>1, <3>2, FrameFacts
  <2> QED BY <2>1, <2>2 DEF ExpectedFrame
<1>3. AdvanceContiguous(AcceptedTimeline(p, q, e), q, n) \in Frame
  BY <1>1, <1>2, AdvanceContiguousType
<1>4. contig' = [contig EXCEPT ![p][q] = AdvanceContiguous(AcceptedTimeline(p, q, e), q, n)]
  BY DEF Accept
<1>5. contig' \in [Peers -> [Peers -> Frame]]
  BY <1>3, <1>4 DEF TypeInv, TypeOK
<1>6. tl' \in [Peers -> Timelines]
  BY <1>0, <1>1 DEF Accept
<1>7. rseq' \in [Peers -> [Peers -> Nat]]
  <2> DEFINE v == IF Rebased(p, q, e) THEN e.seq ELSE MaxOf(rseq[p][q], e.seq)
  <2>1. rseq[p][q] \in Nat /\ e.seq \in Nat
    BY DEF TypeInv, TypeOK, Entry
  <2>2. v \in Nat
    BY <2>1 DEF MaxOf
  <2>3. rseq' = [rseq EXCEPT ![p][q] = v]
    BY DEF Accept
  <2> HIDE DEF v
  <2> QED BY <2>2, <2>3 DEF TypeInv, TypeOK
<1>8. rebase' \in [Peers -> [Peers -> BOOLEAN]]
  BY DEF Accept, TypeInv, TypeOK
<1> QED BY <1>5, <1>6, <1>7, <1>8

\* The variables HandleInput can change.
LEMMA HandleInputType ==
    ASSUME TypeInv, NEW p \in Peers, HandleInput(p)
    PROVE  TypeInv'
<1>1. PICK e \in inbox[p] :
        LET q == Owner[e.slot]
        IN  /\ inbox' = [inbox EXCEPT ![p] = @ \ {e}]
            /\ \/ UNCHANGED <<tl, contig, rseq, rebase, confirmVars, conf, dn, cf>>
               \/ /\ rseq' = [rseq EXCEPT ![p][q] = MaxOf(@, e.seq)]
                  /\ rebase' = [rebase EXCEPT ![p][q] = FALSE]
                  /\ UNCHANGED <<tl, contig, confirmVars, conf, dn, cf>>
               \/ /\ Accept(p, q, e)
                  /\ IF p = Host
                     THEN /\ dn' = [c \in Clients |->
                                 IF c = q THEN dn[c] ELSE Send(dn[c], {e})]
                          /\ publishConfirmedFramesIfReady(tl'[Host], contig'[Host])
                     ELSE UNCHANGED <<dn, confirmVars, conf, cf>>
  BY DEF HandleInput
<1> DEFINE q == Owner[e.slot]
<1>2. e \in Entry /\ q \in Peers
  <2>1. e \in Entry
    BY <1>1 DEF TypeInv, TypeOK
  <2>2. e.slot \in Slots
    BY <2>1 DEF Entry
  <2> QED BY <2>1, <2>2, OwnerAssumption
<1>3. UNCHANGED <<sq, localSeq, driverVars, cur, state, seen, consoleVars, pauses, up, st, ctl>>
  BY DEF HandleInput
<1>4. inbox' \in [Peers -> SUBSET Entry]
  BY <1>1 DEF TypeInv, TypeOK
<1>5. CASE UNCHANGED <<tl, contig, rseq, rebase, confirmVars, conf, dn, cf>>
  BY <1>3, <1>4, <1>5
  DEF TypeInv, TypeOK, BaselineHeld, driverVars, consoleVars, confirmVars
<1>6. CASE /\ rseq' = [rseq EXCEPT ![p][q] = MaxOf(@, e.seq)]
           /\ rebase' = [rebase EXCEPT ![p][q] = FALSE]
           /\ UNCHANGED <<tl, contig, confirmVars, conf, dn, cf>>
  <2>1. rseq' \in [Peers -> [Peers -> Nat]] /\ rebase' \in [Peers -> [Peers -> BOOLEAN]]
    BY <1>2, <1>6 DEF TypeInv, TypeOK, MaxOf, Entry
  <2> QED BY <1>3, <1>4, <1>6, <2>1
      DEF TypeInv, TypeOK, BaselineHeld, driverVars, consoleVars, confirmVars
<1>7. CASE /\ Accept(p, q, e)
           /\ IF p = Host
              THEN /\ dn' = [c \in Clients |->
                          IF c = q THEN dn[c] ELSE Send(dn[c], {e})]
                   /\ publishConfirmedFramesIfReady(tl'[Host], contig'[Host])
              ELSE UNCHANGED <<dn, confirmVars, conf, cf>>
  <2>1. /\ tl' \in [Peers -> Timelines]
        /\ contig' \in [Peers -> [Peers -> Frame]]
        /\ rseq' \in [Peers -> [Peers -> Nat]]
        /\ rebase' \in [Peers -> [Peers -> BOOLEAN]]
    BY <1>2, <1>7, AcceptType
  <2>2. /\ tl' \in [Peers -> [Slots -> [Frame -> Frame \cup {None}]]]
        /\ BaselineHeld'
    BY <2>1 DEF Timelines, BaselineHeld
  <2>3. /\ store' \in [Peers -> [Frame -> Inputs]]
        /\ back' \in [Peers -> Frame]
        /\ cf' \in [Clients -> Seq(Batch)]
        /\ lastPub' \in Frame
        /\ conf' \in [Peers -> Frame]
        /\ dn' \in [Clients -> Seq(SUBSET Entry)]
    <3>1. CASE p = Host
      <4>1. tl'[Host] \in Timelines /\ contig'[Host] \in [Peers -> Frame]
        BY <2>1, PeersFacts
      <4>2. dn' \in [Clients -> Seq(SUBSET Entry)]
        <5>1. \A c \in Clients : dn[c] \in Seq(SUBSET Entry)
          BY DEF TypeInv, TypeOK
        <5>2. \A c \in Clients : Send(dn[c], {e}) \in Seq(SUBSET Entry)
          BY <1>2, <5>1, ChannelTypes
        <5> QED BY <1>7, <3>1, <5>1, <5>2
      <4> QED BY <1>7, <3>1, <4>1, <4>2, PublishType
    <3>2. CASE p # Host
      BY <1>7, <3>2 DEF TypeInv, TypeOK, confirmVars
    <3> QED BY <3>1, <3>2
  <2> QED BY <1>3, <1>4, <2>1, <2>2, <2>3
      DEF TypeInv, TypeOK, driverVars, consoleVars
<1> QED BY <1>1, <1>5, <1>6, <1>7

LEMMA ProduceType ==
    ASSUME TypeInv, NEW p \in Peers, Produce(p)
    PROVE  TypeInv'
<1>1. PICK s \in Slots, f \in Frame, left \in SUBSET Slots :
          /\ produced' = [produced EXCEPT ![p] = f]
          /\ todo' = [todo EXCEPT ![p] = left \ {s}]
          /\ recordLocalInputFrame(p, s, f)
  BY DEF Produce
<1>2. UNCHANGED <<contig, rseq, rebase, cur, state, seen, consoleVars, inbox,
                  pauses, st, ctl>>
  BY DEF Produce
<1>3. /\ tl' \in [Peers -> Timelines]
      /\ sq' \in [Slots -> [Frame -> Nat]]
      /\ localSeq' \in [Peers -> Nat]
      /\ up' \in [Clients -> Seq(SUBSET Entry)]
      /\ dn' \in [Clients -> Seq(SUBSET Entry)]
      /\ store' \in [Peers -> [Frame -> Inputs]]
      /\ back' \in [Peers -> Frame]
      /\ cf' \in [Clients -> Seq(Batch)]
      /\ lastPub' \in Frame
      /\ conf' \in [Peers -> Frame]
  BY <1>1, RecordType
<1>4. tl' \in [Peers -> [Slots -> [Frame -> Frame \cup {None}]]] /\ BaselineHeld'
  BY <1>3 DEF Timelines, BaselineHeld
<1>5. produced' \in [Peers -> Frame] /\ todo' \in [Peers -> SUBSET Slots]
  BY <1>1 DEF TypeInv, TypeOK
<1> QED BY <1>2, <1>3, <1>4, <1>5 DEF TypeInv, TypeOK, consoleVars

LEMMA ReceiveConfirmedType ==
    ASSUME TypeInv, NEW c \in Clients, ReceiveConfirmed(c)
    PROVE  TypeInv'
<1> DEFINE m == Head(cf[c])
           last == Max(DOMAIN m)
           row(s) == [f \in Frame |->
                   IF Rebuilds(c, m, s, f) THEN m[f][s] ELSE tl[c][s][f]]
<1>1. cf[c] \in Seq(Batch) /\ cf[c] # << >> /\ c \in Peers
  BY PeersFacts DEF ReceiveConfirmed, TypeInv, TypeOK
<1>2. m \in Batch
  BY <1>1
<1>3. PICK D \in (SUBSET Frame) \ {{}} : m \in [D -> Inputs]
  BY <1>2 DEF Batch
<1>4. DOMAIN m = D /\ last \in D /\ last \in Frame
  BY <1>3, MaxFrameSet
<1>5. store' \in [Peers -> [Frame -> Inputs]]
  <2> DEFINE h == [f \in Frame |-> IF f \in DOMAIN m THEN m[f] ELSE store[c][f]]
  <2>1. h \in [Frame -> Inputs]
    BY <1>1, <1>3, <1>4 DEF TypeInv, TypeOK
  <2>2. store' = [store EXCEPT ![c] = h]
    BY DEF ReceiveConfirmed
  <2> HIDE DEF h
  <2> QED BY <2>1, <2>2 DEF TypeInv, TypeOK
<1>6. back' \in [Peers -> Frame] /\ conf' \in [Peers -> Frame]
  BY <1>1, <1>4 DEF ReceiveConfirmed, TypeInv, TypeOK, MaxOf
<1>7. ASSUME NEW s \in Slots PROVE row(s) \in [Frame -> Frame \cup {None}] /\ row(s)[0] # None
  <2>1. ASSUME NEW f \in D PROVE m[f][s] \in Frame \cup {None}
    BY <1>3, <2>1 DEF Inputs
  <2>2. tl[c][s] \in [Frame -> Frame \cup {None}] /\ tl[c][s][0] # None
    BY <1>1 DEF TypeInv, TypeOK, BaselineHeld
  <2> QED BY <1>4, <2>1, <2>2, FrameFacts DEF Rebuilds
<1>8. tl' = [tl EXCEPT ![c] = [s \in Slots |-> row(s)]]
  BY DEF ReceiveConfirmed
<1>9. tl' \in [Peers -> [Slots -> [Frame -> Frame \cup {None}]]] /\ BaselineHeld'
  <2> HIDE DEF row
  <2>1. [s \in Slots |-> row(s)] \in [Slots -> [Frame -> Frame \cup {None}]]
    BY <1>7
  <2>2. tl' \in [Peers -> [Slots -> [Frame -> Frame \cup {None}]]]
    BY <1>8, <2>1 DEF TypeInv, TypeOK
  <2>3. BaselineHeld'
    BY <1>1, <1>7, <1>8 DEF TypeInv, TypeOK, BaselineHeld
  <2> QED BY <2>2, <2>3
<1>10. cf' \in [Clients -> Seq(Batch)]
  <2>1. Tail(cf[c]) \in Seq(Batch)
    BY <1>1
  <2> QED BY <2>1 DEF ReceiveConfirmed, TypeInv, TypeOK
<1>11. UNCHANGED <<localSeq, contig, rseq, rebase, driverVars, lastPub, cur,
                   state, seen, consoleVars, inbox, up, dn, st, ctl, pauses>>
  BY DEF ReceiveConfirmed
<1>12. sq' \in [Slots -> [Frame -> Nat]]
  <2> DEFINE seq(s, f) == IF Rebuilds(c, m, s, f) THEN localSeq[c] ELSE sq[s][f]
  <2>1. \A s \in Slots : \A f \in Frame : seq(s, f) \in Nat
    BY <1>1 DEF TypeInv, TypeOK
  <2>2. sq' = [s \in Slots |-> [f \in Frame |-> seq(s, f)]]
    BY DEF ReceiveConfirmed
  <2> HIDE DEF seq
  <2> QED BY <2>1, <2>2
<1> QED BY <1>5, <1>6, <1>9, <1>10, <1>11, <1>12
    DEF TypeInv, TypeOK, driverVars, consoleVars

\* What the host's tick broadcasts and advertises.
LEMMA HostUpdateFacts ==
    ASSUME TypeInv, HostUpdate
    PROVE  \E n \in Frame, k \in Frame :
              /\ StoreAndBroadcast(tl[Host], n)
              /\ lastPub <= n
              /\ n > lastPub => n <= k
              /\ conf[Host] <= k
              /\ lastPub' = k
              /\ conf' = [conf EXCEPT ![Host] = k]
              /\ cur' = [cur EXCEPT ![Host] = sim[Host]]
              /\ st' = [c \in Clients |-> Send(st[c], [cur |-> sim[Host], conf |-> k])]
<1> DEFINE n == PublishableThrough(tl[Host], contig[Host])
           h == computeHostInputConfirmedFrame(tl[Host], contig[Host])
           published == MaxOf(conf[Host], IF n > lastPub THEN n ELSE 0)
           k == MaxOf(published, h)
<1>1. tl[Host] \in Timelines /\ contig[Host] \in [Peers -> Frame] /\ lastPub \in Frame
  BY TimelinesOfPeers, PeersFacts DEF TypeInv, TypeOK
<1>2. n \in Frame /\ lastPub <= n /\ h \in Frame
  BY <1>1, PublishableRange, HostConfirmedType
<1>3. /\ StoreAndBroadcast(tl[Host], n)
      /\ lastPub' = k
      /\ conf' = [conf EXCEPT ![Host] = k]
      /\ cur' = [cur EXCEPT ![Host] = sim[Host]]
      /\ st' = [c \in Clients |-> Send(st[c], [cur |-> sim[Host], conf |-> k])]
  BY DEF HostUpdate
<1>4. conf[Host] \in Frame
  BY PeersFacts DEF TypeInv, TypeOK
<1> HIDE DEF n, h
<1>5. conf[Host] \in Nat /\ n \in Nat /\ h \in Nat /\ lastPub \in Nat
  BY <1>1, <1>2, <1>4, FrameFacts
<1>6. k \in {conf[Host], n, 0, h} /\ conf[Host] <= k /\ (n > lastPub => n <= k)
  BY <1>5 DEF MaxOf
<1>7. k \in Frame
  BY <1>2, <1>4, <1>6, FrameFacts
<1> HIDE DEF k
<1> QED BY <1>2, <1>3, <1>6, <1>7

LEMMA HostUpdateType ==
    ASSUME TypeInv, HostUpdate
    PROVE  TypeInv'
<1>1. PICK n \in Frame, k \in Frame :
              /\ StoreAndBroadcast(tl[Host], n)
              /\ lastPub <= n
              /\ lastPub' = k
              /\ conf' = [conf EXCEPT ![Host] = k]
              /\ cur' = [cur EXCEPT ![Host] = sim[Host]]
              /\ st' = [c \in Clients |-> Send(st[c], [cur |-> sim[Host], conf |-> k])]
  BY HostUpdateFacts
<1>2. /\ store' \in [Peers -> [Frame -> Inputs]]
      /\ back' \in [Peers -> Frame]
      /\ cf' \in [Clients -> Seq(Batch)]
  BY <1>1, BroadcastType, TimelinesOfPeers, PeersFacts
<1>3. sim[Host] \in Frame
  BY PeersFacts, FrameFacts DEF TypeInv, TypeOK
<1>4. [cur |-> sim[Host], conf |-> k] \in Status
  BY <1>3 DEF Status
<1>5. st' \in [Clients -> Seq(Status)]
  <2>1. \A c \in Clients : st[c] \in Seq(Status)
    BY DEF TypeInv, TypeOK
  <2>2. \A c \in Clients : Send(st[c], [cur |-> sim[Host], conf |-> k]) \in Seq(Status)
    BY <1>4, <2>1, ChannelTypes
  <2> QED BY <1>1, <2>2
<1>6. conf' \in [Peers -> Frame] /\ cur' \in [Peers -> Frame]
  BY <1>1, <1>3 DEF TypeInv, TypeOK
<1>7. UNCHANGED <<inputVars, driverVars, state, seen, consoleVars, inbox,
                  pauses, up, dn, ctl>>
  BY DEF HostUpdate
<1> QED BY <1>1, <1>2, <1>5, <1>6, <1>7
    DEF TypeInv, TypeOK, BaselineHeld, inputVars, driverVars, consoleVars

LEMMA PlayableType ==
    ASSUME TypeInv, NEW p \in Peers
    PROVE  Playable(p) \in [Frame -> Inputs]
<1>1. Absent \in Inputs
  BY DEF Absent, Inputs
<1>2. \A f \in Frame : Build(p, f) \in Inputs
  <2>1. \A f \in Frame : Assemble(tl[p], f) \in Inputs
    BY TimelinesOfPeers, AssembleType
  <2> QED BY <1>1, <2>1 DEF Build, TypeInv, TypeOK
<1> QED BY <1>2 DEF Playable, TypeInv, TypeOK

LEMMA RunFrameType ==
    ASSUME TypeInv, NEW p \in Peers, RunFrame(p)
    PROVE  TypeInv'
<1> DEFINE pl == Playable(p)
<1>1. pl \in [Frame -> Inputs] /\ sim[p] \in 0..MaxFrame /\ sim[p] \in Frame
  <2>1. pl \in [Frame -> Inputs]
    BY PlayableType
  <2>2. sim[p] \in 0..(MaxFrame + 1) /\ sim[p] <= MaxFrame
    BY DEF RunFrame, TypeInv, TypeOK
  <2> QED BY <2>1, <2>2, FrameFacts
<1>2. /\ played' = [played EXCEPT ![p][sim[p]] = pl[sim[p]]]
      /\ queued' = [queued EXCEPT ![p] = [pl EXCEPT ![sim[p]] = Absent]]
      /\ sim' = [sim EXCEPT ![p] = @ + 1]
      /\ UNCHANGED <<inputVars, driverVars, confirmVars, roomVars, inbox, pauses,
                     up, dn, cf, st, ctl>>
  BY DEF RunFrame
<1> HIDE DEF pl
<1>3. played' \in [Peers -> [Frame -> Inputs]]
  BY <1>1, <1>2 DEF TypeInv, TypeOK
<1>4. queued' \in [Peers -> [Frame -> Inputs]]
  <2>1. Absent \in Inputs
    BY DEF Absent, Inputs
  <2>2. [pl EXCEPT ![sim[p]] = Absent] \in [Frame -> Inputs]
    BY <1>1, <2>1
  <2> QED BY <1>2, <2>2 DEF TypeInv, TypeOK
<1>5. sim' \in [Peers -> 0..(MaxFrame + 1)]
  <2>1. sim[p] + 1 \in 0..(MaxFrame + 1)
    BY <1>1, BoundsAssumption
  <2> QED BY <1>2, <2>1 DEF TypeInv, TypeOK
<1> QED BY <1>2, <1>3, <1>4, <1>5
    DEF TypeInv, TypeOK, BaselineHeld, inputVars, driverVars, confirmVars, roomVars

LEMMA DeliverType ==
    ASSUME TypeInv, NEW c \in Clients,
           DeliverToHost(c) \/ DeliverToClient(c) \/ ReceiveStatus(c)
    PROVE  TypeInv'
<1>1. c \in Peers /\ Host \in Peers
  BY PeersFacts
<1>2. CASE DeliverToHost(c)
  <2>1. PICK i \in 1..Len(up[c]) :
            /\ up' = [up EXCEPT ![c] = After(@, i)]
            /\ inbox' = [inbox EXCEPT ![Host] = up[c][i]]
    BY <1>2 DEF DeliverToHost
  <2>2. up[c] \in Seq(SUBSET Entry)
    BY DEF TypeInv, TypeOK
  <2>3. After(up[c], i) \in Seq(SUBSET Entry) /\ up[c][i] \in SUBSET Entry
    BY <2>2, ChannelTypes
  <2>4. up' \in [Clients -> Seq(SUBSET Entry)] /\ inbox' \in [Peers -> SUBSET Entry]
    BY <1>1, <2>1, <2>3 DEF TypeInv, TypeOK
  <2> QED BY <1>2, <2>4 DEF DeliverToHost, TypeInv, TypeOK, BaselineHeld, inputVars,
      driverVars, confirmVars, roomVars, consoleVars
<1>3. CASE DeliverToClient(c)
  <2>1. PICK i \in 1..Len(dn[c]) :
            /\ dn' = [dn EXCEPT ![c] = After(@, i)]
            /\ inbox' = [inbox EXCEPT ![c] = dn[c][i]]
    BY <1>3 DEF DeliverToClient
  <2>2. dn[c] \in Seq(SUBSET Entry)
    BY DEF TypeInv, TypeOK
  <2>3. After(dn[c], i) \in Seq(SUBSET Entry) /\ dn[c][i] \in SUBSET Entry
    BY <2>2, ChannelTypes
  <2>4. dn' \in [Clients -> Seq(SUBSET Entry)] /\ inbox' \in [Peers -> SUBSET Entry]
    BY <1>1, <2>1, <2>3 DEF TypeInv, TypeOK
  <2> QED BY <1>3, <2>4 DEF DeliverToClient, TypeInv, TypeOK, BaselineHeld, inputVars,
      driverVars, confirmVars, roomVars, consoleVars
<1>4. CASE ReceiveStatus(c)
  <2>1. PICK i \in 1..Len(st[c]) :
            /\ st' = [st EXCEPT ![c] = After(@, i)]
            /\ cur' = [cur EXCEPT ![c] = st[c][i].cur]
            /\ conf' = [conf EXCEPT ![c] = st[c][i].conf]
    BY <1>4 DEF ReceiveStatus
  <2>2. st[c] \in Seq(Status)
    BY DEF TypeInv, TypeOK
  <2>3. After(st[c], i) \in Seq(Status) /\ st[c][i] \in Status
    BY <2>2, ChannelTypes
  <2>4. /\ st' \in [Clients -> Seq(Status)]
        /\ cur' \in [Peers -> Frame] /\ conf' \in [Peers -> Frame]
    BY <1>1, <2>1, <2>3 DEF TypeInv, TypeOK, Status
  <2> QED BY <1>4, <2>4 DEF ReceiveStatus, TypeInv, TypeOK, BaselineHeld, inputVars,
      driverVars, confirmVars, consoleVars
<1> QED BY <1>2, <1>3, <1>4

LEMMA SessionType ==
    ASSUME TypeInv,
           \/ pauseSession
           \/ resumeSession
           \/ \E c \in Clients : ReceiveSession(c)
           \/ \E p \in Peers : NoticeState(p)
    PROVE  TypeInv'
<1>0. "Running" \in SessionState /\ "Paused" \in SessionState /\ Absent \in Inputs
  BY DEF SessionState, Absent, Inputs
<1>1. CASE pauseSession
  <2>1. pauses' \in 0..MaxPauses
    BY <1>1, BoundsAssumption DEF pauseSession, TypeInv, TypeOK
  <2>2. state' \in [Peers -> SessionState]
    BY <1>0, <1>1 DEF pauseSession, TypeInv, TypeOK
  <2>3. \A c \in Clients : Append(ctl[c], "Paused") \in Seq(SessionState)
    BY <1>0 DEF TypeInv, TypeOK
  <2>4. ctl' \in [Clients -> Seq(SessionState)]
    BY <1>1, <2>3 DEF pauseSession
  <2> QED BY <1>1, <2>1, <2>2, <2>4 DEF pauseSession, TypeInv, TypeOK, BaselineHeld,
      inputVars, driverVars, confirmVars, consoleVars
<1>2. CASE resumeSession
  <2>1. state' \in [Peers -> SessionState]
    BY <1>0, <1>2 DEF resumeSession, TypeInv, TypeOK
  <2>2. \A c \in Clients : Append(ctl[c], "Running") \in Seq(SessionState)
    BY <1>0 DEF TypeInv, TypeOK
  <2>3. ctl' \in [Clients -> Seq(SessionState)]
    BY <1>2, <2>2 DEF resumeSession
  <2> QED BY <1>2, <2>1, <2>3 DEF resumeSession, TypeInv, TypeOK, BaselineHeld,
      inputVars, driverVars, confirmVars, consoleVars
<1>3. ASSUME NEW c \in Clients, ReceiveSession(c) PROVE TypeInv'
  <2>1. ctl[c] \in Seq(SessionState) /\ ctl[c] # << >> /\ c \in Peers
    BY <1>3, PeersFacts DEF ReceiveSession, TypeInv, TypeOK
  <2>2. Head(ctl[c]) \in SessionState /\ Tail(ctl[c]) \in Seq(SessionState)
    BY <2>1
  <2>3. ctl' \in [Clients -> Seq(SessionState)] /\ state' \in [Peers -> SessionState]
    BY <1>3, <2>1, <2>2 DEF ReceiveSession, TypeInv, TypeOK
  <2>4. /\ store' \in [Peers -> [Frame -> Inputs]]
        /\ back' \in [Peers -> Frame] /\ conf' \in [Peers -> Frame]
    <3>1. CASE Head(ctl[c]) = "Running"
      <4>1. [f \in Frame |-> Absent] \in [Frame -> Inputs]
        BY <1>0
      <4>2. /\ store' = [store EXCEPT ![c] = [f \in Frame |-> Absent]]
            /\ back' = [back EXCEPT ![c] = 0] /\ conf' = [conf EXCEPT ![c] = 0]
        BY <1>3, <3>1 DEF ReceiveSession
      <4> QED BY <4>1, <4>2, FrameFacts DEF TypeInv, TypeOK
    <3>2. CASE Head(ctl[c]) # "Running"
      BY <1>3, <3>2 DEF ReceiveSession, TypeInv, TypeOK
    <3> QED BY <3>1, <3>2
  <2> QED BY <1>3, <2>3, <2>4 DEF ReceiveSession, TypeInv, TypeOK, BaselineHeld,
      inputVars, driverVars, consoleVars
<1>4. ASSUME NEW p \in Peers, NoticeState(p) PROVE TypeInv'
  BY <1>4, FrameFacts DEF NoticeState, TypeInv, TypeOK, BaselineHeld, inputVars,
     confirmVars, consoleVars
<1> QED BY <1>1, <1>2, <1>3, <1>4

LEMMA NextTypeInv == TypeInv /\ [Next]_vars => TypeInv'
<1> SUFFICES ASSUME TypeInv, [Next]_vars PROVE TypeInv'
  OBVIOUS
<1>1. ASSUME NEW p \in Peers, PeerStep(p) PROVE TypeInv'
  <2>1. CASE Produce(p)
    BY <2>1, ProduceType
  <2>2. CASE ProduceObserver(p)
    <3>1. sim[p] + P \in Frame
      BY <2>2, FrameFacts, BoundsAssumption DEF ProduceObserver, TypeInv, TypeOK
    <3> QED BY <2>2, <3>1 DEF ProduceObserver, TypeInv, TypeOK, BaselineHeld,
        inputVars, confirmVars, roomVars, consoleVars
  <2>3. CASE HandleInput(p)
    BY <2>3, HandleInputType
  <2>4. CASE RunFrame(p)
    BY <2>4, RunFrameType
  <2>5. CASE QueueAhead(p)
    BY <2>5, PlayableType DEF QueueAhead, TypeInv, TypeOK, BaselineHeld, inputVars,
       driverVars, confirmVars, roomVars
  <2>6. CASE NoticeState(p)
    BY <2>6, SessionType
  <2> QED BY <1>1, <2>1, <2>2, <2>3, <2>4, <2>5, <2>6 DEF PeerStep
<1>2. ASSUME NEW c \in Clients, ClientStep(c) PROVE TypeInv'
  BY <1>2, DeliverType, ReceiveConfirmedType, SessionType DEF ClientStep
<1>3. CASE HostUpdate
  BY <1>3, HostUpdateType
<1>4. CASE pauseSession \/ resumeSession
  BY <1>4, SessionType
<1>5. CASE UNCHANGED vars
  BY <1>5 DEF TypeInv, TypeOK, BaselineHeld, vars, inputVars, driverVars,
     confirmVars, roomVars, consoleVars
<1> QED BY <1>1, <1>2, <1>3, <1>4, <1>5 DEF Next

\* Every reachable state of the lockstep is well typed, whatever the number
\* of peers, the input delay, the redundancy and the losses: no frame counter
\* of handleInputFrameEntry or of the publishing loop leaves its range.
THEOREM LockstepTypeCorrect == Spec => []TypeOK
<1>1. Init => TypeInv
  BY InitTypeInv
<1>2. TypeInv /\ [Next]_vars => TypeInv'
  BY NextTypeInv
<1>3. TypeInv => TypeOK
  BY DEF TypeInv
<1> QED BY <1>1, <1>2, <1>3, PTL DEF Spec

-----------------------------------------------------------------------------
\* The inductive invariant.  Two frames never differ between the host and a
\* client because the host stores a frame only while it is newer than
\* lastPub, and everything a client has, or has on its way, is not: a
\* published frame is frozen.

\* Confirmed frames under way are frozen copies of the host's.
AgreedBatch ==
    {m \in Batch : \A f \in DOMAIN m : f <= lastPub /\ m[f] = store[Host][f]}

Published ==
    /\ lastPub <= conf[Host]
    /\ \A c \in Clients : cf[c] \in Seq(AgreedBatch)
    /\ \A c \in Clients, f \in Frame :
          store[c][f] # Absent => f <= lastPub /\ store[c][f] = store[Host][f]

\* What a client believes of the host's progress is not ahead of the host.
HostBound == MaxOf(sim[Host], conf[Host])
Reported == {m \in Status : m.cur <= sim[Host] /\ m.conf <= conf[Host]}

Followed ==
    /\ \A c \in Clients : st[c] \in Seq(Reported)
    /\ \A c \in Clients : cur[c] <= sim[Host] /\ conf[c] <= conf[Host]
    /\ \A c \in Clients, f \in Frame : queued[c][f] # Absent => f <= HostBound
    /\ ClientsFollowHost

IInv == TypeInv /\ Published /\ Followed

LEMMA NumberTypes ==
    ASSUME TypeInv
    PROVE  /\ lastPub \in Nat
           /\ \A p \in Peers : conf[p] \in Nat /\ cur[p] \in Nat /\ sim[p] \in Nat
<1>1. /\ lastPub \in Frame
      /\ \A p \in Peers : conf[p] \in Frame /\ cur[p] \in Frame /\ sim[p] \in 0..(MaxFrame + 1)
  BY DEF TypeInv, TypeOK
<1> QED BY <1>1, FrameFacts

LEMMA InitIInv == Init => IInv
<1> SUFFICES ASSUME Init PROVE IInv
  OBVIOUS
<1>1. TypeInv
  BY InitTypeInv
<1>2. Published
  <2>1. \A c \in Clients : cf[c] \in Seq(AgreedBatch)
    BY DEF Init
  <2>2. lastPub <= conf[Host]
    BY PeersFacts DEF Init
  <2>3. ASSUME NEW c \in Clients, NEW f \in Frame, store[c][f] # Absent
        PROVE  f <= lastPub /\ store[c][f] = store[Host][f]
    BY <2>3, PeersFacts DEF Init
  <2> QED BY <2>1, <2>2, <2>3 DEF Published
<1>3. Followed
  BY PeersFacts DEF Init, Followed, ClientsFollowHost, MaxOf
<1> QED BY <1>1, <1>2, <1>3 DEF IInv

\* Storing frames newer than lastPub, and moving lastPub over them, leaves
\* what was published before alone.
LEMMA BroadcastKeepsPublished ==
    ASSUME TypeInv, Published, NEW t \in Timelines, NEW n \in Frame, NEW k \in Frame,
           lastPub <= n, StoreAndBroadcast(t, n),
           lastPub' \in Frame, n <= lastPub', lastPub' <= k,
           conf' = [conf EXCEPT ![Host] = k]
    PROVE  Published'
<1>1. lastPub \in Nat /\ n \in Nat /\ lastPub' \in Nat /\ k \in Nat /\ Frame \subseteq Nat
  BY NumberTypes, FrameFacts
<1>2. store' = [store EXCEPT ![Host] = [f \in Frame |->
                   IF lastPub < f /\ f <= n THEN Assemble(t, f) ELSE store[Host][f]]]
  BY DEF StoreAndBroadcast
<1>3. \A f \in Frame : store'[Host][f] =
           IF lastPub < f /\ f <= n THEN Assemble(t, f) ELSE store[Host][f]
  BY <1>2, PeersFacts DEF TypeInv, TypeOK
<1>4. \A c \in Clients : store'[c] = store[c]
  BY <1>2, PeersFacts DEF TypeInv, TypeOK
<1>5. lastPub' <= conf'[Host]
  BY PeersFacts DEF TypeInv, TypeOK
<1>6. ASSUME NEW c \in Clients, NEW f \in Frame, store'[c][f] # Absent
      PROVE  f <= lastPub' /\ store'[c][f] = store'[Host][f]
  <2>1. f <= lastPub /\ store[c][f] = store[Host][f]
    BY <1>4, <1>6 DEF Published
  <2>2. f \in Nat
    BY <1>1
  <2> QED BY <1>1, <1>3, <1>4, <2>1, <2>2
<1>7. AgreedBatch \subseteq AgreedBatch'
  <2> SUFFICES ASSUME NEW m \in AgreedBatch PROVE m \in AgreedBatch'
    OBVIOUS
  <2>1. m \in Batch /\ DOMAIN m \subseteq Frame
    BY DEF AgreedBatch, Batch
  <2>2. ASSUME NEW f \in DOMAIN m PROVE f <= lastPub' /\ m[f] = store'[Host][f]
    <3>1. f \in Frame /\ f \in Nat /\ f <= lastPub /\ m[f] = store[Host][f]
      BY <1>1, <2>1 DEF AgreedBatch
    <3> QED BY <1>1, <1>3, <3>1
  <2> QED BY <2>1, <2>2 DEF AgreedBatch
<1>8. ASSUME NEW c \in Clients PROVE cf'[c] \in Seq(AgreedBatch')
  <2>1. cf[c] \in Seq(AgreedBatch')
    BY <1>7, SeqMonotonic DEF Published
  <2>2. CASE n > lastPub
    <3> DEFINE m == [f \in (lastPub + 1)..n |-> Assemble(t, f)]
    <3>1. cf'[c] = Append(cf[c], m)
      BY <2>2 DEF StoreAndBroadcast
    <3>2. \A f \in (lastPub + 1)..n : f \in Frame /\ lastPub < f /\ f <= n
      BY <1>1, FrameFacts
    <3>3. n \in (lastPub + 1)..n
      BY <1>1, <2>2
    <3>4. (lastPub + 1)..n \in (SUBSET Frame) \ {{}}
      BY <3>2, <3>3
    <3>5. m \in [(lastPub + 1)..n -> Inputs]
      BY <3>2, AssembleType
    <3>6. m \in Batch
      BY <3>4, <3>5 DEF Batch
    <3>7. \A f \in DOMAIN m : f <= lastPub' /\ m[f] = store'[Host][f]
      BY <1>1, <1>3, <3>2
    <3>8. m \in AgreedBatch'
      BY <3>6, <3>7 DEF AgreedBatch
    <3> HIDE DEF m
    <3> QED BY <2>1, <3>1, <3>8
  <2>3. CASE ~(n > lastPub)
    BY <2>1, <2>3 DEF StoreAndBroadcast
  <2> QED BY <2>2, <2>3
<1> QED BY <1>5, <1>6, <1>8 DEF Published

\* The host's progress only grows, so what clients know of it stays covered.
LEMMA FollowedGrows ==
    ASSUME TypeInv, TypeInv', Followed,
           sim[Host] <= sim'[Host], conf[Host] <= conf'[Host],
           \A c \in Clients : /\ cur'[c] = cur[c] /\ conf'[c] = conf[c]
                              /\ sim'[c] = sim[c] /\ queued'[c] = queued[c],
           \A c \in Clients : st'[c] = st[c] \/ st'[c] \in Seq(Reported')
    PROVE  Followed' /\ Reported \subseteq Reported'
<1>1. /\ conf[Host] \in Nat /\ sim[Host] \in Nat
      /\ conf'[Host] \in Nat /\ sim'[Host] \in Nat
      /\ \A c \in Clients : conf[c] \in Nat /\ cur[c] \in Nat /\ sim[c] \in Nat
  <2>1. conf[Host] \in Nat /\ sim[Host] \in Nat
        /\ \A c \in Clients : conf[c] \in Nat /\ cur[c] \in Nat /\ sim[c] \in Nat
    BY NumberTypes, PeersFacts
  <2>2. conf'[Host] \in Frame /\ sim'[Host] \in 0..(MaxFrame + 1)
    BY PeersFacts DEF TypeInv, TypeOK
  <2> QED BY <2>1, <2>2, FrameFacts
<1>2. Reported \subseteq Reported'
  <2> SUFFICES ASSUME NEW m \in Reported PROVE m \in Reported'
    OBVIOUS
  <2>1. m \in Status /\ m.cur \in Nat /\ m.conf \in Nat
    BY FrameFacts DEF Reported, Status
  <2>2. m.cur <= sim[Host] /\ m.conf <= conf[Host]
    BY DEF Reported
  <2> QED BY <1>1, <2>1, <2>2 DEF Reported
<1>3. \A c \in Clients : st'[c] \in Seq(Reported')
  BY <1>2, SeqMonotonic DEF Followed
<1>4. \A c \in Clients : cur'[c] <= sim'[Host] /\ conf'[c] <= conf'[Host]
  BY <1>1 DEF Followed
<1>5. HostBound <= HostBound' /\ HostBound \in Nat /\ HostBound' \in Nat
  BY <1>1 DEF HostBound, MaxOf
<1>6. ASSUME NEW c \in Clients, NEW f \in Frame, queued'[c][f] # Absent
      PROVE  f <= HostBound'
  <2>1. f <= HostBound /\ f \in Nat
    BY <1>6, FrameFacts DEF Followed
  <2> QED BY <1>5, <2>1
<1>7. ClientsFollowHost'
  <2> SUFFICES ASSUME NEW c \in Clients PROVE sim'[c] <= HostBound' + 1
    BY DEF ClientsFollowHost, HostBound
  <2>1. sim[c] <= HostBound + 1
    BY DEF Followed, ClientsFollowHost, HostBound
  <2> QED BY <1>1, <1>5, <2>1
<1> QED BY <1>2, <1>3, <1>4, <1>6, <1>7 DEF Followed

LEMMA PublishKeeps ==
    ASSUME TypeInv, TypeInv', Published, Followed,
           NEW t \in Timelines, NEW cg \in [Peers -> Frame],
           publishConfirmedFramesIfReady(t, cg),
           UNCHANGED <<cur, sim, queued, st>>
    PROVE  Published' /\ Followed'
<1> DEFINE n == PublishableThrough(t, cg)
           k == IF n > lastPub THEN MaxOf(conf[Host], n) ELSE conf[Host]
<1>1. n \in Frame /\ lastPub <= n
  BY PublishableRange DEF TypeInv, TypeOK
<1>2. /\ StoreAndBroadcast(t, n) /\ lastPub' = n
      /\ conf' = [conf EXCEPT ![Host] = k]
  BY DEF publishConfirmedFramesIfReady
<1> HIDE DEF n
<1>3. conf[Host] \in Frame /\ lastPub <= conf[Host]
  BY PeersFacts DEF TypeInv, TypeOK, Published
<1>4. n \in Nat /\ conf[Host] \in Nat /\ lastPub \in Nat
  BY <1>1, <1>3, NumberTypes, FrameFacts
<1>5. k \in {conf[Host], n} /\ n <= k /\ conf[Host] <= k
  BY <1>1, <1>3, <1>4 DEF MaxOf
<1> HIDE DEF k
<1>6. k \in Frame
  BY <1>1, <1>3, <1>5
<1>7. Published'
  <2>1. lastPub' \in Frame /\ n <= lastPub' /\ lastPub' <= k
    BY <1>1, <1>2, <1>4, <1>5
  <2> QED BY <1>1, <1>2, <1>6, <2>1, BroadcastKeepsPublished
<1>8. conf'[Host] = k /\ \A c \in Clients : conf'[c] = conf[c]
  BY <1>2, PeersFacts DEF TypeInv, TypeOK
<1>9. sim[Host] <= sim'[Host]
  BY NumberTypes, PeersFacts
<1>10. Followed'
  BY <1>5, <1>8, <1>9, FollowedGrows
<1> QED BY <1>7, <1>10

\* Steps that touch nothing of what the invariant relates.
LEMMA UnrelatedKeeps ==
    ASSUME TypeInv, Published, Followed,
           UNCHANGED <<store, lastPub, conf, cf, st, cur, queued, sim>>
    PROVE  Published' /\ Followed'
<1>1. AgreedBatch' = AgreedBatch /\ Reported' = Reported /\ HostBound' = HostBound
  BY DEF AgreedBatch, Reported, HostBound
<1> QED BY <1>1 DEF Published, Followed, ClientsFollowHost, HostBound

LEMMA RecordKeeps ==
    ASSUME TypeInv, TypeInv', Published, Followed, NEW p \in Peers, Produce(p)
    PROVE  Published' /\ Followed'
<1>1. PICK s \in Slots, f \in Frame : recordLocalInputFrame(p, s, f)
  BY DEF Produce
<1>2. UNCHANGED <<contig, cur, st, queued, sim>>
  BY DEF Produce, consoleVars
<1>3. CASE tl[p][s][f] = None /\ MayRecord(p, s, f) /\ p = Host
  <2>1. publishConfirmedFramesIfReady(tl'[Host], contig[Host])
    BY <1>1, <1>3 DEF recordLocalInputFrame
  <2>2. tl'[Host] \in Timelines /\ contig[Host] \in [Peers -> Frame]
    BY <1>2, PeersFacts DEF TypeInv, TypeOK, BaselineHeld, Timelines
  <2> QED BY <1>2, <2>1, <2>2, PublishKeeps
<1>4. CASE ~(tl[p][s][f] = None /\ MayRecord(p, s, f) /\ p = Host)
  <2>1. UNCHANGED <<store, lastPub, conf, cf>>
    BY <1>1, <1>4 DEF recordLocalInputFrame, confirmVars
  <2> QED BY <1>2, <2>1, UnrelatedKeeps
<1> QED BY <1>3, <1>4

LEMMA HandleInputKeeps ==
    ASSUME TypeInv, TypeInv', Published, Followed, NEW p \in Peers, HandleInput(p)
    PROVE  Published' /\ Followed'
<1>1. UNCHANGED <<cur, st, queued, sim>>
  BY DEF HandleInput, consoleVars
<1>2. \/ UNCHANGED <<store, lastPub, conf, cf>>
      \/ publishConfirmedFramesIfReady(tl'[Host], contig'[Host])
  BY DEF HandleInput, confirmVars
<1>3. tl'[Host] \in Timelines /\ contig'[Host] \in [Peers -> Frame]
  BY PeersFacts DEF TypeInv, TypeOK, BaselineHeld, Timelines
<1> QED BY <1>1, <1>2, <1>3, PublishKeeps, UnrelatedKeeps

LEMMA HostUpdateKeeps ==
    ASSUME TypeInv, TypeInv', Published, Followed, HostUpdate
    PROVE  Published' /\ Followed'
<1>1. PICK n \in Frame, k \in Frame :
              /\ StoreAndBroadcast(tl[Host], n)
              /\ lastPub <= n
              /\ n > lastPub => n <= k
              /\ conf[Host] <= k
              /\ lastPub' = k
              /\ conf' = [conf EXCEPT ![Host] = k]
              /\ cur' = [cur EXCEPT ![Host] = sim[Host]]
              /\ st' = [c \in Clients |-> Send(st[c], [cur |-> sim[Host], conf |-> k])]
  BY HostUpdateFacts
<1>2. UNCHANGED <<sim, queued>>
  BY DEF HostUpdate, consoleVars
<1>3. /\ n \in Nat /\ k \in Nat /\ lastPub \in Nat /\ conf[Host] \in Nat
      /\ sim[Host] \in Nat /\ sim[Host] \in Frame /\ lastPub <= conf[Host]
  BY NumberTypes, FrameFacts, PeersFacts DEF Published, TypeInv, TypeOK
<1>4. n <= k /\ k <= k /\ sim[Host] <= sim[Host]
  BY <1>1, <1>3
<1>5. Published'
  <2>1. lastPub' \in Frame /\ n <= lastPub' /\ lastPub' <= k /\ tl[Host] \in Timelines
    BY <1>1, <1>4, TimelinesOfPeers, PeersFacts
  <2> QED BY <1>1, <2>1, BroadcastKeepsPublished
<1>6. /\ conf'[Host] = k
      /\ \A c \in Clients : conf'[c] = conf[c] /\ cur'[c] = cur[c]
  <2>1. conf \in [Peers -> Frame] /\ cur \in [Peers -> Frame]
    BY DEF TypeInv, TypeOK
  <2>2. conf' = [conf EXCEPT ![Host] = k] /\ cur' = [cur EXCEPT ![Host] = sim[Host]]
    BY <1>1
  <2> QED BY ONLY <2>1, <2>2, PeersFacts
<1>7. [cur |-> sim[Host], conf |-> k] \in Reported'
  BY <1>2, <1>3, <1>4, <1>6 DEF Reported, Status
<1>8. Reported \subseteq Reported'
  <2> SUFFICES ASSUME NEW m \in Reported PROVE m \in Reported'
    OBVIOUS
  <2>1. m \in Status /\ m.cur \in Nat /\ m.conf \in Nat
    BY FrameFacts DEF Reported, Status
  <2>2. m.cur <= sim[Host] /\ m.conf <= conf[Host]
    BY DEF Reported
  <2> QED BY <1>1, <1>2, <1>3, <1>6, <2>1, <2>2 DEF Reported
<1>9. ASSUME NEW c \in Clients PROVE st'[c] \in Seq(Reported')
  <2>1. st[c] \in Seq(Reported')
    BY <1>8, SeqMonotonic DEF Followed
  <2> QED BY <1>1, <1>7, <2>1, ChannelTypes
<1>10. Followed'
  BY <1>1, <1>2, <1>4, <1>6, <1>9, FollowedGrows
<1> QED BY <1>5, <1>10

LEMMA ReceiveConfirmedKeeps ==
    ASSUME TypeInv, TypeInv', Published, Followed, NEW c \in Clients, ReceiveConfirmed(c)
    PROVE  Published' /\ Followed'
<1> DEFINE m == Head(cf[c])
           last == Max(DOMAIN m)
<1>1. cf[c] # << >> /\ cf[c] \in Seq(AgreedBatch) /\ c \in Peers /\ c # Host
  BY PeersFacts DEF ReceiveConfirmed, Published
<1>2. m \in AgreedBatch /\ Tail(cf[c]) \in Seq(AgreedBatch)
  BY <1>1
<1>3. DOMAIN m \in SUBSET Frame /\ DOMAIN m # {}
  BY <1>2 DEF AgreedBatch, Batch
<1>4. last \in DOMAIN m
  BY <1>3, MaxFrameSet
<1>5. /\ store' = [store EXCEPT ![c] =
                   [f \in Frame |-> IF f \in DOMAIN m THEN m[f] ELSE store[c][f]]]
      /\ conf' = [conf EXCEPT ![c] = MaxOf(conf[c], last)]
      /\ cf' = [cf EXCEPT ![c] = Tail(cf[c])]
      /\ UNCHANGED <<lastPub, cur, st, queued, sim>>
  BY DEF ReceiveConfirmed, consoleVars
<1> HIDE DEF m
<1>6. store'[Host] = store[Host] /\ conf'[Host] = conf[Host]
  BY <1>1, <1>5, PeersFacts DEF TypeInv, TypeOK
<1>7. AgreedBatch' = AgreedBatch /\ Reported' = Reported /\ HostBound' = HostBound
  BY <1>5, <1>6 DEF AgreedBatch, Reported, HostBound
<1>8. Published'
  <2>1. \A d \in Clients : cf'[d] \in Seq(AgreedBatch')
    BY <1>2, <1>5, <1>7 DEF Published, TypeInv, TypeOK
  <2>2. ASSUME NEW d \in Clients, NEW f \in Frame, store'[d][f] # Absent
        PROVE  f <= lastPub' /\ store'[d][f] = store'[Host][f]
    <3>1. CASE d = c /\ f \in DOMAIN m
      <4>1. store'[d][f] = m[f]
        BY <1>1, <1>5, <3>1 DEF TypeInv, TypeOK
      <4> QED BY <1>2, <1>5, <1>6, <3>1, <4>1 DEF AgreedBatch
    <3>2. CASE ~(d = c /\ f \in DOMAIN m)
      <4>1. store'[d][f] = store[d][f]
        BY <1>1, <1>5, <3>2, PeersFacts DEF TypeInv, TypeOK
      <4> QED BY <1>5, <1>6, <2>2, <4>1 DEF Published
    <3> QED BY <3>1, <3>2
  <2> QED BY <1>5, <1>6, <2>1, <2>2 DEF Published
<1>9. Followed'
  <2>1. last <= lastPub /\ last \in Nat
    BY <1>2, <1>3, <1>4, FrameFacts DEF AgreedBatch
  <2>2. /\ lastPub \in Nat /\ conf[Host] \in Nat /\ conf[c] \in Nat
        /\ lastPub <= conf[Host] /\ conf[c] <= conf[Host]
    BY <1>1, NumberTypes, PeersFacts DEF Published, Followed
  <2>3. MaxOf(conf[c], last) <= conf[Host]
    BY <2>1, <2>2 DEF MaxOf
  <2>4. \A d \in Clients : conf'[d] <= conf'[Host]
    BY <1>1, <1>5, <1>6, <2>3, PeersFacts DEF Followed, TypeInv, TypeOK
  <2> QED BY <1>5, <1>6, <1>7, <2>4 DEF Followed, ClientsFollowHost, HostBound
<1> QED BY <1>8, <1>9

LEMMA ReceiveStatusKeeps ==
    ASSUME TypeInv, Published, Followed, NEW c \in Clients, ReceiveStatus(c)
    PROVE  Published' /\ Followed'
<1>1. PICK i \in 1..Len(st[c]) :
          /\ st' = [st EXCEPT ![c] = After(@, i)]
          /\ cur' = [cur EXCEPT ![c] = st[c][i].cur]
          /\ conf' = [conf EXCEPT ![c] = st[c][i].conf]
  BY DEF ReceiveStatus
<1>2. UNCHANGED <<store, lastPub, cf, queued, sim>>
  BY DEF ReceiveStatus, confirmVars, consoleVars
<1>3. After(st[c], i) \in Seq(Reported) /\ st[c][i] \in Reported
  BY ChannelTypes DEF Followed
<1>4. conf'[Host] = conf[Host]
  BY <1>1, PeersFacts DEF TypeInv, TypeOK
<1>5. AgreedBatch' = AgreedBatch /\ Reported' = Reported /\ HostBound' = HostBound
  BY <1>2, <1>4 DEF AgreedBatch, Reported, HostBound
<1>6. Published'
  BY <1>2, <1>4, <1>5 DEF Published
<1>7. \A d \in Clients : /\ st'[d] \in Seq(Reported)
                         /\ cur'[d] <= sim[Host] /\ conf'[d] <= conf[Host]
  BY <1>1, <1>3, PeersFacts DEF Followed, Reported, TypeInv, TypeOK
<1>8. Followed'
  BY <1>2, <1>4, <1>5, <1>7 DEF Followed, ClientsFollowHost, HostBound
<1> QED BY <1>6, <1>8

LEMMA ReceiveSessionKeeps ==
    ASSUME TypeInv, Published, Followed, NEW c \in Clients, ReceiveSession(c)
    PROVE  Published' /\ Followed'
<1>1. UNCHANGED <<lastPub, cf, st, cur, queued, sim>>
  BY DEF ReceiveSession, consoleVars
<1>2. CASE Head(ctl[c]) # "Running"
  BY <1>1, <1>2, UnrelatedKeeps DEF ReceiveSession
<1>3. CASE Head(ctl[c]) = "Running"
  <2>1. /\ store' = [store EXCEPT ![c] = [f \in Frame |-> Absent]]
        /\ conf' = [conf EXCEPT ![c] = 0]
    BY <1>3 DEF ReceiveSession
  <2>2. store'[Host] = store[Host] /\ conf'[Host] = conf[Host] /\ conf[Host] \in Nat
    BY <2>1, PeersFacts, NumberTypes DEF TypeInv, TypeOK
  <2>3. AgreedBatch' = AgreedBatch /\ Reported' = Reported /\ HostBound' = HostBound
    BY <1>1, <2>2 DEF AgreedBatch, Reported, HostBound
  <2>4. \A d \in Clients, f \in Frame : store'[d][f] # Absent => store'[d][f] = store[d][f]
    BY <2>1, PeersFacts DEF TypeInv, TypeOK
  <2>5. Published'
    BY <1>1, <2>2, <2>3, <2>4 DEF Published
  <2>6. \A d \in Clients : conf'[d] <= conf[Host]
    BY <2>1, <2>2, PeersFacts DEF Followed, TypeInv, TypeOK
  <2> QED BY <1>1, <2>2, <2>3, <2>5, <2>6 DEF Followed, ClientsFollowHost, HostBound
<1> QED BY <1>2, <1>3

\* A frame is queued at a client only within the host's reported progress.
LEMMA PlayableWithinBound ==
    ASSUME TypeInv, Followed, NEW c \in Clients, NEW f \in Frame,
           Playable(c)[f] # Absent
    PROVE  f <= HostBound
<1>1. f \in Nat /\ sim[Host] \in Nat /\ conf[Host] \in Nat /\ cur[c] \in Nat /\ conf[c] \in Nat
  BY NumberTypes, FrameFacts, PeersFacts
<1>2. cur[c] <= sim[Host] /\ conf[c] <= conf[Host]
  BY DEF Followed
<1>3. CASE f \in Ahead(c) \cup Now(c)
  <2>1. WithinCap(c, f)
    <3>1. CASE f \in Ahead(c)
      <4>1. sim[c] \in Nat
        BY NumberTypes, PeersFacts
      <4>2. sim[c] < f /\ \A g \in (sim[c] + 1)..f : WithinCap(c, g)
        BY <3>1 DEF Ahead
      <4>3. f \in (sim[c] + 1)..f
        BY <1>1, <4>1, <4>2
      <4> QED BY <4>2, <4>3
    <3>2. CASE f \in Now(c)
      BY <3>2 DEF Now
    <3> QED BY <1>3, <3>1, <3>2
  <2>2. f <= MaxOf(cur[c], conf[c])
    BY <2>1, PeersFacts DEF WithinCap
  <2> QED BY <1>1, <1>2, <2>2 DEF MaxOf, HostBound
<1>4. CASE f \notin Ahead(c) \cup Now(c)
  BY <1>4 DEF Playable, Followed
<1> QED BY <1>3, <1>4

LEMMA RunFrameKeeps ==
    ASSUME TypeInv, TypeInv', Published, Followed, NEW p \in Peers,
           RunFrame(p) \/ QueueAhead(p)
    PROVE  Published' /\ Followed'
<1>1. UNCHANGED <<store, lastPub, conf, cf, st, cur>>
  BY DEF RunFrame, QueueAhead, confirmVars, roomVars
<1>2. Published'
  <2>1. AgreedBatch' = AgreedBatch
    BY <1>1 DEF AgreedBatch
  <2> QED BY <1>1, <2>1 DEF Published
<1>3. sim[p] \in Nat /\ sim[Host] \in Nat /\ conf[Host] \in Nat /\ sim[p] \in Frame
  BY NumberTypes, PeersFacts, FrameFacts DEF TypeInv, TypeOK
<1>4. CASE p = Host
  <2>1. \A c \in Clients : sim'[c] = sim[c] /\ queued'[c] = queued[c]
    BY <1>4, PeersFacts DEF RunFrame, QueueAhead, TypeInv, TypeOK
  <2>2. sim[Host] <= sim'[Host] /\ conf[Host] <= conf'[Host]
    BY <1>1, <1>3, <1>4, PeersFacts DEF RunFrame, QueueAhead, TypeInv, TypeOK
  <2> QED BY <1>1, <1>2, <2>1, <2>2, FollowedGrows
<1>5. CASE p \in Clients
  <2>1. p # Host
    BY <1>5, PeersFacts
  <2>2. sim'[Host] = sim[Host]
    <3>1. sim' = sim \/ sim' = [sim EXCEPT ![p] = @ + 1]
      BY DEF RunFrame, QueueAhead
    <3>2. sim \in [Peers -> 0..(MaxFrame + 1)]
      BY DEF TypeInv, TypeOK
    <3> QED BY ONLY <2>1, <3>1, <3>2, PeersFacts
  <2>3. HostBound' = HostBound /\ Reported' = Reported /\ HostBound \in Nat
    BY <1>1, <1>3, <2>2 DEF HostBound, Reported, MaxOf
  <2>4. \A f \in Frame : Playable(p)[f] # Absent => f <= HostBound
    BY <1>5, PlayableWithinBound
  <2>5. \A f \in Frame : queued'[p][f] # Absent => Playable(p)[f] # Absent
    BY <1>3, PlayableType DEF RunFrame, QueueAhead, TypeInv, TypeOK
  <2>6. \A c \in Clients : c # p => queued'[c] = queued[c] /\ sim'[c] = sim[c]
    BY PeersFacts DEF RunFrame, QueueAhead, TypeInv, TypeOK
  <2>7. sim'[p] <= HostBound + 1
    <3>1. CASE RunFrame(p)
      <4>1. Playable(p)[sim[p]] # Absent /\ sim'[p] = sim[p] + 1
        BY <3>1 DEF RunFrame, TypeInv, TypeOK
      <4>2. sim[p] <= HostBound
        BY <1>3, <2>4, <4>1
      <4> QED BY <1>3, <2>3, <4>1, <4>2
    <3>2. CASE QueueAhead(p)
      BY <1>5, <3>2 DEF QueueAhead, Followed, ClientsFollowHost, HostBound
    <3> QED BY <3>1, <3>2
  <2>8. \A c \in Clients, f \in Frame : queued'[c][f] # Absent => f <= HostBound'
    BY <2>3, <2>4, <2>5, <2>6 DEF Followed
  <2>9. \A c \in Clients : sim'[c] <= HostBound' + 1
    BY <2>3, <2>6, <2>7 DEF Followed, ClientsFollowHost, HostBound
  <2>10. /\ \A c \in Clients : st'[c] \in Seq(Reported')
         /\ \A c \in Clients : cur'[c] <= sim'[Host] /\ conf'[c] <= conf'[Host]
    BY <1>1, <2>2, <2>3 DEF Followed
  <2> QED BY <1>2, <2>8, <2>9, <2>10 DEF Followed, ClientsFollowHost, HostBound
<1> QED BY <1>4, <1>5 DEF Peers

LEMMA NextIInv == IInv /\ [Next]_vars => IInv'
<1> SUFFICES ASSUME TypeInv, Published, Followed, [Next]_vars
             PROVE  TypeInv' /\ Published' /\ Followed'
  BY DEF IInv
<1>1. TypeInv'
  BY NextTypeInv
<1>2. ASSUME NEW p \in Peers, PeerStep(p) PROVE Published' /\ Followed'
  <2>1. CASE Produce(p)
    BY <1>1, <2>1, RecordKeeps
  <2>2. CASE ProduceObserver(p)
    BY <2>2, UnrelatedKeeps DEF ProduceObserver, confirmVars, roomVars, consoleVars
  <2>3. CASE HandleInput(p)
    BY <1>1, <2>3, HandleInputKeeps
  <2>4. CASE RunFrame(p) \/ QueueAhead(p)
    BY <1>1, <2>4, RunFrameKeeps
  <2>5. CASE NoticeState(p)
    BY <2>5, UnrelatedKeeps DEF NoticeState, confirmVars, consoleVars
  <2> QED BY <1>2, <2>1, <2>2, <2>3, <2>4, <2>5 DEF PeerStep
<1>3. ASSUME NEW c \in Clients, ClientStep(c) PROVE Published' /\ Followed'
  <2>1. CASE DeliverToHost(c)
    BY <2>1, UnrelatedKeeps DEF DeliverToHost, confirmVars, roomVars, consoleVars
  <2>2. CASE DeliverToClient(c)
    BY <2>2, UnrelatedKeeps DEF DeliverToClient, confirmVars, roomVars, consoleVars
  <2>3. CASE ReceiveConfirmed(c)
    BY <1>1, <2>3, ReceiveConfirmedKeeps
  <2>4. CASE ReceiveStatus(c)
    BY <2>4, ReceiveStatusKeeps
  <2>5. CASE ReceiveSession(c)
    BY <2>5, ReceiveSessionKeeps
  <2> QED BY <1>3, <2>1, <2>2, <2>3, <2>4, <2>5 DEF ClientStep
<1>4. CASE HostUpdate
  BY <1>1, <1>4, HostUpdateKeeps
<1>5. CASE pauseSession \/ resumeSession
  BY <1>1, <1>5, UnrelatedKeeps DEF pauseSession, resumeSession, confirmVars, consoleVars
<1>6. CASE UNCHANGED vars
  BY <1>1, <1>6, UnrelatedKeeps DEF vars, confirmVars, roomVars, consoleVars
<1> QED BY <1>1, <1>2, <1>3, <1>4, <1>5, <1>6 DEF Next

\* A client that holds a confirmed frame holds the inputs the host stored for
\* it, however packets are lost and however often the session is paused and
\* the client's frames are forgotten (publishConfirmedFramesIfReady,
\* broadcastFrameStatusIfNeeded, handleConfirmedInputFrames).
THEOREM LockstepConfirmedAgreement == Spec => []ConfirmedAgreement
<1>1. IInv => ConfirmedAgreement
  BY DEF IInv, Published, ConfirmedAgreement
<1> QED BY InitIInv, NextIInv, <1>1, PTL DEF Spec

\* runtimeClientHostPlaybackCapFrame keeps every client behind what the host
\* has emulated or confirmed, although frames are queued ahead of time.
THEOREM LockstepClientsFollowHost == Spec => []ClientsFollowHost
<1>1. IInv => ClientsFollowHost
  BY DEF IInv, Followed
<1> QED BY InitIInv, NextIInv, <1>1, PTL DEF Spec
=============================================================================
