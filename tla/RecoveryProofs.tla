--------------------------- MODULE RecoveryProofs ---------------------------
(***************************************************************************)
(* Proofs about Recovery for any clients, any input delay and any values   *)
(* of the code's windows and capacities: type correctness, that a noted    *)
(* stall is one the host is still waiting in, and that only reports of the *)
(* timeline being stabilized validate it.                                  *)
(***************************************************************************)
EXTENDS Recovery, Extrema, SequenceTheorems, TLAPS

\* The types of the variables, as in TypeOK.
HostType ==
    [state : {"Running", "Resyncing"}, epoch : Epoch, sim : Frame,
     have : [Clients -> Frame], line : [Frame -> Epoch],
     acks : SUBSET Clients, request : SUBSET Frame]
RecType == [mode : Mode, at : Frame, passed : BOOLEAN, grace : Nat]
StallType ==
    [pending : SUBSET [c : Clients, frame : Frame, loggable : BOOLEAN],
     recovered : SUBSET [c : Clients, through : Frame]]
InputType == [frame : Frame, epoch : Epoch]
PeerType ==
    [state : {"Running", "Resyncing"}, epoch : Epoch, life : Epoch,
     sim : Frame, conf : Frame, sig : Crc, submitted : Frame,
     input : InputType, control : Seq(Control), reports : Seq(Report)]

\* A history of reports, within its capacity.
History(h) == h \in Seq(Report) /\ Len(h) <= Capacity

\* How far a client may have come: the bounds on frames are never reached from
\* below by adding the delay.
Within(q) ==
    /\ q.conf <= MaxFrame + P /\ q.sim <= MaxFrame + P + 1
    /\ \A i \in 1..Len(q.control) : q.control[i].frame <= MaxFrame

\* Every report the host compares its own with was sent in the present epoch.
OfEpoch(h, e) == \A i \in 1..Len(h) : h[i].epoch = e

HostInv == host \in HostType /\ host.sim <= MaxFrame
MonInv ==
    /\ mon \in [local : Seq(Report), remote : Seq(Report)]
    /\ History(mon.local) /\ History(mon.remote) /\ OfEpoch(mon.remote, host.epoch)
PeerInv == peer \in [Clients -> PeerType] /\ \A c \in Clients : Within(peer[c])
StallInv == stall \in StallType /\ PendingStallIsCurrent

IInv == HostInv /\ rec \in RecType /\ StallInv /\ MonInv /\ PeerInv /\ ValidationIsGenuine

LEMMA TypeOKIsTyped ==
    HostInv /\ rec \in RecType /\ StallInv /\ MonInv /\ PeerInv => TypeOK
BY DEF TypeOK, HostInv, StallInv, MonInv, PeerInv, HostType, RecType, StallType, PeerType,
       InputType, History

-----------------------------------------------------------------------------
(* The operators of the model. *)

LEMMA Numbers ==
    /\ P \in Nat /\ Coalesce \in Nat /\ Grace \in Nat /\ MaxFrame \in Nat /\ MaxFrame # 0
    /\ Capacity \in Nat /\ Capacity # 0 /\ MaxEpoch \in Nat /\ MaxEpoch # 0
BY RecoveryAssumption

LEMMA FrameFacts ==
    /\ Frame \subseteq Nat /\ 0 \in Frame
    /\ \A n \in Nat : n <= MaxFrame + P + 1 => n \in Frame /\ n + P \in Frame
BY Numbers DEF Frame

LEMMA EpochFacts ==
    /\ Epoch \subseteq Nat /\ 1 \in Epoch /\ Epoch \subseteq Crc /\ Diverged \in Crc
    /\ \A e \in Epoch : e < MaxEpoch => e + 1 \in Epoch
BY Numbers DEF Epoch, Crc

\* lastConfirmedFrame lies at most the delay ahead of the host.
LEMMA ConfirmedFacts ==
    ASSUME HostInv
    PROVE  Confirmed \in Frame /\ Confirmed <= MaxFrame + P /\ MinOf(host.sim, Confirmed) \in Frame
<1> DEFINE S == {host.sim + P} \cup {host.have[c] : c \in Clients}
<1>1. host.sim \in Nat /\ host.sim <= MaxFrame /\ host.sim \in Frame /\ P \in Nat /\ MaxFrame \in Nat
  BY Numbers, FrameFacts DEF HostInv, HostType
<1>2. host.sim + P \in Frame
  BY <1>1, FrameFacts
<1>3. S \subseteq Frame
  BY <1>2 DEF HostInv, HostType
<1>4. S \in SUBSET Nat /\ S # {} /\ host.sim + P \in S
  BY <1>3, FrameFacts
<1> HIDE DEF S
<1>5. Min(S) \in S /\ \A y \in S : Min(S) <= y
  BY <1>4, MinNat
<1>6. Confirmed = Min(S)
  BY DEF Confirmed, S
<1>7. Min(S) \in Nat /\ Min(S) <= host.sim + P
  BY <1>4, <1>5
<1> QED BY <1>1, <1>3, <1>5, <1>6, <1>7 DEF MinOf

LEMMA QueueType ==
    ASSUME NEW r \in SUBSET Frame, NEW f \in Frame
    PROVE  queuePendingHostResync(r, f) \in SUBSET Frame
BY DEF queuePendingHostResync

\* A stored report replaces one of its frame or is appended; a full history
\* loses its oldest report.
LEMMA StoreFacts ==
    ASSUME NEW h, History(h), NEW e \in Report
    PROVE  LET n == storeHistoryEntry(h, e)
           IN  /\ History(n)
               /\ \A i \in 1..Len(n) : n[i] = e \/ \E j \in 1..Len(h) : n[i] = h[j]
<1>1. h \in Seq(Report) /\ Len(h) \in Nat /\ Len(h) <= Capacity /\ Capacity \in Nat /\ Capacity # 0
  BY Numbers DEF History
<1>2. CASE \E i \in 1..Len(h) : h[i].frame = e.frame
  <2> DEFINE n == [i \in 1..Len(h) |-> IF h[i].frame = e.frame THEN e ELSE h[i]]
  <2>1. storeHistoryEntry(h, e) = n
    BY <1>2 DEF storeHistoryEntry
  <2>2. n \in Seq(Report) /\ Len(n) = Len(h)
    BY <1>1
  <2>3. \A i \in 1..Len(h) : n[i] = e \/ n[i] = h[i]
    OBVIOUS
  <2> HIDE DEF n
  <2> QED BY <1>1, <2>1, <2>2, <2>3 DEF History
<1>3. CASE ~ \E i \in 1..Len(h) : h[i].frame = e.frame
  <2> DEFINE a == Append(h, e)
             k == MaxOf(1, Len(a) - Capacity + 1)
             n == SubSeq(a, k, Len(a))
  <2>1. storeHistoryEntry(h, e) = n
    BY <1>3 DEF storeHistoryEntry
  <2>2. /\ a \in Seq(Report) /\ Len(a) = Len(h) + 1 /\ a[Len(h) + 1] = e
        /\ \A i \in 1..Len(h) : a[i] = h[i]
    BY <1>1, AppendProperties
  <2> HIDE DEF a
  <2>3. k \in Nat /\ 1 <= k /\ k <= Len(a) /\ Len(a) - k + 1 <= Capacity /\ Len(a) \in Nat
    BY <1>1, <2>2 DEF MaxOf
  <2> HIDE DEF k
  <2>4. \A i \in k..Len(a) : a[i] \in Report
    BY <2>2, <2>3
  <2>5. /\ n \in Seq(Report) /\ Len(n) = Len(a) - k + 1
        /\ \A i \in 1..(Len(a) - k + 1) : n[i] = a[k + i - 1]
    <3>1. k \in Int /\ Len(a) \in Int
      BY <2>3
    <3> QED BY <2>3, <2>4, <3>1, SubSeqProperties
  <2> HIDE DEF n
  <2>6. ASSUME NEW i \in 1..Len(n) PROVE n[i] = e \/ \E j \in 1..Len(h) : n[i] = h[j]
    <3>1. k + i - 1 \in 1..(Len(h) + 1) /\ n[i] = a[k + i - 1]
      BY <1>1, <2>2, <2>3, <2>5
    <3>2. k + i - 1 = Len(h) + 1 \/ k + i - 1 \in 1..Len(h)
      BY <1>1, <3>1
    <3> QED BY <2>2, <3>1, <3>2
  <2> QED BY <2>1, <2>3, <2>5, <2>6 DEF History
<1> QED BY <1>2, <1>3

\* invalidateHistoryAfter keeps a prefix.
LEMMA KeptFacts ==
    ASSUME NEW h, History(h), NEW f
    PROVE  History(Kept(h, f)) /\ \A e : OfEpoch(h, e) => OfEpoch(Kept(h, f), e)
<1> DEFINE S == {0} \cup {i \in 1..Len(h) : h[i].frame < f}
           k == Max(S)
           n == SubSeq(h, 1, k)
<1>1. h \in Seq(Report) /\ Len(h) \in Nat /\ Len(h) <= Capacity /\ Capacity \in Nat
  BY Numbers DEF History
<1>2. S \in SUBSET (0..Len(h)) /\ S # {}
  BY <1>1
<1> HIDE DEF S
<1>3. k \in S
  BY <1>1, <1>2, MaxNat
<1>4. Kept(h, f) = n
  BY DEF Kept, S
<1> HIDE DEF k
<1>5. k \in Nat /\ k <= Len(h)
  <2>1. k \in 0..Len(h)
    BY <1>2, <1>3
  <2> QED BY <1>1, <2>1
<1>6. /\ n \in Seq(Report) /\ Len(n) = k
      /\ \A i \in 1..k : n[i] = h[i]
  <2>1. \A i \in 1..k : h[i] \in Report
    BY <1>1, <1>5
  <2>2. k \in Int /\ 1 \in Int
    BY <1>5
  <2>3. /\ n \in Seq(Report) /\ Len(n) = IF 1 <= k THEN k - 1 + 1 ELSE 0
        /\ \A i \in 1..(k - 1 + 1) : n[i] = h[1 + i - 1]
    BY <2>1, <2>2, SubSeqProperties
  <2> HIDE DEF n
  <2> QED BY <1>5, <2>3
<1> HIDE DEF n
<1>7. History(n)
  BY <1>1, <1>5, <1>6 DEF History
<1>8. \A e : OfEpoch(h, e) => OfEpoch(n, e)
  BY <1>1, <1>5, <1>6 DEF OfEpoch
<1> QED BY <1>4, <1>7, <1>8

LEMMA EmptyHistories ==
    /\ NoReports \in [local : Seq(Report), remote : Seq(Report)]
    /\ History(NoReports.local) /\ History(NoReports.remote)
    /\ \A e : OfEpoch(NoReports.remote, e)
<1>1. <<>> \in Seq(Report) /\ Len(<<>>) = 0
  OBVIOUS
<1>2. NoReports.local = <<>> /\ NoReports.remote = <<>>
  BY DEF NoReports
<1> QED BY <1>1, <1>2, Numbers DEF NoReports, History, OfEpoch

LEMMA EmptyStall == NoStall \in StallType /\ NoStall.pending = {}
BY DEF NoStall, StallType

-----------------------------------------------------------------------------
(* The host's steps. *)

LEMMA HostFacts ==
    ASSUME IInv
    PROVE  /\ host \in HostType /\ host.sim \in Frame /\ host.sim \in Nat /\ host.sim <= MaxFrame
           /\ host.have \in [Clients -> Frame] /\ host.request \in SUBSET Frame
           /\ host.epoch \in Epoch
BY FrameFacts DEF IInv, HostInv, HostType

\* What is pending stays current while the host's frame and inputs do not change.
LEMMA PendingKept ==
    ASSUME IInv, host'.sim = host.sim, host'.have = host.have, stall' \in StallType,
           stall'.pending \subseteq stall.pending
    PROVE  StallInv'
BY DEF IInv, StallInv, PendingStallIsCurrent, Missing

\* Comparing reports that all belong to the present epoch.
LEMMA ComparingKeeps ==
    ASSUME IInv, NEW m \in [local : Seq(Report), remote : Seq(Report)],
           History(m.local), History(m.remote), OfEpoch(m.remote, host.epoch),
           NEW f \in Frame, applyDesyncMonitorUpdate(m, f), UNCHANGED stall, PeerInv'
    PROVE  IInv'
<1>1. /\ host \in HostType /\ host.sim <= MaxFrame /\ host.request \in SUBSET Frame
      /\ rec \in RecType /\ ~hollow /\ stall \in StallType
  BY HostFacts DEF IInv, ValidationIsGenuine, StallInv
<1>2. PICK w \in SUBSET Frame : host' = [host EXCEPT !.request = w]
  BY <1>1, QueueType DEF applyDesyncMonitorUpdate
<1>3. /\ host' \in HostType /\ host'.sim = host.sim /\ host'.have = host.have
      /\ host'.epoch = host.epoch
  BY <1>1, <1>2 DEF HostType
<1>4. PICK b : rec' = [rec EXCEPT !.passed = b] /\ b \in BOOLEAN
  BY DEF applyDesyncMonitorUpdate
<1>5. rec' \in RecType
  BY <1>1, <1>4 DEF RecType
<1>6. \A r \in EntriesAt(m.remote, f) : Genuine(r)
  BY DEF EntriesAt, OfEpoch, Genuine
<1>7. ~hollow'
  BY <1>1, <1>6 DEF applyDesyncMonitorUpdate
<1>8. MonInv'
  BY <1>3 DEF applyDesyncMonitorUpdate, MonInv
<1>9. StallInv'
  BY <1>1, <1>3, PendingKept
<1> QED BY <1>1, <1>3, <1>5, <1>7, <1>8, <1>9 DEF IInv, HostInv, ValidationIsGenuine

LEMMA HostSubmitsCrcKeeps == IInv /\ HostSubmitsCrc => IInv'
<1> SUFFICES ASSUME IInv, HostSubmitsCrc PROVE IInv'
  OBVIOUS
<1> DEFINE e == [frame |-> host.sim, crc |-> host.line[host.sim],
                 epoch |-> host.epoch, life |-> host.epoch]
           h == storeHistoryEntry(mon.local, e)
           m == [mon EXCEPT !.local = h]
<1>1. e \in Report
  BY HostFacts, EpochFacts DEF Report, HostType
<1>2. /\ mon \in [local : Seq(Report), remote : Seq(Report)]
      /\ History(mon.local) /\ History(mon.remote) /\ OfEpoch(mon.remote, host.epoch)
  BY DEF IInv, MonInv
<1> HIDE DEF e
<1>3. History(h)
  BY <1>1, <1>2, StoreFacts
<1>4. applyDesyncMonitorUpdate(m, host.sim)
  BY DEF HostSubmitsCrc, e
<1> HIDE DEF h
<1>5. m \in [local : Seq(Report), remote : Seq(Report)] /\ m.local = h /\ m.remote = mon.remote
  BY <1>2, <1>3 DEF History
<1> HIDE DEF m
<1>6. PeerInv'
  BY DEF HostSubmitsCrc, IInv, PeerInv
<1> QED BY <1>2, <1>3, <1>4, <1>5, <1>6, HostFacts, ComparingKeeps DEF HostSubmitsCrc

\* The peers after one of them changed to a state that is still in bounds.
LEMMA PeerKept ==
    ASSUME IInv, NEW c \in Clients, NEW q \in PeerType, Within(q), peer' = [peer EXCEPT ![c] = q]
    PROVE  PeerInv'
BY DEF IInv, PeerInv

LEMMA PeerFacts ==
    ASSUME IInv, NEW c \in Clients
    PROVE  /\ peer \in [Clients -> PeerType] /\ peer[c] \in PeerType /\ Within(peer[c])
           /\ peer[c].reports \in Seq(Report) /\ peer[c].control \in Seq(Control)
BY DEF IInv, PeerInv, PeerType

LEMMA CrcReportKeeps ==
    ASSUME IInv, NEW c \in Clients, handleCrcReport(c)
    PROVE  IInv'
<1> DEFINE e == Head(peer[c].reports)
           q == [peer[c] EXCEPT !.reports = Tail(peer[c].reports)]
           h == storeHistoryEntry(mon.remote, e)
           m == [mon EXCEPT !.remote = h]
<1>1. /\ peer \in [Clients -> PeerType] /\ peer[c] \in PeerType /\ Within(peer[c])
      /\ peer[c].reports \in Seq(Report) /\ peer[c].reports # <<>>
  BY PeerFacts DEF handleCrcReport
<1>2. e \in Report /\ Tail(peer[c].reports) \in Seq(Report)
  BY <1>1, HeadTailProperties
<1>3. peer' = [peer EXCEPT ![c] = q] /\ UNCHANGED stall
  BY <1>1 DEF handleCrcReport
<1>4. q \in PeerType /\ Within(q)
  BY <1>1, <1>2 DEF PeerType, Within
<1>5. PeerInv'
  BY <1>3, <1>4, PeerKept
<1> HIDE DEF q, e
<1>6. CASE e.epoch # host.epoch \/ host.state # "Running"
  <2>1. UNCHANGED <<host, rec, mon, hollow, stall>>
    BY <1>3, <1>6 DEF handleCrcReport, e
  <2> QED BY <1>5, <2>1 DEF IInv, HostInv, StallInv, PendingStallIsCurrent, Missing, MonInv,
                            ValidationIsGenuine
<1>7. CASE e.epoch = host.epoch /\ host.state = "Running"
  <2>1. /\ mon \in [local : Seq(Report), remote : Seq(Report)]
        /\ History(mon.local) /\ History(mon.remote) /\ OfEpoch(mon.remote, host.epoch)
    BY DEF IInv, MonInv
  <2>2. History(h) /\ \A i \in 1..Len(h) : h[i] = e \/ \E j \in 1..Len(mon.remote) : h[i] = mon.remote[j]
    BY <1>2, <2>1, StoreFacts
  <2>3. applyDesyncMonitorUpdate(m, e.frame)
    BY <1>7 DEF handleCrcReport, e
  <2> HIDE DEF h
  <2>4. m \in [local : Seq(Report), remote : Seq(Report)] /\ m.local = mon.local /\ m.remote = h
    BY <2>1, <2>2 DEF History
  <2>5. OfEpoch(h, host.epoch)
    BY <1>7, <2>1, <2>2 DEF OfEpoch
  <2>6. e.frame \in Frame
    BY <1>2 DEF Report
  <2> HIDE DEF m
  <2> QED BY <1>3, <1>5, <2>1, <2>2, <2>3, <2>4, <2>5, <2>6, ComparingKeeps
<1> QED BY <1>6, <1>7

\* One more message to a client whose channel is in bounds.
LEMMA ToldFacts ==
    ASSUME NEW q \in PeerType, Within(q), NEW m \in Control, m.frame <= MaxFrame
    PROVE  LET p == [q EXCEPT !.control = Append(@, m)] IN p \in PeerType /\ Within(p)
<1> DEFINE d == q.control
           a == Append(d, m)
           p == [q EXCEPT !.control = a]
<1>1. d \in Seq(Control)
  BY DEF PeerType
<1>2. /\ a \in Seq(Control) /\ Len(a) = Len(d) + 1 /\ Len(d) \in Nat
      /\ \A i \in 1..Len(d) : a[i] = d[i]
      /\ a[Len(d) + 1] = m
  BY <1>1, AppendProperties
<1> HIDE DEF a
<1>3. p \in PeerType /\ p.control = a /\ p.conf = q.conf /\ p.sim = q.sim
  BY <1>2 DEF PeerType
<1>4. \A i \in 1..Len(a) : i \in 1..Len(d) \/ i = Len(d) + 1
  BY <1>2
<1>5. \A i \in 1..Len(a) : a[i].frame <= MaxFrame
  BY <1>2, <1>4 DEF Within
<1>6. Within(p)
  BY <1>3, <1>5 DEF Within
<1> QED BY <1>3, <1>6 DEF a

\* Beginning a resync at a frame the host has emulated.
LEMMA BeginResyncKeeps ==
    ASSUME IInv, NEW f \in Frame, f <= host.sim, BeginResync(f)
    PROVE  IInv'
<1> DEFINE e == host.epoch + 1
           m == [kind |-> "begin", epoch |-> e, frame |-> f, sig |-> host.line[f]]
           hv == [c \in Clients |-> f]
           ln == [g \in Frame |-> IF g <= f THEN host.line[g] ELSE e]
<1>1. /\ host \in HostType /\ host.sim \in Nat /\ host.sim <= MaxFrame /\ host.epoch \in Epoch
      /\ host.line \in [Frame -> Epoch] /\ rec \in RecType /\ f \in Nat /\ MaxFrame \in Nat
  BY HostFacts, FrameFacts, Numbers DEF IInv, HostType
<1>2. e \in Epoch
  BY <1>1, EpochFacts DEF BeginResync
<1>3. m \in Control /\ m.frame = f /\ f <= MaxFrame
  <2>1. host.line[f] \in Crc /\ "begin" \in {"begin", "Running"}
    BY <1>1, EpochFacts
  <2>2. m \in Control
    BY <1>2, <2>1 DEF Control
  <2> QED BY <1>1, <2>2
<1>4. hv \in [Clients -> Frame] /\ ln \in [Frame -> Epoch]
  BY <1>1, <1>2
<1>5. /\ host' = [host EXCEPT !.state = "Resyncing", !.epoch = e, !.sim = f, !.have = hv,
                        !.acks = Clients, !.line = ln, !.request = {}]
      /\ rec' = [rec EXCEPT !.mode = "ResyncLocked", !.at = f]
      /\ peer' = [c \in Clients |-> [peer[c] EXCEPT !.control = Append(@, m)]]
      /\ stall' = NoStall /\ mon' = NoReports /\ hollow' = hollow
  BY DEF BeginResync
<1> HIDE DEF e, m, hv, ln
<1>6. host' \in HostType /\ host'.sim = f
  BY <1>1, <1>2, <1>4, <1>5 DEF HostType
<1>7. rec' \in RecType
  BY <1>1, <1>5 DEF RecType, Mode
<1>8. PeerInv'
  <2>1. \A c \in Clients : peer[c] \in PeerType /\ Within(peer[c])
    BY PeerFacts
  <2> QED BY <1>3, <1>5, <2>1, ToldFacts DEF PeerInv
<1>9. MonInv' /\ StallInv'
  BY <1>5, EmptyHistories, EmptyStall DEF MonInv, StallInv, PendingStallIsCurrent
<1> QED BY <1>1, <1>3, <1>5, <1>6, <1>7, <1>8, <1>9 DEF IInv, HostInv, ValidationIsGenuine

LEMMA ProcessHostResyncKeeps == IInv /\ ProcessHostResync => IInv'
<1> SUFFICES ASSUME IInv, ProcessHostResync PROVE IInv'
  OBVIOUS
<1>1. host.sim \in Frame /\ host.sim \in Nat /\ host.request \in SUBSET Frame
  BY HostFacts
<1>2. PICK f \in host.request : BeginResync(MinOf(f, host.sim)) \/ BeginResync(host.sim)
  BY DEF ProcessHostResync
<1>3. MinOf(f, host.sim) \in Frame /\ MinOf(f, host.sim) <= host.sim /\ host.sim <= host.sim
  BY <1>1, FrameFacts DEF MinOf
<1> QED BY <1>1, <1>2, <1>3, BeginResyncKeeps

LEMMA SelfStallUpdateKeeps == IInv /\ SelfStallUpdate => IInv'
<1> SUFFICES ASSUME IInv, SelfStallUpdate PROVE IInv'
  OBVIOUS
<1>1. host.sim \in Frame /\ host.sim <= host.sim
  BY HostFacts
<1> QED BY <1>1, BeginResyncKeeps DEF SelfStallUpdate

\* Steps of the host that ask for a resync or do nothing else to the session.
LEMMA AskingKeeps ==
    ASSUME IInv, NEW w \in SUBSET Frame, host' = [host EXCEPT !.request = w] \/ host' = host,
           rec' \in RecType, stall' \in StallType, stall'.pending \subseteq stall.pending,
           mon' \in [local : Seq(Report), remote : Seq(Report)],
           History(mon'.local), History(mon'.remote), OfEpoch(mon'.remote, host.epoch),
           UNCHANGED <<peer, hollow>>
    PROVE  IInv'
<1>1. host \in HostType /\ host.sim <= MaxFrame
  BY HostFacts
<1>2. /\ host' \in HostType /\ host'.sim = host.sim /\ host'.have = host.have
      /\ host'.epoch = host.epoch
  BY <1>1 DEF HostType
<1>3. StallInv'
  BY <1>2, PendingKept
<1> QED BY <1>1, <1>2, <1>3 DEF IInv, HostInv, MonInv, PeerInv, ValidationIsGenuine

LEMMA NormalFacts ==
    ASSUME IInv, NEW f \in Frame, NormalFrom(f)
    PROVE  /\ rec' \in RecType /\ stall' \in StallType /\ stall'.pending \subseteq stall.pending
           /\ mon' \in [local : Seq(Report), remote : Seq(Report)]
           /\ History(mon'.local) /\ History(mon'.remote) /\ OfEpoch(mon'.remote, host.epoch)
<1> DEFINE g == MaxOf(rec.grace, f + Grace)
<1>1. rec \in RecType /\ rec.grace \in Nat /\ f \in Nat /\ Grace \in Nat
  BY Numbers, FrameFacts DEF IInv, RecType
<1>2. g \in Nat
  BY <1>1 DEF MaxOf
<1>3. rec' = [rec EXCEPT !.mode = "Normal", !.at = 0, !.passed = FALSE, !.grace = g]
  BY DEF NormalFrom
<1> HIDE DEF g
<1>4. rec' \in RecType
  BY <1>1, <1>2, <1>3, FrameFacts DEF RecType, Mode
<1> QED BY <1>4, EmptyHistories, EmptyStall DEF NormalFrom

LEMMA AdvanceKeeps == IInv /\ advanceRecoveryStabilization => IInv'
<1> SUFFICES ASSUME IInv, advanceRecoveryStabilization PROVE IInv'
  OBVIOUS
<1> DEFINE f == MinOf(host.sim, Confirmed)
           w == queuePendingHostResync(host.request, f)
<1>1. host.sim \in Frame /\ f \in Frame /\ host.request \in SUBSET Frame
  BY HostFacts, ConfirmedFacts DEF IInv
<1>2. w \in SUBSET Frame
  BY <1>1, QueueType
<1>3. UNCHANGED <<peer, hollow>>
  BY DEF advanceRecoveryStabilization
<1>4. \/ NormalFrom(host.sim) /\ host' = host
      \/ NormalFrom(f) /\ host' = [host EXCEPT !.request = w]
  BY DEF advanceRecoveryStabilization
<1> HIDE DEF f, w
<1> QED BY <1>1, <1>2, <1>3, <1>4, NormalFacts, AskingKeeps

LEMMA TopologyChangesKeeps == IInv /\ TopologyChanges => IInv'
<1> SUFFICES ASSUME IInv, TopologyChanges PROVE IInv'
  OBVIOUS
<1> DEFINE f == MinOf(host.sim, Confirmed)
           w == queuePendingHostResync(host.request, f)
<1>1. f \in Frame /\ host.request \in SUBSET Frame
  BY HostFacts, ConfirmedFacts DEF IInv
<1>2. w \in SUBSET Frame
  BY <1>1, QueueType
<1>3. /\ host' = [host EXCEPT !.request = w] /\ UNCHANGED <<peer, hollow, rec, stall>>
      /\ mon' = invalidateHistoryAfter(mon, f)
  BY DEF TopologyChanges
<1> HIDE DEF f, w
<1>4. /\ History(Kept(mon.local, f)) /\ History(Kept(mon.remote, f))
      /\ OfEpoch(Kept(mon.remote, f), host.epoch)
  BY KeptFacts DEF IInv, MonInv
<1>5. mon'.local = Kept(mon.local, f) /\ mon'.remote = Kept(mon.remote, f)
  BY <1>3 DEF invalidateHistoryAfter
<1>6. mon' \in [local : Seq(Report), remote : Seq(Report)]
  BY <1>3, <1>4 DEF invalidateHistoryAfter, History
<1>7. rec' \in RecType /\ stall' \in StallType /\ stall'.pending \subseteq stall.pending
  BY <1>3 DEF IInv, StallInv
<1> QED BY <1>2, <1>3, <1>4, <1>5, <1>6, <1>7, AskingKeeps

LEMMA PeerHealthKeeps ==
    ASSUME IInv, NEW c \in Clients, handlePeerHealth(c)
    PROVE  IInv'
<1> DEFINE f == MinOf(host.sim, Confirmed)
           w == queuePendingHostResync(host.request, f)
<1>1. f \in Frame /\ host.request \in SUBSET Frame
  BY HostFacts, ConfirmedFacts DEF IInv
<1>2. w \in SUBSET Frame
  BY <1>1, QueueType
<1>3. /\ host' = [host EXCEPT !.request = w] \/ host' = host
      /\ UNCHANGED <<peer, hollow, rec, mon>> /\ stall' = [stall EXCEPT !.pending = {}]
  BY DEF handlePeerHealth
<1> HIDE DEF f, w
<1>4. stall' \in StallType /\ stall'.pending \subseteq stall.pending
  BY <1>3 DEF IInv, StallInv, StallType
<1>5. /\ mon' \in [local : Seq(Report), remote : Seq(Report)] /\ rec' \in RecType
      /\ History(mon'.local) /\ History(mon'.remote) /\ OfEpoch(mon'.remote, host.epoch)
  BY <1>3 DEF IInv, MonInv
<1> QED BY <1>2, <1>3, <1>4, <1>5, AskingKeeps

LEMMA HostRunsKeeps == IInv /\ HostRuns => IInv'
<1> SUFFICES ASSUME IInv, HostRuns PROVE IInv'
  OBVIOUS
<1>1. host \in HostType /\ host.sim \in Nat /\ host.sim < MaxFrame /\ MaxFrame \in Nat /\ P \in Nat
  BY HostFacts, Numbers DEF HostRuns
<1>2. host.sim + 1 \in Frame /\ host.sim + 1 <= MaxFrame
  BY <1>1, FrameFacts
<1>3. host' = [host EXCEPT !.sim = host.sim + 1] /\ UNCHANGED <<rec, stall, mon, peer, hollow>>
  BY DEF HostRuns
<1>4. host' \in HostType /\ host'.sim = host.sim + 1 /\ host'.epoch = host.epoch
  BY <1>1, <1>2, <1>3 DEF HostType
<1>5. StallInv'
  BY <1>3 DEF IInv, StallInv, PendingStallIsCurrent, HostRuns
<1> QED BY <1>2, <1>3, <1>4, <1>5 DEF IInv, HostInv, MonInv, PeerInv, ValidationIsGenuine

\* Whatever a stall is noted with, it is the one the host waits in.
LEMMA NoteFacts ==
    ASSUME IInv, NEW c \in Missing, NEW m, m = noteStall(stall, c, host.sim)
    PROVE  m \in StallType /\ \A p \in m.pending : p.c \in Missing /\ p.frame = host.sim
<1>1. /\ host.sim \in Frame /\ host.sim \in Nat /\ stall \in StallType /\ c \in Clients
      /\ \A p \in stall.pending : p.c \in Missing /\ p.frame = host.sim
  BY HostFacts DEF IInv, StallInv, PendingStallIsCurrent, Missing
<1>2. ASSUME NEW p \in stall.pending
      PROVE  [p EXCEPT !.frame = MinOf(p.frame, host.sim)] = p
  <2>1. p \in [c : Clients, frame : Frame, loggable : BOOLEAN]
    BY <1>1 DEF StallType
  <2>2. MinOf(p.frame, host.sim) = p.frame
    BY <1>1 DEF MinOf
  <2> QED BY <2>1, <2>2
<1>3. CASE m = [stall EXCEPT !.pending =
                  {[p EXCEPT !.frame = MinOf(p.frame, host.sim)] : p \in stall.pending}]
  <2>1. {[p EXCEPT !.frame = MinOf(p.frame, host.sim)] : p \in stall.pending} = stall.pending
    BY <1>2
  <2>2. m = stall
    BY <1>1, <1>3, <2>1 DEF StallType
  <2> QED BY <1>1, <2>2
<1>4. CASE m = [stall EXCEPT !.pending = {[c |-> c, frame |-> host.sim,
                                           loggable |-> ~RecentlyRecovered(stall, c, host.sim)]}]
  <2> DEFINE n == [c |-> c, frame |-> host.sim,
                   loggable |-> ~RecentlyRecovered(stall, c, host.sim)]
  <2>1. n \in [c : Clients, frame : Frame, loggable : BOOLEAN] /\ n.c = c /\ n.frame = host.sim
    BY <1>1
  <2>2. m = [stall EXCEPT !.pending = {n}]
    BY <1>4
  <2> HIDE DEF n
  <2>3. m \in StallType /\ m.pending = {n}
    BY <1>1, <2>1, <2>2 DEF StallType
  <2> QED BY <2>1, <2>3
<1> QED BY <1>3, <1>4 DEF noteStall

LEMMA HostStopsKeeps ==
    ASSUME IInv, NEW c \in Clients, HostStops(c)
    PROVE  IInv'
<1>1. /\ UNCHANGED <<host, rec, mon, peer, hollow>>
      /\ stall' \in StallType /\ \A p \in stall'.pending : p.c \in Missing /\ p.frame = host.sim
  BY NoteFacts DEF HostStops
<1>2. StallInv'
  BY <1>1 DEF StallInv, PendingStallIsCurrent, Missing
<1> QED BY <1>1, <1>2 DEF IInv, HostInv, MonInv, PeerInv, ValidationIsGenuine

LEMMA InputFrameKeeps ==
    ASSUME IInv, NEW c \in Clients, handleInputFrame(c)
    PROVE  IInv'
<1> DEFINE f == peer[c].input.frame
           hv == [host.have EXCEPT ![c] = f]
           m == clearRecovered(stall, c, f)
<1>1. /\ host \in HostType /\ host.sim \in Nat /\ host.have \in [Clients -> Frame]
      /\ stall \in StallType /\ \A p \in stall.pending : p.c \in Missing /\ p.frame = host.sim
  BY HostFacts DEF IInv, StallInv, PendingStallIsCurrent
<1>2. f \in Frame /\ f \in Nat
  BY PeerFacts, FrameFacts DEF PeerType, InputType
<1>3. /\ host' = [host EXCEPT !.have = hv] /\ stall' = m
      /\ UNCHANGED <<rec, mon, peer, hollow>>
  BY <1>1 DEF handleInputFrame
<1>4. hv \in [Clients -> Frame] /\ hv[c] = f /\ \A d \in Clients \ {c} : hv[d] = host.have[d]
  BY <1>1, <1>2
<1> HIDE DEF f, hv
<1>5. /\ host' \in HostType /\ host'.sim = host.sim /\ host'.have = hv
      /\ host'.epoch = host.epoch
  BY <1>1, <1>3, <1>4 DEF HostType
<1>6. m \in StallType
  BY <1>1, <1>2 DEF clearRecovered, StallType
<1>7. ASSUME NEW p \in m.pending
      PROVE  p.c \in Missing' /\ p.frame = host'.sim
  <2>1. m = stall /\ ~(p.c = c /\ p.frame <= f)
    BY <1>7 DEF clearRecovered
  <2>2. p.c \in Missing /\ p.frame = host.sim
    BY <1>1, <2>1
  <2>3. CASE p.c # c
    BY <1>4, <1>5, <2>2, <2>3 DEF Missing
  <2>4. CASE p.c = c
    <3>1. ~(host.sim <= f)
      BY <2>1, <2>2, <2>4
    <3> QED BY <1>1, <1>2, <1>4, <1>5, <2>2, <2>4, <3>1 DEF Missing
  <2> QED BY <2>3, <2>4
<1>8. StallInv'
  BY <1>3, <1>6, <1>7 DEF StallInv, PendingStallIsCurrent
<1> QED BY <1>3, <1>5, <1>8 DEF IInv, HostInv, MonInv, PeerInv, ValidationIsGenuine

-----------------------------------------------------------------------------
(* The clients' steps. *)

\* A client's step that changes nothing but the client.
LEMMA ClientAloneKeeps ==
    ASSUME IInv, NEW c \in Clients, NEW q \in PeerType, Within(q), peer' = [peer EXCEPT ![c] = q],
           UNCHANGED <<host, rec, stall, mon, hollow>>
    PROVE  IInv'
<1>1. PeerInv'
  BY PeerKept
<1>2. StallInv'
  BY DEF IInv, StallInv, PendingStallIsCurrent, Missing
<1> QED BY <1>1, <1>2 DEF IInv, HostInv, MonInv, ValidationIsGenuine

\* What the code records in the tick after a client came to another frame.
LEMMA RecordedFacts ==
    ASSUME NEW q \in PeerType, Within(q)
    PROVE  Recorded(q) \in PeerType /\ Within(Recorded(q))
<1> DEFINE i == [frame |-> q.sim + P, epoch |-> q.epoch]
<1>1. q.sim \in Nat /\ q.sim <= MaxFrame + P + 1 /\ q.epoch \in Epoch
  BY FrameFacts DEF PeerType, Within
<1>2. i \in InputType
  BY <1>1, FrameFacts DEF InputType
<1>3. Recorded(q) = [q EXCEPT !.input = i]
  BY DEF Recorded
<1> HIDE DEF i
<1> QED BY <1>2, <1>3 DEF PeerType, Within

\* What a message of the reliable channel says, and the channel without it.
LEMMA ControlFacts ==
    ASSUME IInv, NEW c \in Clients, peer[c].control # <<>>
    PROVE  LET m == Head(peer[c].control)
               t == Tail(peer[c].control)
           IN  /\ m \in Control /\ m.epoch \in Epoch /\ m.frame \in Frame /\ m.sig \in Crc
               /\ m.frame <= MaxFrame /\ m.frame \in Nat
               /\ t \in Seq(Control) /\ \A i \in 1..Len(t) : t[i].frame <= MaxFrame
<1> DEFINE d == peer[c].control
           t == Tail(d)
<1>1. d \in Seq(Control) /\ Within(peer[c]) /\ d # <<>>
  BY PeerFacts
<1>2. /\ Head(d) \in Control /\ t \in Seq(Control) /\ Len(t) = Len(d) - 1
      /\ \A i \in 1..Len(t) : t[i] = d[i + 1]
  BY <1>1, HeadTailProperties
<1>3. Head(d) = d[1] /\ 1 \in 1..Len(d) /\ Len(d) \in Nat
  BY <1>1
<1> HIDE DEF t
<1>4. \A i \in 1..Len(t) : i + 1 \in 1..Len(d)
  BY <1>2, <1>3
<1>5. Head(d).frame <= MaxFrame /\ \A i \in 1..Len(t) : t[i].frame <= MaxFrame
  BY <1>1, <1>2, <1>3, <1>4 DEF Within
<1>6. /\ Head(d).epoch \in Epoch /\ Head(d).frame \in Frame /\ Head(d).sig \in Crc
      /\ Head(d).frame \in Nat
  BY <1>2, FrameFacts DEF Control
<1> QED BY <1>2, <1>5, <1>6 DEF t

LEMMA ClientResumesKeeps ==
    ASSUME IInv, NEW c \in Clients, ClientResumes(c)
    PROVE  IInv'
<1> DEFINE t == Tail(peer[c].control)
           w == [peer[c] EXCEPT !.control = t, !.state = "Running"]
<1>1. peer \in [Clients -> PeerType] /\ peer[c] \in PeerType /\ Within(peer[c])
  BY PeerFacts
<1>2. t \in Seq(Control) /\ \A i \in 1..Len(t) : t[i].frame <= MaxFrame
  BY ControlFacts DEF ClientResumes
<1>3. peer' = [peer EXCEPT ![c] = Recorded(w)] /\ UNCHANGED <<host, rec, stall, mon, hollow>>
  BY <1>1 DEF ClientResumes
<1> HIDE DEF t
<1>4. w \in PeerType /\ w.control = t /\ w.sim = peer[c].sim /\ w.conf = peer[c].conf
  BY <1>1, <1>2 DEF PeerType
<1>5. Within(w)
  BY <1>1, <1>2, <1>4 DEF Within
<1> HIDE DEF w
<1> QED BY <1>3, <1>4, <1>5, RecordedFacts, ClientAloneKeeps

LEMMA ClientConfirmsKeeps ==
    ASSUME IInv, NEW c \in Clients, ClientConfirms(c)
    PROVE  IInv'
<1> DEFINE q == [peer[c] EXCEPT !.conf = peer[c].conf + 1]
<1>1. /\ peer \in [Clients -> PeerType] /\ peer[c] \in PeerType /\ Within(peer[c])
      /\ peer[c].conf \in Nat
  BY PeerFacts, FrameFacts DEF PeerType
<1>2. Confirmed \in Nat /\ Confirmed <= MaxFrame + P /\ MaxFrame \in Nat /\ P \in Nat
  BY ConfirmedFacts, FrameFacts, Numbers DEF IInv
<1>3. peer[c].conf + 1 <= MaxFrame + P /\ peer[c].conf + 1 \in Nat
  BY <1>1, <1>2 DEF ClientConfirms
<1>4. peer[c].conf + 1 \in Frame
  BY <1>2, <1>3, FrameFacts
<1>5. peer' = [peer EXCEPT ![c] = q] /\ UNCHANGED <<host, rec, stall, mon, hollow>>
  BY <1>1 DEF ClientConfirms
<1>6. q \in PeerType /\ q.control = peer[c].control /\ q.sim = peer[c].sim
      /\ q.conf = peer[c].conf + 1
  BY <1>1, <1>4 DEF PeerType
<1>7. Within(q)
  BY <1>1, <1>3, <1>6 DEF Within
<1> QED BY <1>5, <1>6, <1>7, ClientAloneKeeps

LEMMA FrameStatusKeeps ==
    ASSUME IInv, NEW c \in Clients, handleFrameStatus(c)
    PROVE  IInv'
<1> DEFINE q == [peer[c] EXCEPT !.epoch = host.epoch]
<1>1. peer \in [Clients -> PeerType] /\ peer[c] \in PeerType /\ Within(peer[c])
  BY PeerFacts
<1>2. peer' = [peer EXCEPT ![c] = q] /\ UNCHANGED <<host, rec, stall, mon, hollow>>
  BY <1>1 DEF handleFrameStatus
<1>3. q \in PeerType /\ Within(q)
  BY <1>1, HostFacts DEF PeerType, Within
<1> QED BY <1>2, <1>3, ClientAloneKeeps

LEMMA ClientRunsKeeps ==
    ASSUME IInv, NEW c \in Clients, ClientRuns(c)
    PROVE  IInv'
<1> DEFINE o == peer[c]
           g == IF o.sig = Diverged THEN o.sig ELSE o.life
           w == [o EXCEPT !.sim = o.sim + 1, !.sig = g]
<1>1. peer \in [Clients -> PeerType] /\ o \in PeerType /\ Within(o)
  BY PeerFacts
<1>2. /\ o.sim \in Nat /\ o.conf \in Nat /\ o.conf <= MaxFrame + P /\ host.sim \in Nat
      /\ host.sim <= MaxFrame /\ MaxFrame \in Nat /\ P \in Nat
  BY <1>1, HostFacts, FrameFacts, Numbers DEF PeerType, Within
<1>3. o.sim <= o.conf \/ o.sim <= host.sim
  BY DEF ClientRuns
<1>4. o.sim + 1 \in Nat /\ o.sim + 1 <= MaxFrame + P + 1
  BY <1>2, <1>3
<1>5. o.sim + 1 \in Frame
  BY <1>4, FrameFacts
<1>6. g \in Crc
  BY <1>1, EpochFacts DEF PeerType
<1>7. peer' = [peer EXCEPT ![c] = Recorded(w)] /\ UNCHANGED <<host, rec, stall, mon, hollow>>
  BY <1>1 DEF ClientRuns
<1> HIDE DEF g
<1>8. w \in PeerType /\ w.control = o.control /\ w.conf = o.conf /\ w.sim = o.sim + 1
  BY <1>1, <1>5, <1>6 DEF PeerType
<1>9. Within(w)
  BY <1>1, <1>4, <1>8 DEF Within
<1> HIDE DEF w
<1> QED BY <1>7, <1>8, <1>9, RecordedFacts, ClientAloneKeeps

LEMMA ClientSubmitsCrcKeeps ==
    ASSUME IInv, NEW c \in Clients, ClientSubmitsCrc(c)
    PROVE  IInv'
<1> DEFINE o == peer[c]
           e == [frame |-> o.sim, crc |-> o.sig, epoch |-> o.epoch, life |-> o.life]
           a == Append(o.reports, e)
           q == [o EXCEPT !.submitted = o.sim, !.reports = a]
<1>1. peer \in [Clients -> PeerType] /\ o \in PeerType /\ Within(o) /\ o.reports \in Seq(Report)
  BY PeerFacts
<1>2. e \in Report /\ o.sim \in Frame
  BY <1>1 DEF PeerType, Report
<1>3. a \in Seq(Report)
  BY <1>1, <1>2, AppendProperties
<1>4. peer' = [peer EXCEPT ![c] = q] /\ UNCHANGED <<host, rec, stall, mon, hollow>>
  BY <1>1 DEF ClientSubmitsCrc
<1> HIDE DEF a
<1>5. q \in PeerType /\ q.control = o.control /\ q.conf = o.conf /\ q.sim = o.sim
  BY <1>1, <1>2, <1>3 DEF PeerType
<1>6. Within(q)
  BY <1>1, <1>5 DEF Within
<1> QED BY <1>4, <1>5, <1>6, ClientAloneKeeps

LEMMA DivergesKeeps ==
    ASSUME IInv, NEW c \in Clients, Diverges(c)
    PROVE  IInv'
<1> DEFINE q == [peer[c] EXCEPT !.sig = Diverged]
<1>1. peer \in [Clients -> PeerType] /\ peer[c] \in PeerType /\ Within(peer[c])
  BY PeerFacts
<1>2. peer' = [peer EXCEPT ![c] = q] /\ UNCHANGED <<host, rec, stall, mon, hollow>>
  BY <1>1 DEF Diverges
<1>3. q \in PeerType /\ Within(q)
  BY <1>1, EpochFacts DEF PeerType, Within
<1> QED BY <1>2, <1>3, ClientAloneKeeps

LEMMA ClientLoadsKeeps ==
    ASSUME IInv, NEW c \in Clients, ClientLoads(c)
    PROVE  IInv'
<1> DEFINE m == Head(peer[c].control)
           t == Tail(peer[c].control)
           loaded == [peer[c] EXCEPT
                !.control = t, !.state = "Resyncing", !.epoch = m.epoch,
                !.life = m.epoch, !.sim = m.frame, !.conf = m.frame,
                !.sig = m.sig, !.submitted = 0]
           acks == IF m.epoch = host.epoch THEN host.acks \ {c} ELSE host.acks
           last == acks = {} /\ host.acks # {}
           end == [m EXCEPT !.kind = "Running"]
           Next1(d) == IF d = c THEN loaded ELSE peer[d]
<1>1. /\ m \in Control /\ m.epoch \in Epoch /\ m.frame \in Frame /\ m.sig \in Crc
      /\ m.frame <= MaxFrame /\ m.frame \in Nat
      /\ t \in Seq(Control) /\ \A i \in 1..Len(t) : t[i].frame <= MaxFrame
  BY ControlFacts DEF ClientLoads
<1>2. /\ host' = [host EXCEPT !.acks = acks, !.state = IF last THEN "Running" ELSE @]
      /\ rec' = IF last THEN Stabilizing(m.frame) ELSE rec
      /\ peer' = [d \in Clients |->
             IF last THEN [Next1(d) EXCEPT !.control = Append(@, end)] ELSE Next1(d)]
      /\ UNCHANGED <<stall, mon, hollow>>
  BY DEF ClientLoads
<1>3. end \in Control /\ end.frame <= MaxFrame
  BY <1>1 DEF Control
<1> HIDE DEF m, t
<1>4. loaded \in PeerType /\ Within(loaded)
  <2>1. peer[c] \in PeerType /\ MaxFrame \in Nat /\ P \in Nat
    BY PeerFacts, Numbers
  <2>2. [peer[c] EXCEPT !.control = t, !.state = "Resyncing", !.epoch = m.epoch] \in PeerType
    BY <1>1, <2>1 DEF PeerType
  <2>3. \A p \in PeerType : [p EXCEPT !.life = m.epoch, !.sim = m.frame, !.conf = m.frame,
                                      !.sig = m.sig, !.submitted = 0] \in PeerType
    BY <1>1, FrameFacts DEF PeerType
  <2>4. loaded \in PeerType
    BY <2>2, <2>3
  <2>5. loaded.control = t /\ loaded.sim = m.frame /\ loaded.conf = m.frame
    BY <2>1 DEF PeerType
  <2> HIDE DEF loaded
  <2>6. Within(loaded)
    BY <1>1, <2>1, <2>5 DEF Within
  <2> QED BY <2>4, <2>6
<1> HIDE DEF end, loaded
<1>5. \A d \in Clients : Next1(d) \in PeerType /\ Within(Next1(d))
  BY <1>4, PeerFacts
<1> HIDE DEF Next1
<1>6. PeerInv'
  BY <1>2, <1>3, <1>5, ToldFacts DEF PeerInv
<1>7. /\ host' \in HostType /\ host'.sim = host.sim /\ host'.have = host.have
      /\ host'.epoch = host.epoch
  <2>1. acks \in SUBSET Clients /\ host \in HostType
    BY HostFacts DEF HostType
  <2> HIDE DEF acks
  <2> QED BY <1>2, <2>1 DEF HostType
<1>8. rec' \in RecType
  BY <1>1, <1>2 DEF IInv, RecType, Stabilizing, Mode
<1>9. StallInv'
  BY <1>2, <1>7, PendingKept DEF IInv, StallInv
<1> QED BY <1>2, <1>6, <1>7, <1>8, <1>9 DEF IInv, HostInv, MonInv, ValidationIsGenuine

-----------------------------------------------------------------------------
(* The invariant holds throughout, and what it implies. *)

LEMMA InitIInv == Init => IInv
<1> SUFFICES ASSUME Init PROVE IInv
  OBVIOUS
<1> DEFINE q == [state |-> "Running", epoch |-> 1, life |-> 1, sim |-> 1, conf |-> 1,
                   sig |-> 1, submitted |-> 0, input |-> [frame |-> 1 + P, epoch |-> 1],
                   control |-> <<>>, reports |-> <<>>]
<1>1. /\ 1 \in Frame /\ 1 + P \in Frame /\ 0 \in Frame /\ 1 \in Epoch /\ 1 \in Crc
      /\ 1 <= MaxFrame /\ MaxFrame \in Nat /\ P \in Nat
  BY Numbers, FrameFacts, EpochFacts
<1>2. HostInv
  <2>1. [c \in Clients |-> 1] \in [Clients -> Frame] /\ [f \in Frame |-> 1] \in [Frame -> Epoch]
    BY <1>1
  <2> QED BY <1>1, <2>1 DEF Init, HostInv, HostType
<1>3. rec \in RecType
  BY <1>1 DEF Init, RecType, Mode
<1>4. MonInv /\ StallInv
  BY EmptyHistories, EmptyStall DEF Init, MonInv, StallInv, PendingStallIsCurrent
<1>5. q \in PeerType /\ Within(q)
  <2>1. [frame |-> 1 + P, epoch |-> 1] \in InputType
    BY <1>1 DEF InputType
  <2>2. q \in PeerType
    BY <1>1, <2>1 DEF PeerType
  <2>3. Len(q.control) = 0 /\ q.sim = 1 /\ q.conf = 1
    OBVIOUS
  <2> HIDE DEF q
  <2> QED BY <1>1, <2>2, <2>3 DEF Within
<1>6. PeerInv
  <2>1. peer = [c \in Clients |-> q]
    BY DEF Init
  <2> HIDE DEF q
  <2> QED BY <1>5, <2>1 DEF PeerInv
<1> QED BY <1>2, <1>3, <1>4, <1>6 DEF IInv, Init, ValidationIsGenuine

LEMMA NextIInv == IInv /\ [Next]_vars => IInv'
<1> SUFFICES ASSUME IInv, [Next]_vars PROVE IInv'
  OBVIOUS
<1>1. CASE UNCHANGED vars
  BY <1>1 DEF vars, IInv, HostInv, MonInv, StallInv, PeerInv, PendingStallIsCurrent, Missing,
              ValidationIsGenuine
<1>2. CASE HostRuns
  BY <1>2, HostRunsKeeps
<1>3. CASE HostSubmitsCrc
  BY <1>3, HostSubmitsCrcKeeps
<1>4. CASE ProcessHostResync
  BY <1>4, ProcessHostResyncKeeps
<1>5. CASE advanceRecoveryStabilization
  BY <1>5, AdvanceKeeps
<1>6. CASE TopologyChanges
  BY <1>6, TopologyChangesKeeps
<1>7. CASE SelfStallUpdate
  BY <1>7, SelfStallUpdateKeeps
<1>8. ASSUME NEW c \in Clients, HostStops(c) PROVE IInv'
  BY <1>8, HostStopsKeeps
<1>9. ASSUME NEW c \in Clients, handleInputFrame(c) PROVE IInv'
  BY <1>9, InputFrameKeeps
<1>10. ASSUME NEW c \in Clients, handlePeerHealth(c) PROVE IInv'
  BY <1>10, PeerHealthKeeps
<1>11. ASSUME NEW c \in Clients, handleCrcReport(c) PROVE IInv'
  BY <1>11, CrcReportKeeps
<1>12. ASSUME NEW c \in Clients, ClientLoads(c) PROVE IInv'
  BY <1>12, ClientLoadsKeeps
<1>13. ASSUME NEW c \in Clients, ClientResumes(c) PROVE IInv'
  BY <1>13, ClientResumesKeeps
<1>14. ASSUME NEW c \in Clients, ClientConfirms(c) PROVE IInv'
  BY <1>14, ClientConfirmsKeeps
<1>15. ASSUME NEW c \in Clients, handleFrameStatus(c) PROVE IInv'
  BY <1>15, FrameStatusKeeps
<1>16. ASSUME NEW c \in Clients, ClientRuns(c) PROVE IInv'
  BY <1>16, ClientRunsKeeps
<1>17. ASSUME NEW c \in Clients, ClientSubmitsCrc(c) PROVE IInv'
  BY <1>17, ClientSubmitsCrcKeeps
<1>18. ASSUME NEW c \in Clients, Diverges(c) PROVE IInv'
  BY <1>18, DivergesKeeps
<1> QED
  BY <1>1, <1>2, <1>3, <1>4, <1>5, <1>6, <1>7, <1>8, <1>9, <1>10, <1>11, <1>12, <1>13, <1>14,
     <1>15, <1>16, <1>17, <1>18 DEF Next, HostStep, ClientStep

LEMMA AlwaysIInv == Spec => []IInv
BY InitIInv, NextIInv, PTL DEF Spec

\* The monitors, the host and the clients keep their types and the CRC histories
\* keep to kHistoryCapacity, for any clients, delay, windows and bounds: no frame
\* number outruns the host's by more than the delay allows.
THEOREM RecoveryTypeCorrect == Spec => []TypeOK
<1>1. IInv => TypeOK
  BY TypeOKIsTyped DEF IInv
<1> QED BY <1>1, AlwaysIInv, PTL

\* The stall monitor never keeps a stall that is over: a pending stall names a
\* participant whose input the host is waiting for, in the very frame it is to
\* emulate (noteStall, clearRecovered and the resets of the monitor).
THEOREM PendingStallAlwaysCurrent == Spec => []PendingStallIsCurrent
<1>1. IInv => PendingStallIsCurrent
  BY DEF IInv, StallInv
<1> QED BY <1>1, AlwaysIInv, PTL

\* However CRC reports are delayed across resyncs, only one that belongs to the
\* timeline being stabilized validates its stabilization (the epoch test of
\* handleCrcReport and the resets of the histories).
THEOREM ValidationAlwaysGenuine == Spec => []ValidationIsGenuine
<1>1. IInv => ValidationIsGenuine
  BY DEF IInv
<1> QED BY <1>1, AlwaysIInv, PTL
=============================================================================
