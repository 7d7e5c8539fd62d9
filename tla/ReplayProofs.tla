---------------------------- MODULE ReplayProofs ----------------------------
(***************************************************************************)
(* What TLAPS proves of Replay, for a replay of any length, any rewind     *)
(* buffer and any number of operations of the user.                        *)
(***************************************************************************)
EXTENDS Replay, Extrema, SequenceTheorems, FiniteSetTheorems, TLAPS

EmuType == [frame : Frame, line : Seq(Input), paused : BOOLEAN, next : SUBSET Input,
            rewinding : BOOLEAN, buffer : Seq(State)]
PbType == [loaded : BOOLEAN, playing : BOOLEAN, seeking : BOOLEAN, ok : BOOLEAN,
           cursor : Frame, snapshots : Seq(State)]
AppType == [mode : SessionMode, observing : SessionMode, frames : Seq(RecordedFrame),
            auto : BOOLEAN,
            at : {"idle", "reopened", "loaded", "recording", "toggling"}]

\* A stored state has as many inputs as frames.
Coherent(q) == \A i \in 1..Len(q) : Len(q[i].line) = q[i].frame
OneEach(q) == \A i, j \in 1..Len(q) : i # j => q[i].frame # q[j].frame
OnReplay(q) == \A i \in 1..Len(q) : q[i].line = Prefix(q[i].frame)

Buffered(q) == q \in Seq(State) /\ Len(q) <= Capacity /\ Coherent(q)

EmuInv(e) ==
    /\ e \in EmuType /\ Len(e.line) = e.frame /\ Buffered(e.buffer)
    /\ \A x, y \in e.next : x = y
PbInv(b) == b \in PbType /\ OneEach(b.snapshots) /\ Coherent(b.snapshots)

\* Which replay, if any, the host has loaded in which mode of the session.
SessionInv ==
    /\ app.mode = "Playback" =>
          /\ app.frames = ReplayFile /\ app.observing = "Playback"
          /\ pb.loaded \/ app.at = "reopened"
    /\ app.mode = "Recording" => ~pb.loaded
    /\ app.at = "reopened" => app.mode = "Playback" /\ ~pb.loaded
    /\ app.at = "recording" => app.mode = "Recording" /\ app.observing # "Recording"
    /\ ~pb.loaded => pb.snapshots = <<>>
    /\ pb.loaded => pb.cursor = emu.frame

\* Between the ROM's reload and the loading of the replay nothing ran.
ReopenedInv ==
    (app.at = "reopened" /\ "unseen" \notin past) =>
        emu.frame = 0 /\ emu.line = <<>> /\ emu.next = {}

\* Everything a console with a replay can come to is on the replay's line.
FollowInv ==
    (pb.loaded /\ "unseen" \notin past) =>
        /\ emu.line = Prefix(emu.frame) /\ emu.frame <= N
        /\ OnReplay(pb.snapshots)
        /\ emu.next \subseteq {"Recorded"}
        /\ emu.next # {} => ~emu.rewinding /\ emu.frame < N

\* The recording has every frame emulated and the one prepared.
Recorded(frames, f, in) == f < Len(frames) /\ frames[f + 1] = [frame |-> f, input |-> in]
RecordInv ==
    (app.mode = "Recording" /\ past \cap {"unseen", "strayed"} = {}) =>
        /\ \A f \in 0..(emu.frame - 1) : Recorded(app.frames, f, emu.line[f + 1])
        /\ \A i \in emu.next : Recorded(app.frames, emu.frame, i)

IInv ==
    /\ EmuInv(emu) /\ PbInv(pb)
    /\ queue \in Seq(Command) /\ pace \in [running : BOOLEAN, late : BOOLEAN]
    /\ app \in AppType /\ past \subseteq Incident /\ ops \in 0..MaxOps
    /\ SessionInv /\ ReopenedInv /\ FollowInv /\ RecordInv


-----------------------------------------------------------------------------
(* The operators of the model. *)

LEMMA Constants ==
    /\ N \in Nat /\ N >= 1 /\ MaxFrame \in Nat /\ Capacity \in Nat /\ Capacity >= 1
    /\ MaxOps \in Nat /\ 0 \in Frame
    /\ \A f \in Frame : f \in Nat
    /\ \A f \in 0..N : f \in Frame
BY ReplayAssumption DEF Frame

\* The replay's first inputs, as a sequence.
LEMMA PrefixSeq ==
    ASSUME NEW k \in Nat
    PROVE  /\ Prefix(k) \in Seq(Input) /\ Len(Prefix(k)) = k
           /\ \A i \in 1..k : Prefix(k)[i] = "Recorded"
BY DEF Prefix, Input

LEMMA PrefixZero == Prefix(0) = <<>>
<1>1. Prefix(0) \in Seq(Input) /\ Len(Prefix(0)) = 0
  BY PrefixSeq
<1> QED BY <1>1, EmptySeq

LEMMA PrefixConcat ==
    ASSUME NEW k \in Nat, NEW m \in Nat
    PROVE  Prefix(k) \o Prefix(m) = Prefix(k + m)
<1> DEFINE s == Prefix(k) \o Prefix(m)
           t == Prefix(k + m)
<1>0. k + m \in Nat
  OBVIOUS
<1>1. /\ Prefix(k) \in Seq(Input) /\ Len(Prefix(k)) = k
      /\ Prefix(m) \in Seq(Input) /\ Len(Prefix(m)) = m
      /\ t \in Seq(Input) /\ Len(t) = k + m
  BY <1>0, PrefixSeq
<1>2. s \in Seq(Input) /\ Len(s) = k + m
  BY <1>1, ConcatProperties
<1>3. \A i \in 1..Len(s) : s[i] = t[i]
  <2> SUFFICES ASSUME NEW i \in 1..(k + m) PROVE s[i] = t[i]
    BY <1>2
  <2>1. t[i] = "Recorded"
    BY <1>0, PrefixSeq
  <2>2. s[i] = IF i <= k THEN Prefix(k)[i] ELSE Prefix(m)[i - k]
    <3> DEFINE p == Prefix(k)
               q == Prefix(m)
    <3>1. p \in Seq(Input) /\ q \in Seq(Input) /\ Len(p) = k /\ Len(q) = m
      BY <1>1
    <3> HIDE DEF p, q
    <3>2. (p \o q)[i] = IF i <= k THEN p[i] ELSE q[i - k]
      BY <3>1, ConcatProperties
    <3> QED BY <3>2 DEF p, q
  <2>3. CASE i <= k
    <3>1. i \in 1..k
      BY <2>3
    <3> QED BY <2>1, <2>2, <2>3, <3>1, PrefixSeq
  <2>4. CASE ~(i <= k)
    <3>1. i - k \in 1..m
      BY <2>4
    <3> QED BY <2>1, <2>2, <2>4, <3>1, PrefixSeq
  <2> QED BY <2>3, <2>4
<1> HIDE DEF s, t
<1>4. s = t
  BY <1>1, <1>2, <1>3, SeqEqual
<1> QED BY <1>4 DEF s, t

LEMMA PrefixAppend ==
    ASSUME NEW k \in Nat
    PROVE  Append(Prefix(k), "Recorded") = Prefix(k + 1)
<1>1. Prefix(k) \o Prefix(1) = Prefix(k + 1)
  BY PrefixConcat
<1>2. Prefix(1) = <<"Recorded">>
  BY DEF Prefix
<1>3. Prefix(k) \in Seq(Input)
  BY PrefixSeq
<1>4. "Recorded" \in Input
  BY DEF Input
<1>5. Append(Prefix(k), "Recorded") = Prefix(k) \o <<"Recorded">>
  BY <1>3, <1>4, AppendIsConcat
<1> QED BY <1>1, <1>2, <1>5

\* A snapshot stored: there is still one per frame, and each is the old one or
\* the one of this frame.
LEMMA StoreSnapshot ==
    ASSUME NEW s \in Seq(State), OneEach(s), NEW f \in Frame, NEW line \in Seq(Input)
    PROVE  LET t == storeSnapshot(s, f, line)
           IN  /\ t \in Seq(State) /\ OneEach(t)
               /\ \A i \in 1..Len(t) :
                     t[i] = [frame |-> f, line |-> line] \/ \E j \in 1..Len(s) : t[i] = s[j]
<1> DEFINE st == [frame |-> f, line |-> line]
           t == storeSnapshot(s, f, line)
<1>0. st \in State /\ Len(s) \in Nat /\ s \in [1..Len(s) -> State]
  <2>1. st \in State
    BY DEF State
  <2> QED BY <2>1, LenProperties
<1>1. CASE \E i \in 1..Len(s) : s[i].frame = f
  <2>1. t = [i \in 1..Len(s) |-> IF s[i].frame = f THEN [s[i] EXCEPT !.line = line] ELSE s[i]]
    BY <1>1 DEF storeSnapshot
  <2>2. \A i \in 1..Len(s) : s[i].frame = f => [s[i] EXCEPT !.line = line] = st
    BY <1>0 DEF State
  <2>3. \A i \in 1..Len(s) : t[i] = IF s[i].frame = f THEN st ELSE s[i]
    BY <2>1, <2>2
  <2>4. t = [i \in 1..Len(s) |-> IF s[i].frame = f THEN st ELSE s[i]]
    BY <2>1, <2>2
  <2>5. t \in Seq(State) /\ Len(t) = Len(s)
    BY <1>0, <2>4
  <2>6. \A i \in 1..Len(s) : t[i].frame = s[i].frame
    BY <2>3
  <2>7. OneEach(t)
    BY <2>5, <2>6 DEF OneEach
  <2> QED BY <2>3, <2>5, <2>7
<1>2. CASE ~ \E i \in 1..Len(s) : s[i].frame = f
  <2>1. t = Append(s, st)
    BY <1>2 DEF storeSnapshot
  <2>2. /\ t \in Seq(State) /\ Len(t) = Len(s) + 1
        /\ \A i \in 1..Len(s) : t[i] = s[i]
        /\ t[Len(s) + 1] = st
    BY <1>0, <2>1, AppendProperties
  <2>3. \A i \in 1..Len(t) : i \in 1..Len(s) \/ i = Len(s) + 1
    BY <1>0, <2>2
  <2>4. OneEach(t)
    BY <1>2, <2>2, <2>3 DEF OneEach
  <2> QED BY <2>2, <2>3, <2>4
<1> QED BY <1>1, <1>2


\* FrameReady moves the cursor of a loaded replay to the frame and may store
\* its snapshot; everything else stays.
LEMMA FrameReadyKeeps ==
    ASSUME NEW b, PbInv(b), NEW f \in Frame, NEW line \in Seq(Input), Len(line) = f
    PROVE  LET c == FrameReady(b, f, line)
           IN  /\ PbInv(c)
               /\ c.loaded = b.loaded /\ (b.loaded => c.cursor = f)
               /\ ~b.loaded => c = b
               /\ (OnReplay(b.snapshots) /\ line = Prefix(f)) => OnReplay(c.snapshots)
<1> DEFINE t == storeSnapshot(b.snapshots, f, line)
           c == FrameReady(b, f, line)
           st == [frame |-> f, line |-> line]
<1>0. b \in PbType /\ OneEach(b.snapshots) /\ Coherent(b.snapshots) /\ b.snapshots \in Seq(State)
  BY DEF PbInv, PbType
<1>1. /\ t \in Seq(State) /\ OneEach(t)
      /\ \A i \in 1..Len(t) : t[i] = st \/ \E j \in 1..Len(b.snapshots) : t[i] = b.snapshots[j]
  BY <1>0, StoreSnapshot
<1>2. Coherent(t)
  BY <1>0, <1>1 DEF Coherent
<1>3. (OnReplay(b.snapshots) /\ line = Prefix(f)) => OnReplay(t)
  BY <1>1 DEF OnReplay
<1> HIDE DEF t
<1>4. CASE ~b.loaded
  BY <1>4 DEF FrameReady
<1>5. CASE b.loaded
  <2>1. PICK u : /\ u \in {t, b.snapshots}
                 /\ c = [b EXCEPT !.cursor = f, !.snapshots = u]
    BY <1>5 DEF FrameReady, t
  <2>2. u \in Seq(State) /\ OneEach(u) /\ Coherent(u)
    BY <1>0, <1>1, <1>2, <2>1
  <2>3. c \in PbType /\ c.snapshots = u /\ c.cursor = f /\ c.loaded = b.loaded
    BY <1>0, <2>1, <2>2 DEF PbType
  <2> HIDE DEF c
  <2>4. PbInv(c)
    BY <2>2, <2>3 DEF PbInv
  <2>5. (OnReplay(b.snapshots) /\ line = Prefix(f)) => OnReplay(u)
    BY <1>3, <2>1
  <2> QED BY <1>5, <2>3, <2>4, <2>5 DEF c
<1> QED BY <1>4, <1>5

\* Rewind::newFrame's write keeps the buffer within its capacity.
LEMMA WriteKeeps ==
    ASSUME NEW q, Buffered(q), NEW st \in State, Len(st.line) = st.frame
    PROVE  Buffered(write(q, st)) /\ write(q, st) # <<>>
<1> DEFINE r == IF Len(q) = Capacity THEN Tail(q) ELSE q
<1>1. q \in Seq(State) /\ Len(q) \in Nat /\ Len(q) <= Capacity /\ Coherent(q)
  BY DEF Buffered
<1>2. /\ r \in Seq(State) /\ Len(r) \in Nat /\ Len(r) + 1 <= Capacity
      /\ \A i \in 1..Len(r) : \E j \in 1..Len(q) : r[i] = q[j]
  <2>1. CASE Len(q) = Capacity
    <3>1. q # <<>>
      BY <2>1, <1>1, Constants
    <3>2. r = Tail(q) /\ r \in Seq(State) /\ Len(r) = Len(q) - 1
          /\ \A i \in 1..Len(r) : r[i] = q[i + 1]
      BY <2>1, <1>1, <3>1, HeadTailProperties
    <3>3. \A i \in 1..Len(r) : i + 1 \in 1..Len(q)
      BY <1>1, <3>2
    <3> QED BY <1>1, <2>1, <3>2, <3>3, Constants
  <2>2. CASE Len(q) # Capacity
    <3>1. r = q
      BY <2>2
    <3> HIDE DEF r
    <3> QED BY <1>1, <2>2, <3>1, Constants
  <2> QED BY <2>1, <2>2
<1>3. write(q, st) = Append(r, st)
  BY DEF write
<1> HIDE DEF r
<1>4. /\ Append(r, st) \in Seq(State) /\ Len(Append(r, st)) = Len(r) + 1
      /\ \A i \in 1..Len(r) : Append(r, st)[i] = r[i]
      /\ Append(r, st)[Len(r) + 1] = st
  BY <1>2, AppendProperties
<1>5. \A i \in 1..(Len(r) + 1) : i \in 1..Len(r) \/ i = Len(r) + 1
  BY <1>2
<1>6. Coherent(Append(r, st))
  BY <1>1, <1>2, <1>4, <1>5 DEF Coherent
<1>7. Append(r, st) # <<>>
  BY <1>2, <1>4
<1> QED BY <1>2, <1>3, <1>4, <1>6, <1>7 DEF Buffered


\* The snapshot a seek starts from is one of those stored, at or before the
\* frame.
LEMMA BestSnapshot ==
    ASSUME NEW s \in Seq(State), NEW f \in 0..N, Usable(s, f) # {}
    PROVE  \E i \in 1..Len(s) : bestSnapshotAtOrBefore(s, f) = s[i] /\ s[i].frame <= f
<1> DEFINE U == Usable(s, f)
<1>1. U \in SUBSET (0..Len(s)) /\ Len(s) \in Nat
  BY DEF Usable
<1>2. Max(U) \in U /\ \A y \in U : y <= Max(U)
  BY <1>1, MaxNat
<1>3. \E i \in U : \A j \in U : j <= i
  <2> HIDE DEF U
  <2> QED BY <1>2
<1>4. PICK i \in U : i = CHOOSE x \in U : \A j \in U : j <= x
  <2> HIDE DEF U
  <2> QED BY <1>3
<1>5. bestSnapshotAtOrBefore(s, f) = s[i]
  BY <1>4 DEF bestSnapshotAtOrBefore
<1> QED BY <1>5 DEF Usable

\* The state a seek has come to when it is at frame s.frame + k.
SeekState(s, k) == [frame |-> s.frame + k, line |-> LineAt(s, s.frame + k)]
SeekStep(r, s, k) ==
    [pb |-> FrameReady(r.pb, SeekState(s, k).frame, SeekState(s, k).line),
     buffer |-> write(r.buffer, SeekState(s, k))]
SeekBegins == [pb |-> pb, buffer |-> emu.buffer]
IsSeekRun(run, s, n) ==
    run = [k \in 0..n |-> IF k = 0 THEN SeekBegins ELSE SeekStep(run[k - 1], s, k)]

\* The recursive function of SeekFrames exists: it is built frame by frame.
LEMMA SeekRunExists ==
    ASSUME NEW s, NEW n \in Nat
    PROVE  \E run : IsSeekRun(run, s, n)
<1> DEFINE Bad == {m \in Nat : ~ \E run : IsSeekRun(run, s, m)}
<1> SUFFICES ASSUME Bad # {} PROVE FALSE
  OBVIOUS
<1>1. Min(Bad) \in Bad /\ \A y \in Bad : Min(Bad) <= y
  BY MinNat
<1>2. PICK m \in Bad : \A y \in Bad : m <= y
  BY <1>1
<1>3. CASE m = 0
  <2> DEFINE run == [k \in 0..0 |-> SeekBegins]
  <2>1. run = [k \in 0..0 |-> IF k = 0 THEN SeekBegins ELSE SeekStep(run[k - 1], s, k)]
    OBVIOUS
  <2>2. IsSeekRun(run, s, 0)
    BY <2>1 DEF IsSeekRun
  <2> QED BY <1>3, <2>2
<1>4. CASE m # 0
  <2>1. m - 1 \in Nat /\ m - 1 \notin Bad
    BY <1>2, <1>4
  <2>2. PICK g : IsSeekRun(g, s, m - 1)
    BY <2>1
  <2> DEFINE run == [k \in 0..m |-> IF k = m THEN SeekStep(g[m - 1], s, m) ELSE g[k]]
             tail(k) == IF k = 0 THEN SeekBegins ELSE SeekStep(run[k - 1], s, k)
  <2>3. \A k \in 0..(m - 1) :
            g[k] = IF k = 0 THEN SeekBegins ELSE SeekStep(g[k - 1], s, k)
    <3> SUFFICES ASSUME NEW k \in 0..(m - 1)
                 PROVE  g[k] = IF k = 0 THEN SeekBegins ELSE SeekStep(g[k - 1], s, k)
      OBVIOUS
    <3>1. g = [j \in 0..(m - 1) |-> IF j = 0 THEN SeekBegins ELSE SeekStep(g[j - 1], s, j)]
      BY <2>2 DEF IsSeekRun
    <3> QED BY <3>1, Zenon
  <2>4. ASSUME NEW k \in 0..m PROVE run[k] = tail(k)
    <3>1. CASE k = m
      <4>1. run[m - 1] = g[m - 1]
        BY <1>4
      <4>2. run[k] = SeekStep(g[m - 1], s, m)
        BY <3>1
      <4> HIDE DEF run
      <4> QED BY <1>4, <3>1, <4>1, <4>2
    <3>2. CASE k = 0
      BY <1>4, <2>3, <3>2
    <3>3. CASE k # m /\ k # 0
      <4>1. k \in 0..(m - 1) /\ k - 1 \in 0..m /\ k - 1 # m
        BY <3>3
      <4>2. run[k] = g[k] /\ run[k - 1] = g[k - 1]
        BY <3>3, <4>1
      <4>3. g[k] = SeekStep(g[k - 1], s, k)
        BY <2>3, <3>3, <4>1
      <4> HIDE DEF run
      <4> QED BY <3>3, <4>2, <4>3
    <3> QED BY <3>1, <3>2, <3>3
  <2>5. run = [k \in 0..m |-> tail(k)]
    <3>1. run = [k \in 0..m |-> run[k]]
      OBVIOUS
    <3> HIDE DEF run, tail
    <3> QED BY <2>4, <3>1
  <2>6. IsSeekRun(run, s, m)
    BY <2>5 DEF IsSeekRun
  <2> QED BY <2>6
<1> QED BY <1>3, <1>4

\* So SeekFrames is the last value of such a run.
LEMMA SeekFramesRun ==
    ASSUME NEW s, NEW n \in Nat
    PROVE  \E run : /\ SeekFrames(s, n) = run[n]
                    /\ run[0] = SeekBegins
                    /\ \A k \in 1..n : run[k] = SeekStep(run[k - 1], s, k)
<1> DEFINE run == CHOOSE r : IsSeekRun(r, s, n)
<1>1. IsSeekRun(run, s, n)
  BY SeekRunExists
<1>2. SeekFrames(s, n) = run[n]
  BY DEF SeekFrames, IsSeekRun, SeekStep, SeekState, SeekBegins
<1> HIDE DEF run
<1>3. run = [k \in 0..n |-> IF k = 0 THEN SeekBegins ELSE SeekStep(run[k - 1], s, k)]
  BY <1>1 DEF IsSeekRun
<1>4. \A k \in 0..n : run[k] = IF k = 0 THEN SeekBegins ELSE SeekStep(run[k - 1], s, k)
  BY <1>3, Zenon
<1>5. run[0] = SeekBegins /\ \A k \in 1..n : run[k] = SeekStep(run[k - 1], s, k)
  <2>1. 0 \in 0..n /\ \A k \in 1..n : k \in 0..n /\ k # 0
    OBVIOUS
  <2> QED BY <1>4, <2>1
<1> QED BY <1>2, <1>5


\* The state a seek comes to is a state of the console, on the replay's line
\* when it started there.
LEMMA SeekStateKeeps ==
    ASSUME NEW s \in State, Len(s.line) = s.frame, NEW k \in Nat, s.frame + k \in Frame
    PROVE  /\ SeekState(s, k) \in State
           /\ LineAt(s, s.frame + k) \in Seq(Input) /\ Len(LineAt(s, s.frame + k)) = s.frame + k
           /\ s.line = Prefix(s.frame) => LineAt(s, s.frame + k) = Prefix(s.frame + k)
<1>1. s.line \in Seq(Input) /\ s.frame \in Nat
  BY Constants DEF State
<1>2. (s.frame + k) - s.frame = k
  BY <1>1
<1>3. LineAt(s, s.frame + k) = s.line \o Prefix(k)
  BY <1>2 DEF LineAt
<1>4. Prefix(k) \in Seq(Input) /\ Len(Prefix(k)) = k
  BY PrefixSeq
<1>5. LineAt(s, s.frame + k) \in Seq(Input) /\ Len(LineAt(s, s.frame + k)) = s.frame + k
  <2> DEFINE p == s.line
             q == Prefix(k)
  <2>1. p \in Seq(Input) /\ q \in Seq(Input) /\ Len(p) = s.frame /\ Len(q) = k
    BY <1>1, <1>4
  <2> HIDE DEF p, q
  <2>2. p \o q \in Seq(Input) /\ Len(p \o q) = Len(p) + Len(q)
    <3> \A a, b \in Seq(Input) : a \o b \in Seq(Input) /\ Len(a \o b) = Len(a) + Len(b)
      BY ConcatProperties
    <3> QED BY <2>1
  <2> QED BY <1>3, <2>1, <2>2 DEF p, q
<1>6. s.line = Prefix(s.frame) => LineAt(s, s.frame + k) = Prefix(s.frame + k)
  BY <1>1, <1>3, PrefixConcat
<1>7. SeekState(s, k) \in State
  BY <1>5 DEF SeekState, State
<1> QED BY <1>5, <1>6, <1>7

\* The frames a seek emulates leave the controller and the rewind buffer well
\* formed, and the snapshots on the replay's line.
LEMMA SeekFramesKeep ==
    ASSUME PbInv(pb), Buffered(emu.buffer),
           NEW s \in State, Len(s.line) = s.frame, NEW n \in Nat, s.frame + n \in 0..N
    PROVE  LET a == SeekFrames(s, n)
           IN  /\ PbInv(a.pb) /\ a.pb.loaded = pb.loaded /\ Buffered(a.buffer)
               /\ (OnReplay(pb.snapshots) /\ s.line = Prefix(s.frame)) => OnReplay(a.pb.snapshots)
<1> DEFINE Good(r) ==
             /\ PbInv(r.pb) /\ r.pb.loaded = pb.loaded /\ Buffered(r.buffer)
             /\ (OnReplay(pb.snapshots) /\ s.line = Prefix(s.frame)) => OnReplay(r.pb.snapshots)
<1>1. PICK run : /\ SeekFrames(s, n) = run[n]
                 /\ run[0] = SeekBegins
                 /\ \A k \in 1..n : run[k] = SeekStep(run[k - 1], s, k)
  BY SeekFramesRun
<1>2. Good(run[0])
  BY <1>1 DEF SeekBegins
<1>3. ASSUME NEW k \in 1..n, NEW r, Good(r) PROVE Good(SeekStep(r, s, k))
  <2> DEFINE g == s.frame + k
             l == LineAt(s, s.frame + k)
             x == SeekStep(r, s, k)
  <2>1. s.frame \in Nat /\ g \in 0..N
    BY Constants DEF State
  <2>2. g \in Frame /\ k \in Nat
    BY <2>1, Constants
  <2>3. /\ SeekState(s, k) \in State /\ l \in Seq(Input) /\ Len(l) = g
        /\ s.line = Prefix(s.frame) => l = Prefix(g)
    BY <2>2, SeekStateKeeps
  <2>4. SeekState(s, k).frame = g /\ SeekState(s, k).line = l
    BY DEF SeekState
  <2>5. x.pb = FrameReady(r.pb, g, l) /\ x.buffer = write(r.buffer, SeekState(s, k))
    BY <2>4 DEF SeekStep
  <2> HIDE DEF g, l, x
  <2>6. Buffered(x.buffer)
    BY <1>3, <2>3, <2>4, <2>5, WriteKeeps
  <2>7. /\ PbInv(x.pb) /\ x.pb.loaded = r.pb.loaded
        /\ (OnReplay(r.pb.snapshots) /\ l = Prefix(g)) => OnReplay(x.pb.snapshots)
    BY <1>3, <2>2, <2>3, <2>5, FrameReadyKeeps
  <2>8. (OnReplay(pb.snapshots) /\ s.line = Prefix(s.frame)) => OnReplay(x.pb.snapshots)
    BY <1>3, <2>3, <2>7
  <2> QED BY <1>3, <2>6, <2>7, <2>8 DEF x
<1> HIDE DEF Good
<1>4. Good(run[n])
  <2> DEFINE Bad == {k \in Nat : k <= n /\ ~Good(run[k])}
  <2> SUFFICES ASSUME Bad # {} PROVE FALSE
    OBVIOUS
  <2>1. Min(Bad) \in Bad /\ \A y \in Bad : Min(Bad) <= y
    BY MinNat
  <2>2. PICK m \in Bad : \A y \in Bad : m <= y
    BY <2>1
  <2>3. m # 0
    BY <1>2
  <2>4. m \in 1..n /\ m - 1 \in Nat /\ m - 1 <= n
    BY <2>3
  <2>5. Good(run[m - 1])
    BY <2>2, <2>4
  <2>6. run[m] = SeekStep(run[m - 1], s, m)
    BY <1>1, <2>4
  <2> QED BY <1>3, <2>4, <2>5, <2>6
<1> QED BY <1>1, <1>4 DEF Good

\* Rewind::newFrame: the console stays where it is, or goes to a stored state.
LEMMA NewFrameKeeps ==
    ASSUME NEW e, EmuInv(e)
    PROVE  LET d == newFrame(e)
           IN  /\ EmuInv(d) /\ d.next = e.next /\ d.paused = e.paused
               /\ d.rewinding = e.rewinding
               /\ ~e.rewinding => d.frame = e.frame /\ d.line = e.line
<1> DEFINE st == [frame |-> e.frame, line |-> e.line]
           stored == IF e.rewinding /\ e.buffer # <<>> THEN e.buffer ELSE write(e.buffer, st)
           d == newFrame(e)
<1>1. e \in EmuType /\ Len(e.line) = e.frame /\ Buffered(e.buffer) /\ \A x, y \in e.next : x = y
  BY DEF EmuInv
<1>2. st \in State /\ Len(st.line) = st.frame
  BY <1>1 DEF State, EmuType
<1>3. Buffered(write(e.buffer, st)) /\ write(e.buffer, st) # <<>>
  BY <1>1, <1>2, WriteKeeps
<1>4. Buffered(stored) /\ stored # <<>>
  BY <1>1, <1>3
<1>5. CASE ~e.rewinding
  <2>1. d = [e EXCEPT !.buffer = stored]
    BY <1>5 DEF newFrame
  <2> HIDE DEF stored
  <2>2. stored \in Seq(State)
    BY <1>4 DEF Buffered
  <2>3. d \in EmuType /\ d.buffer = stored /\ d.frame = e.frame /\ d.line = e.line
        /\ d.next = e.next /\ d.paused = e.paused /\ d.rewinding = e.rewinding
    BY <1>1, <2>1, <2>2 DEF EmuType
  <2> HIDE DEF d
  <2>4. EmuInv(d)
    BY <1>1, <1>4, <2>3 DEF EmuInv
  <2> QED BY <2>3, <2>4 DEF d
<1>6. CASE e.rewinding
  <2> DEFINE rest == IF Len(stored) > 1 THEN Front(stored) ELSE stored
             to == Last(stored)
  <2>1. d = [e EXCEPT !.frame = to.frame, !.line = to.line, !.buffer = rest]
    BY <1>6 DEF newFrame
  <2> HIDE DEF stored
  <2>2. stored \in Seq(State) /\ Len(stored) \in Nat /\ Len(stored) >= 1
        /\ Len(stored) <= Capacity /\ Coherent(stored)
    BY <1>4, EmptySeq DEF Buffered
  <2>3. to = stored[Len(stored)] /\ Len(stored) \in 1..Len(stored)
    BY <2>2 DEF Last
  <2>4. to \in State /\ Len(to.line) = to.frame
    BY <2>2, <2>3 DEF Coherent
  <2>5. Buffered(rest)
    <3>1. CASE Len(stored) > 1
      <4>1. Len(stored) - 1 \in Nat /\ 1..(Len(stored) - 1) \subseteq 1..Len(stored)
        BY <2>2
      <4>2. /\ Front(stored) \in Seq(State) /\ Len(Front(stored)) = Len(stored) - 1
            /\ \A i \in 1..(Len(stored) - 1) : Front(stored)[i] = stored[i]
        BY <2>2, <3>1 DEF Front
      <4>3. Coherent(Front(stored))
        BY <2>2, <4>1, <4>2 DEF Coherent
      <4>4. rest = Front(stored)
        BY <3>1
      <4> HIDE DEF rest
      <4> QED BY <2>2, <4>2, <4>3, <4>4, Constants DEF Buffered
    <3>2. CASE ~(Len(stored) > 1)
      BY <1>4, <3>2
    <3> QED BY <3>1, <3>2
  <2> HIDE DEF rest, to
  <2>6. rest \in Seq(State) /\ to.frame \in Frame /\ to.line \in Seq(Input)
    BY <2>4, <2>5 DEF Buffered, State
  <2>7. d \in EmuType /\ d.buffer = rest /\ d.frame = to.frame /\ d.line = to.line
        /\ d.next = e.next /\ d.paused = e.paused /\ d.rewinding = e.rewinding
    BY <1>1, <2>1, <2>6 DEF EmuType
  <2> HIDE DEF d
  <2>8. EmuInv(d)
    BY <1>1, <2>4, <2>5, <2>7 DEF EmuInv
  <2> QED BY <1>6, <2>7, <2>8 DEF d
<1> QED BY <1>5, <1>6


\* updateUntilFrame: nothing happens to a paused console or one without an
\* input; otherwise the input is used up.
LEMMA EmulatedKeeps ==
    ASSUME NEW e, EmuInv(e), e.frame < MaxFrame
    PROVE  LET d == Emulated(e)
               i == CHOOSE x \in e.next : TRUE
           IN  /\ EmuInv(d)
               /\ (e.paused \/ e.next = {}) => d = e
               /\ ~(e.paused \/ e.next = {}) =>
                     /\ d.next = {}
                     /\ ~e.rewinding => d.frame = e.frame + 1 /\ d.line = Append(e.line, i)
<1> DEFINE i == CHOOSE x \in e.next : TRUE
           r == [e EXCEPT !.frame = e.frame + 1, !.next = {}, !.line = Append(e.line, i)]
           d == Emulated(e)
<1>1. e \in EmuType /\ Len(e.line) = e.frame /\ Buffered(e.buffer)
  BY DEF EmuInv
<1>2. CASE e.paused \/ e.next = {}
  BY <1>2 DEF Emulated
<1>3. CASE ~(e.paused \/ e.next = {})
  <2>1. d = newFrame(r)
    BY <1>3 DEF Emulated
  <2>2. i \in Input
    BY <1>1, <1>3 DEF EmuType
  <2>3. e.frame + 1 \in Frame /\ e.frame \in Nat
    BY <1>1, Constants DEF EmuType, Frame
  <2>4. e.line \in Seq(Input)
    BY <1>1 DEF EmuType
  <2> HIDE DEF i
  <2>5. Append(e.line, i) \in Seq(Input) /\ Len(Append(e.line, i)) = e.frame + 1
    BY <1>1, <2>2, <2>4, AppendProperties
  <2>6. r \in EmuType /\ r.frame = e.frame + 1 /\ r.next = {} /\ r.line = Append(e.line, i)
        /\ r.buffer = e.buffer /\ r.rewinding = e.rewinding
    BY <1>1, <2>3, <2>5 DEF EmuType
  <2> HIDE DEF r
  <2>7. EmuInv(r)
    BY <1>1, <2>5, <2>6 DEF EmuInv
  <2>8. /\ EmuInv(newFrame(r)) /\ newFrame(r).next = {}
        /\ ~e.rewinding => newFrame(r).frame = e.frame + 1 /\ newFrame(r).line = Append(e.line, i)
    BY <2>6, <2>7, NewFrameKeeps
  <2> HIDE DEF d
  <2> QED BY <1>3, <2>1, <2>8 DEF d, i
<1> QED BY <1>2, <1>3

\* A frame recorded where the recording reaches to is there, the others are
\* what they were.
LEMMA AppendRecorded ==
    ASSUME NEW frames \in Seq(RecordedFrame), NEW f \in Frame, NEW in \in Input
    PROVE  LET t == appendRecordedFrame(frames, f, in)
           IN  /\ t \in Seq(RecordedFrame)
               /\ f <= Len(frames) => Recorded(t, f, in)
               /\ \A g \in Nat : \A x : (g # f /\ Recorded(frames, g, x)) => Recorded(t, g, x)
<1> DEFINE st == [frame |-> f, input |-> in]
           t == appendRecordedFrame(frames, f, in)
<1>1. st \in RecordedFrame /\ f \in Nat /\ Len(frames) \in Nat
  BY Constants DEF RecordedFrame
<1>2. CASE f < Len(frames)
  <2>1. t = [frames EXCEPT ![f + 1] = st]
    BY <1>2 DEF appendRecordedFrame
  <2>2. f + 1 \in 1..Len(frames)
    BY <1>1, <1>2
  <2> HIDE DEF st, t
  <2>3. /\ t \in Seq(RecordedFrame) /\ Len(t) = Len(frames)
        /\ \A j \in 1..Len(frames) : t[j] = IF j = f + 1 THEN st ELSE frames[j]
    BY <1>1, <2>1, <2>2, ExceptSeq
  <2>4. Recorded(t, f, in)
    BY <1>2, <2>2, <2>3 DEF Recorded, st
  <2>5. ASSUME NEW g \in Nat, NEW x, g # f, Recorded(frames, g, x) PROVE Recorded(t, g, x)
    <3>1. g + 1 \in 1..Len(frames) /\ g + 1 # f + 1
      BY <1>1, <2>5 DEF Recorded
    <3> QED BY <2>3, <2>5, <3>1 DEF Recorded
  <2> QED BY <2>3, <2>4, <2>5 DEF t
<1>3. CASE ~(f < Len(frames))
  <2>1. t = Append(frames, st)
    BY <1>3 DEF appendRecordedFrame
  <2> HIDE DEF st, t
  <2>2. /\ t \in Seq(RecordedFrame) /\ Len(t) = Len(frames) + 1
        /\ \A j \in 1..Len(frames) : t[j] = frames[j]
        /\ t[Len(frames) + 1] = st
    BY <1>1, <2>1, AppendProperties
  <2>3. f <= Len(frames) => Recorded(t, f, in)
    <3> SUFFICES ASSUME f <= Len(frames) PROVE Recorded(t, f, in)
      OBVIOUS
    <3>1. f = Len(frames)
      BY <1>1, <1>3
    <3> QED BY <1>1, <2>2, <3>1 DEF Recorded, st
  <2>4. ASSUME NEW g \in Nat, NEW x, g # f, Recorded(frames, g, x) PROVE Recorded(t, g, x)
    <3>1. g + 1 \in 1..Len(frames) /\ g < Len(t)
      BY <1>1, <2>2, <2>4 DEF Recorded
    <3> QED BY <2>2, <2>4, <3>1 DEF Recorded
  <2> QED BY <2>2, <2>3, <2>4 DEF t
<1> QED BY <1>2, <1>3


LEMMA OneInput ==
    ASSUME NEW i
    PROVE  SetToSeq({i}) = <<i>>
<1>1. Cardinality({i}) = 1
  BY FS_Singleton
<1> DEFINE g == [k \in 1..1 |-> i]
<1>2. g \in [1..1 -> {i}] /\ IsInjective(g)
  BY DEF IsInjective
<1>3. \A h \in [1..1 -> {i}] : h = g
  OBVIOUS
<1>4. SetToSeq({i}) = CHOOSE h \in [1..1 -> {i}] : IsInjective(h)
  BY <1>1 DEF SetToSeq
<1>5. SetToSeq({i}) = g
  <2> HIDE DEF g
  <2> QED BY <1>2, <1>3, <1>4
<1>6. g = <<i>>
  OBVIOUS
<1> QED BY <1>5, <1>6

\* A prefix has the same inputs.
LEMMA PrefixInputs ==
    ASSUME NEW s \in Seq(Input), NEW t \in Seq(Input), IsPrefix(s, t)
    PROVE  Len(s) <= Len(t) /\ \A k \in 1..Len(s) : s[k] = t[k]
<1>1. Len(s) \in Nat /\ Len(t) \in Nat /\ Len(s) <= Len(t)
      /\ SubSeq(s, 1, Len(s)) = SubSeq(t, 1, Len(s))
  BY DEF IsPrefix
<1>2. ASSUME NEW k \in 1..Len(s) PROVE s[k] = t[k]
  <2>1. SubSeq(s, 1, Len(s))[k] = s[k]
    BY <1>1
  <2>2. SubSeq(t, 1, Len(s))[k] = t[k]
    BY <1>1
  <2> QED BY <1>1, <2>1, <2>2
<1> QED BY <1>1, <1>2

-----------------------------------------------------------------------------
(* The worker. *)

\* What prepareCurrentFrameInputLocked can come to.
LEMMA PreparedCases ==
    ASSUME EmuInv(emu), pb \in PbType, NEW e \in Prepared
    PROVE  /\ EmuInv(e)
           /\ e.frame = emu.frame /\ e.line = emu.line /\ e.buffer = emu.buffer
           /\ \/ emu.next # {} /\ e = emu
              \/ emu.next = {} /\ Blocked /\ pb.loaded /\ e.next = {}
              \/ /\ emu.next = {} /\ pb.loaded /\ ~Blocked /\ emu.frame < N
                 /\ e.next = {"Recorded"} /\ ~e.rewinding
              \/ emu.next = {} /\ ~pb.loaded /\ ~Blocked /\ \E i \in Live : e.next = {i}
<1>1. emu \in EmuType /\ Len(emu.line) = emu.frame /\ Buffered(emu.buffer)
  BY DEF EmuInv
<1>2. CASE emu.next # {}
  <2>1. e = emu
    BY <1>2 DEF Prepared
  <2> QED BY <1>2, <2>1
<1>3. CASE emu.next = {} /\ Blocked
  <2>1. e = [emu EXCEPT !.paused = TRUE]
    BY <1>3 DEF Prepared
  <2>2. e \in EmuType /\ e.frame = emu.frame /\ e.line = emu.line /\ e.next = {}
        /\ e.buffer = emu.buffer
    BY <1>1, <1>3, <2>1 DEF EmuType
  <2>3. EmuInv(e)
    BY <1>1, <2>2 DEF EmuInv
  <2>4. pb.loaded
    BY <1>3 DEF Blocked
  <2> QED BY <1>3, <2>2, <2>3, <2>4
<1>4. CASE emu.next = {} /\ ~Blocked /\ pb.loaded
  <2>1. e = [emu EXCEPT !.next = {"Recorded"}, !.rewinding = FALSE]
    BY <1>4 DEF Prepared, FromReplay
  <2>2. {"Recorded"} \in SUBSET Input
    BY DEF Input
  <2>3. e \in EmuType /\ e.frame = emu.frame /\ e.line = emu.line /\ e.next = {"Recorded"}
        /\ e.buffer = emu.buffer /\ ~e.rewinding
    BY <1>1, <2>1, <2>2 DEF EmuType
  <2>4. EmuInv(e)
    BY <1>1, <2>3 DEF EmuInv
  <2>5. emu.frame < N
    BY <1>1, <1>4, Constants DEF Blocked, AtEnd, EmuType
  <2> QED BY <1>4, <2>3, <2>4, <2>5
<1>5. CASE emu.next = {} /\ ~Blocked /\ ~pb.loaded
  <2>0. e \in PlayerInputs
    BY <1>5 DEF Prepared
  <2>1. PICK i \in Live, r \in BOOLEAN : e = FromPlayer(i, r)
    BY <2>0, SMT DEF PlayerInputs
  <2>2. {i} \in SUBSET Input
    BY DEF Input
  <2>3. e \in EmuType /\ e.frame = emu.frame /\ e.line = emu.line /\ e.next = {i}
        /\ e.buffer = emu.buffer
    BY <1>1, <2>1, <2>2 DEF EmuType, FromPlayer
  <2>4. EmuInv(e)
    BY <1>1, <2>3 DEF EmuInv
  <2> QED BY <1>5, <2>3, <2>4
<1> QED BY <1>2, <1>3, <1>4, <1>5


LEMMA WorkerAdvancesKeeps ==
    ASSUME IInv, WorkerAdvances
    PROVE  IInv'
<1>0. /\ EmuInv(emu) /\ PbInv(pb) /\ app \in AppType /\ past \subseteq Incident
      /\ queue \in Seq(Command) /\ pace \in [running : BOOLEAN, late : BOOLEAN] /\ ops \in 0..MaxOps
      /\ SessionInv /\ ReopenedInv /\ FollowInv /\ RecordInv
  BY DEF IInv
<1>1. emu \in EmuType /\ pb \in PbType /\ pb.snapshots \in Seq(State)
  BY <1>0 DEF EmuInv, PbInv, PbType
<1>2. emu.frame < MaxFrame /\ queue' = queue /\ ops' = ops
      /\ \E more \in BOOLEAN : pace' = [pace EXCEPT !.late = pace.late /\ more]
  BY DEF WorkerAdvances
<1>3. pace' \in [running : BOOLEAN, late : BOOLEAN]
  BY <1>0, <1>2
<1> DEFINE livesOf(e) == (e.next \ emu.next) \cap Live
<1>4. PICK e \in Prepared :
        /\ emu' = Emulated(e)
        /\ pb' = IF emu.next = {} /\ Blocked THEN [pb EXCEPT !.playing = FALSE, !.seeking = FALSE]
                 ELSE IF emu'.frame # emu.frame THEN FrameReady(pb, emu'.frame, emu'.line)
                 ELSE pb
        /\ app' = IF app.observing = "Recording" /\ livesOf(e) # {}
                  THEN [app EXCEPT !.frames =
                          appendRecordedFrame(app.frames, emu.frame, CHOOSE i \in livesOf(e) : TRUE)]
                  ELSE app
        /\ past' = past
             \cup (IF livesOf(e) # {} /\ ~pb.loaded /\ app.mode # "None" /\ app.observing # "Recording"
                   THEN {"unseen"} ELSE {})
             \cup (IF IsPrefix(emu'.line, emu.line \o SetToSeq(e.next))
                   THEN {} ELSE {"strayed"})
  BY Zenon DEF WorkerAdvances
<1> DEFINE live == livesOf(e)
<1>5. /\ EmuInv(e) /\ e.frame = emu.frame /\ e.line = emu.line
      /\ \/ emu.next # {} /\ e = emu
         \/ emu.next = {} /\ Blocked /\ pb.loaded /\ e.next = {}
         \/ /\ emu.next = {} /\ pb.loaded /\ ~Blocked /\ emu.frame < N
            /\ e.next = {"Recorded"} /\ ~e.rewinding
         \/ emu.next = {} /\ ~pb.loaded /\ ~Blocked /\ \E i \in Live : e.next = {i}
  BY <1>0, <1>1, PreparedCases
<1>6. /\ EmuInv(emu')
      /\ (e.paused \/ e.next = {}) => emu' = e
      /\ ~(e.paused \/ e.next = {}) =>
            /\ emu'.next = {}
            /\ ~e.rewinding => emu'.frame = emu.frame + 1
                               /\ emu'.line = Append(emu.line, CHOOSE x \in e.next : TRUE)
  BY <1>2, <1>4, <1>5, EmulatedKeeps
<1>7. emu' \in EmuType /\ Len(emu'.line) = emu'.frame /\ emu'.frame \in Frame
      /\ emu'.line \in Seq(Input)
  BY <1>6 DEF EmuInv, EmuType
<1>8. /\ PbInv(pb') /\ pb'.loaded = pb.loaded
      /\ pb.loaded => pb'.cursor = emu'.frame
      /\ ~pb.loaded => pb'.snapshots = pb.snapshots
      /\ (OnReplay(pb.snapshots) /\ emu'.line = Prefix(emu'.frame)) => OnReplay(pb'.snapshots)
  <2>1. CASE emu.next = {} /\ Blocked
    <3>1. pb' = [pb EXCEPT !.playing = FALSE, !.seeking = FALSE]
      BY <1>4, <2>1
    <3>2. pb' \in PbType /\ pb'.snapshots = pb.snapshots /\ pb'.loaded = pb.loaded
          /\ pb'.cursor = pb.cursor
      BY <1>1, <3>1 DEF PbType
    <3>3. emu'.frame = emu.frame
      BY <1>5, <1>6, <2>1
    <3> QED BY <1>0, <3>2, <3>3 DEF PbInv, SessionInv
  <2>2. CASE ~(emu.next = {} /\ Blocked) /\ emu'.frame # emu.frame
    <3>1. pb' = FrameReady(pb, emu'.frame, emu'.line)
      BY <1>4, <2>2
    <3> DEFINE g == emu'.frame
               l == emu'.line
    <3>2. g \in Frame /\ l \in Seq(Input) /\ Len(l) = g
      BY <1>7
    <3> HIDE DEF g, l
    <3>3. /\ PbInv(FrameReady(pb, g, l))
          /\ FrameReady(pb, g, l).loaded = pb.loaded /\ (pb.loaded => FrameReady(pb, g, l).cursor = g)
          /\ ~pb.loaded => FrameReady(pb, g, l) = pb
          /\ (OnReplay(pb.snapshots) /\ l = Prefix(g)) => OnReplay(FrameReady(pb, g, l).snapshots)
      BY <1>0, <3>2, FrameReadyKeeps
    <3> QED BY <3>1, <3>3 DEF g, l
  <2>3. CASE ~(emu.next = {} /\ Blocked) /\ emu'.frame = emu.frame
    <3>1. pb' = pb
      BY <1>4, <2>3
    <3> QED BY <1>0, <2>3, <3>1 DEF SessionInv
  <2> QED BY <2>1, <2>2, <2>3
<1>9. /\ app' \in AppType /\ app'.mode = app.mode /\ app'.at = app.at
      /\ app'.observing = app.observing
      /\ app.observing # "Recording" => app' = app
  <2>1. CASE app.observing = "Recording" /\ live # {}
    <3> DEFINE i == CHOOSE x \in live : TRUE
               t == appendRecordedFrame(app.frames, emu.frame, i)
    <3>1. i \in Input /\ emu.frame \in Frame /\ app.frames \in Seq(RecordedFrame)
      BY <1>0, <1>1, <2>1 DEF Input, AppType, EmuType
    <3>2. app' = [app EXCEPT !.frames = t]
      BY <1>4, <2>1
    <3> HIDE DEF i
    <3>3. t \in Seq(RecordedFrame)
      BY <3>1, AppendRecorded
    <3> HIDE DEF t
    <3> QED BY <1>0, <2>1, <3>2, <3>3 DEF AppType
  <2>2. CASE ~(app.observing = "Recording" /\ live # {})
    <3>1. app' = app
      BY <1>4, <2>2
    <3> QED BY <1>0, <3>1
  <2> QED BY <2>1, <2>2
<1>10. past \subseteq past' /\ past' \subseteq Incident
  BY <1>0, <1>4 DEF Incident
<1>11. SessionInv'
  BY <1>0, <1>8, <1>9 DEF SessionInv
<1>12. ReopenedInv'
  <2> SUFFICES ASSUME app'.at = "reopened", "unseen" \notin past'
               PROVE  FALSE
    BY DEF ReopenedInv
  <2>1. app.at = "reopened" /\ "unseen" \notin past
    BY <1>9, <1>10
  <2>2. emu.next = {} /\ ~pb.loaded /\ app.mode = "Playback" /\ app.observing = "Playback"
    BY <1>0, <2>1 DEF ReopenedInv, SessionInv
  <2>3. PICK i \in Live : e.next = {i}
    BY <1>5, <2>2
  <2>4. live # {}
    BY <2>2, <2>3
  <2>5. "unseen" \in past'
    BY <1>4, <2>2, <2>4
  <2> QED BY <2>5
<1>13. FollowInv'
  <2> SUFFICES ASSUME pb.loaded, "unseen" \notin past
               PROVE  /\ emu'.line = Prefix(emu'.frame) /\ emu'.frame <= N
                      /\ emu'.next \subseteq {"Recorded"}
                      /\ emu'.next # {} => ~emu'.rewinding /\ emu'.frame < N
    <3>1. pb.loaded /\ "unseen" \notin past => OnReplay(pb.snapshots)
      BY <1>0 DEF FollowInv
    <3> QED BY <1>8, <1>10, <3>1 DEF FollowInv
  <2>1. /\ emu.line = Prefix(emu.frame) /\ emu.frame <= N
        /\ emu.next \subseteq {"Recorded"}
        /\ emu.next # {} => ~emu.rewinding /\ emu.frame < N
    BY <1>0 DEF FollowInv
  <2>2. /\ e.next \subseteq {"Recorded"}
        /\ e.next # {} => ~e.rewinding /\ emu.frame < N
    BY <1>5, <2>1
  <2>3. CASE e.paused \/ e.next = {}
    BY <1>5, <1>6, <2>1, <2>2, <2>3
  <2>4. CASE ~(e.paused \/ e.next = {})
    <3>1. (CHOOSE x \in e.next : TRUE) = "Recorded"
      <4>1. e.next = {"Recorded"}
        BY <2>2, <2>4
      <4> QED BY <4>1
    <3>2. emu'.frame = emu.frame + 1 /\ emu'.line = Append(emu.line, "Recorded") /\ emu'.next = {}
      BY <1>6, <2>2, <2>4, <3>1
    <3>3. emu.frame \in Nat
      BY <1>1, Constants DEF EmuType
    <3>4. emu'.line = Prefix(emu.frame + 1)
      BY <2>1, <3>2, <3>3, PrefixAppend
    <3> QED BY <2>2, <2>4, <3>2, <3>3, <3>4, Constants
  <2> QED BY <2>3, <2>4
<1>14. RecordInv'
  <2> SUFFICES ASSUME app'.mode = "Recording", past' \cap {"unseen", "strayed"} = {}
               PROVE  /\ \A f \in 0..(emu'.frame - 1) : Recorded(app'.frames, f, emu'.line[f + 1])
                      /\ \A i \in emu'.next : Recorded(app'.frames, emu'.frame, i)
    BY DEF RecordInv
  <2>1. app.mode = "Recording" /\ past \cap {"unseen", "strayed"} = {} /\ ~pb.loaded
    BY <1>0, <1>9, <1>10 DEF SessionInv
  <2>2. /\ \A f \in 0..(emu.frame - 1) : Recorded(app.frames, f, emu.line[f + 1])
        /\ \A i \in emu.next : Recorded(app.frames, emu.frame, i)
    BY <1>0, <2>1 DEF RecordInv
  <2>3. emu.frame \in Nat /\ emu.frame \in Frame /\ app.frames \in Seq(RecordedFrame)
        /\ Len(app.frames) \in Nat /\ emu.line \in Seq(Input) /\ Len(emu.line) = emu.frame
    BY <1>0, <1>1, Constants DEF EmuType, EmuInv, AppType
  <2>4. emu.frame <= Len(app.frames)
    <3>1. CASE emu.frame = 0
      BY <2>3, <3>1
    <3>2. CASE emu.frame # 0
      <4>1. emu.frame - 1 \in 0..(emu.frame - 1)
        BY <2>3, <3>2
      <4>2. emu.frame - 1 < Len(app.frames)
        BY <2>2, <4>1 DEF Recorded
      <4> QED BY <2>3, <4>2
    <3> QED BY <3>1, <3>2
  <2>5. \E i \in Input :
          /\ e.next = {i} /\ Recorded(app'.frames, emu.frame, i)
          /\ \A f \in 0..(emu.frame - 1) : Recorded(app'.frames, f, emu.line[f + 1])
    <3>1. CASE emu.next # {}
      <4>1. PICK i : i \in emu.next
        BY <3>1
      <4>2. e = emu /\ e.next = {i} /\ i \in Input
        BY <1>0, <1>1, <1>5, <3>1, <4>1 DEF EmuInv, EmuType
      <4>3. live = {}
        BY <4>2
      <4>4. app' = app
        BY <1>4, <4>3
      <4> QED BY <2>2, <3>1, <4>1, <4>2, <4>4
    <3>2. CASE emu.next = {}
      <4>1. PICK i \in Live : e.next = {i}
        BY <1>5, <2>1, <3>2
      <4>2. live = {i} /\ i \in Input
        BY <3>2, <4>1 DEF Input
      <4>3. app.observing = "Recording"
        <5> SUFFICES ASSUME app.observing # "Recording" PROVE "unseen" \in past'
          OBVIOUS
        <5> QED BY <1>4, <2>1, <4>2
      <4>4. (CHOOSE x \in live : TRUE) = i
        BY <4>2
      <4>5. app'.frames = appendRecordedFrame(app.frames, emu.frame, i)
        BY <1>0, <1>4, <4>2, <4>3, <4>4 DEF AppType
      <4>6. Recorded(app'.frames, emu.frame, i)
        BY <2>3, <2>4, <4>2, <4>5, AppendRecorded
      <4>7. ASSUME NEW f \in 0..(emu.frame - 1)
            PROVE  Recorded(app'.frames, f, emu.line[f + 1])
        <5>1. f \in Nat /\ f # emu.frame /\ Recorded(app.frames, f, emu.line[f + 1])
          BY <2>2, <2>3
        <5> QED BY <2>3, <4>2, <4>5, <5>1, AppendRecorded
      <4> QED BY <2>2, <4>1, <4>2, <4>3, <4>6, <4>7
    <3> QED BY <3>1, <3>2
  <2>6. PICK i \in Input :
          /\ e.next = {i} /\ Recorded(app'.frames, emu.frame, i)
          /\ \A f \in 0..(emu.frame - 1) : Recorded(app'.frames, f, emu.line[f + 1])
    BY <2>5
  <2>7. CASE e.paused
    BY <1>5, <1>6, <1>9, <2>6, <2>7
  <2>8. CASE ~e.paused
    <3>1. emu'.next = {}
      BY <1>6, <2>6, <2>8
    <3> DEFINE t == Append(emu.line, i)
    <3>2. t \in Seq(Input) /\ Len(t) = emu.frame + 1 /\ t[emu.frame + 1] = i
          /\ \A k \in 1..emu.frame : t[k] = emu.line[k]
      BY <2>3, AppendProperties
    <3>3. emu.line \o SetToSeq(e.next) = t
      <4>1. SetToSeq(e.next) = <<i>>
        BY <2>6, OneInput
      <4>2. Append(emu.line, i) = emu.line \o <<i>>
        BY <2>3, AppendIsConcat
      <4> QED BY <4>1, <4>2
    <3> HIDE DEF t
    <3>4. IsPrefix(emu'.line, t)
      <4> SUFFICES ASSUME ~IsPrefix(emu'.line, t) PROVE "strayed" \in past'
        OBVIOUS
      <4> QED BY <1>4, <3>3
    <3>5. emu'.frame <= emu.frame + 1 /\ \A k \in 1..emu'.frame : emu'.line[k] = t[k]
      BY <1>7, <3>2, <3>4, PrefixInputs
    <3>6. ASSUME NEW f \in 0..(emu'.frame - 1)
          PROVE  Recorded(app'.frames, f, emu'.line[f + 1])
      <4>0. emu'.frame \in Nat
        BY <1>7, Constants
      <4>1. f + 1 \in 1..emu'.frame /\ (f = emu.frame \/ f \in 0..(emu.frame - 1))
        BY <2>3, <3>5, <4>0
      <4>2. emu'.line[f + 1] = t[f + 1]
        BY <3>5, <4>1
      <4>3. CASE f = emu.frame
        BY <2>6, <3>2, <4>2, <4>3
      <4>4. CASE f \in 0..(emu.frame - 1)
        <5>1. f + 1 \in 1..emu.frame
          BY <2>3, <4>4
        <5> QED BY <2>6, <3>2, <4>2, <4>4, <5>1
      <4> QED BY <4>1, <4>3, <4>4
    <3> QED BY <3>1, <3>6
  <2> QED BY <2>7, <2>8
<1> QED BY <1>0, <1>2, <1>3, <1>6, <1>8, <1>9, <1>10, <1>11, <1>12, <1>13, <1>14 DEF IInv


\* The steps that only pause the console, move between the controller's flags or
\* go on in a function of the UI thread.
LEMMA QuietKeeps ==
    ASSUME IInv,
           EmuInv(emu'), emu'.frame = emu.frame, emu'.line = emu.line,
           emu'.next = emu.next, emu'.rewinding = emu.rewinding,
           PbInv(pb'), pb'.loaded = pb.loaded, pb'.snapshots = pb.snapshots,
           pb.loaded => pb'.cursor = emu.frame,
           app' \in AppType, app'.mode = app.mode, app'.observing = app.observing,
           app'.frames = app.frames,
           app'.at = app.at \/ (app.at # "reopened" /\ app'.at \in {"idle", "toggling"}),
           past' = past, queue' \in Seq(Command),
           pace' \in [running : BOOLEAN, late : BOOLEAN], ops' \in 0..MaxOps
    PROVE  IInv'
<1>0. SessionInv /\ ReopenedInv /\ FollowInv /\ RecordInv /\ past \subseteq Incident
  BY DEF IInv
<1>1. SessionInv'
  BY <1>0 DEF SessionInv
<1>2. ReopenedInv'
  BY <1>0 DEF ReopenedInv
<1>3. FollowInv'
  BY <1>0 DEF FollowInv
<1>4. RecordInv'
  BY <1>0 DEF RecordInv
<1> QED BY <1>0, <1>1, <1>2, <1>3, <1>4 DEF IInv

LEMMA IInvParts ==
    ASSUME IInv
    PROVE  /\ EmuInv(emu) /\ PbInv(pb) /\ app \in AppType /\ past \subseteq Incident
           /\ queue \in Seq(Command) /\ pace \in [running : BOOLEAN, late : BOOLEAN]
           /\ ops \in 0..MaxOps /\ SessionInv /\ ReopenedInv /\ FollowInv /\ RecordInv
           /\ emu \in EmuType /\ pb \in PbType
BY DEF IInv, EmuInv, PbInv

\* Pausing the console or not.
LEMMA PausedKeeps ==
    ASSUME EmuInv(emu), NEW p \in BOOLEAN, emu' = [emu EXCEPT !.paused = p]
    PROVE  EmuInv(emu') /\ emu'.frame = emu.frame /\ emu'.line = emu.line
           /\ emu'.next = emu.next /\ emu'.rewinding = emu.rewinding
<1>1. emu \in EmuType
  BY DEF EmuInv
<1>2. emu' \in EmuType /\ emu'.frame = emu.frame /\ emu'.line = emu.line
      /\ emu'.next = emu.next /\ emu'.rewinding = emu.rewinding /\ emu'.buffer = emu.buffer
  BY <1>1 DEF EmuType
<1> QED BY <1>2 DEF EmuInv

\* Changing the controller's flags.
LEMMA FlagsKeep ==
    ASSUME PbInv(pb), NEW p \in BOOLEAN, NEW s \in BOOLEAN, NEW o \in BOOLEAN,
           pb' = [pb EXCEPT !.playing = p, !.seeking = s, !.ok = o]
    PROVE  PbInv(pb') /\ pb'.loaded = pb.loaded /\ pb'.snapshots = pb.snapshots
           /\ pb'.cursor = pb.cursor
<1>1. pb \in PbType
  BY DEF PbInv
<1>2. pb' \in PbType /\ pb'.loaded = pb.loaded /\ pb'.snapshots = pb.snapshots
      /\ pb'.cursor = pb.cursor
  BY <1>1 DEF PbType
<1> QED BY <1>2 DEF PbInv

LEMMA PaceKeeps ==
    ASSUME pace \in [running : BOOLEAN, late : BOOLEAN], Suspend \/ Resume \/ pace' = pace
    PROVE  pace' \in [running : BOOLEAN, late : BOOLEAN]
<1>1. (pace.late \/ pace.running) \in BOOLEAN
  OBVIOUS
<1>2. CASE Suspend
  BY <1>1, <1>2 DEF Suspend
<1>3. CASE Resume
  BY <1>3 DEF Resume
<1> QED BY <1>2, <1>3

LEMMA Commands ==
    /\ Toggle \in Command
    /\ \A f \in 0..N : [kind |-> "seek", frame |-> f] \in Command
    /\ \A c \in Command : c.kind = "seek" => c.frame \in 0..N
BY DEF Command, Toggle

LEMMA PostKeeps ==
    ASSUME queue \in Seq(Command), NEW c \in Command, Post(c) \/ queue' = queue \/ queue' = Append(queue, c)
    PROVE  queue' \in Seq(Command)
BY DEF Post

LEMMA OpKeeps ==
    ASSUME ops \in 0..MaxOps, Op
    PROVE  ops' \in 0..MaxOps
BY Constants DEF Op

LEMMA WorkerDispatchesKeeps ==
    ASSUME IInv, WorkerDispatches
    PROVE  IInv'
<1> USE IInvParts
<1>1. queue # <<>> /\ queue' = Tail(queue) /\ pace' = pace /\ app' = app /\ ops' = ops
  BY DEF WorkerDispatches
<1>2. queue' \in Seq(Command) /\ Head(queue) \in Command
  <2>1. queue \in Seq(Command)
    OBVIOUS
  <2> QED BY <1>1, <2>1, HeadTailProperties
<1>3. CASE /\ Head(queue).kind = "toggle"
           /\ emu' = [emu EXCEPT !.paused = ~emu.paused] /\ pb' = pb /\ past' = past
  <2>1. (~emu.paused) \in BOOLEAN
    OBVIOUS
  <2>2. EmuInv(emu') /\ emu'.frame = emu.frame /\ emu'.line = emu.line
        /\ emu'.next = emu.next /\ emu'.rewinding = emu.rewinding
    BY <1>3, <2>1, PausedKeeps
  <2>3. pb.loaded => pb.cursor = emu.frame
    BY DEF SessionInv
  <2> QED BY <1>1, <1>2, <1>3, <2>2, <2>3, QuietKeeps
<1>4. ASSUME Head(queue).kind = "seek", SeekFails(Head(queue).frame) PROVE IInv'
  <2>1. pb' = [pb EXCEPT !.seeking = FALSE, !.ok = FALSE] /\ emu' = emu /\ past' = past
    BY <1>4 DEF SeekFails
  <2>2. pb' \in PbType /\ pb'.loaded = pb.loaded /\ pb'.snapshots = pb.snapshots
        /\ pb'.cursor = pb.cursor
    BY <2>1 DEF PbType
  <2>3. PbInv(pb')
    BY <2>2 DEF PbInv
  <2>4. pb.loaded => pb.cursor = emu.frame
    BY DEF SessionInv
  <2> QED BY <1>1, <1>2, <2>1, <2>2, <2>3, <2>4, QuietKeeps
<1>5. ASSUME Head(queue).kind = "seek", SeekRuns(Head(queue).frame) PROVE IInv'
  <2> DEFINE f == Head(queue).frame
             s == bestSnapshotAtOrBefore(pb.snapshots, f)
             n == f - s.frame
             a == SeekFrames(s, n)
             l == LineAt(s, f)
             c == FrameReady(a.pb, f, l)
  <2>1. f \in 0..N
    BY <1>2, <1>5, Commands
  <2>2. /\ Usable(pb.snapshots, f) # {}
        /\ emu' = [frame |-> f, line |-> l, paused |-> TRUE, next |-> {},
                   rewinding |-> emu.rewinding /\ s.frame = f, buffer |-> a.buffer]
        /\ pb' = [c EXCEPT !.playing = FALSE, !.seeking = FALSE, !.ok = TRUE]
        /\ past' = IF \E i \in 1..Len(emu.buffer) : emu.buffer[i].frame > s.frame
                   THEN past \cup {"sought"} ELSE past
    BY <1>5 DEF SeekRuns
  <2>3. past \subseteq past' /\ past' \subseteq Incident
        /\ past' \cap {"unseen", "strayed"} = past \cap {"unseen", "strayed"}
    BY <2>2 DEF Incident
  <2> HIDE DEF f
  <2>4. pb.snapshots \in Seq(State)
    BY DEF PbType
  <2>5. PICK i \in 1..Len(pb.snapshots) : s = pb.snapshots[i] /\ pb.snapshots[i].frame <= f
    BY <2>1, <2>2, <2>4, BestSnapshot
  <2>6. s \in State /\ Len(s.line) = s.frame /\ s.frame <= f
    <3>1. Coherent(pb.snapshots)
      BY DEF PbInv
    <3> HIDE DEF s
    <3> QED BY <2>4, <2>5, <3>1 DEF Coherent
  <2>7. pb.loaded
    <3> SUFFICES ASSUME ~pb.loaded PROVE FALSE
      OBVIOUS
    <3>1. pb.snapshots = <<>>
      BY DEF SessionInv
    <3> QED BY <2>5, <3>1
  <2> HIDE DEF s
  <2>8. n \in Nat /\ s.frame + n = f /\ f \in Frame
    <3>1. s.frame \in Nat
      BY <2>6, Constants DEF State
    <3> QED BY <2>1, <2>6, <3>1, Constants
  <2> HIDE DEF n
  <2>9. /\ PbInv(a.pb) /\ a.pb.loaded = pb.loaded /\ Buffered(a.buffer)
        /\ (OnReplay(pb.snapshots) /\ s.line = Prefix(s.frame)) => OnReplay(a.pb.snapshots)
    <3>1. PbInv(pb) /\ Buffered(emu.buffer) /\ s.frame + n \in 0..N
      BY <2>1, <2>8 DEF EmuInv
    <3> QED BY <2>6, <2>8, <3>1, SeekFramesKeep
  <2>10. l \in Seq(Input) /\ Len(l) = f /\ (s.line = Prefix(s.frame) => l = Prefix(f))
    BY <2>6, <2>8, SeekStateKeeps
  <2> HIDE DEF a, l
  <2>11. /\ PbInv(c) /\ c.loaded = a.pb.loaded /\ (a.pb.loaded => c.cursor = f)
         /\ (OnReplay(a.pb.snapshots) /\ l = Prefix(f)) => OnReplay(c.snapshots)
    BY <2>8, <2>9, <2>10, FrameReadyKeeps
  <2> HIDE DEF c
  <2>12. PbInv(pb') /\ pb'.loaded /\ pb'.snapshots = c.snapshots /\ pb'.cursor = f
    <3>1. c \in PbType
      BY <2>11 DEF PbInv
    <3>2. pb' \in PbType /\ pb'.loaded = c.loaded /\ pb'.snapshots = c.snapshots
          /\ pb'.cursor = c.cursor
      BY <2>2, <3>1 DEF PbType
    <3> QED BY <2>7, <2>9, <2>11, <3>2 DEF PbInv
  <2>13. EmuInv(emu') /\ emu'.frame = f /\ emu'.line = l /\ emu'.next = {}
    <3>1. a.buffer \in Seq(State)
      BY <2>9 DEF Buffered
    <3>2. (emu.rewinding /\ s.frame = f) \in BOOLEAN
      OBVIOUS
    <3>3. emu' \in EmuType /\ emu'.frame = f /\ emu'.line = l /\ emu'.next = {}
          /\ emu'.buffer = a.buffer
      BY <2>2, <2>8, <2>10, <3>1, <3>2 DEF EmuType
    <3> QED BY <2>9, <2>10, <3>3 DEF EmuInv
  <2>14. SessionInv'
    BY <1>1, <2>7, <2>12, <2>13 DEF SessionInv
  <2>15. ReopenedInv'
    BY <1>1, <2>7 DEF ReopenedInv, SessionInv
  <2>16. FollowInv'
    <3> SUFFICES ASSUME "unseen" \notin past PROVE OnReplay(c.snapshots) /\ l = Prefix(f)
      BY <2>1, <2>3, <2>12, <2>13 DEF FollowInv
    <3>1. OnReplay(pb.snapshots)
      BY <2>7 DEF FollowInv
    <3>2. s.line = Prefix(s.frame)
      BY <2>5, <3>1 DEF OnReplay
    <3> QED BY <2>9, <2>10, <2>11, <3>1, <3>2
  <2>17. RecordInv'
    BY <1>1, <2>7 DEF RecordInv, SessionInv
  <2> QED BY <1>1, <1>2, <2>3, <2>12, <2>13, <2>14, <2>15, <2>16, <2>17 DEF IInv
<1> QED BY <1>3, <1>4, <1>5 DEF WorkerDispatches, seekReplayPlaybackLocked


-----------------------------------------------------------------------------
(* The UI thread. *)

LEMMA AtKeeps ==
    ASSUME app \in AppType, NEW a \in {"idle", "toggling", "loaded"}, NEW u \in BOOLEAN,
           app' = [app EXCEPT !.at = a, !.auto = u]
    PROVE  app' \in AppType /\ app'.mode = app.mode /\ app'.observing = app.observing
           /\ app'.frames = app.frames /\ app'.at = a
BY DEF AppType

LEMMA AutoKeeps ==
    ASSUME app \in AppType, NEW u \in BOOLEAN, app' = [app EXCEPT !.auto = u]
    PROVE  app' \in AppType /\ app'.mode = app.mode /\ app'.observing = app.observing
           /\ app'.frames = app.frames /\ app'.at = app.at
BY DEF AppType

\* The steps of QuietKeeps.
LEMMA QuietSteps ==
    ASSUME IInv, Play \/ Pause \/ Stop \/ TogglePause \/ (\E f \in 0..N : Seek(f))
                 \/ SeekAfterLoad \/ SyncPlays \/ SyncForgets \/ SyncSeesRunning \/ SyncToggles
                 \/ MainLoopPaces
    PROVE  IInv'
<1> USE IInvParts
<1>0. /\ pb.loaded => pb.cursor = emu.frame
      /\ TRUE \in BOOLEAN /\ FALSE \in BOOLEAN /\ 0 \in 0..N
  BY Constants DEF SessionInv
<1>1. ASSUME pb' = StartSeek(pb)
      PROVE  PbInv(pb') /\ pb'.loaded = pb.loaded /\ pb'.snapshots = pb.snapshots
             /\ pb'.cursor = pb.cursor
  BY <1>0, <1>1, FlagsKeep DEF StartSeek
<1>2. ASSUME replayPlay
      PROVE  /\ PbInv(pb') /\ pb'.loaded = pb.loaded /\ pb'.snapshots = pb.snapshots
             /\ pb'.cursor = pb.cursor
             /\ EmuInv(emu') /\ emu'.frame = emu.frame /\ emu'.line = emu.line
             /\ emu'.next = emu.next /\ emu'.rewinding = emu.rewinding
  <2>1. /\ pb' = [pb EXCEPT !.playing = TRUE, !.seeking = FALSE, !.ok = TRUE]
        /\ emu' = [emu EXCEPT !.paused = FALSE]
    BY <1>2 DEF replayPlay
  <2> QED BY <1>0, <2>1, FlagsKeep, PausedKeeps
<1>3. CASE Play
  <2>1. replayPlay /\ Resume /\ Op /\ queue' = queue /\ app' = app /\ past' = past
    BY <1>3 DEF Play
  <2>2. pace' \in [running : BOOLEAN, late : BOOLEAN] /\ ops' \in 0..MaxOps
    BY <2>1, PaceKeeps, OpKeeps
  <2> QED BY <1>0, <1>2, <2>1, <2>2, QuietKeeps
<1>4. CASE Pause
  <2>1. /\ Op /\ Suspend /\ queue' = queue /\ app' = app /\ past' = past
        /\ pb' = [pb EXCEPT !.playing = FALSE, !.seeking = FALSE, !.ok = TRUE, !.cursor = emu.frame]
        /\ emu' = [emu EXCEPT !.paused = TRUE]
    BY <1>4 DEF Pause
  <2>2. pace' \in [running : BOOLEAN, late : BOOLEAN] /\ ops' \in 0..MaxOps
    BY <2>1, PaceKeeps, OpKeeps
  <2>3. emu.frame \in Frame
    BY DEF EmuType
  <2>4. pb' \in PbType /\ pb'.loaded = pb.loaded /\ pb'.snapshots = pb.snapshots
        /\ pb'.cursor = emu.frame
    BY <2>1, <2>3 DEF PbType
  <2>5. PbInv(pb')
    BY <2>4 DEF PbInv
  <2>6. EmuInv(emu') /\ emu'.frame = emu.frame /\ emu'.line = emu.line
        /\ emu'.next = emu.next /\ emu'.rewinding = emu.rewinding
    BY <1>0, <2>1, PausedKeeps
  <2> QED BY <2>1, <2>2, <2>4, <2>5, <2>6, QuietKeeps
<1>5. CASE Stop
  <2>1. Op /\ app' = [app EXCEPT !.auto = FALSE] /\ emu' = emu /\ past' = past
    BY <1>5 DEF Stop
  <2>2. ops' \in 0..MaxOps
    BY <2>1, OpKeeps
  <2>3. app' \in AppType /\ app'.mode = app.mode /\ app'.observing = app.observing
        /\ app'.frames = app.frames /\ app'.at = app.at
    BY <1>0, <2>1, AutoKeeps
  <2>4. CASE UNCHANGED <<pb, queue, pace>>
    BY <1>0, <2>1, <2>2, <2>3, <2>4, QuietKeeps
  <2>5. CASE Suspend /\ Post([kind |-> "seek", frame |-> 0]) /\ pb' = StartSeek(pb)
    <3>1. pace' \in [running : BOOLEAN, late : BOOLEAN] /\ queue' \in Seq(Command)
      BY <1>0, <2>5, PaceKeeps, PostKeeps, Commands
    <3> QED BY <1>0, <1>1, <2>1, <2>2, <2>3, <2>5, <3>1, QuietKeeps
  <2> QED BY <1>5, <2>4, <2>5 DEF Stop
<1>6. CASE TogglePause
  <2>1. Op /\ Post(Toggle) /\ emu' = emu /\ pb' = pb /\ pace' = pace /\ app' = app /\ past' = past
    BY <1>6 DEF TogglePause
  <2>2. ops' \in 0..MaxOps /\ queue' \in Seq(Command)
    BY <2>1, OpKeeps, PostKeeps, Commands
  <2> QED BY <1>0, <2>1, <2>2, QuietKeeps
<1>7. ASSUME NEW f \in 0..N, Seek(f) PROVE IInv'
  <2>1. /\ Op /\ Suspend /\ Post([kind |-> "seek", frame |-> f]) /\ pb' = StartSeek(pb)
        /\ app' = app /\ emu' = emu /\ past' = past
    BY <1>7 DEF Seek
  <2>2. pace' \in [running : BOOLEAN, late : BOOLEAN] /\ ops' \in 0..MaxOps
    BY <2>1, PaceKeeps, OpKeeps
  <2>3. queue' \in Seq(Command)
    BY <2>1, PostKeeps, Commands
  <2> QED BY <1>0, <1>1, <2>1, <2>2, <2>3, QuietKeeps
<1>8. CASE SeekAfterLoad
  <2>1. /\ Suspend /\ Post([kind |-> "seek", frame |-> 0]) /\ pb' = StartSeek(pb)
        /\ app.at = "loaded" /\ app' = [app EXCEPT !.at = "idle", !.auto = TRUE]
        /\ emu' = emu /\ past' = past /\ ops' = ops
    BY <1>8 DEF SeekAfterLoad
  <2>2. pace' \in [running : BOOLEAN, late : BOOLEAN]
    BY <2>1, PaceKeeps
  <2>3. queue' \in Seq(Command)
    BY <1>0, <2>1, PostKeeps, Commands
  <2>4. app' \in AppType /\ app'.mode = app.mode /\ app'.observing = app.observing
        /\ app'.frames = app.frames /\ app'.at = "idle"
    BY <1>0, <2>1, AtKeeps
  <2> QED BY <1>0, <1>1, <2>1, <2>2, <2>3, <2>4, QuietKeeps
<1>9. CASE SyncPlays
  <2>1. replayPlay /\ Resume /\ queue' = queue /\ app' = [app EXCEPT !.auto = FALSE]
        /\ past' = past /\ ops' = ops
    BY <1>9 DEF SyncPlays
  <2>2. pace' \in [running : BOOLEAN, late : BOOLEAN]
    BY <2>1, PaceKeeps
  <2>3. app' \in AppType /\ app'.mode = app.mode /\ app'.observing = app.observing
        /\ app'.frames = app.frames /\ app'.at = app.at
    BY <1>0, <2>1, AutoKeeps
  <2> QED BY <1>0, <1>2, <2>1, <2>2, <2>3, QuietKeeps
<1>10. CASE SyncForgets
  <2>1. app' = [app EXCEPT !.auto = FALSE] /\ emu' = emu /\ pb' = pb /\ queue' = queue
        /\ pace' = pace /\ past' = past /\ ops' = ops
    BY <1>10 DEF SyncForgets
  <2>2. app' \in AppType /\ app'.mode = app.mode /\ app'.observing = app.observing
        /\ app'.frames = app.frames /\ app'.at = app.at
    BY <1>0, <2>1, AutoKeeps
  <2> QED BY <1>0, <2>1, <2>2, QuietKeeps
<1>11. CASE SyncSeesRunning
  <2>1. app' = [app EXCEPT !.at = "toggling", !.auto = FALSE] /\ app.at = "idle"
        /\ emu' = emu /\ pb' = pb /\ queue' = queue /\ pace' = pace /\ past' = past /\ ops' = ops
    BY <1>11 DEF SyncSeesRunning, Idle
  <2>2. app' \in AppType /\ app'.mode = app.mode /\ app'.observing = app.observing
        /\ app'.frames = app.frames /\ app'.at = "toggling"
    BY <1>0, <2>1, AtKeeps
  <2> QED BY <1>0, <2>1, <2>2, QuietKeeps
<1>12. CASE SyncToggles
  <2>1. app' = [app EXCEPT !.at = "idle"] /\ app.at = "toggling" /\ Post(Toggle)
        /\ emu' = emu /\ pb' = pb /\ pace' = pace /\ past' = past /\ ops' = ops
    BY <1>12 DEF SyncToggles
  <2>2. app' \in AppType /\ app'.mode = app.mode /\ app'.observing = app.observing
        /\ app'.frames = app.frames /\ app'.at = "idle"
    BY <2>1 DEF AppType
  <2>3. queue' \in Seq(Command)
    BY <2>1, PostKeeps, Commands
  <2> QED BY <1>0, <2>1, <2>2, <2>3, QuietKeeps
<1>13. CASE MainLoopPaces
  <2>1. Resume /\ emu' = emu /\ pb' = pb /\ queue' = queue /\ app' = app /\ past' = past /\ ops' = ops
    BY <1>13 DEF MainLoopPaces
  <2>2. pace' \in [running : BOOLEAN, late : BOOLEAN]
    BY <2>1, PaceKeeps
  <2> QED BY <1>0, <2>1, <2>2, QuietKeeps
<1> QED BY <1>3, <1>4, <1>5, <1>6, <1>7, <1>8, <1>9, <1>10, <1>11, <1>12, <1>13

LEMMA StartingPoints ==
    /\ EmuInv(PoweredOn) /\ PbInv(NoReplay) /\ NoSession \in AppType
    /\ ReplayFile \in Seq(RecordedFrame) /\ Len(ReplayFile) = N
    /\ \A i \in 1..N : ReplayFile[i] = [frame |-> i - 1, input |-> "Recorded"]
<1>1. EmuInv(PoweredOn)
  <2>1. PoweredOn \in EmuType
    BY Constants, EmptySeq DEF PoweredOn, EmuType
  <2>2. Buffered(<<>>)
    BY Constants, EmptySeq DEF Buffered, Coherent
  <2> QED BY <2>1, <2>2, EmptySeq DEF EmuInv, PoweredOn
<1>2. PbInv(NoReplay)
  BY Constants, EmptySeq DEF NoReplay, PbType, PbInv, OneEach, Coherent
<1>3. NoSession \in AppType
  BY EmptySeq DEF NoSession, AppType, SessionMode
<1>4. \A i \in 1..N : [frame |-> i - 1, input |-> "Recorded"] \in RecordedFrame
  <2> SUFFICES ASSUME NEW i \in 1..N
               PROVE  [frame |-> i - 1, input |-> "Recorded"] \in RecordedFrame
    OBVIOUS
  <2>1. i - 1 \in Frame
    BY Constants
  <2> QED BY <2>1 DEF RecordedFrame, Input
<1>5. ReplayFile \in Seq(RecordedFrame) /\ Len(ReplayFile) = N
      /\ \A i \in 1..N : ReplayFile[i] = [frame |-> i - 1, input |-> "Recorded"]
  <2> DEFINE r(i) == [frame |-> i - 1, input |-> "Recorded"]
  <2>1. ReplayFile = [i \in 1..N |-> r(i)]
    BY DEF ReplayFile
  <2>2. \A i \in 1..N : r(i) \in RecordedFrame
    BY <1>4
  <2> HIDE DEF r
  <2>3. ReplayFile \in Seq(RecordedFrame) /\ Len(ReplayFile) = N /\ \A i \in 1..N : ReplayFile[i] = r(i)
    BY <2>1, <2>2, Constants
  <2> QED BY <2>3 DEF r
<1> QED BY <1>1, <1>2, <1>3, <1>5

\* What clearReplayPlayback leaves of the controller, after a pause or not.
LEMMA Cleared ==
    ASSUME NEW b, PbInv(b)
    PROVE  /\ PbInv(clearReplayPlayback(b)) /\ PbInv(PauseAndClear(b))
           /\ clearReplayPlayback(b).loaded = FALSE /\ PauseAndClear(b).loaded = FALSE
           /\ clearReplayPlayback(b).snapshots = <<>> /\ PauseAndClear(b).snapshots = <<>>
<1>1. b.ok \in BOOLEAN /\ (b.ok \/ b.loaded) \in BOOLEAN
  BY DEF PbInv, PbType
<1>2. ASSUME NEW o \in BOOLEAN
      PROVE  /\ PbInv([NoReplay EXCEPT !.ok = o])
             /\ [NoReplay EXCEPT !.ok = o].loaded = FALSE
             /\ [NoReplay EXCEPT !.ok = o].snapshots = <<>>
  <2> DEFINE c == [NoReplay EXCEPT !.ok = o]
  <2>1. c.loaded = FALSE /\ c.snapshots = <<>>
    BY DEF NoReplay
  <2>2. NoReplay \in PbType /\ OneEach(<<>>) /\ Coherent(<<>>)
    BY Constants, EmptySeq DEF NoReplay, PbType, OneEach, Coherent
  <2>3. c \in PbType
    BY <2>2 DEF PbType
  <2> HIDE DEF c
  <2>4. PbInv(c)
    BY <2>1, <2>2, <2>3 DEF PbInv
  <2> QED BY <2>1, <2>4 DEF c
<1> QED BY <1>1, <1>2 DEF clearReplayPlayback, PauseAndClear

\* A session ends, or the ROM is reloaded for another: no replay is loaded.
LEMMA ReloadSteps ==
    ASSUME IInv, OpenReplay \/ OpenMismatch \/ Close \/ StartRecording \/ StopRecording
    PROVE  IInv'
<1> USE IInvParts, StartingPoints
<1>1. ASSUME pb' = clearReplayPlayback(pb) \/ pb' = PauseAndClear(pb)
      PROVE  PbInv(pb') /\ pb'.loaded = FALSE /\ pb'.snapshots = <<>>
  BY <1>1, Cleared
<1>2. NoSession.mode = "None" /\ NoSession.at = "idle"
  BY DEF NoSession
<1>3. CASE OpenReplay
  <2>1. /\ Op /\ Suspend /\ queue' = queue /\ past' = {} /\ emu' = PoweredOn
        /\ pb' = clearReplayPlayback(pb)
        /\ app' = [mode |-> "Playback", observing |-> "Playback", frames |-> ReplayFile,
                   auto |-> app.auto, at |-> "reopened"]
    BY <1>3 DEF OpenReplay
  <2>7. PbInv(pb') /\ pb'.loaded = FALSE /\ pb'.snapshots = <<>>
    BY <1>1, <2>1
  <2>2. pace' \in [running : BOOLEAN, late : BOOLEAN] /\ ops' \in 0..MaxOps
    BY <2>1, PaceKeeps, OpKeeps
  <2>3. app' \in AppType /\ app'.mode = "Playback" /\ app'.observing = "Playback"
        /\ app'.frames = ReplayFile /\ app'.at = "reopened"
    BY <2>1 DEF AppType, SessionMode
  <2>4. emu'.frame = 0 /\ emu'.line = <<>> /\ emu'.next = {}
    BY <2>1 DEF PoweredOn
  <2>5. SessionInv' /\ FollowInv' /\ RecordInv'
    BY <2>1, <2>3, <2>7 DEF SessionInv, FollowInv, RecordInv
  <2>6. ReopenedInv'
    BY <2>4 DEF ReopenedInv
  <2> QED BY <2>1, <2>2, <2>3, <2>5, <2>6, <2>7 DEF IInv
<1>4. CASE OpenMismatch
  <2>1. /\ Op /\ emu' = emu /\ pb' = pb /\ queue' = queue /\ pace' = pace /\ past' = past
        /\ app' = [NoSession EXCEPT !.observing = app.observing, !.auto = app.auto]
    BY <1>4 DEF OpenMismatch
  <2>2. app' \in AppType /\ app'.mode = "None" /\ app'.at = "idle"
    BY <1>2, <2>1 DEF AppType
  <2>3. ops' \in 0..MaxOps
    BY <2>1, OpKeeps
  <2>4. SessionInv' /\ FollowInv' /\ RecordInv' /\ ReopenedInv'
    BY <2>1, <2>2 DEF SessionInv, FollowInv, RecordInv, ReopenedInv
  <2> QED BY <2>1, <2>2, <2>3, <2>4 DEF IInv
<1>5. CASE Close
  <2>1. /\ Op /\ Suspend /\ emu' = emu /\ past' = past /\ app' = NoSession
        /\ pb' = PauseAndClear(pb)
        /\ queue' = IF emu.paused THEN Append(queue, Toggle) ELSE queue
    BY <1>5 DEF Close
  <2>2. pace' \in [running : BOOLEAN, late : BOOLEAN] /\ ops' \in 0..MaxOps
    BY <2>1, PaceKeeps, OpKeeps
  <2>3. queue' \in Seq(Command)
    BY <2>1, PostKeeps, Commands
  <2>4. PbInv(pb') /\ pb'.loaded = FALSE /\ pb'.snapshots = <<>>
    BY <1>1, <2>1
  <2>5. SessionInv' /\ FollowInv' /\ RecordInv' /\ ReopenedInv'
    BY <1>2, <2>1, <2>4 DEF SessionInv, FollowInv, RecordInv, ReopenedInv
  <2> QED BY <2>1, <2>2, <2>3, <2>4, <2>5 DEF IInv
<1>6. CASE StartRecording
  <2>1. /\ Op /\ Resume /\ queue' = queue /\ past' = {} /\ emu' = PoweredOn
        /\ pb' = PauseAndClear(pb)
        /\ app' = [NoSession EXCEPT !.mode = "Recording", !.at = "recording"]
    BY <1>6 DEF StartRecording
  <2>7. PbInv(pb') /\ pb'.loaded = FALSE /\ pb'.snapshots = <<>>
    BY <1>1, <2>1
  <2>2. pace' \in [running : BOOLEAN, late : BOOLEAN] /\ ops' \in 0..MaxOps
    BY <2>1, PaceKeeps, OpKeeps
  <2>3. app' \in AppType /\ app'.mode = "Recording" /\ app'.at = "recording"
        /\ app'.observing = "None"
    BY <2>1 DEF AppType, SessionMode, NoSession
  <2>4. emu'.frame = 0 /\ emu'.next = {}
    BY <2>1 DEF PoweredOn
  <2>5. SessionInv' /\ FollowInv' /\ ReopenedInv'
    BY <2>1, <2>3, <2>7 DEF SessionInv, FollowInv, ReopenedInv
  <2>6. RecordInv'
    BY <2>4 DEF RecordInv
  <2> QED BY <2>1, <2>2, <2>3, <2>5, <2>6, <2>7 DEF IInv
<1>7. CASE StopRecording
  <2>1. Op /\ Suspend /\ emu' = emu /\ past' = past /\ app' = NoSession
        /\ pb' = PauseAndClear(pb) /\ queue' = queue
    BY <1>7 DEF StopRecording
  <2>4. PbInv(pb') /\ pb'.loaded = FALSE /\ pb'.snapshots = <<>>
    BY <1>1, <2>1
  <2>2. pace' \in [running : BOOLEAN, late : BOOLEAN] /\ ops' \in 0..MaxOps
    BY <2>1, PaceKeeps, OpKeeps
  <2>3. SessionInv' /\ FollowInv' /\ RecordInv' /\ ReopenedInv'
    BY <1>2, <2>1, <2>4 DEF SessionInv, FollowInv, RecordInv, ReopenedInv
  <2> QED BY <2>1, <2>2, <2>3, <2>4 DEF IInv
<1> QED BY <1>3, <1>4, <1>5, <1>6, <1>7

\* The replay is loaded into the console the reload left, at its first frame
\* unless the worker had emulated one.
LEMMA LoadReplayKeeps ==
    ASSUME IInv, LoadReplay
    PROVE  IInv'
<1> USE IInvParts, StartingPoints
<1> DEFINE st == [frame |-> emu.frame, line |-> emu.line]
           shelf == <<st>>
<1>1. /\ app.at = "reopened" /\ app' = [app EXCEPT !.at = "loaded"]
      /\ pb' = [clearReplayPlayback(pb) EXCEPT !.loaded = TRUE, !.cursor = emu.frame,
                                              !.snapshots = shelf]
      /\ emu' = emu /\ queue' = queue /\ pace' = pace /\ past' = past /\ ops' = ops
  BY DEF LoadReplay
<1>2. st \in State /\ Len(st.line) = st.frame /\ emu.frame \in Frame
  BY DEF State, EmuType, EmuInv
<1>3. shelf \in Seq(State) /\ Len(shelf) = 1 /\ shelf[1] = st
  BY <1>2
<1> HIDE DEF shelf
<1>4. OneEach(shelf) /\ Coherent(shelf)
  BY <1>2, <1>3 DEF OneEach, Coherent
<1>5. pb' \in PbType /\ pb'.loaded /\ pb'.cursor = emu.frame /\ pb'.snapshots = shelf
  <2>1. clearReplayPlayback(pb) \in PbType
    BY Cleared DEF PbInv
  <2> QED BY <1>1, <1>2, <1>3, <2>1 DEF PbType
<1>6. PbInv(pb')
  BY <1>4, <1>5 DEF PbInv
<1>7. app' \in AppType /\ app'.mode = "Playback" /\ app'.observing = app.observing
      /\ app'.frames = app.frames /\ app'.at = "loaded"
  BY <1>1 DEF AppType, SessionInv
<1>8. SessionInv' /\ ReopenedInv' /\ RecordInv'
  BY <1>1, <1>5, <1>7 DEF SessionInv, ReopenedInv, RecordInv
<1>9. FollowInv'
  <2> SUFFICES ASSUME "unseen" \notin past
               PROVE  /\ emu.line = Prefix(emu.frame) /\ emu.frame <= N /\ OnReplay(shelf)
                      /\ emu.next = {}
    BY <1>1, <1>5 DEF FollowInv
  <2>1. emu.frame = 0 /\ emu.line = <<>> /\ emu.next = {}
    BY <1>1 DEF ReopenedInv
  <2>2. emu.line = Prefix(emu.frame)
    BY <2>1, PrefixZero
  <2>3. OnReplay(shelf)
    BY <1>3, <2>2 DEF OnReplay
  <2> QED BY <2>1, <2>2, <2>3, Constants
<1> QED BY <1>1, <1>6, <1>7, <1>8, <1>9 DEF IInv

\* A replay is continued: what is kept of it reaches to the console's frame and
\* the input prepared for it, and at its end the input of the player is added.
LEMMA ContinueRecordingKeeps ==
    ASSUME IInv, ContinueRecording
    PROVE  IInv'
<1> USE IInvParts, StartingPoints
<1> DEFINE c == MinOf(pb.cursor, N)
           m == MinOf(c + 1, N)
           t == SubSeq(app.frames, 1, m)
           u(i) == IF c >= N /\ emu.frame >= N THEN appendRecordedFrame(t, emu.frame, i) ELSE t
<1>1. /\ Op /\ app.mode = "Playback" /\ app.at = "idle" /\ pb' = clearReplayPlayback(pb)
      /\ emu' = emu /\ queue' = queue /\ pace' = pace /\ past' = past
  BY DEF ContinueRecording, Standing, Op, Idle
<1>2. app.frames = ReplayFile /\ app.observing = "Playback" /\ pb.loaded /\ pb.cursor = emu.frame
  BY <1>1 DEF SessionInv
<1>3. emu.frame \in Nat /\ N \in Nat /\ N >= 1
  BY Constants DEF EmuType
<1>4. c \in Nat /\ c <= N /\ (emu.frame <= N => c = emu.frame)
  BY <1>2, <1>3 DEF MinOf
<1>5. PICK i \in Live :
        app' = [app EXCEPT !.mode = "Recording", !.at = "recording", !.frames = u(i)]
  BY DEF ContinueRecording
<1> HIDE DEF c
<1>6. m \in 1..N /\ (c < N => m = c + 1) /\ (c = N => m = N)
  BY <1>3, <1>4 DEF MinOf
<1> HIDE DEF m
<1>7. t \in Seq(RecordedFrame) /\ Len(t) = m
      /\ \A k \in 1..m : t[k] = [frame |-> k - 1, input |-> "Recorded"]
  <2> DEFINE F == ReplayFile
  <2>1. F \in Seq(RecordedFrame) /\ Len(F) = N
        /\ \A k \in 1..N : F[k] = [frame |-> k - 1, input |-> "Recorded"]
    OBVIOUS
  <2>2. t = SubSeq(F, 1, m)
    BY <1>2
  <2> HIDE DEF F, t
  <2>3. 1..m \subseteq 1..N
    BY <1>3, <1>6
  <2>4. SubSeq(F, 1, m) \in Seq(RecordedFrame) /\ Len(SubSeq(F, 1, m)) = m
        /\ \A k \in 1..m : SubSeq(F, 1, m)[k] = F[k]
    BY <1>3, <1>6, <2>1
  <2> QED BY <2>1, <2>2, <2>3, <2>4
<1> HIDE DEF t
<1> DEFINE w == u(i)
<1>8. /\ w \in Seq(RecordedFrame)
      /\ emu.frame < N => w = t
      /\ \A g \in Nat : \A x : (g # emu.frame /\ Recorded(t, g, x)) => Recorded(w, g, x)
  <2>1. i \in Input /\ emu.frame \in Frame
    BY DEF Input, EmuType
  <2> DEFINE v == appendRecordedFrame(t, emu.frame, i)
  <2>2. /\ v \in Seq(RecordedFrame)
        /\ \A g \in Nat : \A x : (g # emu.frame /\ Recorded(t, g, x)) => Recorded(v, g, x)
    BY <1>7, <2>1, AppendRecorded
  <2>3. w = IF c >= N /\ emu.frame >= N THEN v ELSE t
    OBVIOUS
  <2> HIDE DEF v, w
  <2> QED BY <1>3, <1>7, <2>2, <2>3
<1>9. app' = [app EXCEPT !.mode = "Recording", !.at = "recording", !.frames = w]
  BY <1>5
<1> HIDE DEF u, w
<1>10. app' \in AppType /\ app'.mode = "Recording" /\ app'.observing = "Playback"
      /\ app'.frames = w /\ app'.at = "recording"
  BY <1>2, <1>8, <1>9 DEF AppType, SessionMode
<1>11. PbInv(pb') /\ pb'.loaded = FALSE /\ pb'.snapshots = <<>>
  BY <1>1, Cleared
<1>12. SessionInv' /\ ReopenedInv' /\ FollowInv'
  BY <1>10, <1>11 DEF SessionInv, ReopenedInv, FollowInv
<1>13. RecordInv'
  <2> SUFFICES ASSUME "unseen" \notin past
               PROVE  /\ \A f \in 0..(emu.frame - 1) : Recorded(w, f, emu.line[f + 1])
                      /\ \A j \in emu.next : Recorded(w, emu.frame, j)
    BY <1>1, <1>10 DEF RecordInv
  <2>1. /\ emu.line = Prefix(emu.frame) /\ emu.frame <= N
        /\ emu.next \subseteq {"Recorded"} /\ (emu.next # {} => emu.frame < N)
    BY <1>2 DEF FollowInv
  <2>2. c = emu.frame
    BY <1>4, <2>1
  <2>3. ASSUME NEW f \in Nat, f < m PROVE Recorded(t, f, "Recorded")
    <3>1. f + 1 \in 1..m /\ (f + 1) - 1 = f
      BY <1>6, <2>3
    <3> QED BY <1>7, <2>3, <3>1 DEF Recorded
  <2>4. ASSUME NEW f \in 0..(emu.frame - 1) PROVE Recorded(w, f, emu.line[f + 1])
    <3>1. f \in Nat /\ f < m /\ f + 1 \in 1..emu.frame /\ f # emu.frame
      BY <1>3, <1>6, <2>1, <2>2
    <3>2. emu.line[f + 1] = "Recorded"
      <4>1. \A k \in Nat : \A x \in 1..k : Prefix(k)[x] = "Recorded"
        BY PrefixSeq
      <4> QED BY <1>3, <2>1, <3>1, <4>1
    <3>3. Recorded(t, f, "Recorded")
      BY <2>3, <3>1
    <3> QED BY <1>8, <3>1, <3>2, <3>3
  <2>5. ASSUME NEW j \in emu.next PROVE Recorded(w, emu.frame, j)
    <3>1. j = "Recorded" /\ emu.frame < N
      BY <2>1
    <3>2. emu.frame < m
      BY <1>3, <1>6, <2>2, <3>1
    <3>3. Recorded(t, emu.frame, j)
      BY <1>3, <2>3, <3>1, <3>2
    <3> QED BY <1>8, <3>1, <3>3
  <2> QED BY <2>4, <2>5
<1>14. ops' \in 0..MaxOps
  BY <1>1, OpKeeps
<1> QED BY <1>1, <1>10, <1>11, <1>12, <1>13, <1>14 DEF IInv

\* The observer is told of the recording.
LEMMA ObserveRecordingKeeps ==
    ASSUME IInv, ObserveRecording
    PROVE  IInv'
<1> USE IInvParts
<1>1. /\ app' = [app EXCEPT !.at = "idle", !.observing = "Recording"]
      /\ app.at = "recording" /\ emu' = emu /\ pb' = pb /\ pace' = pace
      /\ past' = past /\ ops' = ops
      /\ queue' = IF emu.paused THEN Append(queue, Toggle) ELSE queue
  BY DEF ObserveRecording
<1>2. queue' \in Seq(Command)
  BY <1>1, PostKeeps, Commands
<1>3. app.mode = "Recording" /\ ~pb.loaded
  BY <1>1 DEF SessionInv
<1>4. app' \in AppType /\ app'.mode = "Recording" /\ app'.observing = "Recording"
      /\ app'.at = "idle" /\ app'.frames = app.frames
  BY <1>1, <1>3 DEF AppType, SessionMode
<1>5. SessionInv' /\ ReopenedInv' /\ FollowInv' /\ RecordInv'
  BY <1>1, <1>3, <1>4 DEF SessionInv, ReopenedInv, FollowInv, RecordInv
<1> QED BY <1>1, <1>2, <1>4, <1>5 DEF IInv

-----------------------------------------------------------------------------
(* The invariant, and what follows from it. *)

LEMMA InitEstablishes == Init => IInv
<1> SUFFICES ASSUME Init PROVE IInv
  OBVIOUS
<1> USE StartingPoints
<1>1. /\ emu = PoweredOn /\ pb = NoReplay /\ queue = <<>> /\ app = NoSession /\ past = {}
      /\ ops = MaxOps /\ pace = [running |-> TRUE, late |-> FALSE]
  BY DEF Init
<1>2. queue \in Seq(Command) /\ ops \in 0..MaxOps /\ pace \in [running : BOOLEAN, late : BOOLEAN]
  BY <1>1, Constants, EmptySeq
<1>3. app.mode = "None" /\ app.at = "idle" /\ ~pb.loaded /\ pb.snapshots = <<>>
  BY <1>1 DEF NoSession, NoReplay
<1>4. SessionInv /\ ReopenedInv /\ FollowInv /\ RecordInv
  BY <1>3 DEF SessionInv, ReopenedInv, FollowInv, RecordInv
<1> QED BY <1>1, <1>2, <1>4 DEF IInv

LEMMA NextPreserves == IInv /\ [Next]_vars => IInv'
<1> SUFFICES ASSUME IInv, [Next]_vars PROVE IInv'
  OBVIOUS
<1>1. CASE UNCHANGED vars
  BY <1>1 DEF vars, IInv, SessionInv, ReopenedInv, FollowInv, RecordInv
<1>2. CASE WorkerAdvances
  BY <1>2, WorkerAdvancesKeeps
<1>3. CASE WorkerDispatches
  BY <1>3, WorkerDispatchesKeeps
<1>4. CASE UserActs
  BY <1>4, QuietSteps, ReloadSteps, ContinueRecordingKeeps DEF UserActs
<1>5. CASE UiContinues
  BY <1>5, QuietSteps, LoadReplayKeeps, ObserveRecordingKeeps DEF UiContinues
<1> QED BY <1>1, <1>2, <1>3, <1>4, <1>5 DEF Next

LEMMA InvariantHolds == Spec => []IInv
BY InitEstablishes, NextPreserves, PTL DEF Spec

\* Every reachable state is well typed, for a replay of any length and a rewind
\* buffer of any capacity: the console has an input for each frame since
\* power-on, the rewind buffer stays within its capacity however far a seek
\* runs, and ReplayPlaybackController keeps at most one snapshot of a frame.
THEOREM ReplayTypeCorrect == Spec => []TypeOK
<1>1. IInv => TypeOK
  BY DEF IInv, TypeOK, EmuInv, EmuType, PbInv, PbType, OneEach, Buffered, AppType
<1> QED BY <1>1, InvariantHolds, PTL

\* While ThreadedEmulationHost has a replay loaded the console is where the
\* replay's inputs lead, whatever the worker had prepared or begun, through any
\* pauses, seeks and stops; unless the worker emulated a frame between the
\* ROM's reload and the loading of the replay.
THEOREM PlaybackAlwaysFollowsReplay == Spec => []PlaybackFollowsReplay
<1>1. IInv => PlaybackFollowsReplay
  BY DEF IInv, FollowInv, PlaybackFollowsReplay
<1> QED BY <1>1, InvariantHolds, PTL

\* What ReplaySession records is what the console emulated, frame by frame, also
\* when a replay is continued and when the player rewinds within the recording.
THEOREM RecordingAlwaysFaithful == Spec => []RecordingFaithful
<1>1. IInv => RecordingFaithful
  BY DEF IInv, RecordInv, Recorded, RecordingFaithful
<1> QED BY <1>1, InvariantHolds, PTL
=============================================================================
