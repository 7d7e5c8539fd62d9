---------------------------- MODULE RewindProofs ----------------------------
(***************************************************************************)
(* What TLAPS proves of the rewind buffer in Replay.  A state load leaves  *)
(* the buffer as it is, so whether the buffer is still the console's past  *)
(* after a seek depends on the snapshot the seek starts from: the          *)
(* invariant relates the stored snapshots, the buffer and the inputs       *)
(* emulated so far.                                                        *)
(***************************************************************************)
EXTENDS ReplayProofs

\* The inputs s are the first ones of t.
Begins(s, t) == Len(s) <= Len(t) /\ \A k \in 1..Len(s) : s[k] = t[k]

\* A rewind buffer that leads to the inputs line.
LeadsTo(buffer, line) ==
    \A i \in 1..Len(buffer) :
        /\ Begins(buffer[i].line, line)
        /\ buffer[i].frame >= 1
        /\ \A j \in 1..(i - 1) : buffer[j].frame < buffer[i].frame

\* The console was rewound behind the state the replay was loaded in, whose
\* snapshot is the first: no seek uses that one again.
Overtaken(s) == Len(s) >= 2 /\ s[2].frame < s[1].frame

\* The snapshots after the first were stored on the way, in this order, and
\* their states went into the buffer.
OnTheWay(s, buffer, line) ==
    /\ Len(s) >= 1
    /\ Begins(s[1].line, line) \/ Overtaken(s)
    /\ \A q \in 2..Len(s) :
          /\ Begins(s[q].line, line)
          /\ \A p \in 2..(q - 1) : s[p].frame < s[q].frame
          /\ \/ \E b \in 1..Len(buffer) : buffer[b].frame >= s[q].frame
             \/ q = 2 /\ Overtaken(s)

\* The replay was loaded behind its own end and the console rewound a little.
BehindEnd(s, e) == Len(s) = 1 /\ e.frame >= N /\ e.next = {} /\ Begins(e.line, s[1].line)

RewindInv ==
    /\ "sought" \notin past => LeadsTo(emu.buffer, emu.line)
    /\ (pb.loaded /\ "sought" \notin past) =>
          OnTheWay(pb.snapshots, emu.buffer, emu.line) \/ BehindEnd(pb.snapshots, emu)
    /\ pb.loaded =>
          /\ emu.next = {"Recorded"} => ~emu.rewinding /\ emu.frame < N
          /\ emu.next \cap Live # {} => Len(pb.snapshots) = 1 /\ emu.line = pb.snapshots[1].line
    /\ app.at = "reopened" => emu.next \subseteq Live


-----------------------------------------------------------------------------
(* First inputs of one another. *)

LEMMA BeginsSelf ==
    ASSUME NEW s \in Seq(Input)
    PROVE  Begins(s, s)
BY DEF Begins

LEMMA BeginsOn ==
    ASSUME NEW a \in Seq(Input), NEW b \in Seq(Input), NEW c \in Seq(Input),
           Begins(a, b), Begins(b, c)
    PROVE  Begins(a, c)
<1>1. Len(a) \in Nat /\ Len(b) \in Nat /\ Len(c) \in Nat /\ Len(a) <= Len(b) /\ Len(b) <= Len(c)
  BY DEF Begins
<1>2. \A k \in 1..Len(a) : k \in 1..Len(b)
  BY <1>1
<1> QED BY <1>1, <1>2 DEF Begins

LEMMA BeginsShorter ==
    ASSUME NEW a \in Seq(Input), NEW b \in Seq(Input), NEW c \in Seq(Input),
           Begins(a, c), Begins(b, c), Len(a) <= Len(b)
    PROVE  Begins(a, b)
<1>1. Len(a) \in Nat /\ Len(b) \in Nat
  OBVIOUS
<1>2. \A k \in 1..Len(a) : k \in 1..Len(b)
  BY <1>1
<1> QED BY <1>2 DEF Begins

LEMMA BeginsEqual ==
    ASSUME NEW a \in Seq(Input), NEW b \in Seq(Input), Begins(a, b), Len(b) <= Len(a)
    PROVE  a = b
<1>1. Len(a) = Len(b)
  BY DEF Begins
<1>2. \A k \in 1..Len(a) : a[k] = b[k]
  BY DEF Begins
<1> QED BY <1>1, <1>2, SeqEqual

LEMMA BeginsAppend ==
    ASSUME NEW s \in Seq(Input), NEW x \in Input
    PROVE  /\ Append(s, x) \in Seq(Input) /\ Len(Append(s, x)) = Len(s) + 1
           /\ Begins(s, Append(s, x))
<1>1. /\ Append(s, x) \in Seq(Input) /\ Len(Append(s, x)) = Len(s) + 1
      /\ \A k \in 1..Len(s) : Append(s, x)[k] = s[k]
  BY AppendProperties
<1> QED BY <1>1 DEF Begins

LEMMA BeginsIsPrefix ==
    ASSUME NEW s \in Seq(Input), NEW t \in Seq(Input), Begins(s, t)
    PROVE  IsPrefix(s, t)
<1>1. Len(s) \in Nat /\ Len(t) \in Nat /\ Len(s) <= Len(t) /\ \A k \in 1..Len(s) : s[k] = t[k]
  BY DEF Begins
<1> DEFINE a == SubSeq(s, 1, Len(s))
           b == SubSeq(t, 1, Len(s))
<1>2. a \in Seq(Input) /\ Len(a) = Len(s) /\ \A k \in 1..Len(s) : a[k] = s[k]
  BY <1>1
<1>3. b \in Seq(Input) /\ Len(b) = Len(s) /\ \A k \in 1..Len(s) : b[k] = t[k]
  <2>1. Len(t) >= Len(s) /\ \A k \in 1..Len(s) : k \in 1..Len(t)
    BY <1>1
  <2> QED BY <1>1, <2>1
<1> HIDE DEF a, b
<1>4. a = b
  BY <1>1, <1>2, <1>3, SeqEqual
<1> QED BY <1>1, <1>4 DEF IsPrefix, a, b

\* What a state in a buffer or of a snapshot is.
LEMMA StoredState ==
    ASSUME NEW q \in Seq(State), Coherent(q)
    PROVE  /\ Len(q) \in Nat
           /\ \A i \in 1..Len(q) : /\ q[i] \in State /\ q[i].line \in Seq(Input)
                                   /\ q[i].frame \in Nat /\ Len(q[i].line) = q[i].frame
<1>1. Len(q) \in Nat /\ \A i \in 1..Len(q) : q[i] \in State
  BY ElementOfSeq
<1>2. \A x \in State : x.line \in Seq(Input) /\ x.frame \in Nat
  BY Constants DEF State
<1> QED BY <1>1, <1>2 DEF Coherent

-----------------------------------------------------------------------------
(* One frame forward. *)

\* Where a snapshot is stored.
LEMMA StoredWhere ==
    ASSUME NEW s \in Seq(State), OneEach(s), NEW f \in Frame, NEW line \in Seq(Input)
    PROVE  LET t == storeSnapshot(s, f, line)
               st == [frame |-> f, line |-> line]
           IN  /\ \A i \in 1..Len(s) : s[i].frame # f => t[i] = s[i]
               /\ \A i \in 1..Len(s) : s[i].frame = f => t[i] = st
               /\ \/ (\E p \in 1..Len(s) : s[p].frame = f) /\ Len(t) = Len(s)
                  \/ /\ \A p \in 1..Len(s) : s[p].frame # f
                     /\ Len(t) = Len(s) + 1 /\ t[Len(s) + 1] = st
<1> DEFINE st == [frame |-> f, line |-> line]
           t == storeSnapshot(s, f, line)
<1>0. st \in State /\ Len(s) \in Nat /\ s \in [1..Len(s) -> State]
  <2>1. st \in State
    BY DEF State
  <2> QED BY <2>1, LenProperties
<1>1. CASE \E i \in 1..Len(s) : s[i].frame = f
  <2>1. t = [i \in 1..Len(s) |-> IF s[i].frame = f THEN [s[i] EXCEPT !.line = line] ELSE s[i]]
    BY <1>1 DEF storeSnapshot
  <2>2. \A i \in 1..Len(s) : s[i].frame = f => [s[i] EXCEPT !.line = line] = st
    BY <1>0 DEF State
  <2>3. \A i \in 1..Len(s) : t[i] = IF s[i].frame = f THEN st ELSE s[i]
    BY <2>1, <2>2
  <2>4. t = [i \in 1..Len(s) |-> IF s[i].frame = f THEN st ELSE s[i]]
    BY <2>1, <2>2
  <2>5. Len(t) = Len(s)
    BY <1>0, <2>4
  <2> HIDE DEF t, st
  <2> QED BY <1>1, <2>3, <2>5 DEF t, st
<1>2. CASE ~ \E i \in 1..Len(s) : s[i].frame = f
  <2>1. t = Append(s, st)
    BY <1>2 DEF storeSnapshot
  <2>2. /\ Len(t) = Len(s) + 1 /\ t[Len(s) + 1] = st
        /\ \A i \in 1..Len(s) : t[i] = s[i]
    BY <1>0, <2>1, AppendProperties
  <2> HIDE DEF t, st
  <2> QED BY <1>2, <2>2 DEF t, st
<1> QED BY <1>1, <1>2

\* The state of a new frame goes into the buffer.
LEMMA WriteLeads ==
    ASSUME NEW q, Buffered(q), NEW line \in Seq(Input), LeadsTo(q, line),
           NEW l2 \in Seq(Input), Len(l2) = Len(line) + 1, Begins(line, l2),
           NEW st \in State, st.frame = Len(l2), st.line = l2
    PROVE  /\ LeadsTo(write(q, st), l2)
           /\ \E b \in 1..Len(write(q, st)) : write(q, st)[b].frame = Len(l2)
<1> DEFINE r == IF Len(q) = Capacity THEN Tail(q) ELSE q
           w == write(q, st)
<1>1. q \in Seq(State) /\ Len(q) \in Nat /\ Len(q) <= Capacity /\ Coherent(q)
  BY DEF Buffered
<1>2. \A i \in 1..Len(q) : /\ q[i].line \in Seq(Input) /\ q[i].frame \in Nat
                           /\ Len(q[i].line) = q[i].frame
  BY <1>1, StoredState
<1>3. PICK d \in {0, 1} : /\ r \in Seq(State) /\ Len(r) = Len(q) - d /\ Len(r) \in Nat
                          /\ \A i \in 1..Len(r) : r[i] = q[i + d]
  <2>1. CASE Len(q) = Capacity
    <3>1. q # <<>>
      BY <2>1, <1>1, Constants
    <3>2. r = Tail(q) /\ r \in Seq(State) /\ Len(r) = Len(q) - 1
          /\ \A i \in 1..Len(r) : r[i] = q[i + 1]
      BY <2>1, <1>1, <3>1, HeadTailProperties
    <3>3. Len(r) \in Nat
      BY <3>2
    <3> QED BY <3>2, <3>3
  <2>2. CASE Len(q) # Capacity
    <3>1. r = q
      BY <2>2
    <3> HIDE DEF r
    <3>2. \A i \in 1..Len(q) : i + 0 = i
      BY <1>1
    <3> QED BY <1>1, <3>1, <3>2
  <2> QED BY <2>1, <2>2
<1>4. w = Append(r, st)
  BY DEF write
<1> HIDE DEF r, w
<1>5. /\ Len(w) = Len(r) + 1 /\ w[Len(r) + 1] = st /\ \A i \in 1..Len(r) : w[i] = r[i]
  BY <1>3, <1>4, AppendProperties
<1>6. Len(line) \in Nat
  OBVIOUS
<1>7. ASSUME NEW i \in 1..Len(q)
      PROVE  /\ Begins(q[i].line, l2) /\ q[i].frame >= 1 /\ q[i].frame < Len(l2)
             /\ \A j \in 1..(i - 1) : q[j].frame < q[i].frame
  <2>1. Begins(q[i].line, line) /\ q[i].frame >= 1
        /\ \A j \in 1..(i - 1) : q[j].frame < q[i].frame
    BY DEF LeadsTo
  <2>2. q[i].frame <= Len(line)
    BY <1>2, <2>1 DEF Begins
  <2>3. Begins(q[i].line, l2)
    BY <1>2, <2>1, BeginsOn
  <2> QED BY <1>2, <1>6, <2>1, <2>2, <2>3
<1>8. ASSUME NEW i \in 1..Len(w)
      PROVE  /\ Begins(w[i].line, l2) /\ w[i].frame >= 1
             /\ \A j \in 1..(i - 1) : w[j].frame < w[i].frame
  <2>1. CASE i = Len(r) + 1
    <3>1. w[i] = st
      BY <1>5, <2>1
    <3>2. ASSUME NEW j \in 1..(i - 1) PROVE w[j].frame < w[i].frame
      <4>1. j \in 1..Len(r) /\ j + d \in 1..Len(q)
        BY <1>1, <1>3, <2>1
      <4>2. w[j] = q[j + d]
        BY <1>3, <1>5, <4>1
      <4> QED BY <1>7, <3>1, <4>1, <4>2
    <3>3. Begins(st.line, l2) /\ st.frame >= 1
      BY <1>6, BeginsSelf
    <3> QED BY <3>1, <3>2, <3>3
  <2>2. CASE i \in 1..Len(r)
    <3>1. i + d \in 1..Len(q) /\ w[i] = q[i + d]
      BY <1>1, <1>3, <1>5, <2>2
    <3>2. ASSUME NEW j \in 1..(i - 1) PROVE w[j].frame < w[i].frame
      <4>1. j \in 1..Len(r) /\ j + d \in 1..((i + d) - 1)
        BY <1>3, <2>2
      <4>2. w[j] = q[j + d]
        BY <1>3, <1>5, <4>1
      <4> QED BY <1>7, <3>1, <4>1, <4>2
    <3> QED BY <1>7, <3>1, <3>2
  <2> QED BY <1>3, <1>5, <2>1, <2>2
<1>9. \E b \in 1..Len(w) : w[b].frame = Len(l2)
  <2>1. Len(r) + 1 \in 1..Len(w)
    BY <1>3, <1>5
  <2> QED BY <1>5, <2>1
<1> QED BY <1>8, <1>9 DEF LeadsTo, w


\* The snapshots stay on the way when the console comes to the next frame, its
\* state is buffered and, where one is due, a snapshot is stored.
LEMMA ForwardOnTheWay ==
    ASSUME NEW s \in Seq(State), OneEach(s), Coherent(s),
           NEW q, NEW q2, NEW line \in Seq(Input), OnTheWay(s, q, line),
           NEW l2 \in Seq(Input), Len(l2) = Len(line) + 1, Begins(line, l2), Len(l2) \in Frame,
           \E b \in 1..Len(q2) : q2[b].frame = Len(l2),
           NEW t, t = s \/ t = storeSnapshot(s, Len(l2), l2)
    PROVE  OnTheWay(t, q2, l2)
<1> DEFINE g == Len(l2)
           st == [frame |-> g, line |-> l2]
<1>1. g \in Nat /\ Len(line) \in Nat /\ g = Len(line) + 1
  OBVIOUS
<1>2. /\ Len(s) \in Nat /\ Len(s) >= 1
      /\ \A i \in 1..Len(s) : /\ s[i].line \in Seq(Input) /\ s[i].frame \in Nat
                              /\ Len(s[i].line) = s[i].frame
  BY StoredState DEF OnTheWay
<1>3. PICK b \in 1..Len(q2) : q2[b].frame = g
  OBVIOUS
<1>4. ASSUME NEW i \in 2..Len(s)
      PROVE  /\ i \in 1..Len(s) /\ Begins(s[i].line, l2) /\ s[i].frame < g
             /\ \A p \in 2..(i - 1) : s[p].frame < s[i].frame
  <2>1. i \in 1..Len(s)
    BY <1>2
  <2>2. Begins(s[i].line, line) /\ \A p \in 2..(i - 1) : s[p].frame < s[i].frame
    BY DEF OnTheWay
  <2>3. s[i].frame <= Len(line)
    BY <1>2, <2>1, <2>2 DEF Begins
  <2>4. Begins(s[i].line, l2)
    BY <1>2, <2>1, <2>2, BeginsOn
  <2> QED BY <1>1, <1>2, <2>1, <2>2, <2>3, <2>4
<1>5. \/ Begins(s[1].line, l2) /\ s[1].frame < g
      \/ Overtaken(s)
  <2>1. CASE Begins(s[1].line, line)
    <3>1. 1 \in 1..Len(s)
      BY <1>2
    <3>2. s[1].frame <= Len(line)
      BY <1>2, <2>1, <3>1 DEF Begins
    <3>3. Begins(s[1].line, l2)
      BY <1>2, <2>1, <3>1, BeginsOn
    <3> QED BY <1>1, <1>2, <3>1, <3>2, <3>3
  <2> QED BY <2>1 DEF OnTheWay
<1>6. CASE t = s
  <2>1. ASSUME NEW i \in 2..Len(s)
        PROVE  \E c \in 1..Len(q2) : q2[c].frame >= s[i].frame
    BY <1>1, <1>2, <1>3, <1>4
  <2> QED BY <1>2, <1>4, <1>5, <1>6, <2>1 DEF OnTheWay
<1>7. CASE t = storeSnapshot(s, g, l2)
  <2>1. /\ \A i \in 1..Len(s) : s[i].frame # g => t[i] = s[i]
        /\ \A i \in 1..Len(s) : s[i].frame = g => t[i] = st
        /\ \/ (\E p \in 1..Len(s) : s[p].frame = g) /\ Len(t) = Len(s)
           \/ /\ \A p \in 1..Len(s) : s[p].frame # g
              /\ Len(t) = Len(s) + 1 /\ t[Len(s) + 1] = st
    <3>1. g \in Frame
      OBVIOUS
    <3> HIDE DEF g
    <3> QED BY <1>7, <3>1, StoredWhere
  <2>2. st.frame = g /\ st.line = l2
    OBVIOUS
  <2> HIDE DEF g, st
  <2>3. \A i \in 2..Len(s) : i \in 1..Len(s) /\ t[i] = s[i]
    BY <1>1, <1>2, <1>4, <2>1
  <2>4. 1 \in 1..Len(s) /\ t[1].frame = s[1].frame
    BY <1>2, <2>1, <2>2
  <2>5. Begins(t[1].line, l2) \/ Overtaken(t)
    <3>1. CASE Overtaken(s)
      <4>1. 2 \in 2..Len(s)
        BY <1>2, <3>1 DEF Overtaken
      <4>2. Len(t) >= 2
        BY <1>2, <2>1, <4>1
      <4> QED BY <2>3, <2>4, <3>1, <4>1, <4>2 DEF Overtaken
    <3>2. CASE Begins(s[1].line, l2) /\ s[1].frame < g
      <4>1. s[1].frame # g
        BY <1>1, <1>2, <2>4, <3>2
      <4> QED BY <2>1, <2>4, <3>2, <4>1
    <3> QED BY <1>5, <3>1, <3>2
  <2>6. ASSUME NEW i \in 2..Len(t)
        PROVE  /\ Begins(t[i].line, l2)
               /\ \A p \in 2..(i - 1) : t[p].frame < t[i].frame
               /\ \E c \in 1..Len(q2) : q2[c].frame >= t[i].frame
    <3>1. CASE i \in 2..Len(s)
      <4>1. \A p \in 2..(i - 1) : p \in 2..Len(s)
        BY <1>2, <3>1
      <4>2. q2[b].frame >= s[i].frame
        BY <1>1, <1>2, <1>3, <1>4, <3>1
      <4> QED BY <1>3, <1>4, <2>3, <3>1, <4>1, <4>2
    <3>2. CASE i \notin 2..Len(s)
      <4>1. i = Len(s) + 1 /\ t[i] = st
        BY <1>2, <2>1, <3>2
      <4>2. \A p \in 2..(i - 1) : p \in 2..Len(s)
        BY <1>2, <4>1
      <4>3. \A p \in 2..(i - 1) : t[p].frame < t[i].frame
        BY <1>4, <2>2, <2>3, <4>1, <4>2
      <4>4. Begins(t[i].line, l2)
        BY <2>2, <4>1, BeginsSelf
      <4>5. q2[b].frame >= t[i].frame
        BY <1>1, <1>3, <2>2, <4>1 DEF g
      <4> QED BY <1>3, <4>3, <4>4, <4>5
    <3> QED BY <3>1, <3>2
  <2>7. Len(t) >= 1
    BY <1>2, <2>1
  <2> QED BY <2>5, <2>6, <2>7 DEF OnTheWay
<1> QED BY <1>6, <1>7

\* So do they when a snapshot of the frame the console is at is stored.
LEMMA StayOnTheWay ==
    ASSUME NEW s \in Seq(State), OneEach(s), Coherent(s),
           NEW q, NEW line \in Seq(Input), OnTheWay(s, q, line), Len(line) \in Frame,
           \/ \E i \in 1..Len(s) : s[i].frame = Len(line)
           \/ \E b \in 1..Len(q) : q[b].frame >= Len(line),
           NEW t, t = s \/ t = storeSnapshot(s, Len(line), line)
    PROVE  OnTheWay(t, q, line)
<1> DEFINE g == Len(line)
           st == [frame |-> g, line |-> line]
<1>0. CASE t = s
  BY <1>0
<1> SUFFICES ASSUME t = storeSnapshot(s, g, line) PROVE OnTheWay(t, q, line)
  BY <1>0
<1>1. /\ \A i \in 1..Len(s) : s[i].frame # g => t[i] = s[i]
      /\ \A i \in 1..Len(s) : s[i].frame = g => t[i] = st
      /\ \/ (\E p \in 1..Len(s) : s[p].frame = g) /\ Len(t) = Len(s)
         \/ /\ \A p \in 1..Len(s) : s[p].frame # g
            /\ Len(t) = Len(s) + 1 /\ t[Len(s) + 1] = st
  BY StoredWhere
<1>2. /\ Len(s) \in Nat /\ Len(s) >= 1
      /\ \A i \in 1..Len(s) : /\ s[i] \in State /\ s[i].line \in Seq(Input) /\ s[i].frame \in Nat
                              /\ Len(s[i].line) = s[i].frame
  BY StoredState DEF OnTheWay
<1>3. st.frame = g /\ st.line = line /\ g \in Nat
  OBVIOUS
<1>4. (\E p \in 1..Len(s) : s[p].frame = g) \/ (\E b \in 1..Len(q) : q[b].frame >= g)
  OBVIOUS
<1> HIDE DEF g, st
<1>5. ASSUME NEW i \in 2..Len(s)
      PROVE  /\ i \in 1..Len(s) /\ t[i].line = s[i].line /\ t[i].frame = s[i].frame
             /\ Begins(s[i].line, line) /\ s[i].frame <= g
             /\ \A p \in 2..(i - 1) : s[p].frame < s[i].frame
             /\ (\E c \in 1..Len(q) : q[c].frame >= s[i].frame) \/ (i = 2 /\ Overtaken(s))
  <2>1. i \in 1..Len(s)
    BY <1>2
  <2>2. /\ Begins(s[i].line, line) /\ \A p \in 2..(i - 1) : s[p].frame < s[i].frame
        /\ (\E c \in 1..Len(q) : q[c].frame >= s[i].frame) \/ (i = 2 /\ Overtaken(s))
    BY DEF OnTheWay
  <2>3. s[i].frame <= g
    BY <1>2, <2>1, <2>2 DEF Begins, g
  <2>4. CASE s[i].frame = g
    <3>1. s[i].line = line
      BY <1>2, <2>1, <2>2, <2>4, BeginsEqual DEF g
    <3> QED BY <1>1, <1>3, <2>1, <2>2, <2>3, <2>4, <3>1
  <2>5. CASE s[i].frame # g
    BY <1>1, <2>1, <2>2, <2>3, <2>5
  <2> QED BY <2>4, <2>5
<1>6. 1 \in 1..Len(s) /\ t[1].frame = s[1].frame /\ Len(t) >= Len(s) /\ Len(t) \in Nat
  <2>1. 1 \in 1..Len(s)
    BY <1>2
  <2>2. t[1].frame = s[1].frame
    BY <1>1, <1>3, <2>1
  <2>3. Len(t) >= Len(s) /\ Len(t) \in Nat
    BY <1>1, <1>2
  <2> QED BY <2>1, <2>2, <2>3
<1>7. Overtaken(s) => Overtaken(t)
  <2> SUFFICES ASSUME Overtaken(s) PROVE Overtaken(t)
    OBVIOUS
  <2>1. 2 \in 2..Len(s) /\ Len(t) >= 2
    BY <1>2, <1>6 DEF Overtaken
  <2> QED BY <1>5, <1>6, <2>1 DEF Overtaken
<1>8. Begins(t[1].line, line) \/ Overtaken(t)
  <2>1. CASE Begins(s[1].line, line)
    <3>1. CASE s[1].frame = g
      BY <1>1, <1>3, <1>6, <3>1, BeginsSelf
    <3>2. CASE s[1].frame # g
      BY <1>1, <1>6, <2>1, <3>2
    <3> QED BY <3>1, <3>2
  <2> QED BY <1>7, <2>1 DEF OnTheWay
<1>9. ASSUME NEW i \in 2..Len(t)
      PROVE  /\ Begins(t[i].line, line)
             /\ \A p \in 2..(i - 1) : t[p].frame < t[i].frame
             /\ (\E c \in 1..Len(q) : q[c].frame >= t[i].frame) \/ (i = 2 /\ Overtaken(t))
  <2>1. CASE i \in 2..Len(s)
    <3>1. \A p \in 2..(i - 1) : p \in 2..Len(s)
      BY <1>2, <2>1
    <3>2. \A p \in 2..(i - 1) : t[p].frame < t[i].frame
      BY <1>5, <2>1, <3>1
    <3>3. Begins(t[i].line, line)
      BY <1>5, <2>1
    <3>4. (\E c \in 1..Len(q) : q[c].frame >= t[i].frame) \/ (i = 2 /\ Overtaken(t))
      BY <1>5, <1>7, <2>1
    <3> QED BY <3>2, <3>3, <3>4
  <2>2. CASE i \notin 2..Len(s)
    <3>1. i = Len(s) + 1 /\ t[i] = st /\ \A p \in 1..Len(s) : s[p].frame # g
      BY <1>1, <1>2, <2>2
    <3>2. \A p \in 2..(i - 1) : p \in 2..Len(s)
      BY <1>2, <3>1
    <3>3. ASSUME NEW p \in 2..(i - 1) PROVE t[p].frame < t[i].frame
      <4>1. p \in 2..Len(s)
        BY <3>2
      <4>2. p \in 1..Len(s) /\ t[p].frame = s[p].frame /\ s[p].frame <= g
        BY <1>5, <4>1
      <4> QED BY <1>2, <1>3, <3>1, <4>2
    <3>4. Begins(t[i].line, line)
      BY <1>3, <3>1, BeginsSelf
    <3>5. \E c \in 1..Len(q) : q[c].frame >= t[i].frame
      BY <1>3, <1>4, <3>1
    <3> QED BY <3>3, <3>4, <3>5
  <2> QED BY <2>1, <2>2
<1> QED BY <1>2, <1>6, <1>8, <1>9 DEF OnTheWay


-----------------------------------------------------------------------------
(* A seek. *)

\* bestSnapshotAtOrBefore takes the snapshot stored last.
LEMMA BestIsLast ==
    ASSUME NEW s \in Seq(State), NEW f \in 0..N, Usable(s, f) # {}
    PROVE  \E i \in 1..Len(s) : /\ bestSnapshotAtOrBefore(s, f) = s[i] /\ s[i].frame <= f
                                /\ \A j \in 1..Len(s) : s[j].frame <= f => j <= i
<1> DEFINE U == Usable(s, f)
<1>1. U \in SUBSET (0..Len(s)) /\ Len(s) \in Nat
  BY DEF Usable
<1>2. Max(U) \in U /\ \A y \in U : y <= Max(U)
  BY <1>1, MaxNat
<1>3. PICK i \in U : (i = CHOOSE x \in U : \A j \in U : j <= x) /\ \A j \in U : j <= i
  <2> HIDE DEF U
  <2> QED BY <1>2
<1>4. bestSnapshotAtOrBefore(s, f) = s[i]
  BY <1>3 DEF bestSnapshotAtOrBefore
<1>5. i \in 1..Len(s) /\ s[i].frame <= f /\ \A j \in 1..Len(s) : s[j].frame <= f => j <= i
  BY <1>3 DEF Usable
<1> QED BY <1>4, <1>5

\* A seek that starts behind every buffered state starts on the way: its
\* snapshot is neither one that was overtaken nor one before the newest.
LEMMA SeekStarts ==
    ASSUME EmuInv(emu), PbInv(pb), LeadsTo(emu.buffer, emu.line),
           OnTheWay(pb.snapshots, emu.buffer, emu.line) \/ BehindEnd(pb.snapshots, emu),
           NEW f \in 0..N, Usable(pb.snapshots, f) # {},
           NEW s, s = bestSnapshotAtOrBefore(pb.snapshots, f),
           \A i \in 1..Len(emu.buffer) : ~(emu.buffer[i].frame > s.frame)
    PROVE  LeadsTo(emu.buffer, s.line) /\ OnTheWay(pb.snapshots, emu.buffer, s.line)
<1> DEFINE sn == pb.snapshots
           buf == emu.buffer
           line == emu.line
<1>1. /\ sn \in Seq(State) /\ Coherent(sn) /\ buf \in Seq(State) /\ Coherent(buf)
      /\ line \in Seq(Input) /\ Len(line) = emu.frame /\ emu.frame \in Nat
  BY Constants DEF PbInv, PbType, EmuInv, EmuType, Buffered
<1>2. PICK i \in 1..Len(sn) : /\ s = sn[i] /\ sn[i].frame <= f
                              /\ \A j \in 1..Len(sn) : sn[j].frame <= f => j <= i
  BY <1>1, BestIsLast
<1>3. /\ Len(sn) \in Nat
      /\ \A j \in 1..Len(sn) : /\ sn[j].line \in Seq(Input) /\ sn[j].frame \in Nat
                               /\ Len(sn[j].line) = sn[j].frame
  BY <1>1, StoredState
<1>4. /\ Len(buf) \in Nat
      /\ \A j \in 1..Len(buf) : /\ buf[j].line \in Seq(Input) /\ buf[j].frame \in Nat
                                /\ Len(buf[j].line) = buf[j].frame
  BY <1>1, StoredState
<1>5. s.line \in Seq(Input) /\ s.frame \in Nat /\ Len(s.line) = s.frame
  BY <1>2, <1>3
<1>6. \A j \in 1..Len(buf) : buf[j].frame <= s.frame
  BY <1>4, <1>5
<1>7. CASE BehindEnd(sn, emu)
  <2>1. Len(sn) = 1 /\ emu.frame >= N /\ Begins(line, sn[1].line)
    BY <1>7 DEF BehindEnd
  <2>2. i = 1
    BY <2>1
  <2>3. Len(s.line) <= Len(line)
    BY <1>1, <1>2, <1>5, <2>1, Constants
  <2>4. line = s.line
    BY <1>1, <1>2, <1>5, <2>1, <2>2, <2>3, BeginsEqual
  <2>5. Begins(sn[1].line, s.line)
    BY <1>2, <1>5, <2>2, BeginsSelf
  <2>6. OnTheWay(sn, buf, s.line)
    BY <2>1, <2>5 DEF OnTheWay
  <2> QED BY <2>4, <2>6
<1>8. CASE OnTheWay(sn, buf, line)
  <2>1. ASSUME NEW q \in 2..Len(sn)
        PROVE  /\ q \in 1..Len(sn) /\ Begins(sn[q].line, line)
               /\ \A p \in 2..(q - 1) : sn[p].frame < sn[q].frame
               /\ (\E b \in 1..Len(buf) : buf[b].frame >= sn[q].frame) \/ (q = 2 /\ Overtaken(sn))
    BY <1>3, <1>8 DEF OnTheWay
  <2>2. ASSUME NEW q \in 2..Len(sn) PROVE sn[q].frame <= s.frame
    <3>1. CASE \E b \in 1..Len(buf) : buf[b].frame >= sn[q].frame
      <4>1. PICK b \in 1..Len(buf) : buf[b].frame >= sn[q].frame
        BY <3>1
      <4>2. buf[b].frame <= s.frame /\ buf[b].frame \in Nat
        BY <1>4, <1>6
      <4>3. sn[q].frame \in Nat /\ s.frame \in Nat
        BY <1>3, <1>5, <2>1
      <4> QED BY ONLY <4>1, <4>2, <4>3
    <3>2. CASE q = 2 /\ Overtaken(sn)
      <4>1. sn[2].frame < sn[1].frame
        BY <3>2 DEF Overtaken
      <4>2. CASE i = 1
        BY <1>2, <1>3, <2>1, <3>2, <4>1, <4>2
      <4>3. CASE i = 2
        BY <1>2, <1>3, <2>1, <3>2, <4>3
      <4>4. CASE i > 2
        <5>1. i \in 2..Len(sn) /\ 2 \in 2..(i - 1)
          BY <1>3, <4>4
        <5>2. sn[2].frame < sn[i].frame
          BY <2>1, <5>1
        <5> QED BY <1>2, <1>3, <2>1, <3>2, <5>2
      <4> QED BY <1>3, <4>2, <4>3, <4>4
    <3> QED BY <2>1, <3>1, <3>2
  <2>3. i = 1 => Len(sn) = 1
    <3> SUFFICES ASSUME i = 1, Len(sn) # 1 PROVE FALSE
      OBVIOUS
    <3> DEFINE z == Len(sn)
    <3>0. z \in Nat /\ z >= 1 /\ z # 1
      BY <1>3, <1>8 DEF OnTheWay
    <3> HIDE DEF z
    <3>a. 2 \in 2..z /\ 2 \in 1..z
      BY <3>0
    <3>1. 2 \in 2..Len(sn) /\ 2 \in 1..Len(sn)
      BY <3>a DEF z
    <3>2. sn[2].frame <= s.frame
      BY <2>2, <3>1
    <3>3. sn[2].frame <= f
      BY <1>2, <1>3, <3>1, <3>2
    <3> QED BY <1>2, <3>1, <3>3
  <2>4. Begins(s.line, line)
    <3>1. CASE i = 1
      <4>1. ~Overtaken(sn)
        BY <2>3, <3>1 DEF Overtaken
      <4> QED BY <1>2, <1>8, <3>1, <4>1 DEF OnTheWay
    <3>2. CASE i # 1
      <4>1. i \in 2..Len(sn)
        BY <1>3, <3>2
      <4> QED BY <1>2, <2>1, <4>1
    <3> QED BY <3>1, <3>2
  <2> HIDE DEF sn, buf, line
  <2>5. LeadsTo(buf, s.line)
    <3> SUFFICES ASSUME NEW j \in 1..Len(buf)
                 PROVE  /\ Begins(buf[j].line, s.line) /\ buf[j].frame >= 1
                        /\ \A p \in 1..(j - 1) : buf[p].frame < buf[j].frame
      BY DEF LeadsTo
    <3>1. Begins(buf[j].line, line) /\ buf[j].frame >= 1
          /\ \A p \in 1..(j - 1) : buf[p].frame < buf[j].frame
      BY DEF LeadsTo, buf, line
    <3>2. Begins(buf[j].line, s.line)
      BY <1>1, <1>4, <1>5, <1>6, <2>4, <3>1, BeginsShorter
    <3> QED BY <3>1, <3>2
  <2>6. ASSUME NEW q \in 2..Len(sn) PROVE Begins(sn[q].line, s.line)
    <3>1. q \in 1..Len(sn) /\ Begins(sn[q].line, line) /\ sn[q].frame <= s.frame
      BY <2>1, <2>2
    <3> QED BY <1>1, <1>3, <1>5, <2>4, <3>1, BeginsShorter
  <2>7. Begins(sn[1].line, s.line) \/ Overtaken(sn)
    <3> SUFFICES ASSUME ~Overtaken(sn) PROVE Begins(sn[1].line, s.line)
      OBVIOUS
    <3>1. CASE i = 1
      BY <1>2, <1>5, <3>1, BeginsSelf
    <3>2. CASE i # 1
      <4>1. 2 \in 2..Len(sn) /\ 1 \in 1..Len(sn) /\ 2 \in 1..Len(sn)
        BY <1>3, <3>2
      <4>2. sn[1].frame <= s.frame
        <5>1. sn[2].frame <= s.frame
          BY <2>2, <4>1
        <5>2. ~(sn[2].frame < sn[1].frame)
          BY <1>3, <4>1 DEF Overtaken
        <5> QED BY <1>3, <1>5, <4>1, <5>1, <5>2
      <4>3. Begins(sn[1].line, line)
        BY <1>8 DEF OnTheWay
      <4> QED BY <1>1, <1>3, <1>5, <2>4, <4>1, <4>2, <4>3, BeginsShorter
    <3> QED BY <3>1, <3>2
  <2>8. Len(sn) >= 1
    BY <1>8 DEF OnTheWay
  <2>9. OnTheWay(sn, buf, s.line)
    BY <2>1, <2>6, <2>7, <2>8 DEF OnTheWay
  <2> QED BY <2>5, <2>9 DEF sn, buf
<1> QED BY <1>7, <1>8

\* The inputs up to a frame of the seek.
LEMMA LineAtInputs ==
    ASSUME NEW s \in State, Len(s.line) = s.frame, NEW k \in Nat
    PROVE  /\ LineAt(s, s.frame + k) \in Seq(Input) /\ Len(LineAt(s, s.frame + k)) = s.frame + k
           /\ \A i \in 1..(s.frame + k) :
                 LineAt(s, s.frame + k)[i] = IF i <= s.frame THEN s.line[i] ELSE "Recorded"
<1> DEFINE a == s.line
           b == Prefix(k)
<1>1. a \in Seq(Input) /\ s.frame \in Nat /\ Len(a) = s.frame
  BY Constants DEF State
<1>2. b \in Seq(Input) /\ Len(b) = k /\ \A i \in 1..k : b[i] = "Recorded"
  BY PrefixSeq
<1>3. (s.frame + k) - s.frame = k
  BY <1>1
<1>4. LineAt(s, s.frame + k) = a \o b
  BY <1>3 DEF LineAt
<1> HIDE DEF a, b
<1>5. /\ a \o b \in Seq(Input) /\ Len(a \o b) = Len(a) + Len(b)
      /\ \A i \in 1..(Len(a) + Len(b)) : (a \o b)[i] = IF i <= Len(a) THEN a[i] ELSE b[i - Len(a)]
  <2>1. \A x, y \in Seq(Input) :
            /\ x \o y \in Seq(Input) /\ Len(x \o y) = Len(x) + Len(y)
            /\ \A i \in 1..(Len(x) + Len(y)) : (x \o y)[i] = IF i <= Len(x) THEN x[i] ELSE y[i - Len(x)]
    BY ConcatProperties
  <2> QED BY <1>1, <1>2, <2>1
<1>6. ASSUME NEW i \in 1..(s.frame + k)
      PROVE  (a \o b)[i] = IF i <= s.frame THEN a[i] ELSE "Recorded"
  <2>1. CASE i <= s.frame
    BY <1>1, <1>2, <1>5, <2>1
  <2>2. CASE ~(i <= s.frame)
    <3>1. i - s.frame \in 1..k
      BY <1>1, <2>2
    <3> QED BY <1>1, <1>2, <1>5, <2>2, <3>1
  <2> QED BY <2>1, <2>2
<1> QED BY <1>1, <1>2, <1>4, <1>5, <1>6 DEF a

LEMMA LineAtSteps ==
    ASSUME NEW s \in State, Len(s.line) = s.frame, NEW k \in Nat
    PROVE  /\ LineAt(s, s.frame + 0) = s.line
           /\ Begins(LineAt(s, s.frame + k), LineAt(s, s.frame + (k + 1)))
<1>1. s.line \in Seq(Input) /\ s.frame \in Nat
  BY Constants DEF State
<1> DEFINE L(j) == LineAt(s, s.frame + j)
<1>2. \A j \in Nat : /\ L(j) \in Seq(Input) /\ Len(L(j)) = s.frame + j
                     /\ \A i \in 1..(s.frame + j) :
                           L(j)[i] = IF i <= s.frame THEN s.line[i] ELSE "Recorded"
  BY LineAtInputs
<1>0. k + 1 \in Nat /\ 0 \in Nat
  OBVIOUS
<1> HIDE DEF L
<1>3. L(0) = s.line
  <2>1. L(0) \in Seq(Input) /\ Len(L(0)) = Len(s.line)
    BY <1>0, <1>1, <1>2
  <2>2. \A i \in 1..Len(L(0)) : L(0)[i] = s.line[i]
    <3> SUFFICES ASSUME NEW i \in 1..Len(L(0)) PROVE L(0)[i] = s.line[i]
      OBVIOUS
    <3>0. Len(L(0)) = s.frame
      BY <1>1, <2>1
    <3>1. i \in 1..(s.frame + 0) /\ i <= s.frame
      BY <1>1, <3>0
    <3> QED BY <1>0, <1>2, <3>1
  <2> QED BY <1>1, <2>1, <2>2, SeqEqual
<1>4. Begins(L(k), L(k + 1))
  <2>1. Len(L(k)) = s.frame + k /\ Len(L(k + 1)) = s.frame + (k + 1)
    BY <1>0, <1>2
  <2>2. ASSUME NEW i \in 1..(s.frame + k) PROVE L(k)[i] = L(k + 1)[i]
    <3>1. i \in 1..(s.frame + (k + 1))
      BY <1>1
    <3> QED BY <1>0, <1>2, <3>1
  <2>3. Len(L(k)) <= Len(L(k + 1))
    BY <1>1, <2>1
  <2> QED BY <2>1, <2>2, <2>3 DEF Begins
<1> QED BY <1>3, <1>4 DEF L


LEMMA FrameReadySnapshots ==
    ASSUME NEW b, PbInv(b), b.loaded, NEW f, NEW line
    PROVE  LET t == FrameReady(b, f, line).snapshots
           IN  /\ t = b.snapshots \/ t = storeSnapshot(b.snapshots, f, line)
               /\ f \in 1..(N - 1) => t = storeSnapshot(b.snapshots, f, line)
<1> DEFINE w == storeSnapshot(b.snapshots, f, line)
           u == IF shouldCaptureScheduledSnapshot(f) THEN w ELSE b.snapshots
           c == FrameReady(b, f, line)
<1>1. c = [b EXCEPT !.cursor = f, !.snapshots = u]
  BY DEF FrameReady
<1>2. b \in PbType
  BY DEF PbInv
<1> HIDE DEF u, w
<1>3. c.snapshots = u
  BY <1>1, <1>2 DEF PbType
<1> HIDE DEF c
<1>4. u = w \/ u = b.snapshots
  BY DEF u
<1>5. f \in 1..(N - 1) => u = w
  BY DEF u, shouldCaptureScheduledSnapshot
<1> QED BY <1>3, <1>4, <1>5 DEF c, w

\* The frames of a seek stay on the way.
LEMMA SeekFramesOnTheWay ==
    ASSUME PbInv(pb), pb.loaded, Buffered(emu.buffer),
           NEW s \in State, Len(s.line) = s.frame, NEW n \in Nat, s.frame + n \in 0..N,
           LeadsTo(emu.buffer, s.line), OnTheWay(pb.snapshots, emu.buffer, s.line),
           \E i \in 1..Len(pb.snapshots) : pb.snapshots[i].frame = s.frame
    PROVE  LET a == SeekFrames(s, n)
               l == LineAt(s, s.frame + n)
           IN  /\ LeadsTo(a.buffer, l) /\ OnTheWay(a.pb.snapshots, a.buffer, l)
               /\ \/ \E i \in 1..Len(a.pb.snapshots) : a.pb.snapshots[i].frame = s.frame + n
                  \/ \E b \in 1..Len(a.buffer) : a.buffer[b].frame >= s.frame + n
<1> DEFINE L(k) == LineAt(s, s.frame + k)
           Good(r, k) ==
             /\ PbInv(r.pb) /\ r.pb.loaded /\ Buffered(r.buffer)
             /\ LeadsTo(r.buffer, L(k)) /\ OnTheWay(r.pb.snapshots, r.buffer, L(k))
             /\ \/ \E i \in 1..Len(r.pb.snapshots) : r.pb.snapshots[i].frame = s.frame + k
                \/ \E b \in 1..Len(r.buffer) : r.buffer[b].frame >= s.frame + k
<1>0. s.frame \in Nat
  BY Constants DEF State
<1>1. PICK run : /\ SeekFrames(s, n) = run[n]
                 /\ run[0] = SeekBegins
                 /\ \A k \in 1..n : run[k] = SeekStep(run[k - 1], s, k)
  BY SeekFramesRun
<1>2. L(0) = s.line /\ \A k \in Nat : Begins(L(k), L(k + 1))
  BY LineAtSteps
<1>3. \A k \in Nat : L(k) \in Seq(Input) /\ Len(L(k)) = s.frame + k
  BY LineAtInputs
<1>a. \A k \in Nat : SeekState(s, k) = [frame |-> s.frame + k, line |-> L(k)]
  BY DEF SeekState
<1> HIDE DEF L
<1>4. Good(run[0], 0)
  <2>1. s.frame + 0 = s.frame
    BY <1>0
  <2>2. run[0].pb = pb /\ run[0].buffer = emu.buffer
    BY <1>1 DEF SeekBegins
  <2>3. LeadsTo(emu.buffer, L(0)) /\ OnTheWay(pb.snapshots, emu.buffer, L(0))
    BY <1>2
  <2>4. \E i \in 1..Len(pb.snapshots) : pb.snapshots[i].frame = s.frame + 0
    BY <2>1
  <2> QED BY <2>2, <2>3, <2>4, Zenon
<1>5. ASSUME NEW k \in 1..n, NEW r, Good(r, k - 1) PROVE Good(SeekStep(r, s, k), k)
  <2> DEFINE g == s.frame + k
             l == L(k)
             h == L(k - 1)
             x == SeekStep(r, s, k)
             st == SeekState(s, k)
  <2>1. k \in Nat /\ k - 1 \in Nat /\ (k - 1) + 1 = k /\ g \in 0..N
    BY <1>0, Constants
  <2>2. g \in Frame
    BY <2>1, Constants
  <2>3. /\ l \in Seq(Input) /\ Len(l) = g /\ h \in Seq(Input) /\ Len(l) = Len(h) + 1
        /\ Begins(h, l)
    <3>1. Len(l) = g /\ Len(h) = s.frame + (k - 1) /\ l \in Seq(Input) /\ h \in Seq(Input)
      BY <1>3, <2>1
    <3>2. Begins(h, l)
      BY <1>2, <2>1
    <3> QED BY <1>0, <2>1, <3>1, <3>2
  <2>4. st.frame = g /\ st.line = l /\ st \in State
    <3>1. st = [frame |-> g, line |-> l]
      BY <1>a, <2>1
    <3> HIDE DEF st, g, l
    <3> QED BY <2>2, <2>3, <3>1 DEF State
  <2>5. x.pb = FrameReady(r.pb, g, l) /\ x.buffer = write(r.buffer, st)
    BY <2>4 DEF SeekStep
  <2>6. /\ PbInv(r.pb) /\ r.pb.loaded /\ Buffered(r.buffer)
        /\ LeadsTo(r.buffer, h) /\ OnTheWay(r.pb.snapshots, r.buffer, h)
    BY <1>5
  <2>7. PbInv(x.pb) /\ x.pb.loaded
    <3> HIDE DEF g, l, x
    <3> DEFINE b == r.pb
               c == FrameReady(b, g, l)
    <3>1. PbInv(b) /\ x.pb = c /\ Len(l) = g /\ l \in Seq(Input)
      BY <2>3, <2>5, <2>6
    <3> HIDE DEF b
    <3>2. PbInv(c) /\ c.loaded = b.loaded
      BY <2>2, <3>1, FrameReadyKeeps
    <3> HIDE DEF c
    <3> QED BY <2>6, <3>1, <3>2 DEF b
  <2>8. Buffered(x.buffer)
    BY <2>3, <2>4, <2>5, <2>6, WriteKeeps
  <2>9. LeadsTo(x.buffer, l) /\ \E b \in 1..Len(x.buffer) : x.buffer[b].frame = Len(l)
    <3> HIDE DEF l, h, st, g
    <3> QED BY <2>3, <2>4, <2>5, <2>6, WriteLeads
  <2>10. x.pb.snapshots = r.pb.snapshots \/ x.pb.snapshots = storeSnapshot(r.pb.snapshots, g, l)
    BY <2>5, <2>6, FrameReadySnapshots
  <2>11. r.pb.snapshots \in Seq(State) /\ OneEach(r.pb.snapshots) /\ Coherent(r.pb.snapshots)
    BY <2>6 DEF PbInv, PbType
  <2>12. OnTheWay(x.pb.snapshots, x.buffer, l)
    <3> HIDE DEF l, h, x, g
    <3> QED BY <2>2, <2>3, <2>6, <2>9, <2>10, <2>11, ForwardOnTheWay
  <2>13. \E b \in 1..Len(x.buffer) : x.buffer[b].frame >= g
    <3> HIDE DEF l, x
    <3>1. g \in Nat /\ g >= g
      BY <2>1
    <3> QED BY <2>3, <2>9, <3>1
  <2> HIDE DEF x
  <2> QED BY <2>7, <2>8, <2>9, <2>12, <2>13 DEF x
<1> HIDE DEF Good
<1>6. Good(run[n], n)
  <2> DEFINE Bad == {k \in Nat : k <= n /\ ~Good(run[k], k)}
  <2> SUFFICES ASSUME Bad # {} PROVE FALSE
    OBVIOUS
  <2>1. Min(Bad) \in Bad /\ \A y \in Bad : Min(Bad) <= y
    BY MinNat
  <2>2. PICK m \in Bad : \A y \in Bad : m <= y
    BY <2>1
  <2>3. m # 0
    BY <1>4
  <2>4. m \in 1..n /\ m - 1 \in Nat /\ m - 1 <= n
    BY <2>3
  <2>5. Good(run[m - 1], m - 1)
    BY <2>2, <2>4
  <2>6. run[m] = SeekStep(run[m - 1], s, m)
    BY <1>1, <2>4
  <2> QED BY <1>5, <2>4, <2>5, <2>6
<1> QED BY <1>1, <1>6 DEF Good, L

-----------------------------------------------------------------------------
(* Rewinding. *)

\* The console goes back to the newest buffered state, which leaves the buffer
\* unless it is the last one.
LEMMA RewindsTo ==
    ASSUME NEW e, EmuInv(e), e.rewinding, e.buffer # <<>>
    PROVE  LET d == newFrame(e)
               n == Len(e.buffer)
           IN  /\ n \in Nat /\ n >= 1
               /\ d.frame = e.buffer[n].frame /\ d.line = e.buffer[n].line
               /\ Len(d.buffer) <= n /\ Len(d.buffer) \in Nat
               /\ \A i \in 1..Len(d.buffer) : d.buffer[i] = e.buffer[i]
<1> DEFINE q == e.buffer
           n == Len(q)
           rest == IF n > 1 THEN Front(q) ELSE q
           d == newFrame(e)
<1>1. e \in EmuType /\ q \in Seq(State)
  BY DEF EmuInv, EmuType
<1>2. n \in Nat /\ n >= 1
  BY <1>1, EmptySeq
<1>3. d = [e EXCEPT !.frame = Last(q).frame, !.line = Last(q).line, !.buffer = rest]
  BY DEF newFrame
<1>4. d.frame = q[n].frame /\ d.line = q[n].line /\ d.buffer = rest
  <2>1. Last(q) = q[n]
    BY DEF Last
  <2> HIDE DEF rest, q, n
  <2> QED BY <1>1, <1>3, <2>1 DEF EmuType
<1>5. /\ Len(rest) <= n /\ Len(rest) \in Nat /\ \A i \in 1..Len(rest) : rest[i] = q[i]
  <2>1. CASE n > 1
    <3> HIDE DEF q
    <3>1. Len(Front(q)) = n - 1 /\ \A i \in 1..(n - 1) : Front(q)[i] = q[i]
      BY <1>1, <1>2, <2>1 DEF Front
    <3>2. rest = Front(q)
      BY <2>1
    <3> HIDE DEF rest
    <3> QED BY <1>2, <2>1, <3>1, <3>2
  <2>2. CASE ~(n > 1)
    <3>1. rest = q
      BY <2>2
    <3> HIDE DEF rest, q
    <3> QED BY <1>2, <3>1
  <2> QED BY <2>1, <2>2
<1> QED BY <1>2, <1>4, <1>5

\* Without a buffered state, or not rewinding, the state of the new frame is
\* buffered and stays the console's.
LEMMA GoesForward ==
    ASSUME NEW e, EmuInv(e), ~e.rewinding \/ e.buffer = <<>>
    PROVE  LET d == newFrame(e)
           IN  /\ d.frame = e.frame /\ d.line = e.line
               /\ d.buffer = write(e.buffer, [frame |-> e.frame, line |-> e.line])
<1> DEFINE st == [frame |-> e.frame, line |-> e.line]
           w == write(e.buffer, st)
           d == newFrame(e)
<1>1. e \in EmuType /\ Buffered(e.buffer) /\ Len(e.line) = e.frame
  BY DEF EmuInv
<1>2. CASE ~e.rewinding
  <2>1. d = [e EXCEPT !.buffer = w]
    BY <1>2 DEF newFrame
  <2> HIDE DEF w
  <2> QED BY <1>1, <2>1 DEF EmuType, w
<1>3. CASE e.rewinding /\ e.buffer = <<>>
  <2>1. st \in State
    BY <1>1 DEF EmuType, State
  <2>2. w = <<st>>
    <3>1. e.buffer = <<>> /\ Len(e.buffer) = 0
      BY <1>3
    <3>2. Len(e.buffer) # Capacity
      BY <3>1, Constants
    <3> HIDE DEF st
    <3>3. write(e.buffer, st) = Append(e.buffer, st)
      BY <3>2 DEF write
    <3> QED BY <3>1, <3>3
  <2>3. d = [e EXCEPT !.frame = Last(w).frame, !.line = Last(w).line,
                      !.buffer = IF Len(w) > 1 THEN Front(w) ELSE w]
    BY <1>3 DEF newFrame
  <2>4. Len(w) = 1 /\ Last(w) = st
    <3> HIDE DEF st, w
    <3>1. Len(w) = 1 /\ w[1] = st
      BY <2>2
    <3> QED BY <3>1 DEF Last
  <2>5. d = [e EXCEPT !.frame = st.frame, !.line = st.line, !.buffer = w]
    <3> HIDE DEF w, st
    <3> QED BY <2>3, <2>4
  <2> HIDE DEF w
  <2> QED BY <1>1, <2>5 DEF EmuType, w
<1> QED BY <1>2, <1>3


-----------------------------------------------------------------------------
(* The worker. *)

\* A frame of a console that has an input and is not paused: the console before
\* Rewind::newFrame.
NextFrame(e) ==
    [e EXCEPT !.frame = e.frame + 1, !.next = {}, !.line = Append(e.line, CHOOSE i \in e.next : TRUE)]

LEMMA NextFrameKeeps ==
    ASSUME NEW e, EmuInv(e), e.frame < MaxFrame, ~(e.paused \/ e.next = {})
    PROVE  LET r == NextFrame(e)
           IN  /\ Emulated(e) = newFrame(r) /\ EmuInv(r)
               /\ r.frame = e.frame + 1 /\ r.frame \in Frame /\ r.next = {}
               /\ r.line \in Seq(Input) /\ Len(r.line) = Len(e.line) + 1 /\ Begins(e.line, r.line)
               /\ r.buffer = e.buffer /\ r.rewinding = e.rewinding
<1> DEFINE i == CHOOSE x \in e.next : TRUE
           r == NextFrame(e)
<1>1. e \in EmuType /\ Len(e.line) = e.frame /\ Buffered(e.buffer)
  BY DEF EmuInv
<1>2. Emulated(e) = newFrame(r)
  BY DEF Emulated, NextFrame
<1>3. i \in Input
  BY <1>1 DEF EmuType
<1>4. e.frame + 1 \in Frame /\ e.frame \in Nat /\ e.line \in Seq(Input)
  BY <1>1, Constants DEF EmuType, Frame
<1>5. r = [e EXCEPT !.frame = e.frame + 1, !.next = {}, !.line = Append(e.line, i)]
  BY DEF NextFrame
<1> HIDE DEF i, r
<1>6. Append(e.line, i) \in Seq(Input) /\ Len(Append(e.line, i)) = Len(e.line) + 1
      /\ Begins(e.line, Append(e.line, i))
  BY <1>3, <1>4, BeginsAppend
<1>7. r \in EmuType /\ r.frame = e.frame + 1 /\ r.next = {} /\ r.line = Append(e.line, i)
      /\ r.buffer = e.buffer /\ r.rewinding = e.rewinding
  BY <1>1, <1>4, <1>5, <1>6 DEF EmuType
<1>8. EmuInv(r)
  BY <1>1, <1>6, <1>7 DEF EmuInv
<1> QED BY <1>2, <1>4, <1>6, <1>7, <1>8 DEF r

\* An iteration of the worker, without what it does to the recording.
LEMMA WorkerIteration ==
    ASSUME IInv, WorkerAdvances
    PROVE  \E e \in Prepared :
             /\ emu' = Emulated(e) /\ emu.frame < MaxFrame
             /\ pb'.loaded = pb.loaded
             /\ emu'.frame = emu.frame => pb'.snapshots = pb.snapshots
             /\ (emu'.frame # emu.frame /\ ~(emu.next = {} /\ Blocked)) =>
                   pb'.snapshots = FrameReady(pb, emu'.frame, emu'.line).snapshots
             /\ app'.at = app.at
             /\ "sought" \in past' <=> "sought" \in past
<1> USE IInvParts
<1> DEFINE livesOf(e) == (e.next \ emu.next) \cap Live
<1>1. PICK e \in Prepared :
        /\ emu' = Emulated(e)
        /\ pb' = IF emu.next = {} /\ Blocked THEN [pb EXCEPT !.playing = FALSE, !.seeking = FALSE]
                 ELSE IF emu'.frame # emu.frame THEN FrameReady(pb, emu'.frame, emu'.line)
                 ELSE pb
        /\ app' = IF app.observing = "Recording" /\ livesOf(e) # {}
                  THEN [app EXCEPT !.frames =
                          appendRecordedFrame(app.frames, emu.frame, CHOOSE i \in livesOf(e) : TRUE)]
                  ELSE app
        /\ past' = past
             \cup (IF livesOf(e) # {} /\ ~pb.loaded /\ app.mode # "None" /\ app.observing # "Recording"
                   THEN {"unseen"} ELSE {})
             \cup (IF IsPrefix(emu'.line, emu.line \o SetToSeq(e.next))
                   THEN {} ELSE {"strayed"})
  BY Zenon DEF WorkerAdvances
<1>2. emu.frame < MaxFrame
  BY DEF WorkerAdvances
<1>3. app'.at = app.at
  BY <1>1 DEF AppType
<1>4. "sought" \in past' <=> "sought" \in past
  BY <1>1
<1>5. CASE emu.next = {} /\ Blocked
  <2>1. pb' = [pb EXCEPT !.playing = FALSE, !.seeking = FALSE]
    BY <1>1, <1>5
  <2>2. pb'.loaded = pb.loaded /\ pb'.snapshots = pb.snapshots
    BY <2>1 DEF PbType
  <2> QED BY <1>1, <1>2, <1>3, <1>4, <1>5, <2>2
<1>6. CASE ~(emu.next = {} /\ Blocked) /\ emu'.frame # emu.frame
  <2>1. pb' = FrameReady(pb, emu'.frame, emu'.line)
    BY <1>1, <1>6
  <2>2. EmuInv(e) /\ e.frame = emu.frame
    BY PreparedCases
  <2>3. EmuInv(emu')
    BY <1>1, <1>2, <2>2, EmulatedKeeps
  <2> DEFINE g == emu'.frame
             l == emu'.line
             c == FrameReady(pb, g, l)
  <2>4. g \in Frame /\ l \in Seq(Input) /\ Len(l) = g
    BY <2>3 DEF EmuInv, EmuType
  <2> HIDE DEF g, l
  <2>5. c.loaded = pb.loaded
    BY <2>4, FrameReadyKeeps
  <2>6. pb'.loaded = pb.loaded /\ pb'.snapshots = c.snapshots
    BY <2>1, <2>5 DEF g, l
  <2> QED BY <1>1, <1>2, <1>3, <1>4, <1>6, <2>6 DEF g, l
<1>7. CASE ~(emu.next = {} /\ Blocked) /\ emu'.frame = emu.frame
  <2>1. pb' = pb
    BY <1>1, <1>7
  <2> QED BY <1>1, <1>2, <1>3, <1>4, <1>7, <2>1
<1> QED BY <1>5, <1>6, <1>7


\* What an iteration does to the console: nothing but an input, a frame forward
\* or a frame back.
Stays ==
    /\ emu'.frame = emu.frame /\ emu'.line = emu.line /\ emu'.buffer = emu.buffer
    /\ \/ emu.next # {} /\ emu'.next = emu.next /\ emu'.rewinding = emu.rewinding
       \/ emu.next = {} /\ pb.loaded /\ emu'.next = {}
       \/ /\ emu.next = {} /\ pb.loaded /\ emu.frame < N
          /\ emu'.next = {"Recorded"} /\ ~emu'.rewinding
       \/ emu.next = {} /\ ~pb.loaded /\ emu'.next \subseteq Live
Forward ==
    /\ emu'.frame = emu.frame + 1 /\ emu'.next = {} /\ Begins(emu.line, emu'.line)
    /\ emu'.buffer = write(emu.buffer, [frame |-> emu'.frame, line |-> emu'.line])
    /\ pb.loaded => emu.next # {} \/ emu.frame < N
Back ==
    LET n == Len(emu.buffer)
    IN  /\ n \in Nat /\ n >= 1 /\ emu'.next = {}
        /\ emu'.frame = emu.buffer[n].frame /\ emu'.line = emu.buffer[n].line
        /\ Len(emu'.buffer) <= n /\ Len(emu'.buffer) \in Nat
        /\ \A i \in 1..Len(emu'.buffer) : emu'.buffer[i] = emu.buffer[i]
        /\ pb.loaded => emu.next # {} /\ emu.rewinding

LEMMA WorkerMoves ==
    ASSUME EmuInv(emu), pb \in PbType, emu.frame < MaxFrame,
           NEW e \in Prepared, emu' = Emulated(e)
    PROVE  Stays \/ Forward \/ Back
<1>1. /\ EmuInv(e)
      /\ e.frame = emu.frame /\ e.line = emu.line /\ e.buffer = emu.buffer
      /\ \/ emu.next # {} /\ e = emu
         \/ emu.next = {} /\ Blocked /\ pb.loaded /\ e.next = {}
         \/ /\ emu.next = {} /\ pb.loaded /\ ~Blocked /\ emu.frame < N
            /\ e.next = {"Recorded"} /\ ~e.rewinding
         \/ emu.next = {} /\ ~pb.loaded /\ ~Blocked /\ \E i \in Live : e.next = {i}
  BY PreparedCases
<1>2. CASE e.paused \/ e.next = {}
  <2>1. emu' = e
    BY <1>2 DEF Emulated
  <2>2. CASE emu.next # {} /\ e = emu
    BY <1>1, <2>1, <2>2 DEF Stays
  <2>3. CASE ~(emu.next # {} /\ e = emu)
    BY <1>1, <2>1, <2>3 DEF Stays
  <2> QED BY <2>2, <2>3
<1>3. CASE ~(e.paused \/ e.next = {})
  <2> DEFINE r == NextFrame(e)
  <2>1. /\ emu' = newFrame(r) /\ EmuInv(r)
        /\ r.frame = e.frame + 1 /\ r.next = {}
        /\ Begins(e.line, r.line)
        /\ r.buffer = e.buffer /\ r.rewinding = e.rewinding
    BY <1>1, <1>3, NextFrameKeeps
  <2> HIDE DEF r
  <2>2. emu'.next = {}
    BY <1>1, <1>3, EmulatedKeeps
  <2>3. CASE ~r.rewinding \/ r.buffer = <<>>
    <3>1. /\ emu'.frame = r.frame /\ emu'.line = r.line
          /\ emu'.buffer = write(r.buffer, [frame |-> r.frame, line |-> r.line])
      BY <2>1, <2>3, GoesForward
    <3>2. emu'.frame = emu.frame + 1 /\ Begins(emu.line, emu'.line)
          /\ emu'.buffer = write(emu.buffer, [frame |-> emu'.frame, line |-> emu'.line])
      BY <1>1, <2>1, <3>1
    <3>3. pb.loaded => emu.next # {} \/ emu.frame < N
      BY <1>1, <1>3
    <3> QED BY <2>2, <3>2, <3>3 DEF Forward
  <2>4. CASE r.rewinding /\ r.buffer # <<>>
    <3> DEFINE n == Len(emu.buffer)
    <3>1. /\ n \in Nat /\ n >= 1
          /\ emu'.frame = emu.buffer[n].frame /\ emu'.line = emu.buffer[n].line
          /\ Len(emu'.buffer) <= n /\ Len(emu'.buffer) \in Nat
          /\ \A i \in 1..Len(emu'.buffer) : emu'.buffer[i] = emu.buffer[i]
      BY <1>1, <2>1, <2>4, RewindsTo
    <3>2. pb.loaded => emu.next # {} /\ emu.rewinding
      BY <1>1, <1>3, <2>1, <2>4
    <3> QED BY <2>2, <3>1, <3>2 DEF Back
  <2> QED BY <2>3, <2>4
<1> QED BY <1>2, <1>3


\* The types of what the rewind buffer's invariant is about.
LEMMA RewindTypes ==
    ASSUME EmuInv(emu), PbInv(pb)
    PROVE  /\ pb.snapshots \in Seq(State) /\ OneEach(pb.snapshots) /\ Coherent(pb.snapshots)
           /\ emu.frame \in Frame /\ emu.frame \in Nat /\ emu.line \in Seq(Input)
           /\ Len(emu.line) = emu.frame /\ Buffered(emu.buffer)
           /\ emu.buffer \in Seq(State) /\ Coherent(emu.buffer)
           /\ emu.next \subseteq Input
BY Constants DEF EmuInv, PbInv, EmuType, PbType, Buffered

\* Going back keeps the buffer leading to the console's state.
LEMMA BackLeads ==
    ASSUME EmuInv(emu), PbInv(pb), LeadsTo(emu.buffer, emu.line), Back
    PROVE  /\ LeadsTo(emu'.buffer, emu'.line) /\ emu'.frame >= 1 /\ emu'.frame \in Nat
           /\ emu'.line \in Seq(Input) /\ Len(emu'.line) = emu'.frame
           /\ Begins(emu'.line, emu.line)
<1> DEFINE q == emu.buffer
           n == Len(q)
           m == Len(emu'.buffer)
<1>1. /\ n \in Nat /\ n >= 1
      /\ emu'.frame = q[n].frame /\ emu'.line = q[n].line
      /\ m <= n /\ m \in Nat /\ \A i \in 1..m : emu'.buffer[i] = q[i]
  BY DEF Back
<1>2. q \in Seq(State) /\ Coherent(q) /\ emu.line \in Seq(Input)
  BY RewindTypes
<1>3. \A i \in 1..n : /\ q[i].line \in Seq(Input) /\ q[i].frame \in Nat
                      /\ Len(q[i].line) = q[i].frame
  BY <1>2, StoredState
<1>4. \A i \in 1..n : /\ Begins(q[i].line, emu.line) /\ q[i].frame >= 1
                      /\ \A j \in 1..(i - 1) : q[j].frame < q[i].frame
  BY DEF LeadsTo
<1>5. n \in 1..n /\ \A i \in 1..m : i \in 1..n
  BY <1>1
<1> HIDE DEF q, n, m
<1>6. ASSUME NEW i \in 1..m
      PROVE  /\ Begins(emu'.buffer[i].line, emu'.line) /\ emu'.buffer[i].frame >= 1
             /\ \A j \in 1..(i - 1) : emu'.buffer[j].frame < emu'.buffer[i].frame
  <2>1. i \in 1..n /\ emu'.buffer[i] = q[i]
    BY <1>1, <1>5
  <2>2. q[i].frame <= q[n].frame
    <3>1. CASE i = n
      BY <1>3, <2>1, <3>1
    <3>2. CASE i # n
      <4>1. i \in 1..(n - 1)
        BY <1>1, <2>1, <3>2
      <4> QED BY <1>3, <1>4, <1>5, <2>1, <4>1
    <3> QED BY <3>1, <3>2
  <2>3. Len(q[i].line) <= Len(q[n].line)
    BY <1>3, <1>5, <2>1, <2>2
  <2>4. Begins(q[i].line, q[n].line)
    BY <1>2, <1>3, <1>4, <1>5, <2>1, <2>3, BeginsShorter
  <2>5. \A j \in 1..(i - 1) : emu'.buffer[j] = q[j]
    BY <1>1
  <2> QED BY <1>1, <1>4, <2>1, <2>4, <2>5
<1>7. LeadsTo(emu'.buffer, emu'.line)
  BY <1>6 DEF LeadsTo, m
<1> QED BY <1>1, <1>3, <1>4, <1>5, <1>7

\* The console of a loaded replay goes back only behind the state the replay was
\* loaded in, before any seek.
LEMMA BackOnTheWay ==
    ASSUME EmuInv(emu), PbInv(pb), LeadsTo(emu.buffer, emu.line), Back, pb.loaded,
           emu.next = {"Recorded"} => ~emu.rewinding,
           emu.next \cap Live # {} => Len(pb.snapshots) = 1 /\ emu.line = pb.snapshots[1].line,
           NEW t,
           emu'.frame = emu.frame => t = pb.snapshots,
           emu'.frame # emu.frame => t = FrameReady(pb, emu'.frame, emu'.line).snapshots
    PROVE  OnTheWay(t, emu'.buffer, emu'.line) \/ BehindEnd(t, emu')
<1> DEFINE sn == pb.snapshots
           j == emu'.frame
           l == emu'.line
<1>1. /\ j >= 1 /\ j \in Nat /\ l \in Seq(Input) /\ Len(l) = j /\ Begins(l, emu.line)
  BY BackLeads
<1>2. /\ sn \in Seq(State) /\ OneEach(sn) /\ Coherent(sn) /\ emu.line \in Seq(Input)
      /\ Len(emu.line) = emu.frame /\ emu.frame \in Frame /\ emu.frame \in Nat
  BY RewindTypes
<1>3. Len(sn) = 1 /\ emu.line = sn[1].line
  <2>1. emu.next # {} /\ emu.next \subseteq Input /\ \A x, y \in emu.next : x = y
    BY RewindTypes DEF Back, EmuInv
  <2>2. PICK x \in emu.next : emu.next = {x}
    BY <2>1
  <2>3. x # "Recorded"
    BY <2>2 DEF Back
  <2>4. x \in Live
    BY <2>1, <2>3 DEF Input
  <2> QED BY <2>4
<1>4. j <= emu.frame
  BY <1>1, <1>2 DEF Begins
<1>5. emu'.next = {}
  BY DEF Back
<1>6. CASE j = emu.frame
  <2>1. l = emu.line
    BY <1>1, <1>2, <1>6, BeginsEqual
  <2>2. t = sn
    BY <1>6
  <2>3. Begins(t[1].line, l) /\ Len(t) = 1
    BY <1>1, <1>3, <2>1, <2>2, BeginsSelf
  <2>4. \A q \in 2..Len(t) : FALSE
    BY <2>3
  <2> QED BY <2>3, <2>4 DEF OnTheWay
<1>7. CASE j # emu.frame
  <2>1. /\ t = sn \/ t = storeSnapshot(sn, j, l)
        /\ j \in 1..(N - 1) => t = storeSnapshot(sn, j, l)
    <3> DEFINE u == FrameReady(pb, j, l).snapshots
    <3>1. t = u
      BY <1>7
    <3>2. /\ u = sn \/ u = storeSnapshot(sn, j, l)
          /\ j \in 1..(N - 1) => u = storeSnapshot(sn, j, l)
      BY FrameReadySnapshots
    <3> QED BY <3>1, <3>2
  <2>2. CASE j \notin 1..(N - 1) /\ t = sn
    <3>1. j >= N
      BY <1>1, <2>2, Constants
    <3>2. Len(t) = 1 /\ Begins(l, t[1].line)
      BY <1>1, <1>3, <2>2
    <3> QED BY <1>5, <3>1, <3>2 DEF BehindEnd
  <2>3. CASE t = storeSnapshot(sn, j, l)
    <3> DEFINE st == [frame |-> j, line |-> l]
    <3>0. st.frame = j /\ st.line = l
      OBVIOUS
    <3>1. j \in Frame /\ 1 \in 1..Len(sn)
      BY <1>1, <1>2, <1>3, <1>4, Constants DEF Frame
    <3>2. sn[1].frame = emu.frame
      BY <1>2, <1>3, <3>1 DEF Coherent
    <3>3. \A p \in 1..Len(sn) : sn[p].frame # j
      BY <1>3, <1>7, <3>2
    <3>4. /\ \A i \in 1..Len(sn) : sn[i].frame # j => t[i] = sn[i]
          /\ \/ (\E p \in 1..Len(sn) : sn[p].frame = j) /\ Len(t) = Len(sn)
             \/ Len(t) = Len(sn) + 1 /\ t[Len(sn) + 1] = st
      <4> HIDE DEF j, l, sn
      <4> QED BY <1>1, <1>2, <2>3, <3>1, StoredWhere
    <3> HIDE DEF st, j, l, sn
    <3>5. Len(t) = 2 /\ t[1] = sn[1] /\ t[2] = st
      BY <1>3, <3>1, <3>3, <3>4
    <3>6. Overtaken(t)
      BY <1>1, <1>2, <1>4, <1>7, <3>0, <3>2, <3>5 DEF Overtaken
    <3>7. Begins(t[2].line, l)
      BY <1>1, <3>0, <3>5, BeginsSelf
    <3>8. \A q \in 2..Len(t) : q = 2
      BY <3>5
    <3>9. \A p \in 2..(2 - 1) : FALSE
      OBVIOUS
    <3>10. OnTheWay(t, emu'.buffer, l)
      BY <3>5, <3>6, <3>7, <3>8, <3>9 DEF OnTheWay
    <3> QED BY <3>10 DEF l
  <2> QED BY <2>1, <2>2, <2>3
<1> QED BY <1>6, <1>7


LEMMA WorkerRewinds ==
    ASSUME IInv, RewindInv, WorkerAdvances
    PROVE  RewindInv'
<1> USE IInvParts
<1>1. PICK e \in Prepared :
        /\ emu' = Emulated(e) /\ emu.frame < MaxFrame
        /\ pb'.loaded = pb.loaded
        /\ emu'.frame = emu.frame => pb'.snapshots = pb.snapshots
        /\ (emu'.frame # emu.frame /\ ~(emu.next = {} /\ Blocked)) =>
              pb'.snapshots = FrameReady(pb, emu'.frame, emu'.line).snapshots
        /\ app'.at = app.at
        /\ "sought" \in past' <=> "sought" \in past
  BY WorkerIteration
<1>2. Stays \/ Forward \/ Back
  BY <1>1, WorkerMoves
<1>3. emu'.frame # emu.frame => pb'.snapshots = FrameReady(pb, emu'.frame, emu'.line).snapshots
  <2> SUFFICES ASSUME emu.next = {}, Blocked PROVE emu'.frame = emu.frame
    BY <1>1
  <2>1. e.next = {} /\ e.frame = emu.frame
    BY <1>1, PreparedCases
  <2> QED BY <1>1, <2>1 DEF Emulated
<1>4. EmuInv(emu')
  <2>1. EmuInv(e) /\ e.frame = emu.frame
    BY PreparedCases
  <2> QED BY <1>1, <2>1, EmulatedKeeps
<1>5. /\ emu'.frame \in Frame /\ emu'.frame \in Nat /\ emu'.line \in Seq(Input)
      /\ Len(emu'.line) = emu'.frame
  BY <1>4, Constants DEF EmuInv, EmuType
<1>6. /\ pb.snapshots \in Seq(State) /\ OneEach(pb.snapshots) /\ Coherent(pb.snapshots)
      /\ emu.frame \in Nat /\ emu.line \in Seq(Input) /\ Len(emu.line) = emu.frame
      /\ Buffered(emu.buffer)
  BY RewindTypes
<1>7. /\ "sought" \notin past => LeadsTo(emu.buffer, emu.line)
      /\ (pb.loaded /\ "sought" \notin past) =>
            OnTheWay(pb.snapshots, emu.buffer, emu.line) \/ BehindEnd(pb.snapshots, emu)
      /\ pb.loaded /\ emu.next = {"Recorded"} => ~emu.rewinding /\ emu.frame < N
      /\ pb.loaded /\ emu.next \cap Live # {} =>
            Len(pb.snapshots) = 1 /\ emu.line = pb.snapshots[1].line
      /\ app.at = "reopened" => emu.next \subseteq Live /\ ~pb.loaded
  BY DEF RewindInv, SessionInv
<1>8. ASSUME "sought" \notin past
      PROVE  /\ LeadsTo(emu'.buffer, emu'.line)
             /\ pb.loaded => OnTheWay(pb'.snapshots, emu'.buffer, emu'.line)
                             \/ BehindEnd(pb'.snapshots, emu')
  <2>1. CASE Stays
    <3>1. emu'.frame = emu.frame /\ emu'.line = emu.line /\ emu'.buffer = emu.buffer
          /\ pb'.snapshots = pb.snapshots
      BY <1>1, <2>1 DEF Stays
    <3>2. LeadsTo(emu'.buffer, emu'.line)
      BY <1>7, <1>8, <3>1
    <3>3. ASSUME pb.loaded, BehindEnd(pb.snapshots, emu) PROVE BehindEnd(pb'.snapshots, emu')
      <4>1. emu.next = {} /\ emu.frame >= N
        BY <3>3 DEF BehindEnd
      <4>2. emu'.next = {}
        BY <1>6, <2>1, <3>3, <4>1, Constants DEF Stays
      <4> QED BY <3>1, <3>3, <4>2 DEF BehindEnd
    <3> QED BY <1>7, <1>8, <3>1, <3>2, <3>3
  <2>2. CASE Forward
    <3> DEFINE l == emu'.line
               st == [frame |-> emu'.frame, line |-> l]
    <3>1. /\ emu'.frame = emu.frame + 1 /\ Begins(emu.line, l)
          /\ emu'.buffer = write(emu.buffer, st)
          /\ pb.loaded => emu.next # {} \/ emu.frame < N
      BY <2>2 DEF Forward
    <3>2. st \in State /\ st.frame = Len(l) /\ st.line = l /\ Len(l) = Len(emu.line) + 1
      BY <1>5, <1>6, <3>1 DEF State
    <3> HIDE DEF st
    <3>3. /\ LeadsTo(emu'.buffer, l)
          /\ \E b \in 1..Len(emu'.buffer) : emu'.buffer[b].frame = Len(l)
      <4>1. l \in Seq(Input) /\ LeadsTo(emu.buffer, emu.line)
        BY <1>5, <1>7, <1>8
      <4> DEFINE q == emu.buffer
                 h == emu.line
      <4>2. /\ Buffered(q) /\ LeadsTo(q, h) /\ emu'.buffer = write(q, st) /\ h \in Seq(Input)
            /\ Len(l) = Len(h) + 1 /\ Begins(h, l)
        BY <1>6, <3>1, <3>2, <4>1
      <4> HIDE DEF l, q, h
      <4>3. LeadsTo(write(q, st), l) /\ \E b \in 1..Len(write(q, st)) : write(q, st)[b].frame = Len(l)
        BY ONLY <3>2, <4>1, <4>2, WriteLeads
      <4> QED BY <4>2, <4>3
    <3>4. ASSUME pb.loaded PROVE OnTheWay(pb'.snapshots, emu'.buffer, l)
      <4>1. ~BehindEnd(pb.snapshots, emu)
        BY <1>6, <3>1, <3>4, Constants DEF BehindEnd
      <4>2. OnTheWay(pb.snapshots, emu.buffer, emu.line)
        BY <1>7, <1>8, <3>4, <4>1
      <4>3. emu'.frame # emu.frame
        BY <1>6, <3>1
      <4>4. pb'.snapshots = pb.snapshots \/ pb'.snapshots = storeSnapshot(pb.snapshots, Len(l), l)
        BY <1>3, <1>5, <3>4, <4>3, FrameReadySnapshots
      <4>5. Len(l) \in Frame
        BY <1>5
      <4> HIDE DEF l
      <4> QED BY <1>5, <1>6, <3>1, <3>2, <3>3, <4>2, <4>4, <4>5, ForwardOnTheWay DEF l
    <3> QED BY <3>3, <3>4
  <2>3. CASE Back
    <3>1. LeadsTo(emu'.buffer, emu'.line)
      BY <1>7, <1>8, <2>3, BackLeads
    <3>2. ASSUME pb.loaded
          PROVE  OnTheWay(pb'.snapshots, emu'.buffer, emu'.line) \/ BehindEnd(pb'.snapshots, emu')
      <4> DEFINE t == pb'.snapshots
      <4>1. /\ emu'.frame = emu.frame => t = pb.snapshots
            /\ emu'.frame # emu.frame => t = FrameReady(pb, emu'.frame, emu'.line).snapshots
        BY <1>1, <1>3
      <4>2. /\ LeadsTo(emu.buffer, emu.line) /\ (emu.next = {"Recorded"} => ~emu.rewinding)
            /\ (emu.next \cap Live # {} =>
                  Len(pb.snapshots) = 1 /\ emu.line = pb.snapshots[1].line)
        BY <1>7, <1>8, <3>2
      <4> HIDE DEF t
      <4> QED BY <2>3, <3>2, <4>1, <4>2, BackOnTheWay DEF t
    <3> QED BY <3>1, <3>2
  <2> QED BY <1>2, <2>1, <2>2, <2>3
<1>9. ASSUME pb.loaded
      PROVE  /\ emu'.next = {"Recorded"} => ~emu'.rewinding /\ emu'.frame < N
             /\ emu'.next \cap Live # {} =>
                   Len(pb'.snapshots) = 1 /\ emu'.line = pb'.snapshots[1].line
  <2>1. CASE Stays
    <3>1. emu'.frame = emu.frame /\ emu'.line = emu.line /\ pb'.snapshots = pb.snapshots
      BY <1>1, <2>1 DEF Stays
    <3>2. {"Recorded"} \cap Live = {}
      BY ReplayAssumption
    <3>3. CASE emu'.next = emu.next /\ emu'.rewinding = emu.rewinding
      BY <1>7, <1>9, <3>1, <3>3
    <3>4. CASE emu'.next = {}
      BY <3>4
    <3>5. CASE emu.frame < N /\ emu'.next = {"Recorded"} /\ ~emu'.rewinding
      BY <3>1, <3>2, <3>5
    <3> QED BY <1>9, <2>1, <3>3, <3>4, <3>5 DEF Stays
  <2>2. CASE emu'.next = {}
    BY <2>2
  <2> QED BY <1>2, <2>1, <2>2 DEF Forward, Back
<1>10. ASSUME app'.at = "reopened" PROVE emu'.next \subseteq Live
  <2>1. app.at = "reopened"
    BY <1>1, <1>10
  <2> QED BY <1>2, <1>7, <2>1 DEF Stays, Forward, Back
<1>11. ("sought" \notin past' => "sought" \notin past) /\ (pb'.loaded => pb.loaded)
  BY <1>1
<1> QED BY <1>8, <1>9, <1>10, <1>11 DEF RewindInv


\* A seek that runs leaves what it emulated in the buffer.
LEMMA SeekRewinds ==
    ASSUME IInv, RewindInv, NEW f \in 0..N, SeekRuns(f), app' = app
    PROVE  RewindInv'
<1> USE IInvParts
<1> DEFINE s == bestSnapshotAtOrBefore(pb.snapshots, f)
           n == f - s.frame
           a == SeekFrames(s, n)
           l == LineAt(s, f)
           c == FrameReady(a.pb, f, l)
<1>1. /\ Usable(pb.snapshots, f) # {}
      /\ emu' = [frame |-> f, line |-> l, paused |-> TRUE, next |-> {},
                 rewinding |-> emu.rewinding /\ s.frame = f, buffer |-> a.buffer]
      /\ pb' = [c EXCEPT !.playing = FALSE, !.seeking = FALSE, !.ok = TRUE]
      /\ past' = IF \E i \in 1..Len(emu.buffer) : emu.buffer[i].frame > s.frame
                 THEN past \cup {"sought"} ELSE past
  BY DEF SeekRuns
<1>2. pb.snapshots \in Seq(State) /\ Coherent(pb.snapshots)
  BY RewindTypes
<1>3. PICK i \in 1..Len(pb.snapshots) : s = pb.snapshots[i] /\ pb.snapshots[i].frame <= f
  BY <1>1, <1>2, BestSnapshot
<1>4. pb.loaded
  <2> SUFFICES ASSUME ~pb.loaded PROVE FALSE
    OBVIOUS
  <2>1. pb.snapshots = <<>>
    BY DEF SessionInv
  <2> QED BY <1>3, <2>1
<1>5. app'.at # "reopened"
  BY <1>4 DEF SessionInv
<1>6. emu'.next = {} /\ emu'.line = l /\ emu'.buffer = a.buffer
  <2> HIDE DEF s, a, l
  <2> QED BY <1>1
<1>7. ASSUME "sought" \notin past'
      PROVE  /\ LeadsTo(emu'.buffer, emu'.line)
             /\ OnTheWay(pb'.snapshots, emu'.buffer, emu'.line)
  <2>1. "sought" \notin past /\ \A j \in 1..Len(emu.buffer) : ~(emu.buffer[j].frame > s.frame)
    <3> HIDE DEF s
    <3> QED BY <1>1, <1>7
  <2>2. /\ LeadsTo(emu.buffer, emu.line)
        /\ OnTheWay(pb.snapshots, emu.buffer, emu.line) \/ BehindEnd(pb.snapshots, emu)
    BY <1>4, <2>1 DEF RewindInv
  <2>3. LeadsTo(emu.buffer, s.line) /\ OnTheWay(pb.snapshots, emu.buffer, s.line)
    BY <1>1, <2>1, <2>2, SeekStarts
  <2>4. s \in State /\ Len(s.line) = s.frame /\ s.frame <= f
    <3> HIDE DEF s
    <3> QED BY <1>2, <1>3 DEF Coherent
  <2>a. \E j \in 1..Len(pb.snapshots) : pb.snapshots[j].frame = s.frame
    BY <1>3
  <2> HIDE DEF s
  <2>5. n \in Nat /\ s.frame + n = f /\ f \in Frame /\ s.frame + n \in 0..N
    <3>1. s.frame \in Nat
      BY <2>4, Constants DEF State
    <3> QED BY <2>4, <3>1, Constants
  <2>6. l \in Seq(Input) /\ Len(l) = f
    BY <2>4, <2>5, SeekStateKeeps
  <2>7. PbInv(pb) /\ Buffered(emu.buffer)
    BY DEF EmuInv
  <2> HIDE DEF n
  <2>8. PbInv(a.pb) /\ a.pb.loaded
    BY <1>4, <2>4, <2>5, <2>7, SeekFramesKeep
  <2>9. /\ LeadsTo(a.buffer, l) /\ OnTheWay(a.pb.snapshots, a.buffer, l)
        /\ \/ \E j \in 1..Len(a.pb.snapshots) : a.pb.snapshots[j].frame = f
           \/ \E b \in 1..Len(a.buffer) : a.buffer[b].frame >= f
    BY <1>4, <2>3, <2>4, <2>a, <2>5, <2>7, SeekFramesOnTheWay
  <2> HIDE DEF a, l
  <2>10. c.snapshots = a.pb.snapshots \/ c.snapshots = storeSnapshot(a.pb.snapshots, f, l)
    <3> DEFINE b == a.pb
    <3>1. PbInv(b) /\ b.loaded
      BY <2>8
    <3> HIDE DEF b
    <3>2. FrameReady(b, f, l).snapshots = b.snapshots
          \/ FrameReady(b, f, l).snapshots = storeSnapshot(b.snapshots, f, l)
      BY <3>1, FrameReadySnapshots
    <3> QED BY <3>2 DEF b
  <2>11. a.pb.snapshots \in Seq(State) /\ OneEach(a.pb.snapshots) /\ Coherent(a.pb.snapshots)
    BY <2>8 DEF PbInv, PbType
  <2>12. pb'.snapshots = c.snapshots
    <3>1. PbInv(c)
      BY <2>5, <2>6, <2>8, FrameReadyKeeps
    <3>2. c \in PbType
      BY <3>1 DEF PbInv
    <3> HIDE DEF c
    <3> QED BY <1>1, <3>2 DEF PbType
  <2>13. OnTheWay(pb'.snapshots, a.buffer, l)
    <3> DEFINE t == pb'.snapshots
               u == a.pb.snapshots
               q == a.buffer
    <3>1. /\ u \in Seq(State) /\ OneEach(u) /\ Coherent(u) /\ OnTheWay(u, q, l)
          /\ t = u \/ t = storeSnapshot(u, f, l)
          /\ \/ \E j \in 1..Len(u) : u[j].frame = f
             \/ \E b \in 1..Len(q) : q[b].frame >= f
      BY <2>9, <2>10, <2>11, <2>12
    <3> HIDE DEF t, u, q
    <3>2. OnTheWay(t, q, l)
      BY <2>5, <2>6, <3>1, StayOnTheWay
    <3> QED BY <3>2 DEF t, q
  <2> QED BY <1>6, <2>9, <2>13
<1>8. emu'.next # {"Recorded"} /\ emu'.next \cap Live = {}
  BY <1>6
<1> QED BY <1>5, <1>7, <1>8 DEF RewindInv

-----------------------------------------------------------------------------
(* The steps that leave the console where it is. *)

LEMMA QuietRewinds ==
    ASSUME RewindInv,
           emu'.frame = emu.frame, emu'.line = emu.line, emu'.next = emu.next,
           emu'.rewinding = emu.rewinding, emu'.buffer = emu.buffer,
           pb'.loaded => pb.loaded, pb'.loaded => pb'.snapshots = pb.snapshots,
           past' = past, app'.at = app.at \/ app'.at # "reopened"
    PROVE  RewindInv'
<1>1. ASSUME pb'.loaded, BehindEnd(pb.snapshots, emu) PROVE BehindEnd(pb'.snapshots, emu')
  BY <1>1 DEF BehindEnd
<1> QED BY <1>1 DEF RewindInv

\* A console that was just switched on has nothing to rewind to.
LEMMA PoweredOnRewinds ==
    ASSUME emu' = PoweredOn, ~pb'.loaded
    PROVE  RewindInv'
<1>1. emu'.buffer = <<>> /\ emu'.next = {}
  BY DEF PoweredOn
<1>2. \A i \in 1..Len(emu'.buffer) : FALSE
  BY <1>1
<1> QED BY <1>1, <1>2 DEF RewindInv, LeadsTo

\* The replay is loaded in the state the console has come to.
LEMMA LoadRewinds ==
    ASSUME IInv, RewindInv, LoadReplay
    PROVE  RewindInv'
<1> USE IInvParts
<1>1. /\ app.at = "reopened" /\ app' = [app EXCEPT !.at = "loaded"]
      /\ pb' = [clearReplayPlayback(pb) EXCEPT !.loaded = TRUE, !.cursor = emu.frame,
                   !.snapshots = <<[frame |-> emu.frame, line |-> emu.line]>>]
      /\ emu' = emu /\ past' = past
  BY DEF LoadReplay
<1>2. app'.at # "reopened"
  BY <1>1 DEF AppType
<1> DEFINE st == [frame |-> emu.frame, line |-> emu.line]
<1>3. st.line = emu.line
  OBVIOUS
<1>4. pb'.snapshots = <<st>>
  BY <1>1 DEF clearReplayPlayback, NoReplay
<1> HIDE DEF st
<1>5. Len(pb'.snapshots) = 1 /\ pb'.snapshots[1].line = emu.line
  BY <1>3, <1>4
<1>6. OnTheWay(pb'.snapshots, emu.buffer, emu.line)
  <2>1. Begins(emu.line, emu.line)
    BY RewindTypes, BeginsSelf
  <2>2. \A q \in 2..Len(pb'.snapshots) : FALSE
    BY <1>5
  <2> QED BY <1>5, <2>1, <2>2 DEF OnTheWay
<1>7. emu.next # {"Recorded"}
  <2>1. emu.next \subseteq Live
    BY <1>1 DEF RewindInv
  <2> QED BY <2>1, ReplayAssumption
<1>8. "sought" \notin past => LeadsTo(emu.buffer, emu.line)
  BY DEF RewindInv
<1> QED BY <1>1, <1>2, <1>5, <1>6, <1>7, <1>8 DEF RewindInv


LEMMA QuietStepsRewind ==
    ASSUME IInv, RewindInv,
           Play \/ Pause \/ Stop \/ TogglePause \/ (\E f \in 0..N : Seek(f)) \/ SeekAfterLoad
           \/ SyncPlays \/ SyncForgets \/ SyncSeesRunning \/ SyncToggles \/ MainLoopPaces
           \/ OpenMismatch \/ ObserveRecording \/ Close \/ StopRecording \/ ContinueRecording
    PROVE  RewindInv'
<1> USE IInvParts
<1> DEFINE SameConsole ==
             /\ emu'.frame = emu.frame /\ emu'.line = emu.line /\ emu'.next = emu.next
             /\ emu'.rewinding = emu.rewinding /\ emu'.buffer = emu.buffer
           SameReplay == (pb'.loaded => pb.loaded) /\ (pb'.loaded => pb'.snapshots = pb.snapshots)
           SamePlace == app'.at = app.at \/ app'.at # "reopened"
<1>1. SameConsole /\ past' = past
  <2>1. CASE emu' = emu
    BY <2>1 DEF Play, Pause, Stop, TogglePause, Seek, SeekAfterLoad, SyncPlays, SyncForgets,
                SyncSeesRunning, SyncToggles, MainLoopPaces, OpenMismatch, ObserveRecording, Close,
                StopRecording, ContinueRecording
  <2>2. CASE Play \/ Pause \/ SyncPlays
    <3>1. PICK p \in BOOLEAN : emu' = [emu EXCEPT !.paused = p] /\ past' = past
      BY <2>2 DEF Play, Pause, SyncPlays, replayPlay
    <3> QED BY <3>1 DEF EmuType
  <2> QED BY <2>1, <2>2 DEF Stop, TogglePause, Seek, SeekAfterLoad, SyncForgets,
                SyncSeesRunning, SyncToggles, MainLoopPaces, OpenMismatch, ObserveRecording, Close,
                StopRecording, ContinueRecording
<1>2. SameReplay
  <2>1. CASE pb' = pb
    BY <2>1
  <2>2. CASE pb' # pb
              /\ (Play \/ Pause \/ Stop \/ (\E f \in 0..N : Seek(f)) \/ SeekAfterLoad \/ SyncPlays)
    <3>1. PICK p, k, o, c : pb' = [pb EXCEPT !.playing = p, !.seeking = k, !.ok = o, !.cursor = c]
      <4>1. pb = [pb EXCEPT !.cursor = pb.cursor]
        BY DEF PbType
      <4>2. CASE Pause
        BY <4>2 DEF Pause
      <4>3. CASE ~Pause
        <5>1. PICK p, k, o : pb' = [pb EXCEPT !.playing = p, !.seeking = k, !.ok = o]
          <6>1. CASE pb' = [pb EXCEPT !.playing = FALSE, !.seeking = TRUE, !.ok = TRUE]
            BY <6>1
          <6>2. CASE pb' = [pb EXCEPT !.playing = TRUE, !.seeking = FALSE, !.ok = TRUE]
            BY <6>2
          <6> QED BY <2>2, <4>3, <6>1, <6>2
                  DEF Play, Stop, Seek, SeekAfterLoad, SyncPlays, replayPlay, StartSeek
        <5>2. pb' = [pb EXCEPT !.playing = p, !.seeking = k, !.ok = o, !.cursor = pb.cursor]
          BY <5>1 DEF PbType
        <5> QED BY <5>2
      <4> QED BY <4>2, <4>3
    <3> QED BY <3>1 DEF PbType
  <2>3. CASE Close \/ StopRecording \/ ContinueRecording
    <3>1. ~pb'.loaded
      BY <2>3, Cleared DEF Close, StopRecording, ContinueRecording
    <3> QED BY <3>1
  <2> QED BY <2>1, <2>2, <2>3 DEF TogglePause, SyncForgets, SyncSeesRunning, SyncToggles,
                MainLoopPaces, OpenMismatch, ObserveRecording
<1>3. SamePlace
  <2>1. CASE app' = app
    BY <2>1
  <2>2. CASE app' = [app EXCEPT !.auto = FALSE]
    BY <2>2 DEF AppType
  <2>3. CASE SeekAfterLoad \/ SyncSeesRunning \/ SyncToggles \/ ObserveRecording \/ ContinueRecording
    <3>1. CASE SeekAfterLoad \/ SyncSeesRunning \/ SyncToggles
      BY <3>1 DEF SeekAfterLoad, SyncSeesRunning, SyncToggles, AppType
    <3>2. CASE ObserveRecording
      BY <3>2 DEF ObserveRecording, AppType
    <3>3. CASE ContinueRecording
      <4>1. PICK g : app' = [app EXCEPT !.mode = "Recording", !.at = "recording", !.frames = g]
        BY <3>3 DEF ContinueRecording
      <4> QED BY <4>1 DEF AppType
    <3> QED BY <2>3, <3>1, <3>2, <3>3
  <2>4. CASE OpenMismatch \/ Close \/ StopRecording
    <3>1. CASE OpenMismatch
      <4>1. app' = [NoSession EXCEPT !.observing = app.observing, !.auto = app.auto]
        BY <3>1 DEF OpenMismatch
      <4>2. app'.at = "idle"
        BY ONLY <4>1 DEF NoSession
      <4> QED BY <4>2
    <3>2. CASE app' = NoSession
      BY <3>2 DEF NoSession
    <3> QED BY <2>4, <3>1, <3>2 DEF Close, StopRecording
  <2> QED BY <2>1, <2>2, <2>3, <2>4
          DEF Play, Pause, TogglePause, Seek, MainLoopPaces, Stop, SyncPlays, SyncForgets
<1> QED BY <1>1, <1>2, <1>3, QuietRewinds

LEMMA DispatchesRewind ==
    ASSUME IInv, RewindInv, WorkerDispatches
    PROVE  RewindInv'
<1> USE IInvParts
<1>1. queue # <<>> /\ app' = app
  BY DEF WorkerDispatches
<1>2. Head(queue) \in Command
  <2>1. queue \in Seq(Command)
    OBVIOUS
  <2> QED BY <1>1, <2>1, HeadTailProperties
<1>3. CASE emu' = [emu EXCEPT !.paused = ~emu.paused] /\ pb' = pb /\ past' = past
  <2>1. /\ emu'.frame = emu.frame /\ emu'.line = emu.line /\ emu'.next = emu.next
        /\ emu'.rewinding = emu.rewinding /\ emu'.buffer = emu.buffer
    BY <1>3 DEF EmuType
  <2> QED BY <1>1, <1>3, <2>1, QuietRewinds
<1>4. ASSUME NEW f, SeekFails(f) PROVE RewindInv'
  <2>1. pb' = [pb EXCEPT !.seeking = FALSE, !.ok = FALSE] /\ emu' = emu /\ past' = past
    BY <1>4 DEF SeekFails
  <2>2. pb'.loaded = pb.loaded /\ pb'.snapshots = pb.snapshots
    BY <2>1 DEF PbType
  <2> QED BY <1>1, <2>1, <2>2, QuietRewinds
<1>5. ASSUME Head(queue).kind = "seek", SeekRuns(Head(queue).frame) PROVE RewindInv'
  <2>1. Head(queue).frame \in 0..N
    BY <1>2, <1>5, Commands
  <2> QED BY <1>1, <1>5, <2>1, SeekRewinds
<1> QED BY <1>3, <1>4, <1>5 DEF WorkerDispatches, seekReplayPlaybackLocked

LEMMA NextRewinds == IInv /\ RewindInv /\ [Next]_vars => RewindInv'
<1> SUFFICES ASSUME IInv, RewindInv, [Next]_vars PROVE RewindInv'
  OBVIOUS
<1>1. CASE WorkerAdvances
  BY <1>1, WorkerRewinds
<1>2. CASE WorkerDispatches
  BY <1>2, DispatchesRewind
<1>3. CASE OpenReplay \/ StartRecording
  <2>1. PbInv(pb)
    BY IInvParts
  <2>2. ~pb'.loaded
    BY <1>3, <2>1, Cleared DEF OpenReplay, StartRecording
  <2> QED BY <1>3, <2>2, PoweredOnRewinds DEF OpenReplay, StartRecording
<1>4. CASE LoadReplay
  BY <1>4, LoadRewinds
<1>5. CASE UNCHANGED vars
  BY <1>5, QuietRewinds DEF vars
<1> QED BY <1>1, <1>2, <1>3, <1>4, <1>5, QuietStepsRewind DEF Next, UserActs, UiContinues

LEMMA InitRewinds == Init => RewindInv
<1> SUFFICES ASSUME Init PROVE RewindInv
  OBVIOUS
<1>1. emu.buffer = <<>> /\ emu.next = {} /\ ~pb.loaded
  BY DEF Init, PoweredOn, NoReplay
<1>2. \A i \in 1..Len(emu.buffer) : FALSE
  BY <1>1
<1> QED BY <1>1, <1>2 DEF RewindInv, LeadsTo

LEMMA RewindEnough == IInv /\ RewindInv => RewindIsThePast
<1> SUFFICES ASSUME IInv, RewindInv, "sought" \notin past, NEW i \in 1..Len(emu.buffer)
             PROVE  /\ IsPrefix(emu.buffer[i].line, emu.line)
                    /\ \A j \in 1..(i - 1) : emu.buffer[j].frame < emu.buffer[i].frame
  BY DEF RewindIsThePast
<1>1. /\ emu.buffer \in Seq(State) /\ Coherent(emu.buffer) /\ emu.line \in Seq(Input)
  BY IInvParts, RewindTypes
<1>2. /\ Begins(emu.buffer[i].line, emu.line)
      /\ \A j \in 1..(i - 1) : emu.buffer[j].frame < emu.buffer[i].frame
  BY DEF RewindInv, LeadsTo
<1>3. emu.buffer[i].line \in Seq(Input)
  BY <1>1, StoredState
<1> QED BY <1>1, <1>2, <1>3, BeginsIsPrefix

\* Unless a seek went back behind a state in the rewind buffer, that buffer holds
\* earlier states of the console on its way to the present one, the newest last:
\* through Rewind::newFrame forward and back, ROM reloads, replays loaded in any
\* state and seeks, which load a state and leave the buffer
\* (ThreadedEmulationHost::seekReplayPlaybackLocked).
THEOREM RewindAlwaysThePast == Spec => []RewindIsThePast
<1>1. Init => IInv /\ RewindInv
  BY InitEstablishes, InitRewinds
<1>2. IInv /\ RewindInv /\ [Next]_vars => (IInv /\ RewindInv)'
  BY NextPreserves, NextRewinds
<1>3. IInv /\ RewindInv => RewindIsThePast
  BY RewindEnough
<1> QED BY <1>1, <1>2, <1>3, PTL DEF Spec
=============================================================================
