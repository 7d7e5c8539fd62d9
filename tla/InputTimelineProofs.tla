------------------------ MODULE InputTimelineProofs ------------------------
(***************************************************************************)
(* The index of the input timeline is exact for every set of frames,       *)
(* sources and inputs, every capacity and every number of list nodes, and  *)
(* so the timeline implements the bounded map TimelineMap and stays within *)
(* its capacity.                                                           *)
(***************************************************************************)
EXTENDS InputTimeline, FiniteSetTheorems, TLAPS

\* TypeOK supplies what IndexExact needs of a fresh node: its stamp is not
\* already linked.
IInv == TypeOK /\ IndexExact

LEMMA InitIInv == Init => IInv
BY DEF Init, IInv, TypeOK, IndexExact

\* Erasing a set of nodes together with the keys of exactly those nodes
\* keeps list and index in step, whatever the set.
LEMMA UnlinkIInv ==
    ASSUME IInv, NEW S \in SUBSET DOMAIN m_entries, Unlink(S),
           m_capacity' \in Nat, nextNode' = nextNode
    PROVE  IInv'
<1>1. TypeOK'
  BY DEF IInv, TypeOK, Unlink, makeKey
<1>2. IndexExact'
  BY DEF IInv, IndexExact, Unlink, makeKey
<1> QED BY <1>1, <1>2 DEF IInv

\* Linking a fresh node under a key that is not indexed, after unlinking the
\* evicted nodes, keeps list and index in step.
LEMMA LinkIInv ==
    ASSUME IInv, NEW e \in Entry, NEW S \in SUBSET DOMAIN m_entries,
           makeKey(e) \notin DOMAIN m_index,
           Link(e, S), m_capacity' = m_capacity, nextNode' = nextNode + 1
    PROVE  IInv'
<1>0. nextNode \notin DOMAIN m_entries
  BY DEF IInv, TypeOK
<1>1. TypeOK'
  BY DEF IInv, TypeOK, Link, makeKey, Entry
<1>2. IndexExact'
  BY <1>0 DEF IInv, IndexExact, Link, makeKey
<1> QED BY <1>1, <1>2 DEF IInv

LEMMA OverwriteIInv ==
    ASSUME IInv, NEW e \in Entry, Overwrite(e)
    PROVE  IInv'
<1>1. TypeOK'
  BY DEF IInv, TypeOK, IndexExact, Overwrite, makeKey
<1>2. IndexExact'
  BY DEF IInv, TypeOK, IndexExact, Overwrite, makeKey
<1> QED BY <1>1, <1>2 DEF IInv

LEMMA WriteFoundIInv ==
    ASSUME IInv, NEW k \in Keys, NEW v \in Inputs, writeFound(k, v)
    PROVE  IInv'
<1> DEFINE n == m_index[k]
<1>0. n \in DOMAIN m_entries /\ m_entries[n] \in Entry
  BY DEF IInv, TypeOK, IndexExact, writeFound
<1>1. /\ DOMAIN m_entries' = DOMAIN m_entries
      /\ m_entries'[n] = [m_entries[n] EXCEPT !.input = v]
      /\ \A o \in DOMAIN m_entries : o # n => m_entries'[o] = m_entries[o]
  BY <1>0 DEF writeFound
<1>2. m_entries'[n] \in Entry /\ m_entries'[n].key = m_entries[n].key
  BY <1>0, <1>1 DEF Entry
<1>3. TypeOK'
  BY <1>0, <1>1, <1>2 DEF IInv, TypeOK, writeFound
<1>4. IndexExact'
  BY <1>0, <1>1, <1>2 DEF IInv, IndexExact, writeFound, makeKey
<1> QED BY <1>3, <1>4 DEF IInv

LEMMA NextIInv == IInv /\ [Next]_vars => IInv'
<1> SUFFICES ASSUME IInv, [Next]_vars PROVE IInv'
  OBVIOUS
<1>1. CASE UNCHANGED vars
  BY <1>1 DEF IInv, TypeOK, IndexExact, makeKey, vars
<1>2. ASSUME NEW capacity \in Capacities, configure(capacity) PROVE IInv'
  BY <1>2, UnlinkIInv, CapacitiesAssumption DEF configure
<1>3. CASE clear
  BY <1>3 DEF clear, IInv, TypeOK, IndexExact
<1>4. ASSUME NEW e \in Entry, push(e) PROVE IInv'
  <2>1. CASE UNCHANGED vars
    BY <2>1, <1>1
  <2>2. CASE Overwrite(e)
    BY <2>2, OverwriteIInv
  <2>3. CASE Insert(e)
    BY <2>3, LinkIInv DEF Insert
  <2> QED BY <1>4, <2>1, <2>2, <2>3 DEF push
<1>5. ASSUME NEW k \in Keys, NEW v \in Inputs, writeFound(k, v) PROVE IInv'
  BY <1>5, WriteFoundIInv
<1>6. ASSUME NEW frame \in Frames, eraseFramesAfter(frame) PROVE IInv'
  BY <1>6, UnlinkIInv DEF eraseFramesAfter, IInv, TypeOK
<1> QED BY <1>1, <1>2, <1>3, <1>4, <1>5, <1>6 DEF Next

\* In every reachable state the hash index and the entry list of an
\* InputTimeline describe the same entries.
THEOREM IndexAlwaysExact == Spec => []IndexExact
<1>1. Spec => []IInv
  BY InitIInv, NextIInv, PTL DEF Spec
<1> QED BY <1>1, PTL DEF IInv

\* The timeline keeps its types, and every linked node has a stamp older than
\* the next one to be handed out, for any keys, inputs and capacities.
THEOREM TimelineTypeCorrect == Spec => []TypeOK
<1>1. Spec => []IInv
  BY InitIInv, NextIInv, PTL DEF Spec
<1> QED BY <1>1, PTL DEF IInv

\* What EvictsOldestFirst says of one step.
EvictsOldest ==
    nextNode' > nextNode =>
        \A n \in DOMAIN m_entries :
            n \notin DOMAIN m_entries' => \A o \in DOMAIN m_entries' : n < o

LEMMA InsertEvictsOldest ==
    ASSUME IInv, NEW e \in Entry, Insert(e)
    PROVE  EvictsOldest
<1>1. DOMAIN m_entries \subseteq Nat /\ nextNode \in Nat /\ \A n \in DOMAIN m_entries : n < nextNode
  BY DEF IInv, TypeOK
<1>2. CASE Link(e, {})
  BY <1>2 DEF Link, EvictsOldest
<1>3. ASSUME NEW f \in DOMAIN m_entries, IsFront(f), Link(e, {f})
      PROVE  EvictsOldest
  <2>1. DOMAIN m_entries' = (DOMAIN m_entries \ {f}) \cup {nextNode}
    BY <1>3 DEF Link
  <2>2. \A o \in DOMAIN m_entries : f <= o
    BY <1>3 DEF IsFront
  <2> QED BY <1>1, <2>1, <2>2 DEF EvictsOldest
<1> QED BY <1>2, <1>3 DEF Insert

LEMMA NextEvictsOldest == IInv /\ Next => EvictsOldest
<1> SUFFICES ASSUME IInv, Next PROVE EvictsOldest
  OBVIOUS
<1>1. nextNode \in Nat
  BY DEF IInv, TypeOK
<1>2. CASE nextNode' = nextNode
  BY <1>1, <1>2 DEF EvictsOldest
<1>3. nextNode' = nextNode \/ \E e \in Entry : Insert(e)
  BY DEF Next, configure, clear, push, Overwrite, writeFound, eraseFramesAfter, vars
<1> QED BY <1>2, <1>3, InsertEvictsOldest

\* push() makes room by popping the oldest entry and no other: no confirmed
\* input is forgotten while one linked before it is kept.
THEOREM EvictionAlwaysOldestFirst == Spec => EvictsOldestFirst
<1>1. IInv /\ [Next]_vars => [EvictsOldest]_vars
  BY NextEvictsOldest
<1>2. Spec => []IInv
  BY InitIInv, NextIInv, PTL DEF Spec
<1>3. Spec => [][EvictsOldest]_vars
  BY <1>1, <1>2, PTL DEF Spec
<1>4. [][EvictsOldest]_vars => EvictsOldestFirst
  BY PTL DEF EvictsOldest, EvictsOldestFirst
<1> QED BY <1>3, <1>4, PTL
-----------------------------------------------------------------------------
\* What a lookup of each indexed key returns: the refinement mapping.
Lookup == [k \in DOMAIN m_index |-> m_entries[m_index[k]].input]

\* Unlinking nodes forgets their keys and leaves every other lookup alone.
LEMMA UnlinkForgets ==
    ASSUME IInv, NEW S \in SUBSET DOMAIN m_entries, Unlink(S)
    PROVE  Lookup' = [k \in DOMAIN m_index \ {makeKey(m_entries[n]) : n \in S}
                         |-> Lookup[k]]
BY DEF IInv, IndexExact, Unlink, Lookup, makeKey

LEMMA LinkPuts ==
    ASSUME IInv, NEW e \in Entry, NEW S \in SUBSET DOMAIN m_entries,
           makeKey(e) \notin DOMAIN m_index, Link(e, S)
    PROVE  Lookup' =
             [k \in (DOMAIN m_index \ {makeKey(m_entries[n]) : n \in S})
                       \cup {makeKey(e)} |->
                 IF k = makeKey(e) THEN e.input ELSE Lookup[k]]
<1>0. nextNode \notin DOMAIN m_entries
  BY DEF IInv, TypeOK
<1> QED BY <1>0 DEF IInv, IndexExact, Link, Lookup, makeKey

\* The list is finite and the index has a key for each of its nodes.
LEMMA IndexSize ==
    ASSUME IInv
    PROVE  /\ IsFiniteSet(DOMAIN m_entries) /\ Size \in Nat
           /\ Cardinality(DOMAIN m_index) = Size
<1>1. IsFiniteSet(DOMAIN m_entries)
  <2>1. /\ nextNode \in Nat /\ DOMAIN m_entries \in SUBSET Nat
        /\ \A n \in DOMAIN m_entries : n <= nextNode
    BY DEF IInv, TypeOK
  <2> QED BY ONLY <2>1, FS_BoundedSetOfNaturals
<1> DEFINE f == [n \in DOMAIN m_entries |-> makeKey(m_entries[n])]
<1>2. f \in Bijection(DOMAIN m_entries, DOMAIN m_index)
  BY DEF IInv, IndexExact, Bijection, Injection, Surjection, IsInjective
<1>3. ExistsBijection(DOMAIN m_entries, DOMAIN m_index)
  BY <1>2 DEF ExistsBijection
<1> QED BY <1>1, <1>3, FS_Bijection, FS_CardinalityType DEF Size

\* A list that fits in the new capacity is not cut.
LEMMA FittingListIsKept ==
    ASSUME IInv, NEW capacity \in Nat, Size <= capacity
    PROVE  {n \in DOMAIN m_entries :
               Cardinality({o \in DOMAIN m_entries : o >= n}) > capacity} = {}
<1> SUFFICES ASSUME NEW n \in DOMAIN m_entries
             PROVE  ~ (Cardinality({o \in DOMAIN m_entries : o >= n}) > capacity)
  OBVIOUS
<1> DEFINE T == {o \in DOMAIN m_entries : o >= n}
<1>1. /\ T \in SUBSET DOMAIN m_entries
      /\ IsFiniteSet(DOMAIN m_entries) /\ Size \in Nat
  BY IndexSize
<1>2. IsFiniteSet(T) /\ Cardinality(T) <= Size
  BY <1>1, FS_Subset DEF Size
<1>3. Cardinality(T) \in Nat
  BY <1>2, FS_CardinalityType
<1> HIDE DEF T
<1>4. ~ (Cardinality(T) > capacity)
  BY <1>1, <1>2, <1>3
<1> QED BY <1>4 DEF T

\* The abstract module's cardinality is the same operator.
LEMMA SameCardinality == \A S : Abstract!Cardinality(S) = Cardinality(S)
BY Zenon DEF Cardinality, Abstract!Cardinality

\* Every step of the list and index is a step of the bounded map.
LEMMA StepRefines == IInv /\ [Next]_vars => [Abstract!Next]_<<Lookup, m_capacity>>
<1> SUFFICES ASSUME IInv, [Next]_vars
             PROVE  Abstract!Next \/ UNCHANGED <<Lookup, m_capacity>>
  OBVIOUS
<1> USE DEF Abstract!Next, Abstract!Keys, Abstract!Within, Abstract!Forget
<1>d. DOMAIN Lookup = DOMAIN m_index /\ DOMAIN m_index \subseteq Keys
  BY DEF Lookup, IInv, TypeOK
<1>1. CASE UNCHANGED vars
  BY <1>1 DEF vars, Lookup
<1>2. ASSUME NEW S \in SUBSET DOMAIN m_entries, Unlink(S), m_capacity' \in Nat,
             Size <= m_capacity' => S = {}
      PROVE  Abstract!Resize
  <2> DEFINE K == {makeKey(m_entries[n]) : n \in S}
  <2>1. K \in SUBSET Keys
    BY DEF IInv, TypeOK, Entry, makeKey
  <2>2. Lookup' = [k \in DOMAIN Lookup \cap (Keys \ K) |-> Lookup[k]]
    BY <1>2, <1>d, UnlinkForgets
  <2>3. Cardinality(DOMAIN Lookup) <= m_capacity' => K = {}
    BY <1>2, <1>d, IndexSize
  <2> HIDE DEF K
  <2>4. \E Q \in SUBSET Keys :
           /\ Cardinality(DOMAIN Lookup) <= m_capacity' => Q = {}
           /\ Lookup' = [k \in DOMAIN Lookup \cap (Keys \ Q) |-> Lookup[k]]
    BY <2>1, <2>2, <2>3
  <2>5. m_capacity' \in Nat
    BY <1>2
  <2> QED BY ONLY <2>4, <2>5, SameCardinality DEF Abstract!Resize, Abstract!Forget, Abstract!Within,
      Abstract!Keys, Lookup, Keys
<1>3. ASSUME NEW capacity \in Capacities, configure(capacity)
      PROVE  Abstract!Next
  <2>1. capacity \in Nat /\ m_capacity' = capacity
    BY <1>3, CapacitiesAssumption DEF configure
  <2> DEFINE S == {n \in DOMAIN m_entries :
                      Cardinality({o \in DOMAIN m_entries : o >= n}) > capacity}
  <2>2. S \in SUBSET DOMAIN m_entries /\ Unlink(S)
    BY <1>3 DEF configure
  <2>3. Size <= capacity => S = {}
    BY <2>1, FittingListIsKept
  <2> HIDE DEF S
  <2>4. Abstract!Resize
    BY <1>2, <2>1, <2>2, <2>3
  <2> QED BY <2>4
<1>4. CASE clear
  <2>1. Lookup' = << >>
    BY <1>4 DEF clear, Lookup
  <2> QED BY <1>4, <2>1 DEF clear, Abstract!Clear, Lookup
<1>5. ASSUME NEW e \in Entry, push(e)
      PROVE  Abstract!Next \/ UNCHANGED <<Lookup, m_capacity>>
  <2> DEFINE k == makeKey(e)
             v == e.input
  <2>0. k \in Keys /\ v \in Inputs
    BY DEF Entry, makeKey
  <2>1. CASE UNCHANGED vars
    BY <2>1, <1>1
  <2>2. CASE Overwrite(e)
    <3>0. /\ k \in DOMAIN m_index /\ m_index' = m_index
          /\ m_entries'[m_index[k]] = e
          /\ \A q \in DOMAIN m_index : q # k => m_entries'[m_index[q]] = m_entries[m_index[q]]
      BY <2>2 DEF Overwrite, IInv, IndexExact
    <3>1. Lookup' = [q \in (DOMAIN Lookup \ {}) \cup {k} |->
                        IF q = k THEN v ELSE Lookup[q]]
      <4>1. (DOMAIN Lookup \ {}) \cup {k} = DOMAIN m_index
        BY <3>0, <1>d
      <4> QED BY <3>0, <4>1 DEF Lookup
    <3>2. Abstract!Put(k, v)
      BY <3>1, <2>2 DEF Abstract!Put, Overwrite, Lookup
    <3> QED BY <3>2, <2>0 DEF Keys
  <2>3. CASE Insert(e)
    <3>1. CASE Link(e, {})
      <4>1. Lookup' = [q \in (DOMAIN Lookup \ {}) \cup {k} |->
                          IF q = k THEN v ELSE Lookup[q]]
        <5>1. {makeKey(m_entries[n]) : n \in {}} = {}
          OBVIOUS
        <5> QED BY <2>3, <3>1, <1>d, <5>1, LinkPuts DEF Insert
      <4>2. Abstract!Put(k, v)
        BY <4>1, <2>3 DEF Abstract!Put, Insert, Lookup
      <4> QED BY <4>2, <2>0 DEF Keys
    <3>2. ASSUME NEW n \in DOMAIN m_entries, Link(e, {n}), Size >= m_capacity
          PROVE  Abstract!Next
      <4> DEFINE g == makeKey(m_entries[n])
      <4>1. g \in DOMAIN Lookup \ {k}
        BY <2>3, <1>d DEF Insert, IInv, IndexExact
      <4>2. Lookup' = [q \in (DOMAIN Lookup \ {g}) \cup {k} |->
                          IF q = k THEN v ELSE Lookup[q]]
        <5>1. {makeKey(m_entries[o]) : o \in {n}} = {g}
          OBVIOUS
        <5> QED BY <2>3, <3>2, <1>d, <5>1, LinkPuts DEF Insert
      <4>3. Cardinality(DOMAIN Lookup) >= m_capacity
        BY <3>2, <1>d, IndexSize
      <4> HIDE DEF g
      <4>4. \E gone \in SUBSET (DOMAIN Lookup \ {k}) :
               /\ gone # {} => /\ k \notin DOMAIN Lookup
                              /\ Cardinality(DOMAIN Lookup) >= m_capacity
                              /\ \E h \in gone : gone = {h}
               /\ Lookup' = [q \in (DOMAIN Lookup \ gone) \cup {k} |->
                                IF q = k THEN v ELSE Lookup[q]]
        <5>1. {g} \in SUBSET (DOMAIN Lookup \ {k}) /\ k \notin DOMAIN Lookup
          BY <4>1, <2>3, <1>d DEF Insert
        <5> QED BY <4>2, <4>3, <5>1
      <4>5. Abstract!Put(k, v)
        <5>1. m_capacity' = m_capacity
          BY <2>3 DEF Insert
        <5> QED BY ONLY <4>4, <5>1, SameCardinality DEF Abstract!Put, Abstract!Full, Lookup
      <4> QED BY <4>5, <2>0 DEF Keys
    <3> QED BY <2>3, <3>1, <3>2 DEF Insert
  <2> QED BY <1>5, <2>1, <2>2, <2>3 DEF push
<1>6. ASSUME NEW k \in Keys, NEW v \in Inputs, writeFound(k, v)
      PROVE  Abstract!Next
  <2>0. /\ k \in DOMAIN m_index
        /\ m_index[k] \in DOMAIN m_entries
        /\ m_entries[m_index[k]] \in Entry
    BY <1>6 DEF writeFound, IInv, TypeOK, IndexExact
  <2>1. /\ m_entries'[m_index[k]].input = v
        /\ \A n \in DOMAIN m_entries : n # m_index[k] => m_entries'[n] = m_entries[n]
    BY <1>6, <2>0 DEF writeFound, Entry
  <2>2. Lookup' = [Lookup EXCEPT ![k] = v]
    <3>1. /\ DOMAIN Lookup' = DOMAIN m_index /\ m_index' = m_index
          /\ Lookup'[k] = v
      BY <1>6, <2>0, <2>1 DEF writeFound, Lookup
    <3>2. \A q \in DOMAIN m_index : q # k => m_index[q] # m_index[k]
      BY <2>0 DEF IInv, IndexExact
    <3>3. \A q \in DOMAIN m_index : q # k => Lookup'[q] = Lookup[q]
      BY <3>1, <3>2, <2>1 DEF Lookup, IInv, IndexExact
    <3> QED BY <3>1, <3>3 DEF Lookup
  <2>3. Abstract!Amend(k, v)
    BY <2>0, <2>2, <1>6 DEF Abstract!Amend, Lookup, writeFound
  <2> QED BY <2>3 DEF Keys
<1>7. ASSUME NEW frame \in Frames, eraseFramesAfter(frame)
      PROVE  Abstract!Next
  <2> DEFINE S == {n \in DOMAIN m_entries : m_entries[n].key[1] > frame}
             K == {makeKey(m_entries[n]) : n \in S}
             C == {k \in Keys : k[1] > frame}
  <2>1. \A k \in DOMAIN m_index : k \in K <=> k \in C
    BY <1>d DEF IInv, TypeOK, IndexExact, makeKey
  <2>2. Lookup' = [k \in DOMAIN m_index \ K |-> Lookup[k]]
    BY <1>7, UnlinkForgets DEF eraseFramesAfter
  <2>3. Lookup' = [k \in DOMAIN Lookup \cap (Keys \ C) |-> Lookup[k]]
    BY <2>1, <2>2, <1>d
  <2>4. Abstract!Truncate(frame)
    BY <2>3, <1>7 DEF Abstract!Truncate, eraseFramesAfter, Lookup, Keys
  <2> QED BY <2>4
<1> QED BY <1>1, <1>3, <1>4, <1>5, <1>6, <1>7 DEF Next

\* The list with its hash index implements the bounded map: looking a key up
\* always returns what was last recorded for it, a push forgets at most one
\* other key and only when the list is full, a new capacity keeps what fits,
\* and truncation forgets exactly the later frames.
THEOREM TimelineImplementsMap == Spec => ImplementsMap
<1>1. Init => Abstract!Init
  BY DEF Init, Abstract!Init
<1>2. Spec => []IInv
  BY InitIInv, NextIInv, PTL DEF Spec
<1>3. [][Abstract!Next]_<<Lookup, m_capacity>> <=>
      [][Abstract!Next]_<<[k \in DOMAIN m_index |-> m_entries[m_index[k]].input], m_capacity>>
  BY DEF Lookup
<1> QED BY <1>1, <1>2, <1>3, StepRefines, PTL
        DEF Spec, ImplementsMap, Abstract!Spec
-----------------------------------------------------------------------------
\* A non-empty set of naturals has a least element.
LEMMA LeastNode ==
    ASSUME NEW S \in SUBSET Nat, S # {}
    PROVE  \E m \in S : \A n \in S : m <= n
<1> DEFINE Rel == OpToRel(<, Nat)
<1>1. IsWellFoundedOn(Rel, Nat)
  BY NatLessThanWellFounded
<1>2. \E m \in S : \A n \in S : ~ (<<n, m>> \in Rel)
  <2> HIDE DEF Rel
  <2> QED BY <1>1, WFMin
<1>3. PICK m \in S : \A n \in S : ~ (<<n, m>> \in Rel)
  BY <1>2
<1>4. ASSUME NEW n \in S, n < m PROVE FALSE
  BY <1>3, <1>4 DEF Rel, OpToRel
<1> QED BY <1>4

\* What configure keeps, the nodes with at most capacity nodes from them on,
\* are at most capacity many: all of them follow the oldest one kept.
LEMMA KeptSuffixFits ==
    ASSUME IInv, NEW capacity \in Nat
    PROVE  Cardinality(DOMAIN m_entries \
              {n \in DOMAIN m_entries :
                  Cardinality({o \in DOMAIN m_entries : o >= n}) > capacity}) <= capacity
<1> DEFINE D == DOMAIN m_entries
           After(n) == {o \in D : o >= n}
           K == D \ {n \in D : Cardinality(After(n)) > capacity}
<1> SUFFICES Cardinality(K) <= capacity
  OBVIOUS
<1>1. IsFiniteSet(D) /\ D \in SUBSET Nat
  BY IndexSize DEF IInv, TypeOK
<1>2. \A n \in D : IsFiniteSet(After(n)) /\ Cardinality(After(n)) \in Nat
  BY <1>1, FS_Subset, FS_CardinalityType
<1>3. CASE K = {}
  <2> HIDE DEF K
  <2> QED BY <1>3, FS_EmptySet
<1>4. CASE K # {}
  <2>1. PICK m \in K : \A n \in K : m <= n
    BY <1>1, <1>4, LeastNode
  <2>2. K \in SUBSET After(m) /\ m \in D
    BY <1>1, <2>1
  <2>3. ~ (Cardinality(After(m)) > capacity)
    BY <2>1
  <2>4. IsFiniteSet(K) /\ Cardinality(K) <= Cardinality(After(m))
    BY <1>2, <2>2, FS_Subset
  <2>5. Cardinality(K) \in Nat /\ Cardinality(After(m)) \in Nat
    BY <1>2, <2>2, <2>4, FS_CardinalityType
  <2> HIDE DEF K, After
  <2> QED BY <2>3, <2>4, <2>5
<1> QED BY <1>3, <1>4

\* Linking a node in a list that is below its capacity, or in place of one
\* evicted node, does not exceed the capacity.
LEMMA LinkFits ==
    ASSUME IInv, CapacityRespected, NEW e \in Entry, Insert(e)
    PROVE  CapacityRespected'
<1> DEFINE D == DOMAIN m_entries
<1>1. /\ IsFiniteSet(D) /\ Cardinality(D) \in Nat /\ nextNode \notin D
      /\ m_capacity \in Nat /\ Cardinality(D) <= m_capacity
  BY IndexSize DEF IInv, TypeOK, CapacityRespected, Size
<1>2. ASSUME NEW n \in D, Link(e, {n}) PROVE Cardinality(DOMAIN m_entries') <= m_capacity
  <2>1. DOMAIN m_entries' = (D \ {n}) \cup {nextNode}
    BY <1>2 DEF Link
  <2>2. IsFiniteSet(D \ {n}) /\ Cardinality(D \ {n}) = Cardinality(D) - 1
    BY <1>1, FS_RemoveElement
  <2>3. Cardinality((D \ {n}) \cup {nextNode}) = Cardinality(D \ {n}) + 1
    BY <1>1, <2>2, FS_AddElement
  <2> HIDE DEF D
  <2> QED BY <1>1, <2>1, <2>2, <2>3
<1>3. ASSUME Link(e, {}), ~ (Cardinality(D) >= m_capacity)
      PROVE  Cardinality(DOMAIN m_entries') <= m_capacity
  <2>1. DOMAIN m_entries' = D \cup {nextNode}
    BY <1>3 DEF Link
  <2>2. Cardinality(D \cup {nextNode}) = Cardinality(D) + 1
    BY <1>1, FS_AddElement
  <2> HIDE DEF D
  <2> QED BY <1>1, <1>3, <2>1, <2>2
<1>4. m_capacity' = m_capacity
  BY DEF Insert
<1> QED BY <1>2, <1>3, <1>4 DEF Insert, CapacityRespected, Size

LEMMA NextCapacity == IInv /\ CapacityRespected /\ [Next]_vars => CapacityRespected'
<1> SUFFICES ASSUME IInv, CapacityRespected, [Next]_vars PROVE CapacityRespected'
  OBVIOUS
<1>0. ASSUME DOMAIN m_entries' \in SUBSET DOMAIN m_entries, m_capacity' = m_capacity
      PROVE  CapacityRespected'
  <2>1. /\ Cardinality(DOMAIN m_entries') \in Nat
        /\ Cardinality(DOMAIN m_entries') <= Cardinality(DOMAIN m_entries)
    BY <1>0, IndexSize, FS_Subset, FS_CardinalityType
  <2>2. Cardinality(DOMAIN m_entries) \in Nat /\ m_capacity \in Nat
    BY IndexSize DEF Size, IInv, TypeOK
  <2> QED BY <1>0, <2>1, <2>2 DEF CapacityRespected, Size
<1>1. CASE UNCHANGED vars
  BY <1>0, <1>1 DEF vars
<1>2. ASSUME NEW capacity \in Capacities, configure(capacity) PROVE CapacityRespected'
  <2>1. capacity \in Nat
    BY CapacitiesAssumption
  <2> QED BY <1>2, <2>1, KeptSuffixFits DEF configure, Unlink, CapacityRespected, Size
<1>3. CASE clear
  <2>1. DOMAIN m_entries' = {}
    BY <1>3 DEF clear
  <2> QED BY <1>0, <1>3, <2>1 DEF clear
<1>4. ASSUME NEW e \in Entry, push(e) PROVE CapacityRespected'
  <2>1. CASE Overwrite(e)
    BY <1>0, <2>1 DEF Overwrite
  <2>2. CASE Insert(e)
    BY <2>2, LinkFits
  <2> QED BY <1>1, <1>4, <2>1, <2>2 DEF push
<1>5. ASSUME NEW k \in Keys, NEW v \in Inputs, writeFound(k, v) PROVE CapacityRespected'
  BY <1>0, <1>5 DEF writeFound
<1>6. ASSUME NEW frame \in Frames, eraseFramesAfter(frame) PROVE CapacityRespected'
  BY <1>0, <1>6 DEF eraseFramesAfter, Unlink
<1> QED BY <1>1, <1>2, <1>3, <1>4, <1>5, <1>6 DEF Next

\* The timeline never holds more entries than the capacity it was last
\* configured with.
THEOREM CapacityAlwaysRespected == Spec => []CapacityRespected
<1>1. Init => CapacityRespected
  <2>1. DOMAIN << >> = {}
    OBVIOUS
  <2> QED BY <2>1, FS_EmptySet DEF Init, CapacityRespected, Size
<1>2. Spec => []IInv
  BY InitIInv, NextIInv, PTL DEF Spec
<1> QED BY <1>1, <1>2, NextCapacity, PTL DEF Spec
=============================================================================
