--------------------------- MODULE InputTimeline ---------------------------
(***************************************************************************)
(* ConsoleNetplay::InputTimeline: a bounded FIFO of input entries with a   *)
(* hash index from (frame, participant, slot) to the list node that holds  *)
(* the entry.                                                              *)
(*                                                                         *)
(* A std::list that is only appended to, popped at the front and erased in *)
(* the middle is a set of nodes ordered by the time they were linked, so   *)
(* m_entries is a function from node stamps to entries and list order is   *)
(* stamp order.  An iterator stored in m_index is the stamp of its node: a *)
(* dangling iterator is a stamp outside DOMAIN m_entries.                  *)
(***************************************************************************)
EXTENDS Naturals, FiniteSets

CONSTANTS Frames,        \* frame numbers
          Sources,       \* (participantId, playerSlot) pairs
          Inputs,        \* button masks and payload of an entry
          Capacities,    \* capacities configure() is called with
          MaxNodes       \* bound: list nodes linked in one behaviour

ASSUME FramesAssumption == Frames \subseteq Nat
ASSUME CapacitiesAssumption == Capacities \subseteq Nat

VARIABLES m_capacity, m_entries, m_index, nextNode

vars == <<m_capacity, m_entries, m_index, nextNode>>

Keys == Frames \X Sources
Entry == [key : Keys, input : Inputs]

\* makeKey(entry)
makeKey(e) == e.key

Size == Cardinality(DOMAIN m_entries)

\* Mutant of IsFront: pops the newest node.
IsFrontNewest(n) == n \in DOMAIN m_entries /\ \A o \in DOMAIN m_entries : o <= n

\* m_entries.front(): the oldest linked node.
IsFront(n) == n \in DOMAIN m_entries /\ \A o \in DOMAIN m_entries : n <= o

\* Unlinks the nodes of S and erases their keys from the index.
Unlink(S) ==
    /\ m_entries' = [n \in DOMAIN m_entries \ S |-> m_entries[n]]
    /\ m_index' = [k \in DOMAIN m_index \ {makeKey(m_entries[n]) : n \in S} |->
                      m_index[k]]

Init ==
    /\ m_capacity = 0
    /\ m_entries = << >>
    /\ m_index = << >>
    /\ nextNode = 1

\* Mutant of configure: forgets to shrink the list.
configureNoTrim(capacity) ==
    m_capacity' = capacity /\ UNCHANGED <<m_entries, m_index, nextNode>>

\* Mutant of configure: leaves one entry less than the capacity.
configureOneLess(capacity) ==
    /\ m_capacity' = capacity
    /\ Unlink({n \in DOMAIN m_entries :
                  Cardinality({o \in DOMAIN m_entries : o >= n}) >= capacity})
    /\ UNCHANGED nextNode

\* configure(): pops from the front until the list fits.
configure(capacity) ==
    /\ m_capacity' = capacity
    /\ Unlink({n \in DOMAIN m_entries :
                  Cardinality({o \in DOMAIN m_entries : o >= n}) > capacity})
    /\ UNCHANGED nextNode

clear ==
    /\ m_entries' = << >>
    /\ m_index' = << >>
    /\ UNCHANGED <<m_capacity, nextNode>>

\* find(): what a lookup through the index returns.
find(k) == IF k \in DOMAIN m_index THEN {m_entries[m_index[k]]} ELSE {}

\* push() of a key that is indexed overwrites that node in place.
Overwrite(e) ==
    /\ makeKey(e) \in DOMAIN m_index
    /\ m_entries' = [m_entries EXCEPT ![m_index[makeKey(e)]] = e]
    /\ UNCHANGED <<m_capacity, m_index, nextNode>>

\* Mutant of Link: the evicted key stays indexed.
LinkKeepsEvictedKey(e, evicted) ==
    /\ m_entries' = [n \in (DOMAIN m_entries \ evicted) \cup {nextNode} |->
                        IF n = nextNode THEN e ELSE m_entries[n]]
    /\ m_index' = [k \in DOMAIN m_index \cup {makeKey(e)} |->
                      IF k = makeKey(e) THEN nextNode ELSE m_index[k]]

\* push() of a new key: makes room by popping the front, then links a node.
\* The index loses the popped key before it gains the new one.
Link(e, evicted) ==
    /\ m_entries' = [n \in (DOMAIN m_entries \ evicted) \cup {nextNode} |->
                        IF n = nextNode THEN e ELSE m_entries[n]]
    /\ m_index' =
          [k \in (DOMAIN m_index \ {makeKey(m_entries[n]) : n \in evicted})
                    \cup {makeKey(e)} |->
              IF k = makeKey(e) THEN nextNode ELSE m_index[k]]

\* Mutant of Insert: links every entry under the same stamp.
InsertReusesNode(e) ==
    /\ makeKey(e) \notin DOMAIN m_index
    /\ nextNode <= MaxNodes
    /\ Size < m_capacity
    /\ Link(e, {})
    /\ UNCHANGED <<m_capacity, nextNode>>

Insert(e) ==
    /\ makeKey(e) \notin DOMAIN m_index
    /\ nextNode <= MaxNodes
    /\ IF Size >= m_capacity
       THEN \E n \in DOMAIN m_entries : IsFront(n) /\ Link(e, {n})
       ELSE Link(e, {})
    /\ nextNode' = nextNode + 1
    /\ UNCHANGED m_capacity

push(e) ==
    \/ m_capacity = 0 /\ UNCHANGED vars
    \/ m_capacity # 0 /\ (Overwrite(e) \/ Insert(e))

\* The coordinator's writes through findMutable(): it changes an entry's
\* payload or confirmed flag in place, never its key.
writeFound(k, v) ==
    /\ k \in DOMAIN m_index
    /\ m_entries' = [m_entries EXCEPT ![m_index[k]].input = v]
    /\ UNCHANGED <<m_capacity, m_index, nextNode>>

eraseFramesAfter(frame) ==
    /\ Unlink({n \in DOMAIN m_entries : m_entries[n].key[1] > frame})
    /\ UNCHANGED <<m_capacity, nextNode>>

Next ==
    \/ \E capacity \in Capacities : configure(capacity)
    \/ clear
    \/ \E e \in Entry : push(e)
    \/ \E k \in Keys, v \in Inputs : writeFound(k, v)
    \/ \E frame \in Frames : eraseFramesAfter(frame)

Spec == Init /\ [][Next]_vars

-----------------------------------------------------------------------------
\* Every variable has its type; stamps are handed out in increasing order.
TypeOK ==
    /\ m_capacity \in Nat
    /\ nextNode \in Nat
    /\ DOMAIN m_entries \subseteq {n \in Nat : n < nextNode}
    /\ \A n \in DOMAIN m_entries : m_entries[n] \in Entry
    /\ DOMAIN m_index \subseteq Keys

\* The hash index and the list describe the same entries: no dangling
\* iterator, no entry that a lookup misses, and so no two entries for one
\* (frame, participant, slot).  Every push, eviction, truncation and
\* reconfiguration updates the two structures separately.
IndexExact ==
    /\ \A k \in DOMAIN m_index :
          /\ m_index[k] \in DOMAIN m_entries
          /\ makeKey(m_entries[m_index[k]]) = k
    /\ \A n \in DOMAIN m_entries :
          /\ makeKey(m_entries[n]) \in DOMAIN m_index
          /\ m_index[makeKey(m_entries[n])] = n

\* The list never outgrows the capacity last configured, whatever sequence
\* of in-place overwrites, evictions and shrinking reconfigurations led here.
CapacityRespected == Size <= m_capacity

\* Eviction is oldest-first: a step that links a node unlinks at most one,
\* and every node it keeps was linked later than the one it unlinks.
EvictsOldestFirst ==
    [][ nextNode' > nextNode =>
          \A n \in DOMAIN m_entries :
             n \notin DOMAIN m_entries' =>
                \A o \in DOMAIN m_entries' : n < o ]_vars

\* The timeline implements the bounded map: what a lookup returns for every
\* key is what TimelineMap says.
Abstract == INSTANCE TimelineMap WITH
    map <- [k \in DOMAIN m_index |-> m_entries[m_index[k]].input],
    bound <- m_capacity

ImplementsMap == Abstract!Spec
=============================================================================
