---------------------------- MODULE TimelineMap ----------------------------
(***************************************************************************)
(* What the input timeline promises to the coordinator: a bounded map from *)
(* (frame, source) to the input recorded there.  A push makes exactly its  *)
(* own key readable and, when the map is full, forgets one other key; a    *)
(* truncation forgets exactly the frames after the cut; nothing else ever  *)
(* changes the value of a key that stays in the map.                       *)
(***************************************************************************)
EXTENDS Naturals, FiniteSets

CONSTANTS Frames,   \* frame numbers
          Sources,  \* (participant, slot) pairs
          Inputs    \* recorded inputs

VARIABLES map,      \* a function from some keys to Inputs
          bound     \* how many keys the map may hold

Keys == Frames \X Sources

\* The part of m that lies in S.
Within(m, S) == [k \in DOMAIN m \cap S |-> m[k]]

Init == map = << >> /\ bound = 0

\* Forgets some keys and never touches a value.
Forget(S) == map' = Within(map, Keys \ S)

\* A full map forgets one key to take a new one.
Full == Cardinality(DOMAIN map) >= bound

Put(k, v) ==
    /\ \/ bound = 0 /\ map' = map
       \/ \E gone \in SUBSET (DOMAIN map \ {k}) :
              /\ gone # {} => k \notin DOMAIN map /\ Full /\ \E g \in gone : gone = {g}
              /\ map' = [q \in (DOMAIN map \ gone) \cup {k} |->
                            IF q = k THEN v ELSE map[q]]
    /\ bound' = bound

Amend(k, v) ==
    /\ k \in DOMAIN map
    /\ map' = [map EXCEPT ![k] = v]
    /\ bound' = bound

Truncate(f) == Forget({k \in Keys : k[1] > f}) /\ bound' = bound

\* Whatever fits in the new bound is kept.
Resize ==
    /\ bound' \in Nat
    /\ \E S \in SUBSET Keys :
          /\ Cardinality(DOMAIN map) <= bound' => S = {}
          /\ Forget(S)

Clear == map' = << >> /\ bound' = bound

Next ==
    \/ \E k \in Keys, v \in Inputs : Put(k, v) \/ Amend(k, v)
    \/ \E f \in Frames : Truncate(f)
    \/ Resize
    \/ Clear

Spec == Init /\ [][Next]_<<map, bound>>
=============================================================================
