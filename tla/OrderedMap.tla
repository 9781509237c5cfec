---------------------------- MODULE OrderedMap -----------------------------
(***************************************************************************)
(* What an ordered dictionary promises, whatever its structure: a function *)
(* from keys to entries that stay the same objects as long as they are     *)
(* there, neighbours, bounds, and an iteration in the order of the keys    *)
(* that may delete the entry it has come to.                               *)
(***************************************************************************)
EXTENDS Integers, FiniteSets, FiniteSetsExt

CONSTANTS Key, Entry          \* sets of positive integers

None == 0                     \* no entry (NULL)

\* Where an iteration is: at a key, or at one of these.
NoIteration == -1
Start == -2                   \* it has not moved yet
PastMin == -3
PastMax == -4
Over == -5                    \* past an end, and no way back

VARIABLES map, result, pos

mapVars == <<map, result, pos>>

Keys == DOMAIN map
EntryOf(k) == IF k \in Keys THEN map[k] ELSE None
Above(k) == {j \in Keys : j > k}
Below(k) == {j \in Keys : j < k}
Lowest(S) == IF S = {} THEN None ELSE map[Min(S)]
Highest(S) == IF S = {} THEN None ELSE map[Max(S)]
Without(k) == [j \in Keys \ {k} |-> map[j]]

MapInit == map = [k \in {} |-> None] /\ result = <<>> /\ pos = NoIteration

\* An entry that was not there before is a new object, and ends an iteration.
MapCreate(k) ==
    IF k \in Keys THEN result' = <<map[k]>> /\ UNCHANGED <<map, pos>>
    ELSE \E e \in Entry \ {map[j] : j \in Keys} :
           /\ map' = [j \in Keys \cup {k} |-> IF j = k THEN e ELSE map[j]]
           /\ result' = <<e>> /\ pos' = NoIteration

\* Deleting the entry the iteration has come to does not end it.
MapDelete(k) ==
    /\ result' = <<EntryOf(k)>> /\ map' = Without(k)
    /\ pos' = IF k \in Keys /\ pos # k THEN NoIteration ELSE pos

MapPop(S) == IF Keys = {} THEN result' = <<None>> /\ UNCHANGED <<map, pos>>
             ELSE \E k \in S : MapDelete(k)

MapGetBound == result' \in {<<Lowest(Keys)>>, <<Highest(Keys)>>} /\ UNCHANGED <<map, pos>>

MapNear(k) == /\ result' = <<EntryOf(k), Highest(Below(k)), Lowest(Above(k))>>
              /\ UNCHANGED <<map, pos>>

MapClear == map' = [k \in {} |-> None] /\ result' = <<>> /\ pos' = NoIteration

MapIterate(k) == /\ pos' = (IF k = Start /\ Keys = {} THEN Over ELSE k)
                 /\ result' = <<IF k = Start THEN None ELSE EntryOf(k)>>
                 /\ k # Start => k \in Keys
                 /\ UNCHANGED map

\* One step of an iteration towards `ahead', away from `behind'.  An iteration that leaves
\* an end from an entry that is deleted, or the only one, or a second time, is over.
MapAdvance(ahead(_), end, otherEnd) ==
    LET here == IF pos \in {Start, otherEnd} THEN Keys
                ELSE IF pos \in {end, Over} THEN {} ELSE ahead(pos)
        lost == \/ pos \in {Start, end, otherEnd, Over}
                \/ pos \notin Keys \/ Keys = {pos}
    IN  /\ pos # NoIteration /\ UNCHANGED map
        /\ IF here = {} THEN result' = <<None>> /\ pos' = IF lost THEN Over ELSE end
           ELSE LET k == IF end = PastMax THEN Min(here) ELSE Max(here)
                IN  result' = <<map[k]>> /\ pos' = k

MapNext == MapAdvance(Above, PastMax, PastMin)
MapPrev == MapAdvance(Below, PastMin, PastMax)

MapStep ==
    \/ \E k \in Key : MapCreate(k) \/ MapDelete(k) \/ MapNear(k) \/ MapIterate(k)
    \/ MapPop({Min(Keys)}) \/ MapPop({Max(Keys)})
    \/ MapGetBound \/ MapClear \/ MapIterate(Start) \/ MapNext \/ MapPrev

MapSpec == MapInit /\ [][MapStep]_mapVars
=============================================================================
