---------------------------- MODULE MCEntryRoom ----------------------------
(***************************************************************************)
(* Small instances of EntryRoom: a contest of one or two events, two tiers *)
(* of golfers in the first event, and one golfer in the second.            *)
(***************************************************************************)
EXTENDS EntryRoom, TLC

CONSTANTS e1, e2, favourite, contender, outsider, later, front, back

FieldOf == [g \in Golfers |-> IF g = later THEN e2 ELSE e1]
TierFor == [g \in Golfers |-> IF g \in {favourite, contender} THEN front ELSE back]
PriceFor == [g \in Golfers |-> IF g = favourite THEN 2 ELSE 1]

RoomSymmetry == Permutations(Callers) \cup Permutations(Squads) \cup Permutations(Boxes)
=============================================================================
