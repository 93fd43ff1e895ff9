----------------------- MODULE MCContestSettlement -----------------------
(***************************************************************************)
(* Small instances of ContestSettlement: a season pool on two events, and  *)
(* where brackets matter a second-chance bracket on the first of them.     *)
(***************************************************************************)
EXTENDS ContestSettlement, TLC

CONSTANTS e1, e2, pool, bracket, draft

AdminSymmetry == Permutations(Admins)

CoversBoth == [c \in Contests |-> IF c = bracket THEN {e1} ELSE {e1, e2}]
CoversFirst == [c \in Contests |-> {e1}]

AllDraft == [c \in Contests |-> "DRAFT"]
AllOpen == [c \in Contests |-> "OPEN"]
EachStatus == [c \in Contests |-> IF c = draft THEN "DRAFT"
                                  ELSE IF c = bracket THEN "ACTIVE" ELSE "OPEN"]
AllActive == [c \in Contests |-> "ACTIVE"]

(* Both events under way; one under way beside one still to start; one
   released beside one that is not. *)
BothUnderWay == [e \in Events |-> "IN_PROGRESS"]
FirstUnderWay == [e \in Events |-> IF e = e1 THEN "IN_PROGRESS" ELSE "SCHEDULED"]
BothScheduled == [e \in Events |-> "SCHEDULED"]
FirstReleased == [e \in Events |-> IF e = e1 THEN "SCHEDULED" ELSE "DRAFT"]

NothingStarted == [e \in Events |-> 0]
FirstOver == [e \in Events |-> IF e = e1 THEN 3 ELSE 0]
BothStarted == [e \in Events |-> 1]
BothOver == [e \in Events |-> 3]
=============================================================================
