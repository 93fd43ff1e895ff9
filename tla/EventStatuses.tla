--------------------------- MODULE EventStatuses ---------------------------
(***************************************************************************)
(* The statuses a sport event and a contest move through, and the moves    *)
(* the lifecycle code declares.  No state: every other module reads these. *)
(***************************************************************************)

EventStatus == {"DRAFT", "SCHEDULED", "IN_PROGRESS", "POSTPONED",
                "COMPLETED", "CANCELLED"}

ContestStatus == {"DRAFT", "OPEN", "ACTIVE", "COMPLETED"}

(* An event in one of these counts as settled: nothing leads out of it. *)
FinishedStatuses == {"COMPLETED", "CANCELLED"}

(* Statuses an event reaches only once it has started or been called off. *)
StartedStatuses == {"IN_PROGRESS", "COMPLETED", "CANCELLED"}

SPORT_EVENT_STATUS_TRANSITIONS ==
  [ DRAFT       |-> {"SCHEDULED", "CANCELLED"},
    SCHEDULED   |-> {"IN_PROGRESS", "POSTPONED", "CANCELLED"},
    IN_PROGRESS |-> {"COMPLETED", "POSTPONED", "CANCELLED"},
    POSTPONED   |-> {"SCHEDULED", "IN_PROGRESS", "CANCELLED"},
    COMPLETED   |-> {},
    CANCELLED   |-> {} ]

IsDeclaredSportEventTransition(from, to) ==
  to \in SPORT_EVENT_STATUS_TRANSITIONS[from]

(* The statuses settlement passes over, and those it may complete a contest
   from. *)
NotSettled == {"COMPLETED", "DRAFT"}
Settleable == ContestStatus \ NotSettled

(* How far along a contest is; no contest ever moves back. *)
Stage == [DRAFT |-> 0, OPEN |-> 1, ACTIVE |-> 2, COMPLETED |-> 3]
=============================================================================
