------------------------- MODULE ContestSettlement -------------------------
(***************************************************************************)
(* Sport events, the contests played on them, and settlement.              *)
(*                                                                         *)
(* An event's status is moved by admins and by the lifecycle sweep of each *)
(* server task; the write is guarded, and the side effects that follow it  *)
(* (a released edition joining template contests, contests going live,     *)
(* contests settling) run after it, outside any transaction, one database  *)
(* call at a time.  Each call is an action here, so everything another     *)
(* caller can do between two of them, and a failure after any of them, is  *)
(* a behaviour of the model.                                               *)
(*                                                                         *)
(* Scores are abstracted to versions: score[e] counts the corrections of   *)
(* event e's results, and a stored standing is the version it was computed *)
(* from, 0 when there is no row.  Entries are abstracted away: a contest   *)
(* has at least one submitted entry, and its rows are written together.    *)
(***************************************************************************)
EXTENDS EventStatuses, Naturals, FiniteSets

CONSTANTS
  Events, Contests,
  Admins,           \* requests in flight from admins and commissioners
  Tasks,            \* the server tasks, each running the lifecycle sweep
  NoTask,           \* the sweep's job lock is free
  Brackets,         \* contests on one knockout event
  LateCutoff,       \* second-chance brackets, live from a later round
  Unscorable,       \* contests whose scoring rules are missing or invalid
  Template,         \* contests whose template covers the events' series, and
                    \*   whose rules fit every edition of it
  Editable,         \* contests whose events the commissioner changes
  AutoEvents,       \* events with autoLifecycleEnabled
  InitialEvents,    \* the events each contest starts with,
  InitialContest,   \*   and its status
  InitialStatus,    \* each event's status to start with,
  InitialPhase,     \*   and how far the clock is through its schedule
  Overlap,          \* FALSE: a caller starts only while no other is at work
  MaxRequests,      \* bound: requests started
  MaxFaults,        \* bound: failed calls and crashes
  MaxDrops,         \* bound: drops of the job lock's connection
  MaxScore          \* bound: the last version of an event's scores

Callers == Admins \cup Tasks
Versions == 0..MaxScore
Result == [Events -> Versions]
Nothing == [e \in Events |-> 0]

ASSUME CallersAssumption == Admins \cap Tasks = {} /\ NoTask \notin Tasks
ASSUME SetsAssumption ==
  /\ Events # {} /\ Contests # {}
  /\ LateCutoff \subseteq Brackets /\ Brackets \subseteq Contests
  /\ Template \subseteq Contests \ Brackets
  /\ Editable \subseteq Contests \ Brackets
  /\ AutoEvents \subseteq Events
ASSUME InitialAssumption ==
  /\ InitialEvents \in [Contests -> SUBSET Events]
  /\ InitialContest \in [Contests -> ContestStatus \ {"COMPLETED"}]
  /\ InitialStatus \in [Events -> EventStatus \ FinishedStatuses]
  /\ InitialPhase \in [Events -> 0..3]
ASSUME BoundsAssumption ==
  /\ MaxRequests \in Nat /\ MaxFaults \in Nat /\ MaxDrops \in Nat /\ MaxScore \in Nat \ {0}
  /\ Overlap \in BOOLEAN

(* An event's schedule: its start is ahead, it has started, its later
   rounds have started, its last round is over. *)
Ahead == 0
Started == 1
LaterRounds == 2
Over == 3
Phases == Ahead..Over

VARIABLES
  eventStatus,     \* SportEvent.status
  phase,           \* how far the clock is through the event's schedule
  score,           \* the version of the event's recorded results
  contestStatus,   \* Contest.status
  contestEvents,   \* ContestSportEvent rows: the events a contest covers
  frozen,          \* ContestEntryEventStanding rows, by contest and event
  total,           \* ContestEntryStanding rows: the event scores they sum
  finishes,        \* championship finishes: the event scores they rank
  mail,            \* final results emails queued, by contest
  lock,            \* the task whose session holds the sweep's advisory lock
  pc, job,         \* where each caller is, and what it has read so far
  requests, faults, drops \* counters of the bounds

stored == <<frozen, total, finishes, mail>>
bounds == <<requests, faults, drops>>
vars == <<eventStatus, phase, score, contestStatus, contestEvents, stored,
          lock, pc, job, bounds>>

Location ==
  {"idle", "sweep", "finish", "write", "join", "joinNext", "editWrite",
   "openWrite", "activate", "activateWrite", "field", "contests", "known",
   "next", "freezeRead", "freeze", "check", "sum", "totalRead", "total",
   "final", "finishes", "complete", "tell"}

(* What a sweep reads of an event it may move. *)
Candidate == [event : Events, status : {"SCHEDULED", "IN_PROGRESS"},
              phase : Phases]

Job ==
  [ event : Events, from : EventStatus, to : EventStatus,
    batch : SUBSET Contests,            \* contests left to act on
    lists : [Contests -> SUBSET Events],\* their events as they were read
    known : SUBSET Contests,            \* contests settled for the event
    memo : [Events -> EventStatus \cup {"UNREAD"}], \* events read once
    version : Versions,                 \* the event's field as it was read
    games : Versions,                   \* its games, read once, 0 unread
    current : Contests, target : SUBSET Events,
    plan : {"create", "update", "keep"}, \* what becomes of the rows to write
    result : Result,                    \* the scores being carried
    clock : Phases,                     \* the schedule when it looked at the clock
    release : BOOLEAN,                  \* the write is "Release for contests"
    due : BOOLEAN,                      \* a sweep is to complete the event
    sweep : SUBSET Candidate ]          \* candidates left in the sweep

Blank ==
  [ event |-> CHOOSE e \in Events : TRUE, from |-> "DRAFT", to |-> "DRAFT",
    batch |-> {}, lists |-> [c \in Contests |-> {}], known |-> {},
    memo |-> [e \in Events |-> "UNREAD"], version |-> 0, games |-> 0,
    current |-> CHOOSE c \in Contests : TRUE, target |-> {},
    plan |-> "create", result |-> Nothing, clock |-> Ahead, release |-> FALSE, due |-> FALSE,
    sweep |-> {} ]

TypeOK ==
  /\ eventStatus \in [Events -> EventStatus]
  /\ phase \in [Events -> Phases]
  /\ score \in [Events -> 1..MaxScore]
  /\ contestStatus \in [Contests -> ContestStatus]
  /\ contestEvents \in [Contests -> SUBSET Events]
  /\ frozen \in [Contests -> Result]
  /\ total \in [Contests -> Result]
  /\ finishes \in [Contests -> Result]
  /\ mail \in [Contests -> Nat]
  /\ lock \in Tasks \cup {NoTask}
  /\ pc \in [Callers -> Location]
  /\ job \in [Callers -> Job]
  /\ requests \in 0..MaxRequests
  /\ faults \in 0..MaxFaults
  /\ drops \in 0..MaxDrops

Init ==
  /\ eventStatus = InitialStatus
  /\ phase = InitialPhase
  /\ score = [e \in Events |-> 1]
  /\ contestStatus = InitialContest
  /\ contestEvents = InitialEvents
  /\ frozen = [c \in Contests |-> Nothing]
  /\ total = [c \in Contests |-> Nothing]
  /\ finishes = [c \in Contests |-> Nothing]
  /\ mail = [c \in Contests |-> 0]
  /\ lock = NoTask
  /\ pc = [p \in Callers |-> "idle"]
  /\ job = [p \in Callers |-> Blank]
  /\ requests = 0 /\ faults = 0 /\ drops = 0

-----------------------------------------------------------------------------
(* Where a caller goes. *)

Goto(p, next, j) == pc' = [pc EXCEPT ![p] = next] /\ job' = [job EXCEPT ![p] = j]

(* A request answers; a sweep goes on to its next candidate. *)
Return(p) == Goto(p, IF p \in Tasks THEN "sweep" ELSE "idle",
                  [Blank EXCEPT !.sweep = job[p].sweep])

MayStart(p) == /\ pc[p] = "idle"
               /\ Overlap \/ \A q \in Callers : pc[q] = "idle"

Request(a, next, j) == /\ a \in Admins /\ MayStart(a)
                       /\ requests < MaxRequests
                       /\ requests' = requests + 1
                       /\ Goto(a, next, j)
                       /\ UNCHANGED <<faults, drops>>

(* Past the cutoff of contests that close at the event's start. *)
HasSportEventStarted(e) == phase[e] >= Started \/ eventStatus[e] \in StartedStatuses

CutoffPassed(c, e) ==
  IF c \in LateCutoff
  THEN phase[e] >= LaterRounds \/ eventStatus[e] \in FinishedStatuses
  ELSE HasSportEventStarted(e)

-----------------------------------------------------------------------------
(* The world: the clock, and the results recorded for an event under way or
   corrected after it. *)

TimePasses(e) == /\ phase[e] < Over
                 /\ phase' = [phase EXCEPT ![e] = @ + 1]
                 /\ UNCHANGED <<eventStatus, score, contestStatus, contestEvents,
                                stored, lock, pc, job, bounds>>

CorrectScore(e) == /\ eventStatus[e] \in {"IN_PROGRESS", "COMPLETED"}
                   /\ score[e] < MaxScore
                   /\ score' = [score EXCEPT ![e] = @ + 1]
                   /\ UNCHANGED <<eventStatus, phase, contestStatus, contestEvents,
                                  stored, lock, pc, job, bounds>>

-----------------------------------------------------------------------------
(* EventLifecycleService.applySportEventStatusTransition. *)

(* An admin asks for a status.  The event's own status is always allowed:
   that is how a failed settlement is run again. *)
RequestTransition(a, e, to) ==
  /\ \/ to = eventStatus[e]
     \/ IsDeclaredSportEventTransition(eventStatus[e], to)
  /\ ~(eventStatus[e] = "DRAFT" /\ to = "SCHEDULED")
  /\ Request(a, "write", [Blank EXCEPT !.event = e, !.from = eventStatus[e], !.to = to])
  /\ UNCHANGED <<eventStatus, phase, score, contestStatus, contestEvents, stored, lock>>

(* "Release for contests": the one way from DRAFT to SCHEDULED.  It looks at
   the event twice; by the second read, which the write is held to, another
   release may have been through. *)
SeenReleasable(e) ==
  IF Overlap THEN InitialStatus[e] = "DRAFT" /\ InitialPhase[e] = Ahead
  ELSE eventStatus[e] = "DRAFT" /\ phase[e] = Ahead

RequestRelease(a, e) ==
  /\ SeenReleasable(e)
  /\ eventStatus[e] # "SCHEDULED" =>
       IsDeclaredSportEventTransition(eventStatus[e], "SCHEDULED")
  /\ Request(a, "write", [Blank EXCEPT !.event = e, !.from = eventStatus[e],
                                       !.to = "SCHEDULED", !.release = TRUE])
  /\ UNCHANGED <<eventStatus, phase, score, contestStatus, contestEvents, stored, lock>>

(* What follows the write of a status; "" when nothing does. *)
SideEffectOnCompletion(j) ==
  IF j.release /\ j.to = "SCHEDULED" THEN "join"
  ELSE IF j.to = "IN_PROGRESS" THEN "activate"
  ELSE IF j.to = "COMPLETED" THEN "field" ELSE ""
SideEffect(j) ==
  IF j.release /\ j.to = "SCHEDULED" THEN "join"
  ELSE IF j.to = "IN_PROGRESS" THEN "activate"
  ELSE IF j.to \in FinishedStatuses THEN "field"
  ELSE ""

(* The status is written only while the event is still where it was read. *)
StillAtUnguarded(j) == TRUE
StillAt(j) == eventStatus[j.event] = j.from

WriteStatus(p) ==
  /\ pc[p] = "write"
  /\ LET j == job[p] IN
       IF StillAt(j)
       THEN /\ eventStatus' = [eventStatus EXCEPT ![j.event] = j.to]
            /\ IF SideEffect(j) = "" THEN Return(p)
               ELSE Goto(p, SideEffect(j), [j EXCEPT !.clock = phase[j.event]])
       ELSE Return(p) /\ UNCHANGED eventStatus
  /\ UNCHANGED <<phase, score, contestStatus, contestEvents, stored, lock, bounds>>

-----------------------------------------------------------------------------
(* activateContestsPastCutoff: the event's OPEN contests that are due by the
   caller's clock are read, then go live in one guarded write for each moment
   they close at. *)

Activate(p) ==
  /\ pc[p] = "activate"
  /\ LET e == job[p].event
         due == {c \in Contests : /\ e \in contestEvents[c]
                                  /\ contestStatus[c] = "OPEN"
                                  /\ c \in LateCutoff => job[p].clock >= LaterRounds}
     IN Goto(p, "activateWrite", [job[p] EXCEPT !.batch = due])
  /\ UNCHANGED <<eventStatus, phase, score, contestStatus, contestEvents,
                 stored, lock, bounds>>

StartableAlways(c) == TRUE
Startable(c) == contestStatus[c] = "OPEN"

ActivateWrite(p) ==
  /\ pc[p] = "activateWrite"
  /\ IF job[p].batch = {}
     THEN /\ IF job[p].due THEN Goto(p, "finish", job[p]) ELSE Return(p)
          /\ UNCHANGED contestStatus
     ELSE \E late \in BOOLEAN :
            LET group == {c \in job[p].batch : (c \in LateCutoff) = late} IN
            /\ group # {}
            /\ contestStatus' = [c \in Contests |->
                 IF c \in group /\ Startable(c) THEN "ACTIVE" ELSE contestStatus[c]]
            /\ Goto(p, "activateWrite", [job[p] EXCEPT !.batch = @ \ group])
  /\ UNCHANGED <<eventStatus, phase, score, contestEvents, stored, lock, bounds>>

-----------------------------------------------------------------------------
(* settleFinishedSportEvent, one database call at a time. *)

(* The finished event and its field, read once.  A cancelled event's field is
   not loaded, and nothing below scores it. *)
ReadField(p) ==
  /\ pc[p] = "field"
  /\ LET e == job[p].event IN
       Goto(p, "contests", [job[p] EXCEPT !.version = score[e],
                                          !.memo[e] = eventStatus[e]])
  /\ UNCHANGED <<eventStatus, phase, score, contestStatus, contestEvents,
                 stored, lock, bounds>>

(* findBySportEvent: the event's contests that are not settled, as they are
   now.  Everything below runs on this copy. *)
UnsettledWithDrafts(e) == {c \in Contests : e \in contestEvents[c] /\ contestStatus[c] # "COMPLETED"}
Unsettled(e) == {c \in Contests : e \in contestEvents[c] /\ contestStatus[c] \notin NotSettled}

ReadContests(p) ==
  /\ pc[p] = "contests"
  /\ Goto(p, "known", [job[p] EXCEPT !.batch = Unsettled(job[p].event),
                                     !.lists = contestEvents])
  /\ UNCHANGED <<eventStatus, phase, score, contestStatus, contestEvents,
                 stored, lock, bounds>>

(* findContestsSettledFor: those whose standings for the event are frozen. *)
ReadSettledFor(p) ==
  /\ pc[p] = "known"
  /\ Goto(p, "next", [job[p] EXCEPT !.known =
            {c \in job[p].batch : frozen[c][job[p].event] # 0}])
  /\ UNCHANGED <<eventStatus, phase, score, contestStatus, contestEvents,
                 stored, lock, bounds>>

(* The first step of a contest's settlement: "" passes it over. *)
FreezesCancelled(j, c) == c \notin j.known
Freezes(j, c) == j.to # "CANCELLED" /\ c \notin j.known

FirstStepUncancelled(j, c) ==
  IF c \in Unscorable THEN "" ELSE IF c \in Brackets \/ Freezes(j, c) THEN "freezeRead" ELSE "check"
FirstStep(j, c) ==
  IF c \in Brackets
  THEN IF j.to = "CANCELLED" THEN "final" ELSE IF c \in Unscorable THEN "" ELSE "freezeRead"
  ELSE IF c \in Unscorable THEN "" ELSE IF Freezes(j, c) THEN "freezeRead" ELSE "check"

NextContest(p) ==
  /\ pc[p] = "next"
  /\ IF job[p].batch = {}
     THEN Return(p)
     ELSE \E c \in job[p].batch :
            LET j == [job[p] EXCEPT !.batch = @ \ {c}, !.current = c] IN
            IF FirstStep(j, c) = "" THEN Goto(p, "next", j)
            ELSE Goto(p, FirstStep(j, c),
                   [j EXCEPT !.result = Nothing, !.plan = "create",
                      !.games = IF FirstStep(j, c) = "freezeRead" /\ c \in Brackets /\ @ = 0
                                THEN score[j.event] ELSE @])
  /\ UNCHANGED <<eventStatus, phase, score, contestStatus, contestEvents,
                 stored, lock, bounds>>

(* upsertMany reads the stored rows and plans: missing rows are created, those
   that differ are updated, and those that do not are left out.  Rows of the
   same scores still differ when they were settled at another time. *)
Plans(old, new, none) == IF old = none THEN {"create"}
                         ELSE IF old = new THEN {"update", "keep"} ELSE {"update"}

(* Then it writes in one transaction, creating no row created meanwhile. *)
Upsert(old, new, none, plan) ==
  IF plan = "keep" \/ (plan = "create" /\ old # none) THEN old ELSE new

GradedLate(j) == IF j.current \in Brackets THEN j.games ELSE j.version + 1
Graded(j) == IF j.current \in Brackets THEN j.games ELSE j.version

ReadFrozen(p) ==
  /\ pc[p] = "freezeRead"
  /\ LET j == job[p] IN
       \E plan \in Plans(frozen[j.current][j.event], Graded(j), 0) :
         Goto(p, "freeze", [j EXCEPT !.plan = plan])
  /\ UNCHANGED <<eventStatus, phase, score, contestStatus, contestEvents,
                 stored, lock, bounds>>

WriteFrozen(p) ==
  /\ pc[p] = "freeze"
  /\ LET j == job[p]  c == j.current  e == j.event IN
       /\ frozen' = [frozen EXCEPT ![c][e] = Upsert(@, Graded(j), 0, j.plan)]
       /\ IF c \in Brackets
          THEN Goto(p, "totalRead", [j EXCEPT !.result = [Nothing EXCEPT ![e] = Graded(j)]])
          ELSE Goto(p, "check", j)
  /\ UNCHANGED <<eventStatus, phase, score, contestStatus, contestEvents,
                 total, finishes, mail, lock, bounds>>

(* allEventsFinished: the events the contest covered when it was read, each
   read once in a settlement however many contests ask. *)
RecallNothing(j) == j.memo
Recall(j) == [e \in Events |->
  IF e \in j.lists[j.current] /\ j.memo[e] = "UNREAD" THEN eventStatus[e] ELSE j.memo[e]]

OwnEventFinished(j) == j.memo[j.event] \in FinishedStatuses
AllEventsFinished(j) == \A e \in j.lists[j.current] : j.memo[e] \in FinishedStatuses

Check(p) ==
  /\ pc[p] = "check"
  /\ LET j == [job[p] EXCEPT !.memo = Recall(job[p])] IN
       Goto(p, IF AllEventsFinished(j) THEN "sum" ELSE "next", j)
  /\ UNCHANGED <<eventStatus, phase, score, contestStatus, contestEvents,
                 stored, lock, bounds>>

(* settleContestTotals: every frozen event standing of the contest, summed;
   nothing to write when there is none. *)
SumTotals(p) ==
  /\ pc[p] = "sum"
  /\ LET sum == frozen[job[p].current] IN
       Goto(p, IF sum = Nothing THEN "final" ELSE "totalRead",
            [job[p] EXCEPT !.result = sum])
  /\ UNCHANGED <<eventStatus, phase, score, contestStatus, contestEvents,
                 stored, lock, bounds>>

ReadTotal(p) ==
  /\ pc[p] = "totalRead"
  /\ LET j == job[p] IN
       \E plan \in Plans(total[j.current], j.result, Nothing) :
         Goto(p, "total", [j EXCEPT !.plan = plan])
  /\ UNCHANGED <<eventStatus, phase, score, contestStatus, contestEvents,
                 stored, lock, bounds>>

WriteTotal(p) ==
  /\ pc[p] = "total"
  /\ LET j == job[p] IN
       /\ total' = [total EXCEPT ![j.current] = Upsert(@, j.result, Nothing, j.plan)]
       /\ Goto(p, "final", j)
  /\ UNCHANGED <<eventStatus, phase, score, contestStatus, contestEvents,
                 frozen, finishes, mail, lock, bounds>>

(* complete: the final places are read back, the championship finishes are
   written before the contest is completed, and the league is told by the
   caller whose write completed it. *)
ReadFinal(p) ==
  /\ pc[p] = "final"
  /\ Goto(p, "finishes", [job[p] EXCEPT !.result = total[job[p].current]])
  /\ UNCHANGED <<eventStatus, phase, score, contestStatus, contestEvents,
                 stored, lock, bounds>>

(* recordFinishes skips rows that exist: the first write stands. *)
RecordedLast(old, new) == new
Recorded(old, new) == IF old = Nothing THEN new ELSE old

RecordFinishes(p) ==
  /\ pc[p] = "finishes"
  /\ LET j == job[p] IN
       /\ finishes' = [finishes EXCEPT ![j.current] = Recorded(@, j.result)]
       /\ Goto(p, "complete", j)
  /\ UNCHANGED <<eventStatus, phase, score, contestStatus, contestEvents,
                 frozen, total, mail, lock, bounds>>

CompletableAlways(c) == TRUE
Completable(c) == contestStatus[c] \in Settleable

Complete(p) ==
  /\ pc[p] = "complete"
  /\ LET c == job[p].current IN
       IF Completable(c)
       THEN /\ contestStatus' = [contestStatus EXCEPT ![c] = "COMPLETED"]
            /\ Goto(p, "tell", job[p])
       ELSE Goto(p, "next", job[p]) /\ UNCHANGED contestStatus
  /\ UNCHANGED <<eventStatus, phase, score, contestEvents, stored, lock, bounds>>

TellSettled(p) ==
  /\ pc[p] = "tell"
  /\ mail' = [mail EXCEPT ![job[p].current] = @ + 1]
  /\ Goto(p, "next", job[p])
  /\ UNCHANGED <<eventStatus, phase, score, contestStatus, contestEvents,
                 frozen, total, finishes, lock, bounds>>

-----------------------------------------------------------------------------
(* The commissioner's changes: a check, then a write. *)

RequestOpen(a, c) ==
  /\ contestStatus[c] = "DRAFT"
  /\ \A e \in contestEvents[c] : ~CutoffPassed(c, e)
  /\ Request(a, "openWrite", [Blank EXCEPT !.current = c])
  /\ UNCHANGED <<eventStatus, phase, score, contestStatus, contestEvents, stored, lock>>

OpenWrite(p) ==
  /\ pc[p] = "openWrite"
  /\ LET c == job[p].current IN
       contestStatus' = [contestStatus EXCEPT ![c] = IF @ = "DRAFT" THEN "OPEN" ELSE @]
  /\ Return(p)
  /\ UNCHANGED <<eventStatus, phase, score, contestEvents, stored, lock, bounds>>

(* setContestSportEvents: nothing is removed once an event has started, and
   what is added is released and has not. *)
MaySetEventsOfFinal(c, target) ==
  \A e \in target \ contestEvents[c] :
    eventStatus[e] # "DRAFT" /\ ~HasSportEventStarted(e)
MaySetEvents(c, target) ==
  /\ contestStatus[c] # "COMPLETED"
  /\ \/ contestEvents[c] \subseteq target
     \/ \A e \in contestEvents[c] : ~HasSportEventStarted(e)
  /\ \A e \in target \ contestEvents[c] :
       eventStatus[e] # "DRAFT" /\ ~HasSportEventStarted(e)

RequestEvents(a, c, target) ==
  /\ c \in Editable
  /\ target # {}
  /\ MaySetEvents(c, target)
  /\ Request(a, "editWrite", [Blank EXCEPT !.current = c, !.target = target])
  /\ UNCHANGED <<eventStatus, phase, score, contestStatus, contestEvents, stored, lock>>

(* replaceSportEvents, whatever has become of the contest since the check. *)
WriteEvents(p) ==
  /\ pc[p] = "editWrite"
  /\ contestEvents' = [contestEvents EXCEPT ![job[p].current] = job[p].target]
  /\ Goto(p, "joinNext", job[p])
  /\ UNCHANGED <<eventStatus, phase, score, contestStatus, stored, lock, bounds>>

(* addReleasedEditionToTemplateContests: the contests that can take the
   edition are read, and each is asked to cover the events it was read with
   and the edition; one its rules refuse is passed over. *)
FindJoinable(p) ==
  /\ pc[p] = "join"
  /\ Goto(p, "joinNext", [job[p] EXCEPT
         !.batch = {c \in Template : /\ contestStatus[c] # "COMPLETED"
                                     /\ job[p].event \notin contestEvents[c]},
         !.lists = contestEvents])
  /\ UNCHANGED <<eventStatus, phase, score, contestStatus, contestEvents,
                 stored, lock, bounds>>

JoinNext(p) ==
  /\ pc[p] = "joinNext"
  /\ IF job[p].batch = {}
     THEN Return(p)
     ELSE \E c \in job[p].batch :
            LET target == job[p].lists[c] \cup {job[p].event}
                j == [job[p] EXCEPT !.batch = @ \ {c}]
            IN IF MaySetEvents(c, target)
               THEN Goto(p, "editWrite", [j EXCEPT !.current = c, !.target = target])
               ELSE Goto(p, "joinNext", j)
  /\ UNCHANGED <<eventStatus, phase, score, contestStatus, contestEvents,
                 stored, lock, bounds>>

-----------------------------------------------------------------------------
(* EventLifecycleScheduler: a sweep on the task that holds the job lock. *)

MayHoldAny(t) == TRUE
MayHoldUnlessLost(t) == lock = t \/ (lock = NoTask /\ drops = 0)
MayHold(t) == lock \in {NoTask, t}

(* runExclusive and the read of the candidates: the status and schedule each
   event has now. *)
Candidates ==
  {[event |-> e, status |-> eventStatus[e], phase |-> phase[e]] :
     e \in {x \in AutoEvents : eventStatus[x] \in {"SCHEDULED", "IN_PROGRESS"}}}

StartSweep(t) ==
  /\ t \in Tasks /\ MayStart(t) /\ MayHold(t)
  /\ lock' = t
  /\ Goto(t, "sweep", [Blank EXCEPT !.sweep = Candidates])
  /\ UNCHANGED <<eventStatus, phase, score, contestStatus, contestEvents, stored, bounds>>

(* applyDueTransition for a SCHEDULED event: to IN_PROGRESS once it is due. *)
SweepScheduled(t, x) ==
  /\ x.status = "SCHEDULED"
  /\ LET j == [Blank EXCEPT !.sweep = job[t].sweep \ {x}] IN
       IF x.phase >= Started /\ eventStatus[x.event] = "SCHEDULED"
       THEN Goto(t, "write", [j EXCEPT !.event = x.event, !.from = "SCHEDULED",
                                       !.to = "IN_PROGRESS"])
       ELSE Goto(t, "sweep", j)

(* For an event in progress: contests past their cutoff go live, and then,
   once its last round is over, the event completes. *)
SweepInProgress(t, x) ==
  /\ x.status = "IN_PROGRESS"
  /\ Goto(t, "activate",
          [Blank EXCEPT !.sweep = job[t].sweep \ {x}, !.event = x.event,
             !.from = "IN_PROGRESS", !.to = "IN_PROGRESS",
             !.clock = x.phase, !.due = (x.phase = Over)])

SweepNext(t) ==
  /\ pc[t] = "sweep"
  /\ \/ \E x \in job[t].sweep : SweepScheduled(t, x) \/ SweepInProgress(t, x)
     \/ job[t].sweep = {} /\ Goto(t, "idle", Blank)
  /\ UNCHANGED <<eventStatus, phase, score, contestStatus, contestEvents,
                 stored, lock, bounds>>

SweepFinish(t) ==
  /\ pc[t] = "finish"
  /\ LET j == job[t] IN
       IF eventStatus[j.event] = "IN_PROGRESS"
       THEN Goto(t, "write", [j EXCEPT !.to = "COMPLETED", !.due = FALSE])
       ELSE Return(t)
  /\ UNCHANGED <<eventStatus, phase, score, contestStatus, contestEvents,
                 stored, lock, bounds>>

-----------------------------------------------------------------------------
(* What fails. *)

Fault == faults < MaxFaults /\ faults' = faults + 1 /\ UNCHANGED <<requests, drops>>

(* A call fails.  A request answers with the error, a sweep goes on with its
   next candidate, and a failed results email is only logged. *)
Throw(p) ==
  /\ pc[p] \notin {"idle", "sweep"}
  /\ Fault
  /\ IF pc[p] = "tell" THEN Goto(p, "next", job[p]) ELSE Return(p)
  /\ UNCHANGED <<eventStatus, phase, score, contestStatus, contestEvents, stored, lock>>

(* The process dies; its database sessions close with it. *)
Crash(p) ==
  /\ pc[p] # "idle"
  /\ Fault
  /\ Goto(p, "idle", Blank)
  /\ lock' = IF lock = p THEN NoTask ELSE lock
  /\ UNCHANGED <<eventStatus, phase, score, contestStatus, contestEvents, stored>>

(* The lock's connection drops: Postgres frees the lock while the sweep that
   took it goes on. *)
DropLock(t) ==
  /\ lock = t
  /\ drops < MaxDrops
  /\ drops' = drops + 1
  /\ lock' = NoTask
  /\ UNCHANGED <<eventStatus, phase, score, contestStatus, contestEvents,
                 stored, pc, job, requests, faults>>

-----------------------------------------------------------------------------
Settle(p) == \/ ReadField(p) \/ ReadContests(p) \/ ReadSettledFor(p)
             \/ NextContest(p) \/ ReadFrozen(p) \/ WriteFrozen(p)
             \/ Check(p) \/ SumTotals(p) \/ ReadTotal(p) \/ WriteTotal(p)
             \/ ReadFinal(p) \/ RecordFinishes(p) \/ Complete(p) \/ TellSettled(p)

Work(p) == \/ WriteStatus(p) \/ Activate(p) \/ ActivateWrite(p) \/ Settle(p)
           \/ OpenWrite(p) \/ WriteEvents(p) \/ FindJoinable(p) \/ JoinNext(p)
           \/ SweepNext(p) \/ SweepFinish(p)

Ask(a) == \/ \E e \in Events : \/ RequestRelease(a, e)
                               \/ \E to \in EventStatus : RequestTransition(a, e, to)
          \/ \E c \in Contests : \/ RequestOpen(a, c)
                                 \/ \E es \in SUBSET Events : RequestEvents(a, c, es)

World == \E e \in Events : TimePasses(e) \/ CorrectScore(e)

Fail == \/ \E p \in Callers : Throw(p) \/ Crash(p)
        \/ \E t \in Tasks : DropLock(t)

Next == \/ World
        \/ \E a \in Admins : Ask(a)
        \/ \E t \in Tasks : StartSweep(t)
        \/ \E p \in Callers : Work(p)
        \/ Fail

Spec == Init /\ [][Next]_vars

(* A request under way is carried on, and each task's timer keeps firing. *)
Fairness == /\ \A p \in Callers : WF_vars(Work(p))
            /\ \A t \in Tasks : WF_vars(StartSweep(t))

FairSpec == Spec /\ Fairness

-----------------------------------------------------------------------------
(* Properties that hold whatever overlaps and whatever fails. *)

(* An event's status moves only as SPORT_EVENT_STATUS_TRANSITIONS declares,
   although every caller decides on a status it read earlier: nothing brings
   a finished event back, and of two callers racing one stops
   (applySportEventStatusTransition, #1159). *)
EventMovesAsDeclared ==
  [][\A e \in Events : eventStatus'[e] # eventStatus[e] =>
       IsDeclaredSportEventTransition(eventStatus[e], eventStatus'[e])]_vars

(* A contest only moves forward, one stage at a time or straight to COMPLETED
   from OPEN, and nothing reopens a completed one: the activation, opening and
   completion writes all act on a status read earlier. *)
ContestMovesForward ==
  [][\A c \in Contests : contestStatus'[c] # contestStatus[c] =>
       /\ Stage[contestStatus'[c]] > Stage[contestStatus[c]]
       /\ contestStatus[c] = "DRAFT" => contestStatus'[c] = "OPEN"]_vars

(* Once written, a contest's championship finishes never change, whoever
   settles it again (recordFinishes). *)
FinishesStand ==
  [][\A c \in Contests : finishes[c] # Nothing => finishes'[c] = finishes[c]]_vars

(* The final results go out at most once for a contest, and only once it is
   final, however many settlements complete it at once. *)
ResultsToldOnce ==
  \A c \in Contests : /\ mail[c] <= 1
                      /\ mail[c] = 1 => contestStatus[c] = "COMPLETED"

(* A draft contest on a finished event is left alone by settlement: it holds
   no standings and no finishes. *)
DraftHoldsNoResult ==
  \A c \in Contests : contestStatus[c] = "DRAFT" =>
    frozen[c] = Nothing /\ total[c] = Nothing /\ finishes[c] = Nothing

(* A cancelled event is never scored, and an event is scored only once it has
   completed: no frozen standing, no total and no finish counts another event
   (#743). *)
OnlyCompletedScored ==
  \A c \in Contests, e \in Events :
    frozen[c][e] # 0 \/ total[c][e] # 0 \/ finishes[c][e] # 0
      => eventStatus[e] = "COMPLETED"

(* A contest's result waits for the last of its events: nothing is totalled,
   no finish is written and the contest does not complete while an event it
   covers is still to finish (allEventsFinished, on statuses read earlier).
   It holds while nobody changes the contest's events. *)
ResultsWaitForEveryEvent ==
  \A c \in Contests :
    \/ total[c] # Nothing \/ finishes[c] # Nothing \/ contestStatus[c] = "COMPLETED"
    => \A e \in contestEvents[c] : eventStatus[e] \in FinishedStatuses

-----------------------------------------------------------------------------
(* Properties that need calls not to fail. *)

AllFinished(c) == \A e \in contestEvents[c] : eventStatus[e] \in FinishedStatuses

(* With nobody at work, no contest is left open or live on events that have
   all finished: a finished event must not hold a contest open (#743). *)
NothingStranded ==
  faults = 0 /\ (\A p \in Callers : pc[p] \in {"idle", "sweep"}) =>
    \A c \in Contests \ Unscorable :
      AllFinished(c) => contestStatus[c] \notin Settleable

(* The last event's settlement completes the contest, even when its events
   finish at once and each settlement runs beside the other's, unless a call
   of it fails. *)
FinishedContestCompletes ==
  \A c \in Contests \ Unscorable :
    (contestStatus[c] \in Settleable /\ AllFinished(c))
      ~> (contestStatus[c] = "COMPLETED" \/ faults > 0)

(* An event past its start is started by a sweep, whichever task holds the
   job lock, unless an admin moves it first: when the task that holds the lock
   dies or loses it, another takes the sweep over. *)
DueEventStarts ==
  \A e \in AutoEvents :
    (eventStatus[e] = "SCHEDULED" /\ phase[e] >= Started) ~> eventStatus[e] # "SCHEDULED"

(* One task sweeps at a time while no lock connection is lost (#1159). *)
OneSweep ==
  faults + drops = 0 => \A t, u \in Tasks : pc[t] # "idle" /\ pc[u] # "idle" => t = u

-----------------------------------------------------------------------------
(* What the documentation says and the code does not keep to. *)

(* "Each event's standings freeze ... when that event settles, and the contest
   itself settles when its last event does": a completed contest's total
   counts every event of it that completed.  A settlement that fails after
   the event's status is written leaves that event out for good. *)
CompletedCountsEveryEvent ==
  \A c \in Contests : contestStatus[c] = "COMPLETED" =>
    \A e \in contestEvents[c] : eventStatus[e] = "COMPLETED" => total[c][e] # 0

(* "A contest already COMPLETED is skipped, so re-settling cannot rewrite it":
   the standings of a completed contest do not change.  A second settlement
   that read the contest before the first completed it does rewrite them. *)
CompletedIsNotRewritten ==
  [][\A c \in Contests : contestStatus[c] = "COMPLETED" =>
       frozen'[c] = frozen[c] /\ total'[c] = total[c]]_vars

-----------------------------------------------------------------------------
(* Why the safety properties hold: what a caller may rely on at each place,
   although what it read to get there may no longer be so. *)

(* The places of a settlement; those from which its list of contests is read;
   those where it is at work on one of them; those that freeze standings. *)
Working == {"freezeRead", "freeze", "check", "sum", "totalRead", "total",
            "final", "finishes", "complete", "tell"}
Listed == Working \cup {"known", "next"}
Settling == Listed \cup {"field", "contests"}
Freezing == {"freezeRead", "freeze"}
Carrying == {"totalRead", "total", "finishes"}

(* A caller at l with job j, while events and contests are where es and cs say:
   a status is written only where the transitions declare it; a settlement is
   of an event that stays finished; no contest it works on is a draft again;
   the scores it carries are of completed events. *)
Sound(l, j, es, cs) ==
  /\ j.due => j.from = "IN_PROGRESS"
  /\ l = "finish" => j.due
  /\ l = "write" => j.to = j.from \/ IsDeclaredSportEventTransition(j.from, j.to)
  /\ l \in Settling => j.to \in FinishedStatuses /\ es[j.event] = j.to
  /\ l \in Freezing => j.to = "COMPLETED"
  /\ l \in Listed => \A c \in j.batch : cs[c] # "DRAFT"
  /\ l \in Working => cs[j.current] # "DRAFT"
  /\ l \in Carrying => \A e \in Events : j.result[e] # 0 => es[e] = "COMPLETED"

EveryCallerSound == \A p \in Callers : Sound(pc[p], job[p], eventStatus, contestStatus)

(* The caller that completed a contest is the only one about to tell of it. *)
OneTeller ==
  \A p \in Callers : pc[p] = "tell" =>
    /\ contestStatus[job[p].current] = "COMPLETED"
    /\ mail[job[p].current] = 0
    /\ \A q \in Callers : pc[q] = "tell" /\ job[q].current = job[p].current => q = p

SettlementInv == /\ TypeOK /\ EveryCallerSound /\ OneTeller
                 /\ ResultsToldOnce /\ DraftHoldsNoResult /\ OnlyCompletedScored

-----------------------------------------------------------------------------
(* Settlement as the league sees it: ContestResult, where a contest goes final
   in one step. *)
FinalContests == {c \in Contests : contestStatus[c] = "COMPLETED"}

Promise == INSTANCE ContestResult WITH
  Scores    <- Versions,
  covers    <- contestEvents,
  played    <- {e \in Events : eventStatus[e] = "COMPLETED"},
  cancelled <- {e \in Events : eventStatus[e] = "CANCELLED"},
  final     <- FinalContests,
  standings <- [c \in Contests |-> IF c \in FinalContests THEN total[c] ELSE Nothing],
  finishes  <- [c \in Contests |-> IF c \in FinalContests THEN finishes[c] ELSE Nothing]

(* The code keeps that promise while its operations do not overlap and no
   call fails. *)
PromiseKept == Promise!Spec
=============================================================================
