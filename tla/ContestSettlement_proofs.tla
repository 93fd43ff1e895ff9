---------------------- MODULE ContestSettlement_proofs ----------------------
(***************************************************************************)
(* Machine-checked facts about ContestSettlement for every set of events,  *)
(* contests, callers and tasks, and every value of the bounds.             *)
(***************************************************************************)
EXTENDS ContestSettlement, TLAPS

-----------------------------------------------------------------------------
(* Type correctness. *)

(* A blank job is a job. *)
LEMMA BlankType == Blank \in Job
  BY SetsAssumption, BoundsAssumption
  DEF Blank, Job, EventStatus, Nothing, Result, Versions, Phases, Ahead, Over

(* A caller sent somewhere with a job leaves the callers well typed. *)
LEMMA GotoType ==
  ASSUME TypeOK, NEW p \in Callers, NEW l \in Location, NEW j \in Job,
         Goto(p, l, j)
  PROVE  /\ pc' \in [Callers -> Location]
         /\ job' \in [Callers -> Job]
  BY DEF TypeOK, Goto

LEMMA ReturnType ==
  ASSUME TypeOK, NEW p \in Callers, Return(p)
  PROVE  /\ pc' \in [Callers -> Location]
         /\ job' \in [Callers -> Job]
<1> DEFINE j == [Blank EXCEPT !.sweep = job[p].sweep]
<1>1. job[p] \in Job
  BY DEF TypeOK
<1>2. j \in Job
  BY <1>1, BlankType DEF Job
<1>3. (IF p \in Tasks THEN "sweep" ELSE "idle") \in Location
  BY DEF Location
<1> QED
  BY <1>2, <1>3, GotoType DEF Return

LEMMA RequestType ==
  ASSUME TypeOK, NEW a, NEW l \in Location, NEW j \in Job, Request(a, l, j)
  PROVE  /\ pc' \in [Callers -> Location]
         /\ job' \in [Callers -> Job]
         /\ requests' \in 0..MaxRequests
         /\ faults' \in 0..MaxFaults
         /\ drops' \in 0..MaxDrops
<1>1. a \in Callers
  BY DEF Request, Callers
<1>2. pc' \in [Callers -> Location] /\ job' \in [Callers -> Job]
  BY <1>1, GotoType DEF Request
<1> QED
  BY <1>2, BoundsAssumption DEF Request, TypeOK

LEMMA InitType == Init => TypeOK
  BY BlankType, InitialAssumption, BoundsAssumption
  DEF Init, TypeOK, Phases, Ahead, Over, Nothing, Result, Versions, Location

(* The clock, corrections and a dropped connection. *)
LEMMA WorldType == TypeOK /\ World => TypeOK'
<1> SUFFICES ASSUME TypeOK, NEW e \in Events, TimePasses(e) \/ CorrectScore(e)
             PROVE  TypeOK'
  BY DEF World
<1>1. CASE TimePasses(e)
  BY <1>1, BoundsAssumption DEF TimePasses, TypeOK, stored, bounds, Phases, Ahead, Over
<1>2. CASE CorrectScore(e)
  BY <1>2, BoundsAssumption DEF CorrectScore, TypeOK, stored, bounds
<1> QED
  BY <1>1, <1>2

(* What a request is asked to do. *)
LEMMA AskType == ASSUME TypeOK, NEW a \in Admins, Ask(a) PROVE TypeOK'
<1>b. Blank \in Job
  BY BlankType
<1>1. ASSUME NEW e \in Events, RequestRelease(a, e) PROVE TypeOK'
  <2> DEFINE j == [Blank EXCEPT !.event = e, !.from = eventStatus[e], !.to = "SCHEDULED", !.release = TRUE]
  <2>1. j \in Job
    BY <1>b DEF Job, EventStatus, TypeOK
  <2>2. Request(a, "write", j)
    BY <1>1 DEF RequestRelease
  <2> QED
    BY <1>1, <2>1, <2>2, RequestType DEF RequestRelease, TypeOK, stored, Location
<1>2. ASSUME NEW e \in Events, NEW to \in EventStatus, RequestTransition(a, e, to)
      PROVE TypeOK'
  <2> DEFINE j == [Blank EXCEPT !.event = e, !.from = eventStatus[e], !.to = to]
  <2>1. j \in Job
    BY <1>b DEF Job, TypeOK
  <2>2. Request(a, "write", j)
    BY <1>2 DEF RequestTransition
  <2> QED
    BY <1>2, <2>1, <2>2, RequestType DEF RequestTransition, TypeOK, stored, Location
<1>3. ASSUME NEW c \in Contests, RequestOpen(a, c) PROVE TypeOK'
  <2> DEFINE j == [Blank EXCEPT !.current = c]
  <2>1. j \in Job
    BY <1>b DEF Job
  <2>2. Request(a, "openWrite", j)
    BY <1>3 DEF RequestOpen
  <2> QED
    BY <1>3, <2>1, <2>2, RequestType DEF RequestOpen, TypeOK, stored, Location
<1>4. ASSUME NEW c \in Contests, NEW es \in SUBSET Events, RequestEvents(a, c, es)
      PROVE TypeOK'
  <2> DEFINE j == [Blank EXCEPT !.current = c, !.target = es]
  <2>1. j \in Job
    BY <1>b DEF Job
  <2>2. Request(a, "editWrite", j)
    BY <1>4 DEF RequestEvents
  <2> QED
    BY <1>4, <2>1, <2>2, RequestType DEF RequestEvents, TypeOK, stored, Location
<1> QED
  BY <1>1, <1>2, <1>3, <1>4 DEF Ask

(* A settlement step changes the stored results and its own place. *)
LEMMA SettleType == ASSUME TypeOK, NEW p \in Callers, Settle(p) PROVE TypeOK'
<1>j. job[p] \in Job
  BY DEF TypeOK
<1>1. CASE ReadField(p)
  <2> DEFINE j == [job[p] EXCEPT !.version = score[job[p].event],
                                 !.memo[job[p].event] = eventStatus[job[p].event]]
  <2>e. job[p].event \in Events
    BY <1>j DEF Job
  <2>v. score[job[p].event] \in Versions
    BY <2>e, BoundsAssumption DEF TypeOK, Versions
  <2>m. [job[p].memo EXCEPT ![job[p].event] = eventStatus[job[p].event]]
          \in [Events -> EventStatus \cup {"UNREAD"}]
    BY <1>j, <2>e DEF Job, TypeOK
  <2>1. j \in Job
    BY <1>j, <2>v, <2>m DEF Job
  <2> QED
    BY <1>1, <2>1, GotoType DEF ReadField, TypeOK, stored, bounds, Location
<1>2. CASE ReadContests(p)
  <2> DEFINE j == [job[p] EXCEPT !.batch = Unsettled(job[p].event), !.lists = contestEvents]
  <2>1. j \in Job
    BY <1>j DEF Job, TypeOK, Unsettled
  <2> QED
    BY <1>2, <2>1, GotoType DEF ReadContests, TypeOK, stored, bounds, Location
<1>3. CASE ReadSettledFor(p)
  <2> DEFINE j == [job[p] EXCEPT !.known =
                     {c \in job[p].batch : frozen[c][job[p].event] # 0}]
  <2>1. j \in Job
    BY <1>j DEF Job
  <2> QED
    BY <1>3, <2>1, GotoType DEF ReadSettledFor, TypeOK, stored, bounds, Location
<1>4. CASE NextContest(p)
  <2>1. CASE job[p].batch = {}
    BY <1>4, <2>1, ReturnType DEF NextContest, TypeOK, stored, bounds
  <2>2. CASE job[p].batch # {}
    <3>1. PICK c \in job[p].batch :
            LET j == [job[p] EXCEPT !.batch = @ \ {c}, !.current = c] IN
            IF FirstStep(j, c) = "" THEN Goto(p, "next", j)
            ELSE Goto(p, FirstStep(j, c),
                   [j EXCEPT !.result = Nothing, !.plan = "create",
                      !.games = IF FirstStep(j, c) = "freezeRead" /\ c \in Brackets /\ @ = 0
                                 THEN score[j.event] ELSE @])
      BY <1>4, <2>2 DEF NextContest
    <3> DEFINE j == [job[p] EXCEPT !.batch = @ \ {c}, !.current = c]
               k == [j EXCEPT !.result = Nothing, !.plan = "create",
                       !.games = IF FirstStep(j, c) = "freezeRead" /\ c \in Brackets /\ @ = 0
                                 THEN score[j.event] ELSE @]
    <3>2. c \in Contests
      BY <1>j DEF Job
    <3>3. j \in Job
      BY <1>j, <3>2 DEF Job
    <3>4. score[j.event] \in Versions /\ Nothing \in Result
      BY <3>3, BoundsAssumption DEF Job, TypeOK, Versions, Nothing, Result
    <3>5. k \in Job
      BY <3>3, <3>4 DEF Job
    <3>6. FirstStep(j, c) # "" => FirstStep(j, c) \in Location
      BY DEF FirstStep, Location
    <3>7. "next" \in Location
      BY DEF Location
    <3>8. pc' \in [Callers -> Location] /\ job' \in [Callers -> Job]
      <4>1. CASE FirstStep(j, c) = ""
        BY <3>1, <3>3, <3>7, <4>1, GotoType
      <4>2. CASE FirstStep(j, c) # ""
        <5> HIDE DEF j, k
        <5>1. Goto(p, FirstStep(j, c), k)
          BY <3>1, <4>2 DEF j, k
        <5> QED
          BY <3>5, <3>6, <4>2, <5>1, GotoType
      <4> QED
        BY <4>1, <4>2
    <3> QED
      BY <1>4, <3>8 DEF NextContest, TypeOK, stored, bounds
  <2> QED
    BY <2>1, <2>2
<1>5. CASE ReadFrozen(p)
  <2> PICK plan \in Plans(frozen[job[p].current][job[p].event], Graded(job[p]), 0) :
             Goto(p, "freeze", [job[p] EXCEPT !.plan = plan])
    BY <1>5 DEF ReadFrozen
  <2> DEFINE j == [job[p] EXCEPT !.plan = plan]
  <2>1. j \in Job
    BY <1>j DEF Job, Plans
  <2> QED
    BY <1>5, <2>1, GotoType DEF ReadFrozen, TypeOK, stored, bounds, Location
<1>6. CASE WriteFrozen(p)
  <2> DEFINE c == job[p].current
             e == job[p].event
             j == [job[p] EXCEPT !.result = [Nothing EXCEPT ![e] = Graded(job[p])]]
  <2>1. Graded(job[p]) \in Versions /\ c \in Contests /\ e \in Events
    BY <1>j DEF Job, Graded
  <2>2. j \in Job
    BY <1>j, <2>1, BoundsAssumption DEF Job, Result, Nothing, Versions
  <2>3. frozen' \in [Contests -> Result]
    BY <1>6, <2>1 DEF WriteFrozen, TypeOK, Upsert, Result
  <2>4. pc' \in [Callers -> Location] /\ job' \in [Callers -> Job]
    BY <1>6, <1>j, <2>2, GotoType DEF WriteFrozen, Location
  <2> QED
    BY <1>6, <2>3, <2>4 DEF WriteFrozen, TypeOK, bounds
<1>7. CASE Check(p)
  <2> DEFINE j == [job[p] EXCEPT !.memo = Recall(job[p])]
  <2>1. Recall(job[p]) \in [Events -> EventStatus \cup {"UNREAD"}]
    BY <1>j DEF Recall, Job, TypeOK
  <2>2. j \in Job
    BY <1>j, <2>1 DEF Job
  <2>3. (IF AllEventsFinished(j) THEN "sum" ELSE "next") \in Location
    BY DEF Location
  <2>4. Goto(p, IF AllEventsFinished(j) THEN "sum" ELSE "next", j)
    BY <1>7 DEF Check
  <2> QED
    BY <1>7, <2>2, <2>3, <2>4, GotoType DEF Check, TypeOK, stored, bounds
<1>8. CASE SumTotals(p)
  <2> DEFINE j == [job[p] EXCEPT !.result = frozen[job[p].current]]
  <2>1. j \in Job
    BY <1>j DEF Job, TypeOK
  <2>2. (IF frozen[job[p].current] = Nothing THEN "final" ELSE "totalRead") \in Location
    BY DEF Location
  <2> QED
    BY <1>8, <2>1, <2>2, GotoType DEF SumTotals, TypeOK, stored, bounds
<1>9. CASE ReadTotal(p)
  <2> PICK plan \in Plans(total[job[p].current], job[p].result, Nothing) :
             Goto(p, "total", [job[p] EXCEPT !.plan = plan])
    BY <1>9 DEF ReadTotal
  <2> DEFINE j == [job[p] EXCEPT !.plan = plan]
  <2>1. j \in Job
    BY <1>j DEF Job, Plans
  <2> QED
    BY <1>9, <2>1, GotoType DEF ReadTotal, TypeOK, stored, bounds, Location
<1>10. CASE WriteTotal(p)
  <2>1. job[p].current \in Contests /\ job[p].result \in Result
    BY <1>j DEF Job
  <2>2. total' \in [Contests -> Result]
    BY <1>10, <2>1 DEF WriteTotal, TypeOK, Upsert
  <2> QED
    BY <1>10, <1>j, <2>2, GotoType DEF WriteTotal, TypeOK, bounds, Location
<1>11. CASE ReadFinal(p)
  <2> DEFINE j == [job[p] EXCEPT !.result = total[job[p].current]]
  <2>1. j \in Job
    BY <1>j DEF Job, TypeOK
  <2> QED
    BY <1>11, <2>1, GotoType DEF ReadFinal, TypeOK, stored, bounds, Location
<1>12. CASE RecordFinishes(p)
  <2>1. job[p].current \in Contests /\ job[p].result \in Result
    BY <1>j DEF Job
  <2>2. finishes' \in [Contests -> Result]
    BY <1>12, <2>1 DEF RecordFinishes, TypeOK, Recorded
  <2> QED
    BY <1>12, <1>j, <2>2, GotoType DEF RecordFinishes, TypeOK, bounds, Location
<1>13. CASE Complete(p)
  <2>1. contestStatus' \in [Contests -> ContestStatus]
    BY <1>13 DEF Complete, TypeOK, ContestStatus
  <2>2. pc' \in [Callers -> Location] /\ job' \in [Callers -> Job]
    BY <1>13, <1>j, GotoType DEF Complete, Location
  <2> QED
    BY <1>13, <2>1, <2>2 DEF Complete, TypeOK, stored, bounds
<1>14. CASE TellSettled(p)
  <2>c. job[p].current \in Contests
    BY <1>j DEF Job
  <2>m. mail[job[p].current] + 1 \in Nat
    BY <2>c DEF TypeOK
  <2>1. mail' \in [Contests -> Nat]
    BY <1>14, <2>m DEF TellSettled, TypeOK
  <2> QED
    BY <1>14, <1>j, <2>1, GotoType DEF TellSettled, TypeOK, bounds, Location
<1> QED
  BY <1>1, <1>2, <1>3, <1>4, <1>5, <1>6, <1>7, <1>8, <1>9, <1>10, <1>11, <1>12,
     <1>13, <1>14 DEF Settle

(* The rest of what a caller does for a request or in a sweep. *)
LEMMA WorkType == ASSUME TypeOK, NEW p \in Callers, Work(p) PROVE TypeOK'
<1>j. job[p] \in Job
  BY DEF TypeOK
<1>1. CASE WriteStatus(p)
  <2>1. SideEffect(job[p]) # "" => SideEffect(job[p]) \in Location
    BY DEF SideEffect, Location
  <2>2. pc' \in [Callers -> Location] /\ job' \in [Callers -> Job]
    <3> DEFINE j == [job[p] EXCEPT !.clock = phase[job[p].event]]
    <3>1. j \in Job
      BY <1>j DEF Job, TypeOK
    <3>2. \/ Return(p)
          \/ SideEffect(job[p]) # "" /\ Goto(p, SideEffect(job[p]), j)
      BY <1>1 DEF WriteStatus
    <3> HIDE DEF j
    <3> QED
      BY <2>1, <3>1, <3>2, GotoType, ReturnType
  <2>3. eventStatus' \in [Events -> EventStatus]
    BY <1>1, <1>j DEF WriteStatus, TypeOK, Job
  <2> QED
    BY <1>1, <2>2, <2>3 DEF WriteStatus, TypeOK, stored, bounds
<1>2. CASE Activate(p)
  <2> DEFINE e == job[p].event
             due == {c \in Contests : /\ e \in contestEvents[c]
                                      /\ contestStatus[c] = "OPEN"
                                      /\ c \in LateCutoff => job[p].clock >= LaterRounds}
             j == [job[p] EXCEPT !.batch = due]
  <2>1. j \in Job
    BY <1>j DEF Job
  <2>2. Goto(p, "activateWrite", j)
    BY <1>2 DEF Activate
  <2> QED
    BY <1>2, <2>1, <2>2, GotoType DEF Activate, TypeOK, stored, bounds, Location
<1>3. CASE ActivateWrite(p)
  <2>1. contestStatus' \in [Contests -> ContestStatus]
    BY <1>3 DEF ActivateWrite, TypeOK, ContestStatus
  <2>2. pc' \in [Callers -> Location] /\ job' \in [Callers -> Job]
    <3>1. CASE job[p].batch = {}
      BY <1>3, <1>j, <3>1, GotoType, ReturnType DEF ActivateWrite, Location
    <3>2. CASE job[p].batch # {}
      <4>1. PICK group : Goto(p, "activateWrite", [job[p] EXCEPT !.batch = @ \ group])
        BY <1>3, <3>2 DEF ActivateWrite
      <4>2. [job[p] EXCEPT !.batch = @ \ group] \in Job
        BY <1>j DEF Job
      <4> QED
        BY <4>1, <4>2, GotoType DEF Location
    <3> QED
      BY <3>1, <3>2
  <2> QED
    BY <1>3, <2>1, <2>2 DEF ActivateWrite, TypeOK, stored, bounds
<1>4. CASE Settle(p)
  BY <1>4, SettleType
<1>5. CASE OpenWrite(p)
  <2>1. contestStatus' \in [Contests -> ContestStatus]
    BY <1>5, <1>j DEF OpenWrite, TypeOK, ContestStatus, Job
  <2> QED
    BY <1>5, <2>1, ReturnType DEF OpenWrite, TypeOK, stored, bounds
<1>6. CASE WriteEvents(p)
  <2>1. contestEvents' \in [Contests -> SUBSET Events]
    BY <1>6, <1>j DEF WriteEvents, TypeOK, Job
  <2> QED
    BY <1>6, <1>j, <2>1, GotoType DEF WriteEvents, TypeOK, stored, bounds, Location
<1>7. CASE FindJoinable(p)
  <2> DEFINE b == {c \in Template : /\ contestStatus[c] # "COMPLETED"
                                    /\ job[p].event \notin contestEvents[c]}
             j == [job[p] EXCEPT !.batch = b, !.lists = contestEvents]
  <2>1. b \subseteq Contests
    BY SetsAssumption
  <2>2. j \in Job
    BY <1>j, <2>1 DEF Job, TypeOK
  <2>3. Goto(p, "joinNext", j)
    BY <1>7 DEF FindJoinable
  <2> QED
    BY <1>7, <2>2, <2>3, GotoType DEF FindJoinable, TypeOK, stored, bounds, Location
<1>8. CASE JoinNext(p)
  <2>1. CASE job[p].batch = {}
    BY <1>8, <2>1, ReturnType DEF JoinNext, TypeOK, stored, bounds
  <2>2. CASE job[p].batch # {}
    <3>1. PICK c \in job[p].batch :
            LET target == job[p].lists[c] \cup {job[p].event}
                j == [job[p] EXCEPT !.batch = @ \ {c}]
            IN IF MaySetEvents(c, target)
               THEN Goto(p, "editWrite", [j EXCEPT !.current = c, !.target = target])
               ELSE Goto(p, "joinNext", j)
      BY <1>8, <2>2 DEF JoinNext
    <3> DEFINE target == job[p].lists[c] \cup {job[p].event}
               j == [job[p] EXCEPT !.batch = @ \ {c}]
               k == [j EXCEPT !.current = c, !.target = target]
    <3>2. c \in Contests /\ target \in SUBSET Events
      BY <1>j DEF Job
    <3>3. j \in Job /\ k \in Job
      BY <1>j, <3>2 DEF Job
    <3>4. pc' \in [Callers -> Location] /\ job' \in [Callers -> Job]
      BY <3>1, <3>3, GotoType DEF Location
    <3> QED
      BY <1>8, <3>4 DEF JoinNext, TypeOK, stored, bounds
  <2> QED
    BY <2>1, <2>2
<1>9. CASE SweepNext(p)
  <2> DEFINE b(x) == [Blank EXCEPT !.sweep = job[p].sweep \ {x}]
  <2>1. ASSUME NEW x \in job[p].sweep, SweepScheduled(p, x) \/ SweepInProgress(p, x)
        PROVE  pc' \in [Callers -> Location] /\ job' \in [Callers -> Job]
    <3>1. x \in Candidate
      BY <1>j DEF Job
    <3>2. x.event \in Events
      BY <3>1 DEF Candidate
    <3>3. b(x) \in Job
      BY <1>j, BlankType DEF Job
    <3>4. CASE SweepScheduled(p, x)
      <4> DEFINE j == [b(x) EXCEPT !.event = x.event, !.from = "SCHEDULED",
                                   !.to = "IN_PROGRESS"]
      <4>1. j \in Job
        BY <3>2, <3>3 DEF Job, EventStatus
      <4>2. Goto(p, "write", j) \/ Goto(p, "sweep", b(x))
        BY <3>4 DEF SweepScheduled
      <4> QED
        BY <3>3, <4>1, <4>2, GotoType DEF Location
    <3>5. CASE SweepInProgress(p, x)
      <4> DEFINE j == [Blank EXCEPT !.sweep = job[p].sweep \ {x}, !.event = x.event,
             !.from = "IN_PROGRESS", !.to = "IN_PROGRESS",
                          !.clock = x.phase, !.due = (x.phase = Over)]
      <4>1. j \in Job
        BY <1>j, <3>1, <3>2, BlankType DEF Job, EventStatus, Candidate
      <4>2. Goto(p, "activate", j)
        BY <3>5 DEF SweepInProgress
      <4> QED
        BY <4>1, <4>2, GotoType DEF Location
    <3> QED
      BY <2>1, <3>4, <3>5
  <2>2. ASSUME Goto(p, "idle", Blank)
        PROVE  pc' \in [Callers -> Location] /\ job' \in [Callers -> Job]
    BY <2>2, BlankType, GotoType DEF Location
  <2>3. pc' \in [Callers -> Location] /\ job' \in [Callers -> Job]
    BY <1>9, <2>1, <2>2 DEF SweepNext
  <2> QED
    BY <1>9, <2>3 DEF SweepNext, TypeOK, stored, bounds
<1>10. CASE SweepFinish(p)
  <2> DEFINE j == [job[p] EXCEPT !.to = "COMPLETED", !.due = FALSE]
  <2>1. j \in Job
    BY <1>j DEF Job, EventStatus
  <2>2. pc' \in [Callers -> Location] /\ job' \in [Callers -> Job]
    BY <1>10, <2>1, GotoType, ReturnType DEF SweepFinish, Location
  <2> QED
    BY <1>10, <2>2 DEF SweepFinish, TypeOK, stored, bounds
<1> QED
  BY <1>1, <1>2, <1>3, <1>4, <1>5, <1>6, <1>7, <1>8, <1>9, <1>10 DEF Work

(* A sweep that starts, a call that fails, a process that dies. *)
LEMMA SweepType == ASSUME TypeOK, NEW t \in Tasks, StartSweep(t) PROVE TypeOK'
<1> DEFINE j == [Blank EXCEPT !.sweep = Candidates]
<1>1. Candidates \in SUBSET Candidate
  <2> SUFFICES ASSUME NEW e \in AutoEvents, eventStatus[e] \in {"SCHEDULED", "IN_PROGRESS"}
               PROVE  [event |-> e, status |-> eventStatus[e], phase |-> phase[e]] \in Candidate
    BY DEF Candidates
  <2> QED
    BY SetsAssumption DEF Candidate, TypeOK
<1>2. j \in Job
  BY <1>1, BlankType DEF Job
<1>3. t \in Callers
  BY DEF Callers
<1> QED
  BY <1>2, <1>3, GotoType DEF StartSweep, TypeOK, stored, bounds, Location

LEMMA FailType == ASSUME TypeOK, Fail PROVE TypeOK'
<1>1. ASSUME NEW p \in Callers, Throw(p) PROVE TypeOK'
  <2>1. job[p] \in Job
    BY DEF TypeOK
  <2>2. pc' \in [Callers -> Location] /\ job' \in [Callers -> Job]
    BY <1>1, <2>1, GotoType, ReturnType DEF Throw, Location
  <2> QED
    BY <1>1, <2>2, BoundsAssumption DEF Throw, Fault, TypeOK, stored
<1>2. ASSUME NEW p \in Callers, Crash(p) PROVE TypeOK'
  <2>1. pc' \in [Callers -> Location] /\ job' \in [Callers -> Job]
    BY <1>2, BlankType, GotoType DEF Crash, Location
  <2> QED
    BY <1>2, <2>1, BoundsAssumption DEF Crash, Fault, TypeOK, stored
<1>3. ASSUME NEW t \in Tasks, DropLock(t) PROVE TypeOK'
  BY <1>3, BoundsAssumption DEF DropLock, TypeOK, stored
<1> QED
  BY <1>1, <1>2, <1>3 DEF Fail

(* No step takes any state out of its type. *)
LEMMA NextType == TypeOK /\ [Next]_vars => TypeOK'
<1> SUFFICES ASSUME TypeOK, [Next]_vars PROVE TypeOK'
  OBVIOUS
<1>1. CASE UNCHANGED vars
  BY <1>1 DEF vars, stored, bounds, TypeOK
<1>2. CASE Next
  BY <1>2, WorldType, AskType, SweepType, WorkType, FailType DEF Next
<1> QED
  BY <1>1, <1>2

(* Every reachable state is well typed, whatever the events, the contests and
   the callers are: in particular every standing ever stored is a version of
   the scores that existed, never the version before or after it. *)
THEOREM TypeCorrect == Spec => []TypeOK
BY InitType, NextType, PTL DEF Spec
=============================================================================
