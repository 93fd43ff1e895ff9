----------------------- MODULE SettlementSafety_proofs -----------------------
(***************************************************************************)
(* The safety properties of ContestSettlement that hold whatever overlaps  *)
(* and whatever fails, proved from the inductive invariant SettlementInv.  *)
(* A caller decides on what it read earlier, so the invariant says what is *)
(* still true of it: Sound is the part of each read that no other caller   *)
(* can take back, and Steady is why none can.                              *)
(***************************************************************************)
EXTENDS ContestSettlement_proofs

(* What no step undoes: a finished event stays as it finished, an opened
   contest is never a draft again, a completed one stays completed. *)
Steady ==
  /\ \A e \in Events : eventStatus[e] \in FinishedStatuses => eventStatus'[e] = eventStatus[e]
  /\ \A c \in Contests : contestStatus[c] # "DRAFT" => contestStatus'[c] # "DRAFT"
  /\ \A c \in Contests : contestStatus[c] = "COMPLETED" => contestStatus'[c] = "COMPLETED"

(* The parts of SettlementInv other than the types, after a step. *)
Keeps == EveryCallerSound' /\ OneTeller' /\ ResultsToldOnce' /\ DraftHoldsNoResult'
           /\ OnlyCompletedScored'

LEMMA Unmoved == UNCHANGED <<eventStatus, contestStatus>> => Steady
  BY DEF Steady

-----------------------------------------------------------------------------
(* How a step disturbs the invariant. *)

(* What a caller relies on outlives the steps of the others. *)
LEMMA SoundSteady ==
  ASSUME Steady, NEW l, NEW j \in Job, Sound(l, j, eventStatus, contestStatus)
  PROVE  Sound(l, j, eventStatus', contestStatus')
<1>1. j.event \in Events /\ j.current \in Contests /\ j.batch \subseteq Contests
  BY DEF Job
<1> QED
  BY <1>1 DEF Sound, Steady, FinishedStatuses

(* A caller that moves on leaves the others where they were. *)
LEMMA GotoSound ==
  ASSUME SettlementInv, Steady, NEW p \in Callers, NEW l, NEW j, Goto(p, l, j),
         Sound(l, j, eventStatus', contestStatus')
  PROVE  EveryCallerSound'
<1> SUFFICES ASSUME NEW q \in Callers
             PROVE  Sound(pc'[q], job'[q], eventStatus', contestStatus')
  BY DEF EveryCallerSound
<1>t. pc \in [Callers -> Location] /\ job \in [Callers -> Job]
  BY DEF SettlementInv, TypeOK
<1>1. CASE q = p
  <2>1. pc'[q] = l /\ job'[q] = j
    BY <1>t, <1>1 DEF Goto
  <2> QED
    BY <2>1
<1>2. CASE q # p
  <2>1. pc'[q] = pc[q] /\ job'[q] = job[q]
    BY <1>t, <1>2 DEF Goto
  <2>2. Sound(pc[q], job[q], eventStatus, contestStatus)
    BY DEF SettlementInv, EveryCallerSound
  <2> QED
    BY <1>t, <2>1, <2>2, SoundSteady
<1> QED
  BY <1>1, <1>2

(* Standings, finishes and mail that are left alone stay as they should be. *)
LEMMA StoredKeeps ==
  ASSUME SettlementInv, Steady, UNCHANGED stored
  PROVE  ResultsToldOnce' /\ DraftHoldsNoResult' /\ OnlyCompletedScored'
<1>1. ResultsToldOnce'
  BY DEF SettlementInv, ResultsToldOnce, Steady, stored
<1>2. DraftHoldsNoResult'
  BY DEF SettlementInv, DraftHoldsNoResult, Steady, stored
<1>3. OnlyCompletedScored'
  BY DEF SettlementInv, OnlyCompletedScored, Steady, stored, FinishedStatuses
<1> QED
  BY <1>1, <1>2, <1>3

(* No caller is told to tell of a contest but by completing it. *)
LEMMA GotoTeller ==
  ASSUME SettlementInv, Steady, UNCHANGED mail,
         NEW p \in Callers, NEW l, NEW j, Goto(p, l, j), l # "tell"
  PROVE  OneTeller'
<1>t. pc \in [Callers -> Location] /\ job \in [Callers -> Job]
  BY DEF SettlementInv, TypeOK
<1>1. \A q \in Callers : pc'[q] = "tell" => pc[q] = "tell" /\ job'[q] = job[q]
  BY <1>t DEF Goto
<1>2. \A q \in Callers : job[q].current \in Contests
  BY <1>t DEF Job
<1>3. OneTeller
  BY DEF SettlementInv
<1> QED
  BY <1>1, <1>2, <1>3 DEF OneTeller, Steady

(* Most steps only read, move on, or write a status. *)
LEMMA GotoKeeps ==
  ASSUME SettlementInv, Steady, UNCHANGED stored,
         NEW p \in Callers, NEW l, NEW j, Goto(p, l, j), l # "tell",
         Sound(l, j, eventStatus', contestStatus')
  PROVE  Keeps
BY GotoSound, GotoTeller, StoredKeeps DEF Keeps, stored

(* Places that rely on nothing but where a due event was read. *)
LEMMA LooseSound ==
  ASSUME NEW l, l \notin Settling \cup {"finish", "write"}, NEW j,
         j.due => j.from = "IN_PROGRESS", NEW es, NEW cs
  PROVE  Sound(l, j, es, cs)
BY DEF Sound, Settling, Listed, Working, Freezing, Carrying

LEMMA ReturnKeeps ==
  ASSUME SettlementInv, Steady, UNCHANGED stored, NEW p \in Callers, Return(p)
  PROVE  Keeps
<1> DEFINE j == [Blank EXCEPT !.sweep = job[p].sweep]
           l == IF p \in Tasks THEN "sweep" ELSE "idle"
<1>1. j.due = FALSE
  BY BlankType DEF Blank
<1>2. l \notin Settling \cup {"finish", "write"} /\ l # "tell"
  BY DEF Settling, Listed, Working
<1>3. Sound(l, j, eventStatus', contestStatus')
  BY <1>1, <1>2, LooseSound
<1>4. Goto(p, l, j)
  BY DEF Return
<1> HIDE DEF j, l
<1> QED
  BY <1>2, <1>3, <1>4, GotoKeeps

(* A step of the world: no caller moves. *)
LEMMA StillKeeps ==
  ASSUME SettlementInv, UNCHANGED <<eventStatus, contestStatus, stored, pc, job>>
  PROVE  Keeps
<1>1. Steady
  BY Unmoved
<1>2. EveryCallerSound' /\ OneTeller'
  BY DEF SettlementInv, EveryCallerSound, OneTeller, stored
<1> QED
  BY <1>1, <1>2, StoredKeeps DEF Keeps

-----------------------------------------------------------------------------
(* Requests, sweeps and faults. *)

LEMMA AskKeeps == ASSUME SettlementInv, NEW a \in Admins, Ask(a) PROVE Keeps
<1>a. a \in Callers
  BY DEF Callers
<1>b. Blank \in Job /\ Blank.due = FALSE
  BY BlankType DEF Blank
<1>1. ASSUME NEW e \in Events, RequestRelease(a, e) PROVE Keeps
  <2> DEFINE j == [Blank EXCEPT !.event = e, !.from = eventStatus[e], !.to = "SCHEDULED", !.release = TRUE]
  <2>1. Goto(a, "write", j) /\ UNCHANGED <<eventStatus, contestStatus, stored>>
    BY <1>1 DEF RequestRelease, Request
  <2>2. j.due = FALSE /\ j.from = eventStatus[e] /\ j.to = "SCHEDULED"
    BY <1>b DEF Job
  <2>4. eventStatus[e] = "SCHEDULED" \/ IsDeclaredSportEventTransition(eventStatus[e], "SCHEDULED")
    BY <1>1 DEF RequestRelease
  <2>3. Sound("write", j, eventStatus', contestStatus')
    BY <2>2, <2>4 DEF Sound, Settling, Listed, Working, Freezing, Carrying
  <2> QED
    BY <1>a, <2>1, <2>3, Unmoved, GotoKeeps
<1>2. ASSUME NEW e \in Events, NEW to \in EventStatus, RequestTransition(a, e, to)
      PROVE Keeps
  <2> DEFINE j == [Blank EXCEPT !.event = e, !.from = eventStatus[e], !.to = to]
  <2>1. Goto(a, "write", j) /\ UNCHANGED <<eventStatus, contestStatus, stored>>
    BY <1>2 DEF RequestTransition, Request
  <2>2. j.due = FALSE /\ j.from = eventStatus[e] /\ j.to = to
    BY <1>b DEF Job
  <2>3. to = eventStatus[e] \/ IsDeclaredSportEventTransition(eventStatus[e], to)
    BY <1>2 DEF RequestTransition
  <2>4. Sound("write", j, eventStatus', contestStatus')
    BY <2>2, <2>3 DEF Sound, Settling, Listed, Working, Freezing, Carrying
  <2> QED
    BY <1>a, <2>1, <2>4, Unmoved, GotoKeeps
<1>3. ASSUME NEW c \in Contests, RequestOpen(a, c) PROVE Keeps
  <2> DEFINE j == [Blank EXCEPT !.current = c]
  <2>1. Goto(a, "openWrite", j) /\ UNCHANGED <<eventStatus, contestStatus, stored>>
    BY <1>3 DEF RequestOpen, Request
  <2>2. j.due = FALSE
    BY <1>b DEF Job
  <2>3. Sound("openWrite", j, eventStatus', contestStatus')
    BY <2>2, LooseSound DEF Settling, Listed, Working
  <2> QED
    BY <1>a, <2>1, <2>3, Unmoved, GotoKeeps
<1>4. ASSUME NEW c \in Contests, NEW es \in SUBSET Events, RequestEvents(a, c, es)
      PROVE Keeps
  <2> DEFINE j == [Blank EXCEPT !.current = c, !.target = es]
  <2>1. Goto(a, "editWrite", j) /\ UNCHANGED <<eventStatus, contestStatus, stored>>
    BY <1>4 DEF RequestEvents, Request
  <2>2. j.due = FALSE
    BY <1>b DEF Job
  <2>3. Sound("editWrite", j, eventStatus', contestStatus')
    BY <2>2, LooseSound DEF Settling, Listed, Working
  <2> QED
    BY <1>a, <2>1, <2>3, Unmoved, GotoKeeps
<1> QED
  BY <1>1, <1>2, <1>3, <1>4 DEF Ask

LEMMA SweepKeeps == ASSUME SettlementInv, NEW t \in Tasks, StartSweep(t) PROVE Keeps
<1> DEFINE j == [Blank EXCEPT !.sweep = Candidates]
<1>1. t \in Callers
  BY DEF Callers
<1>2. Goto(t, "sweep", j) /\ UNCHANGED <<eventStatus, contestStatus, stored>>
  BY DEF StartSweep
<1>3. j.due = FALSE
  BY BlankType DEF Blank
<1>4. Sound("sweep", j, eventStatus', contestStatus')
  BY <1>3, LooseSound DEF Settling, Listed, Working
<1> QED
  BY <1>1, <1>2, <1>4, Unmoved, GotoKeeps

LEMMA FailKeeps == ASSUME SettlementInv, Fail PROVE Keeps
<1>1. ASSUME NEW p \in Callers, Throw(p) PROVE Keeps
  <2>1. UNCHANGED <<eventStatus, contestStatus, stored>>
    BY <1>1 DEF Throw
  <2>2. CASE Return(p)
    BY <2>1, <2>2, Unmoved, ReturnKeeps
  <2>3. CASE pc[p] = "tell" /\ Goto(p, "next", job[p])
    <3>1. Sound("tell", job[p], eventStatus, contestStatus)
      BY <2>3 DEF SettlementInv, EveryCallerSound
    <3>2. Sound("next", job[p], eventStatus', contestStatus')
      BY <2>1, <3>1 DEF Sound, Settling, Listed, Working, Freezing, Carrying
    <3> QED
      BY <2>1, <2>3, <3>2, Unmoved, GotoKeeps
  <2> QED
    BY <1>1, <2>2, <2>3 DEF Throw
<1>2. ASSUME NEW p \in Callers, Crash(p) PROVE Keeps
  <2>1. Goto(p, "idle", Blank) /\ UNCHANGED <<eventStatus, contestStatus, stored>>
    BY <1>2 DEF Crash
  <2>2. Sound("idle", Blank, eventStatus', contestStatus')
    BY LooseSound DEF Blank, Settling, Listed, Working
  <2> QED
    BY <2>1, <2>2, Unmoved, GotoKeeps
<1>3. ASSUME NEW t \in Tasks, DropLock(t) PROVE Keeps
  BY <1>3, StillKeeps DEF DropLock
<1> QED
  BY <1>1, <1>2, <1>3 DEF Fail

-----------------------------------------------------------------------------
(* The steps of a settlement. *)

(* Steps that read into the job and stay on the same event. *)
LEMMA ReadKeeps ==
  ASSUME SettlementInv, UNCHANGED <<eventStatus, contestStatus, stored>>,
         NEW p \in Callers, pc[p] \in Settling,
         NEW l \in Settling \ {"tell"}, NEW j, Goto(p, l, j),
         j.event = job[p].event, j.to = job[p].to, j.from = job[p].from, j.due = job[p].due,
         l \in Freezing => j.to = "COMPLETED",
         l \in Listed => \A c \in j.batch : contestStatus[c] # "DRAFT",
         l \in Working => contestStatus[j.current] # "DRAFT",
         l \in Carrying => \A e \in Events : j.result[e] # 0 => eventStatus[e] = "COMPLETED"
  PROVE  Keeps
<1>1. Sound(pc[p], job[p], eventStatus, contestStatus)
  BY DEF SettlementInv, EveryCallerSound
<1>2. l \notin {"finish", "write", "tell"}
  BY DEF Settling, Listed, Working
<1>3. Sound(l, j, eventStatus', contestStatus')
  BY <1>1, <1>2 DEF Sound
<1> QED
  BY <1>2, <1>3, Unmoved, GotoKeeps

LEMMA SettleKeeps == ASSUME SettlementInv, NEW p \in Callers, Settle(p) PROVE Keeps
<1>t. TypeOK
  BY DEF SettlementInv
<1>j. job[p] \in Job
  BY <1>t DEF TypeOK
<1>s. Sound(pc[p], job[p], eventStatus, contestStatus)
  BY DEF SettlementInv, EveryCallerSound
<1>1. CASE ReadField(p)
  <2> DEFINE j == [job[p] EXCEPT !.version = score[job[p].event],
                                 !.memo[job[p].event] = eventStatus[job[p].event]]
  <2>1. Goto(p, "contests", j) /\ pc[p] \in Settling /\ UNCHANGED <<eventStatus, contestStatus, stored>>
    BY <1>1 DEF ReadField, Settling, Listed, Working
  <2>2. j.event = job[p].event /\ j.to = job[p].to /\ j.from = job[p].from /\ j.due = job[p].due
    BY <1>j DEF Job
  <2>3. "contests" \in Settling \ {"tell"} /\ "contests" \notin Freezing \cup Listed \cup Working \cup Carrying
    BY DEF Settling, Listed, Working, Freezing, Carrying
  <2> HIDE DEF j
  <2> QED
    BY <2>1, <2>2, <2>3, ReadKeeps
<1>2. CASE ReadContests(p)
  <2> DEFINE j == [job[p] EXCEPT !.batch = Unsettled(job[p].event), !.lists = contestEvents]
  <2>1. Goto(p, "known", j) /\ pc[p] \in Settling /\ UNCHANGED <<eventStatus, contestStatus, stored>>
    BY <1>2 DEF ReadContests, Settling, Listed, Working
  <2>2. j.event = job[p].event /\ j.to = job[p].to /\ j.from = job[p].from /\ j.due = job[p].due
    BY <1>j DEF Job
  <2> QED
    BY <1>2, <1>j, <1>s, <2>1, <2>2, ReadKeeps DEF ReadContests, Job, Sound, Settling, Listed, Working, Freezing, Carrying, Unsettled, NotSettled
<1>3. CASE ReadSettledFor(p)
  <2> DEFINE j == [job[p] EXCEPT !.known =
                     {c \in job[p].batch : frozen[c][job[p].event] # 0}]
  <2>1. Goto(p, "next", j) /\ pc[p] \in Settling /\ UNCHANGED <<eventStatus, contestStatus, stored>>
    BY <1>3 DEF ReadSettledFor, Settling, Listed, Working
  <2>2. j.event = job[p].event /\ j.to = job[p].to /\ j.from = job[p].from /\ j.due = job[p].due
    BY <1>j DEF Job
  <2> QED
    BY <1>3, <1>j, <1>s, <2>1, <2>2, ReadKeeps DEF ReadSettledFor, Job, Sound, Settling, Listed, Working, Freezing, Carrying
<1>4. CASE NextContest(p)
  <2>u. pc[p] = "next" /\ UNCHANGED <<eventStatus, contestStatus, stored>>
    BY <1>4 DEF NextContest
  <2>1. CASE job[p].batch = {}
    BY <1>4, <2>u, <2>1, Unmoved, ReturnKeeps DEF NextContest
  <2>2. CASE job[p].batch # {}
    <3>1. PICK c \in job[p].batch :
            LET j == [job[p] EXCEPT !.batch = @ \ {c}, !.current = c] IN
            IF FirstStep(j, c) = "" THEN Goto(p, "next", j)
            ELSE Goto(p, FirstStep(j, c),
                   [j EXCEPT !.result = Nothing, !.plan = "create",
                      !.games = IF FirstStep(j, c) = "freezeRead" /\ c \in Brackets /\ @ = 0
                                 THEN score[j.event] ELSE @])
      BY <1>4, <2>2 DEF NextContest
    <3> DEFINE j == [job[p] EXCEPT !.batch = @ \ {c}, !.current = c]
               k == [j EXCEPT !.result = Nothing, !.plan = "create",
                       !.games = IF FirstStep(j, c) = "freezeRead" /\ c \in Brackets /\ @ = 0
                                 THEN score[j.event] ELSE @]
    <3>2. /\ j.event = job[p].event /\ j.to = job[p].to /\ j.from = job[p].from
          /\ j.due = job[p].due /\ j.current = c /\ j.batch \subseteq job[p].batch
      BY <1>j DEF Job
    <3>3. /\ k.event = j.event /\ k.to = j.to /\ k.from = j.from
          /\ k.due = j.due /\ k.current = j.current /\ k.batch = j.batch
      BY <1>j DEF Job
    <3>4. contestStatus[c] # "DRAFT" /\ (\A d \in j.batch : contestStatus[d] # "DRAFT")
          /\ j.to \in FinishedStatuses
      BY <1>s, <2>u, <3>2 DEF Sound, Settling, Listed, Working
    <3>5. ASSUME FirstStep(j, c) # ""
          PROVE  /\ FirstStep(j, c) \in Settling \ {"tell"}
                 /\ FirstStep(j, c) \in Freezing => j.to = "COMPLETED"
                 /\ FirstStep(j, c) \notin Carrying
      BY <3>4, <3>5 DEF FirstStep, Freezes, Settling, Listed, Working, Freezing, Carrying, FinishedStatuses
    <3>6. pc[p] \in Settling /\ "next" \in Settling \ {"tell"} /\ "next" \notin Freezing \cup Working \cup Carrying
      BY <2>u DEF Settling, Listed, Working, Freezing, Carrying
    <3>7. CASE FirstStep(j, c) = ""
      <4>1. Goto(p, "next", j)
        BY <3>1, <3>7
      <4> HIDE DEF j
      <4> QED
        BY <2>u, <3>2, <3>4, <3>6, <4>1, ReadKeeps
    <3>8. CASE FirstStep(j, c) # ""
      <4> DEFINE l == FirstStep(j, c)
      <4>1. Goto(p, l, k) /\ l \in Settling \ {"tell"} /\ (l \in Freezing => k.to = "COMPLETED")
            /\ l \notin Carrying
        BY <3>1, <3>3, <3>5, <3>8
      <4> HIDE DEF j, k, l
      <4> QED
        BY <2>u, <3>2, <3>3, <3>4, <3>6, <4>1, ReadKeeps
    <3> QED
      BY <3>7, <3>8
  <2> QED
    BY <2>1, <2>2
<1>5. CASE ReadFrozen(p)
  <2> PICK plan \in Plans(frozen[job[p].current][job[p].event], Graded(job[p]), 0) :
             Goto(p, "freeze", [job[p] EXCEPT !.plan = plan])
    BY <1>5 DEF ReadFrozen
  <2> DEFINE j == [job[p] EXCEPT !.plan = plan]
  <2>1. Goto(p, "freeze", j) /\ pc[p] \in Settling /\ UNCHANGED <<eventStatus, contestStatus, stored>>
    BY <1>5 DEF ReadFrozen, Settling, Listed, Working
  <2>2. j.event = job[p].event /\ j.to = job[p].to /\ j.from = job[p].from /\ j.due = job[p].due
    BY <1>j DEF Job
  <2> QED
    BY <1>5, <1>j, <1>s, <2>1, <2>2, ReadKeeps DEF ReadFrozen, Job, Sound, Settling, Listed, Working, Freezing, Carrying
<1>6. CASE WriteFrozen(p)
  <2> DEFINE c == job[p].current
             e == job[p].event
             j == [job[p] EXCEPT !.result = [Nothing EXCEPT ![e] = Graded(job[p])]]
  <2>1. /\ UNCHANGED <<eventStatus, contestStatus, total, finishes, mail>>
        /\ Goto(p, "totalRead", j) \/ Goto(p, "check", job[p])
    BY <1>6 DEF WriteFrozen
  <2>2. /\ contestStatus[c] # "DRAFT" /\ eventStatus[e] = "COMPLETED"
        /\ job[p].due => job[p].from = "IN_PROGRESS"
        /\ job[p].to \in FinishedStatuses /\ eventStatus[job[p].event] = job[p].to
        /\ \A d \in job[p].batch : contestStatus[d] # "DRAFT"
    BY <1>6, <1>s DEF WriteFrozen, Sound, Settling, Listed, Working, Freezing, Carrying
  <2>3. /\ j.event = job[p].event /\ j.to = job[p].to /\ j.from = job[p].from
        /\ j.due = job[p].due /\ j.batch = job[p].batch /\ j.current = job[p].current
    BY <1>j DEF Job
  <2>4. Steady
    BY <2>1, Unmoved
  <2>r. \A x \in Events : j.result[x] # 0 => eventStatus[x] = "COMPLETED"
    BY <1>j, <2>2 DEF Job, Nothing
  <2>5. Sound("totalRead", j, eventStatus', contestStatus')
        /\ Sound("check", job[p], eventStatus', contestStatus')
    <3> HIDE DEF j
    <3> QED
      BY <2>1, <2>2, <2>3, <2>r DEF Sound, Freezing, Carrying
  <2>6. EveryCallerSound' /\ OneTeller'
    BY <2>1, <2>4, <2>5, GotoSound, GotoTeller
  <2>7. ResultsToldOnce'
    BY <2>1 DEF SettlementInv, ResultsToldOnce
  <2>8. \A d \in Contests, x \in Events :
          frozen'[d][x] = frozen[d][x] \/ (d = c /\ x = e)
    BY <1>6, <1>t DEF WriteFrozen, TypeOK, Result
  <2>9. DraftHoldsNoResult'
    <3>1. \A d \in Contests : d # c => frozen'[d] = frozen[d]
      BY <1>6, <1>t DEF WriteFrozen, TypeOK
    <3> QED
      BY <2>1, <2>2, <3>1 DEF SettlementInv, DraftHoldsNoResult
  <2>10. OnlyCompletedScored'
    BY <2>1, <2>2, <2>8 DEF SettlementInv, OnlyCompletedScored
  <2> QED
    BY <2>6, <2>7, <2>9, <2>10 DEF Keeps
<1>7. CASE Check(p)
  <2> DEFINE j == [job[p] EXCEPT !.memo = Recall(job[p])]
             l == IF AllEventsFinished(j) THEN "sum" ELSE "next"
  <2>1. Goto(p, l, j) /\ pc[p] \in Settling /\ UNCHANGED <<eventStatus, contestStatus, stored>>
    BY <1>7 DEF Check, Settling, Listed, Working
  <2>2. /\ j.event = job[p].event /\ j.to = job[p].to /\ j.from = job[p].from
        /\ j.due = job[p].due /\ j.batch = job[p].batch /\ j.current = job[p].current
    BY <1>j DEF Job
  <2>3. contestStatus[j.current] # "DRAFT" /\ \A d \in j.batch : contestStatus[d] # "DRAFT"
    BY <1>7, <1>s, <2>2 DEF Check, Sound, Listed, Working
  <2>4. l \in Settling \ {"tell"} /\ l \notin Freezing \cup Carrying
    BY DEF Settling, Listed, Working, Freezing, Carrying
  <2> HIDE DEF j, l
  <2> QED
    BY <2>1, <2>2, <2>3, <2>4, ReadKeeps
<1>8. CASE SumTotals(p)
  <2> DEFINE j == [job[p] EXCEPT !.result = frozen[job[p].current]]
             l == IF frozen[job[p].current] = Nothing THEN "final" ELSE "totalRead"
  <2>1. Goto(p, l, j) /\ pc[p] \in Settling /\ UNCHANGED <<eventStatus, contestStatus, stored>>
    BY <1>8 DEF SumTotals, Settling, Listed, Working
  <2>2. /\ j.event = job[p].event /\ j.to = job[p].to /\ j.from = job[p].from
        /\ j.due = job[p].due /\ j.batch = job[p].batch /\ j.current = job[p].current
    BY <1>j DEF Job
  <2>3. contestStatus[j.current] # "DRAFT" /\ \A d \in j.batch : contestStatus[d] # "DRAFT"
    BY <1>8, <1>s, <2>2 DEF SumTotals, Sound, Listed, Working
  <2>4. l \in Settling \ {"tell"} /\ l \notin Freezing
    BY DEF Settling, Listed, Working, Freezing, Carrying
  <2>5. \A x \in Events : j.result[x] # 0 => eventStatus[x] = "COMPLETED"
    BY <1>j DEF Job, SettlementInv, OnlyCompletedScored
  <2> HIDE DEF j, l
  <2> QED
    BY <2>1, <2>2, <2>3, <2>4, <2>5, ReadKeeps
<1>9. CASE ReadTotal(p)
  <2> PICK plan \in Plans(total[job[p].current], job[p].result, Nothing) :
             Goto(p, "total", [job[p] EXCEPT !.plan = plan])
    BY <1>9 DEF ReadTotal
  <2> DEFINE j == [job[p] EXCEPT !.plan = plan]
  <2>1. Goto(p, "total", j) /\ pc[p] \in Settling /\ UNCHANGED <<eventStatus, contestStatus, stored>>
    BY <1>9 DEF ReadTotal, Settling, Listed, Working
  <2>2. j.event = job[p].event /\ j.to = job[p].to /\ j.from = job[p].from /\ j.due = job[p].due
    BY <1>j DEF Job
  <2> QED
    BY <1>9, <1>j, <1>s, <2>1, <2>2, ReadKeeps DEF ReadTotal, Job, Sound, Settling, Listed, Working, Freezing, Carrying
<1>10. CASE WriteTotal(p)
  <2> DEFINE c == job[p].current
  <2>1. /\ UNCHANGED <<eventStatus, contestStatus, frozen, finishes, mail>>
        /\ Goto(p, "final", job[p])
    BY <1>10 DEF WriteTotal
  <2>2. Steady
    BY <2>1, Unmoved
  <2>3. Sound("final", job[p], eventStatus', contestStatus')
    BY <1>10, <1>s, <2>1 DEF WriteTotal, Sound, Settling, Listed, Working, Freezing, Carrying
  <2>4. EveryCallerSound' /\ OneTeller'
    BY <2>1, <2>2, <2>3, GotoSound, GotoTeller
  <2>r. \A x \in Events : job[p].result[x] # 0 => eventStatus[x] = "COMPLETED"
    BY <1>10, <1>s DEF WriteTotal, Sound, Carrying
  <2>w. \A d \in Contests : total'[d] = total[d] \/ total'[d] = job[p].result
    BY <1>10, <1>t DEF WriteTotal, Upsert, TypeOK
  <2>5. ResultsToldOnce' /\ OnlyCompletedScored'
    BY <2>1, <2>r, <2>w DEF SettlementInv, ResultsToldOnce, OnlyCompletedScored
  <2>6. DraftHoldsNoResult'
    <3>1. \A d \in Contests : d # c => total'[d] = total[d]
      BY <1>10, <1>t DEF WriteTotal, TypeOK
    <3>2. contestStatus[c] # "DRAFT"
      BY <1>10, <1>s DEF WriteTotal, Sound, Working
    <3> QED
      BY <2>1, <3>1, <3>2 DEF SettlementInv, DraftHoldsNoResult
  <2> QED
    BY <2>4, <2>5, <2>6 DEF Keeps
<1>11. CASE ReadFinal(p)
  <2> DEFINE j == [job[p] EXCEPT !.result = total[job[p].current]]
  <2>1. Goto(p, "finishes", j) /\ pc[p] \in Settling /\ UNCHANGED <<eventStatus, contestStatus, stored>>
    BY <1>11 DEF ReadFinal, Settling, Listed, Working
  <2>2. j.event = job[p].event /\ j.to = job[p].to /\ j.from = job[p].from /\ j.due = job[p].due
    BY <1>j DEF Job
  <2>3. \A x \in Events : j.result[x] # 0 => eventStatus[x] = "COMPLETED"
    BY <1>j DEF Job, SettlementInv, OnlyCompletedScored
  <2> QED
    BY <1>11, <1>j, <1>s, <2>1, <2>2, <2>3, ReadKeeps DEF ReadFinal, Job, Sound, Settling, Listed, Working, Freezing, Carrying
<1>12. CASE RecordFinishes(p)
  <2> DEFINE c == job[p].current
  <2>1. /\ UNCHANGED <<eventStatus, contestStatus, frozen, total, mail>>
        /\ Goto(p, "complete", job[p])
    BY <1>12 DEF RecordFinishes
  <2>2. Steady
    BY <2>1, Unmoved
  <2>3. Sound("complete", job[p], eventStatus', contestStatus')
    BY <1>12, <1>s, <2>1 DEF RecordFinishes, Sound, Settling, Listed, Working, Freezing, Carrying
  <2>4. EveryCallerSound' /\ OneTeller'
    BY <2>1, <2>2, <2>3, GotoSound, GotoTeller
  <2>r. \A x \in Events : job[p].result[x] # 0 => eventStatus[x] = "COMPLETED"
    BY <1>12, <1>s DEF RecordFinishes, Sound, Carrying
  <2>w. \A d \in Contests : finishes'[d] = finishes[d] \/ finishes'[d] = job[p].result
    BY <1>12, <1>t DEF RecordFinishes, Recorded, TypeOK
  <2>5. ResultsToldOnce' /\ OnlyCompletedScored'
    BY <2>1, <2>r, <2>w DEF SettlementInv, ResultsToldOnce, OnlyCompletedScored
  <2>6. DraftHoldsNoResult'
    <3>1. \A d \in Contests : d # c => finishes'[d] = finishes[d]
      BY <1>12, <1>t DEF RecordFinishes, TypeOK
    <3>2. contestStatus[c] # "DRAFT"
      BY <1>12, <1>s DEF RecordFinishes, Sound, Working
    <3> QED
      BY <2>1, <3>1, <3>2 DEF SettlementInv, DraftHoldsNoResult
  <2> QED
    BY <2>4, <2>5, <2>6 DEF Keeps
<1>13. CASE Complete(p)
  <2> DEFINE c == job[p].current
  <2>u. pc[p] = "complete" /\ UNCHANGED <<eventStatus, stored>>
    BY <1>13 DEF Complete
  <2>m. c \in Contests
    BY <1>j DEF Job
  <2>1. CASE ~Completable(c)
    <3>1. Goto(p, "next", job[p]) /\ UNCHANGED contestStatus
      BY <1>13, <2>1 DEF Complete
    <3>2. Sound("next", job[p], eventStatus', contestStatus')
      BY <1>s, <2>u, <3>1 DEF Sound, Settling, Listed, Working, Freezing, Carrying
    <3> QED
      BY <2>u, <3>1, <3>2, Unmoved, GotoKeeps
  <2>2. CASE Completable(c)
    <3>1. Goto(p, "tell", job[p]) /\ contestStatus' = [contestStatus EXCEPT ![c] = "COMPLETED"]
      BY <1>13, <2>2 DEF Complete
    <3>2. Steady
      BY <1>t, <2>u, <3>1 DEF Steady, TypeOK
    <3>3. Sound("tell", job[p], eventStatus, contestStatus)
      BY <1>s, <2>u DEF Sound, Settling, Listed, Working, Freezing, Carrying
    <3>4. EveryCallerSound'
      BY <1>j, <3>1, <3>2, <3>3, SoundSteady, GotoSound
    <3>5. contestStatus[c] # "COMPLETED" /\ mail[c] = 0
      <4>1. contestStatus[c] # "COMPLETED"
        BY <2>2 DEF Completable, Settleable, NotSettled
      <4> QED
        BY <1>t, <2>m, <4>1 DEF SettlementInv, ResultsToldOnce, TypeOK
    <3>6. OneTeller'
      <4> SUFFICES ASSUME NEW q \in Callers, pc'[q] = "tell"
                   PROVE  /\ contestStatus'[job'[q].current] = "COMPLETED"
                          /\ mail'[job'[q].current] = 0
                          /\ \A r \in Callers :
                               pc'[r] = "tell" /\ job'[r].current = job'[q].current => r = q
        BY DEF OneTeller
      <4>1. \A r \in Callers : r # p => pc'[r] = pc[r] /\ job'[r] = job[r]
        BY <1>t, <3>1 DEF Goto, TypeOK
      <4>2. pc'[p] = "tell" /\ job'[p] = job[p]
        BY <1>t, <3>1 DEF Goto, TypeOK
      <4>3. \A r \in Callers : r # p /\ pc[r] = "tell" => job[r].current # c
        BY <3>5 DEF SettlementInv, OneTeller
      <4>4. mail' = mail
        BY <2>u DEF stored
      <4>5. contestStatus'[c] = "COMPLETED"
        BY <1>t, <2>m, <3>1 DEF TypeOK
      <4>6. CASE q = p
        BY <3>5, <4>1, <4>2, <4>3, <4>4, <4>5, <4>6
      <4>7. CASE q # p
        <5>1. job[q].current \in Contests
          BY <1>t DEF TypeOK, Job
        <5>2. /\ contestStatus[job[q].current] = "COMPLETED" /\ mail[job[q].current] = 0
              /\ \A r \in Callers : pc[r] = "tell" /\ job[r].current = job[q].current => r = q
          BY <4>1, <4>7 DEF SettlementInv, OneTeller
        <5> QED
          BY <3>2, <4>1, <4>2, <4>3, <4>4, <4>7, <5>1, <5>2 DEF Steady
      <4> QED
        BY <4>6, <4>7
    <3> QED
      BY <2>u, <3>2, <3>4, <3>6, StoredKeeps DEF Keeps
  <2> QED
    BY <2>1, <2>2
<1>14. CASE TellSettled(p)
  <2> DEFINE c == job[p].current
  <2>1. /\ UNCHANGED <<eventStatus, contestStatus, frozen, total, finishes>>
        /\ Goto(p, "next", job[p]) /\ pc[p] = "tell" /\ mail' = [mail EXCEPT ![c] = @ + 1]
    BY <1>14 DEF TellSettled
  <2>2. Steady
    BY <2>1, Unmoved
  <2>3. Sound("next", job[p], eventStatus', contestStatus')
    BY <1>s, <2>1 DEF Sound, Settling, Listed, Working, Freezing, Carrying
  <2>4. EveryCallerSound'
    BY <2>1, <2>2, <2>3, GotoSound
  <2>5. DraftHoldsNoResult' /\ OnlyCompletedScored'
    BY <2>1 DEF SettlementInv, DraftHoldsNoResult, OnlyCompletedScored
  <2>6. c \in Contests /\ contestStatus[c] = "COMPLETED" /\ mail[c] = 0
    BY <1>j, <2>1 DEF SettlementInv, OneTeller, Job
  <2>7. mail'[c] = 1 /\ \A d \in Contests : d # c => mail'[d] = mail[d]
    BY <1>t, <2>1, <2>6 DEF TypeOK
  <2>8. ResultsToldOnce'
    <3> SUFFICES ASSUME NEW d \in Contests
                 PROVE  mail'[d] <= 1 /\ (mail'[d] = 1 => contestStatus'[d] = "COMPLETED")
      BY DEF ResultsToldOnce
    <3>1. mail[d] <= 1 /\ (mail[d] = 1 => contestStatus[d] = "COMPLETED")
      BY DEF SettlementInv, ResultsToldOnce
    <3> QED
      BY <2>1, <2>6, <2>7, <3>1
  <2>9. OneTeller'
    <3>1. \A q \in Callers : q # p => pc'[q] = pc[q] /\ job'[q] = job[q]
      BY <1>t, <2>1 DEF Goto, TypeOK
    <3>2. pc'[p] = "next"
      BY <1>t, <2>1 DEF Goto, TypeOK
    <3>3. \A q \in Callers : q # p /\ pc[q] = "tell" => job[q].current # c
      BY <2>1 DEF SettlementInv, OneTeller
    <3>4. \A q \in Callers : job[q].current \in Contests
      BY <1>t DEF TypeOK, Job
    <3> QED
      BY <2>1, <2>7, <3>1, <3>2, <3>3, <3>4 DEF SettlementInv, OneTeller
  <2> QED
    BY <2>4, <2>5, <2>8, <2>9 DEF Keeps
<1> QED
  BY <1>1, <1>2, <1>3, <1>4, <1>5, <1>6, <1>7, <1>8, <1>9, <1>10, <1>11, <1>12,
     <1>13, <1>14 DEF Settle

-----------------------------------------------------------------------------
(* Statuses written, contests opened and gone live, and the sweep. *)

(* A status is written over the one its move was declared from. *)
LEMMA WriteDeclared ==
  ASSUME SettlementInv, NEW p \in Callers, WriteStatus(p), NEW e \in Events,
         eventStatus'[e] # eventStatus[e]
  PROVE  IsDeclaredSportEventTransition(eventStatus[e], eventStatus'[e])
<1>t. TypeOK
  BY DEF SettlementInv
<1>1. Sound("write", job[p], eventStatus, contestStatus)
  BY DEF SettlementInv, EveryCallerSound, WriteStatus
<1>2. /\ StillAt(job[p])
      /\ eventStatus' = [eventStatus EXCEPT ![job[p].event] = job[p].to]
  BY DEF WriteStatus
<1>3. e = job[p].event /\ eventStatus'[e] = job[p].to
  BY <1>t, <1>2 DEF TypeOK
<1> QED
  BY <1>1, <1>2, <1>3 DEF Sound, StillAt

LEMMA WriteKeeps == ASSUME SettlementInv, NEW p \in Callers, WriteStatus(p) PROVE Keeps
<1>t. TypeOK /\ job[p] \in Job
  BY DEF SettlementInv, TypeOK
<1>u. UNCHANGED <<contestStatus, stored>>
  BY DEF WriteStatus
<1>1. Steady
  BY <1>u, WriteDeclared
  DEF Steady, IsDeclaredSportEventTransition, SPORT_EVENT_STATUS_TRANSITIONS, FinishedStatuses
<1>2. CASE Return(p)
  BY <1>u, <1>1, <1>2, ReturnKeeps
<1>3. CASE ~Return(p)
  <2> DEFINE j == [job[p] EXCEPT !.clock = phase[job[p].event]]
  <2>1. /\ eventStatus' = [eventStatus EXCEPT ![job[p].event] = job[p].to]
        /\ SideEffect(job[p]) # "" /\ Goto(p, SideEffect(job[p]), j)
    BY <1>3 DEF WriteStatus
  <2>2. eventStatus'[job[p].event] = job[p].to
    BY <1>t, <2>1 DEF TypeOK, Job
  <2>3. Sound("write", job[p], eventStatus, contestStatus)
    BY DEF SettlementInv, EveryCallerSound, WriteStatus
  <2>4. /\ SideEffect(job[p]) \in {"join", "activate", "field"}
        /\ SideEffect(job[p]) = "field" => job[p].to \in FinishedStatuses
    BY <2>1 DEF SideEffect
  <2>j. j.event = job[p].event /\ j.to = job[p].to /\ j.from = job[p].from /\ j.due = job[p].due
    BY <1>t DEF Job
  <2> HIDE DEF j
  <2>5. Sound(SideEffect(job[p]), j, eventStatus', contestStatus')
    BY <2>2, <2>3, <2>4, <2>j DEF Sound, Settling, Listed, Working, Freezing, Carrying
  <2>6. SideEffect(job[p]) # "tell"
    BY <2>4
  <2> QED
    BY <1>u, <1>1, <2>1, <2>5, <2>6, GotoKeeps
<1> QED
  BY <1>2, <1>3

(* Going live and opening move a contest on, and wait for no event. *)
LEMMA ContestWriteKeeps ==
  ASSUME SettlementInv, NEW p \in Callers, ActivateWrite(p) \/ OpenWrite(p)
  PROVE  Keeps
<1>t. TypeOK /\ job[p] \in Job
  BY DEF SettlementInv, TypeOK
<1>s. Sound(pc[p], job[p], eventStatus, contestStatus)
  BY DEF SettlementInv, EveryCallerSound
<1>1. CASE ActivateWrite(p)
  <2>u. UNCHANGED <<eventStatus, stored>> /\ pc[p] = "activateWrite"
    BY <1>1 DEF ActivateWrite
  <2>d. job[p].due => job[p].from = "IN_PROGRESS"
    BY <1>s DEF Sound
  <2>1. CASE job[p].batch = {}
    <3>1. UNCHANGED contestStatus /\
          ((job[p].due /\ Goto(p, "finish", job[p])) \/ Return(p))
      BY <1>1, <2>1 DEF ActivateWrite
    <3>2. job[p].due => Sound("finish", job[p], eventStatus', contestStatus')
      BY <2>d DEF Sound, Settling, Listed, Working, Freezing, Carrying
    <3> QED
      BY <2>u, <3>1, <3>2, Unmoved, GotoKeeps, ReturnKeeps
  <2>2. CASE job[p].batch # {}
    <3>1. PICK group :
            /\ contestStatus' = [c \in Contests |->
                 IF c \in group /\ Startable(c) THEN "ACTIVE" ELSE contestStatus[c]]
            /\ Goto(p, "activateWrite", [job[p] EXCEPT !.batch = @ \ group])
      BY <1>1, <2>2 DEF ActivateWrite
    <3> DEFINE j == [job[p] EXCEPT !.batch = @ \ group]
    <3>2. Steady
      BY <2>u, <3>1 DEF Steady, Startable
    <3>3. j.due = job[p].due /\ j.from = job[p].from
      BY <1>t DEF Job
    <3>4. Sound("activateWrite", j, eventStatus', contestStatus')
      BY <2>d, <3>3, LooseSound DEF Settling, Listed, Working
    <3> HIDE DEF j
    <3>5. Goto(p, "activateWrite", j)
      BY <3>1 DEF j
    <3> QED
      BY <2>u, <3>2, <3>4, <3>5, GotoKeeps
  <2> QED
    BY <2>1, <2>2
<1>2. CASE OpenWrite(p)
  <2>1. UNCHANGED <<eventStatus, stored>> /\ Return(p)
    BY <1>2 DEF OpenWrite
  <2>2. Steady
    BY <1>2, <1>t, <2>1 DEF OpenWrite, Steady, TypeOK
  <2> QED
    BY <2>1, <2>2, ReturnKeeps
<1> QED
  BY <1>1, <1>2

LEMMA WorkKeeps == ASSUME SettlementInv, NEW p \in Callers, Work(p) PROVE Keeps
<1>t. TypeOK /\ job[p] \in Job
  BY DEF SettlementInv, TypeOK
<1>s. Sound(pc[p], job[p], eventStatus, contestStatus)
  BY DEF SettlementInv, EveryCallerSound
<1>d. job[p].due => job[p].from = "IN_PROGRESS"
  BY <1>s DEF Sound
<1>1. CASE Activate(p)
  <2>1. PICK due : Goto(p, "activateWrite", [job[p] EXCEPT !.batch = due])
    BY <1>1 DEF Activate
  <2> DEFINE j == [job[p] EXCEPT !.batch = due]
  <2>2. j.due = job[p].due /\ j.from = job[p].from
    BY <1>t DEF Job
  <2>3. Sound("activateWrite", j, eventStatus', contestStatus')
    BY <1>d, <2>2, LooseSound DEF Settling, Listed, Working
  <2>4. UNCHANGED <<eventStatus, contestStatus, stored>>
    BY <1>1 DEF Activate
  <2> QED
    BY <2>1, <2>3, <2>4, Unmoved, GotoKeeps
<1>2. CASE WriteEvents(p)
  <2>1. Goto(p, "joinNext", job[p]) /\ UNCHANGED <<eventStatus, contestStatus, stored>>
    BY <1>2 DEF WriteEvents
  <2>2. Sound("joinNext", job[p], eventStatus', contestStatus')
    BY <1>d, LooseSound DEF Settling, Listed, Working
  <2> QED
    BY <2>1, <2>2, Unmoved, GotoKeeps
<1>3. CASE FindJoinable(p)
  <2>1. PICK b : Goto(p, "joinNext", [job[p] EXCEPT !.batch = b, !.lists = contestEvents])
    BY <1>3 DEF FindJoinable
  <2> DEFINE j == [job[p] EXCEPT !.batch = b, !.lists = contestEvents]
  <2>2. j.due = job[p].due /\ j.from = job[p].from
    BY <1>t DEF Job
  <2>3. Sound("joinNext", j, eventStatus', contestStatus')
    BY <1>d, <2>2, LooseSound DEF Settling, Listed, Working
  <2>4. UNCHANGED <<eventStatus, contestStatus, stored>>
    BY <1>3 DEF FindJoinable
  <2> QED
    BY <2>1, <2>3, <2>4, Unmoved, GotoKeeps
<1>4. CASE JoinNext(p)
  <2>u. UNCHANGED <<eventStatus, contestStatus, stored>>
    BY <1>4 DEF JoinNext
  <2>1. CASE Return(p)
    BY <2>u, <2>1, Unmoved, ReturnKeeps
  <2>2. CASE ~Return(p)
    <3>1. PICK c \in job[p].batch :
            LET target == job[p].lists[c] \cup {job[p].event}
                j == [job[p] EXCEPT !.batch = @ \ {c}]
            IN IF MaySetEvents(c, target)
               THEN Goto(p, "editWrite", [j EXCEPT !.current = c, !.target = target])
               ELSE Goto(p, "joinNext", j)
      BY <1>4, <2>2 DEF JoinNext
    <3> DEFINE j == [job[p] EXCEPT !.batch = @ \ {c}]
               k == [j EXCEPT !.current = c, !.target = job[p].lists[c] \cup {job[p].event}]
    <3>2. /\ j.due = job[p].due /\ j.from = job[p].from
          /\ k.due = job[p].due /\ k.from = job[p].from
      BY <1>t DEF Job
    <3>3. /\ Sound("joinNext", j, eventStatus', contestStatus')
          /\ Sound("editWrite", k, eventStatus', contestStatus')
      BY <1>d, <3>2, LooseSound DEF Settling, Listed, Working
    <3> QED
      BY <2>u, <3>1, <3>3, Unmoved, GotoKeeps
  <2> QED
    BY <2>1, <2>2
<1>5. CASE SweepNext(p)
  <2>u. UNCHANGED <<eventStatus, contestStatus, stored>>
    BY <1>5 DEF SweepNext
  <2>b. Blank \in Job /\ Blank.due = FALSE
    BY BlankType DEF Blank
  <2>1. ASSUME NEW x, SweepScheduled(p, x) PROVE Keeps
    <3> DEFINE j == [Blank EXCEPT !.sweep = job[p].sweep \ {x}]
               k == [j EXCEPT !.event = x.event, !.from = "SCHEDULED", !.to = "IN_PROGRESS"]
    <3>1. Goto(p, "write", k) \/ Goto(p, "sweep", j)
      BY <2>1 DEF SweepScheduled
    <3>2. j.due = FALSE /\ k.due = FALSE /\ k.from = "SCHEDULED" /\ k.to = "IN_PROGRESS"
      BY <2>b DEF Job
    <3>3. Sound("sweep", j, eventStatus', contestStatus')
      BY <3>2, LooseSound DEF Settling, Listed, Working
    <3>4. Sound("write", k, eventStatus', contestStatus')
      BY <3>2 DEF Sound, Settling, Listed, Working, Freezing, Carrying,
         IsDeclaredSportEventTransition, SPORT_EVENT_STATUS_TRANSITIONS
    <3> QED
      BY <2>u, <3>1, <3>3, <3>4, Unmoved, GotoKeeps
  <2>2. ASSUME NEW x, SweepInProgress(p, x) PROVE Keeps
    <3> DEFINE j == [Blank EXCEPT !.sweep = job[p].sweep \ {x}, !.event = x.event,
             !.from = "IN_PROGRESS", !.to = "IN_PROGRESS",
                          !.clock = x.phase, !.due = (x.phase = Over)]
    <3>1. Goto(p, "activate", j)
      BY <2>2 DEF SweepInProgress
    <3>2. j.from = "IN_PROGRESS"
      BY <2>b DEF Job
    <3>3. Sound("activate", j, eventStatus', contestStatus')
      BY <3>2, LooseSound DEF Settling, Listed, Working
    <3> QED
      BY <2>u, <3>1, <3>3, Unmoved, GotoKeeps
  <2>3. ASSUME Goto(p, "idle", Blank) PROVE Keeps
    <3>1. Sound("idle", Blank, eventStatus', contestStatus')
      BY <2>b, LooseSound DEF Settling, Listed, Working
    <3> QED
      BY <2>u, <2>3, <3>1, Unmoved, GotoKeeps
  <2> QED
    BY <1>5, <2>1, <2>2, <2>3 DEF SweepNext
<1>6. CASE SweepFinish(p)
  <2>u. UNCHANGED <<eventStatus, contestStatus, stored>>
    BY <1>6 DEF SweepFinish
  <2>1. CASE Return(p)
    BY <2>u, <2>1, Unmoved, ReturnKeeps
  <2>2. CASE ~Return(p)
    <3> DEFINE j == [job[p] EXCEPT !.to = "COMPLETED", !.due = FALSE]
    <3>1. Goto(p, "write", j) /\ pc[p] = "finish"
      BY <1>6, <2>2 DEF SweepFinish
    <3>2. job[p].from = "IN_PROGRESS"
      BY <1>s, <3>1 DEF Sound
    <3>3. j.due = FALSE /\ j.from = "IN_PROGRESS" /\ j.to = "COMPLETED"
      BY <1>t, <3>2 DEF Job
    <3>4. Sound("write", j, eventStatus', contestStatus')
      BY <3>3 DEF Sound, Settling, Listed, Working, Freezing, Carrying,
         IsDeclaredSportEventTransition, SPORT_EVENT_STATUS_TRANSITIONS
    <3> QED
      BY <2>u, <3>1, <3>4, Unmoved, GotoKeeps
  <2> QED
    BY <2>1, <2>2
<1> QED
  BY <1>1, <1>2, <1>3, <1>4, <1>5, <1>6, WriteKeeps, ContestWriteKeeps, SettleKeeps DEF Work

-----------------------------------------------------------------------------
(* The invariant, and what it is for. *)

LEMMA InvInit == Init => SettlementInv
<1> SUFFICES ASSUME Init PROVE SettlementInv
  OBVIOUS
<1>1. TypeOK
  BY InitType
<1>2. EveryCallerSound
  BY LooseSound DEF Init, EveryCallerSound, Blank, Settling, Listed, Working
<1>3. OneTeller /\ ResultsToldOnce /\ DraftHoldsNoResult
  BY DEF Init, OneTeller, ResultsToldOnce, DraftHoldsNoResult
<1>4. OnlyCompletedScored
  BY DEF Init, OnlyCompletedScored, Nothing
<1> QED
  BY <1>1, <1>2, <1>3, <1>4 DEF SettlementInv

LEMMA InvNext == SettlementInv /\ [Next]_vars => SettlementInv'
<1> SUFFICES ASSUME SettlementInv, [Next]_vars PROVE SettlementInv'
  OBVIOUS
<1>1. TypeOK'
  BY NextType DEF SettlementInv
<1>2. ASSUME UNCHANGED vars PROVE Keeps
  BY <1>2, StillKeeps DEF vars
<1>3. ASSUME NEW e \in Events, TimePasses(e) \/ CorrectScore(e) PROVE Keeps
  BY <1>3, StillKeeps DEF TimePasses, CorrectScore
<1>4. Keeps
  BY <1>2, <1>3, AskKeeps, SweepKeeps, WorkKeeps, FailKeeps DEF Next, World
<1> QED
  BY <1>1, <1>4 DEF Keeps, SettlementInv

LEMMA InvHolds == Spec => []SettlementInv
BY InvInit, InvNext, PTL DEF Spec

(* The league hears of a contest's final results at most once, and never
   before it is final: only one caller's guarded write completes a contest,
   and only that caller tells of it. *)
THEOREM ToldOnce == Spec => []ResultsToldOnce
<1>1. SettlementInv => ResultsToldOnce
  BY DEF SettlementInv
<1> QED
  BY <1>1, InvHolds, PTL

(* No settlement leaves standings or finishes on a draft contest. *)
THEOREM DraftsHoldNoResult == Spec => []DraftHoldsNoResult
<1>1. SettlementInv => DraftHoldsNoResult
  BY DEF SettlementInv
<1> QED
  BY <1>1, InvHolds, PTL

(* Every score in a frozen standing, a total or a finish is of an event that
   completed: a cancelled event is never scored, nor one still under way. *)
THEOREM ScoresAreOfCompletedEvents == Spec => []OnlyCompletedScored
<1>1. SettlementInv => OnlyCompletedScored
  BY DEF SettlementInv
<1> QED
  BY <1>1, InvHolds, PTL

-----------------------------------------------------------------------------
(* What a step may never do. *)

(* The one action that writes an event's status, and those that write a
   contest's status and its finishes. *)
LEMMA Writers ==
  ASSUME [Next]_vars
  PROVE  /\ UNCHANGED eventStatus \/ \E p \in Callers : WriteStatus(p)
         /\ \/ UNCHANGED contestStatus
            \/ \E p \in Callers : ActivateWrite(p) \/ OpenWrite(p) \/ Complete(p)
         /\ UNCHANGED finishes \/ \E p \in Callers : RecordFinishes(p)
<1> DEFINE Others == UNCHANGED <<eventStatus, contestStatus, finishes>>
<1>1. ASSUME UNCHANGED vars PROVE Others
  BY <1>1 DEF vars, stored
<1>2. ASSUME World PROVE Others
  BY <1>2 DEF World, TimePasses, CorrectScore, stored
<1>3. ASSUME NEW a \in Admins, Ask(a) PROVE Others
  BY <1>3 DEF Ask, RequestRelease, RequestTransition, RequestOpen, RequestEvents, stored
<1>4. ASSUME NEW t \in Tasks, StartSweep(t) PROVE Others
  BY <1>4 DEF StartSweep, stored
<1>5. ASSUME Fail PROVE Others
  BY <1>5 DEF Fail, Throw, Crash, DropLock, stored
<1>6. ASSUME NEW p \in Callers, Settle(p), ~Complete(p), ~RecordFinishes(p)
      PROVE  Others
  <2>1. CASE ReadField(p) \/ ReadContests(p) \/ ReadSettledFor(p) \/ NextContest(p)
    BY <2>1 DEF ReadField, ReadContests, ReadSettledFor, NextContest, stored
  <2>2. CASE ReadFrozen(p) \/ WriteFrozen(p) \/ Check(p) \/ SumTotals(p)
    BY <2>2 DEF ReadFrozen, WriteFrozen, Check, SumTotals, stored
  <2>3. CASE ReadTotal(p) \/ WriteTotal(p) \/ ReadFinal(p) \/ TellSettled(p)
    BY <2>3 DEF ReadTotal, WriteTotal, ReadFinal, TellSettled, stored
  <2> QED
    BY <1>6, <2>1, <2>2, <2>3 DEF Settle
<1>7. ASSUME NEW p \in Callers, Activate(p) \/ WriteEvents(p) \/ FindJoinable(p)
             \/ JoinNext(p) \/ SweepNext(p) \/ SweepFinish(p)
      PROVE  Others
  BY <1>7 DEF Activate, WriteEvents, FindJoinable, JoinNext, SweepNext, SweepFinish, stored
<1>8. ASSUME NEW p \in Callers, WriteStatus(p) PROVE UNCHANGED <<contestStatus, finishes>>
  BY <1>8 DEF WriteStatus, stored
<1>9. ASSUME NEW p \in Callers, ActivateWrite(p) \/ OpenWrite(p) \/ Complete(p)
      PROVE  UNCHANGED <<eventStatus, finishes>>
  BY <1>9 DEF ActivateWrite, OpenWrite, Complete, stored
<1>10. ASSUME NEW p \in Callers, RecordFinishes(p)
       PROVE  UNCHANGED <<eventStatus, contestStatus>>
  BY <1>10 DEF RecordFinishes
<1>11. CASE \E p \in Callers : Work(p)
  BY <1>6, <1>7, <1>8, <1>9, <1>10, <1>11 DEF Work
<1> QED
  BY <1>1, <1>2, <1>3, <1>4, <1>5, <1>11 DEF Next

(* Every change of an event's status is a declared transition, however many
   admins and sweeps decide on statuses they read before one another's writes. *)
THEOREM EventsMoveAsDeclared == Spec => EventMovesAsDeclared
<1> DEFINE A == \A e \in Events : eventStatus'[e] # eventStatus[e] =>
                  IsDeclaredSportEventTransition(eventStatus[e], eventStatus'[e])
<1>1. SettlementInv /\ [Next]_vars => [A]_vars
  <2> SUFFICES ASSUME SettlementInv, [Next]_vars PROVE A
    OBVIOUS
  <2>1. CASE UNCHANGED eventStatus
    BY <2>1
  <2>2. ASSUME NEW p \in Callers, WriteStatus(p) PROVE A
    BY <2>2, WriteDeclared
  <2> QED
    BY <2>1, <2>2, Writers
<1> QED
  BY <1>1, InvHolds, PTL DEF Spec, EventMovesAsDeclared

(* No step moves a contest back or out of COMPLETED, and a draft can only be
   opened. *)
MovesForward ==
  \A c \in Contests : contestStatus'[c] # contestStatus[c] =>
    /\ Stage[contestStatus'[c]] > Stage[contestStatus[c]]
    /\ contestStatus[c] = "DRAFT" => contestStatus'[c] = "OPEN"

LEMMA ContestsForward == SettlementInv /\ [Next]_vars => MovesForward
<1> SUFFICES ASSUME SettlementInv, [Next]_vars PROVE MovesForward
  OBVIOUS
<1>t. TypeOK
  BY DEF SettlementInv
<1>1. CASE UNCHANGED contestStatus
  BY <1>1 DEF MovesForward
<1>2. ASSUME NEW p \in Callers, ActivateWrite(p) PROVE MovesForward
  <2>1. \A c \in Contests : \/ contestStatus'[c] = contestStatus[c]
                            \/ contestStatus[c] = "OPEN" /\ contestStatus'[c] = "ACTIVE"
    <3>1. CASE UNCHANGED contestStatus
      BY <3>1
    <3>2. CASE ~UNCHANGED contestStatus
      <4>1. PICK group : contestStatus' = [c \in Contests |->
              IF c \in group /\ Startable(c) THEN "ACTIVE" ELSE contestStatus[c]]
        BY <1>2, <3>2 DEF ActivateWrite
      <4> QED
        BY <4>1 DEF Startable
    <3> QED
      BY <3>1, <3>2
  <2> QED
    BY <2>1 DEF Stage, MovesForward
<1>3. ASSUME NEW p \in Callers, OpenWrite(p) PROVE MovesForward
  BY <1>t, <1>3 DEF MovesForward, OpenWrite, Stage, TypeOK, ContestStatus
<1>4. ASSUME NEW p \in Callers, Complete(p) PROVE MovesForward
  BY <1>t, <1>4
  DEF MovesForward, Complete, Completable, Settleable, NotSettled, Stage, TypeOK, ContestStatus
<1> QED
  BY <1>1, <1>2, <1>3, <1>4, Writers

(* However many callers act on a contest's status they read before one
   another's writes, no contest goes back, a completed one stays completed, and
   a draft can only be opened. *)
THEOREM ContestsMoveForward == Spec => ContestMovesForward
<1>1. SettlementInv /\ [Next]_vars => [MovesForward]_vars
  BY ContestsForward
<1> QED
  BY <1>1, InvHolds, PTL DEF Spec, ContestMovesForward, MovesForward

(* A contest's championship finishes, once written, are never rewritten. *)
THEOREM FirstFinishesStand == Spec => FinishesStand
<1> DEFINE A == \A c \in Contests : finishes[c] # Nothing => finishes'[c] = finishes[c]
<1>1. SettlementInv /\ [Next]_vars => [A]_vars
  <2> SUFFICES ASSUME SettlementInv, [Next]_vars PROVE A
    OBVIOUS
  <2>t. TypeOK
    BY DEF SettlementInv
  <2>1. CASE UNCHANGED finishes
    BY <2>1
  <2>2. ASSUME NEW p \in Callers, RecordFinishes(p) PROVE A
    BY <2>t, <2>2 DEF RecordFinishes, Recorded, TypeOK
  <2> QED
    BY <2>1, <2>2, Writers
<1> QED
  BY <1>1, InvHolds, PTL DEF Spec, FinishesStand
=============================================================================
