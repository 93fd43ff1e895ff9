----------------------- MODULE SettlementWaits_proofs -----------------------
(***************************************************************************)
(* A contest's result waits for the last of its events, for every instance *)
(* in which no contest's events change.  allEventsFinished decides on      *)
(* statuses read earlier, each once for all the contests a settlement goes *)
(* through, so what carries the property is what a caller remembers: a     *)
(* status it read as finished is finished still, and the list of events it *)
(* read is the contest's list still.                                       *)
(***************************************************************************)
EXTENDS SettlementSafety_proofs

(* Nobody changes a contest's events, and a bracket is on one event. *)
EventsStay ==
  /\ Template = {} /\ Editable = {}
  /\ \A c \in Brackets : \A d, e \in InitialEvents[c] : d = e

AllOver(c, es) == \A e \in InitialEvents[c] : es[e] \in FinishedStatuses

(* The places of a settlement from which the contest's result is written. *)
Deciding == {"sum", "totalRead", "total", "final", "finishes", "complete", "tell"}

(* What a caller at l with job j, while events are where es says, may rely on. *)
Waits(l, j, es) ==
  /\ l # "editWrite"
  /\ l = "joinNext" => j.batch = {}
  /\ \A e \in Events : j.memo[e] \in FinishedStatuses => es[e] \in FinishedStatuses
  /\ l \in Listed => /\ j.lists = InitialEvents
                     /\ \A c \in j.batch : j.event \in InitialEvents[c]
  /\ l \in Working => j.event \in InitialEvents[j.current]
  /\ l \in Deciding => AllOver(j.current, es)

EveryCallerWaits == \A p \in Callers : Waits(pc[p], job[p], eventStatus)

WaitInv == /\ SettlementInv
           /\ contestEvents = InitialEvents
           /\ EveryCallerWaits
           /\ ResultsWaitForEveryEvent

(* A finished event stays as it finished. *)
Stays == \A e \in Events : eventStatus[e] \in FinishedStatuses => eventStatus'[e] = eventStatus[e]

LEMMA FinishedStays == SettlementInv /\ [Next]_vars => Stays
<1> SUFFICES ASSUME SettlementInv, [Next]_vars PROVE Stays
  OBVIOUS
<1>1. CASE UNCHANGED eventStatus
  BY <1>1 DEF Stays
<1>2. ASSUME NEW p \in Callers, WriteStatus(p) PROVE Stays
  BY <1>2, WriteDeclared
  DEF Stays, IsDeclaredSportEventTransition, SPORT_EVENT_STATUS_TRANSITIONS, FinishedStatuses
<1> QED
  BY <1>1, <1>2, Writers

-----------------------------------------------------------------------------
(* What the callers rely on. *)

LEMMA WaitsSteady ==
  ASSUME Stays, NEW l, NEW j \in Job, Waits(l, j, eventStatus)
  PROVE  Waits(l, j, eventStatus')
<1>1. j.current \in Contests
  BY DEF Job
<1>2. InitialEvents[j.current] \subseteq Events
  BY <1>1, InitialAssumption
<1> QED
  BY <1>2 DEF Waits, Stays, AllOver

(* A caller that moves on leaves the others where they were. *)
LEMMA GotoWaits ==
  ASSUME TypeOK, EveryCallerWaits, Stays, NEW p \in Callers, NEW l, NEW j,
         Goto(p, l, j), Waits(l, j, eventStatus')
  PROVE  EveryCallerWaits'
<1> SUFFICES ASSUME NEW q \in Callers PROVE Waits(pc'[q], job'[q], eventStatus')
  BY DEF EveryCallerWaits
<1>t. pc \in [Callers -> Location] /\ job \in [Callers -> Job]
  BY DEF TypeOK
<1>1. CASE q = p
  <2>1. pc'[q] = l /\ job'[q] = j
    BY <1>t, <1>1 DEF Goto
  <2> QED
    BY <2>1
<1>2. CASE q # p
  <2>1. pc'[q] = pc[q] /\ job'[q] = job[q]
    BY <1>t, <1>2 DEF Goto
  <2>2. Waits(pc[q], job[q], eventStatus) /\ job[q] \in Job
    BY <1>t DEF EveryCallerWaits
  <2> QED
    BY <2>1, <2>2, WaitsSteady
<1> QED
  BY <1>1, <1>2

LEMMA StillWaits ==
  ASSUME TypeOK, EveryCallerWaits, Stays, UNCHANGED <<pc, job>>
  PROVE  EveryCallerWaits'
BY WaitsSteady DEF TypeOK, EveryCallerWaits

(* Places that rely on nothing but the statuses remembered. *)
LEMMA LooseWaits ==
  ASSUME NEW l, l \notin Listed \cup {"editWrite", "joinNext"}, NEW j, NEW es,
         \A e \in Events : j.memo[e] \in FinishedStatuses => es[e] \in FinishedStatuses
  PROVE  Waits(l, j, es)
BY DEF Waits, Listed, Working, Deciding

LEMMA BlankRemembersNothing == \A e \in Events : Blank.memo[e] \notin FinishedStatuses
BY DEF Blank, FinishedStatuses

(* A caller that starts afresh remembers nothing. *)
LEMMA FreshWaits ==
  ASSUME TypeOK, EveryCallerWaits, Stays, NEW p \in Callers, NEW l, NEW j, Goto(p, l, j),
         l \notin Listed \cup {"editWrite", "joinNext"}, j.memo = Blank.memo
  PROVE  EveryCallerWaits'
BY GotoWaits, LooseWaits, BlankRemembersNothing

LEMMA ReturnWaits ==
  ASSUME TypeOK, EveryCallerWaits, Stays, NEW p \in Callers, Return(p)
  PROVE  EveryCallerWaits'
<1> DEFINE j == [Blank EXCEPT !.sweep = job[p].sweep]
           l == IF p \in Tasks THEN "sweep" ELSE "idle"
<1>1. j.memo = Blank.memo
  BY DEF Blank
<1>2. l \notin Listed \cup {"editWrite", "joinNext"}
  BY DEF Listed, Working
<1>3. Goto(p, l, j)
  BY DEF Return
<1> HIDE DEF j, l
<1> QED
  BY <1>1, <1>2, <1>3, FreshWaits

(* A caller that keeps what it read and moves on within its contest. *)
LEMMA OnWaits ==
  ASSUME TypeOK, EveryCallerWaits, Stays, NEW p \in Callers, pc[p] \in Working,
         NEW l \in Working \cup {"next"}, NEW j, Goto(p, l, j),
         j.memo = job[p].memo, j.lists = job[p].lists, j.batch = job[p].batch,
         j.event = job[p].event, j.current = job[p].current,
         l \in Deciding => pc[p] \in Deciding \/ AllOver(j.current, eventStatus)
  PROVE  EveryCallerWaits'
<1>t. job[p] \in Job
  BY DEF TypeOK
<1>1. Waits(pc[p], job[p], eventStatus')
  BY <1>t, WaitsSteady DEF EveryCallerWaits
<1>2. Waits(pc[p], job[p], eventStatus)
  BY DEF EveryCallerWaits
<1>3. job[p].current \in Contests
  BY <1>t DEF Job
<1>4. InitialEvents[job[p].current] \subseteq Events
  BY <1>3, InitialAssumption
<1>5. l \in Deciding => AllOver(j.current, eventStatus')
  BY <1>2, <1>4 DEF Waits, AllOver, Stays
<1>6. Waits(l, j, eventStatus')
  BY <1>1, <1>5 DEF Waits, Listed, Working
<1> QED
  BY <1>6, GotoWaits

-----------------------------------------------------------------------------
(* What each step hands on. *)

(* A bracket's one event is the one being settled. *)
LEMMA BracketIsOver ==
  ASSUME EventsStay, SettlementInv, EveryCallerWaits, NEW p \in Callers,
         pc[p] \in Working, job[p].current \in Brackets
  PROVE  AllOver(job[p].current, eventStatus)
<1>1. job[p].event \in InitialEvents[job[p].current]
  BY DEF EveryCallerWaits, Waits
<1>2. eventStatus[job[p].event] \in FinishedStatuses
  BY DEF SettlementInv, EveryCallerSound, Sound, Settling, Listed
<1> QED
  BY <1>1, <1>2 DEF EventsStay, AllOver

LEMMA ReadsWait ==
  ASSUME SettlementInv, EveryCallerWaits, Stays, contestEvents = InitialEvents,
         NEW p \in Callers, ReadField(p) \/ ReadContests(p) \/ ReadSettledFor(p)
  PROVE  EveryCallerWaits'
<1>t. TypeOK /\ job[p] \in Job
  BY DEF SettlementInv, TypeOK
<1>j. job[p].event \in Events
  BY <1>t DEF Job
<1>w. Waits(pc[p], job[p], eventStatus') /\ Waits(pc[p], job[p], eventStatus)
  BY <1>t, WaitsSteady DEF EveryCallerWaits
<1>1. CASE ReadField(p)
  <2> DEFINE j == [job[p] EXCEPT !.version = score[job[p].event],
                                 !.memo[job[p].event] = eventStatus[job[p].event]]
  <2>1. Goto(p, "contests", j)
    BY <1>1 DEF ReadField
  <2>2. j.memo = [job[p].memo EXCEPT ![job[p].event] = eventStatus[job[p].event]]
    BY <1>t DEF Job
  <2>3. \A e \in Events : j.memo[e] \in FinishedStatuses => eventStatus'[e] \in FinishedStatuses
    BY <1>t, <1>j, <1>w, <2>2 DEF Job, Stays, Waits
  <2>4. "contests" \notin Listed \cup {"editWrite", "joinNext"}
    BY DEF Listed, Working
  <2>5. Waits("contests", j, eventStatus')
    BY <2>3, <2>4, LooseWaits
  <2> QED
    BY <1>t, <2>1, <2>5, GotoWaits
<1>2. CASE ReadContests(p)
  <2> DEFINE j == [job[p] EXCEPT !.batch = Unsettled(job[p].event), !.lists = contestEvents]
  <2>1. Goto(p, "known", j)
    BY <1>2 DEF ReadContests
  <2>2. /\ j.batch = Unsettled(job[p].event) /\ j.lists = InitialEvents
        /\ j.memo = job[p].memo /\ j.event = job[p].event
    BY <1>t DEF Job
  <2>3. Waits("known", j, eventStatus')
    BY <1>w, <2>2 DEF Waits, Unsettled, Working, Deciding
  <2> QED
    BY <1>t, <2>1, <2>3, GotoWaits
<1>3. CASE ReadSettledFor(p)
  <2> DEFINE j == [job[p] EXCEPT !.known =
                     {c \in job[p].batch : frozen[c][job[p].event] # 0}]
  <2>1. Goto(p, "next", j) /\ pc[p] = "known"
    BY <1>3 DEF ReadSettledFor
  <2>2. /\ j.batch = job[p].batch /\ j.lists = job[p].lists
        /\ j.memo = job[p].memo /\ j.event = job[p].event
    BY <1>t DEF Job
  <2>3. Waits("next", j, eventStatus')
    BY <1>w, <2>1, <2>2 DEF Waits, Listed, Working, Deciding
  <2> QED
    BY <1>t, <2>1, <2>3, GotoWaits
<1> QED
  BY <1>1, <1>2, <1>3

LEMMA FirstSteps ==
  ASSUME NEW j, NEW c, FirstStep(j, c) # ""
  PROVE  \/ FirstStep(j, c) \in {"freezeRead", "check"}
         \/ FirstStep(j, c) = "final" /\ c \in Brackets
BY DEF FirstStep, Freezes

(* The next contest of the list: a bracket on a cancelled event goes straight
   to its result, the others are frozen or checked first. *)
LEMMA NextContestWaits ==
  ASSUME EventsStay, SettlementInv, EveryCallerWaits, Stays,
         NEW p \in Callers, NextContest(p)
  PROVE  EveryCallerWaits'
<1>t. TypeOK /\ job[p] \in Job
  BY DEF SettlementInv, TypeOK
<1>l. pc[p] = "next"
  BY DEF NextContest
<1>w. Waits(pc[p], job[p], eventStatus')
  BY <1>t, WaitsSteady DEF EveryCallerWaits
<1>f. eventStatus'[job[p].event] \in FinishedStatuses
  <2>1. eventStatus[job[p].event] \in FinishedStatuses
    BY <1>l DEF SettlementInv, EveryCallerSound, Sound, Settling, Listed
  <2>2. job[p].event \in Events
    BY <1>t DEF Job
  <2> QED
    BY <2>1, <2>2 DEF Stays
<1>1. CASE job[p].batch = {}
  BY <1>1, <1>t, ReturnWaits DEF NextContest
<1>2. CASE job[p].batch # {}
  <2> DEFINE J(c) == [job[p] EXCEPT !.batch = @ \ {c}, !.current = c]
             G(c) == [J(c) EXCEPT !.result = Nothing, !.plan = "create",
                        !.games = IF FirstStep(J(c), c) = "freezeRead" /\ c \in Brackets /\ @ = 0
                                  THEN score[J(c).event] ELSE @]
  <2>1. PICK c \in job[p].batch :
               IF FirstStep(J(c), c) = "" THEN Goto(p, "next", J(c))
               ELSE Goto(p, FirstStep(J(c), c), G(c))
    BY <1>2 DEF NextContest
  <2>c. c \in Contests
    BY <1>t, <2>1 DEF Job
  <2>2. /\ J(c).batch = job[p].batch \ {c} /\ J(c).current = c
        /\ J(c).lists = job[p].lists /\ J(c).memo = job[p].memo
        /\ J(c).event = job[p].event /\ J(c).to = job[p].to
    BY <1>t DEF Job
  <2>3. /\ G(c).batch = J(c).batch /\ G(c).current = c /\ G(c).lists = J(c).lists
        /\ G(c).memo = J(c).memo /\ G(c).event = J(c).event
    BY <1>t, <2>2 DEF Job
  <2>4. job[p].event \in InitialEvents[c] /\ job[p].lists = InitialEvents
    BY <1>l, <1>w, <2>1 DEF Waits, Listed
  <2>5. CASE FirstStep(J(c), c) = ""
    <3>1. Waits("next", J(c), eventStatus')
      BY <1>l, <1>w, <2>2 DEF Waits, Listed, Working, Deciding
    <3> QED
      BY <1>t, <2>1, <2>5, <3>1, GotoWaits
  <2>6. CASE FirstStep(J(c), c) # ""
    <3>1. FirstStep(J(c), c) \in {"freezeRead", "check"}
            \/ (FirstStep(J(c), c) = "final" /\ c \in Brackets)
      BY <2>6, FirstSteps
    <3>2. FirstStep(J(c), c) = "final" => AllOver(c, eventStatus')
      BY <1>f, <2>4, <3>1 DEF AllOver, EventsStay
    <3>3. Waits(FirstStep(J(c), c), G(c), eventStatus')
      BY <1>l, <1>w, <2>2, <2>3, <2>4, <3>1, <3>2 DEF Waits, Listed, Working, Deciding
    <3> QED
      BY <1>t, <2>1, <2>6, <3>3, GotoWaits
  <2> QED
    BY <2>5, <2>6
<1> QED
  BY <1>1, <1>2

LEMMA FreezeWaits ==
  ASSUME EventsStay, SettlementInv, EveryCallerWaits, Stays,
         NEW p \in Callers, ReadFrozen(p) \/ WriteFrozen(p)
  PROVE  EveryCallerWaits'
<1>t. TypeOK /\ job[p] \in Job
  BY DEF SettlementInv, TypeOK
<1>1. CASE ReadFrozen(p)
  <2>1. PICK plan : Goto(p, "freeze", [job[p] EXCEPT !.plan = plan])
    BY <1>1 DEF ReadFrozen
  <2>2. pc[p] = "freezeRead"
    BY <1>1 DEF ReadFrozen
  <2> DEFINE j == [job[p] EXCEPT !.plan = plan]
  <2>3. /\ j.memo = job[p].memo /\ j.lists = job[p].lists /\ j.batch = job[p].batch
        /\ j.event = job[p].event /\ j.current = job[p].current
    BY <1>t DEF Job
  <2> QED
    BY <1>t, <2>1, <2>2, <2>3, OnWaits DEF Working, Deciding
<1>2. CASE WriteFrozen(p) /\ job[p].current \in Brackets
  <2> DEFINE j == [job[p] EXCEPT !.result = [Nothing EXCEPT ![job[p].event] = Graded(job[p])]]
  <2>1. Goto(p, "totalRead", j) /\ pc[p] = "freeze"
    BY <1>2 DEF WriteFrozen
  <2>2. pc[p] \in Working /\ "totalRead" \in Working
    BY <2>1 DEF Working
  <2>3. /\ j.memo = job[p].memo /\ j.lists = job[p].lists /\ j.batch = job[p].batch
        /\ j.event = job[p].event /\ j.current = job[p].current
    BY <1>t DEF Job
  <2>4. AllOver(j.current, eventStatus)
    BY <1>2, <2>2, <2>3, BracketIsOver
  <2> QED
    BY <1>t, <2>1, <2>2, <2>3, <2>4, OnWaits
<1>3. CASE WriteFrozen(p) /\ job[p].current \notin Brackets
  <2>1. Goto(p, "check", job[p]) /\ pc[p] = "freeze"
    BY <1>3 DEF WriteFrozen
  <2> QED
    BY <1>t, <2>1, OnWaits DEF Working, Deciding
<1> QED
  BY <1>1, <1>2, <1>3

(* The check: a status remembered as finished is finished, and the list it
   goes through is the contest's. *)
LEMMA CheckWaits ==
  ASSUME SettlementInv, EveryCallerWaits, Stays, NEW p \in Callers, Check(p)
  PROVE  EveryCallerWaits'
<1> DEFINE j == [job[p] EXCEPT !.memo = Recall(job[p])]
           l == IF AllEventsFinished(j) THEN "sum" ELSE "next"
<1>t. TypeOK /\ job[p] \in Job
  BY DEF SettlementInv, TypeOK
<1>l. pc[p] = "check" /\ Goto(p, l, j) /\ UNCHANGED eventStatus
  BY DEF Check
<1>w. Waits("check", job[p], eventStatus)
  BY <1>l DEF EveryCallerWaits
<1>1. /\ j.memo = Recall(job[p]) /\ j.lists = job[p].lists /\ j.batch = job[p].batch
      /\ j.event = job[p].event /\ j.current = job[p].current
  BY <1>t DEF Job
<1>2. \A e \in Events : j.memo[e] \in FinishedStatuses => eventStatus[e] \in FinishedStatuses
  BY <1>w, <1>1 DEF Recall, Waits
<1>3. j.lists = InitialEvents /\ j.event \in InitialEvents[j.current]
  BY <1>w, <1>1 DEF Waits, Listed, Working
<1>4. job[p].current \in Contests
  BY <1>t DEF Job
<1>5. InitialEvents[j.current] \subseteq Events
  BY <1>1, <1>4, InitialAssumption
<1>6. AllEventsFinished(j) => AllOver(j.current, eventStatus)
  BY <1>2, <1>3, <1>5 DEF AllEventsFinished, AllOver
<1>7. Waits(l, j, eventStatus)
  BY <1>w, <1>1, <1>2, <1>3, <1>6 DEF Waits, Listed, Working, Deciding
<1> HIDE DEF j, l
<1> QED
  BY <1>t, <1>l, <1>7, GotoWaits

LEMMA ResultWaits ==
  ASSUME SettlementInv, EveryCallerWaits, Stays, NEW p \in Callers,
         \/ SumTotals(p) \/ ReadTotal(p) \/ WriteTotal(p) \/ ReadFinal(p)
         \/ RecordFinishes(p) \/ Complete(p) \/ TellSettled(p)
  PROVE  EveryCallerWaits'
<1>t. TypeOK /\ job[p] \in Job
  BY DEF SettlementInv, TypeOK
<1> DEFINE Same(j) == /\ j.memo = job[p].memo /\ j.lists = job[p].lists
                      /\ j.batch = job[p].batch /\ j.event = job[p].event
                      /\ j.current = job[p].current
<1>s. Same(job[p])
  OBVIOUS
<1>r. \A result : Same([job[p] EXCEPT !.result = result])
  BY <1>t DEF Job
<1>u. \A plan : Same([job[p] EXCEPT !.plan = plan])
  BY <1>t DEF Job
<1> HIDE DEF Same
<1>1. PICK l, j : l \in Deciding \cup {"next"} /\ Same(j) /\ Goto(p, l, j)
  <2>1. CASE SumTotals(p) \/ ReadFinal(p)
    <3>1. \E l \in Deciding, result \in {frozen[job[p].current], total[job[p].current]} :
            Goto(p, l, [job[p] EXCEPT !.result = result])
      BY <2>1 DEF SumTotals, ReadFinal, Deciding
    <3> QED
      BY <1>r, <3>1
  <2>2. CASE ReadTotal(p)
    <3>1. PICK plan : Goto(p, "total", [job[p] EXCEPT !.plan = plan])
      BY <2>2 DEF ReadTotal
    <3>2. Same([job[p] EXCEPT !.plan = plan])
      BY <1>u
    <3> DEFINE j == [job[p] EXCEPT !.plan = plan]
    <3>3. Same(j) /\ Goto(p, "total", j)
      BY <3>1, <3>2
    <3> HIDE DEF j
    <3> QED
      BY <3>3 DEF Deciding
  <2>3. CASE WriteTotal(p) \/ RecordFinishes(p) \/ Complete(p) \/ TellSettled(p)
    <3>1. \E l \in Deciding \cup {"next"} : Goto(p, l, job[p])
      BY <2>3 DEF WriteTotal, RecordFinishes, Complete, TellSettled, Deciding
    <3> DEFINE j == job[p]
    <3>2. Same(j) /\ \E l \in Deciding \cup {"next"} : Goto(p, l, j)
      BY <1>s, <3>1
    <3> HIDE DEF j
    <3> QED
      BY <3>2
  <2> QED
    BY <2>1, <2>2, <2>3
<1>2. pc[p] \in Deciding
  BY DEF SumTotals, ReadTotal, WriteTotal, ReadFinal, RecordFinishes, Complete, TellSettled,
         Deciding
<1>3. l \in Working \cup {"next"} /\ pc[p] \in Working
  BY <1>1, <1>2 DEF Deciding, Working
<1> QED
  BY <1>t, <1>1, <1>2, <1>3, OnWaits DEF Same

LEMMA SettleWaits ==
  ASSUME EventsStay, SettlementInv, EveryCallerWaits, Stays, contestEvents = InitialEvents,
         NEW p \in Callers, Settle(p)
  PROVE  EveryCallerWaits'
BY ReadsWait, NextContestWaits, FreezeWaits, CheckWaits, ResultWaits DEF Settle

(* A status is written, and what follows it starts with what was remembered. *)
LEMMA WriteWaits ==
  ASSUME SettlementInv, EveryCallerWaits, Stays, NEW p \in Callers, WriteStatus(p)
  PROVE  EveryCallerWaits'
<1>t. TypeOK /\ job[p] \in Job
  BY DEF SettlementInv, TypeOK
<1>w. Waits(pc[p], job[p], eventStatus')
  BY <1>t, WaitsSteady DEF EveryCallerWaits
<1>1. CASE Return(p)
  BY <1>1, <1>t, ReturnWaits
<1>2. CASE ~Return(p)
  <2> DEFINE l == SideEffect(job[p])
             j == [job[p] EXCEPT !.clock = phase[job[p].event]]
  <2>1. Goto(p, l, j) /\ l # ""
    BY <1>2 DEF WriteStatus
  <2>2. l \notin Listed \cup {"editWrite", "joinNext"}
    BY <2>1 DEF SideEffect, Listed, Working
  <2>3. j.memo = job[p].memo
    BY <1>t DEF Job
  <2>4. \A e \in Events : j.memo[e] \in FinishedStatuses => eventStatus'[e] \in FinishedStatuses
    BY <1>w, <2>3 DEF Waits
  <2>5. Waits(l, j, eventStatus')
    BY <2>2, <2>4, LooseWaits
  <2> HIDE DEF l, j
  <2> QED
    BY <1>t, <2>1, <2>5, GotoWaits
<1> QED
  BY <1>1, <1>2

(* Contests going live or being opened, and joins that find nothing to join. *)
LEMMA ContestsWait ==
  ASSUME EventsStay, SettlementInv, EveryCallerWaits, Stays, NEW p \in Callers,
         \/ Activate(p) \/ ActivateWrite(p) \/ OpenWrite(p)
         \/ WriteEvents(p) \/ FindJoinable(p) \/ JoinNext(p)
  PROVE  EveryCallerWaits'
<1>t. TypeOK /\ job[p] \in Job
  BY DEF SettlementInv, TypeOK
<1>w. Waits(pc[p], job[p], eventStatus')
  BY <1>t, WaitsSteady DEF EveryCallerWaits
<1>1. CASE Return(p)
  BY <1>1, <1>t, ReturnWaits
<1>2. CASE FindJoinable(p)
  <2> DEFINE j == [job[p] EXCEPT
                !.batch = {c \in Template : /\ contestStatus[c] # "COMPLETED"
                                            /\ job[p].event \notin contestEvents[c]},
                !.lists = contestEvents]
  <2>1. Goto(p, "joinNext", j)
    BY <1>2 DEF FindJoinable
  <2>2. j.batch = {} /\ j.memo = job[p].memo
    BY <1>t DEF Job, EventsStay
  <2>3. Waits("joinNext", j, eventStatus')
    BY <1>w, <2>2 DEF Waits, Listed, Working, Deciding
  <2> HIDE DEF j
  <2> QED
    BY <1>t, <2>1, <2>3, GotoWaits
<1>3. CASE (Activate(p) \/ ActivateWrite(p)) /\ ~Return(p)
  <2> DEFINE Moves(l, j) == /\ l \in {"activateWrite", "finish"}
                            /\ j.memo = job[p].memo /\ Goto(p, l, j)
  <2>b. \A b : [job[p] EXCEPT !.batch = b].memo = job[p].memo
    BY <1>t DEF Job
  <2>1. PICK l, j : Moves(l, j)
    <3>1. CASE Activate(p)
      <4>1. PICK j : j.memo = job[p].memo /\ Goto(p, "activateWrite", j)
        <5> DEFINE b == {c \in Contests : /\ job[p].event \in contestEvents[c]
                                          /\ contestStatus[c] = "OPEN"
                                          /\ c \in LateCutoff => job[p].clock >= LaterRounds}
                   k == [job[p] EXCEPT !.batch = b]
        <5>1. Goto(p, "activateWrite", k)
          BY <3>1 DEF Activate
        <5>2. k.memo = job[p].memo
          BY <2>b
        <5> HIDE DEF k
        <5> QED
          BY <5>1, <5>2
      <4> QED
        BY <4>1
    <3>2. CASE ActivateWrite(p) /\ job[p].batch = {}
      <4>1. Goto(p, "finish", job[p])
        BY <1>3, <3>2 DEF ActivateWrite
      <4> DEFINE k == job[p]
      <4>2. k.memo = job[p].memo /\ Goto(p, "finish", k)
        BY <4>1
      <4> HIDE DEF k
      <4> QED
        BY <4>2
    <3>3. CASE ActivateWrite(p) /\ job[p].batch # {}
      <4>1. PICK group : Goto(p, "activateWrite", [job[p] EXCEPT !.batch = @ \ group])
        BY <3>3 DEF ActivateWrite
      <4> DEFINE k == [job[p] EXCEPT !.batch = @ \ group]
      <4>2. k.memo = job[p].memo /\ Goto(p, "activateWrite", k)
        BY <1>t, <4>1 DEF Job
      <4> HIDE DEF k
      <4> QED
        BY <4>2
    <3> QED
      BY <1>3, <3>1, <3>2, <3>3
  <2>3. \A e \in Events : j.memo[e] \in FinishedStatuses => eventStatus'[e] \in FinishedStatuses
    BY <1>w, <2>1 DEF Waits
  <2>4. l \notin Listed \cup {"editWrite", "joinNext"}
    BY <2>1 DEF Listed, Working
  <2>5. Waits(l, j, eventStatus')
    BY <2>3, <2>4, LooseWaits
  <2> QED
    BY <1>t, <2>1, <2>5, GotoWaits
<1>4. CASE OpenWrite(p)
  BY <1>4, <1>1 DEF OpenWrite
<1>5. CASE WriteEvents(p) \/ JoinNext(p)
  <2>1. Waits(pc[p], job[p], eventStatus)
    BY DEF EveryCallerWaits
  <2>2. Return(p)
    BY <1>5, <2>1 DEF WriteEvents, JoinNext, Waits
  <2> QED
    BY <1>1, <2>2
<1> QED
  BY <1>1, <1>2, <1>3, <1>4, <1>5

LEMMA SweepWaits ==
  ASSUME SettlementInv, EveryCallerWaits, Stays,
         NEW p \in Callers, SweepNext(p) \/ SweepFinish(p)
  PROVE  EveryCallerWaits'
<1>t. TypeOK /\ job[p] \in Job
  BY DEF SettlementInv, TypeOK
<1>w. Waits(pc[p], job[p], eventStatus')
  BY <1>t, WaitsSteady DEF EveryCallerWaits
<1>1. CASE SweepNext(p)
  <2>1. PICK l, j : /\ l \in {"idle", "sweep", "write", "activate"}
                    /\ j.memo = Blank.memo /\ Goto(p, l, j)
    <3>1. ASSUME NEW x \in job[p].sweep, SweepScheduled(p, x)
          PROVE  \E l, j : /\ l \in {"idle", "sweep", "write", "activate"}
                           /\ j.memo = Blank.memo /\ Goto(p, l, j)
      <4> DEFINE j == [Blank EXCEPT !.sweep = job[p].sweep \ {x}]
                 k == [j EXCEPT !.event = x.event, !.from = "SCHEDULED", !.to = "IN_PROGRESS"]
      <4>1. j.memo = Blank.memo /\ k.memo = Blank.memo
        BY DEF Blank
      <4>2. Goto(p, "write", k) \/ Goto(p, "sweep", j)
        BY <3>1 DEF SweepScheduled
      <4> HIDE DEF j, k
      <4> QED
        BY <4>1, <4>2
    <3>2. ASSUME NEW x \in job[p].sweep, SweepInProgress(p, x)
          PROVE  \E l, j : /\ l \in {"idle", "sweep", "write", "activate"}
                           /\ j.memo = Blank.memo /\ Goto(p, l, j)
      <4> DEFINE j == [Blank EXCEPT !.sweep = job[p].sweep \ {x}, !.event = x.event,
                         !.from = "IN_PROGRESS", !.to = "IN_PROGRESS",
                         !.clock = x.phase, !.due = (x.phase = Over)]
      <4>1. j.memo = Blank.memo
        BY DEF Blank
      <4>2. Goto(p, "activate", j)
        BY <3>2 DEF SweepInProgress
      <4> HIDE DEF j
      <4> QED
        BY <4>1, <4>2
    <3> QED
      BY <1>1, <3>1, <3>2 DEF SweepNext
  <2>2. l \notin Listed \cup {"editWrite", "joinNext"}
    BY <2>1 DEF Listed, Working
  <2> QED
    BY <1>t, <2>1, <2>2, FreshWaits
<1>2. CASE SweepFinish(p)
  <2> DEFINE j == [job[p] EXCEPT !.to = "COMPLETED", !.due = FALSE]
  <2>1. Return(p) \/ Goto(p, "write", j)
    BY <1>2 DEF SweepFinish
  <2>2. j.memo = job[p].memo
    BY <1>t DEF Job
  <2>3. \A e \in Events : j.memo[e] \in FinishedStatuses => eventStatus'[e] \in FinishedStatuses
    BY <1>w, <2>2 DEF Waits
  <2>4. "write" \notin Listed \cup {"editWrite", "joinNext"}
    BY DEF Listed, Working
  <2>5. Waits("write", j, eventStatus')
    BY <2>3, <2>4, LooseWaits
  <2> HIDE DEF j
  <2> QED
    BY <1>t, <2>1, <2>5, GotoWaits, ReturnWaits
<1> QED
  BY <1>1, <1>2

LEMMA AskWaits ==
  ASSUME EventsStay, TypeOK, EveryCallerWaits, Stays, NEW a \in Admins, Ask(a)
  PROVE  EveryCallerWaits'
<1>a. a \in Callers
  BY DEF Callers
<1>1. ASSUME NEW e \in Events, RequestRelease(a, e) PROVE EveryCallerWaits'
  <2> DEFINE j == [Blank EXCEPT !.event = e, !.from = eventStatus[e], !.to = "SCHEDULED", !.release = TRUE]
  <2>1. Goto(a, "write", j)
    BY <1>1 DEF RequestRelease, Request
  <2>2. j.memo = Blank.memo
    BY DEF Blank
  <2> HIDE DEF j
  <2> QED
    BY <1>a, <2>1, <2>2, FreshWaits DEF Listed, Working
<1>2. ASSUME NEW e \in Events, NEW to \in EventStatus, RequestTransition(a, e, to)
      PROVE  EveryCallerWaits'
  <2> DEFINE j == [Blank EXCEPT !.event = e, !.from = eventStatus[e], !.to = to]
  <2>1. Goto(a, "write", j)
    BY <1>2 DEF RequestTransition, Request
  <2>2. j.memo = Blank.memo
    BY DEF Blank
  <2> HIDE DEF j
  <2> QED
    BY <1>a, <2>1, <2>2, FreshWaits DEF Listed, Working
<1>3. ASSUME NEW c \in Contests, RequestOpen(a, c) PROVE EveryCallerWaits'
  <2> DEFINE j == [Blank EXCEPT !.current = c]
  <2>1. Goto(a, "openWrite", j)
    BY <1>3 DEF RequestOpen, Request
  <2>2. j.memo = Blank.memo
    BY DEF Blank
  <2> HIDE DEF j
  <2> QED
    BY <1>a, <2>1, <2>2, FreshWaits DEF Listed, Working
<1>4. ASSUME NEW c \in Contests, NEW es \in SUBSET Events, RequestEvents(a, c, es)
      PROVE  EveryCallerWaits'
  BY <1>4 DEF RequestEvents, EventsStay
<1> QED
  BY <1>1, <1>2, <1>3, <1>4 DEF Ask

LEMMA FailWaits ==
  ASSUME SettlementInv, EveryCallerWaits, Stays, Fail
  PROVE  EveryCallerWaits'
<1>t. TypeOK
  BY DEF SettlementInv
<1>1. ASSUME NEW p \in Callers, Throw(p) PROVE EveryCallerWaits'
  <2>1. CASE pc[p] = "tell"
    <3>1. Goto(p, "next", job[p])
      BY <1>1, <2>1 DEF Throw
    <3> QED
      BY <1>t, <2>1, <3>1, OnWaits DEF Working, Deciding
  <2>2. CASE pc[p] # "tell"
    <3>1. Return(p)
      BY <1>1, <2>2 DEF Throw
    <3> QED
      BY <1>t, <3>1, ReturnWaits
  <2> QED
    BY <2>1, <2>2
<1>2. ASSUME NEW p \in Callers, Crash(p) PROVE EveryCallerWaits'
  <2>1. Goto(p, "idle", Blank)
    BY <1>2 DEF Crash
  <2> QED
    BY <1>t, <2>1, FreshWaits DEF Listed, Working
<1>3. ASSUME NEW t \in Tasks, DropLock(t) PROVE EveryCallerWaits'
  BY <1>t, <1>3, StillWaits DEF DropLock
<1> QED
  BY <1>1, <1>2, <1>3 DEF Fail

-----------------------------------------------------------------------------
(* What is stored. *)

(* The one action that writes totals, and the one that changes a contest's
   events. *)
LEMMA EventsAndTotals ==
  ASSUME [Next]_vars
  PROVE  /\ UNCHANGED total \/ \E p \in Callers : WriteTotal(p)
         /\ UNCHANGED contestEvents \/ \E p \in Callers : WriteEvents(p)
<1> DEFINE Others == UNCHANGED <<total, contestEvents>>
<1>1. CASE UNCHANGED vars \/ World
  BY <1>1 DEF vars, World, TimePasses, CorrectScore, stored
<1>2. ASSUME NEW a \in Admins, Ask(a) PROVE Others
  BY <1>2 DEF Ask, RequestRelease, RequestTransition, RequestOpen, RequestEvents, stored
<1>3. ASSUME NEW t \in Tasks, StartSweep(t) PROVE Others
  BY <1>3 DEF StartSweep, stored
<1>4. ASSUME Fail PROVE Others
  BY <1>4 DEF Fail, Throw, Crash, DropLock, stored
<1>5. ASSUME NEW p \in Callers, Settle(p), ~WriteTotal(p) PROVE Others
  <2>1. CASE ReadField(p) \/ ReadContests(p) \/ ReadSettledFor(p) \/ NextContest(p)
    BY <2>1 DEF ReadField, ReadContests, ReadSettledFor, NextContest, stored
  <2>2. CASE ReadFrozen(p) \/ WriteFrozen(p) \/ Check(p) \/ SumTotals(p)
    BY <2>2 DEF ReadFrozen, WriteFrozen, Check, SumTotals, stored
  <2>3. CASE ReadTotal(p) \/ ReadFinal(p) \/ RecordFinishes(p)
    BY <2>3 DEF ReadTotal, ReadFinal, RecordFinishes, stored
  <2>4. CASE Complete(p) \/ TellSettled(p)
    BY <2>4 DEF Complete, TellSettled, stored
  <2> QED
    BY <1>5, <2>1, <2>2, <2>3, <2>4 DEF Settle
<1>6. ASSUME NEW p \in Callers, WriteTotal(p) PROVE UNCHANGED contestEvents
  BY <1>6 DEF WriteTotal
<1>7. ASSUME NEW p \in Callers, WriteEvents(p) PROVE UNCHANGED total
  BY <1>7 DEF WriteEvents, stored
<1>8. ASSUME NEW p \in Callers,
             \/ WriteStatus(p) \/ Activate(p) \/ ActivateWrite(p) \/ OpenWrite(p)
             \/ FindJoinable(p) \/ JoinNext(p) \/ SweepNext(p) \/ SweepFinish(p)
      PROVE  Others
  BY <1>8 DEF WriteStatus, Activate, ActivateWrite, OpenWrite, FindJoinable, JoinNext,
              SweepNext, SweepFinish, stored
<1>9. CASE \E p \in Callers : Work(p)
  BY <1>5, <1>6, <1>7, <1>8, <1>9 DEF Work
<1> QED
  BY <1>1, <1>2, <1>3, <1>4, <1>9 DEF Next

(* A total, a finish or a completion is written by a settlement that is
   deciding the contest. *)
LEMMA DecidingWrites ==
  ASSUME TypeOK, [Next]_vars, NEW c \in Contests,
         \/ total'[c] # total[c] \/ finishes'[c] # finishes[c]
         \/ contestStatus'[c] = "COMPLETED" /\ contestStatus[c] # "COMPLETED"
  PROVE  \E p \in Callers : pc[p] \in Deciding /\ job[p].current = c
<1>1. CASE contestStatus'[c] = "COMPLETED" /\ contestStatus[c] # "COMPLETED"
  <2>1. PICK p \in Callers : ActivateWrite(p) \/ OpenWrite(p) \/ Complete(p)
    BY <1>1, Writers
  <2>2. ~ActivateWrite(p)
    <3>1. ASSUME ActivateWrite(p) PROVE FALSE
      <4>1. PICK group : contestStatus' = [d \in Contests |->
                   IF d \in group /\ Startable(d) THEN "ACTIVE" ELSE contestStatus[d]]
        BY <1>1, <3>1 DEF ActivateWrite
      <4> QED
        BY <1>1, <4>1
    <3> QED
      BY <3>1
  <2>3. ~OpenWrite(p)
    BY <1>1 DEF OpenWrite, TypeOK
  <2>4. Complete(p)
    BY <2>1, <2>2, <2>3
  <2> QED
    BY <1>1, <2>4 DEF Complete, TypeOK, Deciding
<1>2. CASE finishes'[c] # finishes[c]
  <2>1. PICK p \in Callers : RecordFinishes(p)
    BY <1>2, Writers
  <2> QED
    BY <1>2, <2>1 DEF RecordFinishes, TypeOK, Deciding
<1>3. CASE total'[c] # total[c]
  <2>1. PICK p \in Callers : WriteTotal(p)
    BY <1>3, EventsAndTotals
  <2> QED
    BY <1>3, <2>1 DEF WriteTotal, TypeOK, Deciding
<1> QED
  BY <1>1, <1>2, <1>3

LEMMA ResultsNext ==
  ASSUME WaitInv, Stays, [Next]_vars, contestEvents' = InitialEvents
  PROVE  ResultsWaitForEveryEvent'
<1> SUFFICES ASSUME NEW c \in Contests,
                    \/ total'[c] # Nothing \/ finishes'[c] # Nothing
                    \/ contestStatus'[c] = "COMPLETED"
             PROVE  \A e \in InitialEvents[c] : eventStatus'[e] \in FinishedStatuses
  BY DEF ResultsWaitForEveryEvent
<1>1. InitialEvents[c] \subseteq Events
  BY InitialAssumption
<1>2. AllOver(c, eventStatus)
  <2>1. CASE total[c] # Nothing \/ finishes[c] # Nothing \/ contestStatus[c] = "COMPLETED"
    BY <2>1 DEF WaitInv, ResultsWaitForEveryEvent, AllOver
  <2>2. CASE /\ total[c] = Nothing /\ finishes[c] = Nothing
             /\ contestStatus[c] # "COMPLETED"
    <3>1. PICK p \in Callers : pc[p] \in Deciding /\ job[p].current = c
      BY <2>2, DecidingWrites DEF WaitInv, SettlementInv
    <3> QED
      BY <3>1 DEF WaitInv, EveryCallerWaits, Waits
  <2> QED
    BY <2>1, <2>2
<1> QED
  BY <1>1, <1>2 DEF AllOver, Stays

-----------------------------------------------------------------------------
(* The invariant, and what it is for. *)

LEMMA WaitInit == Init => WaitInv
<1> SUFFICES ASSUME Init PROVE WaitInv
  OBVIOUS
<1>1. EveryCallerWaits
  BY LooseWaits, BlankRemembersNothing DEF Init, EveryCallerWaits, Listed, Working
<1>2. ResultsWaitForEveryEvent
  BY InitialAssumption DEF Init, ResultsWaitForEveryEvent
<1> QED
  BY <1>1, <1>2, InvInit DEF Init, WaitInv

LEMMA WaitNext == ASSUME EventsStay PROVE WaitInv /\ [Next]_vars => WaitInv'
<1> SUFFICES ASSUME WaitInv, [Next]_vars PROVE WaitInv'
  OBVIOUS
<1>i. SettlementInv /\ TypeOK /\ EveryCallerWaits /\ contestEvents = InitialEvents
  BY DEF WaitInv, SettlementInv
<1>1. SettlementInv'
  BY <1>i, InvNext
<1>2. Stays
  BY <1>i, FinishedStays
<1>3. contestEvents' = InitialEvents
  <2>1. ASSUME NEW p \in Callers, WriteEvents(p) PROVE FALSE
    BY <1>i, <2>1 DEF WriteEvents, EveryCallerWaits, Waits
  <2> QED
    BY <1>i, <2>1, EventsAndTotals
<1>4. EveryCallerWaits'
  <2>1. CASE UNCHANGED vars \/ World
    <3>1. UNCHANGED <<pc, job>>
      BY <2>1 DEF vars, World, TimePasses, CorrectScore
    <3> QED
      BY <1>i, <1>2, <3>1, StillWaits
  <2>2. ASSUME NEW a \in Admins, Ask(a) PROVE EveryCallerWaits'
    BY <1>i, <1>2, <2>2, AskWaits
  <2>3. ASSUME NEW t \in Tasks, StartSweep(t) PROVE EveryCallerWaits'
    <3> DEFINE j == [Blank EXCEPT !.sweep = Candidates]
    <3>1. t \in Callers /\ Goto(t, "sweep", j) /\ j.memo = Blank.memo
      BY <2>3 DEF StartSweep, Callers, Blank
    <3> HIDE DEF j
    <3> QED
      BY <1>i, <1>2, <3>1, FreshWaits DEF Listed, Working
  <2>4. ASSUME NEW p \in Callers, Work(p) PROVE EveryCallerWaits'
    BY <1>i, <1>2, <2>4, SettleWaits, WriteWaits, ContestsWait, SweepWaits DEF Work
  <2>5. CASE Fail
    BY <1>i, <1>2, <2>5, FailWaits
  <2> QED
    BY <2>1, <2>2, <2>3, <2>4, <2>5 DEF Next
<1>5. ResultsWaitForEveryEvent'
  BY <1>2, <1>3, ResultsNext
<1> QED
  BY <1>1, <1>3, <1>4, <1>5 DEF WaitInv

(* While no contest's events change, nothing of a contest is totalled, no
   championship finish is written and it does not complete before the last of
   its events has finished, however many settlements and sweeps run at once
   and wherever they fail (allEventsFinished). *)
THEOREM ResultsWait == ASSUME EventsStay PROVE Spec => []ResultsWaitForEveryEvent
<1>1. WaitInv /\ [Next]_vars => WaitInv'
  BY WaitNext
<1>2. WaitInv => ResultsWaitForEveryEvent
  BY DEF WaitInv
<1> QED
  BY <1>1, <1>2, WaitInit, PTL DEF Spec

-----------------------------------------------------------------------------
(* A contest all of whose events are over is owed its completion. *)

(* Every contest is on an event and was opened before its events finish. *)
OpenedInTime ==
  \A c \in Contests : InitialContest[c] # "DRAFT" /\ InitialEvents[c] # {}

(* A caller at l with job j is yet to settle c, and remembers none of its
   events as unfinished. *)
Owes(l, j, c) ==
  /\ j.event \in InitialEvents[c]
  /\ \A e \in InitialEvents[c] : j.memo[e] \in FinishedStatuses \cup {"UNREAD"}
  /\ \/ l \in {"field", "contests"}
     \/ l \in Listed /\ c \in j.batch
     \/ l \in Working /\ j.current = c

IsOwed(c) == \E p \in Callers : Owes(pc[p], job[p], c)

IsDue(c) == contestStatus[c] \in Settleable /\ AllOver(c, eventStatus)

(* Before an event's status is written nothing is remembered of any event. *)
Unread(l, j) ==
  l \in {"write", "activate", "activateWrite", "finish"} => j.memo = Blank.memo

EveryCallerUnread == \A p \in Callers : Unread(pc[p], job[p])

OwedInv == /\ WaitInv
           /\ \A c \in Contests : contestStatus[c] # "DRAFT"
           /\ EveryCallerUnread
           /\ faults = 0 => \A c \in Contests \ Unscorable : IsDue(c) => IsOwed(c)

(* The two facts a settlement step needs of the contest it is owed by. *)
LEMMA OwedRests ==
  ASSUME WaitInv, NEW p \in Callers, pc[p] \in Working
  PROVE  /\ job[p].lists = InitialEvents
         /\ pc[p] = "tell" => contestStatus[job[p].current] = "COMPLETED"
BY DEF WaitInv, EveryCallerWaits, Waits, Listed, SettlementInv, OneTeller

(* A caller that moves on within a contest still owes it. *)
LEMMA OnOwes ==
  ASSUME TypeOK, NEW c, NEW p \in Callers, pc[p] \in Working, Owes(pc[p], job[p], c),
         NEW l, NEW j, Goto(p, l, j),
         l \in Working \/ (l = "next" /\ job[p].current # c),
         j.memo = job[p].memo, j.batch = job[p].batch,
         j.event = job[p].event, j.current = job[p].current
  PROVE  Owes(pc'[p], job'[p], c)
<1>1. pc'[p] = l /\ job'[p] = j
  BY DEF Goto, TypeOK
<1> QED
  BY <1>1 DEF Owes, Listed, Working

LEMMA ReadsOwe ==
  ASSUME WaitInv, NEW p \in Callers, NEW c \in Contests, IsDue(c),
         Owes(pc[p], job[p], c), ReadField(p) \/ ReadContests(p) \/ ReadSettledFor(p)
  PROVE  Owes(pc'[p], job'[p], c)
<1>t. TypeOK /\ job[p] \in Job
  BY DEF WaitInv, SettlementInv, TypeOK
<1>1. CASE ReadField(p)
  <2> DEFINE j == [job[p] EXCEPT !.version = score[job[p].event],
                                 !.memo[job[p].event] = eventStatus[job[p].event]]
  <2>1. pc[p] = "field" /\ pc'[p] = "contests" /\ job'[p] = j
    BY <1>t, <1>1 DEF ReadField, Goto, TypeOK
  <2>2. /\ j.memo = [job[p].memo EXCEPT ![job[p].event] = eventStatus[job[p].event]]
        /\ j.event = job[p].event
    BY <1>t DEF Job
  <2>3. eventStatus[job[p].event] \in FinishedStatuses
    BY DEF IsDue, AllOver, Owes
  <2>4. job[p].memo \in [Events -> EventStatus \cup {"UNREAD"}]
    BY <1>t DEF Job
  <2>5. \A e \in InitialEvents[c] : j.memo[e] \in FinishedStatuses \cup {"UNREAD"}
    BY <2>2, <2>3, <2>4, InitialAssumption DEF Owes
  <2> HIDE DEF j
  <2> QED
    BY <2>1, <2>2, <2>5 DEF Owes
<1>2. CASE ReadContests(p)
  <2> DEFINE j == [job[p] EXCEPT !.batch = Unsettled(job[p].event), !.lists = contestEvents]
  <2>1. pc'[p] = "known" /\ job'[p] = j
    BY <1>t, <1>2 DEF ReadContests, Goto, TypeOK
  <2>2. /\ j.batch = Unsettled(job[p].event) /\ j.memo = job[p].memo
        /\ j.event = job[p].event
    BY <1>t DEF Job
  <2>3. c \in Unsettled(job[p].event)
    BY DEF Unsettled, IsDue, Settleable, Owes, WaitInv
  <2> HIDE DEF j
  <2> QED
    BY <2>1, <2>2, <2>3 DEF Owes, Listed
<1>3. CASE ReadSettledFor(p)
  <2> DEFINE j == [job[p] EXCEPT !.known =
                     {d \in job[p].batch : frozen[d][job[p].event] # 0}]
  <2>1. pc[p] = "known" /\ pc'[p] = "next" /\ job'[p] = j
    BY <1>t, <1>3 DEF ReadSettledFor, Goto, TypeOK
  <2>2. j.batch = job[p].batch /\ j.memo = job[p].memo /\ j.event = job[p].event
    BY <1>t DEF Job
  <2> HIDE DEF j
  <2> QED
    BY <2>1, <2>2 DEF Owes, Listed, Working
<1> QED
  BY <1>1, <1>2, <1>3

LEMMA NextContestOwes ==
  ASSUME WaitInv, NEW p \in Callers, NEW c \in Contests \ Unscorable,
         Owes(pc[p], job[p], c), NextContest(p)
  PROVE  Owes(pc'[p], job'[p], c)
<1>t. TypeOK /\ job[p] \in Job
  BY DEF WaitInv, SettlementInv, TypeOK
<1>l. pc[p] = "next" /\ c \in job[p].batch
  BY DEF NextContest, Owes, Working
<1> DEFINE J(d) == [job[p] EXCEPT !.batch = @ \ {d}, !.current = d]
           G(d) == [J(d) EXCEPT !.result = Nothing, !.plan = "create",
                      !.games = IF FirstStep(J(d), d) = "freezeRead" /\ d \in Brackets /\ @ = 0
                                THEN score[J(d).event] ELSE @]
<1>1. PICK d \in job[p].batch :
             IF FirstStep(J(d), d) = "" THEN Goto(p, "next", J(d))
             ELSE Goto(p, FirstStep(J(d), d), G(d))
  BY <1>l DEF NextContest
<1>2. /\ J(d).batch = job[p].batch \ {d} /\ J(d).current = d
      /\ J(d).memo = job[p].memo /\ J(d).event = job[p].event /\ J(d).to = job[p].to
  BY <1>t DEF Job
<1>3. /\ G(d).batch = J(d).batch /\ G(d).current = d
      /\ G(d).memo = J(d).memo /\ G(d).event = J(d).event
  BY <1>t, <1>2 DEF Job
<1>4. CASE FirstStep(J(d), d) = ""
  <2>1. d \in Unscorable
    BY <1>4 DEF FirstStep
  <2>2. pc'[p] = "next" /\ job'[p] = J(d)
    BY <1>t, <1>1, <1>4 DEF Goto, TypeOK
  <2> HIDE DEF J
  <2> QED
    BY <1>l, <1>2, <2>1, <2>2 DEF Owes, Listed
<1>5. CASE FirstStep(J(d), d) # ""
  <2>1. FirstStep(J(d), d) \in Working
    BY <1>5, FirstSteps DEF Working
  <2>2. pc'[p] = FirstStep(J(d), d) /\ job'[p] = G(d)
    BY <1>t, <1>1, <1>5 DEF Goto, TypeOK
  <2> HIDE DEF J, G
  <2> QED
    BY <1>l, <1>2, <1>3, <2>1, <2>2 DEF Owes, Listed
<1> QED
  BY <1>4, <1>5

LEMMA FreezeOwes ==
  ASSUME WaitInv, NEW p \in Callers, NEW c, Owes(pc[p], job[p], c),
         ReadFrozen(p) \/ WriteFrozen(p)
  PROVE  Owes(pc'[p], job'[p], c)
<1>t. TypeOK /\ job[p] \in Job
  BY DEF WaitInv, SettlementInv, TypeOK
<1>1. CASE ReadFrozen(p)
  <2>1. PICK plan : Goto(p, "freeze", [job[p] EXCEPT !.plan = plan])
    BY <1>1 DEF ReadFrozen
  <2> DEFINE j == [job[p] EXCEPT !.plan = plan]
  <2>2. /\ j.memo = job[p].memo /\ j.batch = job[p].batch
        /\ j.event = job[p].event /\ j.current = job[p].current
    BY <1>t DEF Job
  <2>3. pc[p] \in Working /\ "freeze" \in Working
    BY <1>1 DEF ReadFrozen, Working
  <2> HIDE DEF j
  <2> QED
    BY <1>t, <2>1, <2>2, <2>3, OnOwes DEF j
<1>2. CASE WriteFrozen(p)
  <2> DEFINE j == IF job[p].current \in Brackets
                  THEN [job[p] EXCEPT !.result = [Nothing EXCEPT ![job[p].event] = Graded(job[p])]]
                  ELSE job[p]
             l == IF job[p].current \in Brackets THEN "totalRead" ELSE "check"
  <2>1. Goto(p, l, j)
    BY <1>2 DEF WriteFrozen
  <2>2. /\ j.memo = job[p].memo /\ j.batch = job[p].batch
        /\ j.event = job[p].event /\ j.current = job[p].current
    BY <1>t DEF Job
  <2>3. pc[p] \in Working /\ l \in Working
    BY <1>2 DEF WriteFrozen, Working
  <2> HIDE DEF j, l
  <2> QED
    BY <1>t, <2>1, <2>2, <2>3, OnOwes
<1> QED
  BY <1>1, <1>2

(* The check finds a contest that is due finished: whatever is remembered of
   its events is, and the rest is read now. *)
LEMMA CheckOwes ==
  ASSUME WaitInv, NEW p \in Callers, NEW c \in Contests, IsDue(c),
         Owes(pc[p], job[p], c), Check(p)
  PROVE  Owes(pc'[p], job'[p], c)
<1> DEFINE j == [job[p] EXCEPT !.memo = Recall(job[p])]
           l == IF AllEventsFinished(j) THEN "sum" ELSE "next"
<1>t. TypeOK /\ job[p] \in Job
  BY DEF WaitInv, SettlementInv, TypeOK
<1>1. pc[p] = "check" /\ pc'[p] = l /\ job'[p] = j
  BY <1>t DEF Check, Goto, TypeOK
<1>2. /\ j.memo = Recall(job[p]) /\ j.lists = job[p].lists /\ j.batch = job[p].batch
      /\ j.event = job[p].event /\ j.current = job[p].current
  BY <1>t DEF Job
<1>3. InitialEvents[c] \subseteq Events
  BY InitialAssumption
<1>4. \A e \in InitialEvents[c] : j.memo[e] \in FinishedStatuses \cup {"UNREAD"}
  BY <1>2, <1>3 DEF Recall, IsDue, AllOver, Owes
<1>5. job[p].current = c => l = "sum"
  <2>1. SUFFICES ASSUME job[p].current = c PROVE AllEventsFinished(j)
    OBVIOUS
  <2>2. job[p].lists = InitialEvents
    BY <1>1, OwedRests DEF Working
  <2>3. \A e \in InitialEvents[c] : j.memo[e] \in FinishedStatuses
    BY <1>2, <1>3, <1>4, <2>1, <2>2 DEF Recall, IsDue, AllOver, FinishedStatuses
  <2> QED
    BY <1>2, <2>1, <2>2, <2>3 DEF AllEventsFinished
<1>6. l \in {"sum", "next"}
  OBVIOUS
<1> HIDE DEF j, l
<1> QED
  BY <1>1, <1>2, <1>4, <1>5, <1>6 DEF Owes, Listed, Working

LEMMA ResultOwes ==
  ASSUME WaitInv, NEW p \in Callers, NEW c \in Contests, IsDue(c),
         contestStatus'[c] \in Settleable, Owes(pc[p], job[p], c),
         \/ SumTotals(p) \/ ReadTotal(p) \/ WriteTotal(p) \/ ReadFinal(p)
         \/ RecordFinishes(p) \/ Complete(p) \/ TellSettled(p)
  PROVE  Owes(pc'[p], job'[p], c)
<1>t. TypeOK /\ job[p] \in Job
  BY DEF WaitInv, SettlementInv, TypeOK
<1>w. pc[p] \in Working
  BY DEF SumTotals, ReadTotal, WriteTotal, ReadFinal, RecordFinishes, Complete, TellSettled,
         Working
<1> DEFINE Same(j) == /\ j.memo = job[p].memo /\ j.batch = job[p].batch
                      /\ j.event = job[p].event /\ j.current = job[p].current
           Moves(l, j) == /\ l \in Working \/ (l = "next" /\ job[p].current # c)
                          /\ Same(j) /\ Goto(p, l, j)
<1>1. CASE SumTotals(p) \/ ReadFinal(p)
  <2>1. \A result : Same([job[p] EXCEPT !.result = result])
    BY <1>t DEF Job
  <2> HIDE DEF Same
  <2>2. \E l \in Working, result \in {frozen[job[p].current], total[job[p].current]} :
          Goto(p, l, [job[p] EXCEPT !.result = result])
    BY <1>1 DEF SumTotals, ReadFinal, Working
  <2>3. \E l, j : Moves(l, j)
    BY <2>1, <2>2
  <2> QED
    BY <1>t, <1>w, <2>3, OnOwes DEF Same
<1>2. CASE ReadTotal(p)
  <2>1. PICK plan : Goto(p, "total", [job[p] EXCEPT !.plan = plan])
    BY <1>2 DEF ReadTotal
  <2> DEFINE j == [job[p] EXCEPT !.plan = plan]
  <2>2. Same(j)
    BY <1>t DEF Job
  <2>3. Goto(p, "total", j) /\ "total" \in Working
    BY <2>1 DEF Working
  <2> HIDE DEF j
  <2> QED
    BY <1>t, <1>w, <2>2, <2>3, OnOwes
<1>3. CASE WriteTotal(p) \/ RecordFinishes(p)
  <2>1. \E l \in Working : Goto(p, l, job[p])
    BY <1>3 DEF WriteTotal, RecordFinishes, Working
  <2> QED
    BY <1>t, <1>w, <2>1, OnOwes
<1>4. CASE Complete(p)
  <2>1. \/ Goto(p, "tell", job[p])
        \/ Goto(p, "next", job[p]) /\ ~Completable(job[p].current)
    BY <1>4 DEF Complete
  <2>2. ~Completable(job[p].current) => job[p].current # c
    BY DEF Completable, IsDue
  <2>3. "tell" \in Working
    BY DEF Working
  <2> QED
    BY <1>t, <1>w, <2>1, <2>2, <2>3, OnOwes
<1>5. CASE TellSettled(p)
  <2>1. Goto(p, "next", job[p]) /\ pc[p] = "tell"
    BY <1>5 DEF TellSettled
  <2>2. job[p].current # c
    BY <1>w, <2>1, OwedRests DEF IsDue, Settleable, NotSettled
  <2> QED
    BY <1>t, <1>w, <2>1, <2>2, OnOwes
<1> QED
  BY <1>1, <1>2, <1>3, <1>4, <1>5

LEMMA SettleOwes ==
  ASSUME WaitInv, NEW p \in Callers, NEW c \in Contests \ Unscorable, IsDue(c),
         contestStatus'[c] \in Settleable, Owes(pc[p], job[p], c), Settle(p)
  PROVE  Owes(pc'[p], job'[p], c)
BY ReadsOwe, NextContestOwes, FreezeOwes, CheckOwes, ResultOwes DEF Settle

(* Who owes is settling; no other step of it is enabled. *)
LEMMA OwingSettles ==
  ASSUME NEW p \in Callers, NEW c, Owes(pc[p], job[p], c), Work(p)
  PROVE  Settle(p)
<1>1. pc[p] \in Settling
  BY DEF Owes, Settling, Listed
<1> QED
  BY <1>1 DEF Settling, Listed, Working, Work, WriteStatus, Activate, ActivateWrite,
              OpenWrite, WriteEvents, FindJoinable, JoinNext, SweepNext, SweepFinish

(* A caller at work moves itself, and fails nowhere. *)
LEMMA WorkGoes ==
  ASSUME NEW p \in Callers, Work(p)
  PROVE  (\E l, j : Goto(p, l, j)) /\ UNCHANGED faults
<1>1. CASE WriteStatus(p)
  BY <1>1 DEF WriteStatus, Return, bounds
<1>2. CASE Activate(p) \/ ActivateWrite(p)
  BY <1>2 DEF Activate, ActivateWrite, Return, bounds
<1>3. CASE Settle(p)
  <2>1. CASE ReadField(p) \/ ReadContests(p) \/ ReadSettledFor(p)
    BY <2>1 DEF ReadField, ReadContests, ReadSettledFor, bounds
  <2>2. CASE NextContest(p)
    BY <2>2 DEF NextContest, Return, bounds
  <2>3. CASE ReadFrozen(p) \/ WriteFrozen(p) \/ Check(p)
    BY <2>3 DEF ReadFrozen, WriteFrozen, Check, bounds
  <2>4. CASE SumTotals(p) \/ ReadTotal(p) \/ WriteTotal(p) \/ ReadFinal(p)
    BY <2>4 DEF SumTotals, ReadTotal, WriteTotal, ReadFinal, bounds
  <2>5. CASE RecordFinishes(p) \/ Complete(p) \/ TellSettled(p)
    BY <2>5 DEF RecordFinishes, Complete, TellSettled, bounds
  <2> QED
    BY <1>3, <2>1, <2>2, <2>3, <2>4, <2>5 DEF Settle
<1>4. CASE OpenWrite(p) \/ WriteEvents(p) \/ FindJoinable(p) \/ JoinNext(p)
  BY <1>4 DEF OpenWrite, WriteEvents, FindJoinable, JoinNext, Return, bounds
<1>5. CASE SweepNext(p)
  BY <1>5 DEF SweepNext, SweepScheduled, SweepInProgress, bounds
<1>6. CASE SweepFinish(p)
  BY <1>6 DEF SweepFinish, Return, bounds
<1> QED
  BY <1>1, <1>2, <1>3, <1>4, <1>5, <1>6 DEF Work

(* A step of any other caller, or of none, leaves an owing caller where it is. *)
LEMMA OthersMove ==
  ASSUME TypeOK, [Next]_vars, faults' = 0, faults = 0, NEW p \in Callers, pc[p] # "idle",
         ~Work(p)
  PROVE  pc'[p] = pc[p] /\ job'[p] = job[p]
<1>1. CASE UNCHANGED vars \/ World
  BY <1>1 DEF vars, World, TimePasses, CorrectScore
<1>2. ASSUME NEW a \in Admins, Ask(a) PROVE pc'[p] = pc[p] /\ job'[p] = job[p]
  <2>1. pc[a] = "idle" /\ \E l, j : Goto(a, l, j)
    BY <1>2 DEF Ask, RequestRelease, RequestTransition, RequestOpen, RequestEvents, Request,
                MayStart
  <2> QED
    BY <2>1 DEF Goto, TypeOK
<1>3. ASSUME NEW t \in Tasks, StartSweep(t) PROVE pc'[p] = pc[p] /\ job'[p] = job[p]
  BY <1>3 DEF StartSweep, MayStart, Goto, TypeOK
<1>4. ASSUME NEW q \in Callers, Work(q) PROVE pc'[p] = pc[p] /\ job'[p] = job[p]
  <2>1. \E l, j : Goto(q, l, j)
    BY <1>4, WorkGoes
  <2> QED
    BY <1>4, <2>1 DEF Goto, TypeOK
<1>5. CASE Fail
  BY <1>5 DEF Fail, Throw, Crash, DropLock, Fault
<1> QED
  BY <1>1, <1>2, <1>3, <1>4, <1>5 DEF Next

(* Nothing is remembered of an event before its status is written. *)
LEMMA GotoUnread ==
  ASSUME TypeOK, EveryCallerUnread, NEW p \in Callers, NEW l, NEW j,
         Goto(p, l, j), Unread(l, j)
  PROVE  EveryCallerUnread'
BY DEF TypeOK, EveryCallerUnread, Goto

LEMMA UnreadNext ==
  ASSUME TypeOK, EveryCallerUnread, [Next]_vars
  PROVE  EveryCallerUnread'
<1> DEFINE Early == {"write", "activate", "activateWrite", "finish"}
<1>r. ASSUME NEW p \in Callers, Return(p) PROVE EveryCallerUnread'
  <2> DEFINE j == [Blank EXCEPT !.sweep = job[p].sweep]
             l == IF p \in Tasks THEN "sweep" ELSE "idle"
  <2>1. Goto(p, l, j) /\ l \notin Early
    BY <1>r DEF Return
  <2> HIDE DEF j, l
  <2> QED
    BY <2>1, GotoUnread DEF Unread
<1>1. CASE UNCHANGED vars \/ World
  BY <1>1 DEF vars, World, TimePasses, CorrectScore, EveryCallerUnread
<1>2. ASSUME NEW a \in Admins, Ask(a) PROVE EveryCallerUnread'
  <2>a. a \in Callers
    BY DEF Callers
  <2>1. ASSUME NEW e \in Events, RequestRelease(a, e) PROVE EveryCallerUnread'
    <3> DEFINE j == [Blank EXCEPT !.event = e, !.from = eventStatus[e], !.to = "SCHEDULED", !.release = TRUE]
    <3>1. Goto(a, "write", j) /\ j.memo = Blank.memo
      BY <2>1 DEF RequestRelease, Request, Blank
    <3> HIDE DEF j
    <3> QED
      BY <2>a, <3>1, GotoUnread DEF Unread
  <2>2. ASSUME NEW e \in Events, NEW to \in EventStatus, RequestTransition(a, e, to)
        PROVE  EveryCallerUnread'
    <3> DEFINE j == [Blank EXCEPT !.event = e, !.from = eventStatus[e], !.to = to]
    <3>1. Goto(a, "write", j) /\ j.memo = Blank.memo
      BY <2>2 DEF RequestTransition, Request, Blank
    <3> HIDE DEF j
    <3> QED
      BY <2>a, <3>1, GotoUnread DEF Unread
  <2>3. ASSUME NEW c \in Contests, RequestOpen(a, c) \/ \E es \in SUBSET Events : RequestEvents(a, c, es)
        PROVE  EveryCallerUnread'
    <3>1. CASE RequestOpen(a, c)
      <4> DEFINE j == [Blank EXCEPT !.current = c]
      <4>1. Goto(a, "openWrite", j) /\ j.memo = Blank.memo
        BY <3>1 DEF RequestOpen, Request, Blank
      <4> HIDE DEF j
      <4> QED
        BY <2>a, <4>1, GotoUnread DEF Unread
    <3>2. ASSUME NEW es \in SUBSET Events, RequestEvents(a, c, es)
          PROVE  EveryCallerUnread'
      <4> DEFINE j == [Blank EXCEPT !.current = c, !.target = es]
      <4>1. Goto(a, "editWrite", j) /\ j.memo = Blank.memo
        BY <3>2 DEF RequestEvents, Request, Blank
      <4> HIDE DEF j
      <4> QED
        BY <2>a, <4>1, GotoUnread DEF Unread
    <3> QED
      BY <2>3, <3>1, <3>2
  <2> QED
    BY <1>2, <2>1, <2>2, <2>3 DEF Ask
<1>3. ASSUME NEW t \in Tasks, StartSweep(t) PROVE EveryCallerUnread'
  <2>1. t \in Callers /\ \E j : Goto(t, "sweep", j)
    BY <1>3 DEF StartSweep, Callers
  <2> QED
    BY <2>1, GotoUnread DEF Unread
<1>4. ASSUME NEW p \in Callers, Work(p) PROVE EveryCallerUnread'
  <2>j. job[p] \in Job /\ Unread(pc[p], job[p])
    BY DEF TypeOK, EveryCallerUnread
  <2>1. CASE WriteStatus(p)
    <3>1. Return(p) \/ \E j : Goto(p, SideEffect(job[p]), j)
      BY <2>1 DEF WriteStatus
    <3>2. CASE SideEffect(job[p]) \in {"join", "field", ""}
      BY <1>r, <3>1, <3>2, GotoUnread DEF Unread
    <3>3. CASE SideEffect(job[p]) = "activate"
      <4> DEFINE j == [job[p] EXCEPT !.clock = phase[job[p].event]]
      <4>1. Return(p) \/ Goto(p, "activate", j)
        BY <2>1, <3>3 DEF WriteStatus
      <4>2. j.memo = Blank.memo
        BY <2>j, <2>1 DEF Job, Unread, WriteStatus
      <4> HIDE DEF j
      <4> QED
        BY <1>r, <4>1, <4>2, GotoUnread DEF Unread
    <3> QED
      BY <3>2, <3>3 DEF SideEffect
  <2>2. CASE Activate(p) \/ ActivateWrite(p)
    <3>1. pc[p] \in Early
      BY <2>2 DEF Activate, ActivateWrite
    <3>2. \/ Return(p) \/ (\E l : Goto(p, l, job[p]))
          \/ (\E l, b : Goto(p, l, [job[p] EXCEPT !.batch = b]))
          \/ (\E l, b : Goto(p, l, [job[p] EXCEPT !.batch = @ \ b]))
      <4>1. CASE Activate(p)
        <5> DEFINE b == {c \in Contests : /\ job[p].event \in contestEvents[c]
                                          /\ contestStatus[c] = "OPEN"
                                          /\ c \in LateCutoff => job[p].clock >= LaterRounds}
        <5>1. Goto(p, "activateWrite", [job[p] EXCEPT !.batch = b])
          BY <4>1 DEF Activate
        <5> HIDE DEF b
        <5> QED
          BY <5>1
      <4>2. CASE ActivateWrite(p)
        BY <4>2 DEF ActivateWrite
      <4> QED
        BY <2>2, <4>1, <4>2
    <3>3. \A b : /\ [job[p] EXCEPT !.batch = b].memo = job[p].memo
                 /\ [job[p] EXCEPT !.batch = @ \ b].memo = job[p].memo
      BY <2>j DEF Job
    <3>4. Return(p) \/ \E l, j : Goto(p, l, j) /\ j.memo = job[p].memo
      BY <3>2, <3>3
    <3> QED
      BY <2>j, <1>r, <3>1, <3>4, GotoUnread DEF Unread
  <2>3. CASE \/ Settle(p) \/ OpenWrite(p) \/ WriteEvents(p) \/ FindJoinable(p) \/ JoinNext(p)
    <3>1. Return(p) \/ \E l, j : l \notin Early /\ Goto(p, l, j)
      <4>1. CASE ReadField(p) \/ ReadContests(p) \/ ReadSettledFor(p)
        BY <4>1 DEF ReadField, ReadContests, ReadSettledFor
      <4>2. CASE NextContest(p)
        BY <4>2, FirstSteps DEF NextContest
      <4>3. CASE ReadFrozen(p) \/ WriteFrozen(p) \/ Check(p)
        BY <4>3 DEF ReadFrozen, WriteFrozen, Check
      <4>4. CASE SumTotals(p) \/ ReadTotal(p) \/ WriteTotal(p) \/ ReadFinal(p)
        BY <4>4 DEF SumTotals, ReadTotal, WriteTotal, ReadFinal
      <4>5. CASE RecordFinishes(p) \/ Complete(p) \/ TellSettled(p)
        BY <4>5 DEF RecordFinishes, Complete, TellSettled
      <4>6. CASE OpenWrite(p) \/ WriteEvents(p) \/ FindJoinable(p) \/ JoinNext(p)
        BY <4>6 DEF OpenWrite, WriteEvents, FindJoinable, JoinNext
      <4> QED
        BY <2>3, <4>1, <4>2, <4>3, <4>4, <4>5, <4>6 DEF Settle
    <3> QED
      BY <1>r, <3>1, GotoUnread DEF Unread
  <2>4. CASE SweepNext(p)
    <3>1. ASSUME NEW x \in job[p].sweep, SweepScheduled(p, x) PROVE EveryCallerUnread'
      <4> DEFINE j == [Blank EXCEPT !.sweep = job[p].sweep \ {x}]
                 k == [j EXCEPT !.event = x.event, !.from = "SCHEDULED", !.to = "IN_PROGRESS"]
      <4>1. k.memo = Blank.memo
        BY DEF Blank
      <4>2. Goto(p, "write", k) \/ Goto(p, "sweep", j)
        BY <3>1 DEF SweepScheduled
      <4> HIDE DEF j, k
      <4> QED
        BY <4>1, <4>2, GotoUnread DEF Unread
    <3>2. ASSUME NEW x \in job[p].sweep, SweepInProgress(p, x) PROVE EveryCallerUnread'
      <4> DEFINE j == [Blank EXCEPT !.sweep = job[p].sweep \ {x}, !.event = x.event,
                         !.from = "IN_PROGRESS", !.to = "IN_PROGRESS",
                         !.clock = x.phase, !.due = (x.phase = Over)]
      <4>1. j.memo = Blank.memo
        BY DEF Blank
      <4>2. Goto(p, "activate", j)
        BY <3>2 DEF SweepInProgress
      <4> HIDE DEF j
      <4> QED
        BY <4>1, <4>2, GotoUnread DEF Unread
    <3>3. ASSUME Goto(p, "idle", Blank) PROVE EveryCallerUnread'
      BY <3>3, GotoUnread DEF Unread
    <3> QED
      BY <2>4, <3>1, <3>2, <3>3 DEF SweepNext
  <2>5. CASE SweepFinish(p)
    <3> DEFINE j == [job[p] EXCEPT !.to = "COMPLETED", !.due = FALSE]
    <3>1. Return(p) \/ Goto(p, "write", j)
      BY <2>5 DEF SweepFinish
    <3>2. j.memo = Blank.memo
      BY <2>j, <2>5 DEF Job, Unread, SweepFinish
    <3> HIDE DEF j
    <3> QED
      BY <1>r, <3>1, <3>2, GotoUnread DEF Unread
  <2> QED
    BY <1>4, <2>1, <2>2, <2>3, <2>4, <2>5 DEF Work
<1>5. CASE Fail
  <2>1. ASSUME NEW p \in Callers, Throw(p) PROVE EveryCallerUnread'
    BY <1>r, <2>1, GotoUnread DEF Throw, Unread
  <2>2. ASSUME NEW p \in Callers, Crash(p) PROVE EveryCallerUnread'
    BY <2>2, GotoUnread DEF Crash, Unread
  <2>3. ASSUME NEW t \in Tasks, DropLock(t) PROVE EveryCallerUnread'
    BY <2>3 DEF DropLock, EveryCallerUnread
  <2> QED
    BY <1>5, <2>1, <2>2, <2>3 DEF Fail
<1> QED
  BY <1>1, <1>2, <1>3, <1>4, <1>5 DEF Next

LEMMA FaultsGrow == TypeOK /\ [Next]_vars /\ faults' = 0 => faults = 0
<1> SUFFICES ASSUME TypeOK, [Next]_vars, faults' = 0 PROVE faults = 0
  OBVIOUS
<1>1. CASE UNCHANGED vars \/ World
  BY <1>1 DEF vars, bounds, World, TimePasses, CorrectScore
<1>2. ASSUME NEW a \in Admins, Ask(a) PROVE faults = 0
  BY <1>2 DEF Ask, RequestRelease, RequestTransition, RequestOpen, RequestEvents, Request
<1>3. ASSUME NEW t \in Tasks, StartSweep(t) PROVE faults = 0
  BY <1>3 DEF StartSweep, bounds
<1>4. ASSUME NEW p \in Callers, Work(p) PROVE faults = 0
  BY <1>4, WorkGoes
<1>5. CASE Fail
  BY <1>5, BoundsAssumption DEF Fail, Throw, Crash, DropLock, Fault, TypeOK
<1> QED
  BY <1>1, <1>2, <1>3, <1>4, <1>5 DEF Next

(* The caller that writes the last of a contest's events owes the contest. *)
LEMMA WriterOwes ==
  ASSUME WaitInv, EveryCallerUnread, NEW p \in Callers, WriteStatus(p), NEW c \in Contests,
         ~AllOver(c, eventStatus), AllOver(c, eventStatus')
  PROVE  Owes(pc'[p], job'[p], c)
<1>t. TypeOK /\ job[p] \in Job
  BY DEF WaitInv, SettlementInv, TypeOK
<1>i. InitialEvents[c] \subseteq Events
  BY InitialAssumption
<1>1. PICK e \in InitialEvents[c] : eventStatus[e] \notin FinishedStatuses
                                    /\ eventStatus'[e] \in FinishedStatuses
  BY DEF AllOver
<1>2. StillAt(job[p]) /\ eventStatus' = [eventStatus EXCEPT ![job[p].event] = job[p].to]
  BY <1>1 DEF WriteStatus
<1>3. e = job[p].event /\ job[p].to \in FinishedStatuses
  BY <1>t, <1>i, <1>1, <1>2 DEF TypeOK, Job
<1>4. SideEffect(job[p]) = "field"
  BY <1>3 DEF SideEffect, FinishedStatuses
<1> DEFINE j == [job[p] EXCEPT !.clock = phase[job[p].event]]
<1>5. pc'[p] = "field" /\ job'[p] = j
  BY <1>t, <1>2, <1>4 DEF WriteStatus, Goto, TypeOK
<1>6. j.memo = Blank.memo /\ j.event = e
  BY <1>t, <1>3 DEF Job, EveryCallerUnread, Unread, WriteStatus
<1>7. \A x \in Events : Blank.memo[x] = "UNREAD"
  BY DEF Blank
<1> HIDE DEF j
<1> QED
  BY <1>i, <1>5, <1>6, <1>7 DEF Owes

LEMMA OwedInit == ASSUME OpenedInTime PROVE Init => OwedInv
<1> SUFFICES ASSUME Init PROVE OwedInv
  OBVIOUS
<1>1. \A c \in Contests : contestStatus[c] # "DRAFT"
  BY DEF Init, OpenedInTime
<1>2. EveryCallerUnread
  BY DEF Init, EveryCallerUnread, Unread
<1>3. \A c \in Contests : ~AllOver(c, eventStatus)
  BY InitialAssumption DEF Init, OpenedInTime, AllOver
<1> QED
  BY <1>1, <1>2, <1>3, WaitInit DEF OwedInv, IsDue

LEMMA OwedNext == ASSUME EventsStay PROVE OwedInv /\ [Next]_vars => OwedInv'
<1> SUFFICES ASSUME OwedInv, [Next]_vars PROVE OwedInv'
  OBVIOUS
<1>i. WaitInv /\ SettlementInv /\ TypeOK /\ EveryCallerUnread
  BY DEF OwedInv, WaitInv, SettlementInv
<1>1. WaitInv'
  BY <1>i, WaitNext
<1>f. MovesForward
  BY <1>i, ContestsForward
<1>2. \A c \in Contests : contestStatus'[c] # "DRAFT"
  BY <1>i, <1>f DEF OwedInv, MovesForward, Stage, TypeOK, ContestStatus
<1>3. EveryCallerUnread'
  BY <1>i, UnreadNext
<1>4. ASSUME faults' = 0, NEW c \in Contests \ Unscorable, IsDue(c)'
      PROVE  IsOwed(c)'
  <2>f. faults = 0
    BY <1>4, <1>i, FaultsGrow
  <2>s. contestStatus'[c] \in Settleable /\ contestStatus[c] \in Settleable
    BY <1>4, <1>i, <1>f
    DEF IsDue, OwedInv, MovesForward, Stage, Settleable, NotSettled, TypeOK, ContestStatus
  <2>1. CASE ~AllOver(c, eventStatus)
    <3>1. PICK p \in Callers : WriteStatus(p)
      BY <1>4, <2>1, Writers DEF IsDue
    <3>2. Owes(pc'[p], job'[p], c)
      BY <1>i, <1>4, <2>1, <3>1, WriterOwes DEF IsDue
    <3> QED
      BY <3>2 DEF IsOwed
  <2>2. CASE AllOver(c, eventStatus)
    <3>1. IsDue(c)
      BY <2>s, <2>2 DEF IsDue
    <3>2. PICK p \in Callers : Owes(pc[p], job[p], c)
      BY <2>f, <3>1 DEF OwedInv, IsOwed
    <3>3. CASE Work(p)
      <4>1. Settle(p)
        BY <3>2, <3>3, OwingSettles
      <4>2. Owes(pc'[p], job'[p], c)
        BY <1>i, <2>s, <3>1, <3>2, <4>1, SettleOwes
      <4> QED
        BY <4>2 DEF IsOwed
    <3>4. CASE ~Work(p)
      <4>1. pc[p] # "idle"
        BY <3>2 DEF Owes, Listed, Working
      <4>2. pc'[p] = pc[p] /\ job'[p] = job[p]
        BY <1>i, <1>4, <2>f, <3>4, <4>1, OthersMove
      <4> QED
        BY <3>2, <4>2 DEF IsOwed, Owes
    <3> QED
      BY <3>3, <3>4
  <2> QED
    BY <2>1, <2>2
<1> QED
  BY <1>1, <1>2, <1>3, <1>4 DEF OwedInv

(* When nobody is at work, nobody owes a contest its completion: however many
   events of a contest finish at once and however their settlements interleave,
   the last to finish finds the others finished and completes it.  It needs no
   call to fail, the contests' events to stay, and every contest to have been
   opened before its events end (#743). *)
THEOREM NoneStranded ==
  ASSUME EventsStay, OpenedInTime
  PROVE  Spec => []NothingStranded
<1>1. OwedInv => NothingStranded
  <2> SUFFICES ASSUME OwedInv, faults = 0, \A p \in Callers : pc[p] \in {"idle", "sweep"},
                      NEW c \in Contests \ Unscorable, AllFinished(c)
               PROVE  contestStatus[c] \notin Settleable
    BY DEF NothingStranded
  <2>1. ~IsOwed(c)
    BY DEF IsOwed, Owes, Listed, Working
  <2>2. AllOver(c, eventStatus)
    BY DEF OwedInv, WaitInv, AllFinished, AllOver
  <2> QED
    BY <2>1, <2>2 DEF OwedInv, IsDue
<1> QED
  BY <1>1, OwedInit, OwedNext, PTL DEF Spec
=============================================================================
