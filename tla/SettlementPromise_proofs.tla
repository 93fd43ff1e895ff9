---------------------- MODULE SettlementPromise_proofs ----------------------
(***************************************************************************)
(* While operations do not overlap and no call fails, settlement keeps the *)
(* promise of ContestResult: every step of the code is a step of it or     *)
(* none.  What carries the refinement is that the one caller at work may   *)
(* trust what it read: the rows it is about to total are those of exactly  *)
(* the events that completed, nothing of a contest is totalled before its  *)
(* last event, and whatever is not settled yet is on that caller's list.   *)
(***************************************************************************)
EXTENDS SettlementWaits_proofs

(* Callers follow one another, no call fails, and a bracket is on one event. *)
OneAtATime ==
  /\ Overlap = FALSE /\ MaxFaults = 0
  /\ \A c \in Brackets : \A d, e \in InitialEvents[c] : d = e

Ended(e) == eventStatus[e] \in FinishedStatuses

(* A result counts exactly the events a contest covers that were played. *)
Counts(result, c) == \A e \in Events :
  result[e] # 0 <=> e \in contestEvents[c] /\ eventStatus[e] = "COMPLETED"

(* The places of a contest's settlement, up to the write that completes it. *)
Busy == Working \ {"tell"}
Scoring == {"freezeRead", "freeze", "check", "sum", "totalRead", "total"}
Resulting == {"final", "finishes", "complete"}

(* What a caller at l with job j has read is still so. *)
Current(l, j) ==
  /\ l \in Settling => \A e \in Events : j.memo[e] \in {"UNREAD", eventStatus[e]}
  /\ l \in Listed \cup {"contests"} => j.version # 0
  /\ l \in Listed => /\ j.lists = contestEvents
                     /\ \A c \in j.batch : /\ contestStatus[c] \in Settleable
                                           /\ j.event \in contestEvents[c]
  /\ l \in Listed \ {"known"} => \A c \in j.known : frozen[c][j.event] # 0
  /\ l \in Working => j.event \in contestEvents[j.current] /\ j.current \notin j.batch
  /\ l \in Busy => contestStatus[j.current] \in Settleable
  /\ l \in Scoring => j.current \notin Unscorable
  /\ l \in Freezing => Graded(j) # 0

(* How far the result of the contest it settles has come. *)
Building(l, j) ==
  /\ l = "freeze" => j.plan \in Plans(frozen[j.current][j.event], Graded(j), 0)
  /\ l \in Deciding \ {"tell"} => \A e \in contestEvents[j.current] : Ended(e)
  /\ l \in {"totalRead", "total"} => Counts(j.result, j.current)
  /\ l = "total" => j.plan = "create"
  /\ l \in Resulting => Counts(total[j.current], j.current)
  /\ l = "finishes" => j.result = total[j.current]
  /\ l = "complete" => finishes[j.current] = total[j.current]

(* What a commissioner's change was checked against still holds. *)
Editing(l, j) ==
  /\ l = "openWrite" => \A e \in contestEvents[j.current] : ~Ended(e)
  /\ l = "joinNext" => j.batch \cap Brackets = {}
  /\ l = "editWrite" =>
       /\ j.current \notin Brackets /\ j.batch \cap Brackets = {}
       /\ j.target # {} /\ contestStatus[j.current] # "COMPLETED"
       /\ \/ contestEvents[j.current] \subseteq j.target
          \/ \A e \in contestEvents[j.current] : ~Ended(e)
       /\ \A e \in j.target \ contestEvents[j.current] : ~Ended(e)

Trusts(l, j) == Current(l, j) /\ Building(l, j) /\ Editing(l, j)

(* A caller at l with job j is still to settle c for its event, or to freeze
   that event's standings. *)
Settles(l, j, c) ==
  /\ j.event \in contestEvents[c]
  /\ \/ l \in {"field", "contests"}
     \/ l \in Listed /\ c \in j.batch
     \/ l \in Working /\ j.current = c
WillFreeze(l, j, c, e) ==
  /\ j.event = e
  /\ \/ l \in {"field", "contests"}
     \/ l \in Listed /\ c \in j.batch
     \/ l \in Freezing /\ j.current = c

OneAtWork == \A p, q \in Callers : pc[p] # "idle" /\ pc[q] # "idle" => p = q

EveryCallerTrusts == \A p \in Callers : Trusts(pc[p], job[p])

(* Frozen standings are of events the contest covers. *)
FrozenCovered == \A c \in Contests, e \in Events : frozen[c][e] # 0 => e \in contestEvents[c]

(* An event that was played is frozen for every contest on it, or about to be. *)
PlayedFrozen ==
  \A c \in Contests \ Unscorable : contestStatus[c] \in Settleable =>
    \A e \in contestEvents[c] : eventStatus[e] = "COMPLETED" =>
      frozen[c][e] # 0 \/ \E p \in Callers : WillFreeze(pc[p], job[p], c, e)

(* A result is written by the settlement that completes the contest. *)
ResultsUnderWay ==
  \A c \in Contests : contestStatus[c] # "COMPLETED" =>
    /\ total[c] # Nothing =>
         \E p \in Callers : job[p].current = c /\ pc[p] \in Resulting
    /\ finishes[c] # Nothing =>
         \E p \in Callers : job[p].current = c /\ pc[p] = "complete"

(* A contest that is live has an event to wait for, or is being settled. *)
EndedSettled ==
  \A c \in Contests \ Unscorable :
    /\ contestStatus[c] \in Settleable /\ contestEvents[c] # {}
    /\ \A e \in contestEvents[c] : Ended(e)
    => \E p \in Callers : Settles(pc[p], job[p], c)

OneEventBrackets == \A c \in Brackets : \A d, e \in contestEvents[c] : d = e

SerialInv == /\ SettlementInv /\ EveryCallerUnread
             /\ OneAtWork /\ EveryCallerTrusts /\ OneEventBrackets
             /\ FrozenCovered /\ PlayedFrozen /\ ResultsUnderWay /\ EndedSettled

-----------------------------------------------------------------------------
(* The one caller at work: what is owed is owed by it. *)

MayGo(p) == pc[p] # "idle" \/ \A q \in Callers : pc[q] = "idle"

MyFreezes(p) == \A c \in Contests \ Unscorable : contestStatus[c] \in Settleable =>
  \A e \in contestEvents[c] : eventStatus[e] = "COMPLETED" =>
    frozen[c][e] # 0 \/ WillFreeze(pc[p], job[p], c, e)

MyResult(p) == \A c \in Contests : contestStatus[c] # "COMPLETED" =>
  /\ total[c] # Nothing => job[p].current = c /\ pc[p] \in Resulting
  /\ finishes[c] # Nothing => job[p].current = c /\ pc[p] = "complete"

MyEnding(p) == \A c \in Contests \ Unscorable :
  /\ contestStatus[c] \in Settleable /\ contestEvents[c] # {}
  /\ \A e \in contestEvents[c] : Ended(e)
  => Settles(pc[p], job[p], c)

Mine(p) == MyFreezes(p) /\ MyResult(p) /\ MyEnding(p)

(* What a step of p is to show. *)
Goes(p) == Trusts(pc[p], job[p])' /\ OneEventBrackets' /\ FrozenCovered' /\ Mine(p)'

SerialNext == /\ OneAtWork' /\ EveryCallerTrusts' /\ OneEventBrackets'
              /\ FrozenCovered' /\ PlayedFrozen' /\ ResultsUnderWay' /\ EndedSettled'

(* A caller at no place of a settlement owes nothing. *)
LEMMA IdleOwesNothing ==
  ASSUME NEW l, NEW j, l \notin Settling, NEW c, NEW e
  PROVE  ~WillFreeze(l, j, c, e) /\ ~Settles(l, j, c) /\ l \notin Resulting
BY DEF WillFreeze, Settles, Settling, Listed, Working, Freezing, Resulting

LEMMA OnlyMine ==
  ASSUME SerialInv, NEW p \in Callers, MayGo(p)
  PROVE  (\A q \in Callers : q # p => pc[q] = "idle") /\ Mine(p)
<1>1. \A q \in Callers : q # p => pc[q] = "idle"
  BY DEF SerialInv, OneAtWork, MayGo
<1>2. \A q \in Callers : q # p => pc[q] \notin Settling /\ pc[q] # "complete"
  BY <1>1 DEF Settling, Listed, Working
<1>3. MyFreezes(p)
  BY <1>2, IdleOwesNothing DEF SerialInv, PlayedFrozen, MyFreezes
<1>4. MyResult(p)
  BY <1>2, IdleOwesNothing DEF SerialInv, ResultsUnderWay, MyResult
<1>5. MyEnding(p)
  BY <1>2, IdleOwesNothing DEF SerialInv, EndedSettled, MyEnding
<1> QED
  BY <1>1, <1>3, <1>4, <1>5 DEF Mine

LEMMA IdleTrusts == ASSUME NEW j PROVE Trusts("idle", j)
BY DEF Trusts, Current, Building, Editing, Settling, Listed, Working, Busy, Scoring,
       Freezing, Deciding, Resulting

LEMMA GoesOn ==
  ASSUME SerialInv, NEW p \in Callers, MayGo(p), NEW l, NEW j, Goto(p, l, j), Goes(p)
  PROVE  SerialNext
<1>t. TypeOK
  BY DEF SerialInv, SettlementInv
<1>1. \A q \in Callers : q # p => pc'[q] = "idle"
  BY <1>t, OnlyMine DEF Goto, TypeOK
<1>2. OneAtWork'
  BY <1>1 DEF OneAtWork
<1>3. EveryCallerTrusts'
  <2> SUFFICES ASSUME NEW q \in Callers PROVE Trusts(pc[q], job[q])'
    BY DEF EveryCallerTrusts
  <2>1. CASE q = p
    BY <2>1 DEF Goes
  <2>2. CASE q # p
    <3>1. pc'[q] = "idle"
      BY <1>1, <2>2
    <3> QED
      BY <3>1 DEF Trusts, Current, Building, Editing, Settling, Listed, Working, Busy,
                  Scoring, Freezing, Deciding, Resulting
  <2> QED
    BY <2>1, <2>2
<1>4. PlayedFrozen'
  BY DEF Goes, Mine, MyFreezes, PlayedFrozen
<1>5. ResultsUnderWay'
  BY DEF Goes, Mine, MyResult, ResultsUnderWay
<1>6. EndedSettled'
  BY DEF Goes, Mine, MyEnding, EndedSettled
<1> QED
  BY <1>2, <1>3, <1>4, <1>5, <1>6 DEF Goes, SerialNext

(* Where nothing the invariant is about changes, it stays. *)
LEMMA StillSerial ==
  ASSUME SerialInv, UNCHANGED <<eventStatus, contestStatus, contestEvents, frozen, total,
                                finishes, pc, job>>
  PROVE  SerialNext
<1>1. EveryCallerTrusts'
  BY DEF SerialInv, EveryCallerTrusts, Trusts, Current, Building, Editing, Ended, Counts
<1>2. OneAtWork' /\ OneEventBrackets' /\ FrozenCovered'
  BY DEF SerialInv, OneAtWork, OneEventBrackets, FrozenCovered
<1>3. PlayedFrozen' /\ ResultsUnderWay'
  BY DEF SerialInv, PlayedFrozen, ResultsUnderWay
<1>4. EndedSettled'
  BY DEF SerialInv, EndedSettled, Settles, Ended
<1> QED
  BY <1>1, <1>2, <1>3, <1>4 DEF SerialNext

(* Places where a caller relies on nothing. *)
Loose == {"idle", "sweep", "finish", "write", "join", "activate", "activateWrite"}

LEMMA LooseTrusts ==
  ASSUME NEW p \in Callers, pc'[p] \in Loose
  PROVE  Trusts(pc[p], job[p])'
BY DEF Loose, Trusts, Current, Building, Editing, Settling, Listed, Working, Busy, Scoring,
       Freezing, Deciding, Resulting

(* A caller that is at no settlement and leaves events, their contests and
   the results as they are. *)
LEMMA QuietGoes ==
  ASSUME SerialInv, NEW p \in Callers, MayGo(p), pc[p] \notin Settling,
         UNCHANGED <<eventStatus, contestEvents, frozen, total, finishes>>,
         \A c \in Contests : /\ contestStatus'[c] \in Settleable => contestStatus[c] \in Settleable
                             /\ contestStatus'[c] # "COMPLETED" => contestStatus[c] # "COMPLETED",
         Trusts(pc[p], job[p])'
  PROVE  Goes(p)
<1>m. Mine(p)
  BY OnlyMine
<1>0. \A c, e : ~WillFreeze(pc[p], job[p], c, e) /\ ~Settles(pc[p], job[p], c)
  BY IdleOwesNothing
<1>r. pc[p] \notin Resulting /\ pc[p] # "complete"
  BY DEF Settling, Listed, Working, Resulting
<1>1. MyFreezes(p)'
  BY <1>m, <1>0 DEF Mine, MyFreezes
<1>2. MyResult(p)'
  BY <1>m, <1>r DEF Mine, MyResult
<1>3. MyEnding(p)'
  BY <1>m, <1>0 DEF Mine, MyEnding, Ended
<1> QED
  BY <1>1, <1>2, <1>3 DEF Goes, Mine, SerialInv, OneEventBrackets, FrozenCovered

-----------------------------------------------------------------------------
(* Requests, sweeps and the writes outside settlement. *)

LEMMA GotoLands ==
  ASSUME TypeOK, NEW p \in Callers, NEW l, NEW j, Goto(p, l, j)
  PROVE  pc'[p] = l /\ job'[p] = j
BY DEF TypeOK, Goto

LEMMA ReturnLands ==
  ASSUME TypeOK, NEW p \in Callers, Return(p)
  PROVE  pc'[p] \in Loose /\ \E l, j : Goto(p, l, j)
BY DEF TypeOK, Return, Goto, Loose

LEMMA QuietNext ==
  ASSUME SerialInv, NEW p \in Callers, MayGo(p), pc[p] \notin Settling,
         UNCHANGED <<eventStatus, contestStatus, contestEvents, frozen, total, finishes>>,
         NEW l, NEW j, Goto(p, l, j), Trusts(pc[p], job[p])'
  PROVE  SerialNext
BY QuietGoes, GoesOn

LEMMA LooseNext ==
  ASSUME SerialInv, NEW p \in Callers, MayGo(p), pc[p] \notin Settling,
         UNCHANGED <<eventStatus, contestStatus, contestEvents, frozen, total, finishes>>,
         NEW l \in Loose, NEW j, Goto(p, l, j)
  PROVE  SerialNext
BY GotoLands, LooseTrusts, QuietNext DEF SerialInv, SettlementInv

LEMMA ReturnNext ==
  ASSUME SerialInv, NEW p \in Callers, MayGo(p), pc[p] \notin Settling,
         UNCHANGED <<eventStatus, contestStatus, contestEvents, frozen, total, finishes>>,
         Return(p)
  PROVE  SerialNext
BY ReturnLands, LooseTrusts, QuietNext DEF SerialInv, SettlementInv

LEMMA AskSerial == ASSUME OneAtATime, SerialInv, NEW a \in Admins, Ask(a) PROVE SerialNext
<1>a. a \in Callers
  BY DEF Callers
<1>t. TypeOK
  BY DEF SerialInv, SettlementInv
<1>m. ASSUME NEW l, NEW j, Request(a, l, j)
      PROVE  MayGo(a) /\ pc[a] \notin Settling /\ Goto(a, l, j)
  BY <1>m DEF Request, MayStart, OneAtATime, MayGo, Settling, Listed, Working
<1>1. ASSUME NEW e \in Events, RequestRelease(a, e) PROVE SerialNext
  <2>1. \E j : Request(a, "write", j)
    BY <1>1 DEF RequestRelease
  <2> QED
    BY <1>a, <1>m, <1>1, <2>1, LooseNext DEF RequestRelease, stored, Loose
<1>2. ASSUME NEW e \in Events, NEW to \in EventStatus, RequestTransition(a, e, to)
      PROVE  SerialNext
  <2>1. \E j : Request(a, "write", j)
    BY <1>2 DEF RequestTransition
  <2> QED
    BY <1>a, <1>m, <1>2, <2>1, LooseNext DEF RequestTransition, stored, Loose
<1>3. ASSUME NEW c \in Contests, RequestOpen(a, c) PROVE SerialNext
  <2> DEFINE j == [Blank EXCEPT !.current = c]
  <2>1. Request(a, "openWrite", j) /\ j.current = c
    BY <1>3 DEF RequestOpen, Blank
  <2> HIDE DEF j
  <2>2. pc'[a] = "openWrite" /\ job'[a].current = c
    BY <1>a, <1>t, <1>m, <2>1, GotoLands
  <2>3. \A e \in contestEvents'[c] : ~Ended(e)'
    BY <1>3 DEF RequestOpen, CutoffPassed, HasSportEventStarted, Ended, StartedStatuses,
                FinishedStatuses
  <2>4. Trusts(pc[a], job[a])'
    BY <2>2, <2>3 DEF Trusts, Current, Building, Editing, Settling, Listed, Working, Busy,
                      Scoring, Freezing, Deciding, Resulting
  <2> QED
    BY <1>a, <1>m, <1>3, <2>1, <2>4, QuietNext DEF RequestOpen, stored
<1>4. ASSUME NEW c \in Contests, NEW es \in SUBSET Events, RequestEvents(a, c, es)
      PROVE  SerialNext
  <2> DEFINE j == [Blank EXCEPT !.current = c, !.target = es]
  <2>1. Request(a, "editWrite", j) /\ j.current = c /\ j.target = es /\ j.batch = {}
    BY <1>4 DEF RequestEvents, Blank
  <2> HIDE DEF j
  <2>2. pc'[a] = "editWrite" /\ job'[a] = j
    BY <1>a, <1>t, <1>m, <2>1, GotoLands
  <2>3. /\ \/ contestEvents'[c] \subseteq es
           \/ \A e \in contestEvents'[c] : ~Ended(e)'
        /\ \A e \in es \ contestEvents'[c] : ~Ended(e)'
        /\ es # {} /\ contestStatus'[c] # "COMPLETED" /\ c \notin Brackets
    BY <1>4, SetsAssumption
    DEF RequestEvents, MaySetEvents, HasSportEventStarted, Ended, StartedStatuses,
        FinishedStatuses
  <2>4. Editing(pc[a], job[a])'
    BY <2>1, <2>2, <2>3 DEF Editing
  <2>5. Trusts(pc[a], job[a])'
    BY <2>2, <2>4 DEF Trusts, Current, Building, Settling, Listed, Working, Busy,
                      Scoring, Freezing, Deciding, Resulting
  <2> QED
    BY <1>a, <1>m, <1>4, <2>1, <2>5, QuietNext DEF RequestEvents, stored
<1> QED
  BY <1>1, <1>2, <1>3, <1>4 DEF Ask

LEMMA SweepSerial ==
  ASSUME OneAtATime, SerialInv, NEW t \in Tasks, StartSweep(t)
  PROVE  SerialNext
<1>1. t \in Callers /\ MayGo(t) /\ pc[t] \notin Settling
  BY DEF StartSweep, MayStart, OneAtATime, MayGo, Callers, Settling, Listed, Working
<1>2. \E j : Goto(t, "sweep", j)
  BY DEF StartSweep
<1> QED
  BY <1>1, <1>2, LooseNext DEF StartSweep, stored, Loose

LEMMA SweepNextSerial ==
  ASSUME SerialInv, NEW p \in Callers, SweepNext(p) \/ SweepFinish(p)
  PROVE  SerialNext
<1>t. TypeOK
  BY DEF SerialInv, SettlementInv
<1>1. MayGo(p) /\ pc[p] \notin Settling
  BY DEF SweepNext, SweepFinish, MayGo, Settling, Listed, Working
<1>2. CASE SweepNext(p)
  <2>1. \E l, j : Goto(p, l, j)
    BY <1>2 DEF SweepNext, SweepScheduled, SweepInProgress
  <2>2. pc'[p] \in Loose
    BY <1>t, <1>2
    DEF SweepNext, SweepScheduled, SweepInProgress, Goto, TypeOK, Loose
  <2> QED
    BY <1>1, <1>2, <2>1, <2>2, LooseTrusts, QuietNext DEF SweepNext, stored
<1>3. CASE SweepFinish(p)
  <2>1. Return(p) \/ \E j : Goto(p, "write", j)
    BY <1>3 DEF SweepFinish
  <2>2. UNCHANGED <<eventStatus, contestStatus, contestEvents, frozen, total, finishes>>
    BY <1>3 DEF SweepFinish, stored
  <2> QED
    BY <1>1, <2>1, <2>2, LooseNext, ReturnNext DEF Loose
<1> QED
  BY <1>2, <1>3

(* Going live: only open contests move, and they stay to be settled. *)
LEMMA ActivateSerial ==
  ASSUME SerialInv, NEW p \in Callers, Activate(p) \/ ActivateWrite(p)
  PROVE  SerialNext
<1>t. TypeOK
  BY DEF SerialInv, SettlementInv
<1>1. MayGo(p) /\ pc[p] \notin Settling
  BY DEF Activate, ActivateWrite, MayGo, Settling, Listed, Working
<1>2. \E l, j : Goto(p, l, j)
  BY DEF Activate, ActivateWrite, Return
<1>l. pc'[p] \in Loose
  BY <1>t DEF Activate, ActivateWrite, Return, Goto, TypeOK, Loose
<1>3. UNCHANGED <<eventStatus, contestEvents, frozen, total, finishes>>
  BY DEF Activate, ActivateWrite, stored
<1>4. \A c \in Contests : contestStatus'[c] = contestStatus[c] \/ contestStatus[c] = "OPEN"
  BY DEF Activate, ActivateWrite, Startable
<1>5. \A c \in Contests : /\ contestStatus'[c] \in Settleable => contestStatus[c] \in Settleable
                          /\ contestStatus'[c] # "COMPLETED" => contestStatus[c] # "COMPLETED"
  BY <1>4 DEF Settleable, NotSettled, ContestStatus
<1>6. Trusts(pc[p], job[p])'
  BY <1>l, LooseTrusts
<1>7. Goes(p)
  BY <1>1, <1>3, <1>5, <1>6, QuietGoes
<1> QED
  BY <1>1, <1>2, <1>7, GoesOn

(* A draft is opened while none of its events has ended. *)
LEMMA OpenSerial == ASSUME SerialInv, NEW p \in Callers, OpenWrite(p) PROVE SerialNext
<1>t. TypeOK /\ job[p] \in Job
  BY DEF SerialInv, SettlementInv, TypeOK
<1>1. MayGo(p) /\ pc[p] \notin Settling /\ pc[p] = "openWrite"
  BY DEF OpenWrite, MayGo, Settling, Listed, Working
<1> DEFINE d == job[p].current
<1>2. UNCHANGED <<eventStatus, contestEvents, frozen, total, finishes>>
  BY DEF OpenWrite, stored
<1>3. \A c \in Contests : \/ contestStatus'[c] = contestStatus[c]
                          \/ c = d /\ contestStatus[c] = "DRAFT" /\ contestStatus'[c] = "OPEN"
  BY <1>t DEF OpenWrite, TypeOK, Job
<1>4. \A e \in contestEvents[d] : ~Ended(e)
  BY <1>1 DEF SerialInv, EveryCallerTrusts, Trusts, Editing
<1>5. Return(p)
  BY DEF OpenWrite
<1>6. Trusts(pc[p], job[p])'
  BY <1>t, <1>5, ReturnLands, LooseTrusts
<1>m. Mine(p)
  BY <1>1, OnlyMine
<1>0. \A c, e : ~WillFreeze(pc[p], job[p], c, e) /\ ~Settles(pc[p], job[p], c)
  BY <1>1, IdleOwesNothing
<1>r. pc[p] \notin Resulting /\ pc[p] # "complete"
  BY <1>1 DEF Settling, Listed, Working, Resulting
<1> HIDE DEF d
<1>7. MyFreezes(p)'
  BY <1>m, <1>0, <1>2, <1>3, <1>4 DEF Mine, MyFreezes, Ended, FinishedStatuses
<1>8. MyResult(p)'
  BY <1>m, <1>r, <1>2, <1>3 DEF Mine, MyResult
<1>9. MyEnding(p)'
  BY <1>m, <1>0, <1>2, <1>3, <1>4 DEF Mine, MyEnding, Ended
<1>10. Goes(p)
  BY <1>2, <1>6, <1>7, <1>8, <1>9 DEF Goes, Mine, SerialInv, OneEventBrackets, FrozenCovered
<1> QED
  BY <1>t, <1>1, <1>5, <1>10, ReturnLands, GoesOn

(* The edition a release adds to template contests, one contest at a time. *)
LEMMA JoinSerial ==
  ASSUME SerialInv, NEW p \in Callers, FindJoinable(p) \/ JoinNext(p)
  PROVE  SerialNext
<1>t. TypeOK /\ job[p] \in Job
  BY DEF SerialInv, SettlementInv, TypeOK
<1>1. MayGo(p) /\ pc[p] \notin Settling
  BY DEF FindJoinable, JoinNext, MayGo, Settling, Listed, Working
<1>2. UNCHANGED <<eventStatus, contestStatus, contestEvents, frozen, total, finishes>>
  BY DEF FindJoinable, JoinNext, stored
<1>3. CASE FindJoinable(p)
  <2> DEFINE j == [job[p] EXCEPT
         !.batch = {c \in Template : /\ contestStatus[c] # "COMPLETED"
                                     /\ job[p].event \notin contestEvents[c]},
         !.lists = contestEvents]
  <2>1. Goto(p, "joinNext", j)
    BY <1>3 DEF FindJoinable
  <2>2. j.batch \subseteq Template
    BY <1>t DEF Job
  <2>3. j.batch \cap Brackets = {}
    BY <2>2, SetsAssumption
  <2> HIDE DEF j
  <2>4. pc'[p] = "joinNext" /\ job'[p] = j
    BY <1>t, <2>1, GotoLands
  <2>5. Trusts(pc[p], job[p])'
    BY <2>3, <2>4 DEF Trusts, Current, Building, Editing, Settling, Listed, Working, Busy,
                      Scoring, Freezing, Deciding, Resulting
  <2> QED
    BY <1>1, <1>2, <2>1, <2>5, QuietNext
<1>4. CASE JoinNext(p) /\ job[p].batch = {}
  BY <1>1, <1>2, <1>4, ReturnNext DEF JoinNext
<1>5. CASE JoinNext(p) /\ job[p].batch # {}
  <2>0. job[p].batch \cap Brackets = {} /\ job[p].batch \subseteq Contests
    BY <1>t, <1>5 DEF JoinNext, SerialInv, EveryCallerTrusts, Trusts, Editing, Job
  <2> DEFINE T(c) == job[p].lists[c] \cup {job[p].event}
             J(c) == [job[p] EXCEPT !.batch = @ \ {c}]
             E(c) == [J(c) EXCEPT !.current = c, !.target = T(c)]
  <2>1. PICK c \in job[p].batch : IF MaySetEvents(c, T(c)) THEN Goto(p, "editWrite", E(c))
                                  ELSE Goto(p, "joinNext", J(c))
    BY <1>5 DEF JoinNext
  <2>2. /\ J(c).batch \cap Brackets = {}
        /\ E(c).batch \cap Brackets = {} /\ E(c).current = c /\ E(c).target = T(c)
    BY <1>t, <2>0 DEF Job
  <2>3. c \notin Brackets /\ T(c) # {}
    BY <2>0, <2>1
  <2>4. CASE MaySetEvents(c, T(c))
    <3>1. pc'[p] = "editWrite" /\ job'[p] = E(c)
      BY <1>t, <2>1, <2>4, GotoLands
    <3>2. /\ contestStatus[c] # "COMPLETED"
          /\ contestEvents[c] \subseteq T(c) \/ \A e \in contestEvents[c] : ~Ended(e)
          /\ \A e \in T(c) \ contestEvents[c] : ~Ended(e)
      BY <2>4 DEF MaySetEvents, HasSportEventStarted, Ended, StartedStatuses, FinishedStatuses
    <3> HIDE DEF T, E
    <3>3. Editing(pc[p], job[p])'
      BY <1>2, <2>2, <2>3, <3>1, <3>2 DEF Editing, Ended
    <3>4. Trusts(pc[p], job[p])'
      BY <3>1, <3>3 DEF Trusts, Current, Building, Settling, Listed, Working, Busy, Scoring,
                        Freezing, Deciding, Resulting
    <3> QED
      BY <1>1, <1>2, <2>1, <2>4, <3>4, QuietNext
  <2>5. CASE ~MaySetEvents(c, T(c))
    <3>1. pc'[p] = "joinNext" /\ job'[p] = J(c) /\ Goto(p, "joinNext", J(c))
      BY <1>t, <2>1, <2>5, GotoLands
    <3> HIDE DEF J
    <3>2. Trusts(pc[p], job[p])'
      BY <2>2, <3>1 DEF Trusts, Current, Building, Editing, Settling, Listed, Working, Busy,
                        Scoring, Freezing, Deciding, Resulting
    <3> QED
      BY <1>1, <1>2, <3>1, <3>2, QuietNext
  <2> QED
    BY <2>4, <2>5
<1> QED
  BY <1>3, <1>4, <1>5

(* A contest's events are replaced: what it loses had not ended, nor had what
   it gains. *)
LEMMA EditSerial == ASSUME SerialInv, NEW p \in Callers, WriteEvents(p) PROVE SerialNext
<1>t. TypeOK /\ job[p] \in Job
  BY DEF SerialInv, SettlementInv, TypeOK
<1>1. MayGo(p) /\ pc[p] \notin Settling /\ pc[p] = "editWrite"
  BY DEF WriteEvents, MayGo, Settling, Listed, Working
<1> DEFINE d == job[p].current
           new == job[p].target
<1>2. /\ UNCHANGED <<eventStatus, contestStatus, frozen, total, finishes>>
      /\ Goto(p, "joinNext", job[p])
  BY DEF WriteEvents, stored
<1>3. d \in Contests /\ new \subseteq Events
  BY <1>t DEF Job
<1>4. contestEvents'[d] = new /\ \A c \in Contests : c # d => contestEvents'[c] = contestEvents[c]
  BY <1>t, <1>3 DEF WriteEvents, TypeOK
<1>5. /\ d \notin Brackets /\ job[p].batch \cap Brackets = {} /\ new # {}
      /\ contestEvents[d] \subseteq new \/ \A e \in contestEvents[d] : ~Ended(e)
      /\ \A e \in new \ contestEvents[d] : ~Ended(e)
  BY <1>1 DEF SerialInv, EveryCallerTrusts, Trusts, Editing
<1>6. pc'[p] = "joinNext" /\ job'[p] = job[p]
  BY <1>t, <1>2, GotoLands
<1>7. Trusts(pc[p], job[p])'
  BY <1>5, <1>6 DEF Trusts, Current, Building, Editing, Settling, Listed, Working, Busy,
                    Scoring, Freezing, Deciding, Resulting
<1>m. Mine(p)
  BY <1>1, OnlyMine
<1>0. \A c, e : ~WillFreeze(pc[p], job[p], c, e) /\ ~Settles(pc[p], job[p], c)
  BY <1>1, IdleOwesNothing
<1>r. pc[p] \notin Resulting /\ pc[p] # "complete"
  BY <1>1 DEF Settling, Listed, Working, Resulting
<1>f. \A c \in Contests, e \in Events : frozen[c][e] # 0 => eventStatus[e] = "COMPLETED"
  BY DEF SerialInv, SettlementInv, OnlyCompletedScored
<1> HIDE DEF d, new
<1>8. FrozenCovered'
  <2> SUFFICES ASSUME NEW c \in Contests, NEW e \in Events, frozen[c][e] # 0
               PROVE  e \in contestEvents'[c]
    BY <1>2 DEF FrozenCovered
  <2>1. e \in contestEvents[c] /\ Ended(e)
    BY <1>f DEF SerialInv, FrozenCovered, Ended, FinishedStatuses
  <2> QED
    BY <1>4, <1>5, <2>1
<1>9. OneEventBrackets'
  BY <1>4, <1>5, SetsAssumption DEF SerialInv, OneEventBrackets
<1>10. MyFreezes(p)'
  BY <1>m, <1>0, <1>2, <1>4, <1>5 DEF Mine, MyFreezes, Ended, FinishedStatuses
<1>11. MyResult(p)'
  BY <1>m, <1>r, <1>2 DEF Mine, MyResult
<1>12. MyEnding(p)'
  <2> SUFFICES ASSUME NEW c \in Contests \ Unscorable, contestStatus[c] \in Settleable,
                      contestEvents'[c] # {}, \A e \in contestEvents'[c] : Ended(e)
               PROVE  FALSE
    BY <1>2 DEF MyEnding, Ended
  <2>1. contestEvents[c] = {} \/ ~ \A e \in contestEvents[c] : Ended(e)
    BY <1>m, <1>0 DEF Mine, MyEnding
  <2>2. c = d
    BY <1>4, <2>1
  <2> QED
    BY <1>4, <1>5, <2>1, <2>2
<1>13. Goes(p)
  BY <1>7, <1>8, <1>9, <1>10, <1>11, <1>12 DEF Goes, Mine
<1> QED
  BY <1>1, <1>2, <1>13, GoesOn

(* A status is written: an event that ends is on its writer's hands. *)
LEMMA WriteSerial == ASSUME SerialInv, NEW p \in Callers, WriteStatus(p) PROVE SerialNext
<1>t. TypeOK /\ job[p] \in Job
  BY DEF SerialInv, SettlementInv, TypeOK
<1>1. MayGo(p) /\ pc[p] \notin Settling /\ pc[p] = "write"
  BY DEF WriteStatus, MayGo, Settling, Listed, Working
<1> DEFINE x == job[p].event
           to == job[p].to
<1>2. UNCHANGED <<contestStatus, contestEvents, frozen, total, finishes>>
  BY DEF WriteStatus, stored
<1>x. x \in Events /\ to \in EventStatus /\ job[p].from \in EventStatus
  BY <1>t DEF Job
<1>3. CASE ~StillAt(job[p])
  BY <1>1, <1>2, <1>3, ReturnNext DEF WriteStatus
<1>4. CASE StillAt(job[p])
  <2>1. /\ eventStatus'[x] = to
        /\ \A e \in Events : e # x => eventStatus'[e] = eventStatus[e]
    BY <1>t, <1>x, <1>4 DEF WriteStatus, TypeOK
  <2>2. to = eventStatus[x] \/ IsDeclaredSportEventTransition(eventStatus[x], to)
    BY <1>1, <1>4 DEF SerialInv, SettlementInv, EveryCallerSound, Sound, StillAt
  <2>3. eventStatus[x] \in FinishedStatuses => to = eventStatus[x]
    BY <2>2 DEF IsDeclaredSportEventTransition, SPORT_EVENT_STATUS_TRANSITIONS, FinishedStatuses
  <2>g. \E l, j : Goto(p, l, j)
    BY <1>4 DEF WriteStatus, Return
  <2>m. Mine(p)
    BY <1>1, OnlyMine
  <2>0. \A c, e : ~WillFreeze(pc[p], job[p], c, e) /\ ~Settles(pc[p], job[p], c)
    BY <1>1, IdleOwesNothing
  <2>r. pc[p] \notin Resulting /\ pc[p] # "complete"
    BY <1>1 DEF Settling, Listed, Working, Resulting
  <2>4. CASE to \notin FinishedStatuses
    <3>1. pc'[p] \in Loose
      BY <1>t, <1>4, <2>4 DEF WriteStatus, SideEffect, Return, Goto, TypeOK, Loose
    <3>2. Trusts(pc[p], job[p])'
      BY <3>1, LooseTrusts
    <3>3. \A e \in Events : /\ Ended(e)' <=> Ended(e)
                            /\ eventStatus'[e] = "COMPLETED" <=> eventStatus[e] = "COMPLETED"
      BY <2>1, <2>3, <2>4 DEF Ended, FinishedStatuses
    <3>e. \A c \in Contests : contestEvents[c] \subseteq Events
      BY <1>t DEF TypeOK
    <3> HIDE DEF x, to
    <3>4. MyFreezes(p)'
      BY <1>2, <2>m, <2>0, <3>3, <3>e DEF Mine, MyFreezes
    <3>5. MyResult(p)'
      BY <1>2, <2>m, <2>r DEF Mine, MyResult
    <3>6. MyEnding(p)'
      BY <1>2, <2>m, <2>0, <3>3, <3>e DEF Mine, MyEnding
    <3>7. Goes(p)
      BY <1>2, <3>2, <3>4, <3>5, <3>6 DEF Goes, Mine, SerialInv, OneEventBrackets, FrozenCovered
    <3> QED
      BY <1>1, <2>g, <3>7, GoesOn
  <2>5. CASE to \in FinishedStatuses
    <3>1. SideEffect(job[p]) = "field"
      BY <2>5 DEF SideEffect, FinishedStatuses
    <3> DEFINE j == [job[p] EXCEPT !.clock = phase[x]]
    <3>2. pc'[p] = "field" /\ job'[p] = j
      BY <1>t, <1>4, <3>1 DEF WriteStatus, Goto, TypeOK
    <3>3. j.memo = Blank.memo /\ j.event = x
      BY <1>t, <1>1 DEF Job, SerialInv, EveryCallerUnread, Unread
    <3>4. \A e \in Events : Blank.memo[e] = "UNREAD"
      BY DEF Blank
    <3>e. \A c \in Contests : contestEvents[c] \subseteq Events
      BY <1>t DEF TypeOK
    <3> HIDE DEF j, x, to
    <3>5. Trusts(pc[p], job[p])'
      BY <3>2, <3>3, <3>4 DEF Trusts, Current, Building, Editing, Settling, Listed, Working,
                              Busy, Scoring, Freezing, Deciding, Resulting
    <3>6. MyFreezes(p)'
      BY <1>2, <2>1, <2>m, <2>0, <3>2, <3>3, <3>e DEF Mine, MyFreezes, WillFreeze
    <3>7. MyResult(p)'
      BY <1>2, <2>m, <2>r DEF Mine, MyResult
    <3>8. MyEnding(p)'
      <4> SUFFICES ASSUME NEW c \in Contests \ Unscorable, contestStatus[c] \in Settleable,
                          contestEvents[c] # {}, \A e \in contestEvents[c] : Ended(e)'
                   PROVE  x \in contestEvents[c]
        BY <1>2, <3>2, <3>3 DEF MyEnding, Settles
      <4>1. ~ \A e \in contestEvents[c] : Ended(e)
        BY <2>m, <2>0 DEF Mine, MyEnding
      <4> QED
        BY <2>1, <3>e, <4>1 DEF Ended
    <3>9. Goes(p)
      BY <1>2, <3>5, <3>6, <3>7, <3>8 DEF Goes, Mine, SerialInv, OneEventBrackets, FrozenCovered
    <3> QED
      BY <1>1, <2>g, <3>9, GoesOn
  <2> QED
    BY <2>4, <2>5
<1> QED
  BY <1>3, <1>4

-----------------------------------------------------------------------------
(* Settlement, step by step. *)

(* What the caller at work on a settlement may take for granted. *)
LEMMA AtWork ==
  ASSUME SerialInv, NEW p \in Callers, pc[p] \in Settling
  PROVE  /\ TypeOK /\ job[p] \in Job /\ MayGo(p) /\ Mine(p) /\ Trusts(pc[p], job[p])
         /\ job[p].event \in Events /\ eventStatus[job[p].event] = job[p].to
         /\ job[p].to \in FinishedStatuses /\ job[p].current \in Contests
         /\ \A c \in Contests : contestEvents[c] \subseteq Events
<1>1. TypeOK /\ job[p] \in Job
  BY DEF SerialInv, SettlementInv, TypeOK
<1>2. MayGo(p)
  BY DEF MayGo, Settling, Listed, Working
<1>3. Mine(p)
  BY <1>2, OnlyMine
<1> QED
  BY <1>1, <1>2, <1>3
  DEF SerialInv, SettlementInv, EveryCallerSound, Sound, EveryCallerTrusts, Job, TypeOK

LEMMA NotEditing ==
  ASSUME NEW p \in Callers, pc'[p] \in Settling
  PROVE  Editing(pc[p], job[p])'
BY DEF Editing, Settling, Listed, Working

(* A step from one place of a contest's settlement to another, or on to the
   next contest, leaves what was read as it was. *)
LEMMA OnCurrent ==
  ASSUME SerialInv, NEW p \in Callers, pc[p] \in Working, pc'[p] \in Working \cup {"next"},
         UNCHANGED <<eventStatus, contestStatus, contestEvents>>,
         job'[p].memo = job[p].memo, job'[p].lists = job[p].lists,
         job'[p].batch = job[p].batch, job'[p].event = job[p].event,
         job'[p].current = job[p].current, job'[p].known = job[p].known,
         job'[p].version = job[p].version, job'[p].games = job[p].games,
         \A c \in Contests, e \in Events : frozen[c][e] # 0 => frozen'[c][e] # 0,
         pc'[p] \in Busy => pc[p] \in Busy, pc'[p] \in Scoring => pc[p] \in Scoring,
         pc'[p] \in Freezing => pc[p] \in Freezing
  PROVE  Current(pc[p], job[p])'
<1>1. pc[p] \in Settling /\ pc[p] \in Listed \ {"known"}
  BY DEF Settling, Listed, Working
<1>2. /\ job[p] \in Job /\ job[p].event \in Events /\ Current(pc[p], job[p])
  BY <1>1, AtWork DEF Trusts
<1>3. job[p].known \subseteq Contests
  BY <1>2 DEF Job
<1>4. \A c \in job'[p].known : frozen'[c][job'[p].event] # 0
  BY <1>1, <1>2, <1>3 DEF Current
<1>5. Graded(job[p])' = Graded(job[p])
  BY DEF Graded
<1>6. pc'[p] \in Working => pc[p] \in Working
  OBVIOUS
<1> QED
  BY <1>1, <1>2, <1>4, <1>5, <1>6 DEF Current, Listed

LEMMA ReadsSerial ==
  ASSUME SerialInv, NEW p \in Callers, ReadField(p) \/ ReadContests(p) \/ ReadSettledFor(p)
  PROVE  SerialNext
<1>0. pc[p] \in {"field", "contests", "known"}
  BY DEF ReadField, ReadContests, ReadSettledFor
<1>s. pc[p] \in Settling /\ pc[p] \notin Resulting /\ pc[p] # "complete"
  BY <1>0 DEF Settling, Listed, Resulting
<1>t. /\ TypeOK /\ job[p] \in Job /\ MayGo(p) /\ Mine(p) /\ Trusts(pc[p], job[p])
      /\ job[p].event \in Events
      /\ \A c \in Contests : contestEvents[c] \subseteq Events
  BY <1>s, AtWork
<1>u. UNCHANGED <<eventStatus, contestStatus, contestEvents, frozen, total, finishes>>
  BY DEF ReadField, ReadContests, ReadSettledFor, stored
<1>r. MyResult(p)'
  BY <1>s, <1>t, <1>u DEF Mine, MyResult
<1>g. \E l, j : Goto(p, l, j)
  BY DEF ReadField, ReadContests, ReadSettledFor
<1>q. ASSUME Trusts(pc[p], job[p])', MyFreezes(p)', MyEnding(p)' PROVE SerialNext
  <2>1. Goes(p)
    BY <1>q, <1>r, <1>u DEF Goes, Mine, SerialInv, OneEventBrackets, FrozenCovered
  <2> QED
    BY <1>t, <1>g, <2>1, GoesOn
<1>1. CASE ReadField(p)
  <2> DEFINE e == job[p].event
             j == [job[p] EXCEPT !.version = score[e], !.memo[e] = eventStatus[e]]
  <2>1. pc[p] = "field" /\ pc'[p] = "contests" /\ job'[p] = j
    BY <1>t, <1>1, GotoLands DEF ReadField
  <2>2. /\ j.memo = [job[p].memo EXCEPT ![e] = eventStatus[e]]
        /\ j.event = e /\ j.version = score[e]
    BY <1>t DEF Job
  <2>3. job[p].memo \in [Events -> EventStatus \cup {"UNREAD"}] /\ score[e] # 0
    BY <1>t, BoundsAssumption DEF Job, TypeOK
  <2>4. \A x \in Events : j.memo[x] \in {"UNREAD", eventStatus[x]}
    BY <1>s, <1>t, <2>2, <2>3 DEF Trusts, Current
  <2> HIDE DEF j, e
  <2>5. Trusts(pc[p], job[p])'
    BY <1>u, <2>1, <2>2, <2>3, <2>4
    DEF Trusts, Current, Building, Editing, Listed, Working, Busy, Scoring, Freezing,
        Deciding, Resulting
  <2>6. MyFreezes(p)'
    BY <1>t, <1>u, <2>1, <2>2 DEF Mine, MyFreezes, WillFreeze, Listed, Working, Freezing, e
  <2>7. MyEnding(p)'
    BY <1>t, <1>u, <2>1, <2>2 DEF Mine, MyEnding, Settles, Ended, Listed, Working, e
  <2> QED
    BY <1>q, <2>5, <2>6, <2>7
<1>2. CASE ReadContests(p)
  <2> DEFINE j == [job[p] EXCEPT !.batch = Unsettled(job[p].event), !.lists = contestEvents]
  <2>1. pc[p] = "contests" /\ pc'[p] = "known" /\ job'[p] = j
    BY <1>t, <1>2, GotoLands DEF ReadContests
  <2>2. /\ j.batch = Unsettled(job[p].event) /\ j.lists = contestEvents
        /\ j.memo = job[p].memo /\ j.event = job[p].event /\ j.version = job[p].version
    BY <1>t DEF Job
  <2>3. \A c \in Contests : c \in j.batch <=> /\ contestStatus[c] \in Settleable
                                              /\ j.event \in contestEvents[c]
    BY <1>t, <2>2 DEF Unsettled, Settleable, TypeOK
  <2>4. j.batch \subseteq Contests
    BY <2>2 DEF Unsettled
  <2> HIDE DEF j
  <2>5. Trusts(pc[p], job[p])'
    BY <1>s, <1>t, <1>u, <2>1, <2>2, <2>3, <2>4
    DEF Trusts, Current, Building, Editing, Listed, Working, Busy, Scoring, Freezing,
        Deciding, Resulting
  <2>6. MyFreezes(p)'
    BY <1>t, <1>u, <2>1, <2>2, <2>3
    DEF Mine, MyFreezes, WillFreeze, Listed, Working, Freezing
  <2>7. MyEnding(p)'
    BY <1>t, <1>u, <2>1, <2>2, <2>3 DEF Mine, MyEnding, Settles, Ended, Listed, Working
  <2> QED
    BY <1>q, <2>5, <2>6, <2>7
<1>3. CASE ReadSettledFor(p)
  <2> DEFINE j == [job[p] EXCEPT !.known =
                     {c \in job[p].batch : frozen[c][job[p].event] # 0}]
  <2>1. pc[p] = "known" /\ pc'[p] = "next" /\ job'[p] = j
    BY <1>t, <1>3, GotoLands DEF ReadSettledFor
  <2>2. /\ j.known = {c \in job[p].batch : frozen[c][job[p].event] # 0}
        /\ j.batch = job[p].batch /\ j.lists = job[p].lists
        /\ j.memo = job[p].memo /\ j.event = job[p].event /\ j.version = job[p].version
    BY <1>t DEF Job
  <2> HIDE DEF j
  <2>5. Trusts(pc[p], job[p])'
    BY <1>s, <1>t, <1>u, <2>1, <2>2
    DEF Trusts, Current, Building, Editing, Listed, Working, Busy, Scoring, Freezing,
        Deciding, Resulting, Settling
  <2>6. MyFreezes(p)'
    BY <1>t, <1>u, <2>1, <2>2
    DEF Mine, MyFreezes, WillFreeze, Listed, Working, Freezing
  <2>7. MyEnding(p)'
    BY <1>t, <1>u, <2>1, <2>2 DEF Mine, MyEnding, Settles, Ended, Listed, Working
  <2> QED
    BY <1>q, <2>5, <2>6, <2>7
<1> QED
  BY <1>1, <1>2, <1>3

(* The next contest: one that is passed over has no scoring rules, one whose
   standings are not frozen was frozen before or its event was called off. *)
LEMMA NextContestSerial ==
  ASSUME SerialInv, NEW p \in Callers, NextContest(p)
  PROVE  SerialNext
<1>0. pc[p] = "next"
  BY DEF NextContest
<1>s. pc[p] \in Settling /\ pc[p] \notin Resulting /\ pc[p] # "complete"
      /\ pc[p] \in Listed \ {"known"}
  BY <1>0 DEF Settling, Listed, Working, Resulting
<1>t. /\ TypeOK /\ job[p] \in Job /\ MayGo(p) /\ Mine(p) /\ Trusts(pc[p], job[p])
      /\ job[p].event \in Events /\ eventStatus[job[p].event] = job[p].to
      /\ job[p].to \in FinishedStatuses
      /\ \A c \in Contests : contestEvents[c] \subseteq Events
  BY <1>s, AtWork
<1>u. UNCHANGED <<eventStatus, contestStatus, contestEvents, frozen, total, finishes>>
  BY DEF NextContest, stored
<1>r. MyResult(p)'
  BY <1>s, <1>t, <1>u DEF Mine, MyResult
<1>q. ASSUME Trusts(pc[p], job[p])', MyFreezes(p)', MyEnding(p)', NEW l, NEW j, Goto(p, l, j)
      PROVE SerialNext
  <2>1. Goes(p)
    BY <1>q, <1>r, <1>u DEF Goes, Mine, SerialInv, OneEventBrackets, FrozenCovered
  <2> QED
    BY <1>t, <1>q, <2>1, GoesOn
<1>c. Current("next", job[p])
  BY <1>0, <1>t DEF Trusts
<1>1. CASE job[p].batch = {}
  <2>1. Return(p)
    BY <1>1 DEF NextContest
  <2>2. Trusts(pc[p], job[p])' /\ \E l, j : Goto(p, l, j)
    BY <1>t, <2>1, ReturnLands, LooseTrusts
  <2>3. \A c, e : ~WillFreeze(pc[p], job[p], c, e) /\ ~Settles(pc[p], job[p], c)
    BY <1>0, <1>1 DEF WillFreeze, Settles, Working, Freezing
  <2>4. MyFreezes(p)'
    BY <1>t, <1>u, <2>3 DEF Mine, MyFreezes
  <2>5. MyEnding(p)'
    BY <1>t, <1>u, <2>3 DEF Mine, MyEnding, Ended
  <2> QED
    BY <1>q, <2>2, <2>4, <2>5
<1>2. CASE job[p].batch # {}
  <2> DEFINE J(c) == [job[p] EXCEPT !.batch = @ \ {c}, !.current = c]
             G(c) == [J(c) EXCEPT !.result = Nothing, !.plan = "create",
                        !.games = IF FirstStep(J(c), c) = "freezeRead" /\ c \in Brackets /\ @ = 0
                                  THEN score[J(c).event] ELSE @]
  <2>1. PICK c \in job[p].batch :
               IF FirstStep(J(c), c) = "" THEN Goto(p, "next", J(c))
               ELSE Goto(p, FirstStep(J(c), c), G(c))
    BY <1>2 DEF NextContest
  <2>c. c \in Contests
    BY <1>t, <2>1 DEF Job
  <2>2. /\ J(c).batch = job[p].batch \ {c} /\ J(c).current = c
        /\ J(c).lists = job[p].lists /\ J(c).memo = job[p].memo
        /\ J(c).event = job[p].event /\ J(c).to = job[p].to
        /\ J(c).known = job[p].known /\ J(c).version = job[p].version
        /\ J(c).games = job[p].games
    BY <1>t DEF Job
  <2>3. /\ G(c).batch = J(c).batch /\ G(c).current = c /\ G(c).lists = J(c).lists
        /\ G(c).memo = J(c).memo /\ G(c).event = J(c).event
        /\ G(c).known = J(c).known /\ G(c).version = J(c).version
        /\ G(c).games = IF FirstStep(J(c), c) = "freezeRead" /\ c \in Brackets /\ job[p].games = 0
                        THEN score[job[p].event] ELSE job[p].games
    BY <1>t, <2>2 DEF Job
  <2>4. /\ contestStatus[c] \in Settleable /\ job[p].event \in contestEvents[c]
        /\ job[p].lists = contestEvents /\ job[p].version # 0
        /\ \A d \in job[p].known : frozen[d][job[p].event] # 0
    BY <1>c, <1>s, <1>0, <2>1 DEF Current
  <2>5. CASE FirstStep(J(c), c) = ""
    <3>1. pc'[p] = "next" /\ job'[p] = J(c) /\ Goto(p, "next", J(c))
      BY <1>t, <2>1, <2>5, GotoLands
    <3>2. c \in Unscorable
      BY <2>5 DEF FirstStep
    <3> HIDE DEF J
    <3>3. Trusts(pc[p], job[p])'
      BY <1>c, <1>s, <1>0, <1>u, <2>2, <3>1
      DEF Trusts, Current, Building, Editing, Listed, Working, Busy, Scoring, Freezing,
          Deciding, Resulting
    <3>4. MyFreezes(p)'
      BY <1>0, <1>t, <1>u, <2>2, <3>1, <3>2
      DEF Mine, MyFreezes, WillFreeze, Working, Freezing
    <3>5. MyEnding(p)'
      BY <1>0, <1>t, <1>u, <2>2, <3>1, <3>2 DEF Mine, MyEnding, Settles, Ended, Working
    <3> QED
      BY <1>q, <3>1, <3>3, <3>4, <3>5
  <2>6. CASE FirstStep(J(c), c) # ""
    <3> DEFINE l == FirstStep(J(c), c)
    <3>1. pc'[p] = l /\ job'[p] = G(c) /\ Goto(p, l, G(c))
      BY <1>t, <2>1, <2>6, GotoLands
    <3>2. \/ l = "freezeRead" /\ c \notin Unscorable
          \/ /\ l = "check" /\ c \notin Unscorable
             /\ job[p].to = "CANCELLED" \/ c \in job[p].known
          \/ l = "final" /\ c \in Brackets /\ job[p].to = "CANCELLED"
      BY <2>2, <2>6 DEF FirstStep, Freezes
    <3>g. l = "freezeRead" => Graded(G(c)) # 0
      BY <1>t, <2>2, <2>3, <2>4, BoundsAssumption DEF Graded, TypeOK
    <3> HIDE DEF J, G, l
    <3>3. Current(pc[p], job[p])'
      <4>1. /\ job'[p].batch = job[p].batch \ {c} /\ job'[p].current = c
            /\ job'[p].lists = job[p].lists /\ job'[p].memo = job[p].memo
            /\ job'[p].event = job[p].event /\ job'[p].known = job[p].known
            /\ job'[p].version = job[p].version
        BY <2>2, <2>3, <3>1
      <4>2. Graded(job[p])' = Graded(G(c))
        BY <3>1 DEF Graded
      <4>3. pc'[p] \in {"freezeRead", "check", "final"} /\ (pc'[p] \in Scoring => c \notin Unscorable)
        BY <3>1, <3>2 DEF Scoring
      <4>4. pc'[p] \in Freezing => pc'[p] = "freezeRead"
        BY <4>3 DEF Freezing
      <4> QED
        BY <1>c, <1>s, <1>0, <1>u, <2>4, <3>1, <3>g, <4>1, <4>2, <4>3, <4>4 DEF Current
    <3>4. Building(pc[p], job[p])'
      <4>1. CASE pc'[p] \in {"freezeRead", "check"}
        BY <4>1 DEF Building, Deciding, Resulting
      <4>2. CASE pc'[p] = "final"
        <5>1. c \in Brackets /\ job[p].to = "CANCELLED"
          BY <3>1, <3>2, <4>2
        <5>2. \A e \in contestEvents[c] : e = job[p].event
          BY <2>4, <5>1 DEF SerialInv, OneEventBrackets
        <5>3. total[c] = Nothing
          BY <1>s, <1>t, <2>c, <2>4 DEF Mine, MyResult, Settleable, NotSettled
        <5>4. \A e \in Events : total'[c][e] = 0
          BY <1>u, <5>3 DEF Nothing
        <5>5. Counts(total[c], c)'
          BY <1>t, <1>u, <5>1, <5>2, <5>4 DEF Counts
        <5>6. \A e \in contestEvents'[c] : Ended(e)'
          BY <1>t, <1>u, <5>1, <5>2 DEF Ended
        <5> QED
          BY <2>3, <3>1, <4>2, <5>5, <5>6 DEF Building
      <4> QED
        BY <3>1, <3>2, <4>1, <4>2
    <3>5. pc'[p] \in Settling
      BY <3>1, <3>2 DEF Settling, Listed, Working
    <3>6. Trusts(pc[p], job[p])'
      BY <3>3, <3>4, <3>5, NotEditing DEF Trusts
    <3>7. MyFreezes(p)'
      <4> SUFFICES ASSUME NEW d \in Contests \ Unscorable, contestStatus[d] \in Settleable,
                          NEW e \in contestEvents[d], eventStatus[e] = "COMPLETED",
                          frozen[d][e] = 0
                   PROVE  WillFreeze(pc'[p], job'[p], d, e)
        BY <1>u DEF MyFreezes
      <4>1. d \in job[p].batch /\ e = job[p].event
        BY <1>0, <1>t DEF Mine, MyFreezes, WillFreeze, Freezing
      <4>2. CASE d # c
        BY <2>2, <2>3, <3>1, <3>2, <4>1, <4>2 DEF WillFreeze, Listed, Working
      <4>3. CASE d = c
        <5>1. job[p].to # "CANCELLED" /\ c \notin job[p].known
          BY <1>t, <2>4, <4>1, <4>3
        <5> QED
          BY <2>2, <2>3, <3>1, <3>2, <4>1, <4>3, <5>1 DEF WillFreeze, Freezing
      <4> QED
        BY <4>2, <4>3
    <3>8. MyEnding(p)'
      BY <1>0, <1>t, <1>u, <2>2, <2>3, <3>1, <3>2
      DEF Mine, MyEnding, Settles, Ended, Listed, Working
    <3> QED
      BY <1>q, <3>1, <3>6, <3>7, <3>8
  <2> QED
    BY <2>5, <2>6
<1> QED
  BY <1>1, <1>2

(* A contest's standings for its event are frozen: the row is of the event's
   results, whatever was there. *)
LEMMA FreezeSerial ==
  ASSUME SerialInv, NEW p \in Callers, ReadFrozen(p) \/ WriteFrozen(p)
  PROVE  SerialNext
<1>0. pc[p] \in Freezing
  BY DEF ReadFrozen, WriteFrozen, Freezing
<1>s. /\ pc[p] \in Settling /\ pc[p] \notin Resulting /\ pc[p] # "complete"
      /\ pc[p] \in Working /\ pc[p] \in Busy /\ pc[p] \in Scoring /\ pc[p] \in Listed \ {"known"}
  BY <1>0 DEF Settling, Listed, Working, Resulting, Freezing, Busy, Scoring
<1> DEFINE c == job[p].current
           e == job[p].event
<1>t. /\ TypeOK /\ job[p] \in Job /\ MayGo(p) /\ Mine(p) /\ Trusts(pc[p], job[p])
      /\ e \in Events /\ eventStatus[e] = job[p].to /\ c \in Contests
      /\ \A d \in Contests : contestEvents[d] \subseteq Events
  BY <1>s, AtWork
<1>p. eventStatus[e] = "COMPLETED"
  BY <1>0, <1>t DEF SerialInv, SettlementInv, EveryCallerSound, Sound
<1>u. UNCHANGED <<eventStatus, contestStatus, contestEvents, total, finishes>>
  BY DEF ReadFrozen, WriteFrozen, stored
<1>c. /\ e \in contestEvents[c] /\ contestStatus[c] \in Settleable /\ c \notin Unscorable
      /\ Graded(job[p]) # 0
  BY <1>0, <1>s, <1>t DEF Trusts, Current
<1>r. MyResult(p)'
  BY <1>s, <1>t, <1>u DEF Mine, MyResult
<1>1. CASE ReadFrozen(p)
  <2>1. PICK plan \in Plans(frozen[c][e], Graded(job[p]), 0) :
          Goto(p, "freeze", [job[p] EXCEPT !.plan = plan])
    BY <1>1 DEF ReadFrozen
  <2> DEFINE j == [job[p] EXCEPT !.plan = plan]
  <2>2. /\ j.memo = job[p].memo /\ j.lists = job[p].lists /\ j.batch = job[p].batch
        /\ j.event = job[p].event /\ j.current = job[p].current /\ j.known = job[p].known
        /\ j.version = job[p].version /\ j.games = job[p].games /\ j.plan = plan
    BY <1>t, <2>1 DEF Job, Plans
  <2>3. UNCHANGED frozen
    BY <1>1 DEF ReadFrozen, stored
  <2> HIDE DEF j
  <2>4. pc'[p] = "freeze" /\ job'[p] = j /\ Goto(p, "freeze", j)
    BY <1>t, <2>1, GotoLands DEF j
  <2>5. Current(pc[p], job[p])'
    BY <1>0, <1>s, <1>u, <2>2, <2>3, <2>4, OnCurrent
    DEF Working, Busy, Scoring, Freezing
  <2>6. Graded(job[p])' = Graded(job[p])
    BY <2>2, <2>4 DEF Graded
  <2>7. Building(pc[p], job[p])'
    BY <2>1, <2>2, <2>3, <2>4, <2>6 DEF Building, Deciding, Resulting
  <2>8. Trusts(pc[p], job[p])'
    BY <2>4, <2>5, <2>7, NotEditing DEF Trusts, Settling, Listed, Working
  <2>9. MyFreezes(p)'
    BY <1>0, <1>t, <1>u, <2>2, <2>3, <2>4
    DEF Mine, MyFreezes, WillFreeze, Listed, Working, Freezing
  <2>10. MyEnding(p)'
    BY <1>s, <1>t, <1>u, <2>2, <2>4 DEF Mine, MyEnding, Settles, Ended, Listed, Working
  <2>11. Goes(p)
    BY <1>u, <1>r, <2>3, <2>8, <2>9, <2>10
    DEF Goes, Mine, SerialInv, OneEventBrackets, FrozenCovered
  <2> QED
    BY <1>t, <2>4, <2>11, GoesOn
<1>2. CASE WriteFrozen(p)
  <2>0. pc[p] = "freeze"
    BY <1>2 DEF WriteFrozen
  <2>1. job[p].plan \in Plans(frozen[c][e], Graded(job[p]), 0)
    BY <1>t, <2>0 DEF Trusts, Building
  <2> DEFINE row == Upsert(frozen[c][e], Graded(job[p]), 0, job[p].plan)
  <2>2. row # 0
    BY <1>c, <2>1 DEF Upsert, Plans
  <2>3. /\ frozen'[c][e] = row
        /\ \A d \in Contests, x \in Events :
             d # c \/ x # e => frozen'[d][x] = frozen[d][x]
    BY <1>t, <1>2 DEF WriteFrozen, TypeOK, Result
  <2>f. \A d \in Contests, x \in Events : frozen[d][x] # 0 => frozen'[d][x] # 0
    BY <2>2, <2>3
  <2>g. FrozenCovered'
    BY <1>t, <1>c, <1>u, <2>3 DEF FrozenCovered, SerialInv
  <2> DEFINE l == IF c \in Brackets THEN "totalRead" ELSE "check"
             j == IF c \in Brackets
                  THEN [job[p] EXCEPT !.result = [Nothing EXCEPT ![e] = Graded(job[p])]]
                  ELSE job[p]
  <2>4. Goto(p, l, j)
    BY <1>2 DEF WriteFrozen
  <2>5. /\ j.memo = job[p].memo /\ j.lists = job[p].lists /\ j.batch = job[p].batch
        /\ j.event = job[p].event /\ j.current = job[p].current /\ j.known = job[p].known
        /\ j.version = job[p].version /\ j.games = job[p].games
        /\ c \in Brackets => j.result = [Nothing EXCEPT ![e] = Graded(job[p])]
    BY <1>t DEF Job
  <2>6. l \in {"check", "totalRead"} /\ (l = "totalRead" => c \in Brackets)
    OBVIOUS
  <2>7. pc'[p] = l /\ job'[p] = j
    BY <1>t, <2>4, GotoLands
  <2> HIDE DEF row, j, l
  <2>8. Current(pc[p], job[p])'
    <3>1. /\ pc'[p] \in Working \cup {"next"} /\ pc'[p] \notin Freezing
          /\ (pc'[p] \in Scoring => pc[p] \in Scoring)
      BY <1>s, <2>6, <2>7 DEF Working, Freezing
    <3> QED
      BY <1>s, <1>u, <2>5, <2>7, <2>f, <3>1, OnCurrent
  <2>9. Building(pc[p], job[p])'
    <3>1. CASE l = "check"
      BY <2>7, <3>1 DEF Building, Deciding, Resulting
    <3>2. CASE l = "totalRead"
      <4>1. \A x \in contestEvents[c] : x = e
        BY <1>t, <1>c, <2>6, <3>2 DEF SerialInv, OneEventBrackets
      <4>2. \A x \in Events : j.result[x] # 0 <=> x = e
        BY <1>t, <1>c, <2>5, <2>6, <3>2 DEF Nothing
      <4>3. \A x \in Events : j.result[x] # 0 <=> /\ x \in contestEvents'[c]
                                                  /\ eventStatus'[x] = "COMPLETED"
        BY <1>t, <1>p, <1>c, <1>u, <4>1, <4>2
      <4>4. Counts(job[p].result, job[p].current)'
        BY <2>5, <2>7, <4>3 DEF Counts
      <4>5. \A x \in contestEvents'[c] : Ended(x)'
        BY <1>p, <1>u, <4>1 DEF Ended, FinishedStatuses
      <4> QED
        BY <2>5, <2>7, <3>2, <4>4, <4>5 DEF Building, Resulting
    <3> QED
      BY <2>6, <3>1, <3>2
  <2>10. Trusts(pc[p], job[p])'
    BY <2>6, <2>7, <2>8, <2>9, NotEditing DEF Trusts, Settling, Listed, Working
  <2>11. MyFreezes(p)'
    <3> SUFFICES ASSUME NEW d \in Contests \ Unscorable, contestStatus[d] \in Settleable,
                        NEW x \in contestEvents[d], eventStatus[x] = "COMPLETED",
                        frozen'[d][x] = 0
                 PROVE  WillFreeze(pc'[p], job'[p], d, x)
      BY <1>u DEF MyFreezes
    <3>1. WillFreeze(pc[p], job[p], d, x)
      BY <1>t, <2>f DEF Mine, MyFreezes
    <3>2. x = e /\ d \in job[p].batch
      BY <2>0, <2>2, <2>3, <3>1 DEF WillFreeze
    <3> QED
      BY <2>5, <2>6, <2>7, <3>2 DEF WillFreeze, Listed, Working
  <2>12. MyEnding(p)'
    BY <1>s, <1>t, <1>u, <2>5, <2>6, <2>7 DEF Mine, MyEnding, Settles, Ended, Listed, Working
  <2>13. Goes(p)
    BY <1>u, <1>r, <2>g, <2>10, <2>11, <2>12 DEF Goes, Mine, SerialInv, OneEventBrackets
  <2> QED
    BY <1>t, <2>4, <2>13, GoesOn
<1> QED
  BY <1>1, <1>2

(* The check decides on the statuses the events have. *)
LEMMA CheckSerial == ASSUME SerialInv, NEW p \in Callers, Check(p) PROVE SerialNext
<1>0. pc[p] = "check"
  BY DEF Check
<1>s. pc[p] \in Settling /\ pc[p] \in Listed \ {"known"}
  BY <1>0 DEF Settling, Listed, Working
<1> DEFINE c == job[p].current
           j == [job[p] EXCEPT !.memo = Recall(job[p])]
           l == IF AllEventsFinished(j) THEN "sum" ELSE "next"
<1>t. /\ TypeOK /\ job[p] \in Job /\ MayGo(p) /\ Mine(p) /\ Trusts(pc[p], job[p])
      /\ c \in Contests /\ \A d \in Contests : contestEvents[d] \subseteq Events
  BY <1>s, AtWork
<1>u. UNCHANGED <<eventStatus, contestStatus, contestEvents, frozen, total, finishes>>
  BY DEF Check, stored
<1>1. Goto(p, l, j)
  BY DEF Check
<1>2. /\ j.memo = Recall(job[p]) /\ j.lists = job[p].lists /\ j.batch = job[p].batch
      /\ j.event = job[p].event /\ j.current = c /\ j.known = job[p].known
      /\ j.version = job[p].version
  BY <1>t DEF Job
<1>3. Current("check", job[p])
  BY <1>0, <1>t DEF Trusts
<1>4. job[p].lists = contestEvents
  BY <1>0, <1>s, <1>3 DEF Current
<1>5. \A e \in Events : /\ j.memo[e] \in {"UNREAD", eventStatus[e]}
                        /\ e \in contestEvents[c] => j.memo[e] = eventStatus[e]
  BY <1>0, <1>s, <1>2, <1>3, <1>4 DEF Current, Recall
<1>6. AllEventsFinished(j) <=> \A e \in contestEvents[c] : Ended(e)
  BY <1>t, <1>2, <1>4, <1>5 DEF AllEventsFinished, Ended
<1>7. l \in {"sum", "next"} /\ (l = "sum" <=> \A e \in contestEvents[c] : Ended(e))
  BY <1>6
<1>8. pc'[p] = l /\ job'[p] = j
  BY <1>t, <1>1, GotoLands
<1> HIDE DEF j, l, c
<1>9. /\ pc'[p] \in Listed \ {"known"} /\ pc'[p] \in Settling
      /\ pc'[p] \notin Freezing \cup Resulting \cup {"totalRead", "total", "freeze"}
      /\ pc[p] \in Working /\ pc[p] \in Busy /\ pc[p] \in Scoring
  BY <1>0, <1>7, <1>8 DEF Settling, Listed, Working, Freezing, Resulting, Busy, Scoring
<1>10. Current(pc[p], job[p])'
  <2>1. /\ job'[p].lists = contestEvents' /\ job'[p].version # 0
        /\ \A d \in job'[p].batch : /\ contestStatus'[d] \in Settleable
                                    /\ job'[p].event \in contestEvents'[d]
        /\ \A d \in job'[p].known : frozen'[d][job'[p].event] # 0
    BY <1>0, <1>s, <1>2, <1>3, <1>8, <1>u DEF Current
  <2>2. /\ job'[p].event \in contestEvents'[job'[p].current]
        /\ job'[p].current \notin job'[p].batch
        /\ contestStatus'[job'[p].current] \in Settleable
        /\ job'[p].current \notin Unscorable
    BY <1>0, <1>2, <1>3, <1>8, <1>9, <1>u DEF Current, c
  <2>3. \A e \in Events : job'[p].memo[e] \in {"UNREAD", eventStatus'[e]}
    BY <1>5, <1>8, <1>u
  <2> QED
    BY <1>9, <2>1, <2>2, <2>3 DEF Current
<1>11. Building(pc[p], job[p])'
  BY <1>2, <1>7, <1>8, <1>9, <1>u DEF Building, Deciding, Resulting, Ended
<1>12. Trusts(pc[p], job[p])'
  BY <1>9, <1>10, <1>11, NotEditing DEF Trusts
<1>13. MyFreezes(p)'
  BY <1>0, <1>2, <1>8, <1>9, <1>t, <1>u DEF Mine, MyFreezes, WillFreeze, Freezing
<1>14. MyResult(p)'
  BY <1>0, <1>t, <1>u DEF Mine, MyResult, Resulting
<1>15. MyEnding(p)'
  <2> SUFFICES ASSUME NEW d \in Contests \ Unscorable, contestStatus[d] \in Settleable,
                      contestEvents[d] # {}, \A e \in contestEvents[d] : Ended(e)
               PROVE  Settles(pc[p], job[p], d)'
    BY <1>u DEF MyEnding, Ended
  <2>1. Settles(pc[p], job[p], d)
    BY <1>t DEF Mine, MyEnding
  <2>2. d \in job[p].batch \/ d = c
    BY <1>0, <2>1 DEF Settles, c
  <2>3. d = c => pc'[p] \in Working
    BY <1>7, <1>8 DEF Working
  <2> QED
    BY <1>2, <1>8, <1>9, <1>u, <2>1, <2>2, <2>3 DEF Settles
<1>16. Goes(p)
  BY <1>u, <1>12, <1>13, <1>14, <1>15
  DEF Goes, Mine, SerialInv, OneEventBrackets, FrozenCovered
<1> QED
  BY <1>t, <1>1, <1>16, GoesOn

(* A contest's result is summed, totalled, ranked, and the contest completed:
   nothing of it was written before. *)
LEMMA ResultSerial ==
  ASSUME SerialInv, NEW p \in Callers,
         \/ SumTotals(p) \/ ReadTotal(p) \/ WriteTotal(p) \/ ReadFinal(p) \/ RecordFinishes(p)
  PROVE  SerialNext
<1>0. pc[p] \in Deciding \ {"complete", "tell"}
  BY DEF SumTotals, ReadTotal, WriteTotal, ReadFinal, RecordFinishes, Deciding
<1>s. /\ pc[p] \in Settling /\ pc[p] \in Working /\ pc[p] \in Busy
      /\ pc[p] \notin Freezing \cup {"field", "contests"} /\ pc[p] \in Listed \ {"known"}
      /\ pc[p] \in Deciding \ {"tell"} /\ pc[p] # "complete"
  BY <1>0 DEF Settling, Listed, Working, Busy, Freezing, Deciding
<1> DEFINE c == job[p].current
<1>t. /\ TypeOK /\ job[p] \in Job /\ MayGo(p) /\ Mine(p) /\ Trusts(pc[p], job[p])
      /\ c \in Contests /\ \A d \in Contests : contestEvents[d] \subseteq Events
  BY <1>s, AtWork
<1>u. UNCHANGED <<eventStatus, contestStatus, contestEvents, frozen>>
  BY DEF SumTotals, ReadTotal, WriteTotal, ReadFinal, RecordFinishes, stored
<1>c. contestStatus[c] # "COMPLETED" /\ contestStatus[c] \in Settleable
  BY <1>s, <1>t DEF Trusts, Current, Settleable, NotSettled
<1>e. \A e \in contestEvents[c] : Ended(e)
  BY <1>s, <1>t DEF Trusts, Building
<1>y. total[c] \in Result /\ finishes[c] \in Result /\ frozen[c] \in Result
  BY <1>t DEF TypeOK
<1>f. finishes[c] = Nothing
  BY <1>s, <1>c, <1>t DEF Mine, MyResult
(* Every step stays within the contest and goes on to its result. *)
<1>q. ASSUME NEW l \in Deciding \ {"sum", "tell"}, NEW j, Goto(p, l, j),
             j.memo = job[p].memo, j.lists = job[p].lists, j.batch = job[p].batch,
             j.event = job[p].event, j.current = c, j.known = job[p].known,
             j.version = job[p].version, j.games = job[p].games,
             l \in Scoring => pc[p] \in Scoring,
             Building(pc[p], job[p])',
             \A d \in Contests : d # c => total'[d] = total[d] /\ finishes'[d] = finishes[d],
             total'[c] # Nothing => l \in Resulting,
             finishes'[c] # Nothing => l = "complete"
      PROVE  SerialNext
  <2>1. pc'[p] = l /\ job'[p] = j
    BY <1>t, <1>q, GotoLands
  <2>2. l \in Working /\ l \in Settling /\ l \in Listed /\ l \notin Freezing
    BY DEF Deciding, Working, Settling, Listed, Freezing
  <2>3. \A d \in Contests, e \in Events : frozen[d][e] # 0 => frozen'[d][e] # 0
    BY <1>u
  <2>4. Current(pc[p], job[p])'
    BY <1>q, <1>s, <1>u, <2>1, <2>2, <2>3, OnCurrent
  <2>5. Trusts(pc[p], job[p])'
    BY <1>q, <2>1, <2>2, <2>4, NotEditing DEF Trusts
  <2>6. MyFreezes(p)'
    BY <1>q, <1>s, <1>t, <1>u, <2>1, <2>2 DEF Mine, MyFreezes, WillFreeze
  <2>7. MyResult(p)'
    <3>1. \A d \in Contests : d # c /\ contestStatus[d] # "COMPLETED" =>
            total[d] = Nothing /\ finishes[d] = Nothing
      BY <1>t DEF Mine, MyResult
    <3> HIDE DEF c
    <3> QED
      BY <1>q, <1>u, <2>1, <3>1 DEF MyResult
  <2>8. MyEnding(p)'
    BY <1>q, <1>s, <1>t, <1>u, <2>1, <2>2 DEF Mine, MyEnding, Settles, Ended
  <2>9. Goes(p)
    BY <1>u, <2>5, <2>6, <2>7, <2>8 DEF Goes, Mine, SerialInv, OneEventBrackets, FrozenCovered
  <2> QED
    BY <1>q, <1>t, <2>9, GoesOn
<1> DEFINE Same(j) == /\ j.memo = job[p].memo /\ j.lists = job[p].lists
                      /\ j.batch = job[p].batch /\ j.event = job[p].event
                      /\ j.current = c /\ j.known = job[p].known
                      /\ j.version = job[p].version /\ j.games = job[p].games
<1>1. CASE SumTotals(p)
  <2> DEFINE sum == frozen[c]
             l == IF sum = Nothing THEN "final" ELSE "totalRead"
             j == [job[p] EXCEPT !.result = sum]
  <2>1. pc[p] = "sum" /\ Goto(p, l, j) /\ UNCHANGED <<total, finishes>>
    BY <1>1 DEF SumTotals, stored
  <2>2. Same(j) /\ j.result = sum
    BY <1>t DEF Job
  <2>3. total[c] = Nothing
    BY <1>c, <1>t, <2>1 DEF Mine, MyResult, Resulting
  <2>4. Counts(sum, c)
    <3>1. c \notin Unscorable /\ c \notin job[p].batch
      BY <1>s, <1>t, <2>1 DEF Trusts, Current, Scoring
    <3>2. \A e \in contestEvents[c] : eventStatus[e] = "COMPLETED" => sum[e] # 0
      BY <1>c, <1>t, <2>1, <3>1 DEF Mine, MyFreezes, WillFreeze, Freezing
    <3>3. \A e \in Events : sum[e] # 0 => e \in contestEvents[c] /\ eventStatus[e] = "COMPLETED"
      BY <1>t DEF SerialInv, FrozenCovered, SettlementInv, OnlyCompletedScored
    <3> QED
      BY <3>2, <3>3 DEF Counts
  <2>5. pc'[p] = l /\ job'[p] = j
    BY <1>t, <2>1, GotoLands
  <2>6. l \in {"final", "totalRead"} /\ (l = "final" => total[c] = sum)
    BY <2>3
  <2> HIDE DEF j, l, sum
  <2>7. Building(pc[p], job[p])'
    <3>1. l = "final" => Counts(total[job[p].current], job[p].current)'
      BY <1>u, <2>1, <2>2, <2>4, <2>5, <2>6 DEF Counts
    <3>2. Counts(job[p].result, job[p].current)'
      BY <1>u, <2>2, <2>4, <2>5 DEF Counts
    <3>3. \A e \in contestEvents'[job'[p].current] : Ended(e)'
      BY <1>e, <1>u, <2>2, <2>5 DEF Ended
    <3> QED
      BY <2>5, <2>6, <3>1, <3>2, <3>3 DEF Building, Resulting
  <2>8. l \in Deciding \ {"sum", "tell"} /\ pc[p] \in Scoring
    BY <2>1, <2>6 DEF Deciding, Scoring
  <2> QED
    BY <1>q, <1>f, <2>1, <2>2, <2>3, <2>7, <2>8
<1>2. CASE ReadTotal(p)
  <2>1. PICK plan \in Plans(total[c], job[p].result, Nothing) :
          Goto(p, "total", [job[p] EXCEPT !.plan = plan])
    BY <1>2 DEF ReadTotal
  <2> DEFINE j == [job[p] EXCEPT !.plan = plan]
  <2>2. pc[p] = "totalRead" /\ UNCHANGED <<total, finishes>>
    BY <1>2 DEF ReadTotal, stored
  <2>3. total[c] = Nothing
    BY <1>c, <1>t, <2>2 DEF Mine, MyResult, Resulting
  <2>4. plan = "create"
    BY <2>1, <2>3 DEF Plans
  <2>5. Same(j) /\ j.result = job[p].result /\ j.plan = "create"
    BY <1>t, <2>4 DEF Job
  <2> HIDE DEF j
  <2>6. Goto(p, "total", j) /\ pc'[p] = "total" /\ job'[p] = j
    BY <1>t, <2>1, GotoLands DEF j
  <2>7. Building(pc[p], job[p])'
    <3>1. Counts(job[p].result, c)
      BY <1>t, <2>2 DEF Trusts, Building
    <3>2. Counts(job[p].result, job[p].current)'
      BY <1>u, <2>5, <2>6, <3>1 DEF Counts
    <3>3. \A e \in contestEvents'[job'[p].current] : Ended(e)'
      BY <1>e, <1>u, <2>5, <2>6 DEF Ended
    <3> QED
      BY <2>5, <2>6, <3>2, <3>3 DEF Building, Resulting
  <2>8. "total" \in Deciding \ {"sum", "tell"} /\ pc[p] \in Scoring
    BY <2>2 DEF Deciding, Scoring
  <2> QED
    BY <1>q, <1>f, <2>2, <2>3, <2>5, <2>6, <2>7, <2>8
<1>3. CASE WriteTotal(p)
  <2> DEFINE j == job[p]
  <2>1. pc[p] = "total" /\ Goto(p, "final", j) /\ UNCHANGED finishes
    BY <1>3 DEF WriteTotal
  <2>2. total[c] = Nothing
    BY <1>c, <1>t, <2>1 DEF Mine, MyResult, Resulting
  <2>3. Counts(j.result, c) /\ j.plan = "create"
    BY <1>t, <2>1 DEF Trusts, Building
  <2>4. total'[c] = j.result /\ \A d \in Contests : d # c => total'[d] = total[d]
    BY <1>3, <1>t, <2>2, <2>3 DEF WriteTotal, Upsert, TypeOK
  <2>5. Same(j) /\ pc'[p] = "final" /\ job'[p] = j
    BY <1>t, <2>1, GotoLands
  <2> HIDE DEF j
  <2>6. Building(pc[p], job[p])'
    <3>1. Counts(total[job[p].current], job[p].current)'
      BY <1>u, <2>3, <2>4, <2>5 DEF Counts
    <3>2. \A e \in contestEvents'[job'[p].current] : Ended(e)'
      BY <1>e, <1>u, <2>5 DEF Ended
    <3> QED
      BY <2>5, <3>1, <3>2 DEF Building
  <2>7. "final" \in Deciding \ {"sum", "tell"} /\ "final" \notin Scoring /\ "final" \in Resulting
    BY DEF Deciding, Scoring, Resulting
  <2> QED
    BY <1>q, <1>f, <2>1, <2>4, <2>5, <2>6, <2>7
<1>4. CASE ReadFinal(p)
  <2> DEFINE j == [job[p] EXCEPT !.result = total[c]]
  <2>1. pc[p] = "final" /\ Goto(p, "finishes", j) /\ UNCHANGED <<total, finishes>>
    BY <1>4 DEF ReadFinal, stored
  <2>2. Same(j) /\ j.result = total[c]
    BY <1>t DEF Job
  <2>3. pc'[p] = "finishes" /\ job'[p] = j
    BY <1>t, <2>1, GotoLands
  <2> HIDE DEF j
  <2>4. Building(pc[p], job[p])'
    <3>1. Counts(total[c], c)
      BY <1>t, <2>1 DEF Trusts, Building, Resulting
    <3>2. Counts(total[job[p].current], job[p].current)'
      BY <1>u, <2>1, <2>2, <2>3, <3>1 DEF Counts
    <3>3. \A e \in contestEvents'[job'[p].current] : Ended(e)'
      BY <1>e, <1>u, <2>2, <2>3 DEF Ended
    <3> QED
      BY <2>1, <2>2, <2>3, <3>2, <3>3 DEF Building
  <2>5. "finishes" \in Deciding \ {"sum", "tell"} /\ "finishes" \notin Scoring
        /\ "finishes" \in Resulting
    BY DEF Deciding, Scoring, Resulting
  <2> QED
    BY <1>q, <1>f, <2>1, <2>2, <2>4, <2>5
<1>5. CASE RecordFinishes(p)
  <2> DEFINE j == job[p]
  <2>1. pc[p] = "finishes" /\ Goto(p, "complete", j) /\ UNCHANGED total
    BY <1>5 DEF RecordFinishes
  <2>2. j.result = total[c] /\ Counts(total[c], c)
    BY <1>t, <2>1 DEF Trusts, Building, Resulting
  <2>3. finishes'[c] = j.result /\ \A d \in Contests : d # c => finishes'[d] = finishes[d]
    BY <1>5, <1>f, <1>t DEF RecordFinishes, Recorded, TypeOK
  <2>4. Same(j) /\ pc'[p] = "complete" /\ job'[p] = j
    BY <1>t, <2>1, GotoLands
  <2> HIDE DEF j
  <2>5. Building(pc[p], job[p])'
    <3>1. Counts(total[job[p].current], job[p].current)'
      BY <1>u, <2>1, <2>2, <2>4 DEF Counts
    <3>2. finishes'[c] = total'[c]
      BY <2>1, <2>2, <2>3
    <3>3. \A e \in contestEvents'[job'[p].current] : Ended(e)'
      BY <1>e, <1>u, <2>4 DEF Ended
    <3> QED
      BY <2>4, <3>1, <3>2, <3>3 DEF Building
  <2>6. "complete" \in Deciding \ {"sum", "tell"} /\ "complete" \notin Scoring
        /\ "complete" \in Resulting
    BY DEF Deciding, Scoring, Resulting
  <2> QED
    BY <1>q, <2>1, <2>3, <2>4, <2>5, <2>6
<1> QED
  BY <1>1, <1>2, <1>3, <1>4, <1>5

(* The contest is completed, and its league is told. *)
LEMMA CompleteSerial ==
  ASSUME SerialInv, NEW p \in Callers, Complete(p)
  PROVE  SerialNext
<1>0. pc[p] = "complete"
  BY DEF Complete
<1>s. /\ pc[p] \in Settling /\ pc[p] \in Working /\ pc[p] \in Busy /\ pc[p] \in Resulting
      /\ pc[p] \in Listed \ {"known"}
  BY <1>0 DEF Settling, Listed, Working, Busy, Resulting
<1> DEFINE c == job[p].current
<1>t. /\ TypeOK /\ job[p] \in Job /\ MayGo(p) /\ Mine(p) /\ Trusts(pc[p], job[p])
      /\ c \in Contests /\ \A d \in Contests : contestEvents[d] \subseteq Events
  BY <1>s, AtWork
<1>u. UNCHANGED <<eventStatus, contestEvents, frozen, total, finishes>>
  BY DEF Complete, stored
<1>c. Current("complete", job[p])
  BY <1>0, <1>t DEF Trusts
<1>1. Completable(c)
  BY <1>0, <1>c, <1>s DEF Current, Completable
<1>2. /\ contestStatus'[c] = "COMPLETED"
      /\ \A d \in Contests : d # c => contestStatus'[d] = contestStatus[d]
      /\ Goto(p, "tell", job[p])
  BY <1>1, <1>t DEF Complete, TypeOK
<1>3. pc'[p] = "tell" /\ job'[p] = job[p]
  BY <1>t, <1>2, GotoLands
<1>4. /\ "tell" \in Listed \ {"known"} /\ "tell" \in Working /\ "tell" \in Settling
      /\ "tell" \notin Busy \cup Scoring \cup Freezing \cup Resulting
  BY DEF Settling, Listed, Working, Busy, Scoring, Freezing, Resulting
<1>b. job[p].batch \subseteq Contests /\ c \notin job[p].batch
  BY <1>c, <1>0, <1>s, <1>t DEF Current, Job
<1> HIDE DEF c
<1>5. Current(pc[p], job[p])'
  BY <1>0, <1>c, <1>s, <1>u, <1>b, <1>2, <1>3, <1>4 DEF Current, c
<1>6. Building(pc[p], job[p])'
  BY <1>3, <1>4 DEF Building
<1>7. Trusts(pc[p], job[p])'
  BY <1>3, <1>4, <1>5, <1>6, NotEditing DEF Trusts
<1>8. MyFreezes(p)'
  BY <1>0, <1>t, <1>u, <1>2, <1>3, <1>4
  DEF Mine, MyFreezes, WillFreeze, Freezing, Settleable, NotSettled, Listed, Working
<1>9. MyResult(p)'
  BY <1>t, <1>u, <1>2 DEF Mine, MyResult, c
<1>10. MyEnding(p)'
  <2> SUFFICES ASSUME NEW d \in Contests \ Unscorable, contestStatus'[d] \in Settleable,
                      contestEvents[d] # {}, \A e \in contestEvents[d] : Ended(e)
               PROVE  Settles(pc[p], job[p], d)'
    BY <1>u DEF MyEnding, Ended
  <2>1. d # c /\ contestStatus[d] \in Settleable
    BY <1>2 DEF Settleable, NotSettled
  <2>2. Settles(pc[p], job[p], d)
    BY <1>t, <2>1 DEF Mine, MyEnding
  <2>3. d \in job[p].batch
    BY <1>0, <2>1, <2>2 DEF Settles, c
  <2> QED
    BY <1>u, <1>3, <1>4, <2>2, <2>3 DEF Settles
<1>11. Goes(p)
  BY <1>u, <1>7, <1>8, <1>9, <1>10
  DEF Goes, Mine, SerialInv, OneEventBrackets, FrozenCovered
<1> QED
  BY <1>t, <1>2, <1>11, GoesOn

LEMMA TellSerial == ASSUME SerialInv, NEW p \in Callers, TellSettled(p) PROVE SerialNext
<1>0. pc[p] = "tell"
  BY DEF TellSettled
<1>s. pc[p] \in Settling /\ pc[p] \in Working
  BY <1>0 DEF Settling, Listed, Working
<1> DEFINE c == job[p].current
<1>t. /\ TypeOK /\ job[p] \in Job /\ MayGo(p) /\ Mine(p) /\ Trusts(pc[p], job[p])
      /\ c \in Contests /\ \A d \in Contests : contestEvents[d] \subseteq Events
  BY <1>s, AtWork
<1>u. UNCHANGED <<eventStatus, contestStatus, contestEvents, frozen, total, finishes>>
  BY DEF TellSettled
<1>1. Goto(p, "next", job[p]) /\ pc'[p] = "next" /\ job'[p] = job[p]
  BY <1>t, GotoLands DEF TellSettled
<1>2. contestStatus[c] = "COMPLETED"
  BY <1>0 DEF SerialInv, SettlementInv, OneTeller
<1>3. "next" \in Settling /\ "next" \in Listed
      /\ "next" \notin Working \cup Busy \cup Scoring \cup Freezing \cup Resulting \cup Deciding
  BY DEF Settling, Listed, Working, Busy, Scoring, Freezing, Resulting, Deciding
<1>4. Current(pc[p], job[p])'
  BY <1>s, <1>u, <1>1, <1>3, OnCurrent
<1>5. Building(pc[p], job[p])'
  BY <1>1, <1>3 DEF Building
<1>6. Trusts(pc[p], job[p])'
  BY <1>1, <1>3, <1>4, <1>5, NotEditing DEF Trusts
<1>7. MyFreezes(p)'
  BY <1>0, <1>t, <1>u, <1>1, <1>3 DEF Mine, MyFreezes, WillFreeze, Freezing
<1>8. MyResult(p)'
  BY <1>0, <1>t, <1>u DEF Mine, MyResult, Resulting
<1>9. MyEnding(p)'
  BY <1>0, <1>t, <1>u, <1>1, <1>2, <1>3
  DEF Mine, MyEnding, Settles, Ended, Settleable, NotSettled
<1>10. Goes(p)
  BY <1>u, <1>6, <1>7, <1>8, <1>9
  DEF Goes, Mine, SerialInv, OneEventBrackets, FrozenCovered
<1> QED
  BY <1>t, <1>1, <1>10, GoesOn

-----------------------------------------------------------------------------
(* The invariant holds of every run of one operation at a time. *)

LEMMA FailSerial == ASSUME OneAtATime, SerialInv, Fail PROVE SerialNext
<1>1. faults = 0
  BY DEF SerialInv, SettlementInv, TypeOK, OneAtATime
<1>2. PICK t \in Tasks : DropLock(t)
  BY <1>1 DEF Fail, Throw, Crash, Fault, OneAtATime
<1> QED
  BY <1>2, StillSerial DEF DropLock, stored

LEMMA WorkSerial == ASSUME SerialInv, NEW p \in Callers, Work(p) PROVE SerialNext
<1>1. CASE Settle(p)
  BY <1>1, ReadsSerial, NextContestSerial, FreezeSerial, CheckSerial, ResultSerial,
     CompleteSerial, TellSerial DEF Settle
<1>2. CASE WriteStatus(p) \/ Activate(p) \/ ActivateWrite(p) \/ OpenWrite(p) \/ WriteEvents(p)
  BY <1>2, WriteSerial, ActivateSerial, OpenSerial, EditSerial
<1>3. CASE FindJoinable(p) \/ JoinNext(p) \/ SweepNext(p) \/ SweepFinish(p)
  BY <1>3, JoinSerial, SweepNextSerial
<1> QED
  BY <1>1, <1>2, <1>3 DEF Work

LEMMA SerialInit == ASSUME OneAtATime PROVE Init => SerialInv
<1> SUFFICES ASSUME Init PROVE SerialInv
  OBVIOUS
<1>1. SettlementInv
  BY InvInit
<1>2. \A p \in Callers : pc[p] = "idle"
  BY DEF Init
<1>3. EveryCallerUnread /\ OneAtWork
  BY <1>2 DEF EveryCallerUnread, Unread, OneAtWork
<1>4. EveryCallerTrusts
  BY <1>2, IdleTrusts DEF EveryCallerTrusts
<1>5. \A c \in Contests : /\ frozen[c] = Nothing /\ total[c] = Nothing /\ finishes[c] = Nothing
                          /\ contestEvents[c] = InitialEvents[c]
                          /\ contestEvents[c] \subseteq Events
  BY InitialAssumption DEF Init
<1>6. \A e \in Events : ~Ended(e) /\ eventStatus[e] # "COMPLETED"
  BY InitialAssumption DEF Init, Ended, FinishedStatuses
<1>7. OneEventBrackets
  BY <1>5, SetsAssumption DEF OneEventBrackets, OneAtATime
<1>8. FrozenCovered /\ ResultsUnderWay
  BY <1>5 DEF FrozenCovered, ResultsUnderWay, Nothing
<1>9. PlayedFrozen
  BY <1>5, <1>6 DEF PlayedFrozen
<1>10. EndedSettled
  BY <1>5, <1>6 DEF EndedSettled
<1> QED
  BY <1>1, <1>3, <1>4, <1>7, <1>8, <1>9, <1>10 DEF SerialInv

LEMMA SerialKept == ASSUME OneAtATime PROVE SerialInv /\ [Next]_vars => SerialInv'
<1> SUFFICES ASSUME SerialInv, [Next]_vars PROVE SerialInv'
  OBVIOUS
<1>1. SettlementInv'
  BY InvNext DEF SerialInv
<1>2. EveryCallerUnread'
  BY UnreadNext DEF SerialInv, SettlementInv
<1>3. SerialNext
  <2>1. CASE UNCHANGED vars \/ World
    BY <2>1, StillSerial DEF vars, World, TimePasses, CorrectScore, stored
  <2>2. CASE Next /\ ~World
    BY <2>2, AskSerial, SweepSerial, WorkSerial, FailSerial DEF Next
  <2> QED
    BY <2>1, <2>2
<1> QED
  BY <1>1, <1>2, <1>3 DEF SerialInv, SerialNext

LEMMA SerialHolds == ASSUME OneAtATime PROVE Spec => []SerialInv
BY SerialInit, SerialKept, PTL DEF Spec

(* No contest is left without events. *)
EveryContestOnEvents == \A c \in Contests : InitialEvents[c] # {}

OnEvents == \A c \in Contests : contestEvents[c] # {}

LEMMA EventsKept == SerialInv /\ OnEvents /\ [Next]_vars => OnEvents'
<1> SUFFICES ASSUME SerialInv, OnEvents, [Next]_vars PROVE OnEvents'
  OBVIOUS
<1>1. CASE UNCHANGED contestEvents
  BY <1>1 DEF OnEvents
<1>2. ASSUME NEW p \in Callers, WriteEvents(p) PROVE OnEvents'
  <2>1. job[p].target # {}
    BY <1>2 DEF WriteEvents, SerialInv, EveryCallerTrusts, Trusts, Editing
  <2> QED
    BY <1>2, <2>1 DEF WriteEvents, OnEvents, SerialInv, SettlementInv, TypeOK
<1> QED
  BY <1>1, <1>2, EventsAndTotals

(***************************************************************************)
(* Where operations follow one another nothing is stranded either, and     *)
(* there the commissioner may change a contest's events and releases may   *)
(* add to them: an event is only dropped or added before it has ended, so  *)
(* the settlement of the last to end still finds the contest (#743).       *)
(***************************************************************************)
THEOREM NoneStrandedInTurn ==
  ASSUME OneAtATime, EveryContestOnEvents
  PROVE  Spec => []NothingStranded
<1>1. Init => OnEvents
  BY DEF Init, OnEvents, EveryContestOnEvents
<1>2. SerialInv /\ OnEvents => NothingStranded
  <2> SUFFICES ASSUME SerialInv, OnEvents, \A p \in Callers : pc[p] \in {"idle", "sweep"},
                      NEW c \in Contests \ Unscorable, AllFinished(c)
               PROVE  contestStatus[c] \notin Settleable
    BY DEF NothingStranded
  <2>1. \A p \in Callers : pc[p] \notin Settling
    BY DEF Settling, Listed, Working
  <2>2. \A p \in Callers : ~Settles(pc[p], job[p], c)
    BY <2>1, IdleOwesNothing
  <2> QED
    BY <2>2 DEF SerialInv, EndedSettled, OnEvents, AllFinished, Ended
<1> QED
  BY <1>1, <1>2, EventsKept, SerialHolds, PTL DEF Spec

-----------------------------------------------------------------------------
(* The refinement. *)

PromiseVars == <<contestEvents, {e \in Events : eventStatus[e] = "COMPLETED"},
                 {e \in Events : eventStatus[e] = "CANCELLED"}, FinalContests,
                 [c \in Contests |-> IF c \in FinalContests THEN total[c] ELSE Nothing],
                 [c \in Contests |-> IF c \in FinalContests THEN finishes[c] ELSE Nothing]>>

LEMMA InitPromised == Init => Promise!Init
<1> SUFFICES ASSUME Init PROVE Promise!Init
  OBVIOUS
<1>1. FinalContests = {}
  BY InitialAssumption DEF Init, FinalContests
<1>2. \A e \in Events : eventStatus[e] \notin {"COMPLETED", "CANCELLED"}
  BY InitialAssumption DEF Init, FinishedStatuses
<1>3. contestEvents \in [Contests -> SUBSET Events]
  BY InitialAssumption DEF Init
<1> QED
  BY <1>1, <1>2, <1>3 DEF Promise!Init, Promise!NoResult, Nothing

(* A step that changes no event's status or contest's events, completes no
   contest and leaves the results of completed ones as they are. *)
LEMMA PromiseRests ==
  ASSUME UNCHANGED <<eventStatus, contestEvents, FinalContests>>,
         \A c \in FinalContests : total'[c] = total[c] /\ finishes'[c] = finishes[c]
  PROVE  UNCHANGED PromiseVars
<1>1. [c \in Contests |-> IF c \in FinalContests THEN total[c] ELSE Nothing]'
        = [c \in Contests |-> IF c \in FinalContests THEN total[c] ELSE Nothing]
  OBVIOUS
<1>2. [c \in Contests |-> IF c \in FinalContests THEN finishes[c] ELSE Nothing]'
        = [c \in Contests |-> IF c \in FinalContests THEN finishes[c] ELSE Nothing]
  OBVIOUS
<1> QED
  BY <1>1, <1>2 DEF PromiseVars

(* The write of an event's last status is the event's end. *)
LEMMA EndPromised ==
  ASSUME SerialInv, NEW p \in Callers, WriteStatus(p)
  PROVE  [Promise!Next]_PromiseVars
<1>t. TypeOK /\ job[p] \in Job
  BY DEF SerialInv, SettlementInv, TypeOK
<1>u. UNCHANGED <<contestEvents, contestStatus, total, finishes>>
  BY DEF WriteStatus, stored
<1>f. UNCHANGED FinalContests
  BY <1>u DEF FinalContests
<1> DEFINE x == job[p].event
           to == job[p].to
<1>1. CASE UNCHANGED eventStatus
  BY <1>1, <1>u, <1>f, PromiseRests
<1>2. CASE ~UNCHANGED eventStatus
  <2>x. x \in Events /\ to \in EventStatus
    BY <1>t DEF Job
  <2>1. StillAt(job[p]) /\ eventStatus' = [eventStatus EXCEPT ![x] = to]
    BY <1>2 DEF WriteStatus
  <2>2. to # eventStatus[x]
    BY <1>t, <1>2, <2>1 DEF TypeOK
  <2>3. IsDeclaredSportEventTransition(eventStatus[x], to)
    BY <2>1, <2>2 DEF WriteStatus, SerialInv, SettlementInv, EveryCallerSound, Sound, StillAt
  <2>4. eventStatus[x] \notin {"COMPLETED", "CANCELLED"}
    BY <2>3 DEF IsDeclaredSportEventTransition, SPORT_EVENT_STATUS_TRANSITIONS
  <2>5. /\ eventStatus'[x] = to
        /\ \A e \in Events : e # x => eventStatus'[e] = eventStatus[e]
    BY <1>t, <2>1, <2>x DEF TypeOK
  <2> DEFINE played == {e \in Events : eventStatus[e] = "COMPLETED"}
             cancelled == {e \in Events : eventStatus[e] = "CANCELLED"}
  <2>s. /\ UNCHANGED [c \in Contests |-> IF c \in FinalContests THEN total[c] ELSE Nothing]
        /\ UNCHANGED [c \in Contests |-> IF c \in FinalContests THEN finishes[c] ELSE Nothing]
    BY <1>u, <1>f
  <2>y. PICK y \in Events : y = x
    BY <2>x
  <2> HIDE DEF x, to
  <2>6. CASE to = "COMPLETED"
    <3>1. played' = played \cup {x} /\ cancelled' = cancelled
      BY <2>x, <2>4, <2>5, <2>6
    <3>2. x \notin played \cup cancelled
      BY <2>4
    <3>3. Promise!EndEvent(y)
      BY <1>u, <1>f, <2>s, <2>y, <3>1, <3>2 DEF Promise!EndEvent
    <3> QED
      BY <3>3 DEF Promise!Next
  <2>7. CASE to = "CANCELLED"
    <3>1. cancelled' = cancelled \cup {x} /\ played' = played
      BY <2>x, <2>4, <2>5, <2>7
    <3>2. x \notin played \cup cancelled
      BY <2>4
    <3>3. Promise!EndEvent(y)
      BY <1>u, <1>f, <2>s, <2>y, <3>1, <3>2 DEF Promise!EndEvent
    <3> QED
      BY <3>3 DEF Promise!Next
  <2>8. CASE to \notin {"COMPLETED", "CANCELLED"}
    <3>1. cancelled' = cancelled /\ played' = played
      BY <2>x, <2>4, <2>5, <2>8
    <3> QED
      BY <1>u, <1>f, <2>s, <3>1 DEF PromiseVars
  <2> QED
    BY <2>6, <2>7, <2>8
<1> QED
  BY <1>1, <1>2

(* Only a contest that is not final changes its events. *)
LEMMA EditPromised ==
  ASSUME SerialInv, NEW p \in Callers, WriteEvents(p)
  PROVE  [Promise!Next]_PromiseVars
<1>t. TypeOK /\ job[p] \in Job
  BY DEF SerialInv, SettlementInv, TypeOK
<1>u. UNCHANGED <<eventStatus, contestStatus, total, finishes>>
  BY DEF WriteEvents, stored
<1>f. UNCHANGED FinalContests
  BY <1>u DEF FinalContests
<1>1. job[p].current \in Contests \ FinalContests /\ job[p].target \in SUBSET Events
  BY <1>t DEF WriteEvents, SerialInv, EveryCallerTrusts, Trusts, Editing, FinalContests, Job
<1>2. contestEvents' = [contestEvents EXCEPT ![job[p].current] = job[p].target]
  BY DEF WriteEvents
<1>s. /\ UNCHANGED [c \in Contests |-> IF c \in FinalContests THEN total[c] ELSE Nothing]
      /\ UNCHANGED [c \in Contests |-> IF c \in FinalContests THEN finishes[c] ELSE Nothing]
  BY <1>u, <1>f
<1>3. Promise!ChangeEvents(job[p].current)
  BY <1>1, <1>2, <1>u, <1>f, <1>s DEF Promise!ChangeEvents
<1> QED
  BY <1>1, <1>3 DEF Promise!Next

(* The write that completes a contest makes its result final. *)
LEMMA CompletePromised ==
  ASSUME SerialInv, NEW p \in Callers, Complete(p)
  PROVE  [Promise!Next]_PromiseVars
<1>0. pc[p] = "complete" /\ pc[p] \in Settling
  BY DEF Complete, Settling, Listed, Working
<1> DEFINE c == job[p].current
<1>t. TypeOK /\ c \in Contests /\ Trusts("complete", job[p])
  BY <1>0, AtWork
<1>1. /\ contestStatus[c] \in Settleable
      /\ \A e \in contestEvents[c] : Ended(e)
      /\ Counts(total[c], c) /\ finishes[c] = total[c]
  BY <1>t DEF Trusts, Current, Building, Busy, Working, Deciding, Resulting
<1>u. UNCHANGED <<eventStatus, contestEvents, total, finishes>>
  BY DEF Complete, stored
<1>2. contestStatus' = [contestStatus EXCEPT ![c] = "COMPLETED"]
  BY <1>1 DEF Complete, Completable
<1>3. c \notin FinalContests /\ FinalContests' = FinalContests \cup {c}
  BY <1>1, <1>2, <1>t DEF FinalContests, TypeOK, Settleable, NotSettled
<1>y. total[c] \in [Events -> Versions]
  BY <1>t DEF TypeOK, Result
<1>4. contestEvents[c] \subseteq {e \in Events : eventStatus[e] = "COMPLETED"}
                                 \cup {e \in Events : eventStatus[e] = "CANCELLED"}
  BY <1>1, <1>t DEF Ended, FinishedStatuses, TypeOK
<1>5. \A e \in Events : total[c][e] # 0 <=>
                        e \in contestEvents[c] \cap {x \in Events : eventStatus[x] = "COMPLETED"}
  BY <1>1 DEF Counts
<1> DEFINE standings == [d \in Contests |-> IF d \in FinalContests THEN total[d] ELSE Nothing]
           ranks == [d \in Contests |-> IF d \in FinalContests THEN finishes[d] ELSE Nothing]
<1>6. standings' = [standings EXCEPT ![c] = total[c]]
  BY <1>3, <1>u, <1>t
<1>7. ranks' = [ranks EXCEPT ![c] = total[c]]
  BY <1>1, <1>3, <1>u, <1>t
<1> HIDE DEF c
<1>d. PICK d \in Contests : d = c
  BY <1>t
<1>8. Promise!Finalise(d)
  BY <1>d, <1>3, <1>u, <1>y, <1>4, <1>5, <1>6, <1>7 DEF Promise!Finalise
<1> QED
  BY <1>8 DEF Promise!Next

(* Every other step is none of the promise's: a total or a finish is written
   for a contest that is not final yet. *)
LEMMA OthersPromised ==
  ASSUME SerialInv, [Next]_vars,
         \A p \in Callers : ~WriteStatus(p) /\ ~WriteEvents(p) /\ ~Complete(p)
  PROVE  UNCHANGED PromiseVars
<1>t. TypeOK /\ SettlementInv
  BY DEF SerialInv, SettlementInv
<1>1. UNCHANGED <<eventStatus, contestEvents>>
  BY Writers, EventsAndTotals
<1>2. UNCHANGED FinalContests
  <2>1. CASE UNCHANGED contestStatus
    BY <2>1 DEF FinalContests
  <2>2. ASSUME NEW p \in Callers, ActivateWrite(p), ~UNCHANGED contestStatus
        PROVE  UNCHANGED FinalContests
    <3>1. PICK group : contestStatus' = [d \in Contests |->
                 IF d \in group /\ Startable(d) THEN "ACTIVE" ELSE contestStatus[d]]
      BY <2>2 DEF ActivateWrite
    <3> QED
      BY <3>1 DEF FinalContests, Startable
  <2>3. ASSUME NEW p \in Callers, OpenWrite(p) PROVE UNCHANGED FinalContests
    BY <1>t, <2>3 DEF OpenWrite, FinalContests, TypeOK
  <2> QED
    BY <2>1, <2>2, <2>3, Writers
<1>3. ASSUME NEW c \in FinalContests
      PROVE  total'[c] = total[c] /\ finishes'[c] = finishes[c]
  <2>1. \A p \in Callers : pc[p] \in {"total", "finishes"} => job[p].current # c
    <3> SUFFICES ASSUME NEW p \in Callers, pc[p] \in {"total", "finishes"} PROVE job[p].current # c
      OBVIOUS
    <3>1. pc[p] \in Busy
      BY DEF Busy, Working
    <3>2. contestStatus[job[p].current] \in Settleable
      BY <3>1 DEF SerialInv, EveryCallerTrusts, Trusts, Current
    <3> QED
      BY <3>2 DEF FinalContests, Settleable, NotSettled
  <2>c. c \in Contests
    BY DEF FinalContests
  <2>2. total'[c] = total[c]
    <3>1. ASSUME NEW p \in Callers, WriteTotal(p) PROVE total'[c] = total[c]
      BY <1>t, <2>1, <2>c, <3>1 DEF WriteTotal, TypeOK
    <3> QED
      BY <3>1, EventsAndTotals
  <2>3. finishes'[c] = finishes[c]
    <3>1. ASSUME NEW p \in Callers, RecordFinishes(p) PROVE finishes'[c] = finishes[c]
      BY <1>t, <2>1, <2>c, <3>1 DEF RecordFinishes, TypeOK
    <3> QED
      BY <3>1, Writers
  <2> QED
    BY <2>2, <2>3
<1> QED
  BY <1>1, <1>2, <1>3, PromiseRests

LEMMA NextPromised == SerialInv /\ [Next]_vars => [Promise!Next]_PromiseVars
BY EndPromised, EditPromised, CompletePromised, OthersPromised

(***************************************************************************)
(* While operations follow one another and no call fails, settlement is    *)
(* ContestResult: a contest goes final once, when all its events have      *)
(* ended, on the scores of exactly the events that were played, with its   *)
(* championship finishes taken from them, and nothing changes after.       *)
(***************************************************************************)
THEOREM SettlementKeepsThePromise == ASSUME OneAtATime PROVE Spec => PromiseKept
<1>1. SerialInv /\ [Next]_vars => [Promise!Next]_Promise!vars
  BY NextPromised DEF Promise!vars, PromiseVars
<1> QED
  BY <1>1, InitPromised, SerialHolds, PTL DEF Spec, PromiseKept, Promise!Spec
=============================================================================
