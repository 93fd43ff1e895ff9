-------------------------- MODULE SweepLock_proofs --------------------------
(***************************************************************************)
(* The sweep's job lock, for every set of tasks: while no call fails and   *)
(* no lock connection drops, one task sweeps at a time.  OneSweep is not   *)
(* inductive: it says nothing of the task about to start.  What carries it *)
(* is that whoever sweeps still holds the lock.                            *)
(***************************************************************************)
EXTENDS ContestSettlement_proofs

(* Whoever sweeps holds the job lock. *)
SweeperHolds ==
  faults = 0 /\ drops = 0 => \A t \in Tasks : pc[t] # "idle" => lock = t

LEMMA HoldingGivesOneSweep == TypeOK /\ SweeperHolds => OneSweep
  BY BoundsAssumption DEF TypeOK, SweeperHolds, OneSweep

LEMMA InitHolds == Init => SweeperHolds
  BY DEF Init, SweeperHolds, Callers

(* A caller at work moves itself alone, and leaves the lock and the bounds. *)
LEMMA WorkMovesOne ==
  ASSUME NEW p \in Callers, Work(p)
  PROVE  /\ pc[p] # "idle"
         /\ \E l : pc' = [pc EXCEPT ![p] = l]
         /\ UNCHANGED <<lock, faults, drops>>
<1>1. CASE WriteStatus(p)
  BY <1>1 DEF WriteStatus, Return, Goto, bounds
<1>2. CASE Activate(p) \/ ActivateWrite(p)
  BY <1>2 DEF Activate, ActivateWrite, Return, Goto, bounds
<1>3. CASE Settle(p)
  <2>1. CASE ReadField(p) \/ ReadContests(p) \/ ReadSettledFor(p)
    BY <2>1 DEF ReadField, ReadContests, ReadSettledFor, Goto, bounds
  <2>2. CASE NextContest(p)
    BY <2>2 DEF NextContest, Return, Goto, bounds
  <2>3. CASE ReadFrozen(p) \/ WriteFrozen(p)
    BY <2>3 DEF ReadFrozen, WriteFrozen, Return, Goto, bounds, stored
  <2>4. CASE Check(p)
    BY <2>4 DEF Check, Return, Goto, bounds
  <2>5. CASE SumTotals(p) \/ ReadTotal(p) \/ WriteTotal(p)
    BY <2>5 DEF SumTotals, ReadTotal, WriteTotal, Return, Goto, bounds, stored
  <2>6. CASE ReadFinal(p) \/ RecordFinishes(p)
    BY <2>6 DEF ReadFinal, RecordFinishes, Return, Goto, bounds, stored
  <2>7. CASE Complete(p) \/ TellSettled(p)
    BY <2>7 DEF Complete, TellSettled, Return, Goto, bounds, stored
  <2> QED
    BY <1>3, <2>1, <2>2, <2>3, <2>4, <2>5, <2>6, <2>7 DEF Settle
<1>4. CASE OpenWrite(p) \/ WriteEvents(p)
  BY <1>4 DEF OpenWrite, WriteEvents, Return, Goto, bounds
<1>5. CASE FindJoinable(p) \/ JoinNext(p)
  BY <1>5 DEF FindJoinable, JoinNext, Return, Goto, bounds
<1>6. CASE SweepNext(p)
  BY <1>6 DEF SweepNext, SweepScheduled, SweepInProgress, Goto, bounds
<1>7. CASE SweepFinish(p)
  BY <1>7 DEF SweepFinish, Return, Goto, bounds
<1> QED
  BY <1>1, <1>2, <1>3, <1>4, <1>5, <1>6, <1>7 DEF Work

LEMMA NextHolds == TypeOK /\ SweeperHolds /\ [Next]_vars => SweeperHolds'
<1> SUFFICES ASSUME TypeOK, SweeperHolds, [Next]_vars,
                    faults' = 0, drops' = 0,
                    NEW t \in Tasks, pc'[t] # "idle"
             PROVE  lock' = t
  BY DEF SweeperHolds
<1>t. t \in Callers /\ DOMAIN pc = Callers
  BY DEF TypeOK, Callers
<1>1. CASE UNCHANGED vars \/ World
  BY <1>1 DEF vars, World, TimePasses, CorrectScore, bounds, SweeperHolds
<1>2. ASSUME NEW a \in Admins, Ask(a) PROVE lock' = t
  <2>1. /\ \E l : pc' = [pc EXCEPT ![a] = l]
        /\ UNCHANGED <<lock, faults, drops>>
    BY <1>2 DEF Ask, RequestRelease, RequestTransition, RequestOpen,
                RequestEvents, Request, Goto
  <2>2. a # t
    BY CallersAssumption
  <2> QED
    BY <1>t, <2>1, <2>2 DEF SweeperHolds
<1>3. ASSUME NEW u \in Tasks, StartSweep(u) PROVE lock' = t
  <2>1. lock \in {NoTask, u} /\ lock' = u /\ pc' = [pc EXCEPT ![u] = "sweep"]
    BY <1>3 DEF StartSweep, MayHold, Goto
  <2>2. faults = 0 /\ drops = 0
    BY <1>3 DEF StartSweep, bounds
  <2>3. CASE u = t
    BY <2>1, <2>3
  <2>4. CASE u # t
    <3>1. pc[t] # "idle"
      BY <1>t, <2>1, <2>4
    <3>2. lock = t
      BY <2>2, <3>1 DEF SweeperHolds
    <3> QED
      BY <2>1, <2>4, <3>2, CallersAssumption
  <2> QED
    BY <2>3, <2>4
<1>4. ASSUME NEW p \in Callers, Work(p) PROVE lock' = t
  BY <1>4, <1>t, WorkMovesOne DEF SweeperHolds
<1>5. CASE Fail
  BY <1>5 DEF Fail, Throw, Crash, DropLock, Fault, TypeOK
<1> QED
  BY <1>1, <1>2, <1>3, <1>4, <1>5 DEF Next

(* While no call fails and no lock connection drops, two tasks never sweep at
   once: a sweep runs on the task whose session holds the advisory lock, and
   only DropLock and a crash take the lock from it (runExclusive, #1159). *)
THEOREM OneTaskSweeps == Spec => []OneSweep
<1>1. Init => TypeOK /\ SweeperHolds
  BY InitType, InitHolds
<1>2. TypeOK /\ SweeperHolds /\ [Next]_vars => (TypeOK /\ SweeperHolds)'
  BY NextType, NextHolds
<1> QED
  BY <1>1, <1>2, HoldingGivesOneSweep, PTL DEF Spec
=============================================================================
