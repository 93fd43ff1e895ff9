--------------------------- MODULE EntryRoom_proofs ---------------------------
(***************************************************************************)
(* What holds of EntryRoom for any callers, squads, events, golfers,       *)
(* boxes, plans and bands. The row locks do it: a lock has one holder, so  *)
(* what a transaction read under the contest's lock is still so when it    *)
(* commits, and no entry is deleted under its own lock. The cap, the       *)
(* expansions, the boxes, the draw, the rosters and the lineups follow     *)
(* from what was read.                                                     *)
(***************************************************************************)
EXTENDS EntryRoom, FiniteSetTheorems, SequenceTheorems, WellFoundedInduction, TLAPS

HoldsContest(c) == pc[c] = "locked" /\ req[c].op \in ContestOps
HoldsEntry(c, e) == pc[c] = "locked" /\ req[c].op \in EntryOps /\ req[c].entry = e

(* What the steps need of the types. *)
Shapes ==
  /\ drawn \in BOOLEAN /\ planCap \in Nat /\ bands \in Seq(Nat \ {0})
  /\ entry = [e \in EntryIds |-> entry[e]]
  /\ picks = [e \in EntryIds |-> [v \in Events |-> picks[e][v]]]
  /\ lineup \in [EntryIds -> [Events -> RowStatus]]
  /\ boxes \in [Boxes -> EntryIds \cup {0}]
  /\ entryLock \in [EntryIds -> Callers \cup {Nobody}]
  /\ pc \in [Callers -> {"idle", "waiting", "locked"}]
  /\ req = [c \in Callers |-> req[c]] /\ seen = [c \in Callers |-> seen[c]]

(* What a request asks for. *)
Asks(j) ==
  /\ j.op \in ContestOps \cup EntryOps
  /\ j.op \in EntryOps => j.entry \in EntryIds /\ j.event \in Events
  /\ j.op \in {"create"} => j.cap \in Nat
  /\ j.op \in {"claim"} => j.entry \in EntryIds /\ j.box \in Boxes
  /\ j.op \in {"expand"} => j.band \in Nat \ {0}
  /\ j.op \in {"draw"} => kind = "RANDOM_DRAW" /\ j.event \in Events
  /\ j.op \in {"select", "unselect"} => kind \in RosterKinds
  /\ j.op \in {"digits"} => kind = "SQUARES"
Asked == \A c \in Callers : pc[c] # "idle" => Asks(req[c])

(* A lock has one holder, and its entry is there. *)
Locks ==
  /\ \A c \in Callers : HoldsContest(c) => lock = c
  /\ \A c \in Callers, e \in EntryIds : HoldsEntry(c, e) => entryLock[e] = c /\ e \in Live

(* What the holder of the contest's lock read is so. *)
ReadsAreSo == \A c \in Callers : HoldsContest(c) =>
  /\ seen[c].drawn = drawn /\ seen[c].live = Live /\ seen[c].events = events
  /\ seen[c].band = Band(bands) /\ seen[c].boxes = boxes

Base == Shapes /\ Asked /\ Locks /\ ReadsAreSo

-----------------------------------------------------------------------------
(* The locks. *)

(* What the end of a transaction leaves of the requests and the locks. *)
LEMMA Finished ==
  ASSUME Shapes, NEW c \in Callers, Finish(c)
  PROVE  /\ pc'[c] = "idle" /\ pc' \in [Callers -> {"idle", "waiting", "locked"}]
         /\ \A d \in Callers \ {c} : pc'[d] = pc[d] /\ req'[d] = req[d] /\ seen'[d] = seen[d]
         /\ req' = [d \in Callers |-> req'[d]] /\ seen' = [d \in Callers |-> seen'[d]]
         /\ lock' = IF lock = c THEN Nobody ELSE lock
         /\ \A e \in EntryIds : entryLock'[e] = IF entryLock[e] = c THEN Nobody ELSE entryLock[e]
         /\ entryLock' \in [EntryIds -> Callers \cup {Nobody}]
<1>1. /\ pc \in [Callers -> {"idle", "waiting", "locked"}]
      /\ pc' = [pc EXCEPT ![c] = "idle"]
  BY DEF Shapes, Finish
<1>2. pc'[c] = "idle" /\ pc' \in [Callers -> {"idle", "waiting", "locked"}]
  BY <1>1
<1>3. req = [d \in Callers |-> req[d]] /\ seen = [d \in Callers |-> seen[d]]
  BY DEF Shapes
<1>4. /\ \A d \in Callers \ {c} : pc'[d] = pc[d] /\ req'[d] = req[d] /\ seen'[d] = seen[d]
      /\ req' = [d \in Callers |-> req'[d]] /\ seen' = [d \in Callers |-> seen'[d]]
  BY <1>1, <1>3 DEF Finish
<1>5. \A e \in EntryIds : entryLock'[e] = IF entryLock[e] = c THEN Nobody ELSE entryLock[e]
  BY DEF Finish
<1>6. entryLock' \in [EntryIds -> Callers \cup {Nobody}]
  BY DEF Finish, Shapes
<1>7. lock' = IF lock = c THEN Nobody ELSE lock
  BY DEF Finish
<1> QED
  BY <1>2, <1>4, <1>5, <1>6, <1>7

(* A transaction that ends keeps the locks and the reads of the others. *)
LEMMA FinishKeeps ==
  ASSUME Base, NEW c \in Callers, Finish(c), kind' = kind,
         \A e \in Live : entryLock[e] \notin {c, Nobody} => e \in Live',
         \/ UNCHANGED <<drawn, events, bands, boxes, entry>>
         \/ HoldsContest(c)
  PROVE  Asked' /\ Locks' /\ ReadsAreSo'
<1>b. Shapes /\ Asked /\ Locks /\ ReadsAreSo
  BY DEF Base
<1>1. /\ pc'[c] = "idle"
      /\ \A d \in Callers \ {c} : pc'[d] = pc[d] /\ req'[d] = req[d] /\ seen'[d] = seen[d]
      /\ lock' = IF lock = c THEN Nobody ELSE lock
      /\ \A e \in EntryIds : entryLock'[e] = IF entryLock[e] = c THEN Nobody ELSE entryLock[e]
  BY <1>b, Finished
<1>2. Asked'
  BY <1>b, <1>1 DEF Asked, Asks
<1>3. \A d \in Callers : HoldsContest(d)' => d # c /\ HoldsContest(d)
  BY <1>1 DEF HoldsContest
<1>4. \A d \in Callers, e \in EntryIds : HoldsEntry(d, e)' => d # c /\ HoldsEntry(d, e)
  BY <1>1 DEF HoldsEntry
<1>5. Locks'
  <2>1. ASSUME NEW d \in Callers, HoldsContest(d)' PROVE lock' = d
    BY <1>1, <1>3, <1>b, <2>1 DEF Locks
  <2>2. ASSUME NEW d \in Callers, NEW e \in EntryIds, HoldsEntry(d, e)'
        PROVE  entryLock'[e] = d /\ e \in Live'
    <3>1. d # c /\ entryLock[e] = d /\ e \in Live
      BY <1>4, <1>b, <2>2 DEF Locks
    <3>2. d # Nobody
      BY RoomAssumption
    <3> QED
      BY <1>1, <3>1, <3>2
  <2> QED
    BY <2>1, <2>2 DEF Locks
<1>6. ReadsAreSo'
  <2> SUFFICES ASSUME NEW d \in Callers, HoldsContest(d)'
               PROVE  /\ seen'[d].drawn = drawn' /\ seen'[d].live = Live' /\ seen'[d].events = events'
                      /\ seen'[d].band = Band(bands') /\ seen'[d].boxes = boxes'
    BY DEF ReadsAreSo
  <2>1. d # c /\ HoldsContest(d)
    BY <1>3
  <2>2. ~HoldsContest(c)
    BY <1>b, <2>1 DEF Locks
  <2>3. UNCHANGED <<drawn, events, bands, boxes, entry>>
    BY <2>2
  <2>4. Live' = Live
    BY <2>3 DEF Live
  <2> QED
    BY <1>1, <1>b, <2>1, <2>3, <2>4 DEF ReadsAreSo
<1> QED
  BY <1>2, <1>5, <1>6

-----------------------------------------------------------------------------
(* Every step keeps the base. *)

LEMMA Requested ==
  ASSUME Shapes, NEW c \in Callers, Request(c)
  PROVE  \E j : Ask(c, j) /\ Asks(j)
<1>0. Live \subseteq EntryIds /\ planCap \in Nat
  BY DEF Live, Shapes
<1>1. CASE RequestEntry(c)
  <2>1. PICK s \in Squads :
          Ask(c, [op |-> "create", squad |-> s, cap |-> planCap, number |-> NextEntryNumber(s)])
    BY <1>1 DEF RequestEntry
  <2>2. Asks([op |-> "create", squad |-> s, cap |-> planCap, number |-> NextEntryNumber(s)])
    BY <1>0 DEF Asks, ContestOps, EntryOps
  <2> QED
    BY <2>1, <2>2
<1>2. CASE RequestLeave(c)
  <2>1. PICK s \in Squads : Ask(c, [op |-> "leave", entry |-> FirstEntry(s)])
    BY <1>2 DEF RequestLeave
  <2>2. Asks([op |-> "leave", entry |-> FirstEntry(s)])
    BY DEF Asks, ContestOps, EntryOps
  <2> QED
    BY <2>1, <2>2
<1>3. CASE RequestPick(c)
  <2>1. PICK e \in Live, g \in Golfers, op \in {"select", "unselect"} :
          /\ kind \in RosterKinds
          /\ Ask(c, [op |-> op, entry |-> e, golfer |-> g, event |-> EventOf[g]])
    BY <1>3 DEF RequestPick
  <2>2. Asks([op |-> op, entry |-> e, golfer |-> g, event |-> EventOf[g]])
    BY <1>0, <2>1, RoomAssumption DEF Asks, ContestOps, EntryOps, RosterKinds
  <2> QED
    BY <2>1, <2>2
<1>4. CASE RequestSubmit(c)
  <2>1. PICK e \in Live, v \in Events : Ask(c, [op |-> "submit", entry |-> e, event |-> v])
    BY <1>4 DEF RequestSubmit
  <2>2. Asks([op |-> "submit", entry |-> e, event |-> v])
    BY <1>0 DEF Asks, ContestOps, EntryOps
  <2> QED
    BY <2>1, <2>2
<1>5. CASE RequestDraw(c)
  <2>1. PICK v \in Events : kind = "RANDOM_DRAW" /\ Ask(c, [op |-> "draw", dealt |-> Live, event |-> v])
    BY <1>5 DEF RequestDraw
  <2>2. Asks([op |-> "draw", dealt |-> Live, event |-> v])
    BY <2>1 DEF Asks, ContestOps, EntryOps
  <2> QED
    BY <2>1, <2>2
<1>6. CASE RequestClaim(c)
  <2>1. PICK e \in Live, b \in Boxes :
          Ask(c, [op |-> "claim", entry |-> e, box |-> b])
    BY <1>6 DEF RequestClaim
  <2>2. Asks([op |-> "claim", entry |-> e, box |-> b])
    BY <1>0, <2>1 DEF Asks, ContestOps, EntryOps
  <2> QED
    BY <2>1, <2>2
<1>7. CASE RequestClear(c)
  <2>1. PICK b \in Boxes :
          Ask(c, [op |-> "clear", entry |-> boxes[b], box |-> b])
    BY <1>7 DEF RequestClear
  <2>2. Asks([op |-> "clear", entry |-> boxes[b], box |-> b])
    BY <2>1 DEF Asks, ContestOps, EntryOps
  <2> QED
    BY <2>1, <2>2
<1>8. CASE RequestDigits(c)
  <2>1. Asks([op |-> "digits"])
    BY <1>8 DEF RequestDigits, Asks, ContestOps, EntryOps
  <2> QED
    BY <1>8, <2>1 DEF RequestDigits
<1>9. CASE RequestEvents(c)
  <2>1. PICK E \in SUBSET Events : Ask(c, [op |-> "setEvents", events |-> E])
    BY <1>9 DEF RequestEvents
  <2>2. Asks([op |-> "setEvents", events |-> E])
    BY <2>1 DEF Asks, ContestOps, EntryOps
  <2> QED
    BY <2>1, <2>2
<1>10. CASE RequestExpansion(c)
  <2>1. PICK n \in Bands : Ask(c, [op |-> "expand", band |-> n])
    BY <1>10 DEF RequestExpansion
  <2>2. Asks([op |-> "expand", band |-> n])
    BY RoomAssumption DEF Asks, ContestOps, EntryOps
  <2> QED
    BY <2>1, <2>2
<1>11. CASE RequestDelete(c)
  <2>1. Asks([op |-> "delete"])
    BY DEF Asks, ContestOps, EntryOps
  <2> QED
    BY <1>11, <2>1 DEF RequestDelete
<1>12. CASE RequestCleanUp(c)
  <2>1. Asks([op |-> "cleanUp"])
    BY DEF Asks, ContestOps, EntryOps
  <2> QED
    BY <1>12, <2>1 DEF RequestCleanUp
<1> QED
  BY <1>1, <1>2, <1>3, <1>4, <1>5, <1>6, <1>7, <1>8, <1>9, <1>10, <1>11, <1>12 DEF Request

LEMMA RequestBase ==
  ASSUME Base, NEW c \in Callers, Request(c)
  PROVE  Base' /\ UNCHANGED <<contest, room>>
<1>b. Shapes /\ Asked /\ Locks /\ ReadsAreSo
  BY DEF Base
<1>1. PICK j : Ask(c, j) /\ Asks(j)
  BY <1>b, Requested
<1>2. /\ UNCHANGED <<kind, drawn, planCap, bands, events, entry, picks, lineup, boxes, lock, entryLock, seen>>
      /\ UNCHANGED <<contest, room>> /\ pc' = [pc EXCEPT ![c] = "waiting"] /\ req' = [req EXCEPT ![c] = j]
  BY <1>1 DEF Ask, contest, room
<1>3. /\ pc \in [Callers -> {"idle", "waiting", "locked"}] /\ req = [d \in Callers |-> req[d]]
  BY <1>b DEF Shapes
<1>4. /\ pc'[c] = "waiting" /\ req'[c] = j
      /\ \A d \in Callers \ {c} : pc'[d] = pc[d] /\ req'[d] = req[d]
      /\ pc' \in [Callers -> {"idle", "waiting", "locked"}] /\ req' = [d \in Callers |-> req'[d]]
  BY <1>2, <1>3
<1>5. Shapes'
  BY <1>b, <1>2, <1>4 DEF Shapes
<1>6. Asked'
  <2>1. ASSUME NEW d \in Callers, pc'[d] # "idle" PROVE Asks(req[d])' 
    <3>1. CASE d = c
      BY <1>1, <1>2, <1>4, <3>1 DEF Asks
    <3>2. CASE d # c
      BY <1>b, <1>2, <1>4, <2>1, <3>2 DEF Asked, Asks
    <3> QED
      BY <3>1, <3>2
  <2> QED
    BY <2>1 DEF Asked
<1>7. Locks'
  BY <1>b, <1>2, <1>4 DEF Locks, HoldsContest, HoldsEntry, Live
<1>8. ReadsAreSo'
  <2>1. \A d \in Callers : HoldsContest(d)' => HoldsContest(d)
    BY <1>4 DEF HoldsContest
  <2> QED
    BY <1>b, <1>2, <2>1 DEF ReadsAreSo, Live
<1> QED
  BY <1>2, <1>5, <1>6, <1>7, <1>8 DEF Base

LEMMA TakeBase ==
  ASSUME Base, NEW c \in Callers, TakeContestLock(c) \/ TakeEntryLock(c)
  PROVE  Base' /\ UNCHANGED <<contest, room>>
<1>b. Shapes /\ Asked /\ Locks /\ ReadsAreSo
  BY DEF Base
<1>2. /\ UNCHANGED <<kind, drawn, planCap, bands, events, entry, picks, lineup, boxes, req>>
      /\ UNCHANGED <<contest, room>> /\ pc[c] = "waiting" /\ pc' = [pc EXCEPT ![c] = "locked"]
  BY DEF TakeContestLock, TakeEntryLock, contest, room
<1>3. /\ pc \in [Callers -> {"idle", "waiting", "locked"}] /\ seen = [d \in Callers |-> seen[d]]
      /\ entryLock \in [EntryIds -> Callers \cup {Nobody}]
  BY <1>b DEF Shapes
<1>4. /\ pc'[c] = "locked" /\ \A d \in Callers \ {c} : pc'[d] = pc[d] /\ seen'[d] = seen[d]
      /\ pc' \in [Callers -> {"idle", "waiting", "locked"}] /\ seen' = [d \in Callers |-> seen'[d]]
  <2>1. \E r : seen' = [seen EXCEPT ![c] = r]
    BY DEF TakeContestLock, TakeEntryLock
  <2> QED
    BY <1>2, <1>3, <2>1
<1>5. entryLock' \in [EntryIds -> Callers \cup {Nobody}]
  BY <1>3 DEF TakeContestLock, TakeEntryLock
<1>6. Shapes'
  BY <1>b, <1>2, <1>4, <1>5 DEF Shapes
<1>7. Asked'
  BY <1>b, <1>2, <1>4 DEF Asked, Asks
<1>8. Live' = Live
  BY <1>2 DEF Live
<1>n. \A d \in Callers : d # Nobody
  BY RoomAssumption
<1>9. CASE TakeContestLock(c)
  <2>1. /\ lock = Nobody /\ lock' = c /\ entryLock' = entryLock /\ req[c].op \in ContestOps
        /\ seen' = [seen EXCEPT ![c] = ContestRows]
    BY <1>9 DEF TakeContestLock, ContestFree
  <2>2. \A d \in Callers : HoldsContest(d)' => d = c
    BY <1>b, <1>2, <1>4, <1>n, <2>1 DEF HoldsContest, Locks
  <2>3. \A d \in Callers, e \in EntryIds : HoldsEntry(d, e)' => HoldsEntry(d, e)
    BY <1>2, <1>4, <2>1 DEF HoldsEntry, ContestOps, EntryOps
  <2>4. Locks'
    BY <1>b, <1>8, <2>1, <2>2, <2>3 DEF Locks
  <2>5. /\ seen'[c].drawn = drawn /\ seen'[c].live = Live /\ seen'[c].events = events
        /\ seen'[c].band = Band(bands) /\ seen'[c].boxes = boxes
    <3>1. seen'[c] = ContestRows
      BY <1>3, <2>1
    <3> QED
      BY <3>1 DEF ContestRows
  <2>6. ReadsAreSo'
    BY <1>2, <1>8, <2>2, <2>5 DEF ReadsAreSo
  <2> QED
    BY <1>2, <1>6, <1>7, <2>4, <2>6 DEF Base
<1>10. CASE TakeEntryLock(c)
  <2>1. /\ lock' = lock /\ req[c].op \in EntryOps /\ req[c].entry \in Live
        /\ entryLock[req[c].entry] = Nobody /\ entryLock' = [entryLock EXCEPT ![req[c].entry] = c]
    BY <1>10 DEF TakeEntryLock, EntryFree
  <2>2. \A d \in Callers : HoldsContest(d)' => HoldsContest(d) /\ d # c
    BY <1>2, <1>4, <2>1 DEF HoldsContest, ContestOps, EntryOps
  <2>3. Locks'
    <3>1. \A d \in Callers : HoldsContest(d)' => lock' = d
      BY <1>b, <2>1, <2>2 DEF Locks
    <3>2. ASSUME NEW d \in Callers, NEW e \in EntryIds, HoldsEntry(d, e)'
          PROVE  entryLock'[e] = d /\ e \in Live'
      <4>1. CASE d = c
        <5>1. e = req[c].entry
          BY <1>2, <3>2, <4>1 DEF HoldsEntry
        <5> QED
          BY <1>3, <1>8, <2>1, <4>1, <5>1
      <4>2. CASE d # c
        <5>1. HoldsEntry(d, e)
          BY <1>2, <1>4, <3>2, <4>2 DEF HoldsEntry
        <5>2. entryLock[e] = d /\ e \in Live /\ e # req[c].entry
          BY <1>b, <1>n, <2>1, <5>1 DEF Locks
        <5> QED
          BY <1>3, <1>8, <2>1, <5>2
      <4> QED
        BY <4>1, <4>2
    <3> QED
      BY <3>1, <3>2 DEF Locks
  <2>4. ReadsAreSo'
    BY <1>b, <1>2, <1>4, <1>8, <2>2 DEF ReadsAreSo
  <2> QED
    BY <1>2, <1>6, <1>7, <2>3, <2>4 DEF Base
<1> QED
  BY <1>9, <1>10

(* The transactions on the contest: its rows are its holder's to write. *)
LEMMA CommitBase ==
  ASSUME Base, NEW c \in Callers, NEW op \in ContestOps, Commit(c, op), kind' = kind,
         drawn' \in BOOLEAN, planCap' = planCap, bands' \in Seq(Nat \ {0}),
         entry' = [e \in EntryIds |-> entry'[e]], picks' = [e \in EntryIds |-> [v \in Events |-> picks'[e][v]]],
         lineup' \in [EntryIds -> [Events -> RowStatus]],
         boxes' \in [Boxes -> EntryIds \cup {0}],
         \A e \in Live : entryLock[e] # Nobody => e \in Live'
  PROVE  Base'
<1>b. Shapes /\ Asked /\ Locks /\ ReadsAreSo
  BY DEF Base
<1>1. HoldsContest(c) /\ Finish(c)
  BY DEF Commit, At, HoldsContest
<1>2. Asked' /\ Locks' /\ ReadsAreSo'
  BY <1>1, FinishKeeps
<1>3. Shapes'
  BY <1>b, <1>1, Finished DEF Shapes
<1> QED
  BY <1>2, <1>3 DEF Base

(* An entry removed is not locked, so the locked ones stay. *)
LEMMA RemovedShapes ==
  ASSUME Shapes, NEW es \in SUBSET Live, Removed(es), Unlocked(es)
  PROVE  /\ entry' = [e \in EntryIds |-> entry'[e]]
         /\ lineup' \in [EntryIds -> [Events -> RowStatus]]
         /\ boxes' \in [Boxes -> EntryIds \cup {0}]
         /\ Live' = Live \ es
         /\ \A e \in Live : entryLock[e] # Nobody => e \in Live'
<1>1. \A e \in EntryIds : entry'[e] = IF e \in es THEN Gone ELSE entry[e]
  BY DEF Removed
<1>2. Gone.state # "live"
  BY DEF Gone
<1>3. Live' = Live \ es
  BY <1>1, <1>2 DEF Live
<1>4. NoRow \in [Events -> RowStatus]
  BY DEF NoRow, RowStatus
<1>5. lineup' \in [EntryIds -> [Events -> RowStatus]]
  BY <1>4 DEF Removed, Shapes
<1>6. boxes' \in [Boxes -> EntryIds \cup {0}]
  BY DEF Removed, Shapes
<1>7. entry' = [e \in EntryIds |-> entry'[e]]
  BY DEF Removed
<1> QED
  BY <1>3, <1>5, <1>6, <1>7 DEF Unlocked

LEMMA ContestBase ==
  ASSUME Base, NEW c \in Callers,
         \/ CreateEntry(c) \/ LeaveContest(c) \/ RecordDraw(c) \/ ClaimBox(c) \/ ClearBox(c)
         \/ RecordDigits(c) \/ ReplaceSportEvents(c) \/ Expand(c) \/ DeleteContest(c)
  PROVE  Base'
<1>b. Shapes /\ Asked /\ Locks /\ ReadsAreSo
  BY DEF Base
<1>s. /\ drawn \in BOOLEAN /\ bands \in Seq(Nat \ {0})
      /\ entry = [e \in EntryIds |-> entry[e]] /\ picks = [e \in EntryIds |-> [v \in Events |-> picks[e][v]]]
      /\ lineup \in [EntryIds -> [Events -> RowStatus]] /\ boxes \in [Boxes -> EntryIds \cup {0}]
  BY <1>b DEF Shapes
<1>a. pc[c] # "idle" => Asks(req[c])
  BY <1>b DEF Asked
<1>r. {"NONE", "DRAFT", "SUBMITTED"} \subseteq RowStatus
  BY DEF RowStatus
<1>1. CASE CreateEntry(c)
  <2>1. /\ Commit(c, "create") /\ UNCHANGED <<kind, drawn, planCap, bands, picks, boxes>>
        /\ "create" \in ContestOps
    BY <1>1 DEF CreateEntry, contest, ContestOps
  <2>2. PICK e \in EntryIds :
          /\ entry[e] = Unborn
          /\ entry' = [entry EXCEPT ![e] = [state |-> "live", squad |-> req[c].squad, number |-> req[c].number]]
          /\ lineup' = [lineup EXCEPT ![e] = [v \in Events |-> IF v \in seen[c].events THEN "DRAFT" ELSE "NONE"]]
    BY <1>1 DEF CreateEntry
  <2>3. [v \in Events |-> IF v \in seen[c].events THEN "DRAFT" ELSE "NONE"] \in [Events -> RowStatus]
    BY <1>r
  <2>4. entry' = [f \in EntryIds |-> entry'[f]] /\ lineup' \in [EntryIds -> [Events -> RowStatus]]
    BY <1>s, <2>2, <2>3
  <2>5. Live \subseteq Live'
    <3>1. \A f \in EntryIds \ {e} : entry'[f] = entry[f]
      BY <1>s, <2>2
    <3>2. e \notin Live
      BY <2>2 DEF Live, Unborn
    <3> QED
      BY <3>1, <3>2 DEF Live
  <2> QED
    BY <1>s, <2>1, <2>4, <2>5, CommitBase
<1>2. CASE LeaveContest(c)
  <2>1. /\ Commit(c, "leave") /\ UNCHANGED <<kind, drawn, planCap, bands, picks>>
        /\ "leave" \in ContestOps /\ Removed({req[c].entry}) /\ Unlocked({req[c].entry})
    BY <1>2 DEF LeaveContest, contest, ContestOps
  <2>2. req[c].entry \in Live
    BY <2>1 DEF Commit, At, Allowed, MayLeave
  <2> QED
    BY <1>b, <1>s, <2>1, <2>2, RemovedShapes, CommitBase
<1>3. CASE RecordDraw(c) \/ RecordDigits(c)
  <2>1. /\ UNCHANGED <<kind, planCap, bands, entry, boxes>> /\ drawn' = TRUE
        /\ \E op \in ContestOps : Commit(c, op)
    BY <1>3 DEF RecordDraw, RecordDigits, ContestOps
  <2>2. picks' = [e \in EntryIds |-> [v \in Events |-> picks'[e][v]]]
    BY <1>3, <1>s DEF RecordDraw, RecordDigits
  <2>3. lineup' \in [EntryIds -> [Events -> RowStatus]]
    <3>1. \A e \in EntryIds, v \in Events : lineup[e][v] \in RowStatus /\ "SUBMITTED" \in RowStatus
      BY <1>s, <1>r
    <3>2. CASE RecordDraw(c)
      BY <3>1, <3>2 DEF RecordDraw
    <3>3. CASE RecordDigits(c)
      BY <3>1, <3>3 DEF RecordDigits
    <3> QED
      BY <1>3, <3>2, <3>3
  <2>4. Live' = Live
    BY <2>1 DEF Live
  <2> QED
    BY <1>s, <2>1, <2>2, <2>3, <2>4, CommitBase
<1>4. CASE ClaimBox(c)
  <2>1. /\ Commit(c, "claim") /\ UNCHANGED <<kind, drawn, planCap, bands, entry, picks, lineup>>
        /\ "claim" \in ContestOps /\ boxes' = [boxes EXCEPT ![req[c].box] = req[c].entry]
    BY <1>4 DEF ClaimBox, contest, ContestOps
  <2>2. req[c].entry \in EntryIds
    BY <1>a, <2>1 DEF Commit, At, Asks
  <2>3. boxes' \in [Boxes -> EntryIds \cup {0}] /\ Live' = Live
    BY <1>s, <2>1, <2>2 DEF Live
  <2> QED
    BY <1>s, <2>1, <2>3, CommitBase
<1>5. CASE ClearBox(c)
  <2>1. /\ Commit(c, "clear") /\ UNCHANGED <<kind, drawn, planCap, bands, entry, picks, lineup>>
        /\ "clear" \in ContestOps
        /\ boxes' = [boxes EXCEPT ![req[c].box] = IF @ = req[c].entry THEN 0 ELSE @]
    BY <1>5 DEF ClearBox, contest, ContestOps
  <2>2. boxes' \in [Boxes -> EntryIds \cup {0}] /\ Live' = Live
    BY <1>s, <2>1 DEF Live
  <2> QED
    BY <1>s, <2>1, <2>2, CommitBase
<1>6. CASE ReplaceSportEvents(c)
  <2>1. /\ Commit(c, "setEvents") /\ UNCHANGED <<kind, drawn, planCap, bands, entry, boxes>>
        /\ "setEvents" \in ContestOps
    BY <1>6 DEF ReplaceSportEvents, ContestOps
  <2>2. picks' = [e \in EntryIds |-> [v \in Events |-> picks'[e][v]]]
    BY <1>6 DEF ReplaceSportEvents
  <2>3. lineup' \in [EntryIds -> [Events -> RowStatus]]
    BY <1>6, <1>s, <1>r DEF ReplaceSportEvents
  <2>4. Live' = Live
    BY <2>1 DEF Live
  <2> QED
    BY <1>s, <2>1, <2>2, <2>3, <2>4, CommitBase
<1>7. CASE Expand(c)
  <2>1. /\ Commit(c, "expand") /\ UNCHANGED <<kind, drawn, planCap, entry, picks, lineup, boxes>>
        /\ "expand" \in ContestOps /\ bands' = Append(bands, req[c].band)
    BY <1>7 DEF Expand, ContestOps, room
  <2>2. req[c].band \in Nat \ {0}
    BY <1>a, <2>1 DEF Commit, At, Asks
  <2>3. bands' \in Seq(Nat \ {0}) /\ Live' = Live
    BY <1>s, <2>1, <2>2 DEF Live
  <2> QED
    BY <1>s, <2>1, <2>3, CommitBase
<1>8. CASE DeleteContest(c)
  <2>1. PICK op \in {"delete", "cleanUp"} :
          /\ Commit(c, op) /\ Unlocked(Live) /\ Removed(Live)
          /\ picks' = [e \in EntryIds |-> NoPicks]
          /\ UNCHANGED <<kind, drawn, planCap, bands>>
    BY <1>8 DEF DeleteContest
  <2>2. op \in ContestOps /\ Live \in SUBSET Live
    BY DEF ContestOps
  <2>3. picks' = [e \in EntryIds |-> [v \in Events |-> picks'[e][v]]]
    BY <2>1 DEF NoPicks
  <2> QED
    BY <1>b, <1>s, <2>1, <2>2, <2>3, RemovedShapes, CommitBase
<1> QED
  BY <1>1, <1>2, <1>3, <1>4, <1>5, <1>6, <1>7, <1>8

(* Steps that leave the contest, its entries and its boxes alone. *)
LEMMA AsideBase ==
  ASSUME Base, NEW c \in Callers,
         \/ ChangeEntryPick(c) \/ SettleEntryEvent(c)
         \/ (EntryMissing(c) \/ Refuse(c) \/ Fail(c))
  PROVE  Base' /\ UNCHANGED <<contest, entry, boxes>>
<1>b. Shapes /\ Asked /\ Locks /\ ReadsAreSo
  BY DEF Base
<1>s. /\ picks = [e \in EntryIds |-> [v \in Events |-> picks[e][v]]] /\ lineup \in [EntryIds -> [Events -> RowStatus]]
  BY <1>b DEF Shapes
<1>1. Finish(c) /\ UNCHANGED <<contest, entry, boxes>>
  BY DEF ChangeEntryPick, SettleEntryEvent, EntryMissing, Refuse, Fail, room
<1>2. UNCHANGED <<kind, drawn, planCap, bands, events, entry, boxes>> /\ Live' = Live
  BY <1>1 DEF contest, Live
<1>3. picks' = [e \in EntryIds |-> [v \in Events |-> picks'[e][v]]]
  <2>1. CASE ChangeEntryPick(c)
    <3>0. req[c].entry \in EntryIds /\ req[c].event \in Events
      BY <1>b, <2>1 DEF ChangeEntryPick, At, Asked, Asks, EntryOps
    <3> DEFINE change == Change(req[c].op, seen[c].picks, req[c].golfer, req[c].event)
               row == Without(picks[req[c].entry][req[c].event], change.remove) \o change.add
    <3>1. picks' = picks \/ picks' = [picks EXCEPT ![req[c].entry][req[c].event] = row]
      BY <2>1, <1>s, <3>0 DEF ChangeEntryPick
    <3> HIDE DEF change, row
    <3> DEFINE held == [picks[req[c].entry] EXCEPT ![req[c].event] = row]
    <3>2. picks[req[c].entry] = [v \in Events |-> picks[req[c].entry][v]]
      BY <1>s, <3>0
    <3>3. held = [v \in Events |-> held[v]]
      BY <3>2
    <3>4. [picks EXCEPT ![req[c].entry][req[c].event] = row] = [picks EXCEPT ![req[c].entry] = held]
      OBVIOUS
    <3> HIDE DEF held
    <3>5. CASE picks' = [picks EXCEPT ![req[c].entry] = held]
      BY <1>s, <3>0, <3>3, <3>5
    <3> QED
      BY <1>s, <3>1, <3>4, <3>5
  <2>2. CASE SettleEntryEvent(c) \/ EntryMissing(c) \/ Refuse(c) \/ Fail(c)
    BY <1>s, <2>2 DEF SettleEntryEvent, EntryMissing, Refuse, Fail, room
  <2> QED
    BY <2>1, <2>2
<1>4. lineup' \in [EntryIds -> [Events -> RowStatus]]
  <2>1. CASE ChangeEntryPick(c)
    <3>1. lineup' = lineup \/ \E e \in EntryIds, v \in Events, x \in RowStatus : lineup' = [lineup EXCEPT ![e][v] = x]
      <4>0. req[c].entry \in EntryIds /\ req[c].event \in Events
        BY <1>b, <2>1 DEF ChangeEntryPick, At, Asked, Asks, EntryOps
      <4>1. lineup[req[c].entry][req[c].event] \in RowStatus /\ "DRAFT" \in RowStatus
        BY <1>s, <4>0 DEF RowStatus
      <4> DEFINE change == Change(req[c].op, seen[c].picks, req[c].golfer, req[c].event)
                 after == Without(seen[c].picks, change.remove) \o change.add
                 x == IF StatusAfterPickChange(seen[c].status, after, req[c].event) = seen[c].status
                      THEN lineup[req[c].entry][req[c].event] ELSE "DRAFT"
      <4>2. lineup' = lineup \/ lineup' = [lineup EXCEPT ![req[c].entry][req[c].event] = x]
        BY <2>1, <1>s, <4>0 DEF ChangeEntryPick
      <4>3. x \in RowStatus
        BY <4>1
      <4> QED
        BY <4>0, <4>2, <4>3
    <3>2. ASSUME NEW e \in EntryIds, NEW v \in Events, NEW x \in RowStatus,
                 lineup' = [lineup EXCEPT ![e][v] = x]
          PROVE  lineup' \in [EntryIds -> [Events -> RowStatus]]
      <4>1. [lineup[e] EXCEPT ![v] = x] \in [Events -> RowStatus]
        BY <1>s
      <4>2. [lineup EXCEPT ![e][v] = x] = [lineup EXCEPT ![e] = [lineup[e] EXCEPT ![v] = x]]
        OBVIOUS
      <4> QED
        BY <1>s, <3>2, <4>1, <4>2
    <3> QED
      BY <1>s, <3>1, <3>2
  <2>2. CASE SettleEntryEvent(c)
    <3>0. req[c].entry \in EntryIds /\ req[c].event \in Events /\ "SUBMITTED" \in RowStatus
      BY <1>b, <2>2 DEF SettleEntryEvent, At, Asked, Asks, EntryOps, RowStatus
    <3>1. lineup' = lineup \/ lineup' = [lineup EXCEPT ![req[c].entry][req[c].event] = "SUBMITTED"]
      BY <2>2 DEF SettleEntryEvent
    <3> QED
      <4>1. [lineup[req[c].entry] EXCEPT ![req[c].event] = "SUBMITTED"] \in [Events -> RowStatus]
        BY <1>s, <3>0
      <4>2. [lineup EXCEPT ![req[c].entry][req[c].event] = "SUBMITTED"]
              = [lineup EXCEPT ![req[c].entry] =
                   [lineup[req[c].entry] EXCEPT ![req[c].event] = "SUBMITTED"]]
        OBVIOUS
      <4> QED
        BY <1>s, <3>0, <3>1, <4>1, <4>2
  <2>3. CASE EntryMissing(c) \/ Refuse(c) \/ Fail(c)
    BY <1>s, <2>3 DEF EntryMissing, Refuse, Fail, room
  <2> QED
    BY <2>1, <2>2, <2>3
<1>5. Shapes'
  BY <1>b, <1>1, <1>2, <1>3, <1>4, Finished DEF Shapes
<1>6. Asked' /\ Locks' /\ ReadsAreSo'
  BY <1>1, <1>2, FinishKeeps
<1> QED
  BY <1>1, <1>5, <1>6 DEF Base

(* The rest of the program writes the status, the time and the plan. *)
LEMMA WorldBase ==
  ASSUME Base, OpenContest \/ ActivateContest \/ EventStarts \/ ChangePlan \/ UNCHANGED vars
  PROVE  /\ Base'
         /\ UNCHANGED <<kind, drawn, events, bands, entry, picks, lineup, boxes, pc, req, seen>>
<1>b. Shapes /\ Asked /\ Locks /\ ReadsAreSo
  BY DEF Base
<1>1. UNCHANGED <<kind, drawn, events, bands, entry, picks, lineup, boxes, pc, req, seen, lock, entryLock>>
  BY DEF OpenContest, ActivateContest, EventStarts, ChangePlan, vars, contest, room
<1>2. planCap' \in Nat
  BY <1>b, RoomAssumption
    DEF OpenContest, ActivateContest, EventStarts, ChangePlan, vars, contest, Shapes
<1>3. Shapes' /\ Asked'
  BY <1>b, <1>1, <1>2 DEF Shapes, Asked, Asks
<1>4. Locks' /\ ReadsAreSo'
  BY <1>b, <1>1 DEF Locks, ReadsAreSo, HoldsContest, HoldsEntry, Live
<1> QED
  BY <1>1, <1>3, <1>4 DEF Base

LEMMA BaseInit == Init => Base
<1> SUFFICES ASSUME Init PROVE Base
  OBVIOUS
<1>1. Shapes
  <2>1. NoRow \in [Events -> RowStatus]
    BY DEF NoRow, RowStatus
  <2>2. bands = <<>> /\ <<>> \in Seq(Nat \ {0})
    BY DEF Init
  <2>3. planCap \in Nat
    BY RoomAssumption DEF Init
  <2>4. picks = [e \in EntryIds |-> [v \in Events |-> picks[e][v]]]
    BY DEF Init, NoPicks
  <2> QED
    BY <2>1, <2>2, <2>3, <2>4 DEF Init, Shapes
<1>2. Asked /\ Locks /\ ReadsAreSo
  BY DEF Init, Asked, Locks, ReadsAreSo, HoldsContest, HoldsEntry
<1> QED
  BY <1>1, <1>2 DEF Base

LEMMA BaseStep == Base /\ [Next]_vars => Base'
<1> SUFFICES ASSUME Base, [Next]_vars PROVE Base'
  OBVIOUS
<1>1. CASE \E c \in Callers : Request(c) \/ Transact(c) \/ Fail(c)
  <2>1. PICK c \in Callers : Request(c) \/ Transact(c) \/ Fail(c)
    BY <1>1
  <2> QED
    BY <2>1, RequestBase, TakeBase, ContestBase, AsideBase DEF Transact
<1>2. CASE OpenContest \/ ActivateContest \/ EventStarts \/ ChangePlan \/ UNCHANGED vars
  BY <1>2, WorldBase
<1> QED
  BY <1>1, <1>2 DEF Next

LEMMA BaseHolds == Spec => []Base
BY BaseInit, BaseStep, PTL DEF Spec

-----------------------------------------------------------------------------
(* What a committed transaction found under the lock. *)
LEMMA Committed ==
  ASSUME Base, NEW c \in Callers, NEW op \in ContestOps, Commit(c, op)
  PROVE  /\ req[c].op \in {op} /\ Allowed(req[c], seen[c]) /\ Asks(req[c])
         /\ seen[c].drawn = drawn /\ seen[c].live = Live /\ seen[c].events = events
         /\ seen[c].band = Band(bands) /\ seen[c].boxes = boxes
<1>1. pc[c] = "locked" /\ req[c].op \in {op} /\ Allowed(req[c], seen[c])
  BY DEF Commit, At
<1>2. HoldsContest(c)
  BY <1>1 DEF HoldsContest
<1> QED
  BY <1>1, <1>2 DEF Base, Asked, ReadsAreSo

(* Only an expansion writes the bands. *)
LEMMA BandsWritten ==
  ASSUME Base, [Next]_vars
  PROVE  bands' = bands \/ \E c \in Callers : Expand(c)
<1>1. CASE \E c \in Callers : Request(c) \/ Transact(c) \/ Fail(c)
  <2>1. PICK c \in Callers : Request(c) \/ Transact(c) \/ Fail(c)
    BY <1>1
  <2>2. CASE Request(c) \/ TakeContestLock(c) \/ TakeEntryLock(c)
    BY <2>2, RequestBase, TakeBase DEF contest
  <2>3. CASE EntryMissing(c) \/ Refuse(c) \/ Fail(c) \/ ChangeEntryPick(c) \/ SettleEntryEvent(c)
    BY <2>3, AsideBase DEF contest
  <2>4. CASE \/ CreateEntry(c) \/ LeaveContest(c) \/ RecordDraw(c) \/ ClaimBox(c) \/ ClearBox(c)
             \/ RecordDigits(c) \/ ReplaceSportEvents(c) \/ DeleteContest(c)
    BY <2>4 DEF CreateEntry, LeaveContest, RecordDraw, ClaimBox, ClearBox, RecordDigits,
                ReplaceSportEvents, DeleteContest, contest
  <2> QED
    BY <2>1, <2>2, <2>3, <2>4 DEF Transact
<1>2. CASE OpenContest \/ ActivateContest \/ EventStarts \/ ChangePlan \/ UNCHANGED vars
  BY <1>2, WorldBase
<1> QED
  BY <1>1, <1>2 DEF Next

(* A band bought tops the last. *)
LEMMA RisingStep ==
  ASSUME Base, ExpansionsRise, [Next]_vars
  PROVE  ExpansionsRise'
<1>1. CASE bands' = bands
  BY <1>1 DEF ExpansionsRise
<1>2. ASSUME NEW c \in Callers, Expand(c) PROVE ExpansionsRise'
  <2>1. Commit(c, "expand") /\ "expand" \in ContestOps /\ bands' = Append(bands, req[c].band)
    BY <1>2 DEF Expand, ContestOps
  <2>2. req[c].op = "expand" /\ Allowed(req[c], seen[c]) /\ seen[c].band = Band(bands) /\ Asks(req[c])
    BY <2>1, Committed
  <2>3. Band(bands) < req[c].band
    BY <2>2 DEF Allowed, MayExpand
  <2>4. bands \in Seq(Nat \ {0}) /\ req[c].band \in Nat \ {0}
    BY <2>2 DEF Base, Shapes, Asks
  <2>5. \A i \in DOMAIN bands : bands[i] < req[c].band
    <3> TAKE i \in DOMAIN bands
    <3>1. Len(bands) \in Nat /\ i \in 1..Len(bands) /\ DOMAIN bands = 1..Len(bands)
      BY <2>4
    <3>2. Band(bands) = bands[Len(bands)] /\ Len(bands) \in DOMAIN bands
      BY <2>4, <3>1 DEF Band, Last
    <3>3. bands[i] \in Nat /\ bands[Len(bands)] \in Nat
      BY <2>4, <3>1, <3>2
    <3>4. i = Len(bands) \/ bands[i] < bands[Len(bands)]
      BY <3>1, <3>2 DEF ExpansionsRise
    <3> QED
      BY <2>3, <2>4, <3>2, <3>3, <3>4
  <2>6. /\ Len(bands') = Len(bands) + 1 /\ DOMAIN bands' = 1..(Len(bands) + 1)
        /\ DOMAIN bands = 1..Len(bands) /\ Len(bands) \in Nat
        /\ \A i \in DOMAIN bands : bands'[i] = bands[i]
        /\ bands'[Len(bands) + 1] = req[c].band
    BY <2>1, <2>4
  <2> SUFFICES ASSUME NEW i \in DOMAIN bands', NEW k \in DOMAIN bands', i < k
               PROVE  bands'[i] < bands'[k]
    BY DEF ExpansionsRise
  <2>7. i \in DOMAIN bands
    BY <2>6
  <2>8. k \in DOMAIN bands \/ k = Len(bands) + 1
    BY <2>6
  <2> QED
    BY <2>5, <2>6, <2>7, <2>8 DEF ExpansionsRise
<1> QED
  BY <1>1, <1>2, BandsWritten

(* An entry's boxes after a change that takes none more. *)
LEMMA FewerBoxes ==
  ASSUME Base, BoxesHeld, Live' \subseteq Live \/ Live \subseteq Live',
         \A b \in Boxes : boxes'[b] # 0 => boxes'[b] = boxes[b] /\ boxes'[b] \in Live'
  PROVE  BoxesHeld'
<1>1. \A b \in Boxes : boxes'[b] # 0 => boxes'[b] \in Live'
  OBVIOUS
<1>2. ASSUME NEW e \in Live' PROVE Cardinality(Held(e)') <= MaxSquaresPerEntry
  <2>0. e \in EntryIds /\ e # 0 /\ MaxSquaresPerEntry \in Nat
    BY RoomAssumption DEF Live, EntryIds
  <2>1. Held(e)' \subseteq Held(e)
    BY <2>0 DEF Held
  <2>2. IsFiniteSet(Held(e)) /\ IsFiniteSet(Held(e)')
    <3>1. Held(e) \subseteq Boxes
      BY DEF Held
    <3>2. IsFiniteSet(Held(e))
      BY <3>1, RoomAssumption, FS_Subset
    <3> QED
      BY <2>1, <3>2, FS_Subset
  <2>3. /\ Cardinality(Held(e)') <= Cardinality(Held(e))
        /\ Cardinality(Held(e)) \in Nat /\ Cardinality(Held(e)') \in Nat
    BY <2>1, <2>2, FS_Subset, FS_CardinalityType
  <2>4. Cardinality(Held(e)) <= MaxSquaresPerEntry
    <3>1. CASE e \in Live
      BY <3>1 DEF BoxesHeld
    <3>2. CASE e \notin Live
      <4>1. Held(e) = {}
        BY <2>0, <3>2 DEF BoxesHeld, Held
      <4> QED
        BY <2>0, <4>1, FS_EmptySet
    <3> QED
      BY <3>1, <3>2
  <2> QED
    BY <2>0, <2>3, <2>4
<1> QED
  BY <1>1, <1>2 DEF BoxesHeld

LEMMA BoxesStep ==
  ASSUME Base, BoxesHeld, [Next]_vars
  PROVE  BoxesHeld'
<1>s. /\ entry = [e \in EntryIds |-> entry[e]] /\ boxes \in [Boxes -> EntryIds \cup {0}]
      /\ \A b \in Boxes : boxes[b] # 0 => boxes[b] \in Live
  BY DEF Base, Shapes, BoxesHeld
<1>u. CASE UNCHANGED <<entry, boxes>>
  <2>1. Live' = Live
    BY <1>u DEF Live
  <2> QED
    BY <1>u, <1>s, <2>1, FewerBoxes
<1>r. ASSUME NEW es \in SUBSET Live, Removed(es) PROVE BoxesHeld'
  <2>1. Gone.state # "live" /\ \A e \in EntryIds : entry'[e] = IF e \in es THEN Gone ELSE entry[e]
    BY <1>r DEF Removed, Gone
  <2>2. Live' = Live \ es
    BY <2>1 DEF Live
  <2>3. \A b \in Boxes : boxes'[b] = IF boxes[b] \in es THEN 0 ELSE boxes[b]
    BY <1>r DEF Removed
  <2> QED
    BY <1>s, <2>2, <2>3, FewerBoxes
<1>1. ASSUME NEW c \in Callers, Request(c) \/ Transact(c) \/ Fail(c) PROVE BoxesHeld'
  <2>1. CASE Request(c) \/ TakeContestLock(c) \/ TakeEntryLock(c)
    BY <2>1, <1>u, RequestBase, TakeBase DEF room
  <2>2. CASE EntryMissing(c) \/ Refuse(c) \/ Fail(c) \/ ChangeEntryPick(c) \/ SettleEntryEvent(c)
    BY <2>2, <1>u, AsideBase
  <2>3. CASE RecordDraw(c) \/ RecordDigits(c) \/ ReplaceSportEvents(c) \/ Expand(c)
    BY <2>3, <1>u DEF RecordDraw, RecordDigits, ReplaceSportEvents, Expand, room
  <2>4. CASE CreateEntry(c)
    <3>1. PICK e \in EntryIds : \E x : entry[e] = Unborn /\ entry' = [entry EXCEPT ![e] = x]
      BY <2>4 DEF CreateEntry
    <3>2. e \notin Live
      BY <3>1 DEF Live, Unborn
    <3>3. Live \subseteq Live'
      BY <1>s, <3>1, <3>2 DEF Live
    <3>4. boxes' = boxes
      BY <2>4 DEF CreateEntry
    <3> QED
      BY <1>s, <3>3, <3>4, FewerBoxes
  <2>5. CASE LeaveContest(c)
    <3>1. Commit(c, "leave") /\ Removed({req[c].entry})
      BY <2>5 DEF LeaveContest
    <3>2. req[c].entry \in Live
      BY <3>1 DEF Commit, At, Allowed, MayLeave
    <3> QED
      BY <1>r, <3>1, <3>2
  <2>6. CASE DeleteContest(c)
    BY <2>6, <1>r DEF DeleteContest
  <2>7. CASE ClearBox(c)
    <3>1. /\ entry' = entry
          /\ boxes' = [boxes EXCEPT ![req[c].box] = IF @ = req[c].entry THEN 0 ELSE @]
      BY <2>7 DEF ClearBox
    <3>2. \A b \in Boxes : boxes'[b] # 0 => boxes'[b] = boxes[b]
      BY <1>s, <3>1
    <3>3. Live' = Live
      BY <3>1 DEF Live
    <3> QED
      BY <1>s, <3>2, <3>3, FewerBoxes
  <2>8. CASE ClaimBox(c)
    <3>1. /\ Commit(c, "claim") /\ "claim" \in ContestOps
          /\ entry' = entry /\ boxes' = [boxes EXCEPT ![req[c].box] = req[c].entry]
      BY <2>8 DEF ClaimBox, ContestOps
    <3>2. /\ req[c].op = "claim" /\ Allowed(req[c], seen[c]) /\ seen[c].boxes = boxes
          /\ req[c].entry \in EntryIds /\ req[c].box \in Boxes
      BY <3>1, Committed DEF Asks
    <3>3. MayClaim(req[c], seen[c])
      BY <3>2 DEF Allowed
    <3> DEFINE f == req[c].entry
               x == req[c].box
    <3>4. Cardinality(Held(f)) < MaxSquaresPerEntry /\ boxes[x] = 0 /\ f \in Live
      BY <3>2, <3>3 DEF MayClaim, Held
    <3>5. f \in EntryIds /\ x \in Boxes /\ f # 0 /\ MaxSquaresPerEntry \in Nat
      BY <3>2, RoomAssumption DEF EntryIds
    <3> HIDE DEF f, x
    <3>6. boxes' = [boxes EXCEPT ![x] = f]
      BY <3>1 DEF f, x
    <3>7. \A b \in Boxes : boxes'[b] = IF b = x THEN f ELSE boxes[b]
      BY <1>s, <3>5, <3>6
    <3>8. Live' = Live
      BY <3>1 DEF Live
    <3>9. \A b \in Boxes : boxes'[b] # 0 => boxes'[b] \in Live'
      BY <1>s, <3>4, <3>7, <3>8
    <3>10. ASSUME NEW e \in Live PROVE Cardinality(Held(e)') <= MaxSquaresPerEntry
      <4>0. e # 0
        BY DEF Live, EntryIds
      <4>1. CASE e = f
        <5>1. Held(e)' = Held(e) \cup {x} /\ x \notin Held(e)
          BY <3>4, <3>5, <3>7, <4>1 DEF Held
        <5>2. IsFiniteSet(Held(e))
          <6>1. Held(e) \subseteq Boxes
            BY DEF Held
          <6> QED
            BY <6>1, RoomAssumption, FS_Subset
        <5>3. Cardinality(Held(e)') = Cardinality(Held(e)) + 1 /\ Cardinality(Held(e)) \in Nat
          BY <5>1, <5>2, FS_AddElement, FS_CardinalityType
        <5> QED
          BY <3>4, <3>5, <4>1, <5>3
      <4>2. CASE e # f
        <5>1. Held(e)' = Held(e)
          BY <3>4, <3>7, <4>0, <4>2 DEF Held
        <5> QED
          BY <5>1 DEF BoxesHeld
      <4> QED
        BY <4>1, <4>2
    <3> QED
      BY <3>8, <3>9, <3>10 DEF BoxesHeld
  <2> QED
    BY <1>1, <2>1, <2>2, <2>3, <2>4, <2>5, <2>6, <2>7, <2>8 DEF Transact
<1>2. CASE OpenContest \/ ActivateContest \/ EventStarts \/ ChangePlan \/ UNCHANGED vars
  BY <1>2, <1>u, WorldBase
<1> QED
  BY <1>1, <1>2 DEF Next

(* Only these transactions write the entries. *)
LEMMA EntriesWritten ==
  ASSUME Base, [Next]_vars
  PROVE  entry' = entry \/ \E c \in Callers : CreateEntry(c) \/ LeaveContest(c) \/ DeleteContest(c)
<1>1. ASSUME NEW c \in Callers, Request(c) \/ Transact(c) \/ Fail(c)
      PROVE  entry' = entry \/ CreateEntry(c) \/ LeaveContest(c) \/ DeleteContest(c)
  <2>2. CASE Request(c) \/ TakeContestLock(c) \/ TakeEntryLock(c)
    BY <2>2, RequestBase, TakeBase DEF room
  <2>3. CASE EntryMissing(c) \/ Refuse(c) \/ Fail(c) \/ ChangeEntryPick(c) \/ SettleEntryEvent(c)
    BY <2>3, AsideBase
  <2>4. CASE RecordDraw(c) \/ ClaimBox(c) \/ ClearBox(c) \/ RecordDigits(c) \/ ReplaceSportEvents(c) \/ Expand(c)
    BY <2>4 DEF RecordDraw, ClaimBox, ClearBox, RecordDigits, ReplaceSportEvents, Expand, room
  <2> QED
    BY <1>1, <2>2, <2>3, <2>4 DEF Transact
<1>2. CASE OpenContest \/ ActivateContest \/ EventStarts \/ ChangePlan \/ UNCHANGED vars
  BY <1>2, WorldBase
<1> QED
  BY <1>1, <1>2 DEF Next

LEMMA RemovedLive ==
  ASSUME NEW es, Removed(es)
  PROVE  Live' \subseteq Live
<1>1. Gone.state # "live" /\ \A e \in EntryIds : entry'[e] = IF e \in es THEN Gone ELSE entry[e]
  BY DEF Removed, Gone
<1> QED
  BY <1>1 DEF Live

LEMMA CapStep ==
  ASSUME Base, [Next]_vars, Live' \ Live # {}
  PROVE  \E c \in Entering : Cardinality(Live') <= ContestEntriesCap(req[c].cap, Band(bands))
<1>s. entry = [e \in EntryIds |-> entry[e]] /\ bands \in Seq(Nat \ {0})
  BY DEF Base, Shapes
<1>1. \A c \in Callers : ~LeaveContest(c) /\ ~DeleteContest(c)
  BY RemovedLive DEF LeaveContest, DeleteContest
<1>2. entry' # entry
  BY DEF Live
<1>3. PICK c \in Callers : CreateEntry(c)
  BY <1>1, <1>2, EntriesWritten
<1>4. Commit(c, "create") /\ "create" \in ContestOps
  BY <1>3 DEF CreateEntry, ContestOps
<1>5. /\ req[c].op = "create" /\ Allowed(req[c], seen[c]) /\ seen[c].live = Live
      /\ seen[c].band = Band(bands) /\ req[c].cap \in Nat
  BY <1>4, Committed DEF Asks
<1>6. Cardinality(Live) < ContestEntriesCap(req[c].cap, Band(bands))
  BY <1>5 DEF Allowed, MayEnter
<1>7. PICK e \in EntryIds : \E x : entry[e] = Unborn /\ entry' = [entry EXCEPT ![e] = x]
  BY <1>3 DEF CreateEntry
<1>8. Live' \subseteq Live \cup {e} /\ e \notin Live
  BY <1>s, <1>7 DEF Live, Unborn
<1>9. Live' = Live \cup {e}
  <2>1. Live \subseteq Live'
    BY <1>s, <1>7, <1>8 DEF Live
  <2> QED
    BY <1>8, <2>1
<1>10. IsFiniteSet(Live)
  <2>1. IsFiniteSet(EntryIds)
    BY RoomAssumption, FS_Interval DEF EntryIds
  <2> QED
    BY <2>1, FS_Subset DEF Live
<1>11. Cardinality(Live') = Cardinality(Live) + 1 /\ Cardinality(Live) \in Nat
  BY <1>8, <1>9, <1>10, FS_AddElement, FS_CardinalityType
<1>12. Band(bands) \in Nat
  <2>1. CASE bands = <<>>
    BY <2>1 DEF Band
  <2>2. CASE bands # <<>>
    BY <1>s, <2>2 DEF Band, Last
  <2> QED
    BY <2>1, <2>2
<1>13. ContestEntriesCap(req[c].cap, Band(bands)) \in Nat
  <2> DEFINE p == req[c].cap
             b == Band(bands)
  <2>1. p \in Nat /\ b \in Nat
    BY <1>5, <1>12
  <2> HIDE DEF p, b
  <2>2. \E x \in {p, b} : \A y \in {p, b} : x >= y
    BY <2>1
  <2>3. Max({p, b}) \in {p, b}
    BY <2>2 DEF Max
  <2>4. Max({p, b}) \in Nat
    BY <2>1, <2>3
  <2> QED
    BY <2>4 DEF p, b, ContestEntriesCap
<1>14. Cardinality(Live') <= ContestEntriesCap(req[c].cap, Band(bands))
  BY <1>6, <1>11, <1>13
<1> QED
  BY <1>5, <1>14 DEF Entering

LEMMA LeaveStep ==
  ASSUME Base, [Next]_vars, NEW e \in Live, entry'[e] = Gone, status' # "DELETED"
  PROVE  ~HasSelections(e)
<1>0. entry[e].state = "live" /\ e \in EntryIds /\ Gone.state = "gone" /\ Unborn.state = "unborn"
  BY DEF Live, Gone, Unborn
<1>s. entry = [f \in EntryIds |-> entry[f]]
  BY DEF Base, Shapes
<1>1. \A c \in Callers : ~DeleteContest(c)
  BY DEF DeleteContest
<1>2. \A c \in Callers : ~CreateEntry(c)
  <2> SUFFICES ASSUME NEW c \in Callers, CreateEntry(c) PROVE FALSE
    OBVIOUS
  <2>1. PICK f \in EntryIds : \E x : entry[f] = Unborn /\ entry' = [entry EXCEPT ![f] = x]
    BY DEF CreateEntry
  <2>2. f # e /\ entry'[e] = entry[e]
    BY <1>0, <1>s, <2>1
  <2> QED
    BY <1>0, <2>2
<1>3. PICK c \in Callers : LeaveContest(c)
  BY <1>0, <1>1, <1>2, EntriesWritten
<1>4. Commit(c, "leave") /\ Removed({req[c].entry})
  BY <1>3 DEF LeaveContest
<1>5. MayLeave(req[c], seen[c])
  BY <1>4 DEF Commit, At, Allowed
<1>6. e = req[c].entry
  BY <1>0, <1>4 DEF Removed
<1> QED
  BY <1>5, <1>6 DEF MayLeave

-----------------------------------------------------------------------------
(***************************************************************************)
(* A contest's expansions rise, whoever buys them: each is judged under    *)
(* the contest's lock against the last one bought.                         *)
(***************************************************************************)
THEOREM BandsRise == Spec => []ExpansionsRise
<1>1. Init => ExpansionsRise
  BY DEF Init, ExpansionsRise
<1>2. Base /\ ExpansionsRise /\ [Next]_vars => ExpansionsRise'
  BY RisingStep
<1> QED
  BY <1>1, <1>2, BaseHolds, PTL DEF Spec

(***************************************************************************)
(* No box of a board is held by an entry that left, and no entry holds     *)
(* more than its limit, however many of its owners claim at once.          *)
(***************************************************************************)
THEOREM BoxesKeepTheirLimit == Spec => []BoxesHeld
<1>1. Init => BoxesHeld
  <2> SUFFICES ASSUME Init PROVE BoxesHeld
    OBVIOUS
  <2>1. \A b \in Boxes : boxes[b] = 0
    BY DEF Init
  <2>2. Live = {}
    BY DEF Init, Live, Unborn
  <2> QED
    BY <2>1, <2>2 DEF BoxesHeld
<1>2. Base /\ BoxesHeld /\ [Next]_vars => BoxesHeld'
  BY BoxesStep
<1> QED
  BY <1>1, <1>2, BaseHolds, PTL DEF Spec

(***************************************************************************)
(* Whatever the caps, plans and squads, an entry is let in only within the *)
(* cap: the entries counted under the lock are those it joins.             *)
(***************************************************************************)
THEOREM NobodyEntersPastTheCap == Spec => CapHonoured
<1> DEFINE Within == Live' \ Live # {} =>
             \E c \in Entering : Cardinality(Live') <= ContestEntriesCap(req[c].cap, Band(bands))
<1>1. Base /\ [Next]_vars => [Within]_vars
  BY CapStep
<1> QED
  BY <1>1, BaseHolds, PTL DEF Spec, CapHonoured

(***************************************************************************)
(* An entry that goes while its contest stays has no pick on it, whatever  *)
(* was picked between the leave's check and its transaction.               *)
(***************************************************************************)
THEOREM LeavingKeepsPicks == Spec => NoPickLost
<1> DEFINE Kept == \A e \in Live : entry'[e] = Gone /\ status' # "DELETED" => ~HasSelections(e)
<1>1. Base /\ [Next]_vars => [Kept]_vars
  BY LeaveStep
<1> QED
  BY <1>1, BaseHolds, PTL DEF Spec, NoPickLost

-----------------------------------------------------------------------------
(* The draw. A contest of one event that nobody removes keeps that event;  *)
(* with two, a late change of the events can take a drawn one away.        *)
OneFirst == ~RemoveEvents /\ \E v \in Events : FirstEvents = {v}

SparesEvents(j) == j.op \notin {"setEvents"} /\ (j.op \in {"draw"} => j.event \in FirstEvents)
OneEvent ==
  /\ events = FirstEvents \/ (events = {} /\ status \in {"DELETED"})
  /\ \A c \in Callers : pc[c] # "idle" => SparesEvents(req[c])
Rowed == \A e \in Live, v \in events : lineup[e][v] # "NONE"

DrawInv ==
  /\ drawn => kind \in {"RANDOM_DRAW", "SQUARES"}
  /\ kind \in {"RANDOM_DRAW", "SQUARES"} => OneEvent
  /\ kind \in {"RANDOM_DRAW"} => Rowed
  /\ DealtToAll

LEMMA RequestedSpares ==
  ASSUME OneFirst, OneEvent, kind \in {"RANDOM_DRAW", "SQUARES"}, NEW c \in Callers, Request(c)
  PROVE  \E j : Ask(c, j) /\ SparesEvents(j)
<1>1. CASE RequestEntry(c)
  <2>1. PICK s \in Squads :
          Ask(c, [op |-> "create", squad |-> s, cap |-> planCap, number |-> NextEntryNumber(s)])
    BY <1>1 DEF RequestEntry
  <2> QED
    BY <2>1 DEF SparesEvents
<1>2. CASE RequestLeave(c)
  <2>1. PICK s \in Squads : Ask(c, [op |-> "leave", entry |-> FirstEntry(s)])
    BY <1>2 DEF RequestLeave
  <2> QED
    BY <2>1 DEF SparesEvents
<1>3. ~RequestPick(c)
  BY DEF RequestPick, RosterKinds
<1>4. CASE RequestSubmit(c)
  <2>1. PICK e \in Live, v \in Events : Ask(c, [op |-> "submit", entry |-> e, event |-> v])
    BY <1>4 DEF RequestSubmit
  <2> QED
    BY <2>1 DEF SparesEvents
<1>5. CASE RequestDraw(c)
  <2>1. PICK v \in Events : AreEventPicksOpen(v) /\ Ask(c, [op |-> "draw", dealt |-> Live, event |-> v])
    BY <1>5 DEF RequestDraw
  <2>2. v \in FirstEvents
    BY <2>1 DEF AreEventPicksOpen, OneEvent
  <2> QED
    BY <2>1, <2>2 DEF SparesEvents
<1>6. CASE RequestClaim(c) \/ RequestClear(c) \/ RequestDigits(c)
  <2>1. CASE RequestClaim(c)
    <3>1. PICK e \in Live, b \in Boxes : Ask(c, [op |-> "claim", entry |-> e, box |-> b])
      BY <2>1 DEF RequestClaim
    <3> QED
      BY <3>1 DEF SparesEvents
  <2>2. CASE RequestClear(c)
    <3>1. PICK b \in Boxes : Ask(c, [op |-> "clear", entry |-> boxes[b], box |-> b])
      BY <2>2 DEF RequestClear
    <3> QED
      BY <3>1 DEF SparesEvents
  <2>3. CASE RequestDigits(c)
    <3>1. Ask(c, [op |-> "digits"])
      BY <2>3 DEF RequestDigits
    <3> QED
      BY <3>1 DEF SparesEvents
  <2> QED
    BY <1>6, <2>1, <2>2, <2>3
<1>7. ~RequestEvents(c)
  <2> SUFFICES ASSUME RequestEvents(c) PROVE FALSE
    OBVIOUS
  <2>1. PICK E \in SUBSET Events :
          /\ status # "DELETED" /\ E # {} /\ E # events /\ Cardinality(E) = 1
          /\ ~(events \subseteq E) => RemoveEvents /\ events \cap started = {}
    BY DEF RequestEvents
  <2>2. events = FirstEvents /\ events \subseteq E
    BY <2>1 DEF OneFirst, OneEvent
  <2>3. PICK v \in Events : FirstEvents = {v}
    BY DEF OneFirst
  <2>4. IsFiniteSet(E)
    BY RoomAssumption, FS_Subset
  <2>5. PICK w : E = {w}
    BY <2>1, <2>4, FS_Singleton
  <2> QED
    BY <2>1, <2>2, <2>3, <2>5
<1>8. CASE RequestExpansion(c)
  <2>1. PICK n \in Bands : Ask(c, [op |-> "expand", band |-> n])
    BY <1>8 DEF RequestExpansion
  <2> QED
    BY <2>1 DEF SparesEvents
<1>9. CASE RequestDelete(c) \/ RequestCleanUp(c)
  BY <1>9 DEF RequestDelete, RequestCleanUp, SparesEvents
<1> QED
  BY <1>1, <1>2, <1>3, <1>4, <1>5, <1>6, <1>7, <1>8, <1>9 DEF Request

LEMMA SparedStep ==
  ASSUME OneFirst, Base, OneEvent, kind \in {"RANDOM_DRAW", "SQUARES"}, [Next]_vars
  PROVE  \A c \in Callers : pc'[c] # "idle" => SparesEvents(req'[c])
<1>s. /\ pc \in [Callers -> {"idle", "waiting", "locked"}] /\ req = [d \in Callers |-> req[d]]
      /\ \A d \in Callers : pc[d] # "idle" => SparesEvents(req[d])
  BY DEF Base, Shapes, OneEvent
<1>1. ASSUME NEW c \in Callers, Request(c) PROVE \A d \in Callers : pc'[d] # "idle" => SparesEvents(req'[d])
  <2>1. PICK j : Ask(c, j) /\ SparesEvents(j)
    BY <1>1, RequestedSpares
  <2>2. pc' = [pc EXCEPT ![c] = "waiting"] /\ req' = [req EXCEPT ![c] = j]
    BY <2>1 DEF Ask
  <2>3. req'[c] = j /\ \A d \in Callers \ {c} : pc'[d] = pc[d] /\ req'[d] = req[d]
    BY <1>s, <2>2
  <2> QED
    BY <1>s, <2>1, <2>3
<1>2. ASSUME NEW c \in Callers, TakeContestLock(c) \/ TakeEntryLock(c)
      PROVE  \A d \in Callers : pc'[d] # "idle" => SparesEvents(req'[d])
  <2>1. req' = req /\ pc[c] = "waiting" /\ pc' = [pc EXCEPT ![c] = "locked"]
    BY <1>2 DEF TakeContestLock, TakeEntryLock
  <2> QED
    BY <1>s, <2>1
<1>3. ASSUME NEW c \in Callers, Finish(c) PROVE \A d \in Callers : pc'[d] # "idle" => SparesEvents(req'[d])
  <2>1. pc'[c] = "idle" /\ \A d \in Callers \ {c} : pc'[d] = pc[d] /\ req'[d] = req[d]
    BY <1>3, Finished DEF Base
  <2> QED
    BY <1>s, <2>1
<1>4. ASSUME NEW c \in Callers, Transact(c) \/ Fail(c)
      PROVE  TakeContestLock(c) \/ TakeEntryLock(c) \/ Finish(c)
  BY <1>4 DEF Transact, Fail, EntryMissing, Refuse, CreateEntry, LeaveContest, RecordDraw, ClaimBox, ClearBox,
       RecordDigits, ReplaceSportEvents, Expand, DeleteContest, ChangeEntryPick, SettleEntryEvent, Commit
<1>5. CASE OpenContest \/ ActivateContest \/ EventStarts \/ ChangePlan \/ UNCHANGED vars
  BY <1>s, <1>5, WorldBase
<1> QED
  BY <1>1, <1>2, <1>3, <1>4, <1>5 DEF Next

(* A step of the requests or the world that leaves the draw alone. *)
LEMMA QuietDraw ==
  ASSUME Base, DrawInv, kind \in {"RANDOM_DRAW", "SQUARES"} => OneEvent',
         UNCHANGED <<kind, drawn, events, entry, picks, lineup>>
  PROVE  DrawInv'
<1>1. Live' = Live
  BY DEF Live
<1>2. DealtToAll'
  BY <1>1 DEF DrawInv, DealtToAll
<1>3. kind \in {"RANDOM_DRAW"} => Rowed'
  BY <1>1 DEF DrawInv, Rowed
<1> QED
  BY <1>2, <1>3 DEF DrawInv

(* The contest keeps its event, or is deleted with it. *)
LEMMA OneEventStep ==
  ASSUME OneFirst, Base, OneEvent, kind \in {"RANDOM_DRAW", "SQUARES"}, [Next]_vars
  PROVE  OneEvent'
<1>1. \A c \in Callers : pc'[c] # "idle" => SparesEvents(req[c])'
  BY SparedStep DEF SparesEvents
<1>2. ASSUME NEW c \in Callers PROVE ~ReplaceSportEvents(c)
  <2>1. pc[c] # "idle" => req[c].op \notin {"setEvents"}
    BY DEF OneEvent, SparesEvents
  <2> QED
    BY <2>1 DEF ReplaceSportEvents, Commit, At
<1>3. events' = FirstEvents \/ (events' = {} /\ status' \in {"DELETED"})
  <2>1. ASSUME UNCHANGED <<events, status>> PROVE events' = FirstEvents \/ (events' = {} /\ status' \in {"DELETED"})
    BY <2>1 DEF OneEvent
  <2>2. ASSUME NEW c \in Callers, Request(c) \/ TakeContestLock(c) \/ TakeEntryLock(c)
        PROVE  UNCHANGED <<events, status>>
    BY <2>2, RequestBase, TakeBase DEF contest
  <2>3. ASSUME NEW c \in Callers,
               EntryMissing(c) \/ Refuse(c) \/ Fail(c) \/ ChangeEntryPick(c) \/ SettleEntryEvent(c)
        PROVE  UNCHANGED <<events, status>>
    BY <2>3, AsideBase DEF contest
  <2>4. ASSUME NEW c \in Callers,
               CreateEntry(c) \/ LeaveContest(c) \/ RecordDraw(c) \/ ClaimBox(c) \/ ClearBox(c)
                 \/ RecordDigits(c) \/ Expand(c)
        PROVE  UNCHANGED <<events, status>>
    BY <2>4 DEF CreateEntry, LeaveContest, RecordDraw, ClaimBox, ClearBox, RecordDigits, Expand, contest
  <2>5. ASSUME NEW c \in Callers, DeleteContest(c) PROVE events' = {} /\ status' \in {"DELETED"}
    BY <2>5 DEF DeleteContest
  <2>6. CASE OpenContest \/ ActivateContest
    BY <2>6 DEF OpenContest, ActivateContest, OneEvent
  <2>7. CASE EventStarts \/ ChangePlan \/ UNCHANGED vars
    BY <2>1, <2>7 DEF EventStarts, ChangePlan, vars, contest
  <2> QED
    BY <1>2, <2>1, <2>2, <2>3, <2>4, <2>5, <2>6, <2>7 DEF Next, Transact
<1> QED
  BY <1>1, <1>3 DEF OneEvent

(* What was dealt under the contest's lock is a full roster for everyone. *)
LEMMA DealtStep ==
  ASSUME OneFirst, Base, DrawInv, NEW c \in Callers, RecordDraw(c), kind \in {"RANDOM_DRAW", "SQUARES"} => OneEvent'
  PROVE  DrawInv'
<1>1. Commit(c, "draw") /\ "draw" \in ContestOps /\ UNCHANGED <<kind, status, events, entry>> /\ drawn' = TRUE
  BY DEF RecordDraw, ContestOps
<1>2. /\ req[c].op = "draw" /\ Allowed(req[c], seen[c]) /\ seen[c].live = Live
      /\ kind = "RANDOM_DRAW" /\ req[c].event \in Events /\ pc[c] # "idle"
  BY <1>1, Committed DEF Asks, Commit, At
<1>3. req[c].dealt = Live /\ status # "DELETED"
  BY <1>2 DEF Allowed, MayDeal
<1>4. OneEvent /\ Rowed
  BY <1>2 DEF DrawInv
<1>5. events = {req[c].event}
  BY <1>2, <1>3, <1>4 DEF OneEvent, OneFirst, SparesEvents
<1> DEFINE w == req[c].event
<1>6. PICK d \in Deals(Live, w) : picks' = [e \in EntryIds |-> IF e \in Live
                                              THEN [picks[e] EXCEPT ![w] = d[e]] ELSE picks[e]]
  BY <1>3 DEF RecordDraw
<1>7. Live \subseteq EntryIds /\ Live' = Live
  BY <1>1 DEF Live
<1>8. picks = [e \in EntryIds |-> [v \in Events |-> picks[e][v]]]
  BY DEF Base, Shapes
<1>9. \A e \in Live : picks'[e][w] = d[e]
  <2> SUFFICES ASSUME NEW e \in Live PROVE picks'[e][w] = d[e]
    OBVIOUS
  <2>1. picks'[e] = [picks[e] EXCEPT ![w] = d[e]]
    BY <1>6, <1>7
  <2>2. picks[e] = [v \in Events |-> picks[e][v]]
    BY <1>7, <1>8
  <2> QED
    BY <1>2, <2>1, <2>2
<1>10. \A e \in Live : lineup'[e][w] = "SUBMITTED"
  <2> SUFFICES ASSUME NEW e \in Live PROVE lineup'[e][w] = "SUBMITTED"
    OBVIOUS
  <2>1. lineup[e][w] # "NONE"
    BY <1>4, <1>5 DEF Rowed
  <2> QED
    BY <1>2, <1>3, <1>7, <2>1 DEF RecordDraw
<1>11. \A e \in Live : Len(d[e]) = RosterSize
  <2> SUFFICES ASSUME NEW e \in Live PROVE Len(d[e]) = RosterSize
    OBVIOUS
  <2>1. d[e] \in [1..RosterSize -> {g \in Golfers : EventOf[g] = w}] /\ RosterSize \in Nat
    BY <1>6, RoomAssumption DEF Deals
  <2> QED
    BY <2>1
<1>12. \A e, f \in Live : e # f => Range(d[e]) \cap Range(d[f]) = {}
  BY <1>6 DEF Deals
<1>13. DealtToAll'
  <2>1. \A e \in Live', v \in events' : Len(picks'[e][v]) = RosterSize /\ lineup'[e][v] = "SUBMITTED"
    BY <1>1, <1>5, <1>7, <1>9, <1>10, <1>11
  <2>2. \A e, f \in Live', v \in events' : e # f => Range(picks'[e][v]) \cap Range(picks'[f][v]) = {}
    <3> HIDE DEF w
    <3> SUFFICES ASSUME NEW e \in Live, NEW f \in Live, e # f PROVE Range(picks'[e][w]) \cap Range(picks'[f][w]) = {}
      BY <1>1, <1>5, <1>7 DEF w
    <3>1. picks'[e][w] = d[e] /\ picks'[f][w] = d[f]
      BY <1>9
    <3> QED
      BY <1>12, <3>1
  <2> QED
    BY <2>1, <2>2 DEF DealtToAll
<1>14. Rowed'
  BY <1>1, <1>5, <1>7, <1>10 DEF Rowed
<1> QED
  BY <1>1, <1>2, <1>13, <1>14 DEF DrawInv

LEMMA DrawStep ==
  ASSUME OneFirst, Base, DrawInv, [Next]_vars
  PROVE  DrawInv'
<1>o. kind \in {"RANDOM_DRAW", "SQUARES"} => OneEvent'
  BY OneEventStep DEF DrawInv
<1>s. /\ entry = [e \in EntryIds |-> entry[e]] /\ picks = [e \in EntryIds |-> [v \in Events |-> picks[e][v]]]
      /\ lineup \in [EntryIds -> [Events -> RowStatus]] /\ drawn \in BOOLEAN
  BY DEF Base, Shapes
<1>q. ASSUME UNCHANGED <<contest, room>> \/ UNCHANGED <<kind, drawn, events, entry, picks, lineup>> PROVE DrawInv'
  BY <1>o, <1>q, QuietDraw DEF contest, room
<1>u. ASSUME drawn' = FALSE, kind' = kind, kind \in {"RANDOM_DRAW"} => Rowed' PROVE DrawInv'
  BY <1>o, <1>u DEF DrawInv, DealtToAll
<1>1. ASSUME NEW c \in Callers, CreateEntry(c) PROVE DrawInv'
  <2>1. Commit(c, "create") /\ "create" \in ContestOps /\ UNCHANGED contest
    BY <1>1 DEF CreateEntry, ContestOps
  <2>2. /\ req[c].op = "create" /\ Allowed(req[c], seen[c])
        /\ seen[c].drawn = drawn /\ seen[c].events = events
    BY <2>1, Committed
  <2>3. ~drawn
    BY <2>2 DEF Allowed, MayEnter
  <2>4. PICK e \in EntryIds : \E x :
          /\ entry[e] = Unborn
          /\ entry' = [entry EXCEPT ![e] = x]
          /\ lineup' = [lineup EXCEPT ![e] = [v \in Events |-> IF v \in seen[c].events THEN "DRAFT" ELSE "NONE"]]
    BY <1>1 DEF CreateEntry
  <2>5. Live' \subseteq Live \cup {e}
    BY <1>s, <2>4 DEF Live
  <2>6. ASSUME kind \in {"RANDOM_DRAW"} PROVE Rowed'
    <3>1. events' = events /\ events \subseteq Events
      BY <2>1, <2>6, RoomAssumption DEF contest, DrawInv, OneEvent
    <3>2. \A v \in events : lineup'[e][v] = "DRAFT"
      BY <1>s, <2>2, <2>4, <3>1
    <3>3. \A f \in EntryIds \ {e} : lineup'[f] = lineup[f]
      BY <1>s, <2>4
    <3>4. \A f \in Live, v \in events : f \in EntryIds /\ lineup[f][v] # "NONE"
      BY <2>6 DEF DrawInv, Rowed, Live
    <3> QED
      BY <2>5, <3>1, <3>2, <3>3, <3>4 DEF Rowed
  <2> QED
    BY <1>s, <1>u, <2>1, <2>3, <2>6 DEF contest
<1>2. ASSUME NEW c \in Callers, LeaveContest(c) PROVE DrawInv'
  <2>1. Commit(c, "leave") /\ "leave" \in ContestOps /\ UNCHANGED contest /\ Removed({req[c].entry})
    BY <1>2 DEF LeaveContest, ContestOps
  <2>2. req[c].op = "leave" /\ Allowed(req[c], seen[c]) /\ seen[c].drawn = drawn
    BY <2>1, Committed
  <2>3. ~drawn
    BY <2>2 DEF Allowed, MayLeave
  <2>4. \A f \in Live' : f \in Live /\ f # req[c].entry
    BY <2>1 DEF Removed, Live, Gone
  <2>5. \A f \in Live' : lineup'[f] = lineup[f]
    BY <2>1, <2>4 DEF Removed, Live
  <2>6. kind \in {"RANDOM_DRAW"} => Rowed'
    BY <2>1, <2>4, <2>5 DEF DrawInv, Rowed, contest
  <2> QED
    BY <1>s, <1>u, <2>1, <2>3, <2>6 DEF contest
<1>3. ASSUME NEW c \in Callers, RecordDigits(c) PROVE DrawInv'
  <2>1. Commit(c, "digits") /\ "digits" \in ContestOps /\ kind' = kind
    BY <1>3 DEF RecordDigits, ContestOps
  <2>2. kind = "SQUARES"
    BY <2>1, Committed DEF Asks
  <2> QED
    BY <1>o, <2>1, <2>2 DEF DrawInv, DealtToAll
<1>4. ASSUME NEW c \in Callers, ReplaceSportEvents(c) PROVE DrawInv'
  <2>1. Commit(c, "setEvents") /\ "setEvents" \in ContestOps /\ UNCHANGED <<kind, drawn>> /\ pc[c] # "idle"
    BY <1>4 DEF ReplaceSportEvents, ContestOps, Commit, At
  <2>2. req[c].op = "setEvents"
    BY <2>1, Committed
  <2>3. kind \notin {"RANDOM_DRAW", "SQUARES"}
    BY <2>1, <2>2 DEF DrawInv, OneEvent, SparesEvents
  <2> QED
    BY <2>1, <2>3 DEF DrawInv, DealtToAll
<1>5. ASSUME NEW c \in Callers, DeleteContest(c) PROVE DrawInv'
  <2>1. events' = {} /\ UNCHANGED <<kind, drawn>>
    BY <1>5 DEF DeleteContest
  <2> QED
    BY <1>o, <2>1 DEF DrawInv, DealtToAll, Rowed
<1>6. ASSUME NEW c \in Callers, ChangeEntryPick(c) PROVE DrawInv'
  <2>1. /\ pc[c] = "locked" /\ req[c].op \in {"select", "unselect"} /\ UNCHANGED contest
    BY <1>6 DEF ChangeEntryPick, At
  <2>2. kind \in RosterKinds
    BY <2>1 DEF Base, Asked, Asks
  <2> QED
    BY <2>1, <2>2 DEF contest, DrawInv, DealtToAll, RosterKinds
<1>7. ASSUME NEW c \in Callers, SettleEntryEvent(c) PROVE DrawInv'
  <2>1. /\ UNCHANGED <<contest, entry, picks>> /\ Live' = Live
        /\ lineup' = [lineup EXCEPT ![req[c].entry][req[c].event] = "SUBMITTED"] \/ lineup' = lineup
    BY <1>7 DEF SettleEntryEvent, Live
  <2>2. \A e \in Live, v \in Events : lineup'[e][v] = lineup[e][v] \/ lineup'[e][v] = "SUBMITTED"
    <3> SUFFICES ASSUME NEW e \in Live, NEW v \in Events
                 PROVE  lineup'[e][v] = lineup[e][v] \/ lineup'[e][v] = "SUBMITTED"
      OBVIOUS
    <3>1. e \in EntryIds
      BY DEF Live
    <3>2. lineup[e] \in [Events -> RowStatus]
      BY <1>s, <3>1
    <3>3. CASE lineup' = lineup
      BY <3>3
    <3>4. CASE lineup' = [lineup EXCEPT ![req[c].entry][req[c].event] = "SUBMITTED"]
      <4>1. lineup'[e] = IF e = req[c].entry THEN [lineup[e] EXCEPT ![req[c].event] = "SUBMITTED"] ELSE lineup[e]
        BY <1>s, <3>1, <3>4
      <4> QED
        BY <3>2, <4>1
    <3> QED
      BY <2>1, <3>3, <3>4
  <2>3. ASSUME kind \in {"RANDOM_DRAW"} PROVE Rowed' /\ DealtToAll'
    <3>1. events \subseteq Events /\ events' = events /\ kind' = kind /\ drawn' = drawn
      BY <2>1, <2>3, RoomAssumption DEF contest, DrawInv, OneEvent
    <3>2. \A e \in Live, v \in events : lineup'[e][v] = lineup[e][v] \/ lineup'[e][v] = "SUBMITTED"
      BY <2>2, <3>1
    <3>3. Rowed'
      BY <2>1, <2>3, <3>1, <3>2 DEF DrawInv, Rowed
    <3>4. DealtToAll'
      BY <2>1, <3>1, <3>2 DEF DrawInv, DealtToAll
    <3> QED
      BY <3>3, <3>4
  <2>4. kind' = kind /\ drawn' = drawn
    BY <2>1 DEF contest
  <2> QED
    BY <1>o, <2>3, <2>4 DEF DrawInv, DealtToAll
<1>8. ASSUME NEW c \in Callers, Request(c) \/ TakeContestLock(c) \/ TakeEntryLock(c) PROVE DrawInv'
  BY <1>8, <1>q, RequestBase, TakeBase
<1>9. ASSUME NEW c \in Callers, EntryMissing(c) \/ Refuse(c) \/ Fail(c) PROVE DrawInv'
  BY <1>9, <1>q DEF EntryMissing, Refuse, Fail
<1>10. ASSUME NEW c \in Callers, ClaimBox(c) \/ ClearBox(c) \/ Expand(c) PROVE DrawInv'
  BY <1>10, <1>q DEF ClaimBox, ClearBox, Expand, contest, room
<1>11. CASE OpenContest \/ ActivateContest \/ EventStarts \/ ChangePlan \/ UNCHANGED vars
  BY <1>11, <1>q, WorldBase
<1>12. ASSUME NEW c \in Callers, RecordDraw(c) PROVE DrawInv'
  BY <1>12, <1>o, DealtStep
<1> QED
  BY <1>1, <1>2, <1>3, <1>4, <1>5, <1>6, <1>7, <1>8, <1>9, <1>10, <1>11, <1>12 DEF Next, Transact

LEMMA DrawHolds ==
  ASSUME OneFirst
  PROVE  Spec => []DrawInv
<1>1. Init => DrawInv
  <2> SUFFICES ASSUME Init PROVE DrawInv
    OBVIOUS
  <2>1. Live = {} /\ ~drawn /\ events = FirstEvents /\ \A c \in Callers : pc[c] = "idle"
    BY DEF Init, Live, Unborn
  <2> QED
    BY <2>1 DEF DrawInv, DealtToAll, OneEvent, Rowed
<1>2. Base /\ DrawInv /\ [Next]_vars => DrawInv'
  BY DrawStep
<1> QED
  BY <1>1, <1>2, BaseHolds, PTL DEF Spec

(* Once drawn, every commit but a deletion is refused or repeats nothing. *)
LEMMA StandsStep ==
  ASSUME OneFirst, Base, DrawInv, [Next]_vars, drawn, status' # "DELETED"
  PROVE  drawn' /\ UNCHANGED <<events, entry, picks, boxes>>
<1>1. ASSUME NEW c \in Callers,
             CreateEntry(c) \/ LeaveContest(c) \/ RecordDraw(c) \/ ClaimBox(c) \/ ClearBox(c) \/ RecordDigits(c)
      PROVE  FALSE
  <2>1. PICK op \in {"create", "leave", "draw", "claim", "clear", "digits"} : Commit(c, op)
    BY <1>1 DEF CreateEntry, LeaveContest, RecordDraw, ClaimBox, ClearBox, RecordDigits
  <2>2. op \in ContestOps
    BY DEF ContestOps
  <2>3. req[c].op = op /\ Allowed(req[c], seen[c]) /\ seen[c].drawn = drawn
    BY <2>1, <2>2, Committed
  <2> QED
    BY <2>1, <2>3 DEF Allowed, MayEnter, MayLeave, MayDeal, MayClaim, MayClear, MayDrawDigits
<1>2. ASSUME NEW c \in Callers PROVE ~ReplaceSportEvents(c)
  <2> SUFFICES ASSUME ReplaceSportEvents(c) PROVE FALSE
    OBVIOUS
  <2>1. Commit(c, "setEvents") /\ "setEvents" \in ContestOps /\ pc[c] # "idle"
    BY DEF ReplaceSportEvents, ContestOps, Commit, At
  <2>2. req[c].op = "setEvents"
    BY <2>1, Committed
  <2> QED
    BY <2>1, <2>2 DEF DrawInv, OneEvent, SparesEvents
<1>3. ASSUME NEW c \in Callers PROVE ~DeleteContest(c) /\ ~ChangeEntryPick(c)
  <2>1. ~DeleteContest(c)
    BY DEF DeleteContest
  <2>2. ASSUME ChangeEntryPick(c) PROVE FALSE
    <3>1. pc[c] = "locked" /\ req[c].op \in {"select", "unselect"}
      BY <2>2 DEF ChangeEntryPick, At
    <3>2. kind \in RosterKinds
      BY <3>1 DEF Base, Asked, Asks
    <3> QED
      BY <3>2 DEF DrawInv, RosterKinds
  <2> QED
    BY <2>1, <2>2
<1>4. ASSUME NEW c \in Callers, Request(c) \/ TakeContestLock(c) \/ TakeEntryLock(c)
      PROVE  UNCHANGED <<drawn, events, entry, picks, boxes>>
  BY <1>4, RequestBase, TakeBase DEF contest, room
<1>5. ASSUME NEW c \in Callers, EntryMissing(c) \/ Refuse(c) \/ Fail(c) \/ SettleEntryEvent(c) \/ Expand(c)
      PROVE  UNCHANGED <<drawn, events, entry, picks, boxes>>
  BY <1>5 DEF EntryMissing, Refuse, Fail, SettleEntryEvent, Expand, contest, room
<1>6. CASE OpenContest \/ ActivateContest \/ EventStarts \/ ChangePlan \/ UNCHANGED vars
  BY <1>6, WorldBase
<1> QED
  BY <1>1, <1>2, <1>3, <1>4, <1>5, <1>6 DEF Next, Transact

(***************************************************************************)
(* In a contest whose one event stays, a random draw leaves no entry       *)
(* without its roster and deals no golfer twice: who is in is compared     *)
(* under the contest's lock with who was dealt.                            *)
(***************************************************************************)
THEOREM EveryoneIsDealt ==
  ASSUME OneFirst
  PROVE  Spec => []DealtToAll
<1>1. DrawInv => DealtToAll
  BY DEF DrawInv
<1> QED
  BY <1>1, DrawHolds, PTL

(***************************************************************************)
(* In a contest whose one event stays, what was drawn is final: nobody     *)
(* enters, leaves, picks, claims or clears after it.                       *)
(***************************************************************************)
THEOREM DrawsAreFinal ==
  ASSUME OneFirst
  PROVE  Spec => DrawStands
<1> DEFINE Stands == drawn /\ status' # "DELETED" => drawn' /\ UNCHANGED <<events, entry, picks, boxes>>
<1>1. Base /\ DrawInv /\ [Next]_vars => [Stands]_vars
  BY StandsStep
<1> QED
  BY <1>1, BaseHolds, DrawHolds, PTL DEF Spec, DrawStands

-----------------------------------------------------------------------------
(* Numbers and lineups. A set of naturals has a least member, which stands *)
(* in for induction; so a bounded one has a greatest.                      *)

LEMMA LeastNatural ==
  ASSUME NEW T, T \subseteq Nat, T # {}
  PROVE  \E x \in T : \A y \in T : x <= y
<1>1. IsWellFoundedOn(OpToRel(<, Nat), Nat)
  BY NatLessThanWellFounded
<1>2. \E x \in T : \A y \in T : ~ (<<y, x>> \in OpToRel(<, Nat))
  BY <1>1, WFMin
<1>3. \A x \in Nat, y \in Nat : y < x => <<y, x>> \in OpToRel(<, Nat)
  BY DEF OpToRel
<1>4. \E x \in T : \A y \in T : ~ (y < x)
  BY <1>2, <1>3, Zenon
<1> QED
  BY <1>4

LEMMA GreatestUpTo ==
  ASSUME NEW n \in Nat, NEW S \in SUBSET (0..n), S # {}
  PROVE  Max(S) \in S /\ \A k \in S : k <= Max(S)
<1> DEFINE T == {n - k : k \in S}
<1>0. \A k \in S : k \in Nat /\ n - k \in Nat
  OBVIOUS
<1>1. T \subseteq Nat /\ T # {}
  BY <1>0
<1>2. PICK x \in T : \A y \in T : x <= y
  BY <1>1, LeastNatural
<1>3. PICK m \in S : x = n - m
  BY <1>2
<1>4. \A k \in S : m >= k
  <2> TAKE k \in S
  <2>1. n - m <= n - k
    BY <1>2, <1>3
  <2> QED
    BY <2>1
<1>5. Max(S) \in S /\ \A k \in S : Max(S) >= k
  BY <1>4, Zenon DEF Max
<1> QED
  BY <1>5

LEMMA NumbersBounded ==
  ASSUME NEW n \in Nat, NEW f \in [1..n -> Nat]
  PROVE  \E b \in Nat : \A i \in 1..n : f[i] <= b
<1> DEFINE T == {k \in 0..n : ~ \E b \in Nat : \A i \in 1..k : f[i] <= b}
<1>0. T \subseteq Nat
  OBVIOUS
<1>1. CASE T = {}
  <2>1. n \in 0..n
    OBVIOUS
  <2>2. n \notin T
    BY <1>1, Zenon
  <2> QED
    BY <2>1, <2>2, Zenon
<1>2. CASE T # {}
  <2>1. PICK k \in T : \A y \in T : k <= y
    BY <1>0, <1>2, LeastNatural
  <2>2. k \in 0..n /\ ~ \E b \in Nat : \A i \in 1..k : f[i] <= b
    OBVIOUS
  <2>3. k # 0
    BY <2>2
  <2>4. k - 1 \notin T
    <3>1. k \in Nat /\ ~(k <= k - 1)
      BY <2>2
    <3> QED
      BY <2>1, <3>1
  <2>5. PICK b \in Nat : \A i \in 1..(k - 1) : f[i] <= b
    <3>1. k - 1 \in 0..n
      BY <2>2, <2>3
    <3> QED
      BY <2>4, <3>1
  <2>6. f[k] \in Nat
    BY <2>2, <2>3
  <2> DEFINE c == IF f[k] <= b THEN b ELSE f[k]
  <2>7. c \in Nat /\ b <= c /\ f[k] <= c
    BY <2>6
  <2>8. ASSUME NEW i \in 1..k PROVE f[i] <= c
    <3>1. CASE i = k
      BY <2>7, <3>1
    <3>2. CASE i # k
      <4>1. i \in 1..(k - 1)
        BY <2>2, <2>8, <3>2
      <4>2. f[i] <= b /\ f[i] \in Nat
        BY <2>2, <2>5, <4>1
      <4> QED
        BY <2>7, <4>2
    <3> QED
      BY <3>1, <3>2
  <2> QED
    BY <2>2, <2>7, <2>8
<1> QED
  BY <1>1, <1>2

(* No golfer twice. *)
NoRepeat(held) == \A i, k \in DOMAIN held : held[i] = held[k] => i = k

LEMMA RepeatsCount ==
  ASSUME NEW held \in Seq(Golfers), NoRepeat(held)
  PROVE  Cardinality(Range(held)) = Len(held) /\ IsFiniteSet(Range(held))
<1>1. DOMAIN held = 1..Len(held) /\ Len(held) \in Nat
  OBVIOUS
<1>2. held \in [1..Len(held) -> Range(held)]
  BY <1>1 DEF Range
<1>3. held \in Bijection(1..Len(held), Range(held))
  <2>1. \A i, k \in 1..Len(held) : held[i] = held[k] => i = k
    BY <1>1 DEF NoRepeat
  <2>2. \A g \in Range(held) : \E i \in 1..Len(held) : held[i] = g
    BY <1>1 DEF Range
  <2>3. held \in Injection(1..Len(held), Range(held))
    BY <1>2, <2>1 DEF Injection, IsInjective
  <2>4. held \in Surjection(1..Len(held), Range(held))
    BY <1>2, <2>2 DEF Surjection
  <2> QED
    BY <2>3, <2>4 DEF Bijection
<1>4. ExistsBijection(1..Len(held), Range(held))
  BY <1>3 DEF ExistsBijection
<1>5. IsFiniteSet(1..Len(held)) /\ Cardinality(1..Len(held)) = Len(held)
  BY <1>1, FS_Interval
<1> QED
  BY <1>4, <1>5, FS_Bijection

LEMMA RemovedPlace ==
  ASSUME NEW held \in Seq(Golfers), NEW p \in 1..Len(held)
  PROVE  /\ RemoveAt(held, p) \in Seq(Golfers)
         /\ Len(RemoveAt(held, p)) = Len(held) - 1
         /\ \A i \in 1..(Len(held) - 1) :
              RemoveAt(held, p)[i] = IF i < p THEN held[i] ELSE held[i + 1]
<1> DEFINE n == Len(held)
           a == SubSeq(held, 1, p - 1)
           z == SubSeq(held, p + 1, n)
<1>1. n \in Nat /\ p \in Int /\ p - 1 \in Int /\ p + 1 \in Int /\ n \in Int /\ 1 <= p /\ p <= n
      /\ \A i \in 1..n : held[i] \in Golfers
  OBVIOUS
<1>2. /\ a \in Seq(Golfers) /\ Len(a) = p - 1
      /\ \A i \in 1..(p - 1) : a[i] = held[i]
  <2>1. \A i \in 1..(p - 1) : held[i] \in Golfers
    BY <1>1
  <2>2. /\ a \in Seq(Golfers) /\ Len(a) = IF 1 <= p - 1 THEN (p - 1) - 1 + 1 ELSE 0
        /\ \A i \in 1..((p - 1) - 1 + 1) : a[i] = held[1 + i - 1]
    BY <1>1, <2>1, SubSeqProperties
  <2> QED
    BY <1>1, <2>2
<1>3. /\ z \in Seq(Golfers) /\ Len(z) = n - p
      /\ \A i \in 1..(n - p) : z[i] = held[p + i]
  <2>1. \A i \in (p + 1)..n : held[i] \in Golfers
    BY <1>1
  <2>2. /\ z \in Seq(Golfers) /\ Len(z) = IF p + 1 <= n THEN n - (p + 1) + 1 ELSE 0
        /\ \A i \in 1..(n - (p + 1) + 1) : z[i] = held[(p + 1) + i - 1]
    BY <1>1, <2>1, SubSeqProperties
  <2> QED
    BY <1>1, <2>2
<1>4. RemoveAt(held, p) = a \o z
  BY DEF RemoveAt
<1> HIDE DEF a, z, n
<1>5. /\ a \o z \in Seq(Golfers) /\ Len(a \o z) = Len(a) + Len(z)
      /\ \A i \in 1..(Len(a) + Len(z)) : (a \o z)[i] = IF i <= Len(a) THEN a[i] ELSE z[i - Len(a)]
  BY <1>2, <1>3, ConcatProperties
<1>6. Len(a \o z) = n - 1
  BY <1>1, <1>2, <1>3, <1>5
<1>7. ASSUME NEW i \in 1..(n - 1) PROVE (a \o z)[i] = IF i < p THEN held[i] ELSE held[i + 1]
  <2>1. (a \o z)[i] = IF i <= p - 1 THEN a[i] ELSE z[i - (p - 1)]
    BY <1>1, <1>2, <1>3, <1>5
  <2>2. CASE i < p
    <3>1. i <= p - 1 /\ i \in 1..(p - 1)
      BY <1>1, <2>2
    <3> QED
      BY <1>2, <2>1, <2>2, <3>1
  <2>3. CASE ~(i < p)
    <3>1. ~(i <= p - 1) /\ i - (p - 1) \in 1..(n - p) /\ p + (i - (p - 1)) = i + 1
      BY <1>1, <2>3
    <3> QED
      BY <1>3, <2>1, <2>3, <3>1
  <2> QED
    BY <2>2, <2>3
<1> QED
  BY <1>4, <1>5, <1>6, <1>7 DEF n

LEMMA WithoutShape ==
  ASSUME NEW held \in Seq(Golfers), NEW gs
  PROVE  Without(held, gs) \in Seq(Golfers)
<1>1. CASE gs \cap Range(held) = {}
  BY <1>1 DEF Without
<1>2. CASE gs \cap Range(held) # {}
  <2> DEFINE p == CHOOSE i \in DOMAIN held : held[i] \in gs
  <2>1. \E i \in DOMAIN held : held[i] \in gs
    BY <1>2 DEF Range
  <2>2. p \in DOMAIN held
    BY <2>1
  <2>3. p \in 1..Len(held)
    BY <2>2
  <2>4. Without(held, gs) = RemoveAt(held, p)
    BY <1>2 DEF Without
  <2> HIDE DEF p
  <2> QED
    BY <2>3, <2>4, RemovedPlace
<1> QED
  BY <1>1, <1>2

(* A golfer held once is gone when removed, and the others stay. *)
LEMMA WithoutOne ==
  ASSUME NEW held \in Seq(Golfers), NoRepeat(held), NEW x \in Range(held)
  PROVE  /\ Without(held, {x}) \in Seq(Golfers)
         /\ NoRepeat(Without(held, {x}))
         /\ Len(Without(held, {x})) = Len(held) - 1
         /\ Range(Without(held, {x})) = Range(held) \ {x}
<1> DEFINE p == CHOOSE i \in DOMAIN held : held[i] \in {x}
           w == Without(held, {x})
           n == Len(held)
<1>1. \E i \in DOMAIN held : held[i] \in {x}
  BY DEF Range
<1>2. p \in DOMAIN held /\ held[p] = x
  BY <1>1
<1>3. n \in Nat /\ DOMAIN held = 1..n
  OBVIOUS
<1>4. {x} \cap Range(held) # {}
  OBVIOUS
<1>5. w = RemoveAt(held, p)
  BY <1>4 DEF Without
<1> HIDE DEF p, w
<1>6. /\ w \in Seq(Golfers) /\ Len(w) = n - 1
      /\ \A i \in 1..(n - 1) : w[i] = IF i < p THEN held[i] ELSE held[i + 1]
  BY <1>2, <1>3, <1>5, RemovedPlace
<1>7. DOMAIN w = 1..(n - 1)
  BY <1>6
<1> HIDE DEF n
<1>8. NoRepeat(w)
  <2> SUFFICES ASSUME NEW i \in 1..(n - 1), NEW k \in 1..(n - 1), w[i] = w[k] PROVE i = k
    BY <1>7 DEF NoRepeat
  <2> DEFINE q(j) == IF j < p THEN j ELSE j + 1
  <2>1. q(i) \in 1..n /\ q(k) \in 1..n /\ p \in 1..n
    BY <1>2, <1>3
  <2>2. w[i] = held[q(i)] /\ w[k] = held[q(k)]
    BY <1>6
  <2>3. q(i) = q(k)
    BY <1>3, <2>1, <2>2 DEF NoRepeat
  <2> QED
    BY <1>3, <2>1, <2>3
<1>9. Range(w) \subseteq Range(held) \ {x}
  <2> SUFFICES ASSUME NEW i \in 1..(n - 1) PROVE w[i] \in Range(held) \ {x}
    BY <1>7 DEF Range
  <2> DEFINE q == IF i < p THEN i ELSE i + 1
  <2>1. q \in 1..n /\ q # p /\ p \in 1..n
    BY <1>2, <1>3
  <2>2. w[i] = held[q]
    BY <1>6
  <2> HIDE DEF q
  <2>3. held[q] # held[p]
    BY <1>3, <2>1 DEF NoRepeat
  <2> QED
    BY <1>2, <1>3, <2>1, <2>2, <2>3 DEF Range
<1>10. Range(held) \ {x} \subseteq Range(w)
  <2> SUFFICES ASSUME NEW i \in 1..n, held[i] # x PROVE held[i] \in Range(w)
    BY <1>3 DEF Range
  <2> DEFINE q == IF i < p THEN i ELSE i - 1
  <2>1. i # p /\ p \in 1..n
    BY <1>2, <1>3
  <2>2. q \in 1..(n - 1) /\ (IF q < p THEN q ELSE q + 1) = i
    BY <1>3, <2>1
  <2>3. w[q] = held[i]
    BY <1>6, <2>2
  <2> HIDE DEF q
  <2> QED
    BY <1>7, <2>2, <2>3 DEF Range
<1> QED
  BY <1>6, <1>8, <1>9, <1>10 DEF w, n

LEMMA PickedLast ==
  ASSUME NEW held \in Seq(Golfers), NoRepeat(held), NEW g \in Golfers, g \notin Range(held)
  PROVE  /\ held \o <<g>> \in Seq(Golfers)
         /\ NoRepeat(held \o <<g>>)
         /\ Len(held \o <<g>>) = Len(held) + 1
         /\ Range(held \o <<g>>) = Range(held) \cup {g}
<1> DEFINE n == Len(held)
           w == held \o <<g>>
<1>1. /\ n \in Nat /\ DOMAIN held = 1..n
      /\ w \in Seq(Golfers) /\ Len(w) = n + 1 /\ DOMAIN w = 1..(n + 1)
      /\ \A i \in 1..n : w[i] = held[i]
      /\ w[n + 1] = g
  OBVIOUS
<1> HIDE DEF w, n
<1>2. \A i \in 1..n : w[i] # g
  BY <1>1 DEF Range
<1>3. NoRepeat(w)
  <2> SUFFICES ASSUME NEW i \in 1..(n + 1), NEW k \in 1..(n + 1), w[i] = w[k] PROVE i = k
    BY <1>1 DEF NoRepeat
  <2>1. CASE i = n + 1 \/ k = n + 1
    BY <1>1, <1>2, <2>1
  <2>2. CASE i \in 1..n /\ k \in 1..n
    BY <1>1, <2>2 DEF NoRepeat
  <2> QED
    BY <1>1, <2>1, <2>2
<1>4. Range(w) = Range(held) \cup {g}
  <2>1. Range(w) \subseteq Range(held) \cup {g}
    BY <1>1 DEF Range
  <2>2. Range(held) \subseteq Range(w)
    BY <1>1 DEF Range
  <2>3. n + 1 \in DOMAIN w
    BY <1>1
  <2>4. g \in Range(w)
    BY <1>1, <2>3 DEF Range
  <2> QED
    BY <2>1, <2>2, <2>4
<1> QED
  BY <1>1, <1>3, <1>4 DEF w, n

(* The newest of some golfers held is one of them. *)
LEMMA NewestIsHeld ==
  ASSUME NEW held \in Seq(Golfers), NEW gs, gs \cap Range(held) # {}
  PROVE  Newest(held, gs) \in gs \cap Range(held)
<1> DEFINE S == {i \in DOMAIN held : held[i] \in gs}
<1>1. Len(held) \in Nat /\ DOMAIN held = 1..Len(held)
  OBVIOUS
<1>2. S # {}
  BY DEF Range
<1>3. S \in SUBSET (0..Len(held))
  BY <1>1
<1>4. Max(S) \in S
  <2> HIDE DEF S
  <2> QED
    BY <1>1, <1>2, <1>3, GreatestUpTo
<1> QED
  BY <1>4 DEF Newest, Range

-----------------------------------------------------------------------------
(* Types. *)

LEMMA AskedTypes ==
  ASSUME NEW j \in RequestSet
  PROVE  /\ j.op \in {"create"} => j.squad \in Squads /\ j.number \in Nat \ {0}
         /\ j.op \in {"leave", "claim", "clear"} \cup EntryOps => j.entry \in EntryIds
         /\ j.op \in {"select", "unselect"} => j.golfer \in Golfers
         /\ j.op \in {"draw"} \cup EntryOps => j.event \in Events
         /\ j.op \in {"claim", "clear"} => j.box \in Boxes
         /\ j.op \in {"draw"} => j.dealt \in SUBSET EntryIds
         /\ j.op \in {"setEvents"} => j.events \in SUBSET Events
         /\ j.op \in {"expand"} => j.band \in Bands
<1>1. CASE j \in {NoRequest} \cup [op : {"digits", "delete", "cleanUp"}]
  BY <1>1 DEF NoRequest, EntryOps
<1>2. CASE j \in [op : {"create"}, squad : Squads, cap : Nat, number : Nat \ {0}]
  BY <1>2 DEF EntryOps
<1>3. CASE j \in [op : {"leave"}, entry : EntryIds]
  BY <1>3 DEF EntryOps
<1>4. CASE j \in [op : {"select", "unselect"}, entry : EntryIds, golfer : Golfers, event : Events]
  BY <1>4 DEF EntryOps
<1>5. CASE j \in [op : {"submit"}, entry : EntryIds, event : Events]
  BY <1>5 DEF EntryOps
<1>6. CASE j \in [op : {"draw"}, dealt : SUBSET EntryIds, event : Events]
  BY <1>6 DEF EntryOps
<1>7. CASE j \in [op : {"claim", "clear"}, entry : EntryIds, box : Boxes]
  BY <1>7 DEF EntryOps
<1>8. CASE j \in [op : {"setEvents"}, events : SUBSET Events]
  BY <1>8 DEF EntryOps
<1>9. CASE j \in [op : {"expand"}, band : Bands]
  BY <1>9 DEF EntryOps
<1> QED
  BY <1>1, <1>2, <1>3, <1>4, <1>5, <1>6, <1>7, <1>8, <1>9, Zenon DEF RequestSet

LEMMA LiveTypes ==
  ASSUME entry \in [EntryIds -> Entry], NEW e \in Live
  PROVE  e \in EntryIds /\ entry[e].squad \in Squads /\ entry[e].number \in Nat \ {0}
<1>1. e \in EntryIds /\ entry[e] \in Entry /\ entry[e].state = "live"
  BY DEF Live
<1>2. entry[e] # Unborn /\ entry[e] # Gone
  BY <1>1 DEF Unborn, Gone
<1>3. entry[e] \in [state : {"live"}, squad : Squads, number : Nat \ {0}]
  BY <1>1, <1>2 DEF Entry
<1> QED
  BY <1>1, <1>3

(* The squad's first entry exists, as one has the least number. *)
LEMMA FirstEntryIs ==
  ASSUME entry \in [EntryIds -> Entry], NEW s, EntriesOf(s) # {}
  PROVE  FirstEntry(s) \in EntriesOf(s)
<1>1. EntriesOf(s) \subseteq Live
  BY DEF EntriesOf
<1>2. NumbersOf(s) \subseteq Nat /\ NumbersOf(s) # {}
  BY <1>1, LiveTypes DEF NumbersOf
<1>3. PICK n \in NumbersOf(s) : \A m \in NumbersOf(s) : n <= m
  BY <1>2, LeastNatural
<1>4. PICK e \in EntriesOf(s) : n = entry[e].number
  BY DEF NumbersOf
<1>5. \A f \in EntriesOf(s) : entry[e].number <= entry[f].number
  BY <1>3, <1>4 DEF NumbersOf
<1> QED
  BY <1>5, Zenon DEF FirstEntry

(* So does the squad's highest number. *)
LEMMA NextNumberIs ==
  ASSUME entry \in [EntryIds -> Entry], NEW s
  PROVE  NextEntryNumber(s) \in Nat \ {0}
<1> DEFINE f == [e \in 1..MaxEntries |-> IF e \in EntriesOf(s) THEN entry[e].number ELSE 0]
           S == NumbersOf(s) \cup {0}
<1>1. EntriesOf(s) \subseteq Live /\ EntriesOf(s) \subseteq 1..MaxEntries
  BY DEF EntriesOf, Live, EntryIds
<1>2. \A e \in EntriesOf(s) : entry[e].number \in Nat
  BY <1>1, LiveTypes
<1>3. f \in [1..MaxEntries -> Nat] /\ MaxEntries \in Nat
  BY <1>2, RoomAssumption
<1>4. \A e \in EntriesOf(s) : f[e] = entry[e].number
  BY <1>1
<1> HIDE DEF f
<1>5. PICK b \in Nat : \A i \in 1..MaxEntries : f[i] <= b
  BY <1>3, NumbersBounded
<1>6. \A n \in S : n \in 0..b
  BY <1>1, <1>2, <1>4, <1>5 DEF NumbersOf
<1>7. S \in SUBSET (0..b) /\ S # {}
  BY <1>6
<1> HIDE DEF S
<1>8. Max(S) \in S
  BY <1>7, GreatestUpTo
<1>9. Max(S) \in 0..b
  BY <1>6, <1>8, Zenon
<1> QED
  BY <1>9 DEF NextEntryNumber, S

LEMMA RequestTypes ==
  ASSUME TypeOK, NEW c \in Callers, Request(c)
  PROVE  \E j \in RequestSet : Ask(c, j)
<1>0. /\ entry \in [EntryIds -> Entry] /\ planCap \in Nat /\ boxes \in [Boxes -> EntryIds \cup {0}]
      /\ Live \subseteq EntryIds
  BY RoomAssumption DEF TypeOK, Live
<1>1. CASE RequestEntry(c)
  <2>1. PICK s \in Squads :
          Ask(c, [op |-> "create", squad |-> s, cap |-> planCap, number |-> NextEntryNumber(s)])
    BY <1>1 DEF RequestEntry
  <2>2. NextEntryNumber(s) \in Nat \ {0}
    BY <1>0, NextNumberIs
  <2>3. [op |-> "create", squad |-> s, cap |-> planCap, number |-> NextEntryNumber(s)] \in RequestSet
    BY <1>0, <2>2 DEF RequestSet
  <2> QED
    BY <2>1, <2>3
<1>2. CASE RequestLeave(c)
  <2>1. PICK s \in Squads : EntriesOf(s) # {} /\ Ask(c, [op |-> "leave", entry |-> FirstEntry(s)])
    BY <1>2 DEF RequestLeave
  <2>2. FirstEntry(s) \in EntryIds
    BY <1>0, <2>1, FirstEntryIs DEF EntriesOf
  <2>3. [op |-> "leave", entry |-> FirstEntry(s)] \in RequestSet
    BY <2>2 DEF RequestSet
  <2> QED
    BY <2>1, <2>3
<1>3. CASE RequestPick(c)
  <2>1. PICK e \in Live, g \in Golfers, op \in {"select", "unselect"} :
          Ask(c, [op |-> op, entry |-> e, golfer |-> g, event |-> EventOf[g]])
    BY <1>3 DEF RequestPick
  <2>2. e \in EntryIds /\ EventOf[g] \in Events
    BY <1>0, RoomAssumption
  <2>3. [op |-> op, entry |-> e, golfer |-> g, event |-> EventOf[g]] \in RequestSet
    BY <2>2 DEF RequestSet
  <2> QED
    BY <2>1, <2>3
<1>4. CASE RequestSubmit(c)
  <2>1. PICK e \in Live, v \in Events : Ask(c, [op |-> "submit", entry |-> e, event |-> v])
    BY <1>4 DEF RequestSubmit
  <2>2. [op |-> "submit", entry |-> e, event |-> v] \in RequestSet
    BY <1>0 DEF RequestSet
  <2> QED
    BY <2>1, <2>2
<1>5. CASE RequestDraw(c)
  <2>1. PICK v \in Events : Ask(c, [op |-> "draw", dealt |-> Live, event |-> v])
    BY <1>5 DEF RequestDraw
  <2>2. [op |-> "draw", dealt |-> Live, event |-> v] \in RequestSet
    BY <1>0 DEF RequestSet
  <2> QED
    BY <2>1, <2>2
<1>6. CASE RequestClaim(c)
  <2>1. PICK e \in Live, b \in Boxes : Ask(c, [op |-> "claim", entry |-> e, box |-> b])
    BY <1>6 DEF RequestClaim
  <2>2. [op |-> "claim", entry |-> e, box |-> b] \in RequestSet
    BY <1>0 DEF RequestSet
  <2> QED
    BY <2>1, <2>2
<1>7. CASE RequestClear(c)
  <2>1. PICK b \in Boxes : boxes[b] # 0 /\ Ask(c, [op |-> "clear", entry |-> boxes[b], box |-> b])
    BY <1>7 DEF RequestClear
  <2>2. boxes[b] \in EntryIds
    BY <1>0, <2>1
  <2>3. [op |-> "clear", entry |-> boxes[b], box |-> b] \in RequestSet
    BY <2>2 DEF RequestSet
  <2> QED
    BY <2>1, <2>3
<1>8. CASE RequestDigits(c) \/ RequestDelete(c) \/ RequestCleanUp(c)
  <2>1. \A op \in {"digits", "delete", "cleanUp"} : [op |-> op] \in RequestSet
    BY DEF RequestSet
  <2> QED
    BY <1>8, <2>1 DEF RequestDigits, RequestDelete, RequestCleanUp
<1>9. CASE RequestEvents(c)
  <2>1. PICK E \in SUBSET Events : Ask(c, [op |-> "setEvents", events |-> E])
    BY <1>9 DEF RequestEvents
  <2>2. [op |-> "setEvents", events |-> E] \in RequestSet
    BY DEF RequestSet
  <2> QED
    BY <2>1, <2>2
<1>10. CASE RequestExpansion(c)
  <2>1. PICK n \in Bands : Ask(c, [op |-> "expand", band |-> n])
    BY <1>10 DEF RequestExpansion
  <2>2. [op |-> "expand", band |-> n] \in RequestSet
    BY DEF RequestSet
  <2> QED
    BY <2>1, <2>2
<1> QED
  BY <1>1, <1>2, <1>3, <1>4, <1>5, <1>6, <1>7, <1>8, <1>9, <1>10 DEF Request

(* The rows a request or a transaction leaves alone or writes. *)
RowTypes ==
  /\ kind \in Kinds
  /\ status \in {"DRAFT", "OPEN", "ACTIVE", "DELETED"}
  /\ events \subseteq Events /\ started \subseteq Events
  /\ drawn \in BOOLEAN
  /\ planCap \in PlanCaps /\ bands \in Seq(Bands)
  /\ entry \in [EntryIds -> Entry]
  /\ picks \in [EntryIds -> [Events -> Lineup]]
  /\ lineup \in [EntryIds -> [Events -> RowStatus]]
  /\ boxes \in [Boxes -> EntryIds \cup {0}]
CallerTypes ==
  /\ lock \in Callers \cup {Nobody}
  /\ entryLock \in [EntryIds -> Callers \cup {Nobody}]
  /\ pc \in [Callers -> {"idle", "waiting", "locked"}]
  /\ req \in [Callers -> RequestSet]
  /\ seen \in [Callers -> SeenSet]
  /\ requests \in 0..MaxRequests

LEMMA TypesSplit == TypeOK <=> RowTypes /\ CallerTypes
BY DEF TypeOK, RowTypes, CallerTypes

LEMMA FinishTypes ==
  ASSUME CallerTypes, NEW c \in Callers, Finish(c)
  PROVE  CallerTypes'
<1>1. NoRequest \in RequestSet /\ NothingSeen \in SeenSet
  BY DEF RequestSet, SeenSet
<1>2. req' \in [Callers -> RequestSet]
  BY <1>1 DEF Finish, CallerTypes
<1>3. seen' \in [Callers -> SeenSet]
  BY <1>1 DEF Finish, CallerTypes
<1>4. /\ lock' \in Callers \cup {Nobody} /\ entryLock' \in [EntryIds -> Callers \cup {Nobody}]
      /\ pc' \in [Callers -> {"idle", "waiting", "locked"}] /\ requests' \in 0..MaxRequests
  BY DEF Finish, CallerTypes
<1> QED
  BY <1>2, <1>3, <1>4 DEF CallerTypes

LEMMA AskTypes ==
  ASSUME CallerTypes, NEW c \in Callers, NEW j \in RequestSet, Ask(c, j)
  PROVE  CallerTypes'
<1>1. req' \in [Callers -> RequestSet]
  BY DEF Ask, CallerTypes
<1>2. requests' \in 0..MaxRequests
  BY RoomAssumption DEF Ask, CallerTypes
<1> QED
  BY <1>1, <1>2 DEF Ask, CallerTypes

LEMMA TakeTypes ==
  ASSUME TypeOK, NEW c \in Callers, TakeContestLock(c) \/ TakeEntryLock(c)
  PROVE  CallerTypes'
<1>t. RowTypes /\ CallerTypes
  BY TypesSplit
<1>1. CASE TakeContestLock(c)
  <2>1. Band(bands) \in Nat
    <3>1. bands \in Seq(Bands) /\ Bands \subseteq Nat
      BY <1>t, RoomAssumption DEF RowTypes
    <3>2. CASE bands # <<>>
      <4>1. Len(bands) \in 1..Len(bands)
        BY <3>1, <3>2
      <4>2. bands[Len(bands)] \in Nat
        BY <3>1, <4>1, ElementOfSeq
      <4> QED
        BY <3>2, <4>2 DEF Band, Last
    <3> QED
      BY <3>2 DEF Band
  <2>2. ContestRows \in SeenSet
    <3>1. Live \in SUBSET EntryIds
      BY DEF Live
    <3> QED
      BY <1>t, <2>1, <3>1 DEF ContestRows, SeenSet, RowTypes
  <2>3. seen' \in [Callers -> SeenSet]
    BY <1>1, <1>t, <2>2 DEF TakeContestLock, CallerTypes
  <2> QED
    BY <1>1, <1>t, <2>3 DEF TakeContestLock, CallerTypes
<1>2. CASE TakeEntryLock(c)
  <2>1. /\ req[c].op \in EntryOps /\ req[c] \in RequestSet
        /\ seen' = [seen EXCEPT ![c] = EntryRows(req[c].entry, req[c].event)]
        /\ entryLock' = [entryLock EXCEPT ![req[c].entry] = c]
        /\ pc' = [pc EXCEPT ![c] = "locked"]
        /\ UNCHANGED <<lock, req, requests>>
    BY <1>2, <1>t DEF TakeEntryLock, CallerTypes
  <2>2. req[c].entry \in EntryIds /\ req[c].event \in Events
    BY <2>1, AskedTypes
  <2>3. picks[req[c].entry][req[c].event] \in Lineup /\ lineup[req[c].entry][req[c].event] \in RowStatus
    BY <1>t, <2>2 DEF RowTypes
  <2>4. EntryRows(req[c].entry, req[c].event) \in SeenSet
    BY <2>3 DEF EntryRows, SeenSet
  <2>5. seen' \in [Callers -> SeenSet]
    BY <1>t, <2>1, <2>4 DEF CallerTypes
  <2>6. entryLock' \in [EntryIds -> Callers \cup {Nobody}] /\ pc' \in [Callers -> {"idle", "waiting", "locked"}]
    BY <1>t, <2>1 DEF CallerTypes
  <2> QED
    BY <1>t, <2>1, <2>5, <2>6 DEF CallerTypes
<1> QED
  BY <1>1, <1>2

LEMMA ContestTypes ==
  ASSUME TypeOK, NEW c \in Callers,
         \/ CreateEntry(c) \/ LeaveContest(c) \/ RecordDraw(c) \/ ClaimBox(c) \/ ClearBox(c)
         \/ RecordDigits(c) \/ ReplaceSportEvents(c) \/ Expand(c) \/ DeleteContest(c)
  PROVE  TypeOK'
<1>t. RowTypes /\ CallerTypes /\ req[c] \in RequestSet
  BY TypesSplit DEF CallerTypes
<1>r. /\ {"NONE", "DRAFT", "SUBMITTED"} \subseteq RowStatus /\ NoRow \in [Events -> RowStatus]
      /\ <<>> \in Lineup /\ NoPicks \in [Events -> Lineup] /\ Gone \in Entry
  BY DEF RowStatus, NoRow, Lineup, NoPicks, Entry
<1>1. CallerTypes'
  <2>1. Finish(c)
    BY DEF CreateEntry, LeaveContest, RecordDraw, ClaimBox, ClearBox, RecordDigits,
           ReplaceSportEvents, Expand, DeleteContest, Commit
  <2> QED
    BY <1>t, <2>1, FinishTypes
<1>s. /\ entry \in [EntryIds -> Entry] /\ picks \in [EntryIds -> [Events -> Lineup]]
      /\ lineup \in [EntryIds -> [Events -> RowStatus]] /\ boxes \in [Boxes -> EntryIds \cup {0}]
      /\ bands \in Seq(Bands)
  BY <1>t DEF RowTypes
<1>rm. ASSUME NEW es, Removed(es)
       PROVE  /\ entry' \in [EntryIds -> Entry] /\ lineup' \in [EntryIds -> [Events -> RowStatus]]
              /\ boxes' \in [Boxes -> EntryIds \cup {0}]
  BY <1>r, <1>s, <1>rm DEF Removed
<1>2. CASE CreateEntry(c)
  <2>1. PICK e \in EntryIds :
          /\ entry' = [entry EXCEPT ![e] = [state |-> "live", squad |-> req[c].squad, number |-> req[c].number]]
          /\ lineup' = [lineup EXCEPT ![e] = [v \in Events |-> IF v \in seen[c].events THEN "DRAFT" ELSE "NONE"]]
    BY <1>2 DEF CreateEntry
  <2>2. req[c].squad \in Squads /\ req[c].number \in Nat \ {0}
    BY <1>2, <1>t, AskedTypes DEF CreateEntry, Commit, At
  <2>3. [state |-> "live", squad |-> req[c].squad, number |-> req[c].number] \in Entry
    BY <2>2 DEF Entry
  <2>4. entry' \in [EntryIds -> Entry]
    BY <1>s, <2>1, <2>3
  <2>5. [v \in Events |-> IF v \in seen[c].events THEN "DRAFT" ELSE "NONE"] \in [Events -> RowStatus]
    BY <1>r
  <2>6. lineup' \in [EntryIds -> [Events -> RowStatus]]
    BY <1>s, <2>1, <2>5
  <2>7. RowTypes'
    BY <1>2, <1>t, <2>4, <2>6 DEF CreateEntry, RowTypes, contest
  <2> QED
    BY <1>1, <2>7 DEF TypeOK, RowTypes, CallerTypes
<1>3. CASE LeaveContest(c)
  <2>1. RowTypes'
    BY <1>3, <1>t, <1>rm DEF LeaveContest, RowTypes, contest
  <2> QED
    BY <1>1, <2>1 DEF TypeOK, RowTypes, CallerTypes
<1>4. CASE RecordDraw(c) \/ RecordDigits(c)
  <2>1. lineup' \in [EntryIds -> [Events -> RowStatus]]
    <3>1. \A e \in EntryIds, v \in Events : lineup[e][v] \in RowStatus /\ "SUBMITTED" \in RowStatus
      BY <1>s, <1>r
    <3>2. CASE RecordDraw(c)
      BY <3>1, <3>2 DEF RecordDraw
    <3>3. CASE RecordDigits(c)
      BY <3>1, <3>3 DEF RecordDigits
    <3> QED
      BY <1>4, <3>2, <3>3
  <2>2. picks' \in [EntryIds -> [Events -> Lineup]]
    <3>1. CASE RecordDraw(c)
      <4>1. req[c].op \in {"draw"}
        BY <3>1 DEF RecordDraw, Commit, At
      <4>2. req[c].event \in Events
        BY <1>t, <4>1, AskedTypes
      <4>3. PICK d \in Deals(req[c].dealt, req[c].event) :
              picks' = [e \in EntryIds |-> IF e \in req[c].dealt
                          THEN [picks[e] EXCEPT ![req[c].event] = d[e]] ELSE picks[e]]
        BY <3>1 DEF RecordDraw
      <4>4. \A e \in req[c].dealt : d[e] \in Lineup
        <5>1. RosterSize \in Nat /\ \A e \in req[c].dealt : d[e] \in [1..RosterSize -> Golfers]
          BY RoomAssumption DEF Deals
        <5> QED
          BY <5>1, IsASeq DEF Lineup
      <4>5. ASSUME NEW e \in EntryIds PROVE picks'[e] \in [Events -> Lineup]
        <5>1. picks[e] \in [Events -> Lineup]
          BY <1>s
        <5>2. CASE e \in req[c].dealt
          <6>1. picks'[e] = [picks[e] EXCEPT ![req[c].event] = d[e]]
            BY <4>3, <5>2
          <6> QED
            BY <4>4, <5>1, <5>2, <6>1
        <5>3. CASE e \notin req[c].dealt
          BY <4>3, <5>1, <5>3
        <5> QED
          BY <5>2, <5>3
      <4>6. picks' = [e \in EntryIds |-> picks'[e]]
        BY <4>3
      <4> QED
        BY <4>5, <4>6
    <3>2. CASE RecordDigits(c)
      BY <1>s, <3>2 DEF RecordDigits
    <3> QED
      BY <1>4, <3>1, <3>2
  <2>3. RowTypes'
    BY <1>4, <1>t, <2>1, <2>2 DEF RecordDraw, RecordDigits, RowTypes
  <2> QED
    BY <1>1, <2>3 DEF TypeOK, RowTypes, CallerTypes
<1>5. CASE ClaimBox(c) \/ ClearBox(c)
  <2>1. boxes' \in [Boxes -> EntryIds \cup {0}]
    <3>1. CASE ClaimBox(c)
      <4>1. req[c].op \in {"claim"} /\ boxes' = [boxes EXCEPT ![req[c].box] = req[c].entry]
        BY <3>1 DEF ClaimBox, Commit, At
      <4>2. req[c].entry \in EntryIds
        BY <1>t, <4>1, AskedTypes
      <4> QED
        BY <1>s, <4>1, <4>2
    <3>2. CASE ClearBox(c)
      BY <1>s, <3>2 DEF ClearBox
    <3> QED
      BY <1>5, <3>1, <3>2
  <2>2. RowTypes'
    BY <1>5, <1>t, <2>1 DEF ClaimBox, ClearBox, RowTypes, contest
  <2> QED
    BY <1>1, <2>2 DEF TypeOK, RowTypes, CallerTypes
<1>6. CASE ReplaceSportEvents(c)
  <2>1. req[c].op \in {"setEvents"} /\ events' = req[c].events
    BY <1>6 DEF ReplaceSportEvents, Commit, At
  <2>2. events' \subseteq Events
    BY <1>t, <2>1, AskedTypes
  <2>3. picks' \in [EntryIds -> [Events -> Lineup]]
    <3>1. \A e \in EntryIds, v \in Events : picks[e][v] \in Lineup
      BY <1>s
    <3> QED
      BY <1>6, <1>r, <3>1 DEF ReplaceSportEvents
  <2>4. lineup' \in [EntryIds -> [Events -> RowStatus]]
    <3>1. \A e \in EntryIds, v \in Events : lineup[e][v] \in RowStatus
      BY <1>s
    <3> QED
      BY <1>6, <1>r, <3>1 DEF ReplaceSportEvents
  <2>5. RowTypes'
    BY <1>6, <1>t, <2>2, <2>3, <2>4 DEF ReplaceSportEvents, RowTypes
  <2> QED
    BY <1>1, <2>5 DEF TypeOK, RowTypes, CallerTypes
<1>7. CASE Expand(c)
  <2>1. req[c].op \in {"expand"} /\ bands' = Append(bands, req[c].band)
    BY <1>7 DEF Expand, Commit, At
  <2>2. req[c].band \in Bands
    BY <1>t, <2>1, AskedTypes
  <2>3. bands' \in Seq(Bands)
    BY <1>s, <2>1, <2>2
  <2>4. RowTypes'
    BY <1>7, <1>t, <2>3 DEF Expand, RowTypes, room
  <2> QED
    BY <1>1, <2>4 DEF TypeOK, RowTypes, CallerTypes
<1>8. CASE DeleteContest(c)
  <2>1. /\ Removed(Live) /\ picks' = [e \in EntryIds |-> NoPicks]
        /\ status' = "DELETED" /\ events' = {} /\ UNCHANGED <<kind, started, drawn, planCap, bands>>
    BY <1>8 DEF DeleteContest
  <2>2. RowTypes'
    BY <1>t, <1>r, <1>rm, <2>1 DEF RowTypes
  <2> QED
    BY <1>1, <2>2 DEF TypeOK, RowTypes, CallerTypes
<1> QED
  BY <1>2, <1>3, <1>4, <1>5, <1>6, <1>7, <1>8

LEMMA AsideTypes ==
  ASSUME TypeOK, NEW c \in Callers,
         \/ ChangeEntryPick(c) \/ SettleEntryEvent(c)
         \/ (EntryMissing(c) \/ Refuse(c) \/ Fail(c))
  PROVE  TypeOK'
<1>t. RowTypes /\ CallerTypes /\ req[c] \in RequestSet
  BY TypesSplit DEF CallerTypes
<1>1. CallerTypes' /\ UNCHANGED <<contest, entry, boxes>>
  <2>1. Finish(c) /\ UNCHANGED <<contest, entry, boxes>>
    BY DEF ChangeEntryPick, SettleEntryEvent, EntryMissing, Refuse, Fail, room
  <2> QED
    BY <1>t, <2>1, FinishTypes
<1>s. /\ picks \in [EntryIds -> [Events -> Lineup]]
      /\ lineup \in [EntryIds -> [Events -> RowStatus]]
  BY <1>t DEF RowTypes
<1>u. ASSUME NEW e \in EntryIds, NEW v \in Events, NEW x \in RowStatus, lineup' = [lineup EXCEPT ![e][v] = x]
      PROVE  lineup' \in [EntryIds -> [Events -> RowStatus]]
  <2>1. [lineup[e] EXCEPT ![v] = x] \in [Events -> RowStatus]
    BY <1>s
  <2>2. [lineup EXCEPT ![e][v] = x] = [lineup EXCEPT ![e] = [lineup[e] EXCEPT ![v] = x]]
    OBVIOUS
  <2> QED
    BY <1>s, <1>u, <2>1, <2>2
<1>2. /\ picks' \in [EntryIds -> [Events -> Lineup]]
      /\ lineup' \in [EntryIds -> [Events -> RowStatus]]
  <2>1. CASE ChangeEntryPick(c)
    <3> DEFINE e == req[c].entry
               v == req[c].event
               change == Change(req[c].op, seen[c].picks, req[c].golfer, v)
               after == Without(seen[c].picks, change.remove) \o change.add
               row == Without(picks[e][v], change.remove) \o change.add
               x == IF StatusAfterPickChange(seen[c].status, after, v) = seen[c].status
                    THEN lineup[e][v] ELSE "DRAFT"
    <3>1. req[c].op \in {"select", "unselect"}
      BY <2>1 DEF ChangeEntryPick, At
    <3>2. e \in EntryIds /\ v \in Events /\ req[c].golfer \in Golfers
      BY <1>t, <3>1, AskedTypes DEF EntryOps
    <3>3. picks[e][v] \in Seq(Golfers) /\ lineup[e][v] \in RowStatus /\ "DRAFT" \in RowStatus
      BY <1>s, <3>2 DEF Lineup, RowStatus
    <3>4. change.add \in Seq(Golfers)
      <4>1. change \in {[remove |-> Displaced(seen[c].picks, req[c].golfer), add |-> <<req[c].golfer>>],
                        [remove |-> {req[c].golfer}, add |-> <<>>], [remove |-> {}, add |-> <<>>]}
        BY <3>1, Zenon DEF Change
      <4> HIDE DEF change
      <4>2. change.add \in {<<req[c].golfer>>, <<>>}
        BY <4>1
      <4>3. <<req[c].golfer>> \in Seq(Golfers) /\ <<>> \in Seq(Golfers)
        BY <3>2
      <4> QED
        BY <4>2, <4>3, Zenon
    <3>5. row \in Lineup
      <4> HIDE DEF change, e, v
      <4>1. Without(picks[e][v], change.remove) \in Seq(Golfers)
        BY <3>3, WithoutShape
      <4> QED
        BY <3>4, <4>1 DEF Lineup
    <3>6. picks' = picks \/ picks' = [picks EXCEPT ![e][v] = row]
      BY <2>1, <1>s, <3>2 DEF ChangeEntryPick
    <3>7. lineup' = lineup \/ lineup' = [lineup EXCEPT ![e][v] = x]
      BY <2>1, <1>s, <3>2 DEF ChangeEntryPick
    <3>8. x \in RowStatus
      BY <3>3
    <3> HIDE DEF change, after, row, x, e, v
    <3>9. lineup' \in [EntryIds -> [Events -> RowStatus]]
      BY <1>s, <1>u, <3>2, <3>7, <3>8
    <3>10. picks' \in [EntryIds -> [Events -> Lineup]]
      <4>1. [picks[e] EXCEPT ![v] = row] \in [Events -> Lineup]
        BY <1>s, <3>2, <3>5
      <4>2. [picks EXCEPT ![e][v] = row] = [picks EXCEPT ![e] = [picks[e] EXCEPT ![v] = row]]
        OBVIOUS
      <4> QED
        BY <1>s, <3>2, <3>6, <4>1, <4>2
    <3> QED
      BY <3>9, <3>10
  <2>2. CASE SettleEntryEvent(c)
    <3>1. req[c].op \in {"submit"} /\ picks' = picks
          /\ (lineup' = lineup \/ lineup' = [lineup EXCEPT ![req[c].entry][req[c].event] = "SUBMITTED"])
      BY <2>2 DEF SettleEntryEvent, At
    <3>2. req[c].entry \in EntryIds /\ req[c].event \in Events /\ "SUBMITTED" \in RowStatus
      BY <1>t, <3>1, AskedTypes DEF EntryOps, RowStatus
    <3> QED
      BY <1>s, <1>u, <3>1, <3>2
  <2>3. CASE EntryMissing(c) \/ Refuse(c) \/ Fail(c)
    BY <1>s, <2>3 DEF EntryMissing, Refuse, Fail, room
  <2> QED
    BY <2>1, <2>2, <2>3
<1>3. RowTypes'
  BY <1>t, <1>1, <1>2 DEF RowTypes, contest
<1> QED
  BY <1>1, <1>3 DEF TypeOK, RowTypes, CallerTypes

LEMMA WorldTypes ==
  ASSUME TypeOK, OpenContest \/ ActivateContest \/ EventStarts \/ ChangePlan \/ UNCHANGED vars
  PROVE  TypeOK'
<1>1. CASE OpenContest \/ ActivateContest
  BY <1>1 DEF OpenContest, ActivateContest, TypeOK, room
<1>2. CASE EventStarts
  BY <1>2 DEF EventStarts, TypeOK, room
<1>3. CASE ChangePlan
  <2>1. requests' \in 0..MaxRequests
    BY <1>3, RoomAssumption DEF ChangePlan, TypeOK
  <2>2. planCap' \in PlanCaps
    BY <1>3 DEF ChangePlan
  <2> QED
    BY <1>3, <2>1, <2>2 DEF ChangePlan, TypeOK, room
<1>4. CASE UNCHANGED vars
  BY <1>4 DEF vars, contest, room, TypeOK
<1> QED
  BY <1>1, <1>2, <1>3, <1>4

LEMMA TypesInit == Init => TypeOK
<1> SUFFICES ASSUME Init PROVE TypeOK
  OBVIOUS
<1>1. /\ NoRow \in [Events -> RowStatus] /\ NoPicks \in [Events -> Lineup] /\ Unborn \in Entry
  BY DEF RowStatus, NoRow, Lineup, NoPicks, Entry
<1>2. NoRequest \in RequestSet /\ NothingSeen \in SeenSet
  BY DEF RequestSet, SeenSet
<1>3. planCap \in PlanCaps /\ events \subseteq Events /\ requests \in 0..MaxRequests /\ bands \in Seq(Bands)
  BY RoomAssumption DEF Init
<1> QED
  BY <1>1, <1>2, <1>3 DEF Init, TypeOK

LEMMA TypesStep == TypeOK /\ [Next]_vars => TypeOK'
<1> SUFFICES ASSUME TypeOK, [Next]_vars PROVE TypeOK'
  OBVIOUS
<1>t. RowTypes /\ CallerTypes
  BY TypesSplit
<1>1. CASE \E c \in Callers : Request(c) \/ Transact(c) \/ Fail(c)
  <2>1. PICK c \in Callers : Request(c) \/ Transact(c) \/ Fail(c)
    BY <1>1
  <2>2. CASE Request(c)
    <3>1. PICK j \in RequestSet : Ask(c, j)
      BY <2>2, RequestTypes
    <3>2. CallerTypes'
      BY <1>t, <3>1, AskTypes
    <3>3. RowTypes'
      BY <1>t, <3>1 DEF Ask, RowTypes, contest, room
    <3> QED
      BY <3>2, <3>3 DEF TypeOK, RowTypes, CallerTypes
  <2>3. CASE TakeContestLock(c) \/ TakeEntryLock(c)
    <3>1. CallerTypes'
      BY <2>3, TakeTypes
    <3>2. RowTypes'
      BY <1>t, <2>3 DEF TakeContestLock, TakeEntryLock, RowTypes, contest, room
    <3> QED
      BY <3>1, <3>2 DEF TypeOK, RowTypes, CallerTypes
  <2> QED
    BY <2>1, <2>2, <2>3, ContestTypes, AsideTypes DEF Transact
<1>2. CASE OpenContest \/ ActivateContest \/ EventStarts \/ ChangePlan \/ UNCHANGED vars
  BY <1>2, WorldTypes
<1> QED
  BY <1>1, <1>2 DEF Next

(***************************************************************************)
(* Every variable keeps its type, for any callers, squads, events, golfers *)
(* and bounds; entry numbers stay above zero.                              *)
(***************************************************************************)
THEOREM RoomTypes == Spec => []TypeOK
BY TypesInit, TypesStep, PTL DEF Spec

-----------------------------------------------------------------------------
(* Rosters. A change of picks keeps a roster in bounds when it decides on   *)
(* the picks it writes over. Under the entry's lock these are the picks     *)
(* read, or none any more when the event was taken out of the contest.      *)

Fits(held, v) ==
  /\ held \in Seq(Golfers) /\ NoRepeat(held)
  /\ Len(held) <= RosterSizeOf(v)
  /\ kind = "TIERED" => \A t \in Tiers : Cardinality(InTier(held, t)) <= PicksPerTier
RowsFit == \A e \in EntryIds, v \in Events : Fits(picks[e][v], v)
ReadsFit == \A c \in Callers, e \in EntryIds : HoldsEntry(c, e) =>
  /\ Fits(seen[c].picks, req[c].event)
  /\ picks[e][req[c].event] \in {seen[c].picks, <<>>}
RosterInv == TypeOK /\ Base /\ (kind \in RosterKinds => RowsFit /\ ReadsFit)

LEMMA RosterSizeIs ==
  ASSUME NEW v PROVE RosterSizeOf(v) \in Nat
<1> DEFINE G == {x \in Golfers : EventOf[x] = v}
           f == [g \in G |-> TierOf[g]]
<1>1. IsFiniteSet(G)
  BY RoomAssumption, FS_Subset
<1>2. f \in Surjection(G, TiersOf(v))
  BY DEF Surjection, TiersOf
<1>3. IsFiniteSet(TiersOf(v))
  <2> HIDE DEF G, f
  <2> QED
    BY <1>1, <1>2, FS_Surjection
<1>4. Cardinality(TiersOf(v)) \in Nat
  BY <1>3, FS_CardinalityType
<1>5. PicksPerTier \in Nat /\ RosterSize \in Nat
  BY RoomAssumption
<1>6. PicksPerTier * Cardinality(TiersOf(v)) \in Nat
  BY <1>4, <1>5
<1> QED
  BY <1>5, <1>6 DEF RosterSizeOf

LEMMA TierCounts ==
  ASSUME NEW held \in Seq(Golfers), NoRepeat(held), NEW t
  PROVE  IsFiniteSet(InTier(held, t)) /\ Cardinality(InTier(held, t)) \in Nat
<1>1. IsFiniteSet(Range(held))
  BY RepeatsCount
<1>2. InTier(held, t) \in SUBSET Range(held)
  BY DEF InTier
<1> QED
  BY <1>1, <1>2, FS_Subset, FS_CardinalityType

LEMMA FewerFit ==
  ASSUME NEW v, NEW held, Fits(held, v), NEW few \in Seq(Golfers), NoRepeat(few),
         Len(few) <= Len(held), Range(few) \subseteq Range(held)
  PROVE  Fits(few, v)
<1>1. /\ held \in Seq(Golfers) /\ NoRepeat(held) /\ Len(held) <= RosterSizeOf(v)
      /\ Len(held) \in Nat /\ Len(few) \in Nat /\ RosterSizeOf(v) \in Nat
  BY RosterSizeIs DEF Fits
<1>2. Len(few) <= RosterSizeOf(v)
  BY <1>1
<1>3. ASSUME kind = "TIERED", NEW t \in Tiers
      PROVE  Cardinality(InTier(few, t)) <= PicksPerTier
  <2>1. /\ IsFiniteSet(InTier(held, t)) /\ Cardinality(InTier(held, t)) \in Nat
        /\ Cardinality(InTier(few, t)) \in Nat
    BY <1>1, TierCounts
  <2>2. InTier(few, t) \in SUBSET InTier(held, t)
    BY DEF InTier
  <2>3. Cardinality(InTier(few, t)) <= Cardinality(InTier(held, t))
    BY <2>1, <2>2, FS_Subset
  <2>4. Cardinality(InTier(held, t)) <= PicksPerTier /\ PicksPerTier \in Nat
    BY <1>3, RoomAssumption DEF Fits
  <2> QED
    BY <2>1, <2>3, <2>4
<1> QED
  BY <1>2, <1>3 DEF Fits

LEMMA EmptyFits ==
  ASSUME NEW v PROVE Fits(<<>>, v) /\ NoRepeat(<<>>) /\ Range(<<>>) = {}
<1>1. NoRepeat(<<>>) /\ Range(<<>>) = {} /\ <<>> \in Seq(Golfers) /\ Len(<<>>) = 0
  BY DEF NoRepeat, Range
<1>2. 0 <= RosterSizeOf(v)
  BY RosterSizeIs
<1>3. \A t : Cardinality(InTier(<<>>, t)) = 0
  <2>1. \A t : InTier(<<>>, t) = {}
    BY <1>1 DEF InTier
  <2> QED
    BY <2>1, FS_EmptySet
<1>4. \A t : Cardinality(InTier(<<>>, t)) <= PicksPerTier
  BY <1>3, RoomAssumption
<1> QED
  BY <1>1, <1>2, <1>4 DEF Fits

LEMMA OneMoreFits ==
  ASSUME NEW v, NEW held, Fits(held, v), NEW g \in Golfers, g \notin Range(held),
         Len(held) < RosterSizeOf(v),
         kind = "TIERED" => Cardinality(InTier(held, TierOf[g])) < PicksPerTier
  PROVE  Fits(held \o <<g>>, v)
<1> DEFINE more == held \o <<g>>
<1>1. /\ held \in Seq(Golfers) /\ NoRepeat(held) /\ Len(held) \in Nat /\ RosterSizeOf(v) \in Nat
  BY RosterSizeIs DEF Fits
<1>2. /\ more \in Seq(Golfers) /\ NoRepeat(more) /\ Len(more) = Len(held) + 1
      /\ Range(more) = Range(held) \cup {g}
  BY <1>1, PickedLast
<1> HIDE DEF more
<1>3. Len(more) <= RosterSizeOf(v)
  BY <1>1, <1>2
<1>4. ASSUME kind = "TIERED", NEW t \in Tiers
      PROVE  Cardinality(InTier(more, t)) <= PicksPerTier
  <2>1. IsFiniteSet(InTier(held, t)) /\ Cardinality(InTier(held, t)) \in Nat
    BY <1>1, TierCounts
  <2>2. Cardinality(InTier(held, t)) <= PicksPerTier /\ PicksPerTier \in Nat
    BY <1>4, RoomAssumption DEF Fits
  <2>3. CASE t = TierOf[g]
    <3>1. InTier(more, t) = InTier(held, t) \cup {g} /\ g \notin InTier(held, t)
      BY <1>2, <2>3 DEF InTier
    <3>2. Cardinality(InTier(more, t)) = Cardinality(InTier(held, t)) + 1
      BY <2>1, <3>1, FS_AddElement
    <3>3. Cardinality(InTier(held, t)) < PicksPerTier
      BY <1>4, <2>3
    <3> QED
      BY <2>1, <2>2, <3>2, <3>3
  <2>4. CASE t # TierOf[g]
    <3>1. InTier(more, t) = InTier(held, t)
      BY <1>2, <2>4 DEF InTier
    <3> QED
      BY <2>2, <3>1
  <2> QED
    BY <2>3, <2>4
<1> QED
  BY <1>2, <1>3, <1>4 DEF Fits, more

(* What a change of picks may be. *)
LEMMA ChangeIs ==
  ASSUME NEW op \in {"select", "unselect"}, NEW held, NEW g, NEW v
  PROVE  \/ /\ Change(op, held, g, v) = [remove |-> Displaced(held, g), add |-> <<g>>]
            /\ g \notin Range(held) /\ (Displaced(held, g) # {} \/ ~Full(held, v))
         \/ /\ Change(op, held, g, v) = [remove |-> {g}, add |-> <<>>]
            /\ g \in Range(held)
         \/ Change(op, held, g, v) = [remove |-> {}, add |-> <<>>]
BY Zenon DEF Change

LEMMA NothingRemoved ==
  ASSUME NEW held PROVE Without(held, {}) = held
BY DEF Without

(* A change decided on a roster that fits leaves one that fits, and so does *)
(* one that finds the picks gone.                                           *)
LEMMA ChangeFits ==
  ASSUME NEW op \in {"select", "unselect"}, NEW v, NEW held, Fits(held, v), NEW g \in Golfers,
         NEW row \in {held, <<>>}, Change(op, held, g, v).remove \subseteq Range(row)
  PROVE  Fits(Without(row, Change(op, held, g, v).remove) \o Change(op, held, g, v).add, v)
<1>1. /\ held \in Seq(Golfers) /\ NoRepeat(held) /\ Len(held) \in Nat /\ RosterSizeOf(v) \in Nat
      /\ Len(held) <= RosterSizeOf(v)
  BY RosterSizeIs DEF Fits
<1>2. Fits(row, v) /\ row \in Seq(Golfers) /\ Len(row) <= Len(held)
  <2>1. CASE row = held
    BY <1>1, <2>1
  <2>2. CASE row = <<>>
    <3>1. Fits(<<>>, v) /\ <<>> \in Seq(Golfers) /\ Len(<<>>) <= Len(held)
      BY <1>1, EmptyFits
    <3> QED
      BY <2>2, <3>1
  <2> QED
    BY <2>1, <2>2
<1>3. CASE /\ Change(op, held, g, v) = [remove |-> Displaced(held, g), add |-> <<g>>]
           /\ g \notin Range(held) /\ (Displaced(held, g) # {} \/ ~Full(held, v))
  <2>1. Change(op, held, g, v).remove = Displaced(held, g) /\ Change(op, held, g, v).add = <<g>>
    BY <1>3
  <2>2. g \notin Range(row)
    BY <1>3, EmptyFits
  <2>3. CASE Displaced(held, g) = {}
    <3>1. Without(row, {}) \o <<g>> = row \o <<g>>
      BY NothingRemoved
    <3>2. Len(held) < RosterSizeOf(v)
      BY <1>1, <1>3, <2>3 DEF Full
    <3>3. Len(row) < RosterSizeOf(v)
      BY <1>1, <1>2, <3>2
    <3>4. ASSUME kind = "TIERED" PROVE Cardinality(InTier(row, TierOf[g])) < PicksPerTier
      <4>1. PicksPerTier \in Nat \ {0}
        BY RoomAssumption
      <4>2. Cardinality(InTier(held, TierOf[g])) < PicksPerTier
        <5>1. Cardinality(InTier(held, TierOf[g])) \in Nat
          BY <1>1, TierCounts
        <5>2. ~(Cardinality(InTier(held, TierOf[g])) >= PicksPerTier)
          BY <2>3, <3>4 DEF Displaced
        <5> QED
          BY <4>1, <5>1, <5>2
      <4>3. CASE row = <<>>
        <5>1. InTier(<<>>, TierOf[g]) = {}
          BY EmptyFits DEF InTier
        <5>2. Cardinality(InTier(row, TierOf[g])) = 0
          BY <4>3, <5>1, FS_EmptySet
        <5> QED
          BY <4>1, <5>2
      <4> QED
        BY <4>2, <4>3
    <3>5. Fits(row \o <<g>>, v)
      BY <1>2, <2>2, <3>3, <3>4, OneMoreFits
    <3> QED
      BY <2>1, <2>3, <3>1, <3>5
  <2>4. CASE Displaced(held, g) # {}
    <3> DEFINE same == InTier(held, TierOf[g])
               x == Newest(held, same)
    <3>1. kind = "TIERED" /\ Cardinality(same) >= PicksPerTier /\ Displaced(held, g) = {x}
      BY <2>4 DEF Displaced
    <3>2. PicksPerTier \in Nat \ {0} /\ IsFiniteSet(same) /\ Cardinality(same) \in Nat
      BY <1>1, TierCounts, RoomAssumption
    <3>3. same # {} /\ same \cap Range(held) # {}
      <4>1. Cardinality(same) # 0
        BY <3>1, <3>2
      <4>2. same # {}
        BY <4>1, FS_EmptySet
      <4> QED
        BY <4>2 DEF InTier
    <3>4. x \in same \cap Range(held)
      <4> HIDE DEF same
      <4> QED
        BY <1>1, <3>3, NewestIsHeld
    <3> HIDE DEF same, x
    <3>5. row = held
      BY <2>1, <3>1, EmptyFits
    <3> DEFINE w == Without(held, {x})
    <3>6. /\ w \in Seq(Golfers) /\ NoRepeat(w) /\ Len(w) = Len(held) - 1
          /\ Range(w) = Range(held) \ {x}
      BY <1>1, <3>4, WithoutOne
    <3> HIDE DEF w
    <3>7. Fits(w, v)
      <4>1. Len(w) <= Len(held) /\ Range(w) \subseteq Range(held)
        BY <1>1, <3>6
      <4> QED
        BY <3>6, <4>1, FewerFit
    <3>8. Len(w) < RosterSizeOf(v) /\ g \notin Range(w)
      BY <1>1, <1>3, <3>6
    <3>9. Cardinality(InTier(w, TierOf[g])) < PicksPerTier
      <4>1. InTier(w, TierOf[g]) = same \ {x}
        BY <3>6 DEF InTier, same
      <4>2. Cardinality(InTier(w, TierOf[g])) = Cardinality(same) - 1
        BY <3>2, <3>4, <4>1, FS_RemoveElement
      <4>3. Cardinality(same) <= PicksPerTier
        BY <3>1 DEF Fits, Tiers, same
      <4> QED
        BY <3>2, <4>2, <4>3
    <3>10. Fits(w \o <<g>>, v)
      BY <3>7, <3>8, <3>9, OneMoreFits
    <3> QED
      BY <2>1, <3>1, <3>5, <3>10 DEF w
  <2> QED
    BY <2>3, <2>4
<1>4. CASE Change(op, held, g, v) = [remove |-> {g}, add |-> <<>>] /\ g \in Range(held)
  <2>1. Change(op, held, g, v).remove = {g} /\ Change(op, held, g, v).add = <<>>
    BY <1>4
  <2>2. row = held
    BY <2>1, EmptyFits
  <2> DEFINE w == Without(held, {g})
  <2>3. /\ w \in Seq(Golfers) /\ NoRepeat(w) /\ Len(w) = Len(held) - 1
        /\ Range(w) = Range(held) \ {g}
    BY <1>1, <1>4, WithoutOne
  <2> HIDE DEF w
  <2>4. Len(w) <= Len(held) /\ Range(w) \subseteq Range(held)
    BY <1>1, <2>3
  <2>5. Fits(w, v)
    BY <2>3, <2>4, FewerFit
  <2>6. w \o <<>> = w
    BY <2>3
  <2> QED
    BY <2>1, <2>2, <2>5, <2>6 DEF w
<1>5. CASE Change(op, held, g, v) = [remove |-> {}, add |-> <<>>]
  <2>1. Change(op, held, g, v).remove = {} /\ Change(op, held, g, v).add = <<>>
    BY <1>5
  <2>2. row \o <<>> = row
    BY <1>2
  <2> QED
    BY <1>2, <2>1, <2>2, NothingRemoved
<1> QED
  BY <1>3, <1>4, <1>5, ChangeIs

(* A transaction that ends writes only rosters that fit, and to other       *)
(* entries at most nothing or an emptied row.                               *)
LEMMA FinishRosters ==
  ASSUME Base, RowsFit, ReadsFit, NEW c \in Callers, Finish(c), kind' = kind, TypeOK,
         \A e \in EntryIds, v \in Events :
           \/ picks'[e][v] \in {picks[e][v], <<>>}
           \/ HoldsEntry(c, e) /\ Fits(picks'[e][v], v)
  PROVE  RowsFit' /\ ReadsFit'
<1>2. Shapes /\ Locks
  BY DEF Base
<1>3. RowsFit'
  <2> SUFFICES ASSUME NEW e \in EntryIds, NEW v \in Events PROVE Fits(picks[e][v], v)'
    BY DEF RowsFit
  <2>1. Fits(picks'[e][v], v)
    BY EmptyFits DEF RowsFit
  <2> QED
    BY <2>1 DEF Fits, RosterSizeOf
<1>4. ReadsFit'
  <2> SUFFICES ASSUME NEW d \in Callers, NEW e \in EntryIds, HoldsEntry(d, e)'
               PROVE  (Fits(seen[d].picks, req[d].event) /\ picks[e][req[d].event] \in {seen[d].picks, <<>>})'
    BY DEF ReadsFit
  <2>1. d # c /\ pc'[d] = pc[d] /\ req'[d] = req[d] /\ seen'[d] = seen[d]
    BY <1>2, Finished DEF HoldsEntry
  <2>2. HoldsEntry(d, e)
    BY <2>1 DEF HoldsEntry
  <2>3. Fits(seen[d].picks, req[d].event) /\ picks[e][req[d].event] \in {seen[d].picks, <<>>}
    BY <2>2 DEF ReadsFit
  <2>4. ~HoldsEntry(c, e)
    BY <1>2, <2>1, <2>2 DEF Locks
  <2>5. req[d].event \in Events
    BY <2>2, AskedTypes DEF HoldsEntry, TypeOK
  <2>6. picks'[e][req[d].event] \in {seen[d].picks, <<>>}
    BY <2>3, <2>4, <2>5
  <2>7. Fits(seen[d].picks, req[d].event)'
    BY <2>1, <2>3 DEF Fits, RosterSizeOf
  <2> QED
    BY <2>1, <2>6, <2>7
<1> QED
  BY <1>3, <1>4

LEMMA RosterStep ==
  ASSUME TypeOK, Base, kind \in RosterKinds, RowsFit, ReadsFit, [Next]_vars
  PROVE  kind' = kind /\ RowsFit' /\ ReadsFit'
<1>b. Shapes /\ Asked /\ Locks
  BY DEF Base
<1>1. ASSUME kind' = kind, picks' = picks,
             \A d \in Callers, e \in EntryIds : HoldsEntry(d, e)' =>
               HoldsEntry(d, e) /\ seen'[d] = seen[d] /\ req'[d] = req[d]
      PROVE  RowsFit' /\ ReadsFit'
  <2>1. RowsFit'
    BY <1>1 DEF RowsFit, Fits, RosterSizeOf
  <2>2. ReadsFit'
    <3> SUFFICES ASSUME NEW d \in Callers, NEW e \in EntryIds, HoldsEntry(d, e)'
                 PROVE  (Fits(seen[d].picks, req[d].event) /\ picks[e][req[d].event] \in {seen[d].picks, <<>>})'
      BY DEF ReadsFit
    <3>1. HoldsEntry(d, e) /\ seen'[d] = seen[d] /\ req'[d] = req[d]
      BY <1>1
    <3>2. Fits(seen[d].picks, req[d].event) /\ picks[e][req[d].event] \in {seen[d].picks, <<>>}
      BY <3>1 DEF ReadsFit
    <3> QED
      BY <1>1, <3>1, <3>2 DEF Fits, RosterSizeOf
  <2> QED
    BY <2>1, <2>2
<1>2. CASE \E c \in Callers : Request(c) \/ Transact(c) \/ Fail(c)
  <2>1. PICK c \in Callers : Request(c) \/ Transact(c) \/ Fail(c)
    BY <1>2
  <2>2. CASE Request(c)
    <3>1. PICK j : Ask(c, j)
      BY <1>b, <2>2, Requested
    <3>2. /\ kind' = kind /\ picks' = picks /\ seen' = seen
          /\ pc' = [pc EXCEPT ![c] = "waiting"] /\ req' = [req EXCEPT ![c] = j]
      BY <3>1 DEF Ask, contest, room
    <3>3. pc'[c] = "waiting" /\ \A d \in Callers \ {c} : pc'[d] = pc[d] /\ req'[d] = req[d]
      BY <1>b, <3>2 DEF Shapes
    <3>4. \A d \in Callers, e \in EntryIds : HoldsEntry(d, e)' =>
            HoldsEntry(d, e) /\ seen'[d] = seen[d] /\ req'[d] = req[d]
      BY <3>2, <3>3 DEF HoldsEntry
    <3> QED
      BY <1>1, <3>2, <3>4
  <2>3. CASE TakeContestLock(c)
    <3>1. /\ kind' = kind /\ picks' = picks /\ req' = req /\ req[c].op \in ContestOps
          /\ pc' = [pc EXCEPT ![c] = "locked"] /\ seen' = [seen EXCEPT ![c] = ContestRows]
      BY <2>3 DEF TakeContestLock, contest, room
    <3>2. \A d \in Callers \ {c} : pc'[d] = pc[d] /\ seen'[d] = seen[d]
      BY <1>b, <3>1 DEF Shapes
    <3>3. \A d \in Callers, e \in EntryIds : HoldsEntry(d, e)' =>
            HoldsEntry(d, e) /\ seen'[d] = seen[d] /\ req'[d] = req[d]
      BY <3>1, <3>2 DEF HoldsEntry, ContestOps, EntryOps
    <3> QED
      BY <1>1, <3>1, <3>3
  <2>4. CASE TakeEntryLock(c)
    <3>1. /\ kind' = kind /\ picks' = picks /\ req' = req /\ req[c].op \in EntryOps
          /\ pc' = [pc EXCEPT ![c] = "locked"]
          /\ seen' = [seen EXCEPT ![c] = EntryRows(req[c].entry, req[c].event)]
      BY <2>4 DEF TakeEntryLock, contest, room
    <3>2. /\ \A d \in Callers \ {c} : pc'[d] = pc[d] /\ seen'[d] = seen[d]
          /\ seen'[c] = EntryRows(req[c].entry, req[c].event)
      BY <1>b, <3>1 DEF Shapes
    <3>3. req[c].entry \in EntryIds /\ req[c].event \in Events
      BY <3>1, AskedTypes DEF TypeOK
    <3>4. RowsFit'
      BY <3>1 DEF RowsFit, Fits, RosterSizeOf
    <3>5. ReadsFit'
      <4> SUFFICES ASSUME NEW d \in Callers, NEW e \in EntryIds, HoldsEntry(d, e)'
                   PROVE  (Fits(seen[d].picks, req[d].event) /\ picks[e][req[d].event] \in {seen[d].picks, <<>>})'
        BY DEF ReadsFit
      <4>1. CASE d = c
        <5>1. e = req[c].entry /\ seen'[c].picks = picks[e][req[c].event]
          BY <3>1, <3>2, <4>1 DEF HoldsEntry, EntryRows
        <5>2. Fits(picks[e][req[c].event], req[c].event)
          BY <3>3 DEF RowsFit
        <5> QED
          BY <3>1, <4>1, <5>1, <5>2 DEF Fits, RosterSizeOf
      <4>2. CASE d # c
        <5>1. HoldsEntry(d, e) /\ seen'[d] = seen[d]
          BY <3>1, <3>2, <4>2 DEF HoldsEntry
        <5>2. Fits(seen[d].picks, req[d].event) /\ picks[e][req[d].event] \in {seen[d].picks, <<>>}
          BY <5>1 DEF ReadsFit
        <5> QED
          BY <3>1, <5>1, <5>2 DEF Fits, RosterSizeOf
      <4> QED
        BY <4>1, <4>2
    <3> QED
      BY <3>1, <3>4, <3>5
  <2>5. CASE \/ CreateEntry(c) \/ LeaveContest(c) \/ ClaimBox(c) \/ ClearBox(c) \/ RecordDigits(c)
             \/ Expand(c) \/ SettleEntryEvent(c) \/ (EntryMissing(c) \/ Refuse(c) \/ Fail(c))
    <3>1. kind' = kind /\ picks' = picks /\ Finish(c)
      BY <2>5 DEF CreateEntry, LeaveContest, ClaimBox, ClearBox, RecordDigits, Expand, Commit,
                  SettleEntryEvent, EntryMissing, Refuse, Fail, contest, room
    <3> QED
      BY <3>1, FinishRosters
  <2>6. CASE RecordDraw(c)
    <3>1. Commit(c, "draw") /\ "draw" \in ContestOps
      BY <2>6 DEF RecordDraw, ContestOps
    <3>2. kind = "RANDOM_DRAW"
      BY <3>1, Committed DEF Asks
    <3> QED
      BY <3>2 DEF RosterKinds
  <2>7. CASE ReplaceSportEvents(c)
    <3>1. /\ kind' = kind /\ Finish(c)
          /\ \A e \in EntryIds, v \in Events : picks'[e][v] \in {picks[e][v], <<>>}
      BY <2>7 DEF ReplaceSportEvents, Commit
    <3> QED
      BY <3>1, FinishRosters
  <2>8. CASE DeleteContest(c)
    <3>1. /\ kind' = kind /\ Finish(c)
          /\ \A e \in EntryIds, v \in Events : picks'[e][v] = <<>>
      BY <2>8 DEF DeleteContest, Commit, NoPicks
    <3> QED
      BY <3>1, FinishRosters
  <2>9. CASE ChangeEntryPick(c)
    <3> DEFINE e == req[c].entry
               v == req[c].event
               change == Change(req[c].op, seen[c].picks, req[c].golfer, v)
               row == Without(picks[e][v], change.remove) \o change.add
    <3>1. /\ req[c].op \in {"select", "unselect"} /\ pc[c] = "locked" /\ Finish(c) /\ kind' = kind
      BY <2>9 DEF ChangeEntryPick, At, contest
    <3>2. e \in EntryIds /\ v \in Events /\ req[c].golfer \in Golfers
      BY <3>1, AskedTypes DEF TypeOK, EntryOps
    <3>3. HoldsEntry(c, e)
      BY <3>1 DEF HoldsEntry, EntryOps
    <3>4. Fits(seen[c].picks, v) /\ picks[e][v] \in {seen[c].picks, <<>>}
      BY <3>2, <3>3 DEF ReadsFit
    <3>5. \/ picks' = picks
          \/ (change.remove \subseteq Range(picks[e][v]) /\ picks' = [picks EXCEPT ![e][v] = row])
      BY <2>9, <3>2, <1>b DEF ChangeEntryPick
    <3>6. change.remove \subseteq Range(picks[e][v]) => Fits(row, v)
      <4> HIDE DEF e, v
      <4> QED
        BY <3>1, <3>2, <3>4, ChangeFits
    <3> HIDE DEF row, change, e, v
    <3>7. ASSUME NEW f \in EntryIds, NEW u \in Events
          PROVE  picks'[f][u] \in {picks[f][u], <<>>} \/ (HoldsEntry(c, f) /\ Fits(picks'[f][u], u))
      <4>1. CASE picks' = picks
        BY <4>1
      <4>2. CASE change.remove \subseteq Range(picks[e][v]) /\ picks' = [picks EXCEPT ![e][v] = row]
        <5>1. picks \in [EntryIds -> [Events -> Lineup]]
          BY DEF TypeOK
        <5>2. picks'[f][u] = IF f = e /\ u = v THEN row ELSE picks[f][u]
          BY <3>2, <4>2, <5>1
        <5> QED
          BY <3>3, <3>6, <4>2, <5>2
      <4> QED
        BY <3>5, <4>1, <4>2
    <3> QED
      BY <3>1, <3>7, FinishRosters
  <2> QED
    BY <2>1, <2>2, <2>3, <2>4, <2>5, <2>6, <2>7, <2>8, <2>9 DEF Transact
<1>3. CASE OpenContest \/ ActivateContest \/ EventStarts \/ ChangePlan \/ UNCHANGED vars
  <2>1. UNCHANGED <<kind, picks, pc, req, seen>>
    BY <1>3, WorldBase
  <2>2. \A d \in Callers, e \in EntryIds : HoldsEntry(d, e)' =>
            HoldsEntry(d, e) /\ seen'[d] = seen[d] /\ req'[d] = req[d]
    BY <2>1 DEF HoldsEntry
  <2> QED
    BY <1>1, <2>1, <2>2
<1> QED
  BY <1>2, <1>3 DEF Next

LEMMA KindStays == ASSUME [Next]_vars PROVE kind' = kind
<1>1. CASE \E c \in Callers : Request(c) \/ Transact(c) \/ Fail(c)
  <2>1. PICK c \in Callers : Request(c) \/ Transact(c) \/ Fail(c)
    BY <1>1
  <2>2. CASE Request(c)
    BY <2>2 DEF Request, RequestEntry, RequestLeave, RequestPick, RequestSubmit, RequestDraw,
      RequestClaim, RequestClear, RequestDigits, RequestEvents, RequestExpansion, RequestDelete,
      RequestCleanUp, Ask, contest
  <2>3. CASE Transact(c) \/ Fail(c)
    BY <2>3 DEF Transact, Fail, TakeContestLock, TakeEntryLock, EntryMissing, Refuse, CreateEntry,
      LeaveContest, RecordDraw, ClaimBox, ClearBox, RecordDigits, ReplaceSportEvents, Expand,
      DeleteContest, ChangeEntryPick, SettleEntryEvent, contest
  <2> QED
    BY <2>1, <2>2, <2>3
<1>2. CASE OpenContest \/ ActivateContest \/ EventStarts \/ ChangePlan \/ UNCHANGED vars
  BY <1>2 DEF OpenContest, ActivateContest, EventStarts, ChangePlan, vars, contest
<1> QED
  BY <1>1, <1>2 DEF Next

LEMMA RosterInit == Init => RosterInv
<1> SUFFICES ASSUME Init PROVE RosterInv
  OBVIOUS
<1>1. \A e \in EntryIds, v \in Events : picks[e][v] = <<>>
  BY DEF Init, NoPicks
<1>2. RowsFit
  BY <1>1, EmptyFits DEF RowsFit
<1>3. ReadsFit
  BY DEF Init, ReadsFit, HoldsEntry
<1> QED
  BY <1>2, <1>3, TypesInit, BaseInit DEF RosterInv

LEMMA RosterNext == RosterInv /\ [Next]_vars => RosterInv'
<1> SUFFICES ASSUME RosterInv, [Next]_vars PROVE RosterInv'
  OBVIOUS
<1>1. TypeOK' /\ Base'
  BY TypesStep, BaseStep DEF RosterInv
<1>2. kind' \in RosterKinds => RowsFit' /\ ReadsFit'
  BY KindStays, RosterStep DEF RosterInv, RosterKinds
<1> QED
  BY <1>1, <1>2 DEF RosterInv, RosterKinds

LEMMA RosterHolds == Spec => []RosterInv
BY RosterInit, RosterNext, PTL DEF Spec

(***************************************************************************)
(* No roster or tier is overfilled and no golfer is held twice, whatever   *)
(* tabs pick for one entry at once and whatever happens to its events.     *)
(***************************************************************************)
THEOREM RostersStayInBounds == Spec => []RostersFit
<1>1. RosterInv => RostersFit
  <2> SUFFICES ASSUME RosterInv, kind \in RosterKinds, NEW e \in Live, NEW v \in Events
               PROVE  /\ Len(picks[e][v]) <= RosterSizeOf(v)
                      /\ Cardinality(Range(picks[e][v])) = Len(picks[e][v])
                      /\ kind = "TIERED" => \A t \in TiersOf(v) : Cardinality(InTier(picks[e][v], t)) <= PicksPerTier
    BY DEF RostersFit
  <2>1. e \in EntryIds
    BY DEF Live
  <2>2. Fits(picks[e][v], v)
    BY <2>1 DEF RosterInv, RowsFit
  <2>3. TiersOf(v) \subseteq Tiers
    BY DEF TiersOf, Tiers
  <2> QED
    BY <2>2, <2>3, RepeatsCount DEF Fits
<1> QED
  BY <1>1, RosterHolds, PTL

-----------------------------------------------------------------------------
(* Lineups while no event is taken out of the contest. A submit or a change *)
(* of picks under way when its event is taken out would write its status    *)
(* to a row that is no longer there, and so make it again.                  *)

EventsOnlyAdded == status' # "DELETED" => events \subseteq events'

GoneIsEmpty == status = "DELETED" => Live = {}
AskedOfAnEvent == \A c \in Callers :
  pc[c] # "idle" /\ req[c].op \in EntryOps => req[c].event \in events \/ status = "DELETED"
ReadsAreRows == kind \in RosterKinds => \A c \in Callers, e \in EntryIds : HoldsEntry(c, e) =>
  /\ seen[c].picks = picks[e][req[c].event]
  /\ seen[c].status = lineup[e][req[c].event]
LineupInv ==
  /\ TypeOK /\ Base /\ GoneIsEmpty /\ AskedOfAnEvent /\ ReadsAreRows
  /\ LineupsCoverEvents /\ SubmittedIsComplete

ContestStep(c) ==
  \/ CreateEntry(c) \/ LeaveContest(c) \/ RecordDraw(c) \/ ClaimBox(c) \/ ClearBox(c)
  \/ RecordDigits(c) \/ ReplaceSportEvents(c) \/ Expand(c) \/ DeleteContest(c)

(* A contest that is gone stays so, and has no entries. *)
LEMMA GoneStep ==
  ASSUME TypeOK, Base, GoneIsEmpty, [Next]_vars
  PROVE  GoneIsEmpty' /\ (status = "DELETED" => status' = "DELETED")
<1>1. CASE \E c \in Callers : Request(c) \/ Transact(c) \/ Fail(c)
  <2>1. PICK c \in Callers : Request(c) \/ Transact(c) \/ Fail(c)
    BY <1>1
  <2>2. CASE Request(c) \/ TakeContestLock(c) \/ TakeEntryLock(c)
    <3>1. UNCHANGED <<contest, room>>
      BY <2>2, RequestBase, TakeBase
    <3> QED
      BY <3>1 DEF GoneIsEmpty, Live, contest, room
  <2>3. CASE EntryMissing(c) \/ Refuse(c) \/ Fail(c) \/ ChangeEntryPick(c) \/ SettleEntryEvent(c)
    <3>1. UNCHANGED <<contest, entry, boxes>>
      BY <2>3, AsideBase
    <3> QED
      BY <3>1 DEF GoneIsEmpty, Live, contest
  <2>4. CASE \/ RecordDraw(c) \/ ClaimBox(c) \/ ClearBox(c) \/ RecordDigits(c)
             \/ ReplaceSportEvents(c) \/ Expand(c)
    <3>1. UNCHANGED <<status, entry>>
      BY <2>4 DEF RecordDraw, ClaimBox, ClearBox, RecordDigits, ReplaceSportEvents, Expand, contest, room
    <3> QED
      BY <3>1 DEF GoneIsEmpty, Live
  <2>5. CASE CreateEntry(c)
    <3>1. UNCHANGED status /\ Commit(c, "create") /\ "create" \in ContestOps
      BY <2>5 DEF CreateEntry, contest, ContestOps
    <3>2. status # "DELETED"
      BY <3>1, Committed DEF Allowed, MayEnter
    <3> QED
      BY <3>1, <3>2 DEF GoneIsEmpty
  <2>6. CASE LeaveContest(c)
    <3>1. UNCHANGED status /\ Removed({req[c].entry})
      BY <2>6 DEF LeaveContest, contest
    <3>2. \A e \in EntryIds : entry'[e] = entry[e] \/ entry'[e] = Gone
      BY <3>1 DEF Removed
    <3>3. Live' \subseteq Live
      BY <3>2 DEF Live, Gone
    <3> QED
      BY <3>1, <3>3 DEF GoneIsEmpty
  <2>7. CASE DeleteContest(c)
    <3>1. status' = "DELETED" /\ Removed(Live)
      BY <2>7 DEF DeleteContest
    <3>2. \A e \in EntryIds : entry'[e] = IF e \in Live THEN Gone ELSE entry[e]
      BY <3>1 DEF Removed
    <3>3. Live' = {}
      BY <3>2 DEF Live, Gone
    <3> QED
      BY <3>1, <3>3 DEF GoneIsEmpty
  <2> QED
    BY <2>1, <2>2, <2>3, <2>4, <2>5, <2>6, <2>7 DEF Transact
<1>2. CASE OpenContest \/ ActivateContest \/ EventStarts \/ ChangePlan \/ UNCHANGED vars
  <2>1. entry' = entry
    BY <1>2, WorldBase
  <2>2. status' = status \/ (status # "DELETED" /\ status' # "DELETED")
    BY <1>2 DEF OpenContest, ActivateContest, EventStarts, ChangePlan, vars, contest
  <2> QED
    BY <2>1, <2>2 DEF GoneIsEmpty, Live
<1> QED
  BY <1>1, <1>2 DEF Next

(* A pick or a submit is asked for an event of the contest. *)
LEMMA AskedEventStep ==
  ASSUME TypeOK, Base, GoneIsEmpty, AskedOfAnEvent, [Next]_vars, EventsOnlyAdded
  PROVE  AskedOfAnEvent'
<1>b. Shapes
  BY DEF Base
<1>g. status = "DELETED" => status' = "DELETED"
  BY GoneStep
<1>1. ASSUME \A d \in Callers : pc'[d] # "idle" /\ req'[d].op \in EntryOps =>
               (pc[d] # "idle" /\ req'[d] = req[d]) \/ req'[d].event \in events
      PROVE  AskedOfAnEvent'
  <2> SUFFICES ASSUME NEW d \in Callers, pc'[d] # "idle", req'[d].op \in EntryOps
               PROVE  req'[d].event \in events' \/ status' = "DELETED"
    BY DEF AskedOfAnEvent
  <2>1. req'[d].event \in events \/ status = "DELETED"
    BY <1>1 DEF AskedOfAnEvent
  <2> QED
    BY <1>g, <2>1 DEF EventsOnlyAdded
<1>2. CASE \E c \in Callers : Request(c) \/ Transact(c) \/ Fail(c)
  <2>1. PICK c \in Callers : Request(c) \/ Transact(c) \/ Fail(c)
    BY <1>2
  <2>2. CASE Request(c)
    <3>1. PICK j : Ask(c, j) /\ (j.op \in EntryOps => j.event \in events)
      <4>1. CASE RequestPick(c)
        <5>1. PICK e \in Live, g \in Golfers, op \in {"select", "unselect"} :
                /\ AreEventPicksOpen(EventOf[g])
                /\ Ask(c, [op |-> op, entry |-> e, golfer |-> g, event |-> EventOf[g]])
          BY <4>1 DEF RequestPick
        <5>2. [op |-> op, entry |-> e, golfer |-> g, event |-> EventOf[g]].event \in events
          BY <5>1 DEF AreEventPicksOpen
        <5> QED
          BY <5>1, <5>2
      <4>2. CASE RequestSubmit(c)
        <5>1. PICK e \in Live, v \in Events :
                AreEventPicksOpen(v) /\ Ask(c, [op |-> "submit", entry |-> e, event |-> v])
          BY <4>2 DEF RequestSubmit
        <5>2. [op |-> "submit", entry |-> e, event |-> v].event \in events
          BY <5>1 DEF AreEventPicksOpen
        <5> QED
          BY <5>1, <5>2
      <4>3. CASE RequestEntry(c)
        <5>1. PICK s \in Squads :
                Ask(c, [op |-> "create", squad |-> s, cap |-> planCap, number |-> NextEntryNumber(s)])
          BY <4>3 DEF RequestEntry
        <5>2. [op |-> "create", squad |-> s, cap |-> planCap, number |-> NextEntryNumber(s)].op \notin EntryOps
          BY DEF EntryOps
        <5> QED
          BY <5>1, <5>2
      <4>4. CASE RequestLeave(c)
        <5>1. PICK s \in Squads : Ask(c, [op |-> "leave", entry |-> FirstEntry(s)])
          BY <4>4 DEF RequestLeave
        <5>2. [op |-> "leave", entry |-> FirstEntry(s)].op \notin EntryOps
          BY DEF EntryOps
        <5> QED
          BY <5>1, <5>2
      <4>5. CASE RequestDraw(c)
        <5>1. PICK v \in Events : Ask(c, [op |-> "draw", dealt |-> Live, event |-> v])
          BY <4>5 DEF RequestDraw
        <5>2. [op |-> "draw", dealt |-> Live, event |-> v].op \notin EntryOps
          BY DEF EntryOps
        <5> QED
          BY <5>1, <5>2
      <4>6. CASE RequestClaim(c) \/ RequestClear(c)
        <5>1. PICK op \in {"claim", "clear"} : \E e, b : Ask(c, [op |-> op, entry |-> e, box |-> b])
          BY <4>6 DEF RequestClaim, RequestClear
        <5>2. PICK e, b : Ask(c, [op |-> op, entry |-> e, box |-> b])
          BY <5>1
        <5>3. [op |-> op, entry |-> e, box |-> b].op \notin EntryOps
          BY DEF EntryOps
        <5> QED
          BY <5>2, <5>3
      <4>7. CASE RequestDigits(c) \/ RequestDelete(c) \/ RequestCleanUp(c)
        <5>1. PICK op \in {"digits", "delete", "cleanUp"} : Ask(c, [op |-> op])
          BY <4>7 DEF RequestDigits, RequestDelete, RequestCleanUp
        <5>2. [op |-> op].op \notin EntryOps
          BY DEF EntryOps
        <5> QED
          BY <5>1, <5>2
      <4>8. CASE RequestEvents(c)
        <5>1. PICK E \in SUBSET Events : Ask(c, [op |-> "setEvents", events |-> E])
          BY <4>8 DEF RequestEvents
        <5>2. [op |-> "setEvents", events |-> E].op \notin EntryOps
          BY DEF EntryOps
        <5> QED
          BY <5>1, <5>2
      <4>9. CASE RequestExpansion(c)
        <5>1. PICK n \in Bands : Ask(c, [op |-> "expand", band |-> n])
          BY <4>9 DEF RequestExpansion
        <5>2. [op |-> "expand", band |-> n].op \notin EntryOps
          BY DEF EntryOps
        <5> QED
          BY <5>1, <5>2
      <4> QED
        BY <2>2, <4>1, <4>2, <4>3, <4>4, <4>5, <4>6, <4>7, <4>8, <4>9 DEF Request
    <3>2. pc' = [pc EXCEPT ![c] = "waiting"] /\ req' = [req EXCEPT ![c] = j]
      BY <3>1 DEF Ask
    <3>3. req'[c] = j /\ \A d \in Callers \ {c} : pc'[d] = pc[d] /\ req'[d] = req[d]
      BY <1>b, <3>2 DEF Shapes
    <3> QED
      BY <1>1, <3>1, <3>3
  <2>3. CASE TakeContestLock(c) \/ TakeEntryLock(c)
    <3>1. pc[c] = "waiting" /\ pc' = [pc EXCEPT ![c] = "locked"] /\ req' = req
      BY <2>3 DEF TakeContestLock, TakeEntryLock
    <3>2. \A d \in Callers : pc'[d] # "idle" => pc[d] # "idle"
      BY <1>b, <3>1 DEF Shapes
    <3> QED
      BY <1>1, <3>1, <3>2
  <2>4. CASE ContestStep(c) \/ EntryMissing(c) \/ Refuse(c) \/ Fail(c) \/ ChangeEntryPick(c) \/ SettleEntryEvent(c)
    <3>1. Finish(c)
      BY <2>4 DEF ContestStep, CreateEntry, LeaveContest, RecordDraw, ClaimBox, ClearBox, RecordDigits,
        ReplaceSportEvents, Expand, DeleteContest, Commit, EntryMissing, Refuse, Fail, ChangeEntryPick,
        SettleEntryEvent
    <3>2. pc'[c] = "idle" /\ \A d \in Callers \ {c} : pc'[d] = pc[d] /\ req'[d] = req[d]
      BY <1>b, <3>1, Finished
    <3> QED
      BY <1>1, <3>2
  <2> QED
    BY <2>1, <2>2, <2>3, <2>4 DEF Transact, ContestStep
<1>3. CASE OpenContest \/ ActivateContest \/ EventStarts \/ ChangePlan \/ UNCHANGED vars
  <2>1. UNCHANGED <<pc, req>>
    BY <1>3, WorldBase
  <2> QED
    BY <1>1, <2>1
<1> QED
  BY <1>2, <1>3 DEF Next

LEMMA CoverIs ==
  ASSUME LineupsCoverEvents, NEW e \in Live, NEW v \in Events
  PROVE  lineup[e][v] # "NONE" <=> v \in events
BY DEF LineupsCoverEvents

LEMMA CoverTo ==
  ASSUME events' \subseteq Events,
         \A e \in Live', v \in Events : lineup'[e][v] # "NONE" <=> v \in events'
  PROVE  LineupsCoverEvents'
BY DEF LineupsCoverEvents

(* What leaving and deletion take away. *)
LEMMA RemovedRows ==
  ASSUME NEW es, Removed(es), NEW e \in Live'
  PROVE  e \in Live /\ e \notin es /\ lineup'[e] = lineup[e]
<1>1. e \in EntryIds /\ entry'[e].state = "live"
  BY DEF Live
<1>2. entry'[e] = IF e \in es THEN Gone ELSE entry[e]
  BY <1>1 DEF Removed
<1>3. e \notin es /\ entry[e].state = "live"
  BY <1>1, <1>2 DEF Gone
<1> QED
  BY <1>1, <1>3 DEF Removed, Live

(* An entry just created, and the ones before it. *)
LEMMA CreatedRows ==
  ASSUME TypeOK, Base, NEW c \in Callers, CreateEntry(c), NEW e \in Live'
  PROVE  /\ UNCHANGED <<events, picks, status>>
         /\ \/ e \in Live /\ lineup'[e] = lineup[e]
            \/ /\ e \notin Live
               /\ \A v \in Events : lineup'[e][v] = IF v \in events THEN "DRAFT" ELSE "NONE"
<1>1. PICK f \in EntryIds :
        /\ entry[f] = Unborn
        /\ entry' = [entry EXCEPT ![f] = [state |-> "live", squad |-> req[c].squad, number |-> req[c].number]]
        /\ lineup' = [lineup EXCEPT ![f] = [v \in Events |-> IF v \in seen[c].events THEN "DRAFT" ELSE "NONE"]]
  BY DEF CreateEntry
<1>2. entry \in [EntryIds -> Entry] /\ lineup \in [EntryIds -> [Events -> RowStatus]]
  BY DEF TypeOK
<1>3. seen[c].events = events
  <2>1. Commit(c, "create") /\ "create" \in ContestOps
    BY DEF CreateEntry, ContestOps
  <2> QED
    BY <2>1, Committed
<1>4. UNCHANGED <<events, picks, status>>
  BY DEF CreateEntry, contest
<1>5. CASE e = f
  <2>1. e \notin Live
    BY <1>1, <1>5 DEF Live, Unborn
  <2>2. lineup'[e] = [v \in Events |-> IF v \in seen[c].events THEN "DRAFT" ELSE "NONE"]
    BY <1>1, <1>2, <1>5
  <2> QED
    BY <1>3, <1>4, <2>1, <2>2
<1>6. CASE e # f
  <2>1. e \in EntryIds /\ entry'[e].state = "live"
    BY DEF Live
  <2>2. entry'[e] = entry[e] /\ lineup'[e] = lineup[e]
    BY <1>1, <1>2, <1>6, <2>1
  <2> QED
    BY <1>4, <2>1, <2>2 DEF Live
<1> QED
  BY <1>5, <1>6

(* The rows after the events were replaced. *)
LEMMA ReplacedRows ==
  ASSUME TypeOK, Base, NEW c \in Callers, ReplaceSportEvents(c)
  PROVE  /\ Live' = Live /\ UNCHANGED <<kind, status>> /\ status # "DELETED"
         /\ \A e \in EntryIds, v \in Events :
              /\ picks'[e][v] = IF v \in events \ events' THEN <<>> ELSE picks[e][v]
              /\ v \in events \ events' => lineup'[e][v] = "NONE"
              /\ v \notin events \ events' /\ e \in Live /\ v \in events' /\ lineup[e][v] = "NONE"
                   => lineup'[e][v] = "DRAFT" /\ entryLock[e] = Nobody
              /\ v \notin events \ events' /\ ~(e \in Live /\ v \in events' /\ lineup[e][v] = "NONE")
                   => lineup'[e][v] = lineup[e][v]
<1>1. Commit(c, "setEvents") /\ "setEvents" \in ContestOps
  BY DEF ReplaceSportEvents, ContestOps
<1>2. seen[c].events = events /\ req[c].op = "setEvents" /\ Allowed(req[c], seen[c])
  BY <1>1, Committed
<1>3. status # "DELETED"
  BY <1>2 DEF Allowed, MayReplaceEvents
<1>4. /\ events' = req[c].events /\ UNCHANGED <<kind, status, entry>>
      /\ Unlocked({e \in Live : \E v \in events' : lineup[e][v] = "NONE"})
      /\ picks' = [e \in EntryIds |-> [v \in Events |->
           IF v \in events \ events' THEN <<>> ELSE picks[e][v]]]
      /\ lineup' = [e \in EntryIds |-> [v \in Events |->
           CASE v \in events \ events' -> "NONE"
             [] e \in Live /\ v \in events' /\ lineup[e][v] = "NONE" -> "DRAFT"
             [] OTHER -> lineup[e][v]]]
  BY <1>2 DEF ReplaceSportEvents
<1>5. Live' = Live
  BY <1>4 DEF Live
<1> SUFFICES ASSUME NEW e \in EntryIds, NEW v \in Events
             PROVE  /\ picks'[e][v] = IF v \in events \ events' THEN <<>> ELSE picks[e][v]
                    /\ v \in events \ events' => lineup'[e][v] = "NONE"
                    /\ v \notin events \ events' /\ e \in Live /\ v \in events' /\ lineup[e][v] = "NONE"
                         => lineup'[e][v] = "DRAFT" /\ entryLock[e] = Nobody
                    /\ v \notin events \ events' /\ ~(e \in Live /\ v \in events' /\ lineup[e][v] = "NONE")
                         => lineup'[e][v] = lineup[e][v]
  BY <1>3, <1>4, <1>5
<1>6. lineup'[e][v] = CASE v \in events \ events' -> "NONE"
                        [] e \in Live /\ v \in events' /\ lineup[e][v] = "NONE" -> "DRAFT"
                        [] OTHER -> lineup[e][v]
  BY <1>4
<1>7. picks'[e][v] = IF v \in events \ events' THEN <<>> ELSE picks[e][v]
  BY <1>4
<1>8. e \in Live /\ v \in events' /\ lineup[e][v] = "NONE" => entryLock[e] = Nobody
  BY <1>4 DEF Unlocked
<1> QED
  BY <1>6, <1>7, <1>8

(* The draws submit rows and make none. *)
LEMMA DrawnRows ==
  ASSUME TypeOK, NEW c \in Callers, RecordDraw(c) \/ RecordDigits(c)
  PROVE  /\ Live' = Live /\ UNCHANGED <<events, status>>
         /\ \A e \in EntryIds, v \in Events : lineup'[e][v] # "NONE" <=> lineup[e][v] # "NONE"
<1>1. UNCHANGED <<events, status, entry>>
  BY DEF RecordDraw, RecordDigits
<1>2. Live' = Live
  BY <1>1 DEF Live
<1>3. ASSUME NEW e \in EntryIds, NEW v \in Events
      PROVE  lineup'[e][v] # "NONE" <=> lineup[e][v] # "NONE"
  <2>1. CASE RecordDraw(c)
    BY <2>1 DEF RecordDraw
  <2>2. CASE RecordDigits(c)
    BY <2>2 DEF RecordDigits
  <2> QED
    BY <2>1, <2>2
<1> QED
  BY <1>1, <1>2, <1>3

LEMMA ContestCover ==
  ASSUME TypeOK, TypeOK', Base, LineupsCoverEvents, NEW c \in Callers, ContestStep(c)
  PROVE  LineupsCoverEvents'
<1>e. events' \subseteq Events
  BY DEF TypeOK
<1>1. CASE CreateEntry(c)
  <2> SUFFICES ASSUME NEW e \in Live', NEW v \in Events
               PROVE  lineup'[e][v] # "NONE" <=> v \in events'
    BY <1>e, CoverTo
  <2> QED
    BY <1>1, CreatedRows, CoverIs
<1>2. CASE LeaveContest(c)
  <2> SUFFICES ASSUME NEW e \in Live', NEW v \in Events
               PROVE  lineup'[e][v] # "NONE" <=> v \in events'
    BY <1>e, CoverTo
  <2>1. events' = events /\ Removed({req[c].entry})
    BY <1>2 DEF LeaveContest, contest
  <2> QED
    BY <2>1, RemovedRows, CoverIs
<1>3. CASE RecordDraw(c) \/ RecordDigits(c)
  <2> SUFFICES ASSUME NEW e \in Live', NEW v \in Events
               PROVE  lineup'[e][v] # "NONE" <=> v \in events'
    BY <1>e, CoverTo
  <2>1. Live' = Live /\ events' = events /\ Live \subseteq EntryIds
    BY <1>3, DrawnRows DEF Live
  <2>2. lineup'[e][v] # "NONE" <=> lineup[e][v] # "NONE"
    BY <1>3, <2>1, DrawnRows
  <2> QED
    BY <2>1, <2>2, CoverIs
<1>4. CASE ClaimBox(c) \/ ClearBox(c) \/ Expand(c)
  <2>1. UNCHANGED <<events, entry, lineup>>
    BY <1>4 DEF ClaimBox, ClearBox, Expand, contest, room
  <2> QED
    BY <2>1 DEF LineupsCoverEvents, Live
<1>5. CASE ReplaceSportEvents(c)
  <2> SUFFICES ASSUME NEW e \in Live', NEW v \in Events
               PROVE  lineup'[e][v] # "NONE" <=> v \in events'
    BY <1>e, CoverTo
  <2>1. e \in Live /\ e \in EntryIds
    BY <1>5, ReplacedRows DEF Live
  <2>2. lineup[e][v] # "NONE" <=> v \in events
    BY <2>1, CoverIs
  <2> QED
    BY <1>5, <2>1, <2>2, ReplacedRows
<1>6. CASE DeleteContest(c)
  <2>1. Removed(Live)
    BY <1>6 DEF DeleteContest
  <2>2. Live' = {}
    BY <2>1, RemovedRows
  <2> QED
    BY <2>2 DEF LineupsCoverEvents
<1> QED
  BY <1>1, <1>2, <1>3, <1>4, <1>5, <1>6 DEF ContestStep

(* A contest's transaction leaves the rows of an entry that is locked.      *)
LEMMA LockedRows ==
  ASSUME TypeOK, Base, NEW c \in Callers, ContestStep(c), EventsOnlyAdded, kind \in RosterKinds,
         NEW e \in Live, entryLock[e] # Nobody, NEW v \in Events
  PROVE  picks'[e][v] = picks[e][v] /\ lineup'[e][v] = lineup[e][v]
<1>e. e \in EntryIds
  BY DEF Live
<1>1. CASE CreateEntry(c)
  <2>1. e \in Live'
    <3>1. PICK f \in EntryIds :
            /\ entry[f] = Unborn
            /\ entry' = [entry EXCEPT ![f] = [state |-> "live", squad |-> req[c].squad, number |-> req[c].number]]
      BY <1>1 DEF CreateEntry
    <3>2. e # f
      BY <3>1 DEF Live, Unborn
    <3>3. entry'[e] = entry[e]
      BY <3>1, <3>2
    <3> QED
      BY <3>3 DEF Live
  <2> QED
    BY <1>1, <2>1, CreatedRows
<1>2. CASE LeaveContest(c)
  <2>1. picks' = picks /\ Removed({req[c].entry}) /\ Unlocked({req[c].entry})
    BY <1>2 DEF LeaveContest
  <2>2. e # req[c].entry
    BY <2>1 DEF Unlocked
  <2> QED
    BY <1>e, <2>1, <2>2 DEF Removed
<1>3. CASE RecordDraw(c) \/ RecordDigits(c)
  <2>1. PICK op \in {"draw", "digits"} : Commit(c, op)
    BY <1>3 DEF RecordDraw, RecordDigits
  <2>2. req[c].op = op /\ Asks(req[c])
    <3>1. op \in ContestOps
      BY DEF ContestOps
    <3> QED
      BY <2>1, <3>1, Committed
  <2>3. kind = "RANDOM_DRAW" \/ kind = "SQUARES"
    BY <2>2 DEF Asks
  <2> QED
    BY <2>3 DEF RosterKinds
<1>4. CASE ClaimBox(c) \/ ClearBox(c) \/ Expand(c)
  BY <1>4 DEF ClaimBox, ClearBox, Expand, contest, room
<1>5. CASE ReplaceSportEvents(c)
  <2>1. v \notin events \ events'
    BY <1>5, ReplacedRows DEF EventsOnlyAdded
  <2> QED
    BY <1>5, <1>e, <2>1, ReplacedRows
<1>6. CASE DeleteContest(c)
  BY <1>6 DEF DeleteContest, Unlocked
<1> QED
  BY <1>1, <1>2, <1>3, <1>4, <1>5, <1>6 DEF ContestStep

(* And it submits nothing of a roster contest. *)
LEMMA NoneSubmitted ==
  ASSUME TypeOK, Base, NEW c \in Callers, ContestStep(c), EventsOnlyAdded, kind \in RosterKinds,
         NEW e \in Live', NEW v \in Events, lineup'[e][v] = "SUBMITTED"
  PROVE  kind' = kind /\ e \in Live /\ lineup[e][v] = "SUBMITTED" /\ picks'[e][v] = picks[e][v]
<1>k. kind' = kind /\ e \in EntryIds
  BY DEF ContestStep, CreateEntry, LeaveContest, RecordDraw, ClaimBox, ClearBox, RecordDigits,
         ReplaceSportEvents, Expand, DeleteContest, contest, Live
<1>1. CASE CreateEntry(c)
  BY <1>1, <1>k, CreatedRows
<1>2. CASE LeaveContest(c)
  <2>1. picks' = picks /\ Removed({req[c].entry})
    BY <1>2 DEF LeaveContest
  <2> QED
    BY <1>k, <2>1, RemovedRows
<1>3. CASE RecordDraw(c) \/ RecordDigits(c)
  <2>1. PICK op \in {"draw", "digits"} : Commit(c, op)
    BY <1>3 DEF RecordDraw, RecordDigits
  <2>2. req[c].op = op /\ Asks(req[c])
    <3>1. op \in ContestOps
      BY DEF ContestOps
    <3> QED
      BY <2>1, <3>1, Committed
  <2>3. kind = "RANDOM_DRAW" \/ kind = "SQUARES"
    BY <2>2 DEF Asks
  <2> QED
    BY <2>3 DEF RosterKinds
<1>4. CASE ClaimBox(c) \/ ClearBox(c) \/ Expand(c)
  <2>1. UNCHANGED <<entry, picks, lineup>>
    BY <1>4 DEF ClaimBox, ClearBox, Expand, room
  <2> QED
    BY <1>k, <2>1 DEF Live
<1>5. CASE ReplaceSportEvents(c)
  <2>1. v \notin events \ events' /\ e \in Live
    BY <1>5, ReplacedRows DEF EventsOnlyAdded
  <2> QED
    BY <1>5, <1>k, <2>1, ReplacedRows
<1>6. CASE DeleteContest(c)
  <2>1. Removed(Live)
    BY <1>6 DEF DeleteContest
  <2> QED
    BY <2>1, RemovedRows
<1> QED
  BY <1>1, <1>2, <1>3, <1>4, <1>5, <1>6 DEF ContestStep

(* Whose entry's lock was held before a step that ends one's own request.   *)
LEMMA StillHeld ==
  ASSUME Base, NEW c \in Callers, Finish(c), NEW d \in Callers, NEW e \in EntryIds, HoldsEntry(d, e)'
  PROVE  d # c /\ HoldsEntry(d, e) /\ seen'[d] = seen[d] /\ req'[d] = req[d]
<1>1. d # c /\ pc'[d] = pc[d] /\ req'[d] = req[d] /\ seen'[d] = seen[d]
  BY Finished DEF Base, HoldsEntry
<1> QED
  BY <1>1 DEF HoldsEntry

(* What was read under an entry's lock stays so while its rows do.          *)
LEMMA ReadsKeep ==
  ASSUME TypeOK, ReadsAreRows, kind' = kind,
         \A d \in Callers, e \in EntryIds : HoldsEntry(d, e)' =>
           /\ HoldsEntry(d, e) /\ seen'[d] = seen[d] /\ req'[d] = req[d]
           /\ kind \in RosterKinds =>
                picks'[e][req[d].event] = picks[e][req[d].event]
                /\ lineup'[e][req[d].event] = lineup[e][req[d].event]
  PROVE  ReadsAreRows'
<1> SUFFICES ASSUME kind \in RosterKinds, NEW d \in Callers, NEW e \in EntryIds, HoldsEntry(d, e)'
             PROVE  (seen[d].picks = picks[e][req[d].event] /\ seen[d].status = lineup[e][req[d].event])'
  BY DEF ReadsAreRows, RosterKinds
<1>1. HoldsEntry(d, e) /\ seen'[d] = seen[d] /\ req'[d] = req[d]
  OBVIOUS
<1>2. seen[d].picks = picks[e][req[d].event] /\ seen[d].status = lineup[e][req[d].event]
  BY <1>1 DEF ReadsAreRows
<1> QED
  BY <1>1, <1>2

LEMMA HeldEvent ==
  ASSUME TypeOK, Base, GoneIsEmpty, AskedOfAnEvent, NEW d \in Callers, NEW e \in EntryIds, HoldsEntry(d, e)
  PROVE  e \in Live /\ entryLock[e] = d /\ entryLock[e] # Nobody /\ req[d].event \in events /\ req[d].event \in Events
<1>1. entryLock[e] = d /\ e \in Live
  BY DEF Base, Locks
<1>2. d # Nobody
  BY RoomAssumption
<1>3. req[d].event \in events
  BY <1>1 DEF GoneIsEmpty, AskedOfAnEvent, HoldsEntry
<1>4. events \subseteq Events
  BY DEF TypeOK
<1> QED
  BY <1>1, <1>2, <1>3, <1>4

(* Steps that write no row. *)
LEMMA QuietRows ==
  ASSUME LineupsCoverEvents, SubmittedIsComplete, UNCHANGED <<kind, events, entry, picks, lineup>>
  PROVE  LineupsCoverEvents' /\ SubmittedIsComplete'
<1>1. Live' = Live
  BY DEF Live
<1>2. LineupsCoverEvents'
  BY <1>1 DEF LineupsCoverEvents
<1>3. SubmittedIsComplete'
  BY <1>1 DEF SubmittedIsComplete, FindLineupIssues, RosterSizeOf
<1> QED
  BY <1>2, <1>3

LEMMA ReadsAside ==
  ASSUME LineupInv, NEW c \in Callers, Finish(c), kind' = kind,
         UNCHANGED <<picks, lineup>>
         \/ \A e \in Live, v \in Events : kind \in RosterKinds /\ entryLock[e] \notin {c, Nobody} =>
              picks'[e][v] = picks[e][v] /\ lineup'[e][v] = lineup[e][v]
  PROVE  ReadsAreRows'
<1>i. TypeOK /\ Base /\ GoneIsEmpty /\ AskedOfAnEvent /\ ReadsAreRows
  BY DEF LineupInv
<1>1. ASSUME NEW d \in Callers, NEW e \in EntryIds, HoldsEntry(d, e)'
      PROVE  /\ HoldsEntry(d, e) /\ seen'[d] = seen[d] /\ req'[d] = req[d]
             /\ kind \in RosterKinds =>
                  picks'[e][req[d].event] = picks[e][req[d].event]
                  /\ lineup'[e][req[d].event] = lineup[e][req[d].event]
  <2>1. d # c /\ HoldsEntry(d, e) /\ seen'[d] = seen[d] /\ req'[d] = req[d]
    BY <1>i, <1>1, StillHeld
  <2>2. e \in Live /\ entryLock[e] \notin {c, Nobody} /\ req[d].event \in Events
    BY <1>i, <2>1, HeldEvent
  <2> QED
    BY <2>1, <2>2
<1> QED
  BY <1>i, <1>1, ReadsKeep

(* A transaction that holds an entry's lock writes the one row it read.     *)
LEMMA OneRow ==
  ASSUME LineupInv, NEW c \in Callers, Finish(c), UNCHANGED <<kind, events, entry>>,
         NEW e \in EntryIds, HoldsEntry(c, e), NEW v, v = req[c].event,
         \A f \in EntryIds, u \in Events : f # e \/ u # v =>
           picks'[f][u] = picks[f][u] /\ lineup'[f][u] = lineup[f][u],
         lineup'[e][v] # "NONE",
         kind \in RosterKinds /\ lineup'[e][v] = "SUBMITTED" => ~FindLineupIssues(picks'[e][v], v)
  PROVE  ReadsAreRows' /\ LineupsCoverEvents' /\ SubmittedIsComplete'
<1>i. /\ TypeOK /\ Base /\ GoneIsEmpty /\ AskedOfAnEvent /\ ReadsAreRows
      /\ LineupsCoverEvents /\ SubmittedIsComplete
  BY DEF LineupInv
<1>1. e \in Live /\ entryLock[e] = c /\ v \in events /\ v \in Events
  BY <1>i, HeldEvent
<1>2. Live' = Live /\ Live \subseteq EntryIds
  BY DEF Live
<1>3. ReadsAreRows'
  BY <1>1, <1>2, ReadsAside
<1>4. LineupsCoverEvents'
  <2>1. events' \subseteq Events
    BY <1>i DEF TypeOK
  <2>2. ASSUME NEW f \in Live', NEW u \in Events PROVE lineup'[f][u] # "NONE" <=> u \in events'
    <3>1. f \in Live /\ f \in EntryIds
      BY <1>2
    <3>2. lineup[f][u] # "NONE" <=> u \in events
      BY <1>i, <3>1, CoverIs
    <3> QED
      BY <1>1, <3>1, <3>2
  <2> QED
    BY <2>1, <2>2, CoverTo
<1>5. SubmittedIsComplete'
  <2> SUFFICES ASSUME kind \in RosterKinds, NEW f \in Live, NEW u \in Events, lineup'[f][u] = "SUBMITTED"
               PROVE  ~FindLineupIssues(picks'[f][u], u)
    BY <1>2 DEF SubmittedIsComplete, RosterKinds, FindLineupIssues, RosterSizeOf
  <2>1. CASE f = e /\ u = v
    BY <2>1
  <2>2. CASE f # e \/ u # v
    <3>1. picks'[f][u] = picks[f][u] /\ lineup'[f][u] = lineup[f][u]
      BY <1>2, <2>2
    <3> QED
      BY <1>i, <3>1 DEF SubmittedIsComplete
  <2> QED
    BY <2>1, <2>2
<1> QED
  BY <1>3, <1>4, <1>5

LEMMA PickedRows ==
  ASSUME LineupInv, NEW c \in Callers, ChangeEntryPick(c)
  PROVE  ReadsAreRows' /\ LineupsCoverEvents' /\ SubmittedIsComplete'
<1>i. /\ TypeOK /\ Base /\ GoneIsEmpty /\ AskedOfAnEvent /\ ReadsAreRows
      /\ LineupsCoverEvents /\ SubmittedIsComplete
  BY DEF LineupInv
<1> DEFINE e == req[c].entry
           v == req[c].event
           change == Change(req[c].op, seen[c].picks, req[c].golfer, v)
           after == Without(seen[c].picks, change.remove) \o change.add
<1>1. /\ req[c].op \in {"select", "unselect"} /\ req[c].op \in EntryOps /\ pc[c] = "locked"
      /\ Finish(c) /\ UNCHANGED <<kind, events, entry>>
  BY DEF ChangeEntryPick, At, contest, EntryOps
<1>2. HoldsEntry(c, e) /\ e \in EntryIds
  BY <1>i, <1>1, AskedTypes DEF HoldsEntry, TypeOK
<1>3. e \in Live /\ v \in events /\ v \in Events
  BY <1>i, <1>2, HeldEvent
<1>4. kind \in RosterKinds
  BY <1>i, <1>1 DEF Base, Asked, Asks
<1>5. seen[c].picks = picks[e][v] /\ seen[c].status = lineup[e][v]
  BY <1>i, <1>2, <1>4 DEF ReadsAreRows
<1>6. /\ picks \in [EntryIds -> [Events -> Lineup]]
      /\ lineup \in [EntryIds -> [Events -> RowStatus]]
  BY <1>i DEF TypeOK
<1>7. lineup[e][v] # "NONE"
  BY <1>i, <1>3, CoverIs
<1>8. CASE UNCHANGED <<picks, lineup>>
  BY <1>i, <1>1, <1>8, QuietRows, ReadsAside
<1>9. CASE /\ picks' = [picks EXCEPT ![e][v] = Without(@, change.remove) \o change.add]
           /\ lineup' = IF after = seen[c].picks THEN lineup ELSE
                [lineup EXCEPT ![e][v] =
                   IF StatusAfterPickChange(seen[c].status, after, v) = seen[c].status THEN @ ELSE "DRAFT"]
  <2> DEFINE st == IF after = seen[c].picks THEN lineup[e][v]
                   ELSE IF StatusAfterPickChange(seen[c].status, after, v) = seen[c].status
                        THEN lineup[e][v] ELSE "DRAFT"
  <2>1. picks' = [picks EXCEPT ![e][v] = after]
    BY <1>2, <1>3, <1>5, <1>6, <1>9
  <2>2. lineup' = [lineup EXCEPT ![e][v] = st]
    <3>1. CASE after = seen[c].picks
      <4>1. lineup' = lineup /\ st = lineup[e][v]
        BY <1>9, <3>1
      <4> HIDE DEF st, e, v
      <4>2. lineup = [lineup EXCEPT ![e][v] = lineup[e][v]]
        BY <1>2, <1>3, <1>6
      <4> QED
        BY <4>1, <4>2
    <3>2. CASE after # seen[c].picks
      <4>1. lineup' = [lineup EXCEPT ![e][v] =
               IF StatusAfterPickChange(seen[c].status, after, v) = seen[c].status THEN @ ELSE "DRAFT"]
        BY <1>9, <3>2
      <4>2. st = IF StatusAfterPickChange(seen[c].status, after, v) = seen[c].status
                 THEN lineup[e][v] ELSE "DRAFT"
        BY <3>2
      <4> HIDE DEF st, after, change, e, v
      <4> QED
        BY <1>2, <1>3, <1>6, <4>1, <4>2
    <3> QED
      BY <3>1, <3>2
  <2>3. st # "NONE"
    BY <1>7
  <2>4. st = "SUBMITTED" => ~FindLineupIssues(after, v)
    <3>1. CASE after = seen[c].picks
      BY <1>i, <1>3, <1>4, <1>5, <3>1 DEF SubmittedIsComplete
    <3>2. CASE after # seen[c].picks
      <4> HAVE st = "SUBMITTED"
      <4>1. StatusAfterPickChange(seen[c].status, after, v) = seen[c].status /\ seen[c].status = "SUBMITTED"
        BY <1>5, <3>2
      <4> QED
        BY <4>1 DEF StatusAfterPickChange
    <3> QED
      BY <3>1, <3>2
  <2> HIDE DEF st, after, change, e, v
  <2>5. \A f \in EntryIds, u \in Events :
          /\ picks'[f][u] = IF f = e /\ u = v THEN after ELSE picks[f][u]
          /\ lineup'[f][u] = IF f = e /\ u = v THEN st ELSE lineup[f][u]
    BY <1>2, <1>3, <1>6, <2>1, <2>2
  <2>6. picks'[e][v] = after /\ lineup'[e][v] = st
    BY <1>2, <1>3, <2>5
  <2>7. v = req[c].event
    BY DEF v
  <2> QED
    BY <1>1, <1>2, <1>3, <2>3, <2>4, <2>5, <2>6, <2>7, OneRow
<1>10. \/ UNCHANGED <<picks, lineup>>
       \/ /\ picks' = [picks EXCEPT ![e][v] = Without(@, change.remove) \o change.add]
          /\ lineup' = IF after = seen[c].picks THEN lineup ELSE
               [lineup EXCEPT ![e][v] =
                  IF StatusAfterPickChange(seen[c].status, after, v) = seen[c].status THEN @ ELSE "DRAFT"]
  BY DEF ChangeEntryPick
<1> QED
  BY <1>8, <1>9, <1>10

LEMMA SettledRows ==
  ASSUME LineupInv, NEW c \in Callers, SettleEntryEvent(c)
  PROVE  ReadsAreRows' /\ LineupsCoverEvents' /\ SubmittedIsComplete'
<1>i. /\ TypeOK /\ Base /\ GoneIsEmpty /\ AskedOfAnEvent /\ ReadsAreRows
      /\ LineupsCoverEvents /\ SubmittedIsComplete
  BY DEF LineupInv
<1> DEFINE e == req[c].entry
           v == req[c].event
<1>1. /\ req[c].op \in {"submit"} /\ req[c].op \in EntryOps /\ pc[c] = "locked"
      /\ Finish(c) /\ UNCHANGED <<kind, events, entry, picks>>
  BY DEF SettleEntryEvent, At, contest, EntryOps
<1>2. HoldsEntry(c, e) /\ e \in EntryIds
  BY <1>i, <1>1, AskedTypes DEF HoldsEntry, TypeOK
<1>3. e \in Live /\ v \in events /\ v \in Events
  BY <1>i, <1>2, HeldEvent
<1>4. lineup \in [EntryIds -> [Events -> RowStatus]]
  BY <1>i DEF TypeOK
<1>5. CASE lineup' = lineup
  BY <1>i, <1>1, <1>5, QuietRows, ReadsAside
<1>6. CASE ~FindLineupIssues(seen[c].picks, v) /\ lineup' = [lineup EXCEPT ![e][v] = "SUBMITTED"]
  <2>1. kind \in RosterKinds => seen[c].picks = picks'[e][v]
    BY <1>i, <1>1, <1>2 DEF ReadsAreRows
  <2>2. v = req[c].event
    OBVIOUS
  <2> HIDE DEF e, v
  <2>3. \A f \in EntryIds, u \in Events :
          lineup'[f][u] = IF f = e /\ u = v THEN "SUBMITTED" ELSE lineup[f][u]
    BY <1>2, <1>3, <1>4, <1>6
  <2>4. lineup'[e][v] # "NONE"
    BY <1>2, <1>3, <2>3
  <2> QED
    BY <1>1, <1>2, <1>3, <1>6, <2>1, <2>2, <2>3, <2>4, OneRow
<1> QED
  BY <1>5, <1>6 DEF SettleEntryEvent

LEMMA ContestRowsKept ==
  ASSUME LineupInv, TypeOK', NEW c \in Callers, ContestStep(c), EventsOnlyAdded
  PROVE  ReadsAreRows' /\ LineupsCoverEvents' /\ SubmittedIsComplete'
<1>i. /\ TypeOK /\ Base /\ GoneIsEmpty /\ AskedOfAnEvent /\ ReadsAreRows
      /\ LineupsCoverEvents /\ SubmittedIsComplete
  BY DEF LineupInv
<1>1. Finish(c) /\ kind' = kind
  BY DEF ContestStep, CreateEntry, LeaveContest, RecordDraw, ClaimBox, ClearBox, RecordDigits,
         ReplaceSportEvents, Expand, DeleteContest, Commit, contest
<1>2. LineupsCoverEvents'
  BY <1>i, ContestCover
<1>3. ReadsAreRows'
  BY <1>i, <1>1, LockedRows, ReadsAside
<1>4. SubmittedIsComplete'
  <2> SUFFICES ASSUME kind \in RosterKinds, NEW e \in Live', NEW v \in Events, lineup'[e][v] = "SUBMITTED"
               PROVE  ~FindLineupIssues(picks'[e][v], v)
    BY <1>1 DEF SubmittedIsComplete, RosterKinds, FindLineupIssues, RosterSizeOf
  <2>1. e \in Live /\ lineup[e][v] = "SUBMITTED" /\ picks'[e][v] = picks[e][v]
    BY <1>i, NoneSubmitted
  <2> QED
    BY <1>i, <2>1 DEF SubmittedIsComplete
<1> QED
  BY <1>2, <1>3, <1>4

(* The locks are taken on what is there. *)
LEMMA TakenRows ==
  ASSUME LineupInv, NEW c \in Callers, Request(c) \/ TakeContestLock(c) \/ TakeEntryLock(c)
  PROVE  ReadsAreRows' /\ LineupsCoverEvents' /\ SubmittedIsComplete'
<1>i. /\ TypeOK /\ Base /\ GoneIsEmpty /\ AskedOfAnEvent /\ ReadsAreRows
      /\ LineupsCoverEvents /\ SubmittedIsComplete
  BY DEF LineupInv
<1>s. Shapes
  BY <1>i DEF Base
<1>1. UNCHANGED <<contest, room>>
  BY <1>i, RequestBase, TakeBase
<1>2. UNCHANGED <<kind, events, entry, picks, lineup>>
  BY <1>1 DEF contest, room
<1>3. LineupsCoverEvents' /\ SubmittedIsComplete'
  BY <1>i, <1>2, QuietRows
<1>4. CASE Request(c)
  <2>1. PICK j : Ask(c, j)
    BY <1>s, <1>4, Requested
  <2>2. seen' = seen /\ pc' = [pc EXCEPT ![c] = "waiting"] /\ req' = [req EXCEPT ![c] = j]
    BY <2>1 DEF Ask
  <2>3. pc'[c] = "waiting" /\ \A d \in Callers \ {c} : pc'[d] = pc[d] /\ req'[d] = req[d]
    BY <1>s, <2>2 DEF Shapes
  <2>4. \A d \in Callers, e \in EntryIds : HoldsEntry(d, e)' =>
          HoldsEntry(d, e) /\ seen'[d] = seen[d] /\ req'[d] = req[d]
    BY <2>2, <2>3 DEF HoldsEntry
  <2> QED
    BY <1>i, <1>2, <1>3, <2>4, ReadsKeep
<1>5. CASE TakeContestLock(c)
  <2>1. /\ req' = req /\ req[c].op \in ContestOps
        /\ pc' = [pc EXCEPT ![c] = "locked"] /\ seen' = [seen EXCEPT ![c] = ContestRows]
    BY <1>5 DEF TakeContestLock
  <2>2. \A d \in Callers \ {c} : pc'[d] = pc[d] /\ seen'[d] = seen[d]
    BY <1>s, <2>1 DEF Shapes
  <2>3. \A d \in Callers, e \in EntryIds : HoldsEntry(d, e)' =>
          HoldsEntry(d, e) /\ seen'[d] = seen[d] /\ req'[d] = req[d]
    BY <2>1, <2>2 DEF HoldsEntry, ContestOps, EntryOps
  <2> QED
    BY <1>i, <1>2, <1>3, <2>3, ReadsKeep
<1>6. CASE TakeEntryLock(c)
  <2>1. /\ req' = req /\ pc' = [pc EXCEPT ![c] = "locked"]
        /\ seen' = [seen EXCEPT ![c] = EntryRows(req[c].entry, req[c].event)]
    BY <1>6 DEF TakeEntryLock
  <2>2. /\ \A d \in Callers \ {c} : pc'[d] = pc[d] /\ seen'[d] = seen[d]
        /\ seen'[c] = EntryRows(req[c].entry, req[c].event)
    BY <1>s, <2>1 DEF Shapes
  <2> SUFFICES ASSUME kind \in RosterKinds, NEW d \in Callers, NEW e \in EntryIds, HoldsEntry(d, e)'
               PROVE  (seen[d].picks = picks[e][req[d].event] /\ seen[d].status = lineup[e][req[d].event])'
    BY <1>2, <1>3 DEF ReadsAreRows, RosterKinds
  <2>3. CASE d = c
    BY <1>2, <2>1, <2>2, <2>3 DEF HoldsEntry, EntryRows
  <2>4. CASE d # c
    <3>1. HoldsEntry(d, e)
      BY <2>1, <2>2, <2>4 DEF HoldsEntry
    <3> QED
      BY <1>i, <1>2, <2>1, <2>2, <2>4, <3>1 DEF ReadsAreRows
  <2> QED
    BY <2>3, <2>4
<1> QED
  BY <1>4, <1>5, <1>6

LEMMA LineupInit == Init => LineupInv
<1> SUFFICES ASSUME Init PROVE LineupInv
  OBVIOUS
<1>1. TypeOK /\ Base
  BY TypesInit, BaseInit
<1>2. Live = {}
  BY DEF Init, Live, Unborn
<1>3. GoneIsEmpty /\ LineupsCoverEvents /\ SubmittedIsComplete
  BY <1>2 DEF GoneIsEmpty, LineupsCoverEvents, SubmittedIsComplete
<1>4. AskedOfAnEvent /\ ReadsAreRows
  BY DEF Init, AskedOfAnEvent, ReadsAreRows, HoldsEntry
<1> QED
  BY <1>1, <1>3, <1>4 DEF LineupInv

LEMMA LineupNext ==
  LineupInv /\ [Next]_vars /\ (EventsOnlyAdded \/ UNCHANGED vars) => LineupInv'
<1> SUFFICES ASSUME LineupInv, [Next]_vars, EventsOnlyAdded \/ UNCHANGED vars PROVE LineupInv'
  OBVIOUS
<1>i. /\ TypeOK /\ Base /\ GoneIsEmpty /\ AskedOfAnEvent /\ ReadsAreRows
      /\ LineupsCoverEvents /\ SubmittedIsComplete
  BY DEF LineupInv
<1>a. EventsOnlyAdded
  BY DEF EventsOnlyAdded, vars, contest
<1>1. TypeOK' /\ Base' /\ GoneIsEmpty' /\ AskedOfAnEvent'
  BY <1>i, <1>a, TypesStep, BaseStep, GoneStep, AskedEventStep
<1>2. ReadsAreRows' /\ LineupsCoverEvents' /\ SubmittedIsComplete'
  <2>1. CASE \E c \in Callers : Request(c) \/ Transact(c) \/ Fail(c)
    <3>1. PICK c \in Callers : Request(c) \/ Transact(c) \/ Fail(c)
      BY <2>1
    <3>2. CASE Request(c) \/ TakeContestLock(c) \/ TakeEntryLock(c)
      BY <3>2, TakenRows
    <3>3. CASE EntryMissing(c) \/ Refuse(c) \/ Fail(c)
      <4>1. Finish(c) /\ UNCHANGED <<kind, events, entry, picks, lineup>>
        BY <3>3 DEF EntryMissing, Refuse, Fail, contest, room
      <4> QED
        BY <1>i, <4>1, QuietRows, ReadsAside
    <3>4. CASE ContestStep(c)
      BY <1>1, <1>a, <3>4, ContestRowsKept
    <3>5. CASE ChangeEntryPick(c) \/ SettleEntryEvent(c)
      BY <3>5, PickedRows, SettledRows
    <3> QED
      BY <3>1, <3>2, <3>3, <3>4, <3>5 DEF Transact, ContestStep
  <2>2. CASE OpenContest \/ ActivateContest \/ EventStarts \/ ChangePlan \/ UNCHANGED vars
    <3>1. UNCHANGED <<kind, events, entry, picks, lineup, pc, req, seen>>
      BY <1>i, <2>2, WorldBase
    <3>2. \A d \in Callers, e \in EntryIds : HoldsEntry(d, e)' =>
            HoldsEntry(d, e) /\ seen'[d] = seen[d] /\ req'[d] = req[d]
      BY <3>1 DEF HoldsEntry
    <3> QED
      BY <1>i, <3>1, <3>2, QuietRows, ReadsKeep
  <2> QED
    BY <2>1, <2>2 DEF Next
<1> QED
  BY <1>1, <1>2 DEF LineupInv

LEMMA LineupHolds == Spec /\ [][EventsOnlyAdded]_vars => []LineupInv
<1>1. LineupInv /\ [Next]_vars /\ [EventsOnlyAdded]_vars => LineupInv'
  BY LineupNext
<1> QED
  BY LineupInit, <1>1, PTL DEF Spec

(***************************************************************************)
(* As long as no event is taken out of a contest, a submitted lineup is    *)
(* one that could be submitted as it stands, for any owners that pick and  *)
(* submit at once. With one taken out it is not so: the upsert of a submit *)
(* that had read its lineup makes the removed row again.                   *)
(***************************************************************************)
THEOREM SubmittedStaysComplete == Spec /\ [][EventsOnlyAdded]_vars => []SubmittedIsComplete
<1>1. LineupInv => SubmittedIsComplete
  BY DEF LineupInv
<1> QED
  BY <1>1, LineupHolds, PTL

(***************************************************************************)
(* As long as no event is taken out of a contest, every entry has a lineup *)
(* for each of its events and no other, for any entries created while      *)
(* events are added.                                                       *)
(***************************************************************************)
THEOREM LineupsFollowEvents == Spec /\ [][EventsOnlyAdded]_vars => []LineupsCoverEvents
<1>1. LineupInv => LineupsCoverEvents
  BY DEF LineupInv
<1> QED
  BY <1>1, LineupHolds, PTL

(* Commissioners who only add, and have one event left to add, all ask for  *)
(* the same events. With two left, the later of two writes takes the        *)
(* other's event out again: each carries the whole list.                    *)
OneToAdd == ~RemoveEvents /\ \E x \in Events : Events \subseteq FirstEvents \cup {x}

AsksForAll(j) == j.op \in {"setEvents"} => Events \subseteq j.events
AddsInv ==
  /\ TypeOK /\ Base
  /\ status # "DELETED" => FirstEvents \subseteq events
  /\ \A c \in Callers : pc[c] # "idle" => AsksForAll(req[c])

LEMMA RequestedForAll ==
  ASSUME OneToAdd, AddsInv, NEW c \in Callers, Request(c)
  PROVE  \E j : Ask(c, j) /\ AsksForAll(j)
<1>1. CASE RequestEntry(c)
  <2>1. PICK s \in Squads :
          Ask(c, [op |-> "create", squad |-> s, cap |-> planCap, number |-> NextEntryNumber(s)])
    BY <1>1 DEF RequestEntry
  <2> QED
    BY <2>1 DEF AsksForAll
<1>2. CASE RequestLeave(c)
  <2>1. PICK s \in Squads : Ask(c, [op |-> "leave", entry |-> FirstEntry(s)])
    BY <1>2 DEF RequestLeave
  <2> QED
    BY <2>1 DEF AsksForAll
<1>3. CASE RequestPick(c)
  <2>1. PICK e \in Live, g \in Golfers, op \in {"select", "unselect"} :
          Ask(c, [op |-> op, entry |-> e, golfer |-> g, event |-> EventOf[g]])
    BY <1>3 DEF RequestPick
  <2> QED
    BY <2>1 DEF AsksForAll
<1>4. CASE RequestSubmit(c)
  <2>1. PICK e \in Live, v \in Events : Ask(c, [op |-> "submit", entry |-> e, event |-> v])
    BY <1>4 DEF RequestSubmit
  <2> QED
    BY <2>1 DEF AsksForAll
<1>5. CASE RequestDraw(c)
  <2>1. PICK v \in Events : Ask(c, [op |-> "draw", dealt |-> Live, event |-> v])
    BY <1>5 DEF RequestDraw
  <2> QED
    BY <2>1 DEF AsksForAll
<1>6. CASE RequestClaim(c) \/ RequestClear(c)
  <2>1. PICK op \in {"claim", "clear"} : \E e, b : Ask(c, [op |-> op, entry |-> e, box |-> b])
    BY <1>6 DEF RequestClaim, RequestClear
  <2>2. PICK e, b : Ask(c, [op |-> op, entry |-> e, box |-> b])
    BY <2>1
  <2> QED
    BY <2>2 DEF AsksForAll
<1>7. CASE RequestEvents(c)
  <2>1. PICK E \in SUBSET Events :
          /\ status # "DELETED" /\ E # events
          /\ ~(events \subseteq E) => RemoveEvents /\ events \cap started = {}
          /\ Ask(c, [op |-> "setEvents", events |-> E])
    BY <1>7 DEF RequestEvents
  <2>2. FirstEvents \subseteq events /\ events \subseteq E
    BY <2>1 DEF OneToAdd, AddsInv
  <2>3. PICK x \in Events : Events \subseteq FirstEvents \cup {x}
    BY DEF OneToAdd
  <2>4. Events \subseteq E
    BY <2>1, <2>2, <2>3
  <2> QED
    BY <2>1, <2>4 DEF AsksForAll
<1>8. CASE RequestExpansion(c)
  <2>1. PICK n \in Bands : Ask(c, [op |-> "expand", band |-> n])
    BY <1>8 DEF RequestExpansion
  <2> QED
    BY <2>1 DEF AsksForAll
<1>9. CASE RequestDigits(c) \/ RequestDelete(c) \/ RequestCleanUp(c)
  BY <1>9 DEF RequestDigits, RequestDelete, RequestCleanUp, AsksForAll
<1> QED
  BY <1>1, <1>2, <1>3, <1>4, <1>5, <1>6, <1>7, <1>8, <1>9 DEF Request

LEMMA AddsStep ==
  ASSUME OneToAdd, AddsInv, [Next]_vars
  PROVE  AddsInv' /\ EventsOnlyAdded
<1>s. Base /\ Shapes /\ events \subseteq Events /\ \A d \in Callers : pc[d] # "idle" => AsksForAll(req[d])
  BY DEF Base, AddsInv, TypeOK
<1>b. TypeOK' /\ Base' /\ events' \subseteq Events
  <2>1. TypeOK' /\ Base'
    BY TypesStep, BaseStep DEF AddsInv
  <2> QED
    BY <2>1 DEF TypeOK
<1>1. \A d \in Callers : pc'[d] # "idle" => AsksForAll(req'[d])
  <2>1. ASSUME NEW c \in Callers, Request(c) PROVE \A d \in Callers : pc'[d] # "idle" => AsksForAll(req'[d])
    <3>1. PICK j : Ask(c, j) /\ AsksForAll(j)
      BY <2>1, RequestedForAll
    <3>2. pc' = [pc EXCEPT ![c] = "waiting"] /\ req' = [req EXCEPT ![c] = j]
      BY <3>1 DEF Ask
    <3>3. req'[c] = j /\ \A d \in Callers \ {c} : pc'[d] = pc[d] /\ req'[d] = req[d]
      BY <1>s, <3>2 DEF Shapes
    <3> QED
      BY <1>s, <3>1, <3>3
  <2>2. ASSUME NEW c \in Callers, TakeContestLock(c) \/ TakeEntryLock(c)
        PROVE  \A d \in Callers : pc'[d] # "idle" => AsksForAll(req'[d])
    <3>1. req' = req /\ pc[c] = "waiting" /\ pc' = [pc EXCEPT ![c] = "locked"]
      BY <2>2 DEF TakeContestLock, TakeEntryLock
    <3>2. \A d \in Callers : pc'[d] # "idle" => pc[d] # "idle"
      BY <1>s, <3>1 DEF Shapes
    <3> QED
      BY <1>s, <3>1, <3>2
  <2>3. ASSUME NEW c \in Callers, Finish(c) PROVE \A d \in Callers : pc'[d] # "idle" => AsksForAll(req'[d])
    <3>1. pc'[c] = "idle" /\ \A d \in Callers \ {c} : pc'[d] = pc[d] /\ req'[d] = req[d]
      BY <1>s, <2>3, Finished
    <3> QED
      BY <1>s, <3>1
  <2>4. ASSUME NEW c \in Callers, Transact(c) \/ Fail(c)
        PROVE  TakeContestLock(c) \/ TakeEntryLock(c) \/ Finish(c)
    BY <2>4 DEF Transact, Fail, EntryMissing, Refuse, CreateEntry, LeaveContest, RecordDraw, ClaimBox, ClearBox,
         RecordDigits, ReplaceSportEvents, Expand, DeleteContest, ChangeEntryPick, SettleEntryEvent, Commit
  <2>5. CASE OpenContest \/ ActivateContest \/ EventStarts \/ ChangePlan \/ UNCHANGED vars
    <3>1. UNCHANGED <<pc, req>>
      BY <1>s, <2>5, WorldBase
    <3> QED
      BY <1>s, <3>1
  <2> QED
    BY <2>1, <2>2, <2>3, <2>4, <2>5 DEF Next
<1>2. \/ events' = events /\ (status' # "DELETED" => status # "DELETED")
      \/ Events \subseteq events'
      \/ status' = "DELETED"
  <2>1. CASE \E c \in Callers : Request(c) \/ Transact(c) \/ Fail(c)
    <3>1. PICK c \in Callers : Request(c) \/ Transact(c) \/ Fail(c)
      BY <2>1
    <3>2. CASE Request(c) \/ TakeContestLock(c) \/ TakeEntryLock(c)
      <4>1. UNCHANGED <<contest, room>>
        BY <1>s, <3>2, RequestBase, TakeBase
      <4> QED
        BY <4>1 DEF contest
    <3>3. CASE EntryMissing(c) \/ Refuse(c) \/ Fail(c) \/ ChangeEntryPick(c) \/ SettleEntryEvent(c)
      BY <1>s, <3>3, AsideBase DEF contest
    <3>4. CASE \/ CreateEntry(c) \/ LeaveContest(c) \/ RecordDraw(c) \/ ClaimBox(c) \/ ClearBox(c)
               \/ RecordDigits(c) \/ Expand(c)
      BY <3>4 DEF CreateEntry, LeaveContest, RecordDraw, ClaimBox, ClearBox, RecordDigits, Expand, contest
    <3>5. CASE ReplaceSportEvents(c)
      <4>1. Commit(c, "setEvents") /\ "setEvents" \in ContestOps /\ events' = req[c].events
        BY <3>5 DEF ReplaceSportEvents, ContestOps
      <4>2. pc[c] = "locked" /\ req[c].op \in {"setEvents"}
        BY <4>1 DEF Commit, At
      <4>3. Events \subseteq events'
        BY <1>s, <4>1, <4>2 DEF AsksForAll
      <4> QED
        BY <4>3
    <3>6. CASE DeleteContest(c)
      BY <3>6 DEF DeleteContest
    <3> QED
      BY <3>1, <3>2, <3>3, <3>4, <3>5, <3>6 DEF Transact
  <2>2. CASE OpenContest \/ ActivateContest \/ EventStarts \/ ChangePlan \/ UNCHANGED vars
    BY <2>2 DEF OpenContest, ActivateContest, EventStarts, ChangePlan, vars, contest
  <2> QED
    BY <2>1, <2>2 DEF Next
<1>3. FirstEvents \subseteq Events
  BY RoomAssumption
<1>4. EventsOnlyAdded /\ (status' # "DELETED" => FirstEvents \subseteq events')
  BY <1>s, <1>2, <1>3 DEF EventsOnlyAdded, AddsInv
<1> QED
  BY <1>b, <1>1, <1>4 DEF AddsInv

LEMMA AddsHold == ASSUME OneToAdd PROVE Spec => [][EventsOnlyAdded]_vars
<1>1. Init => AddsInv
  <2> SUFFICES ASSUME Init PROVE AddsInv
    OBVIOUS
  <2>1. TypeOK /\ Base
    BY TypesInit, BaseInit
  <2> QED
    BY <2>1 DEF Init, AddsInv
<1>2. AddsInv /\ [Next]_vars => AddsInv'
  BY AddsStep
<1>3. AddsInv /\ [Next]_vars => [EventsOnlyAdded]_vars
  BY AddsStep
<1> QED
  BY <1>1, <1>2, <1>3, PTL DEF Spec

(***************************************************************************)
(* So with one event to add, as in the run of EntryRoom, lineups are what  *)
(* they should be under no assumption on the behaviour.                    *)
(***************************************************************************)
THEOREM LineupsHoldWithOneToAdd ==
  ASSUME OneToAdd PROVE Spec => [](SubmittedIsComplete /\ LineupsCoverEvents)
BY AddsHold, SubmittedStaysComplete, LineupsFollowEvents, PTL
=============================================================================
