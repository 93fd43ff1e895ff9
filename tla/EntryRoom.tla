------------------------------ MODULE EntryRoom ------------------------------
(***************************************************************************)
(* One contest, from draft to play: entering and leaving it, roster picks  *)
(* and their submission, the random draw, the boxes and digits of a        *)
(* squares board, changes to its events, expansions of its cap, and its    *)
(* deletion.                                                               *)
(*                                                                         *)
(* A request first checks what it may do, outside any transaction, and     *)
(* keeps what it read. Then its transaction takes a row lock, the          *)
(* contest's or one entry's, reads what it decides on under the lock, and  *)
(* commits. Two transactions on different rows interleave; so do the       *)
(* checks of one request and the transaction of another.                   *)
(***************************************************************************)
EXTENDS Integers, Sequences, FiniteSets, FiniteSetsExt, SequencesExt

CONSTANTS
  Callers,        \* requests in flight: owners, co-owners in two tabs, commissioners
  Nobody,         \* no holder of a lock
  Kinds,          \* the selection types a contest may have
  Squads,
  MaxEntries,     \* bound: entries ever created
  Events,         \* sport events the contest may cover
  FirstEvents,    \* the events it starts with
  Golfers,
  EventOf,        \* the event a golfer's field row belongs to
  TierOf,         \* the tier of a golfer
  PicksPerTier,
  RosterSize,     \* of a budget pick, and the picks a random draw deals
  Price, SalaryCap,
  Boxes, MaxSquaresPerEntry,
  MaxEntriesPerSquad,
  PlanCaps,       \* entries per contest of the plans a league may be on
  FirstCap,       \* and of the one it starts on
  Bands,          \* entries per contest an expansion may buy
  RemoveEvents,   \* whether commissioners also remove events
  MaxRequests     \* bound: requests ever made

EntryIds == 1..MaxEntries
Tiers == {TierOf[g] : g \in Golfers}

ASSUME RoomAssumption ==
  /\ Nobody \notin Callers
  /\ Kinds \subseteq {"TIERED", "BUDGET_PICK", "RANDOM_DRAW", "SQUARES"}
  /\ MaxEntries \in Nat /\ MaxRequests \in Nat
  /\ FirstEvents \subseteq Events /\ IsFiniteSet(Events) /\ IsFiniteSet(Boxes)
  /\ IsFiniteSet(Golfers)
  /\ EventOf \in [Golfers -> Events]
  /\ PicksPerTier \in Nat \ {0} /\ RosterSize \in Nat \ {0}
  /\ Price \in [Golfers -> Nat] /\ SalaryCap \in Nat
  /\ MaxSquaresPerEntry \in Nat /\ MaxEntriesPerSquad \in Nat
  /\ PlanCaps \subseteq Nat /\ FirstCap \in PlanCaps /\ Bands \subseteq Nat \ {0}
  /\ RemoveEvents \in BOOLEAN

VARIABLES
  kind,        \* the contest's selection type; never changes
  status,      \* of the contest
  events,      \* the events it covers
  started,     \* events past their scheduled start
  drawn,       \* a random draw dealt, or a board's digits drawn
  planCap,     \* the cap of the plan the league is on
  bands,       \* the contest's expansions, oldest first
  entry,       \* entry id |-> its squad and number, or not yet or no longer there
  picks,       \* entry id, event |-> its golfers, oldest first
  lineup,      \* entry id, event |-> the status of its row, or "NONE"
  boxes,       \* box |-> the entry that holds it, or 0
  lock,        \* who holds the contest's row lock
  entryLock,   \* entry id |-> who holds its row lock
  pc,          \* caller |-> where its request is
  req,         \* caller |-> its request, with what its checks read
  seen,        \* caller |-> what its transaction read under the lock
  requests     \* requests left

contest == <<kind, status, events, started, drawn, planCap, bands>>
room == <<entry, picks, lineup, boxes>>
vars == <<contest, room, lock, entryLock, pc, req, seen, requests>>

Unborn == [state |-> "unborn"]
Gone == [state |-> "gone"]
Live == {e \in EntryIds : entry[e].state = "live"}
EntriesOf(s) == {e \in Live : entry[e].squad = s}
NumbersOf(s) == {entry[e].number : e \in EntriesOf(s)}
Held(e) == {b \in Boxes : boxes[b] = e}
RosterKinds == {"TIERED", "BUDGET_PICK"}
NoRow == [v \in Events |-> "NONE"]
NoPicks == [v \in Events |-> <<>>]
Band(s) == IF s = <<>> THEN 0 ELSE Last(s)

(***************************************************************************)
(* The windows. hasSportEventStarted is "started": the status that follows *)
(* the start time is late at worst, never early.                           *)
(***************************************************************************)
AreEntriesOpen == status = "OPEN" /\ ~drawn /\ events \cap started = {}
AreEventPicksOpen(v) == status \in {"OPEN", "ACTIVE"} /\ ~drawn /\ v \in events \ started
AreClaimsOpen == status = "OPEN" /\ ~drawn /\ events \cap started = {}

(***************************************************************************)
(* The contest's cap: a plan with more room wins, an expansion only raises.*)
(***************************************************************************)
ContestEntriesCap(plan, band) == Max({plan, band})

(***************************************************************************)
(* The selection engines. A full tier swaps its newest pick; a full budget *)
(* roster refuses; the salary cap is judged on submit only.                *)
(***************************************************************************)
TiersOf(v) == {TierOf[g] : g \in {x \in Golfers : EventOf[x] = v}}
InTier(held, t) == {g \in Range(held) : TierOf[g] = t}
Newest(held, gs) == held[Max({i \in DOMAIN held : held[i] \in gs})]
Cost(held) == FoldSeq(LAMBDA g, sum : sum + Price[g], 0, held)
RosterSizeOf(v) ==
  IF kind = "TIERED" THEN PicksPerTier * Cardinality(TiersOf(v)) ELSE RosterSize
Full(held, v) == Len(held) >= RosterSizeOf(v)

Displaced(held, g) ==
  LET same == InTier(held, TierOf[g]) IN
  IF kind = "TIERED" /\ Cardinality(same) >= PicksPerTier THEN {Newest(held, same)} ELSE {}

\* The pick deleted, of the one golfer at most a change takes away.
Without(held, gs) ==
  IF gs \cap Range(held) = {} THEN held
  ELSE RemoveAt(held, CHOOSE i \in DOMAIN held : held[i] \in gs)

FindLineupIssues(held, v) ==
  \/ RosterSizeOf(v) = 0 \/ Len(held) # RosterSizeOf(v)
  \/ kind = "TIERED" /\ \E t \in TiersOf(v) : Cardinality(InTier(held, t)) # PicksPerTier
  \/ kind = "BUDGET_PICK" /\ Cost(held) > SalaryCap

(***************************************************************************)
(* A request is "waiting" for its lock, with the copies its checks read in *)
(* req; or "locked", with what it read under the lock in seen.             *)
(***************************************************************************)
ContestOps == {"create", "leave", "draw", "claim", "clear", "digits",
               "setEvents", "expand", "delete", "cleanUp"}
EntryOps == {"select", "unselect", "submit"}

NoRequest == [op |-> "none"]
NothingSeen == [of |-> "nothing"]
At(c, place, op) == pc[c] = place /\ req[c].op = op

Ask(c, request) ==
  /\ pc[c] = "idle"
  /\ requests > 0
  /\ requests' = requests - 1
  /\ pc' = [pc EXCEPT ![c] = "waiting"]
  /\ req' = [req EXCEPT ![c] = request]
  /\ UNCHANGED <<contest, room, lock, entryLock, seen>>

Finish(c) ==
  /\ pc' = [pc EXCEPT ![c] = "idle"]
  /\ req' = [req EXCEPT ![c] = NoRequest]
  /\ seen' = [seen EXCEPT ![c] = NothingSeen]
  /\ lock' = IF lock = c THEN Nobody ELSE lock
  /\ entryLock' = [e \in EntryIds |-> IF entryLock[e] = c THEN Nobody ELSE entryLock[e]]
  /\ UNCHANGED requests

(***************************************************************************)
(* The checks of each request. Entering numbers the entry past the         *)
(* squad's highest; leaving takes the squad's first entry, when it holds   *)
(* no picks; the plan's cap is read before the lock.                       *)
(***************************************************************************)
FirstEntry(s) ==
  CHOOSE e \in EntriesOf(s) : \A f \in EntriesOf(s) : entry[e].number <= entry[f].number

SquadLimit == IF kind = "SQUARES" THEN 1 ELSE MaxEntriesPerSquad
Spare == {e \in EntryIds : entry[e] = Unborn}
Entering == {c \in Callers : req[c].op = "create"}

\* Past the highest number the squad holds: a count would reuse one still taken.
NextEntryNumberOfHighest(s) == Max(NumbersOf(s) \cup {0})
NextEntryNumber(s) == Max(NumbersOf(s) \cup {0}) + 1

RequestEntry(c) == \E s \in Squads :
  /\ AreEntriesOpen
  /\ Cardinality(EntriesOf(s)) < SquadLimit
  /\ Cardinality(Entering) < Cardinality(Spare)
  /\ Ask(c, [op |-> "create", squad |-> s, cap |-> planCap,
             number |-> NextEntryNumber(s)])

HasSelections(e) == \E v \in Events : picks[e][v] # <<>>

RequestLeave(c) == \E s \in Squads :
  /\ AreEntriesOpen
  /\ EntriesOf(s) # {}
  /\ ~HasSelections(FirstEntry(s))
  /\ Ask(c, [op |-> "leave", entry |-> FirstEntry(s)])

RequestPick(c) == \E e \in Live, g \in Golfers, op \in {"select", "unselect"} :
  /\ kind \in RosterKinds
  /\ AreEventPicksOpen(EventOf[g])
  /\ Ask(c, [op |-> op, entry |-> e, golfer |-> g, event |-> EventOf[g]])

RequestSubmit(c) == \E e \in Live, v \in Events :
  /\ kind \in RosterKinds \cup {"RANDOM_DRAW"}
  /\ AreEventPicksOpen(v)
  /\ Ask(c, [op |-> "submit", entry |-> e, event |-> v])

RequestDraw(c) ==
  /\ kind = "RANDOM_DRAW" /\ status = "OPEN" /\ Live # {}
  /\ \E v \in Events :
       /\ AreEventPicksOpen(v)
       /\ Cardinality({g \in Golfers : EventOf[g] = v}) >= Cardinality(Live) * RosterSize
       /\ Ask(c, [op |-> "draw", dealt |-> Live, event |-> v])

RequestClaim(c) == \E e \in Live, b \in Boxes :
  /\ kind = "SQUARES" /\ AreClaimsOpen
  /\ Ask(c, [op |-> "claim", entry |-> e, box |-> b])

RequestClear(c) == \E b \in Boxes :
  /\ kind = "SQUARES" /\ AreClaimsOpen
  /\ boxes[b] # 0
  /\ Ask(c, [op |-> "clear", entry |-> boxes[b], box |-> b])

RequestDigits(c) ==
  /\ kind = "SQUARES" /\ ~drawn /\ status \in {"OPEN", "ACTIVE"}
  /\ Ask(c, [op |-> "digits"])

RequestEvents(c) == \E E \in SUBSET Events :
  /\ status # "DELETED" /\ ~drawn
  /\ E # {} /\ E # events
  /\ kind \in {"RANDOM_DRAW", "SQUARES"} => Cardinality(E) = 1
  /\ (E \ events) \cap started = {}
  /\ ~(events \subseteq E) => RemoveEvents /\ events \cap started = {}
  /\ Ask(c, [op |-> "setEvents", events |-> E])

\* A commissioner's, or with "grant" a root admin's, at any time.
RequestExpansion(c) == \E n \in Bands, grant \in BOOLEAN :
  /\ status # "DELETED"
  /\ grant \/ status = "DRAFT" \/ AreEntriesOpen
  /\ n > ContestEntriesCap(planCap, Band(bands))
  /\ Ask(c, [op |-> "expand", band |-> n])

RequestDelete(c) ==
  /\ status = "DRAFT"
  /\ Ask(c, [op |-> "delete"])

Abandoned(st, evs) == st = "DRAFT" /\ evs # {} /\ evs \subseteq started

\* The nightly cleanup chooses drafts that can never open.
RequestCleanUp(c) ==
  /\ Abandoned(status, events)
  /\ Ask(c, [op |-> "cleanUp"])

(***************************************************************************)
(* The row locks, taken first in a transaction; what the transaction       *)
(* decides on is read under them.                                          *)
(***************************************************************************)
ContestFreeAlways(c) == TRUE
ContestFree(c) == lock = Nobody
EntryFreeAlways(c, e) == TRUE
EntryFree(c, e) == entryLock[e] = Nobody

ContestRows ==
  [of |-> "contest", drawn |-> drawn, live |-> Live, events |-> events,
   band |-> Band(bands), status |-> status, boxes |-> boxes]
EntryRows(e, v) == [of |-> "entry", picks |-> picks[e][v], status |-> lineup[e][v]]

TakeContestLock(c) ==
  /\ pc[c] = "waiting" /\ req[c].op \in ContestOps
  /\ ContestFree(c)
  /\ lock' = c
  /\ pc' = [pc EXCEPT ![c] = "locked"]
  /\ seen' = [seen EXCEPT ![c] = ContestRows]
  /\ UNCHANGED <<contest, room, entryLock, req, requests>>

TakeEntryLock(c) ==
  /\ pc[c] = "waiting" /\ req[c].op \in EntryOps
  /\ req[c].entry \in Live
  /\ EntryFree(c, req[c].entry)
  /\ entryLock' = [entryLock EXCEPT ![req[c].entry] = c]
  /\ pc' = [pc EXCEPT ![c] = "locked"]
  /\ seen' = [seen EXCEPT ![c] = EntryRows(req[c].entry, req[c].event)]
  /\ UNCHANGED <<contest, room, lock, req, requests>>

\* The entry was deleted before its lock was taken.
EntryMissing(c) ==
  /\ pc[c] = "waiting" /\ req[c].op \in EntryOps
  /\ req[c].entry \notin Live
  /\ Finish(c) /\ UNCHANGED <<contest, room>>

(***************************************************************************)
(* What a transaction on the contest may write. It reads "seen" under the  *)
(* lock; unique keys and foreign keys refuse the rest.                     *)
(***************************************************************************)
MayEnter(j, s) ==
  /\ ~s.drawn
  /\ Cardinality(s.live) < ContestEntriesCap(j.cap, s.band)
  /\ status # "DELETED"
  /\ j.number \notin NumbersOf(j.squad)

MayLeaveDrawn(j, s) == j.entry \in Live /\ ~HasSelections(j.entry)
MayLeaveWithPicks(j, s) == ~s.drawn /\ j.entry \in Live
MayLeave(j, s) == ~s.drawn /\ j.entry \in Live /\ ~HasSelections(j.entry)

MayDealAsRead(j, s) == ~drawn /\ status # "DELETED"
MayDeal(j, s) == s.live = j.dealt /\ ~drawn /\ status # "DELETED"

MayClaimOneMore(j, s) ==
  /\ ~s.drawn
  /\ Cardinality({b \in Boxes : s.boxes[b] = j.entry}) <= MaxSquaresPerEntry
  /\ boxes[j.box] = 0
  /\ j.entry \in Live
MayClaim(j, s) ==
  /\ ~s.drawn
  /\ Cardinality({b \in Boxes : s.boxes[b] = j.entry}) < MaxSquaresPerEntry
  /\ boxes[j.box] = 0
  /\ j.entry \in Live

MayClear(j, s) == ~s.drawn

MayDrawDigits(j, s) == ~drawn /\ status # "DELETED"

MayReplaceEvents(j, s) == status # "DELETED"

MayExpandAsOffered(j, s) == status # "DELETED"
MayExpand(j, s) == s.band < j.band /\ status # "DELETED"

MayDelete(j, s) == status # "DELETED"

MayCleanUp(j, s) == Abandoned(s.status, s.events)

Allowed(j, s) ==
  CASE j.op = "create"    -> MayEnter(j, s)
    [] j.op = "leave"     -> MayLeave(j, s)
    [] j.op = "draw"      -> MayDeal(j, s)
    [] j.op = "claim"     -> MayClaim(j, s)
    [] j.op = "clear"     -> MayClear(j, s)
    [] j.op = "digits"    -> MayDrawDigits(j, s)
    [] j.op = "setEvents" -> MayReplaceEvents(j, s)
    [] j.op = "expand"    -> MayExpand(j, s)
    [] j.op = "delete"    -> MayDelete(j, s)
    [] j.op = "cleanUp"   -> MayCleanUp(j, s)

\* Refused, or rolled back by the database: the transaction writes nothing.
Refuse(c) ==
  /\ pc[c] = "locked" /\ req[c].op \in ContestOps
  /\ ~Allowed(req[c], seen[c])
  /\ Finish(c) /\ UNCHANGED <<contest, room>>

Commit(c, op) == At(c, "locked", op) /\ Allowed(req[c], seen[c]) /\ Finish(c)

(***************************************************************************)
(* The writes of the transactions that hold the contest's lock. Deleting   *)
(* an entry's row, or adding a row that refers to it, waits for the        *)
(* entry's own lock.                                                       *)
(***************************************************************************)
Unlocked(es) == \A e \in es : entryLock[e] = Nobody

CreateEntry(c) ==
  /\ Commit(c, "create")
  /\ \E e \in EntryIds :
       /\ entry[e] = Unborn
       /\ \A f \in EntryIds : f < e => entry[f] # Unborn
       /\ entry' = [entry EXCEPT ![e] = [state |-> "live", squad |-> req[c].squad,
                                         number |-> req[c].number]]
       /\ lineup' = [lineup EXCEPT ![e] =
            [v \in Events |-> IF v \in seen[c].events THEN "DRAFT" ELSE "NONE"]]
  /\ UNCHANGED <<contest, picks, boxes>>

\* The rows go with their entries: event rows and boxes cascade.
Removed(es) ==
  /\ entry' = [e \in EntryIds |-> IF e \in es THEN Gone ELSE entry[e]]
  /\ lineup' = [e \in EntryIds |-> IF e \in es THEN NoRow ELSE lineup[e]]
  /\ boxes' = [b \in Boxes |-> IF boxes[b] \in es THEN 0 ELSE boxes[b]]

LeaveContest(c) ==
  /\ Commit(c, "leave")
  /\ Unlocked({req[c].entry})
  /\ Removed({req[c].entry})
  /\ UNCHANGED <<contest, picks>>

\* Dealt round by round from a shuffled field, so no golfer twice.
Deals(es, v) ==
  {d \in [es -> {held \in [1..RosterSize -> {g \in Golfers : EventOf[g] = v}] :
                   \A i, k \in 1..RosterSize : held[i] = held[k] => i = k}] :
     \A e, f \in es : e # f => Range(d[e]) \cap Range(d[f]) = {}}

RecordDraw(c) ==
  /\ Commit(c, "draw")
  /\ drawn' = TRUE
  /\ \E d \in Deals(req[c].dealt, req[c].event) :
       picks' = [e \in EntryIds |-> IF e \in req[c].dealt
                   THEN [picks[e] EXCEPT ![req[c].event] = d[e]] ELSE picks[e]]
  /\ lineup' = [e \in EntryIds |-> [v \in Events |->
       IF e \in req[c].dealt /\ lineup[e][v] # "NONE" THEN "SUBMITTED" ELSE lineup[e][v]]]
  /\ UNCHANGED <<kind, status, events, started, planCap, bands, entry, boxes>>

ClaimBox(c) ==
  /\ Commit(c, "claim")
  /\ boxes' = [boxes EXCEPT ![req[c].box] = req[c].entry]
  /\ UNCHANGED <<contest, entry, picks, lineup>>

ClearBox(c) ==
  /\ Commit(c, "clear")
  /\ boxes' = [boxes EXCEPT ![req[c].box] = IF @ = req[c].entry THEN 0 ELSE @]
  /\ UNCHANGED <<contest, entry, picks, lineup>>

\* Every entry that holds a box is submitted for the board's event.
RecordDigits(c) ==
  /\ Commit(c, "digits")
  /\ drawn' = TRUE
  /\ lineup' = [e \in EntryIds |-> [v \in Events |->
       IF Held(e) # {} /\ lineup[e][v] # "NONE" THEN "SUBMITTED" ELSE lineup[e][v]]]
  /\ UNCHANGED <<kind, status, events, started, planCap, bands, entry, picks, boxes>>

ReplaceSportEvents(c) ==
  LET removed == seen[c].events \ req[c].events
      lacking == {e \in Live : \E v \in req[c].events : lineup[e][v] = "NONE"} IN
  /\ Commit(c, "setEvents")
  /\ Unlocked(lacking)
  /\ events' = req[c].events
  /\ picks' = [e \in EntryIds |-> [v \in Events |->
       IF v \in removed THEN <<>> ELSE picks[e][v]]]
  /\ lineup' = [e \in EntryIds |-> [v \in Events |->
       CASE v \in removed -> "NONE"
         [] e \in Live /\ v \in req[c].events /\ lineup[e][v] = "NONE" -> "DRAFT"
         [] OTHER -> lineup[e][v]]]
  /\ UNCHANGED <<kind, status, started, drawn, planCap, bands, entry, boxes>>

Expand(c) ==
  /\ Commit(c, "expand")
  /\ bands' = Append(bands, req[c].band)
  /\ UNCHANGED <<kind, status, events, started, drawn, planCap, room>>

\* The picks go first, then the entries, then the contest.
DeleteContest(c) == \E op \in {"delete", "cleanUp"} :
  /\ Commit(c, op)
  /\ Unlocked(Live)
  /\ status' = "DELETED"
  /\ events' = {}
  /\ picks' = [e \in EntryIds |-> NoPicks]
  /\ Removed(Live)
  /\ UNCHANGED <<kind, started, drawn, planCap, bands>>

(***************************************************************************)
(* The writes of the transactions that hold an entry's lock, decided on    *)
(* the picks and the status read under it. Deleting a pick that is gone    *)
(* fails the transaction.                                                  *)
(***************************************************************************)
\* The picks a change takes away and the ones it adds, or nothing to do.
Change(op, held, g, v) ==
  CASE op = "select" /\ g \notin Range(held) /\ (Displaced(held, g) # {} \/ ~Full(held, v))
         -> [remove |-> Displaced(held, g), add |-> <<g>>]
    [] op = "unselect" /\ g \in Range(held) -> [remove |-> {g}, add |-> <<>>]
    [] OTHER -> [remove |-> {}, add |-> <<>>]

StatusKept(st, held, v) == st
StatusAfterPickChange(st, held, v) ==
  IF st = "SUBMITTED" /\ FindLineupIssues(held, v) THEN "DRAFT" ELSE st

ChangeEntryPick(c) ==
  LET e == req[c].entry
      v == req[c].event
      change == Change(req[c].op, seen[c].picks, req[c].golfer, v)
      after == Without(seen[c].picks, change.remove) \o change.add IN
  /\ \E op \in {"select", "unselect"} : At(c, "locked", op)
  /\ IF change.remove \subseteq Range(picks[e][v])
     THEN /\ picks' = [picks EXCEPT ![e][v] = Without(@, change.remove) \o change.add]
          /\ lineup' = IF after = seen[c].picks THEN lineup ELSE
               [lineup EXCEPT ![e][v] =
                  IF StatusAfterPickChange(seen[c].status, after, v) = seen[c].status
                  THEN @ ELSE "DRAFT"]
     ELSE UNCHANGED <<picks, lineup>>
  /\ Finish(c)
  /\ UNCHANGED <<contest, entry, boxes>>

\* A lineup with issues is refused; a submitted one is left as it is.
SettleEntryEvent(c) ==
  /\ At(c, "locked", "submit")
  /\ lineup' = IF seen[c].status # "SUBMITTED" /\ ~FindLineupIssues(seen[c].picks, req[c].event)
               THEN [lineup EXCEPT ![req[c].entry][req[c].event] = "SUBMITTED"]
               ELSE lineup
  /\ Finish(c)
  /\ UNCHANGED <<contest, entry, picks, boxes>>

(***************************************************************************)
(* The rest of the program. A status write to the contest's row waits for  *)
(* its lock. A process may die, or the database drop a deadlock's victim,  *)
(* with its transaction rolled back.                                       *)
(***************************************************************************)
\* That nothing had started was checked before; only the status is checked again.
OpenContest ==
  /\ status = "DRAFT" /\ lock = Nobody
  /\ events # {}
  /\ status' = "OPEN"
  /\ UNCHANGED <<kind, events, started, drawn, planCap, bands, room, lock, entryLock, pc, req, seen, requests>>

ActivateContest ==
  /\ status = "OPEN" /\ lock = Nobody
  /\ events \cap started # {}
  /\ status' = "ACTIVE"
  /\ UNCHANGED <<kind, events, started, drawn, planCap, bands, room, lock, entryLock, pc, req, seen, requests>>

EventStarts == \E v \in Events \ started :
  /\ started' = started \cup {v}
  /\ UNCHANGED <<kind, status, events, drawn, planCap, bands, room, lock, entryLock, pc, req, seen, requests>>

ChangePlan == \E n \in PlanCaps \ {planCap} :
  /\ requests > 0 /\ requests' = requests - 1
  /\ planCap' = n
  /\ UNCHANGED <<kind, status, events, started, drawn, bands, room, lock, entryLock, pc, req, seen>>

Fail(c) == pc[c] # "idle" /\ Finish(c) /\ UNCHANGED <<contest, room>>

Init ==
  /\ kind \in Kinds
  /\ status = "DRAFT"
  /\ events = FirstEvents
  /\ started = {}
  /\ drawn = FALSE
  /\ planCap = FirstCap
  /\ bands = <<>>
  /\ entry = [e \in EntryIds |-> Unborn]
  /\ picks = [e \in EntryIds |-> NoPicks]
  /\ lineup = [e \in EntryIds |-> NoRow]
  /\ boxes = [b \in Boxes |-> 0]
  /\ lock = Nobody
  /\ entryLock = [e \in EntryIds |-> Nobody]
  /\ pc = [c \in Callers |-> "idle"]
  /\ req = [c \in Callers |-> NoRequest]
  /\ seen = [c \in Callers |-> NothingSeen]
  /\ requests = MaxRequests

Request(c) ==
  \/ RequestEntry(c) \/ RequestLeave(c) \/ RequestPick(c) \/ RequestSubmit(c)
  \/ RequestDraw(c) \/ RequestClaim(c) \/ RequestClear(c) \/ RequestDigits(c)
  \/ RequestEvents(c) \/ RequestExpansion(c) \/ RequestDelete(c) \/ RequestCleanUp(c)

Transact(c) ==
  \/ TakeContestLock(c) \/ TakeEntryLock(c) \/ EntryMissing(c) \/ Refuse(c)
  \/ CreateEntry(c) \/ LeaveContest(c) \/ RecordDraw(c)
  \/ ClaimBox(c) \/ ClearBox(c) \/ RecordDigits(c)
  \/ ReplaceSportEvents(c) \/ Expand(c) \/ DeleteContest(c)
  \/ ChangeEntryPick(c) \/ SettleEntryEvent(c)

Next ==
  \/ \E c \in Callers : Request(c) \/ Transact(c) \/ Fail(c)
  \/ OpenContest \/ ActivateContest \/ EventStarts \/ ChangePlan

Spec == Init /\ [][Next]_vars

-----------------------------------------------------------------------------
Entry == {Unborn, Gone} \cup [state : {"live"}, squad : Squads, number : Nat \ {0}]
Lineup == Seq(Golfers)
RowStatus == {"NONE", "DRAFT", "SUBMITTED"}
RequestSet ==
  {NoRequest}
  \cup [op : {"create"}, squad : Squads, cap : Nat, number : Nat \ {0}]
  \cup [op : {"leave"}, entry : EntryIds]
  \cup [op : {"select", "unselect"}, entry : EntryIds, golfer : Golfers, event : Events]
  \cup [op : {"submit"}, entry : EntryIds, event : Events]
  \cup [op : {"draw"}, dealt : SUBSET EntryIds, event : Events]
  \cup [op : {"claim", "clear"}, entry : EntryIds, box : Boxes]
  \cup [op : {"setEvents"}, events : SUBSET Events]
  \cup [op : {"expand"}, band : Bands]
  \cup [op : {"digits", "delete", "cleanUp"}]
SeenSet ==
  {NothingSeen}
  \cup [of : {"entry"}, picks : Lineup, status : RowStatus]
  \cup [of : {"contest"}, drawn : BOOLEAN, live : SUBSET EntryIds, events : SUBSET Events,
        band : Nat, status : {"DRAFT", "OPEN", "ACTIVE", "DELETED"},
        boxes : [Boxes -> EntryIds \cup {0}]]

(***************************************************************************)
(* Every variable keeps its type, and a lock is held by the caller whose   *)
(* transaction runs under it.                                              *)
(***************************************************************************)
TypeOK ==
  /\ kind \in Kinds
  /\ status \in {"DRAFT", "OPEN", "ACTIVE", "DELETED"}
  /\ events \subseteq Events /\ started \subseteq Events
  /\ drawn \in BOOLEAN
  /\ planCap \in PlanCaps /\ bands \in Seq(Bands)
  /\ entry \in [EntryIds -> Entry]
  /\ picks \in [EntryIds -> [Events -> Lineup]]
  /\ lineup \in [EntryIds -> [Events -> RowStatus]]
  /\ boxes \in [Boxes -> EntryIds \cup {0}]
  /\ lock \in Callers \cup {Nobody}
  /\ entryLock \in [EntryIds -> Callers \cup {Nobody}]
  /\ pc \in [Callers -> {"idle", "waiting", "locked"}]
  /\ req \in [Callers -> RequestSet]
  /\ seen \in [Callers -> SeenSet]
  /\ requests \in 0..MaxRequests

(***************************************************************************)
(* However many squads enter at once, an entry is let in only while the    *)
(* contest's entries, drafts included, stay within its cap: the plan's as  *)
(* the request read it, or the expansion's as it is now.                   *)
(***************************************************************************)
CapHonoured ==
  [][Live' \ Live # {} =>
       \E c \in Entering : Cardinality(Live') <= ContestEntriesCap(req[c].cap, Band(bands))]_vars

(***************************************************************************)
(* A random draw deals every entry its full roster, no golfer twice, and   *)
(* submits it: no entry on its way in is left without picks.               *)
(***************************************************************************)
DealtToAll ==
  kind = "RANDOM_DRAW" /\ drawn =>
    /\ \A e \in Live, v \in events :
         Len(picks[e][v]) = RosterSize /\ lineup[e][v] = "SUBMITTED"
    /\ \A e, f \in Live, v \in events :
         e # f => Range(picks[e][v]) \cap Range(picks[f][v]) = {}

(***************************************************************************)
(* A draw is final: from then on, as long as the contest is there, nobody  *)
(* enters or leaves it, and no pick, box or event of it changes.           *)
(***************************************************************************)
DrawStands ==
  [][drawn /\ status' # "DELETED" => drawn' /\ UNCHANGED <<events, entry, picks, boxes>>]_vars

(***************************************************************************)
(* A submitted lineup is one that could be submitted as it stands, also    *)
(* when picks change and submits of one entry overlap.                     *)
(***************************************************************************)
SubmittedIsComplete ==
  kind \in RosterKinds => \A e \in Live, v \in Events :
    lineup[e][v] = "SUBMITTED" => ~FindLineupIssues(picks[e][v], v)

(***************************************************************************)
(* No roster or tier is overfilled and no golfer is held twice, however    *)
(* many tabs pick for one entry at once.                                   *)
(***************************************************************************)
RostersFit ==
  kind \in RosterKinds => \A e \in Live, v \in Events :
    /\ Len(picks[e][v]) <= RosterSizeOf(v)
    /\ Cardinality(Range(picks[e][v])) = Len(picks[e][v])
    /\ kind = "TIERED" => \A t \in TiersOf(v) : Cardinality(InTier(picks[e][v], t)) <= PicksPerTier

(***************************************************************************)
(* Every entry has a lineup for each event of its contest and no other,    *)
(* also one created while the events change.                               *)
(***************************************************************************)
LineupsCoverEvents ==
  \A e \in Live : {v \in Events : lineup[e][v] # "NONE"} = events

(***************************************************************************)
(* A box is held by an entry still in the contest, and no entry holds more *)
(* than the limit, also when its owners claim in two tabs at once.         *)
(***************************************************************************)
BoxesHeld ==
  /\ \A b \in Boxes : boxes[b] # 0 => boxes[b] \in Live
  /\ \A e \in Live : Cardinality(Held(e)) <= MaxSquaresPerEntry

(***************************************************************************)
(* An owner who leaves takes no pick along: a pick made after the leave    *)
(* found none keeps the entry in the contest.                              *)
(***************************************************************************)
NoPickLost ==
  [][\A e \in Live : entry'[e] = Gone /\ status' # "DELETED" => ~HasSelections(e)]_vars

(***************************************************************************)
(* Each expansion bought raises the contest's cap: two commissioners who   *)
(* press Expand at once do not pay for one band twice.                     *)
(***************************************************************************)
ExpansionsRise ==
  \A i, k \in DOMAIN bands : i < k => bands[i] < bands[k]

Opened == status \in {"OPEN", "ACTIVE"}

(***************************************************************************)
(* Once opened to its league a contest's existence is locked for good.     *)
(***************************************************************************)
OpenedIsKept == [][Opened => status' # "DELETED"]_vars
=============================================================================
