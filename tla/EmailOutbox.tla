----------------------------- MODULE EmailOutbox -----------------------------
(***************************************************************************)
(* The email outbox: emails recorded once per key, claimed by the senders  *)
(* of several tasks, handed to the transport, retried, throttled, given up *)
(* on, and moved on by the transport's delivery reports.                   *)
(*                                                                         *)
(* Time is only what the code asks of it: whether a row's next attempt has *)
(* come, a wait that is over or a claim that lapsed, and whether an        *)
(* email's send-by window has passed.                                      *)
(***************************************************************************)
EXTENDS Integers, FiniteSets

CONSTANTS
  Tasks,         \* each runs one sender
  NoTask,
  Emails,        \* by idempotency key
  To,            \* email |-> the address it goes to
  TimeCritical,  \* emails with a send-by window
  Secret,        \* emails whose content is not kept
  Refusable,     \* emails whose send may fail
  Outcomes,      \* what delivery reports say
  MaxAttempts,   \* MAX_ATTEMPTS
  Rate,          \* emails a claim takes at most
  MaxAsks,       \* bound: times an email is asked for
  MaxReports,    \* bound: delivery reports
  MaxFaults      \* bound: throttles, failed writes, stops and slow sends

ASSUME OutboxAssumption ==
  /\ NoTask \notin Tasks
  /\ IsFiniteSet(Emails) /\ DOMAIN To = Emails
  /\ TimeCritical \subseteq Emails /\ Secret \subseteq Emails /\ Refusable \subseteq Emails
  /\ Outcomes \subseteq {"DELIVERED", "BOUNCED", "COMPLAINED", "FAILED"}
  /\ MaxAttempts \in Nat \ {0} /\ Rate \in Nat \ {0}
  /\ MaxAsks \in Nat /\ MaxReports \in Nat /\ MaxFaults \in Nat

VARIABLES
  row,         \* email |-> its row
  asked,       \* emails asked for and not recorded yet, with the skip worked out
  late,        \* emails past their send-by window
  suppressed,  \* addresses that bounced for good or complained
  pc,          \* task |-> where its sender is
  woken,       \* task |-> a wake came since its pass began
  batch,       \* task |-> email |-> the copy it claimed and how its send went
  accepted,    \* email |-> times the transport took it
  slips,       \* email |-> claims lost, or acceptances not written down
  owed,        \* email |-> the task its recording woke, until someone claims it
  asks, reports, faults   \* left

outbox == <<row, asked, late, suppressed>>
sender == <<pc, woken, batch>>
told == <<accepted, slips, owed>>
left == <<asks, reports, faults>>
vars == <<outbox, sender, told, left>>

Addresses == {To[m] : m \in Emails}
Unrecorded == [status |-> "NONE", attempts |-> 0, due |-> FALSE, content |-> FALSE, id |-> 0]
NotHeld == [at |-> "not held"]
Holds(t, m) == batch[t][m] # NotHeld
Held(t) == {m \in Emails : Holds(t, m)}
Waiting == {"QUEUED", "SENDING"}

(***************************************************************************)
(* Asking for an email: the suppression list is read, then the row is      *)
(* recorded, unless the key is there, and a queued one wakes the sender of *)
(* the task that recorded it.                                              *)
(***************************************************************************)
AskFor(m) ==
  /\ asks > 0 /\ asks' = asks - 1
  /\ asked' = asked \cup {[email |-> m, skip |-> To[m] \in suppressed]}
  /\ UNCHANGED <<row, late, suppressed, sender, told, reports, faults>>

Recorded(skip) ==
  [status |-> IF skip THEN "SKIPPED" ELSE "QUEUED", attempts |-> 0, due |-> ~skip,
   content |-> ~skip, id |-> 0]

RecordsAlways(m) == TRUE
Records(m) == row[m] = Unrecorded

Wake(t) ==
  /\ pc' = [pc EXCEPT ![t] = IF @ = "idle" THEN "sweep" ELSE @]
  /\ woken' = [woken EXCEPT ![t] = TRUE]

Record == \E a \in asked, t \in Tasks :
  /\ asked' = asked \ {a}
  /\ IF Records(a.email)
     THEN /\ row' = [row EXCEPT ![a.email] = Recorded(a.skip)]
          /\ IF a.skip THEN UNCHANGED <<pc, woken, owed>>
             ELSE Wake(t) /\ owed' = [owed EXCEPT ![a.email] = t]
     ELSE UNCHANGED <<row, pc, woken, owed>>
  /\ UNCHANGED <<late, suppressed, batch, accepted, slips, left>>

(***************************************************************************)
(* A sender's pass: the sweep that clears old content, then claims until a *)
(* batch comes back short, and again if a wake came meanwhile.             *)
(***************************************************************************)
Tick(t) ==
  /\ Wake(t)
  /\ UNCHANGED <<outbox, batch, told, left>>

\* Emails past the time content is kept; one still waiting then is rare.
ClearOldContent(t) == \E old \in SUBSET Emails :
  /\ pc[t] = "sweep"
  /\ \A m \in old : row[m].content
  /\ old # {} => faults > 0
  /\ faults' = IF old = {} THEN faults ELSE faults - 1
  /\ row' = [m \in Emails |-> IF m \in old THEN [row[m] EXCEPT !.content = FALSE] ELSE row[m]]
  /\ pc' = [pc EXCEPT ![t] = "claim"]
  /\ woken' = [woken EXCEPT ![t] = FALSE]
  /\ UNCHANGED <<asked, late, suppressed, batch, told, asks, reports>>

DueOfAnyStatus == {m \in Emails : row[m].status \in Waiting}
DueOnceQueued == {m \in Emails : row[m].status = "QUEUED" /\ row[m].due}
Due == {m \in Emails : row[m].status \in Waiting /\ row[m].due}

\* The time-critical first, at most Rate of them, none that another claim holds.
Claims ==
  {S \in SUBSET Due :
     /\ Cardinality(S) = IF Cardinality(Due) < Rate THEN Cardinality(Due) ELSE Rate
     /\ \A m \in S \ TimeCritical : Due \cap TimeCritical \subseteq S}

ClaimedUncounted(m) == [row[m] EXCEPT !.status = "SENDING", !.due = FALSE]
Claimed(m) == [row[m] EXCEPT !.status = "SENDING", !.attempts = @ + 1, !.due = FALSE]

ClaimDue(t) == \E S \in Claims :
  /\ pc[t] = "claim"
  /\ row' = [m \in Emails |-> IF m \in S THEN Claimed(m) ELSE row[m]]
  /\ batch' = [batch EXCEPT ![t] = [m \in Emails |-> IF m \in S
       THEN [at |-> "claimed", attempts |-> row'[m].attempts, content |-> row[m].content]
       ELSE NotHeld]]
  /\ pc' = [pc EXCEPT ![t] = IF Cardinality(S) < Rate THEN "last batch" ELSE "batch"]
  /\ owed' = [m \in Emails |-> IF m \in S THEN NoTask ELSE owed[m]]
  /\ UNCHANGED <<asked, late, suppressed, woken, accepted, slips, left>>

\* A claim that fails ends the pass; the next tick tries again.
ClaimFails(t) ==
  /\ pc[t] = "claim"
  /\ faults > 0 /\ faults' = faults - 1
  /\ pc' = [pc EXCEPT ![t] = "idle"]
  /\ owed' = [m \in Emails |-> IF owed[m] = t THEN NoTask ELSE owed[m]]
  /\ UNCHANGED <<outbox, woken, batch, accepted, slips, asks, reports>>

LooksAgainNever(t) == FALSE
LooksAgain(t) == woken[t]

EndBatch(t) ==
  /\ pc[t] \in {"batch", "last batch"} /\ Held(t) = {}
  /\ pc' = [pc EXCEPT ![t] = IF pc[t] = "batch" \/ LooksAgain(t) THEN "claim" ELSE "idle"]
  /\ woken' = [woken EXCEPT ![t] = woken[t] /\ pc[t] = "batch"]
  /\ UNCHANGED <<outbox, batch, told, left>>

(***************************************************************************)
(* One email of the batch. Every write names the row and nothing else.     *)
(***************************************************************************)
Now(t, m, at) == batch' = [batch EXCEPT ![t][m].at = at]
LetGo(t, m) == batch' = [batch EXCEPT ![t][m] = NotHeld]

ClearedNever(m) == row[m].content
Cleared(m) == row[m].content /\ m \notin Secret

MarkFailed(t, m, content) ==
  /\ row' = [row EXCEPT ![m].status = "FAILED", ![m].due = FALSE, ![m].content = content]
  /\ LetGo(t, m)
  /\ UNCHANGED <<asked, late, suppressed, pc, woken, told, left>>

GiveUp(t, m) ==
  /\ batch[t][m].at = "claimed"
  /\ \/ m \in late /\ MarkFailed(t, m, Cleared(m))
     \/ m \notin late /\ batch[t][m].attempts > MaxAttempts /\ MarkFailed(t, m, Cleared(m))
     \/ /\ m \notin late /\ batch[t][m].attempts <= MaxAttempts /\ ~batch[t][m].content
        /\ MarkFailed(t, m, row[m].content)

Sendable(t, m) ==
  /\ batch[t][m].at = "claimed"
  /\ m \notin late /\ batch[t][m].attempts <= MaxAttempts /\ batch[t][m].content

\* The give-up could not be written: it is handled as a failed send too.
GiveUpFails(t, m) ==
  /\ batch[t][m].at = "claimed" /\ ~Sendable(t, m)
  /\ faults > 0 /\ faults' = faults - 1
  /\ Now(t, m, "refused")
  /\ UNCHANGED <<outbox, pc, woken, told, asks, reports>>

Accept(t, m) ==
  /\ Sendable(t, m)
  /\ accepted' = [accepted EXCEPT ![m] = @ + 1]
  /\ batch' = [batch EXCEPT ![t][m] =
       [at |-> "accepted", attempts |-> @.attempts, content |-> @.content, id |-> accepted[m] + 1]]
  /\ UNCHANGED <<outbox, pc, woken, slips, owed, left>>

Refuse(t, m) ==
  /\ Sendable(t, m) /\ m \in Refusable
  /\ Now(t, m, "refused")
  /\ UNCHANGED <<outbox, pc, woken, told, left>>

\* A throttled send does not count as an attempt: it needs the bound.
Throttle(t, m) ==
  /\ Sendable(t, m)
  /\ faults > 0 /\ faults' = faults - 1
  /\ Now(t, m, "throttled")
  /\ UNCHANGED <<outbox, pc, woken, told, asks, reports>>

MarkSent(t, m) ==
  /\ batch[t][m].at = "accepted"
  /\ row' = [row EXCEPT ![m].status = "SENT", ![m].id = batch[t][m].id, ![m].due = FALSE,
                        ![m].content = Cleared(m)]
  /\ LetGo(t, m)
  /\ UNCHANGED <<asked, late, suppressed, pc, woken, told, left>>

\* The transport has it, but the write fails: it is handled as a failed send.
MarkSentFails(t, m) ==
  /\ batch[t][m].at = "accepted"
  /\ faults > 0 /\ faults' = faults - 1
  /\ slips' = [slips EXCEPT ![m] = @ + 1]
  /\ Now(t, m, "refused")
  /\ UNCHANGED <<outbox, pc, woken, accepted, owed, asks, reports>>

\* The wait may end past the window even when the window is still open.
MarkRetry(t, m) ==
  /\ batch[t][m].at = "refused"
  /\ batch[t][m].attempts < MaxAttempts /\ m \notin late
  /\ row' = [row EXCEPT ![m].status = "QUEUED", ![m].due = FALSE]
  /\ LetGo(t, m)
  /\ UNCHANGED <<asked, late, suppressed, pc, woken, told, left>>

MarkThrottled(t, m) ==
  /\ batch[t][m].at = "throttled" /\ m \notin late
  /\ row' = [row EXCEPT ![m].status = "QUEUED", ![m].due = FALSE, ![m].attempts = @ - 1]
  /\ LetGo(t, m)
  /\ UNCHANGED <<asked, late, suppressed, pc, woken, told, left>>

FailSend(t, m) ==
  /\ \/ batch[t][m].at = "refused" /\ (batch[t][m].attempts >= MaxAttempts \/ m \in TimeCritical)
     \/ batch[t][m].at = "throttled" /\ m \in TimeCritical
  /\ MarkFailed(t, m, Cleared(m))

\* A failure that cannot be recorded leaves the claim to lapse.
RecordFailureFails(t, m) ==
  /\ batch[t][m].at \in {"refused", "throttled"}
  /\ faults > 0 /\ faults' = faults - 1
  /\ LetGo(t, m)
  /\ UNCHANGED <<outbox, pc, woken, told, asks, reports>>

SendOne(t, m) ==
  \/ GiveUp(t, m) \/ GiveUpFails(t, m) \/ Accept(t, m) \/ Refuse(t, m) \/ Throttle(t, m)
  \/ MarkSent(t, m) \/ MarkSentFails(t, m) \/ MarkRetry(t, m) \/ MarkThrottled(t, m) \/ FailSend(t, m)
  \/ RecordFailureFails(t, m)

(***************************************************************************)
(* Time, stops and reports. A claim of a sender that is only slow lapses   *)
(* too. Reports come in any order, more than once, and before the sender   *)
(* has written the send down.                                              *)
(***************************************************************************)
TimeComes(m) ==
  /\ row[m].status \in Waiting /\ ~row[m].due
  /\ \A t \in Tasks : ~Holds(t, m)
  /\ row' = [row EXCEPT ![m].due = TRUE]
  /\ UNCHANGED <<asked, late, suppressed, sender, told, left>>

ClaimLapses(m) ==
  /\ row[m].status \in Waiting /\ ~row[m].due
  /\ \E t \in Tasks : Holds(t, m)
  /\ faults > 0 /\ faults' = faults - 1
  /\ row' = [row EXCEPT ![m].due = TRUE]
  /\ slips' = [slips EXCEPT ![m] = @ + 1]
  /\ UNCHANGED <<asked, late, suppressed, sender, accepted, owed, asks, reports>>

\* Once an email settled it no longer matters when its window ends.
WindowPasses(m) ==
  /\ m \in TimeCritical \ late /\ row[m].status \in Waiting
  /\ late' = late \cup {m}
  /\ UNCHANGED <<row, asked, suppressed, sender, told, left>>

TaskStops(t) ==
  /\ pc[t] # "idle"
  /\ faults > 0 /\ faults' = faults - 1
  /\ pc' = [pc EXCEPT ![t] = "idle"]
  /\ woken' = [woken EXCEPT ![t] = FALSE]
  /\ batch' = [batch EXCEPT ![t] = [m \in Emails |-> NotHeld]]
  /\ slips' = [m \in Emails |-> IF Holds(t, m) THEN slips[m] + 1 ELSE slips[m]]
  /\ owed' = [m \in Emails |-> IF owed[m] = t THEN NoTask ELSE owed[m]]
  /\ UNCHANGED <<outbox, accepted, asks, reports>>

DeliveryOutcomeFromAny(outcome) == {"SENT", "DELIVERED", "BOUNCED", "COMPLAINED"}
DeliveryOutcomeFrom(outcome) ==
  IF outcome \in {"BOUNCED", "COMPLAINED"} THEN {"SENT", "DELIVERED"} ELSE {"SENT"}

\* The row and then the suppression list are written; if the second write fails, the
\* report comes again. A report that changes nothing is left out, as are bounces that
\* are not for good.
Suppresses(outcome) == outcome \in {"BOUNCED", "COMPLAINED"}

Report == \E m \in Emails, outcome \in Outcomes :
  /\ \E id \in 1..accepted[m] :
       row' = IF row[m].id = id /\ row[m].status \in DeliveryOutcomeFrom(outcome)
              THEN [row EXCEPT ![m].status = outcome] ELSE row
  /\ \/ /\ suppressed' = IF Suppresses(outcome) THEN suppressed \cup {To[m]} ELSE suppressed
        /\ UNCHANGED faults
     \/ /\ Suppresses(outcome) /\ UNCHANGED suppressed
        /\ faults > 0 /\ faults' = faults - 1
  /\ <<row, suppressed>>' # <<row, suppressed>>
  /\ reports > 0 /\ reports' = reports - 1
  /\ UNCHANGED <<asked, late, sender, told, asks>>

Init ==
  /\ row = [m \in Emails |-> Unrecorded]
  /\ asked = {} /\ late = {} /\ suppressed = {}
  /\ pc = [t \in Tasks |-> "idle"]
  /\ woken = [t \in Tasks |-> FALSE]
  /\ batch = [t \in Tasks |-> [m \in Emails |-> NotHeld]]
  /\ accepted = [m \in Emails |-> 0]
  /\ slips = [m \in Emails |-> 0]
  /\ owed = [m \in Emails |-> NoTask]
  /\ asks = MaxAsks /\ reports = MaxReports /\ faults = MaxFaults

Pass(t) ==
  \/ Tick(t) \/ ClearOldContent(t) \/ ClaimDue(t) \/ EndBatch(t)
  \/ \E m \in Emails : SendOne(t, m)

Next ==
  \/ Record
  \/ \E m \in Emails : AskFor(m) \/ TimeComes(m) \/ ClaimLapses(m) \/ WindowPasses(m)
  \/ \E t \in Tasks : Pass(t) \/ ClaimFails(t) \/ TaskStops(t)
  \/ Report

Spec == Init /\ [][Next]_vars

(***************************************************************************)
(* Every task's timer ticks, so its sender goes on; a send ends, with an   *)
(* error if need be; and time passes.                                      *)
(***************************************************************************)
Fairness ==
  /\ \A t \in Tasks : WF_vars(Pass(t))
  /\ \A m \in Emails : WF_vars(TimeComes(m))
FairSpec == Spec /\ Fairness

-----------------------------------------------------------------------------
Given == {"SENT", "DELIVERED", "BOUNCED", "COMPLAINED"}
Settled == Given \cup {"FAILED", "SKIPPED"}
Copy ==
  [at : {"claimed", "refused", "throttled"}, attempts : Nat, content : BOOLEAN]
  \cup [at : {"accepted", "refused"}, attempts : Nat, content : BOOLEAN, id : Nat]
Row == [status : Waiting \cup Settled \cup {"NONE"}, attempts : Nat, due : BOOLEAN,
        content : BOOLEAN, id : Nat]

(***************************************************************************)
(* Every variable keeps its type: also no throttle counts a try below none.*)
(***************************************************************************)
TypeOK ==
  /\ row \in [Emails -> Row]
  /\ asked \subseteq [email : Emails, skip : BOOLEAN]
  /\ late \subseteq TimeCritical /\ suppressed \subseteq Addresses
  /\ pc \in [Tasks -> {"idle", "sweep", "claim", "batch", "last batch"}]
  /\ woken \in [Tasks -> BOOLEAN]
  /\ batch \in [Tasks -> [Emails -> Copy \cup {NotHeld}]]
  /\ accepted \in [Emails -> Nat] /\ slips \in [Emails -> Nat]
  /\ owed \in [Emails -> Tasks \cup {NoTask}]
  /\ asks \in 0..MaxAsks /\ reports \in 0..MaxReports /\ faults \in 0..MaxFaults

(***************************************************************************)
(* An email goes out twice only when a task stopped or was too slow while  *)
(* it held the claim, or could not write the send down: two senders, a     *)
(* retry and a second recording of the key never do it by themselves.      *)
(***************************************************************************)
TwiceOnlyAfterASlip ==
  \A m \in Emails : accepted[m] <= 1 + slips[m]

(***************************************************************************)
(* Unless its claim slipped, the outbox says what happened to an email:    *)
(* one it calls sent was taken by the transport, and one it skipped, is to *)
(* try again or gave up on itself was not.                                 *)
(***************************************************************************)
OutboxTellsTheTruth ==
  \A m \in Emails : slips[m] = 0 =>
    /\ row[m].status \in Given => accepted[m] = 1
    /\ row[m].status \in {"SKIPPED", "QUEUED"} => accepted[m] = 0
    /\ row[m].status = "FAILED" /\ row[m].id = 0 => accepted[m] = 0

(***************************************************************************)
(* A reset link or another secret is not kept once its email is sent or    *)
(* given up on, whoever wrote that down.                                   *)
(***************************************************************************)
SecretsAreCleared ==
  \A m \in Secret : row[m].status \in Settled => ~row[m].content

(***************************************************************************)
(* An email queued while a sender is at work is not left for the next      *)
(* tick: the sender its recording woke is still to look.                   *)
(***************************************************************************)
NoWakeLost ==
  \A m \in Emails : owed[m] # NoTask => pc[owed[m]] # "idle"

(***************************************************************************)
(* Reports in any order never move an email backwards: a bounce, complaint *)
(* or rejection stands, unless the email's claim slipped.                  *)
(***************************************************************************)
Reported(m) == row[m].status \in {"BOUNCED", "COMPLAINED"} \/ (row[m].status = "FAILED" /\ row[m].id # 0)
ReportsStand ==
  [][\A m \in Emails : Reported(m) /\ slips[m] = 0 => row'[m].status = row[m].status]_vars

(***************************************************************************)
(* Every recorded email comes to its end and stays there, whatever stops,  *)
(* failures and lapsed claims there were.                                  *)
(***************************************************************************)
EmailsSettle ==
  <>[](\A m \in Emails : row[m] = Unrecorded \/ row[m].status \in Settled)
=============================================================================
