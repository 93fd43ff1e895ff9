-------------------------- MODULE EmailOutbox_proofs --------------------------
(***************************************************************************)
(* What holds of EmailOutbox for any tasks, emails, rates and limits,      *)
(* proved from the inductive invariant OutboxInv. Its heart is a count:    *)
(* what the transport took of an email, what the tasks holding it may      *)
(* still hand over, and the claim its row still allows are together one    *)
(* more than its slips at most.                                            *)
(***************************************************************************)
EXTENDS EmailOutbox, FiniteSetTheorems, TLAPS

Holders(m) == {t \in Tasks : Holds(t, m)}
Trying(m) == {t \in Tasks : batch[t][m].at \in {"claimed", "refused", "throttled"}}
ToCome(m) == row[m].status \in Waiting /\ (row[m].due \/ Holders(m) = {})

(* A task holds emails while it works on a batch only. *)
Resting == \A t \in Tasks, m \in Emails :
  pc[t] \in {"idle", "sweep", "claim"} => ~Holds(t, m)

(* What was and what may still be handed over; every holder counted a try. *)
Counted(m) ==
  /\ row[m].status = "NONE" => row[m] = Unrecorded /\ accepted[m] = 0 /\ Holders(m) = {}
  /\ IsFiniteSet(Holders(m)) /\ Cardinality(Holders(m)) <= row[m].attempts
  /\ accepted[m] + Cardinality(Trying(m)) + (IF ToCome(m) THEN 1 ELSE 0) <= 1 + slips[m]

(* An email without slips is held once at most, and its row is true. *)
Truthful(m) == slips[m] = 0 =>
  /\ \A t, u \in Holders(m) : t = u
  /\ \A t \in Holders(m) :
       /\ row[m].status = "SENDING" /\ ~row[m].due
       /\ accepted[m] = IF batch[t][m].at = "accepted" THEN 1 ELSE 0
  /\ Holders(m) = {} /\ row[m].status \in Waiting => accepted[m] = 0
  /\ row[m].status \in Given => accepted[m] = 1
  /\ row[m].status = "SKIPPED" => accepted[m] = 0
  /\ row[m].status = "FAILED" /\ row[m].id = 0 => accepted[m] = 0

(* Content that was cleared stays cleared, whatever copy says. *)
Erased(m) ==
  /\ m \in Secret /\ row[m].status \in Settled => ~row[m].content
  /\ \A t \in Holders(m) : ~batch[t][m].content => ~row[m].content

(* An email a wake is owed for is due, and the task is still to claim. *)
Owing == \A m \in Emails : owed[m] # NoTask =>
  /\ row[m].status = "QUEUED" /\ row[m].due /\ Holders(m) = {}
  /\ \/ pc[owed[m]] \in {"sweep", "claim", "batch"}
     \/ pc[owed[m]] = "last batch" /\ woken[owed[m]]

EmailInv(m) == Counted(m) /\ Truthful(m) /\ Erased(m)

OutboxInv == TypeOK /\ Resting /\ Owing /\ \A m \in Emails : EmailInv(m)

-----------------------------------------------------------------------------
(* Types. *)

LEMMA CopyFields ==
  ASSUME NEW x \in Copy \cup {NotHeld}
  PROVE  /\ x # NotHeld <=> x \in Copy
         /\ x.at = "not held" <=> x = NotHeld
         /\ x \in Copy => /\ x.at \in {"claimed", "accepted", "refused", "throttled"}
                          /\ x.attempts \in Nat /\ x.content \in BOOLEAN
<1>1. NotHeld.at = "not held"
  BY DEF NotHeld
<1>2. ASSUME x \in Copy
      PROVE  /\ x.at \in {"claimed", "accepted", "refused", "throttled"}
             /\ x.attempts \in Nat /\ x.content \in BOOLEAN
  BY <1>2 DEF Copy
<1> QED
  BY <1>1, <1>2

LEMMA AcceptedId == ASSUME NEW x \in Copy, x.at = "accepted" PROVE x.id \in Nat
  BY DEF Copy

(* A copy moves on to another stage. *)
LEMMA CopyMoves ==
  ASSUME NEW x \in Copy
  PROVE  /\ [x EXCEPT !.at = "refused"] \in Copy
         /\ x.at = "claimed" => [x EXCEPT !.at = "throttled"] \in Copy
         /\ \A n \in Nat :
              [at |-> "accepted", attempts |-> x.attempts, content |-> x.content, id |-> n] \in Copy
BY DEF Copy

LEMMA SendTyped ==
  ASSUME TypeOK, NEW t \in Tasks, NEW m \in Emails, SendOne(t, m),
         Holds(t, m) => row[m].attempts # 0
  PROVE  TypeOK'
<1>t. /\ row[m] \in Row /\ batch[t][m] \in Copy \cup {NotHeld} /\ MaxFaults \in Nat
      /\ batch[t] \in [Emails -> Copy \cup {NotHeld}] /\ accepted[m] \in Nat /\ slips[m] \in Nat
  <2>1. batch \in [Tasks -> [Emails -> Copy \cup {NotHeld}]]
    BY DEF TypeOK
  <2>2. batch[t] \in [Emails -> Copy \cup {NotHeld}]
    BY <2>1
  <2>3. batch[t][m] \in Copy \cup {NotHeld}
    BY <2>2
  <2>4. row[m] \in Row /\ MaxFaults \in Nat /\ accepted[m] \in Nat /\ slips[m] \in Nat
    BY OutboxAssumption DEF TypeOK
  <2> QED
    BY <2>2, <2>3, <2>4
<1>a. /\ faults \in 0..MaxFaults /\ accepted \in [Emails -> Nat] /\ slips \in [Emails -> Nat]
      /\ row \in [Emails -> Row]
  BY DEF TypeOK
<1>c. Cleared(m) \in BOOLEAN /\ row[m].content \in BOOLEAN
  BY <1>t DEF Cleared, Row
<1>r. ASSUME row' = row \/ (\E x \in Row : row' = [row EXCEPT ![m] = x]) PROVE row' \in [Emails -> Row]
  BY <1>r DEF TypeOK
<1>b. ASSUME NEW x \in Copy \cup {NotHeld}, batch' = [batch EXCEPT ![t][m] = x]
      PROVE  batch' \in [Tasks -> [Emails -> Copy \cup {NotHeld}]]
  <2>1. [batch[t] EXCEPT ![m] = x] \in [Emails -> Copy \cup {NotHeld}]
    BY <1>t, <1>b
  <2>2. batch' = [batch EXCEPT ![t] = [batch[t] EXCEPT ![m] = x]]
    BY <1>b
  <2>3. batch \in [Tasks -> [Emails -> Copy \cup {NotHeld}]]
    BY DEF TypeOK
  <2> HIDE DEF Copy
  <2> QED
    BY <2>1, <2>2, <2>3
<1>l. ASSUME LetGo(t, m) PROVE batch' \in [Tasks -> [Emails -> Copy \cup {NotHeld}]]
  BY <1>b, <1>l DEF LetGo
<1>f. ASSUME NEW content \in BOOLEAN, MarkFailed(t, m, content) PROVE TypeOK'
  <2>1. row'[m] \in Row /\ row' = [row EXCEPT ![m] = row'[m]]
    BY <1>t, <1>f DEF MarkFailed, Row, TypeOK, Settled
  <2>2. row' \in [Emails -> Row] /\ batch' \in [Tasks -> [Emails -> Copy \cup {NotHeld}]]
    BY <1>f, <1>l, <1>r, <2>1 DEF MarkFailed
  <2> QED
    BY <1>f, <2>2 DEF MarkFailed, TypeOK, told, left
<1>1. CASE GiveUp(t, m)
  BY <1>1, <1>c, <1>f DEF GiveUp
<1>2. CASE FailSend(t, m)
  BY <1>2, <1>c, <1>f DEF FailSend
<1>k. ASSUME batch[t][m].at # "not held" PROVE batch[t][m] \in Copy
  BY <1>t, <1>k, CopyFields
<1>n. ASSUME batch[t][m] \in Copy, Now(t, m, "refused")
      PROVE  batch' \in [Tasks -> [Emails -> Copy \cup {NotHeld}]]
  <2>1. batch' = [batch EXCEPT ![t][m] = [batch[t][m] EXCEPT !.at = "refused"]]
    BY <1>n, <1>t DEF Now
  <2> QED
    BY <1>b, <1>n, <2>1, CopyMoves
<1>3. CASE GiveUpFails(t, m) \/ Refuse(t, m) \/ MarkSentFails(t, m)
  <2>1. batch' \in [Tasks -> [Emails -> Copy \cup {NotHeld}]]
    BY <1>3, <1>k, <1>n DEF GiveUpFails, Refuse, Sendable, MarkSentFails
  <2>2. faults' \in 0..MaxFaults
    BY <1>3, <1>t, <1>a DEF GiveUpFails, Refuse, MarkSentFails, left
  <2>3. slips' \in [Emails -> Nat]
    BY <1>3, <1>t, <1>a DEF GiveUpFails, Refuse, MarkSentFails, told
  <2> QED
    BY <1>3, <2>1, <2>2, <2>3 DEF GiveUpFails, Refuse, MarkSentFails, TypeOK, outbox, told, left
<1>4. CASE Accept(t, m)
  <2>1. batch[t][m] \in Copy
    BY <1>4, <1>k DEF Accept, Sendable
  <2> DEFINE x == [at |-> "accepted", attempts |-> batch[t][m].attempts,
                   content |-> batch[t][m].content, id |-> accepted[m] + 1]
  <2>2. x \in Copy
    <3>1. accepted[m] + 1 \in Nat
      BY <1>t
    <3> QED
      BY <3>1, <2>1, CopyMoves
  <2>3. batch' = [batch EXCEPT ![t][m] = x]
    BY <1>4 DEF Accept
  <2> HIDE DEF x
  <2>4. batch' \in [Tasks -> [Emails -> Copy \cup {NotHeld}]]
    BY <1>b, <2>2, <2>3
  <2>5. accepted' \in [Emails -> Nat]
    BY <1>4, <1>a, <1>t DEF Accept
  <2> QED
    BY <1>4, <2>4, <2>5 DEF Accept, TypeOK, outbox, left
<1>5. CASE Throttle(t, m)
  <2>1. batch[t][m] \in Copy /\ batch[t][m].at = "claimed"
    BY <1>5, <1>k DEF Throttle, Sendable
  <2>2. batch' = [batch EXCEPT ![t][m] = [batch[t][m] EXCEPT !.at = "throttled"]]
    BY <1>5, <1>t DEF Throttle, Now
  <2>3. batch' \in [Tasks -> [Emails -> Copy \cup {NotHeld}]]
    BY <1>b, <2>1, <2>2, CopyMoves
  <2>4. faults' \in 0..MaxFaults
    BY <1>5, <1>t, <1>a DEF Throttle
  <2> QED
    BY <1>5, <2>3, <2>4 DEF Throttle, TypeOK, outbox, told
<1>6. CASE MarkSent(t, m)
  <2>1. batch[t][m].id \in Nat
    BY <1>6, <1>k, AcceptedId DEF MarkSent
  <2>2. row'[m] \in Row /\ row' = [row EXCEPT ![m] = row'[m]]
    BY <1>6, <1>t, <1>c, <2>1 DEF MarkSent, Row, TypeOK, Settled, Given
  <2>3. row' \in [Emails -> Row] /\ batch' \in [Tasks -> [Emails -> Copy \cup {NotHeld}]]
    BY <1>6, <1>l, <1>r, <2>2 DEF MarkSent
  <2> QED
    BY <1>6, <2>3 DEF MarkSent, TypeOK, told, left
<1>7. CASE MarkRetry(t, m)
  <2>1. row'[m] \in Row /\ row' = [row EXCEPT ![m] = row'[m]]
    BY <1>7, <1>t DEF MarkRetry, Row, TypeOK, Waiting
  <2>2. row' \in [Emails -> Row] /\ batch' \in [Tasks -> [Emails -> Copy \cup {NotHeld}]]
    BY <1>7, <1>l, <1>r, <2>1 DEF MarkRetry
  <2> QED
    BY <1>7, <2>2 DEF MarkRetry, TypeOK, told, left
<1>8. CASE MarkThrottled(t, m)
  <2>0. row[m].attempts \in Nat \ {0}
    <3>1. Holds(t, m)
      BY <1>8, <1>t, CopyFields DEF MarkThrottled, Holds
    <3> QED
      BY <3>1, <1>t DEF Row
  <2>1. row'[m] \in Row /\ row' = [row EXCEPT ![m] = row'[m]]
    <3>1. row[m].attempts - 1 \in Nat
      BY <2>0
    <3>2. row'[m] = [row[m] EXCEPT !.status = "QUEUED", !.due = FALSE, !.attempts = row[m].attempts - 1]
      BY <1>8, <1>a DEF MarkThrottled
    <3>3. row'[m] \in Row
      BY <3>1, <3>2, <1>t DEF Row, Waiting
    <3> QED
      BY <1>8, <1>a, <3>3 DEF MarkThrottled
  <2>2. row' \in [Emails -> Row] /\ batch' \in [Tasks -> [Emails -> Copy \cup {NotHeld}]]
    BY <1>8, <1>l, <1>r, <2>1 DEF MarkThrottled
  <2> QED
    BY <1>8, <2>2 DEF MarkThrottled, TypeOK, told, left
<1>9. CASE RecordFailureFails(t, m)
  <2>0. faults' \in 0..MaxFaults
    BY <1>9, <1>t, <1>a DEF RecordFailureFails
  <2>1. batch' \in [Tasks -> [Emails -> Copy \cup {NotHeld}]]
    BY <1>9, <1>l DEF RecordFailureFails
  <2> QED
    BY <1>9, <2>0, <2>1 DEF RecordFailureFails, TypeOK, outbox, told
<1> QED
  BY <1>1, <1>2, <1>3, <1>4, <1>5, <1>6, <1>7, <1>8, <1>9 DEF SendOne

-----------------------------------------------------------------------------
(* One email at a time. *)

(* Numbers the sums of Counted are made of. *)
LEMMA HoldersCounted ==
  ASSUME TypeOK, NEW m \in Emails, Counted(m)
  PROVE  /\ Trying(m) \subseteq Holders(m)
         /\ IsFiniteSet(Trying(m)) /\ Cardinality(Trying(m)) \in Nat
         /\ Cardinality(Holders(m)) \in Nat
         /\ accepted[m] \in Nat /\ slips[m] \in Nat /\ row[m] \in Row
<1>0. NotHeld.at \notin {"claimed", "refused", "throttled"}
  BY DEF NotHeld
<1>1. Trying(m) \subseteq Holders(m)
  BY <1>0 DEF Trying, Holders, Holds
<1>2. IsFiniteSet(Holders(m))
  BY DEF Counted
<1>3. IsFiniteSet(Trying(m))
  BY <1>1, <1>2, FS_Subset
<1>4. accepted[m] \in Nat /\ slips[m] \in Nat /\ row[m] \in Row
  BY DEF TypeOK
<1> QED
  BY <1>1, <1>2, <1>3, <1>4, FS_CardinalityType

(* Nothing that concerns the email changes, but its content may be cleared. *)
LEMMA Steady ==
  ASSUME TypeOK, NEW m \in Emails, EmailInv(m),
         \A t \in Tasks : batch'[t][m] = batch[t][m],
         accepted'[m] = accepted[m], slips'[m] = slips[m],
         \/ row'[m] = row[m]
         \/ row[m].content /\ row'[m] = [row[m] EXCEPT !.content = FALSE]
  PROVE  EmailInv(m)' /\ Holders(m)' = Holders(m)
<1>1. Holders(m)' = Holders(m) /\ Trying(m)' = Trying(m)
  BY DEF Holders, Holds, Trying
<1>2. row[m] \in Row
  BY DEF TypeOK
<1>3. /\ row'[m].status = row[m].status /\ row'[m].due = row[m].due /\ row'[m].id = row[m].id
      /\ row'[m].attempts = row[m].attempts
      /\ ~row[m].content => ~row'[m].content
  BY <1>2 DEF Row
<1>4. Counted(m)'
  <2>1. ToCome(m)' <=> ToCome(m)
    BY <1>1, <1>3 DEF ToCome
  <2>2. row'[m].status = "NONE" => row'[m] = Unrecorded
    BY <1>3 DEF Counted, EmailInv, Unrecorded
  <2>3. (IF ToCome(m)' THEN 1 ELSE 0) = IF ToCome(m) THEN 1 ELSE 0
    BY <2>1
  <2>4. accepted'[m] + Cardinality(Trying(m)') + (IF ToCome(m)' THEN 1 ELSE 0) <= 1 + slips'[m]
    BY <1>1, <2>3 DEF Counted, EmailInv
  <2>5. IsFiniteSet(Holders(m)') /\ Cardinality(Holders(m)') <= row'[m].attempts
    BY <1>1, <1>3 DEF Counted, EmailInv
  <2>6. row'[m].status = "NONE" => accepted'[m] = 0 /\ Holders(m)' = {}
    <3>1. row[m].status = "NONE" => accepted[m] = 0 /\ Holders(m) = {}
      BY DEF Counted, EmailInv
    <3> QED
      BY <1>1, <1>3, <3>1
  <2> QED
    BY <2>2, <2>4, <2>5, <2>6 DEF Counted
<1>5. Truthful(m)'
  BY <1>1, <1>3 DEF Truthful, EmailInv, Holders
<1>6. Erased(m)'
  BY <1>1, <1>3 DEF Erased, EmailInv, Holders
<1> QED
  BY <1>1, <1>4, <1>5, <1>6 DEF EmailInv

(* A task lets go of an email it holds. *)
LEMMA LettingGo ==
  ASSUME TypeOK, NEW t \in Tasks, NEW m \in Emails, EmailInv(m), Holds(t, m),
         batch'[t][m] = NotHeld, \A u \in Tasks \ {t} : batch'[u][m] = batch[u][m]
  PROVE  /\ Holders(m)' = Holders(m) \ {t} /\ Trying(m)' = Trying(m) \ {t}
         /\ t \in Holders(m) /\ IsFiniteSet(Holders(m)')
         /\ Cardinality(Holders(m)') = Cardinality(Holders(m)) - 1
         /\ t \in Trying(m) => Cardinality(Trying(m)') = Cardinality(Trying(m)) - 1
         /\ t \notin Trying(m) => Trying(m)' = Trying(m)
         /\ slips[m] = 0 => Holders(m)' = {}
<1>1. t \in Holders(m)
  BY DEF Holders
<1>0. NotHeld.at \notin {"claimed", "refused", "throttled"}
  BY DEF NotHeld
<1>2. Holders(m)' = Holders(m) \ {t} /\ Trying(m)' = Trying(m) \ {t}
  BY <1>0 DEF Holders, Holds, Trying
<1>3. IsFiniteSet(Holders(m)) /\ IsFiniteSet(Trying(m))
  BY HoldersCounted DEF EmailInv, Counted
<1>4. /\ IsFiniteSet(Holders(m) \ {t})
      /\ Cardinality(Holders(m) \ {t}) = Cardinality(Holders(m)) - 1
  BY <1>1, <1>3, FS_RemoveElement
<1>5. t \in Trying(m) => Cardinality(Trying(m) \ {t}) = Cardinality(Trying(m)) - 1
  BY <1>3, FS_RemoveElement
<1>6. slips[m] = 0 => Holders(m) \ {t} = {}
  BY <1>1 DEF EmailInv, Truthful
<1> QED
  BY <1>1, <1>2, <1>4, <1>5, <1>6

(* An email a task lets go of, with what may be written of it then. *)
LEMMA Gone ==
  ASSUME TypeOK, NEW t \in Tasks, NEW m \in Emails, EmailInv(m), Holds(t, m),
         batch'[t][m] = NotHeld, \A u \in Tasks \ {t} : batch'[u][m] = batch[u][m],
         accepted'[m] = accepted[m], slips'[m] = slips[m], row'[m] \in Row,
         row'[m].status # "NONE",
         row'[m].attempts >= row[m].attempts - 1,
         t \in Trying(m) \/ row'[m].status \notin Waiting,
         slips[m] = 0 => /\ row'[m].status # "SKIPPED"
                         /\ row'[m].status \in Given <=> batch[t][m].at = "accepted",
         row'[m].content => row[m].content,
         m \in Secret /\ row'[m].status \in Settled => ~row'[m].content
  PROVE  EmailInv(m)'
<1>1. /\ Holders(m)' = Holders(m) \ {t} /\ Trying(m)' = Trying(m) \ {t}
      /\ t \in Holders(m) /\ IsFiniteSet(Holders(m)')
      /\ Cardinality(Holders(m)') = Cardinality(Holders(m)) - 1
      /\ t \in Trying(m) => Cardinality(Trying(m)') = Cardinality(Trying(m)) - 1
      /\ t \notin Trying(m) => Trying(m)' = Trying(m)
      /\ slips[m] = 0 => Holders(m)' = {}
  BY LettingGo
<1>2. /\ Cardinality(Trying(m)) \in Nat /\ Cardinality(Holders(m)) \in Nat
      /\ accepted[m] \in Nat /\ slips[m] \in Nat /\ row[m] \in Row
  BY HoldersCounted DEF EmailInv
<1>3. row[m].attempts \in Nat /\ row'[m].attempts \in Nat
  BY <1>2 DEF Row
<1>4. Counted(m)'
  <2>1. Cardinality(Holders(m)') <= row'[m].attempts
    BY <1>1, <1>2, <1>3 DEF Counted, EmailInv
  <2>2. accepted[m] + Cardinality(Trying(m)) <= 1 + slips[m]
    BY <1>2 DEF Counted, EmailInv
  <2>3. accepted'[m] + Cardinality(Trying(m)') + (IF ToCome(m)' THEN 1 ELSE 0) <= 1 + slips'[m]
    <3>1. CASE t \in Trying(m)
      <4>1. Cardinality(Trying(m)') = Cardinality(Trying(m)) - 1
        BY <1>1, <3>1
      <4> QED
        BY <1>2, <2>2, <4>1
    <3>2. CASE t \notin Trying(m)
      <4>1. Trying(m)' = Trying(m) /\ ~ToCome(m)'
        BY <1>1, <3>2 DEF ToCome
      <4> QED
        BY <1>2, <2>2, <4>1
    <3> QED
      BY <3>1, <3>2
  <2> QED
    BY <1>1, <2>1, <2>3 DEF Counted
<1>5. Truthful(m)'
  <2>1. SUFFICES ASSUME slips[m] = 0
                 PROVE  /\ Holders(m)' = {}
                        /\ accepted'[m] = IF row'[m].status \in Given THEN 1 ELSE 0
    BY DEF Truthful, Given, Waiting, Holders
  <2>2. accepted[m] = IF batch[t][m].at = "accepted" THEN 1 ELSE 0
    BY <1>1, <2>1 DEF EmailInv, Truthful
  <2> QED
    BY <1>1, <2>1, <2>2
<1>6. Erased(m)'
  <2>1. \A u \in Holders(m)' : u \in Holders(m) /\ batch'[u][m] = batch[u][m]
    BY <1>1 DEF Holders
  <2>2. \A u \in Holders(m) : ~batch[u][m].content => ~row[m].content
    BY DEF EmailInv, Erased
  <2> QED
    BY <2>1, <2>2 DEF Erased
<1> QED
  BY <1>4, <1>5, <1>6 DEF EmailInv

(* A copy that moves on and stays in the running, or comes back after a failed write. *)
LEMMA Moved ==
  ASSUME TypeOK, NEW t \in Tasks, NEW m \in Emails, EmailInv(m), Holds(t, m),
         batch'[t][m].at \in {"refused", "throttled"}, batch'[t][m].content = batch[t][m].content,
         batch'[t][m] # NotHeld, \A u \in Tasks \ {t} : batch'[u][m] = batch[u][m],
         accepted'[m] = accepted[m], row'[m] = row[m],
         \/ t \in Trying(m) /\ slips'[m] = slips[m]
         \/ slips'[m] = slips[m] + 1
  PROVE  EmailInv(m)'
<1>1. Holders(m)' = Holders(m) /\ t \in Holders(m)
  BY DEF Holders, Holds
<1>2. Trying(m)' = Trying(m) \cup {t}
  BY DEF Trying
<1>3. /\ Cardinality(Trying(m)) \in Nat /\ Cardinality(Holders(m)) \in Nat
      /\ accepted[m] \in Nat /\ slips[m] \in Nat /\ IsFiniteSet(Trying(m))
  BY HoldersCounted DEF EmailInv
<1>4. /\ t \in Trying(m) => Trying(m)' = Trying(m)
      /\ Cardinality(Trying(m)') <= Cardinality(Trying(m)) + 1 /\ Cardinality(Trying(m)') \in Nat
  <2>1. /\ IsFiniteSet(Trying(m) \cup {t})
        /\ Cardinality(Trying(m) \cup {t}) =
             IF t \in Trying(m) THEN Cardinality(Trying(m)) ELSE Cardinality(Trying(m)) + 1
    BY <1>3, FS_AddElement
  <2> QED
    BY <1>2, <1>3, <2>1
<1>5. ToCome(m)' <=> ToCome(m)
  BY <1>1 DEF ToCome
<1>6. Counted(m)'
  <2>1. accepted[m] + Cardinality(Trying(m)) + (IF ToCome(m) THEN 1 ELSE 0) <= 1 + slips[m]
    BY DEF EmailInv, Counted
  <2>2. accepted'[m] + Cardinality(Trying(m)') + (IF ToCome(m)' THEN 1 ELSE 0) <= 1 + slips'[m]
    <3>1. CASE t \in Trying(m) /\ slips'[m] = slips[m]
      BY <1>3, <1>4, <1>5, <2>1, <3>1
    <3>2. CASE slips'[m] = slips[m] + 1
      BY <1>3, <1>4, <1>5, <2>1, <3>2
    <3> QED
      BY <3>1, <3>2
  <2> QED
    BY <1>1, <2>2 DEF EmailInv, Counted
<1>7. Truthful(m)'
  <2>1. SUFFICES ASSUME slips'[m] = 0 PROVE Truthful(m)'
    BY DEF Truthful
  <2>2. t \in Trying(m) /\ slips[m] = 0
    BY <1>3, <2>1
  <2>3. batch[t][m].at # "accepted"
    BY <2>2 DEF Trying
  <2>4. \A u \in Holders(m) : batch'[u][m].at = "accepted" <=> batch[u][m].at = "accepted"
    BY <2>3 DEF Holders
  <2> QED
    BY <1>1, <2>2, <2>4 DEF EmailInv, Truthful
<1>8. Erased(m)'
  <2>1. \A u \in Holders(m) : batch'[u][m].content = batch[u][m].content
    BY DEF Holders
  <2> QED
    BY <1>1, <2>1 DEF EmailInv, Erased
<1> QED
  BY <1>6, <1>7, <1>8 DEF EmailInv

(* The transport takes an email. *)
LEMMA Taken ==
  ASSUME TypeOK, NEW t \in Tasks, NEW m \in Emails, EmailInv(m), Holds(t, m), t \in Trying(m),
         batch'[t][m].at = "accepted", batch'[t][m].content = batch[t][m].content,
         batch'[t][m] # NotHeld, \A u \in Tasks \ {t} : batch'[u][m] = batch[u][m],
         accepted'[m] = accepted[m] + 1, row'[m] = row[m], slips'[m] = slips[m]
  PROVE  EmailInv(m)'
<1>1. Holders(m)' = Holders(m) /\ t \in Holders(m)
  BY DEF Holders, Holds
<1>2. Trying(m)' = Trying(m) \ {t}
  BY DEF Trying
<1>3. /\ Cardinality(Trying(m)) \in Nat /\ Cardinality(Holders(m)) \in Nat
      /\ accepted[m] \in Nat /\ slips[m] \in Nat /\ IsFiniteSet(Trying(m))
  BY HoldersCounted DEF EmailInv
<1>4. Cardinality(Trying(m)') = Cardinality(Trying(m)) - 1
  BY <1>2, <1>3, FS_RemoveElement
<1>5. ToCome(m)' <=> ToCome(m)
  BY <1>1 DEF ToCome
<1>6. Counted(m)'
  <2>1. accepted[m] + Cardinality(Trying(m)) + (IF ToCome(m) THEN 1 ELSE 0) <= 1 + slips[m]
    BY DEF EmailInv, Counted
  <2>2. accepted'[m] + Cardinality(Trying(m)') + (IF ToCome(m)' THEN 1 ELSE 0) <= 1 + slips'[m]
    BY <1>3, <1>4, <1>5, <2>1
  <2>3. row[m].status # "NONE"
    BY <1>1 DEF EmailInv, Counted
  <2> QED
    BY <1>1, <2>2, <2>3 DEF EmailInv, Counted
<1>7. Truthful(m)'
  <2>1. SUFFICES ASSUME slips[m] = 0 PROVE Truthful(m)'
    BY DEF Truthful
  <2>2. batch[t][m].at # "accepted"
    BY DEF Trying
  <2>3. /\ \A u, v \in Holders(m) : u = v
        /\ accepted[m] = 0 /\ row[m].status = "SENDING" /\ ~row[m].due
    BY <1>1, <2>1, <2>2 DEF EmailInv, Truthful
  <2>4. \A u \in Holders(m) : u = t
    BY <1>1, <2>3
  <2> QED
    BY <1>1, <2>1, <2>3, <2>4 DEF Truthful, Given
<1>8. Erased(m)'
  <2>1. \A u \in Holders(m) : batch'[u][m].content = batch[u][m].content
    BY DEF Holders
  <2> QED
    BY <1>1, <2>1 DEF EmailInv, Erased
<1> QED
  BY <1>6, <1>7, <1>8 DEF EmailInv

-----------------------------------------------------------------------------
(* The sends. *)

(* A sender writes of the email it handles alone. *)
LEMMA SendWrites ==
  ASSUME TypeOK, NEW t \in Tasks, NEW m \in Emails, SendOne(t, m)
  PROVE  /\ Holds(t, m) /\ UNCHANGED <<pc, woken, owed>>
         /\ \E x \in Copy \cup {NotHeld} : batch' = [batch EXCEPT ![t][m] = x]
         /\ \A n \in Emails \ {m} :
              row'[n] = row[n] /\ accepted'[n] = accepted[n] /\ slips'[n] = slips[n]
<1>t. /\ row \in [Emails -> Row] /\ accepted \in [Emails -> Nat] /\ slips \in [Emails -> Nat]
      /\ batch \in [Tasks -> [Emails -> Copy \cup {NotHeld}]]
  BY DEF TypeOK
<1>b. batch[t] \in [Emails -> Copy \cup {NotHeld}]
  BY <1>t
<1>x. batch[t][m] \in Copy \cup {NotHeld}
  BY <1>b
<1>a. ASSUME NEW at \in {"claimed", "accepted", "refused", "throttled"}, batch[t][m].at = at
      PROVE  Holds(t, m) /\ batch[t][m] \in Copy
  BY <1>a, <1>x, CopyFields DEF Holds
<1>l. LetGo(t, m) => \E x \in Copy \cup {NotHeld} : batch' = [batch EXCEPT ![t][m] = x]
  BY DEF LetGo
<1>n. ASSUME batch[t][m] \in Copy, Now(t, m, "refused")
      PROVE  \E x \in Copy \cup {NotHeld} : batch' = [batch EXCEPT ![t][m] = x]
  <2>1. batch' = [batch EXCEPT ![t][m] = [batch[t][m] EXCEPT !.at = "refused"]]
    BY <1>n, <1>t, <1>b DEF Now
  <2> QED
    BY <1>n, <2>1, CopyMoves
<1>f. ASSUME NEW content, MarkFailed(t, m, content)
      PROVE  /\ UNCHANGED <<pc, woken, owed>> /\ LetGo(t, m)
             /\ \A n \in Emails \ {m} :
                  row'[n] = row[n] /\ accepted'[n] = accepted[n] /\ slips'[n] = slips[n]
  BY <1>t, <1>f DEF MarkFailed, told
<1>1. CASE GiveUp(t, m)
  <2>1. Holds(t, m)
    BY <1>1, <1>a DEF GiveUp
  <2>2. \E content : MarkFailed(t, m, content)
    BY <1>1 DEF GiveUp
  <2> QED
    BY <1>f, <1>l, <2>1, <2>2
<1>2. CASE FailSend(t, m)
  <2>1. Holds(t, m)
    BY <1>2, <1>a DEF FailSend
  <2> QED
    BY <1>2, <1>f, <1>l, <2>1 DEF FailSend
<1>3. CASE GiveUpFails(t, m) \/ Refuse(t, m)
  <2>1. Holds(t, m) /\ batch[t][m] \in Copy /\ Now(t, m, "refused")
    BY <1>3, <1>a DEF GiveUpFails, Refuse, Sendable
  <2> QED
    <3>1. \E x \in Copy \cup {NotHeld} : batch' = [batch EXCEPT ![t][m] = x]
      BY <1>n, <2>1
    <3> QED
      BY <1>3, <2>1, <3>1 DEF GiveUpFails, Refuse, told, outbox
<1>4. CASE MarkSentFails(t, m)
  <2>1. Holds(t, m) /\ batch[t][m] \in Copy /\ Now(t, m, "refused")
    BY <1>4, <1>a DEF MarkSentFails
  <2>2. \A n \in Emails \ {m} : slips'[n] = slips[n]
    BY <1>4, <1>t DEF MarkSentFails
  <2> QED
    <3>1. \E x \in Copy \cup {NotHeld} : batch' = [batch EXCEPT ![t][m] = x]
      BY <1>n, <2>1
    <3> QED
      BY <1>4, <2>1, <2>2, <3>1 DEF MarkSentFails, outbox
<1>5. CASE Throttle(t, m)
  <2>1. Holds(t, m) /\ batch[t][m] \in Copy /\ batch[t][m].at = "claimed" /\ Now(t, m, "throttled")
    BY <1>5, <1>a DEF Throttle, Sendable
  <2>2. batch' = [batch EXCEPT ![t][m] = [batch[t][m] EXCEPT !.at = "throttled"]]
    BY <2>1, <1>t, <1>b DEF Now
  <2>3. \E x \in Copy \cup {NotHeld} : batch' = [batch EXCEPT ![t][m] = x]
    BY <2>1, <2>2, CopyMoves
  <2> QED
    BY <1>5, <2>1, <2>3 DEF Throttle, told, outbox
<1>6. CASE Accept(t, m)
  <2>1. Holds(t, m) /\ batch[t][m] \in Copy
    BY <1>6, <1>a DEF Accept, Sendable
  <2>2. accepted[m] + 1 \in Nat
    BY <1>t
  <2> DEFINE x == [at |-> "accepted", attempts |-> batch[t][m].attempts,
                   content |-> batch[t][m].content, id |-> accepted[m] + 1]
  <2>3. x \in Copy
    BY <2>1, <2>2, CopyMoves
  <2>4. batch' = [batch EXCEPT ![t][m] = x]
    BY <1>6 DEF Accept
  <2> HIDE DEF x
  <2>5. \A n \in Emails \ {m} : accepted'[n] = accepted[n]
    BY <1>6, <1>t DEF Accept
  <2> QED
    BY <1>6, <2>1, <2>3, <2>4, <2>5 DEF Accept, outbox
<1>7. CASE MarkSent(t, m)
  <2>1. Holds(t, m)
    BY <1>7, <1>a DEF MarkSent
  <2>2. \A n \in Emails \ {m} : row'[n] = row[n]
    BY <1>7, <1>t DEF MarkSent
  <2> QED
    BY <1>7, <1>l, <2>1, <2>2 DEF MarkSent, told
<1>8. CASE MarkRetry(t, m)
  <2>1. Holds(t, m)
    BY <1>8, <1>a DEF MarkRetry
  <2>2. \A n \in Emails \ {m} : row'[n] = row[n]
    BY <1>8, <1>t DEF MarkRetry
  <2> QED
    BY <1>8, <1>l, <2>1, <2>2 DEF MarkRetry, told
<1>9. CASE MarkThrottled(t, m)
  <2>1. Holds(t, m)
    BY <1>9, <1>a DEF MarkThrottled
  <2>2. \A n \in Emails \ {m} : row'[n] = row[n]
    BY <1>9, <1>t DEF MarkThrottled
  <2> QED
    BY <1>9, <1>l, <2>1, <2>2 DEF MarkThrottled, told
<1>10. CASE RecordFailureFails(t, m)
  <2>1. Holds(t, m)
    BY <1>10, <1>a DEF RecordFailureFails
  <2> QED
    BY <1>10, <1>l, <2>1 DEF RecordFailureFails, told, outbox
<1> QED
  BY <1>1, <1>2, <1>3, <1>4, <1>5, <1>6, <1>7, <1>8, <1>9, <1>10 DEF SendOne

(* Every way an email is dealt with keeps its invariant. *)
LEMMA SendKeepsEmail ==
  ASSUME TypeOK, TypeOK', NEW t \in Tasks, NEW m \in Emails, SendOne(t, m), EmailInv(m)
  PROVE  EmailInv(m)'
<1>h. Holds(t, m)
  BY SendWrites
<1>t. /\ row \in [Emails -> Row] /\ accepted \in [Emails -> Nat] /\ slips \in [Emails -> Nat]
      /\ batch \in [Tasks -> [Emails -> Copy \cup {NotHeld}]] /\ row'[m] \in Row
  BY DEF TypeOK
<1>b. batch[t] \in [Emails -> Copy \cup {NotHeld}]
  BY <1>t
<1>x. batch[t][m] \in Copy
  BY <1>b, <1>h DEF Holds
<1>r. row[m] \in Row /\ row[m].attempts \in Nat
  BY <1>t DEF Row
<1>e. \A u \in Holders(m) : ~batch[u][m].content => ~row[m].content
  BY DEF EmailInv, Erased
<1>s. row[m].status \in Settled /\ m \in Secret => ~row[m].content
  BY DEF EmailInv, Erased
<1>l. ASSUME LetGo(t, m)
      PROVE  batch'[t][m] = NotHeld /\ \A u \in Tasks \ {t} : batch'[u][m] = batch[u][m]
  <2> HIDE DEF Copy
  <2> QED
    BY <1>l, <1>t, <1>b DEF LetGo
<1>f. ASSUME NEW content, MarkFailed(t, m, content), t \in Trying(m),
             content = Cleared(m) \/ (content = row[m].content /\ ~row[m].content)
      PROVE  EmailInv(m)'
  <2>1. /\ row'[m].status = "FAILED" /\ row'[m].content = content
        /\ row'[m].attempts = row[m].attempts
    BY <1>f, <1>t, <1>r DEF MarkFailed, Row
  <2>2. /\ batch'[t][m] = NotHeld /\ \A u \in Tasks \ {t} : batch'[u][m] = batch[u][m]
        /\ accepted'[m] = accepted[m] /\ slips'[m] = slips[m]
    BY <1>f, <1>l DEF MarkFailed, told
  <2>3. batch[t][m].at # "accepted"
    BY <1>f DEF Trying
  <2>4. row'[m].content => row[m].content /\ m \notin Secret
    BY <1>f, <2>1 DEF Cleared
  <2> QED
    BY <1>h, <1>t, <1>r, <1>f, <2>1, <2>2, <2>3, <2>4, Gone DEF Given, Waiting
<1>1. CASE GiveUp(t, m)
  <2>1. t \in Trying(m)
    BY <1>1 DEF GiveUp, Trying
  <2>2. ~batch[t][m].content => ~row[m].content
    BY <1>e, <1>h DEF Holders
  <2> QED
    BY <1>1, <1>f, <2>1, <2>2 DEF GiveUp
<1>2. CASE FailSend(t, m)
  <2>1. t \in Trying(m)
    BY <1>2 DEF FailSend, Trying
  <2> QED
    BY <1>2, <1>f, <2>1 DEF FailSend
<1>n. ASSUME NEW at \in {"refused", "throttled"}, Now(t, m, at)
      PROVE  /\ batch'[t][m].at = at /\ batch'[t][m].content = batch[t][m].content
             /\ batch'[t][m] # NotHeld /\ \A u \in Tasks \ {t} : batch'[u][m] = batch[u][m]
  <2> DEFINE x == [batch[t][m] EXCEPT !.at = at]
  <2>1. batch' = [batch EXCEPT ![t][m] = x]
    BY <1>n, <1>t, <1>b DEF Now
  <2>2. x.at = at /\ x.content = batch[t][m].content
    BY <1>x DEF Copy
  <2>3. NotHeld.at = "not held"
    BY DEF NotHeld
  <2>4. batch'[t][m] = x /\ \A u \in Tasks \ {t} : batch'[u][m] = batch[u][m]
    <3> HIDE DEF x
    <3> QED
      BY <2>1, <1>t, <1>b
  <2> QED
    BY <2>2, <2>3, <2>4
<1>3. CASE GiveUpFails(t, m) \/ Refuse(t, m) \/ Throttle(t, m)
  <2>1. t \in Trying(m)
    BY <1>3 DEF GiveUpFails, Refuse, Throttle, Sendable, Trying
  <2>2. PICK at \in {"refused", "throttled"} : Now(t, m, at)
    BY <1>3 DEF GiveUpFails, Refuse, Throttle
  <2>3. row'[m] = row[m] /\ accepted'[m] = accepted[m] /\ slips'[m] = slips[m]
    BY <1>3 DEF GiveUpFails, Refuse, Throttle, outbox, told
  <2> QED
    BY <1>h, <1>n, <2>1, <2>2, <2>3, Moved
<1>4. CASE MarkSentFails(t, m)
  <2>1. Now(t, m, "refused")
    BY <1>4 DEF MarkSentFails
  <2>2. row'[m] = row[m] /\ accepted'[m] = accepted[m] /\ slips'[m] = slips[m] + 1
    BY <1>4, <1>t DEF MarkSentFails, outbox
  <2> QED
    BY <1>h, <1>n, <2>1, <2>2, Moved
<1>5. CASE Accept(t, m)
  <2>1. t \in Trying(m)
    BY <1>5 DEF Accept, Sendable, Trying
  <2>2. row'[m] = row[m] /\ accepted'[m] = accepted[m] + 1 /\ slips'[m] = slips[m]
    BY <1>5, <1>t DEF Accept, outbox
  <2> DEFINE x == [at |-> "accepted", attempts |-> batch[t][m].attempts,
                   content |-> batch[t][m].content, id |-> accepted[m] + 1]
  <2>3. batch' = [batch EXCEPT ![t][m] = x]
    BY <1>5 DEF Accept
  <2>4. x.at = "accepted" /\ x.content = batch[t][m].content /\ NotHeld.at = "not held"
    BY DEF NotHeld
  <2>5. batch'[t][m] = x /\ \A u \in Tasks \ {t} : batch'[u][m] = batch[u][m]
    <3> HIDE DEF x
    <3> QED
      BY <2>3, <1>t, <1>b
  <2>6. /\ batch'[t][m].at = "accepted" /\ batch'[t][m].content = batch[t][m].content
        /\ batch'[t][m] # NotHeld
    BY <2>4, <2>5
  <2> QED
    BY <1>h, <2>1, <2>2, <2>5, <2>6, Taken
<1>6. CASE MarkSent(t, m)
  <2>1. /\ row'[m].status = "SENT" /\ row'[m].content = Cleared(m)
        /\ row'[m].attempts = row[m].attempts
    BY <1>6, <1>t, <1>r DEF MarkSent, Row
  <2>2. /\ batch'[t][m] = NotHeld /\ \A u \in Tasks \ {t} : batch'[u][m] = batch[u][m]
        /\ accepted'[m] = accepted[m] /\ slips'[m] = slips[m]
    BY <1>6, <1>l DEF MarkSent, told
  <2>3. batch[t][m].at = "accepted"
    BY <1>6 DEF MarkSent
  <2>4. row'[m].content => row[m].content /\ m \notin Secret
    BY <2>1 DEF Cleared
  <2> QED
    BY <1>h, <1>t, <1>r, <2>1, <2>2, <2>3, <2>4, Gone DEF Given, Waiting
<1>7. CASE MarkRetry(t, m) \/ MarkThrottled(t, m)
  <2>1. /\ row'[m].status = "QUEUED" /\ row'[m].content = row[m].content
        /\ row'[m].attempts \in {row[m].attempts, row[m].attempts - 1}
    BY <1>7, <1>t, <1>r DEF MarkRetry, MarkThrottled, Row
  <2>2. /\ batch'[t][m] = NotHeld /\ \A u \in Tasks \ {t} : batch'[u][m] = batch[u][m]
        /\ accepted'[m] = accepted[m] /\ slips'[m] = slips[m]
    BY <1>7, <1>l DEF MarkRetry, MarkThrottled, told
  <2>3. t \in Trying(m)
    BY <1>7 DEF MarkRetry, MarkThrottled, Trying
  <2>4. batch[t][m].at # "accepted"
    BY <2>3 DEF Trying
  <2>5. row'[m].attempts >= row[m].attempts - 1
    BY <2>1, <1>r
  <2> QED
    BY <1>h, <1>t, <2>1, <2>2, <2>3, <2>4, <2>5, Gone DEF Given, Settled
<1>8. CASE RecordFailureFails(t, m)
  <2>1. /\ batch'[t][m] = NotHeld /\ \A u \in Tasks \ {t} : batch'[u][m] = batch[u][m]
        /\ row'[m] = row[m] /\ accepted'[m] = accepted[m] /\ slips'[m] = slips[m]
    BY <1>8, <1>l DEF RecordFailureFails, told, outbox
  <2>2. t \in Trying(m)
    BY <1>8 DEF RecordFailureFails, Trying
  <2>3. row[m].status # "NONE" /\ (slips[m] = 0 => row[m].status = "SENDING")
    BY <1>h DEF EmailInv, Counted, Truthful, Holders
  <2>4. batch[t][m].at # "accepted" /\ "SENDING" \notin Given
    BY <2>2 DEF Trying, Given
  <2>5. row[m].attempts >= row[m].attempts - 1
    BY <1>r
  <2> QED
    BY <1>h, <1>r, <1>s, <2>1, <2>2, <2>3, <2>4, <2>5, Gone
<1> QED
  BY <1>1, <1>2, <1>3, <1>4, <1>5, <1>6, <1>7, <1>8 DEF SendOne

-----------------------------------------------------------------------------
(* What holds of the whole outbox. *)

LEMMA InvInit == Init => OutboxInv
<1> SUFFICES ASSUME Init PROVE OutboxInv
  OBVIOUS
<1>1. \A m \in Emails, t \in Tasks : row[m] = Unrecorded /\ batch[t][m] = NotHeld
  BY DEF Init
<1>2. TypeOK
  <2>1. Unrecorded \in Row
    BY DEF Unrecorded, Row
  <2>2. row \in [Emails -> Row] /\ batch \in [Tasks -> [Emails -> Copy \cup {NotHeld}]]
    BY <2>1 DEF Init
  <2> QED
    BY <2>2, OutboxAssumption DEF Init, TypeOK
<1>3. Resting
  BY <1>1 DEF Resting, Holds
<1>4. Owing
  BY DEF Init, Owing
<1>5. ASSUME NEW m \in Emails PROVE EmailInv(m)
  <2>1. Holders(m) = {} /\ Trying(m) = {}
    <3>1. NotHeld.at \notin {"claimed", "refused", "throttled"}
      BY DEF NotHeld
    <3> QED
      BY <1>1, <3>1 DEF Holders, Holds, Trying
  <2>2. /\ row[m] = Unrecorded /\ accepted[m] = 0 /\ slips[m] = 0
        /\ row[m].status = "NONE" /\ row[m].attempts = 0 /\ ~row[m].content
    BY DEF Init, Unrecorded
  <2>3. ~ToCome(m)
    BY <2>2 DEF ToCome, Waiting
  <2>4. Counted(m)
    BY <2>1, <2>2, <2>3, FS_EmptySet DEF Counted
  <2>5. Truthful(m)
    BY <2>1, <2>2 DEF Truthful, Waiting, Given
  <2>6. Erased(m)
    BY <2>1, <2>2 DEF Erased
  <2> QED
    BY <2>4, <2>5, <2>6 DEF EmailInv
<1> QED
  BY <1>2, <1>3, <1>4, <1>5 DEF OutboxInv

LEMMA SendInv ==
  ASSUME OutboxInv, NEW t \in Tasks, NEW m \in Emails, SendOne(t, m)
  PROVE  OutboxInv'
<1>i. TypeOK /\ Resting /\ Owing /\ \A n \in Emails : EmailInv(n)
  BY DEF OutboxInv
<1>w. /\ Holds(t, m) /\ UNCHANGED <<pc, woken, owed>>
      /\ \E x \in Copy \cup {NotHeld} : batch' = [batch EXCEPT ![t][m] = x]
      /\ \A n \in Emails \ {m} :
           row'[n] = row[n] /\ accepted'[n] = accepted[n] /\ slips'[n] = slips[n]
  BY <1>i, SendWrites
<1>b. \A u \in Tasks, n \in Emails : u # t \/ n # m => batch'[u][n] = batch[u][n]
  <2>1. PICK x \in Copy \cup {NotHeld} : batch' = [batch EXCEPT ![t][m] = x]
    BY <1>w
  <2>2. batch \in [Tasks -> [Emails -> Copy \cup {NotHeld}]]
    BY <1>i DEF TypeOK
  <2>3. batch[t] \in [Emails -> Copy \cup {NotHeld}]
    BY <2>2
  <2> HIDE DEF Copy
  <2> QED
    BY <2>1, <2>2, <2>3
<1>1. TypeOK'
  <2>1. row[m].attempts # 0
    <3>1. t \in Holders(m)
      BY <1>w DEF Holders
    <3>2. IsFiniteSet(Holders(m)) /\ Cardinality(Holders(m)) <= row[m].attempts
      BY <1>i DEF EmailInv, Counted
    <3>3. Cardinality(Holders(m)) \in Nat /\ Cardinality(Holders(m)) # 0
      BY <3>1, <3>2, FS_CardinalityType, FS_EmptySet
    <3>4. row[m].attempts \in Nat
      BY <1>i DEF TypeOK, Row
    <3> QED
      BY <3>2, <3>3, <3>4
  <2> QED
    BY <1>i, <2>1, SendTyped
<1>2. Resting'
  BY <1>i, <1>w, <1>b DEF Resting, Holds
<1>3. ASSUME NEW n \in Emails, n # m
      PROVE  row'[n] = row[n] /\ Holders(n)' = Holders(n) /\ EmailInv(n)'
  BY <1>i, <1>w, <1>b, <1>3, Steady
<1>4. EmailInv(m)'
  BY <1>1, <1>i, SendKeepsEmail
<1>5. Owing'
  <2>1. owed[m] = NoTask
    <3>1. t \in Holders(m)
      BY <1>w DEF Holders
    <3> QED
      BY <1>i, <3>1 DEF Owing
  <2> QED
    <3>1. ASSUME NEW n \in Emails, owed'[n] # NoTask
          PROVE  /\ row'[n].status = "QUEUED" /\ row'[n].due /\ Holders(n)' = {}
                 /\ \/ pc'[owed'[n]] \in {"sweep", "claim", "batch"}
                    \/ pc'[owed'[n]] = "last batch" /\ woken'[owed'[n]]
      <4>1. n # m /\ owed[n] # NoTask /\ pc' = pc /\ woken' = woken /\ owed' = owed
        BY <1>w, <2>1, <3>1
      <4>2. row'[n] = row[n] /\ Holders(n)' = Holders(n)
        BY <1>3, <4>1
      <4> QED
        BY <1>i, <4>1, <4>2 DEF Owing
    <3> QED
      BY <3>1 DEF Owing
<1> QED
  BY <1>1, <1>2, <1>3, <1>4, <1>5 DEF OutboxInv

(* Nothing about any email changes. *)
LEMMA AllSteady ==
  ASSUME TypeOK, \A m \in Emails : EmailInv(m), UNCHANGED <<row, batch, accepted, slips>>
  PROVE  \A m \in Emails : EmailInv(m)' /\ Holders(m)' = Holders(m)
<1> TAKE m \in Emails
<1> QED
  BY Steady

LEMMA RecordInv ==
  ASSUME OutboxInv, Record
  PROVE  OutboxInv'
<1>i. TypeOK /\ Resting /\ Owing /\ \A n \in Emails : EmailInv(n)
  BY DEF OutboxInv
<1>a. PICK a \in asked, t \in Tasks :
        /\ asked' = asked \ {a}
        /\ IF Records(a.email)
           THEN /\ row' = [row EXCEPT ![a.email] = Recorded(a.skip)]
                /\ IF a.skip THEN UNCHANGED <<pc, woken, owed>>
                   ELSE Wake(t) /\ owed' = [owed EXCEPT ![a.email] = t]
           ELSE UNCHANGED <<row, pc, woken, owed>>
        /\ UNCHANGED <<late, suppressed, batch, accepted, slips, left>>
  BY DEF Record
<1>t. /\ row \in [Emails -> Row] /\ owed \in [Emails -> Tasks \cup {NoTask}]
      /\ pc \in [Tasks -> {"idle", "sweep", "claim", "batch", "last batch"}]
      /\ woken \in [Tasks -> BOOLEAN] /\ asked \subseteq [email : Emails, skip : BOOLEAN]
  BY <1>i DEF TypeOK
<1> DEFINE m == a.email
<1>m. m \in Emails /\ a.skip \in BOOLEAN
  BY <1>t
<1>r. Recorded(a.skip) \in Row
  BY <1>m DEF Recorded, Row, Waiting, Settled
<1> HIDE DEF m
<1>1. CASE ~Records(m)
  <2>1. UNCHANGED <<row, pc, woken, owed, batch, accepted, slips>>
    BY <1>1, <1>a DEF m
  <2>2. TypeOK'
    BY <1>i, <1>a, <2>1 DEF TypeOK, left
  <2>3. \A n \in Emails : EmailInv(n)' /\ Holders(n)' = Holders(n)
    BY <1>i, <2>1, AllSteady
  <2>4. Resting' /\ Owing'
    BY <1>i, <2>1, <2>3 DEF Resting, Holds, Owing
  <2> QED
    BY <2>2, <2>3, <2>4 DEF OutboxInv
<1>2. CASE Records(m)
  <2>1. row[m] = Unrecorded /\ row' = [row EXCEPT ![m] = Recorded(a.skip)]
    BY <1>2, <1>a DEF m, Records
  <2>2. UNCHANGED <<late, suppressed, batch, accepted, slips, left>> /\ asked' = asked \ {a}
    BY <1>a
  <2>3. \/ a.skip /\ UNCHANGED <<pc, woken, owed>>
        \/ ~a.skip /\ Wake(t) /\ owed' = [owed EXCEPT ![m] = t]
    BY <1>2, <1>a DEF m
  <2>4. /\ pc' \in [Tasks -> {"idle", "sweep", "claim", "batch", "last batch"}]
        /\ woken' \in [Tasks -> BOOLEAN] /\ owed' \in [Emails -> Tasks \cup {NoTask}]
    <3>1. CASE a.skip /\ UNCHANGED <<pc, woken, owed>>
      BY <1>t, <3>1
    <3>2. CASE ~a.skip /\ Wake(t) /\ owed' = [owed EXCEPT ![m] = t]
      BY <1>t, <3>2 DEF Wake
    <3> QED
      BY <2>3, <3>1, <3>2
  <2>5. TypeOK'
    <3>1. row' \in [Emails -> Row]
      BY <1>t, <1>r, <2>1
    <3> QED
      BY <1>i, <2>2, <2>4, <3>1 DEF TypeOK, left
  <2>6. Resting'
    BY <1>i, <1>t, <2>2, <2>3 DEF Resting, Holds, Wake
  <2>7. row'[m] = Recorded(a.skip) /\ \A n \in Emails \ {m} : row'[n] = row[n]
    BY <1>t, <1>m, <2>1
  <2>8. ASSUME NEW n \in Emails, n # m PROVE EmailInv(n)' /\ Holders(n)' = Holders(n)
    BY <1>i, <2>2, <2>7, <2>8, Steady
  <2>9. /\ Holders(m) = {} /\ Trying(m) = {} /\ Holders(m)' = {} /\ Trying(m)' = {}
        /\ accepted[m] = 0 /\ slips[m] \in Nat
    <3>1. row[m].status = "NONE"
      BY <2>1 DEF Unrecorded
    <3>2. Holders(m) = {} /\ accepted[m] = 0
      BY <1>i, <1>m, <3>1 DEF EmailInv, Counted
    <3>3. Trying(m) = {} /\ slips[m] \in Nat
      BY <1>i, <1>m, <3>2, HoldersCounted DEF EmailInv
    <3> QED
      BY <2>2, <3>2, <3>3 DEF Holders, Holds, Trying
  <2>10. EmailInv(m)'
    <3>1. /\ row'[m].status = IF a.skip THEN "SKIPPED" ELSE "QUEUED"
          /\ row'[m].attempts = 0 /\ row'[m].content = ~a.skip
      BY <2>7 DEF Recorded
    <3>2. Counted(m)'
      BY <2>2, <2>9, <3>1, FS_EmptySet DEF Counted
    <3>3. Truthful(m)'
      BY <2>2, <2>9, <3>1 DEF Truthful, Given, Holders
    <3>4. Erased(m)'
      BY <2>9, <3>1 DEF Erased, Settled, Given
    <3> QED
      BY <3>2, <3>3, <3>4 DEF EmailInv
  <2>11. Owing'
    <3>1. CASE a.skip
      <4>1. owed[m] = NoTask
        <5>1. row[m].status = "NONE"
          BY <2>1 DEF Unrecorded
        <5> QED
          BY <1>i, <1>m, <5>1 DEF Owing
      <4> QED
        BY <1>i, <2>3, <2>7, <2>8, <3>1, <4>1 DEF Owing
    <3>2. CASE ~a.skip
      <4>1. /\ pc'[t] # "idle" /\ woken'[t]
            /\ \A u \in Tasks : pc[u] # "idle" => pc'[u] = pc[u] /\ (woken[u] => woken'[u])
        BY <1>t, <2>3, <3>2 DEF Wake
      <4>2. owed'[m] = t /\ \A n \in Emails \ {m} : owed'[n] = owed[n]
        BY <1>t, <1>m, <2>3, <3>2
      <4>3. row'[m].status = "QUEUED" /\ row'[m].due
        <5>1. /\ row'[m].status = IF a.skip THEN "SKIPPED" ELSE "QUEUED"
              /\ row'[m].due = ~a.skip
          BY <2>7 DEF Recorded
        <5> QED
          BY <3>2, <5>1
      <4>4. pc'[t] \in {"sweep", "claim", "batch", "last batch"}
        BY <2>4, <4>1
      <4>5. ASSUME NEW n \in Emails, owed'[n] # NoTask
            PROVE  /\ row'[n].status = "QUEUED" /\ row'[n].due /\ Holders(n)' = {}
                   /\ \/ pc'[owed'[n]] \in {"sweep", "claim", "batch"}
                      \/ pc'[owed'[n]] = "last batch" /\ woken'[owed'[n]]
        <5>1. CASE n = m
          BY <2>9, <4>1, <4>2, <4>3, <4>4, <5>1
        <5>2. CASE n # m
          <6>1. owed[n] # NoTask /\ owed[n] \in Tasks /\ owed'[n] = owed[n]
            BY <1>t, <4>2, <4>5, <5>2
          <6>2. /\ row[n].status = "QUEUED" /\ row[n].due /\ Holders(n) = {}
                /\ \/ pc[owed[n]] \in {"sweep", "claim", "batch"}
                   \/ pc[owed[n]] = "last batch" /\ woken[owed[n]]
            BY <1>i, <6>1 DEF Owing
          <6>3. pc'[owed[n]] = pc[owed[n]] /\ (woken[owed[n]] => woken'[owed[n]])
            BY <4>1, <6>1, <6>2
          <6> QED
            BY <2>7, <2>8, <5>2, <6>1, <6>2, <6>3
        <5> QED
          BY <5>1, <5>2
      <4> QED
        BY <4>5 DEF Owing
    <3> QED
      BY <1>m, <3>1, <3>2
  <2> QED
    BY <2>5, <2>6, <2>8, <2>10, <2>11 DEF OutboxInv
<1> QED
  BY <1>1, <1>2

-----------------------------------------------------------------------------
(* The passes. *)

LEMMA FaultSpent ==
  ASSUME TypeOK, faults > 0, faults' = faults - 1
  PROVE  faults' \in 0..MaxFaults
<1>1. faults \in 0..MaxFaults /\ MaxFaults \in Nat
  BY OutboxAssumption DEF TypeOK
<1> QED
  BY <1>1

LEMMA WakesInv ==
  ASSUME OutboxInv, NEW t \in Tasks, Tick(t) \/ EndBatch(t) \/ ClaimFails(t)
  PROVE  OutboxInv'
<1>i. TypeOK /\ Resting /\ Owing /\ \A n \in Emails : EmailInv(n)
  BY DEF OutboxInv
<1>t. /\ owed \in [Emails -> Tasks \cup {NoTask}]
      /\ pc \in [Tasks -> {"idle", "sweep", "claim", "batch", "last batch"}]
      /\ woken \in [Tasks -> BOOLEAN] /\ faults \in 0..MaxFaults /\ MaxFaults \in Nat
      /\ NoTask \notin Tasks
  BY <1>i, OutboxAssumption DEF TypeOK
<1>1. UNCHANGED <<row, asked, late, suppressed, batch, accepted, slips, asks, reports>>
  BY DEF Tick, EndBatch, ClaimFails, outbox, told, left
<1>2. \A n \in Emails : EmailInv(n)' /\ Holders(n)' = Holders(n)
  BY <1>i, <1>1, AllSteady
<1>3. /\ \A u \in Tasks \ {t} : pc'[u] = pc[u] /\ woken'[u] = woken[u]
      /\ pc' \in [Tasks -> {"idle", "sweep", "claim", "batch", "last batch"}]
      /\ woken' \in [Tasks -> BOOLEAN] /\ faults' \in 0..MaxFaults
      /\ owed' \in [Emails -> Tasks \cup {NoTask}]
  <2>1. CASE Tick(t)
    BY <1>t, <2>1 DEF Tick, Wake, told, left
  <2>2. CASE EndBatch(t)
    BY <1>t, <2>2 DEF EndBatch, LooksAgain, told, left
  <2>3. CASE ClaimFails(t)
    <3>1. owed' \in [Emails -> Tasks \cup {NoTask}]
      BY <1>t, <2>3 DEF ClaimFails
    <3>2. faults' \in 0..MaxFaults
      BY <1>i, <2>3, FaultSpent DEF ClaimFails
    <3>3. pc' \in [Tasks -> {"idle", "sweep", "claim", "batch", "last batch"}]
      BY <1>t, <2>3 DEF ClaimFails
    <3> QED
      BY <1>t, <2>3, <3>1, <3>2, <3>3 DEF ClaimFails
  <2> QED
    BY <2>1, <2>2, <2>3
<1>4. TypeOK'
  BY <1>i, <1>1, <1>3 DEF TypeOK
<1>5. Resting'
  <2>1. CASE EndBatch(t) \/ ClaimFails(t)
    <3>1. \A m \in Emails : ~Holds(t, m)
      BY <1>i, <2>1 DEF EndBatch, Held, ClaimFails, Resting
    <3> QED
      BY <1>i, <1>1, <1>3, <3>1 DEF Resting, Holds
  <2>2. CASE Tick(t)
    <3>1. pc'[t] = IF pc[t] = "idle" THEN "sweep" ELSE pc[t]
      BY <1>t, <2>2 DEF Tick, Wake
    <3> QED
      BY <1>i, <1>1, <1>3, <3>1 DEF Resting, Holds
  <2> QED
    BY <2>1, <2>2
<1>6. Owing'
  <2>1. ASSUME NEW n \in Emails, owed'[n] # NoTask
        PROVE  /\ row'[n].status = "QUEUED" /\ row'[n].due /\ Holders(n)' = {}
               /\ \/ pc'[owed'[n]] \in {"sweep", "claim", "batch"}
                  \/ pc'[owed'[n]] = "last batch" /\ woken'[owed'[n]]
    <3>1. owed[n] = owed'[n] /\ owed[n] \in Tasks /\ (ClaimFails(t) => owed[n] # t)
      <4>1. CASE ClaimFails(t)
        BY <1>t, <2>1, <4>1 DEF ClaimFails
      <4>2. CASE ~ClaimFails(t)
        <5>1. owed' = owed
          BY <4>2 DEF Tick, EndBatch, told
        <5> QED
          BY <1>t, <2>1, <4>2, <5>1
      <4> QED
        BY <4>1, <4>2
    <3>2. /\ row[n].status = "QUEUED" /\ row[n].due /\ Holders(n) = {}
          /\ \/ pc[owed[n]] \in {"sweep", "claim", "batch"}
             \/ pc[owed[n]] = "last batch" /\ woken[owed[n]]
      BY <1>i, <2>1, <3>1 DEF Owing
    <3>3. CASE owed[n] # t
      BY <1>1, <1>2, <1>3, <3>1, <3>2, <3>3
    <3>4. CASE owed[n] = t
      <4>1. pc[t] # "idle" /\ ~ClaimFails(t)
        BY <3>1, <3>2, <3>4
      <4>2. CASE EndBatch(t)
        <5>1. pc'[t] = "claim"
          BY <1>t, <3>2, <3>4, <4>2 DEF EndBatch, LooksAgain
        <5> QED
          BY <1>1, <1>2, <3>1, <3>2, <3>4, <5>1
      <4>3. CASE Tick(t)
        <5>1. pc'[t] = pc[t] /\ woken'[t]
          BY <1>t, <4>1, <4>3 DEF Tick, Wake
        <5> QED
          BY <1>1, <1>2, <3>1, <3>2, <3>4, <5>1
      <4> QED
        BY <4>1, <4>2, <4>3
    <3> QED
      BY <3>3, <3>4
  <2> QED
    BY <2>1 DEF Owing
<1> QED
  BY <1>2, <1>4, <1>5, <1>6 DEF OutboxInv

LEMMA SweepInv ==
  ASSUME OutboxInv, NEW t \in Tasks, ClearOldContent(t)
  PROVE  OutboxInv'
<1>i. TypeOK /\ Resting /\ Owing /\ \A n \in Emails : EmailInv(n)
  BY DEF OutboxInv
<1>o. PICK old \in SUBSET Emails :
        /\ pc[t] = "sweep" /\ \A m \in old : row[m].content
        /\ old # {} => faults > 0
        /\ faults' = IF old = {} THEN faults ELSE faults - 1
        /\ row' = [m \in Emails |-> IF m \in old THEN [row[m] EXCEPT !.content = FALSE] ELSE row[m]]
        /\ pc' = [pc EXCEPT ![t] = "claim"] /\ woken' = [woken EXCEPT ![t] = FALSE]
        /\ UNCHANGED <<asked, late, suppressed, batch, told, asks, reports>>
  BY DEF ClearOldContent
<1>t. /\ pc \in [Tasks -> {"idle", "sweep", "claim", "batch", "last batch"}]
      /\ woken \in [Tasks -> BOOLEAN] /\ faults \in 0..MaxFaults /\ MaxFaults \in Nat
      /\ row \in [Emails -> Row]
  BY <1>i, OutboxAssumption DEF TypeOK
<1>1. UNCHANGED <<batch, accepted, slips, owed>>
  BY <1>o DEF told
<1>2. \A n \in Emails : \/ row'[n] = row[n]
                        \/ row[n].content /\ row'[n] = [row[n] EXCEPT !.content = FALSE]
  BY <1>o
<1>3. ASSUME NEW n \in Emails PROVE EmailInv(n)' /\ Holders(n)' = Holders(n)
  BY <1>i, <1>1, <1>2, Steady
<1>4. \A n \in Emails : /\ row'[n] \in Row /\ row'[n].status = row[n].status
                        /\ row'[n].due = row[n].due
  <2> TAKE n \in Emails
  <2>1. row[n] \in Row
    BY <1>t
  <2>2. CASE row'[n] = row[n]
    BY <2>1, <2>2
  <2>3. CASE row'[n] = [row[n] EXCEPT !.content = FALSE]
    BY <2>1, <2>3 DEF Row
  <2> QED
    BY <1>2, <2>2, <2>3
<1>5. TypeOK'
  <2>1. row' \in [Emails -> Row]
    <3>1. \A n \in Emails : row'[n] \in Row
      BY <1>4
    <3>2. row' = [n \in Emails |-> row'[n]]
      BY <1>o
    <3> QED
      BY <3>1, <3>2
  <2>2. faults' \in 0..MaxFaults
    BY <1>i, <1>o, <1>t, FaultSpent
  <2>3. /\ pc' \in [Tasks -> {"idle", "sweep", "claim", "batch", "last batch"}]
        /\ woken' \in [Tasks -> BOOLEAN]
    BY <1>o, <1>t
  <2> QED
    BY <1>i, <1>o, <2>1, <2>2, <2>3 DEF TypeOK, told
<1>6. Resting'
  BY <1>i, <1>o, <1>t, <1>1 DEF Resting, Holds
<1>7. Owing'
  <2>1. pc'[t] = "claim" /\ \A u \in Tasks \ {t} : pc'[u] = pc[u] /\ woken'[u] = woken[u]
    BY <1>o, <1>t
  <2>2. \A n \in Emails : owed[n] \in Tasks \cup {NoTask}
    BY <1>i DEF TypeOK
  <2>3. ASSUME NEW n \in Emails, owed'[n] # NoTask
        PROVE  /\ row'[n].status = "QUEUED" /\ row'[n].due /\ Holders(n)' = {}
               /\ \/ pc'[owed'[n]] \in {"sweep", "claim", "batch"}
                  \/ pc'[owed'[n]] = "last batch" /\ woken'[owed'[n]]
    <3>1. owed'[n] = owed[n] /\ owed[n] \in Tasks
      BY <1>1, <2>2, <2>3
    <3>2. /\ row[n].status = "QUEUED" /\ row[n].due /\ Holders(n) = {}
          /\ \/ pc[owed[n]] \in {"sweep", "claim", "batch"}
             \/ pc[owed[n]] = "last batch" /\ woken[owed[n]]
      BY <1>i, <2>3, <3>1 DEF Owing
    <3>3. CASE owed[n] = t
      BY <1>3, <1>4, <2>1, <3>1, <3>2, <3>3
    <3>4. CASE owed[n] # t
      BY <1>3, <1>4, <2>1, <3>1, <3>2, <3>4
    <3> QED
      BY <3>3, <3>4
  <2> QED
    BY <2>3 DEF Owing
<1> QED
  BY <1>3, <1>5, <1>6, <1>7 DEF OutboxInv

(* A claim takes the claim its row allows and counts a try. *)
LEMMA ClaimedEmail ==
  ASSUME TypeOK, NEW t \in Tasks, NEW m \in Emails, EmailInv(m), ~Holds(t, m),
         row[m].status \in Waiting, row[m].due, row'[m] = Claimed(m),
         batch'[t][m] = [at |-> "claimed", attempts |-> row'[m].attempts, content |-> row[m].content],
         \A u \in Tasks \ {t} : batch'[u][m] = batch[u][m],
         accepted'[m] = accepted[m], slips'[m] = slips[m]
  PROVE  EmailInv(m)'
<1>1. /\ batch'[t][m].at = "claimed" /\ batch'[t][m].content = row[m].content
      /\ NotHeld.at = "not held"
  BY DEF NotHeld
<1>2. Holders(m)' = Holders(m) \cup {t} /\ t \notin Holders(m)
  BY <1>1 DEF Holders, Holds
<1>3. /\ Cardinality(Trying(m)) \in Nat /\ Cardinality(Holders(m)) \in Nat
      /\ accepted[m] \in Nat /\ slips[m] \in Nat /\ IsFiniteSet(Trying(m))
      /\ Trying(m) \subseteq Holders(m) /\ row[m] \in Row
  BY HoldersCounted DEF EmailInv
<1>4. Trying(m)' = Trying(m) \cup {t} /\ t \notin Trying(m)
  BY <1>1, <1>2, <1>3 DEF Trying
<1>5. /\ Cardinality(Trying(m)') = Cardinality(Trying(m)) + 1
      /\ Cardinality(Holders(m)') = Cardinality(Holders(m)) + 1 /\ IsFiniteSet(Holders(m)')
  <2>1. IsFiniteSet(Holders(m))
    BY DEF EmailInv, Counted
  <2>2. /\ IsFiniteSet(Holders(m) \cup {t})
        /\ Cardinality(Holders(m) \cup {t}) = Cardinality(Holders(m)) + 1
    BY <1>2, <2>1, FS_AddElement
  <2>3. Cardinality(Trying(m) \cup {t}) = Cardinality(Trying(m)) + 1
    BY <1>3, <1>4, FS_AddElement
  <2> QED
    BY <1>2, <1>4, <2>2, <2>3
<1>6. /\ row'[m].status = "SENDING" /\ row'[m].due = FALSE
      /\ row'[m].attempts = row[m].attempts + 1 /\ row'[m].content = row[m].content
      /\ row[m].attempts \in Nat
  BY <1>3 DEF Claimed, Row
<1>7. Counted(m)'
  <2>1. ToCome(m) /\ ~ToCome(m)'
    BY <1>2, <1>6 DEF ToCome
  <2>2. accepted[m] + Cardinality(Trying(m)) + 1 <= 1 + slips[m]
    BY <2>1 DEF EmailInv, Counted
  <2>3. accepted'[m] + Cardinality(Trying(m)') + (IF ToCome(m)' THEN 1 ELSE 0) <= 1 + slips'[m]
    BY <1>3, <1>5, <2>1, <2>2
  <2>4. Cardinality(Holders(m)) <= row[m].attempts
    BY DEF EmailInv, Counted
  <2>5. Cardinality(Holders(m)') <= row'[m].attempts
    BY <1>3, <1>5, <1>6, <2>4
  <2> QED
    BY <1>5, <1>6, <2>3, <2>5 DEF Counted
<1>8. Truthful(m)'
  <2>1. SUFFICES ASSUME slips[m] = 0 PROVE Truthful(m)'
    BY DEF Truthful
  <2>2. Holders(m) = {} /\ accepted[m] = 0
    BY <2>1 DEF EmailInv, Truthful
  <2>3. Holders(m)' = {t}
    BY <1>2, <2>2
  <2> QED
    BY <1>1, <1>6, <2>1, <2>2, <2>3 DEF Truthful, Given
<1>9. Erased(m)'
  <2>1. \A u \in Holders(m) : u # t /\ batch'[u][m] = batch[u][m]
    BY <1>2 DEF Holders
  <2>2. "SENDING" \notin Settled
    BY DEF Settled, Given
  <2> QED
    BY <1>1, <1>2, <1>6, <2>1, <2>2 DEF EmailInv, Erased
<1> QED
  BY <1>7, <1>8, <1>9 DEF EmailInv

LEMMA ClaimInv ==
  ASSUME OutboxInv, NEW t \in Tasks, ClaimDue(t)
  PROVE  OutboxInv'
<1>i. TypeOK /\ Resting /\ Owing /\ \A n \in Emails : EmailInv(n)
  BY DEF OutboxInv
<1>s. PICK S \in Claims :
        /\ pc[t] = "claim"
        /\ row' = [m \in Emails |-> IF m \in S THEN Claimed(m) ELSE row[m]]
        /\ batch' = [batch EXCEPT ![t] = [m \in Emails |-> IF m \in S
             THEN [at |-> "claimed", attempts |-> row'[m].attempts, content |-> row[m].content]
             ELSE NotHeld]]
        /\ pc' = [pc EXCEPT ![t] = IF Cardinality(S) < Rate THEN "last batch" ELSE "batch"]
        /\ owed' = [m \in Emails |-> IF m \in S THEN NoTask ELSE owed[m]]
        /\ UNCHANGED <<asked, late, suppressed, woken, accepted, slips, left>>
  BY DEF ClaimDue
<1>t. /\ pc \in [Tasks -> {"idle", "sweep", "claim", "batch", "last batch"}]
      /\ row \in [Emails -> Row] /\ batch \in [Tasks -> [Emails -> Copy \cup {NotHeld}]]
      /\ owed \in [Emails -> Tasks \cup {NoTask}]
  BY <1>i DEF TypeOK
<1>d. /\ S \subseteq Due
      /\ Cardinality(S) = IF Cardinality(Due) < Rate THEN Cardinality(Due) ELSE Rate
  BY DEF Claims
<1>e. S \subseteq Emails /\ \A m \in S : row[m].status \in Waiting /\ row[m].due
  BY <1>d DEF Due
<1>h. \A m \in Emails : ~Holds(t, m)
  BY <1>i, <1>s DEF Resting
<1>r. \A m \in Emails : row'[m] = IF m \in S THEN Claimed(m) ELSE row[m]
  BY <1>s
<1> DEFINE b == [m \in Emails |-> IF m \in S
             THEN [at |-> "claimed", attempts |-> row'[m].attempts, content |-> row[m].content]
             ELSE NotHeld]
<1>b. batch' = [batch EXCEPT ![t] = b]
  BY <1>s
<1>c. \A m \in Emails : b[m] = IF m \in S
             THEN [at |-> "claimed", attempts |-> row'[m].attempts, content |-> row[m].content]
             ELSE NotHeld
  OBVIOUS
<1>k. ASSUME NEW m \in Emails PROVE row'[m] \in Row
  <2>1. row[m] \in Row
    BY <1>t
  <2>2. row[m].attempts + 1 \in Nat
    BY <2>1 DEF Row
  <2>3. Claimed(m) \in Row
    BY <2>1, <2>2 DEF Claimed, Row, Waiting
  <2> QED
    BY <1>r, <2>1, <2>3
<1>f. b \in [Emails -> Copy \cup {NotHeld}]
  <2>1. ASSUME NEW m \in Emails PROVE b[m] \in Copy \cup {NotHeld}
    <3>1. row'[m].attempts \in Nat /\ row[m].content \in BOOLEAN
      BY <1>k, <1>t DEF Row
    <3>2. [at |-> "claimed", attempts |-> row'[m].attempts, content |-> row[m].content] \in Copy
      BY <3>1 DEF Copy
    <3> QED
      BY <1>c, <3>2
  <2> QED
    BY <2>1
<1> HIDE DEF b
<1>g. batch'[t] = b /\ \A u \in Tasks \ {t} : batch'[u] = batch[u]
  BY <1>b, <1>t
<1>1. TypeOK'
  <2>1. row' \in [Emails -> Row]
    BY <1>s, <1>k
  <2>2. batch' \in [Tasks -> [Emails -> Copy \cup {NotHeld}]]
    <3> HIDE DEF Copy
    <3> QED
      BY <1>b, <1>f, <1>t
  <2>3. pc' \in [Tasks -> {"idle", "sweep", "claim", "batch", "last batch"}]
    BY <1>s, <1>t
  <2>4. owed' \in [Emails -> Tasks \cup {NoTask}]
    BY <1>s, <1>t
  <2> QED
    BY <1>i, <1>s, <2>1, <2>2, <2>3, <2>4 DEF TypeOK, left
<1>2. Resting'
  <2>1. pc'[t] \in {"batch", "last batch"} /\ \A u \in Tasks \ {t} : pc'[u] = pc[u]
    BY <1>s, <1>t
  <2> QED
    BY <1>i, <1>g, <2>1 DEF Resting, Holds
<1>3. ASSUME NEW m \in Emails, m \in S PROVE EmailInv(m)'
  <2>1. row'[m] = Claimed(m) /\ row[m].status \in Waiting /\ row[m].due /\ ~Holds(t, m)
    BY <1>r, <1>e, <1>h, <1>3
  <2>2. batch'[t][m] = [at |-> "claimed", attempts |-> row'[m].attempts, content |-> row[m].content]
    BY <1>c, <1>g, <1>3
  <2>3. \A u \in Tasks \ {t} : batch'[u][m] = batch[u][m]
    BY <1>g
  <2>4. accepted'[m] = accepted[m] /\ slips'[m] = slips[m]
    BY <1>s
  <2> QED
    BY <1>i, <2>1, <2>2, <2>3, <2>4, ClaimedEmail
<1>4. ASSUME NEW m \in Emails, m \notin S PROVE EmailInv(m)' /\ Holders(m)' = Holders(m)
  <2>1. batch'[t][m] = batch[t][m]
    BY <1>c, <1>g, <1>h, <1>4 DEF Holds
  <2>2. \A u \in Tasks : batch'[u][m] = batch[u][m]
    BY <1>g, <2>1
  <2>3. row'[m] = row[m] /\ accepted'[m] = accepted[m] /\ slips'[m] = slips[m]
    BY <1>r, <1>s, <1>4
  <2> QED
    BY <1>i, <2>2, <2>3, Steady
<1>5. Owing'
  <2>1. ASSUME NEW n \in Emails, owed'[n] # NoTask
        PROVE  /\ row'[n].status = "QUEUED" /\ row'[n].due /\ Holders(n)' = {}
               /\ \/ pc'[owed'[n]] \in {"sweep", "claim", "batch"}
                  \/ pc'[owed'[n]] = "last batch" /\ woken'[owed'[n]]
    <3>1. n \notin S /\ owed'[n] = owed[n] /\ owed[n] \in Tasks
      BY <1>s, <1>t, <2>1
    <3>2. /\ row[n].status = "QUEUED" /\ row[n].due /\ Holders(n) = {}
          /\ \/ pc[owed[n]] \in {"sweep", "claim", "batch"}
             \/ pc[owed[n]] = "last batch" /\ woken[owed[n]]
      BY <1>i, <2>1, <3>1 DEF Owing
    <3>3. row'[n] = row[n] /\ Holders(n)' = {}
      BY <1>r, <1>4, <3>1, <3>2
    <3>4. CASE owed[n] # t
      BY <1>s, <1>t, <3>1, <3>2, <3>3, <3>4
    <3>5. CASE owed[n] = t
      <4>1. n \in Due
        BY <3>2 DEF Due, Waiting
      <4>2. S # Due
        BY <3>1, <4>1
      <4>3. IsFiniteSet(Due)
        <5>1. Due \subseteq Emails
          BY DEF Due
        <5> QED
          BY <5>1, OutboxAssumption, FS_Subset
      <4>4. Cardinality(S) < Cardinality(Due) /\ Cardinality(Due) \in Nat /\ Cardinality(S) \in Nat
        <5>1. /\ IsFiniteSet(S) /\ Cardinality(S) <= Cardinality(Due)
              /\ Cardinality(S) = Cardinality(Due) => S = Due
          BY <1>d, <4>3, FS_Subset
        <5>2. Cardinality(S) \in Nat /\ Cardinality(Due) \in Nat
          BY <4>3, <5>1, FS_CardinalityType
        <5> QED
          BY <4>2, <5>1, <5>2
      <4>5. ~(Cardinality(S) < Rate)
        <5>1. Rate \in Nat
          BY OutboxAssumption
        <5> QED
          BY <1>d, <4>4, <5>1
      <4>6. pc'[t] = "batch"
        BY <1>s, <1>t, <4>5
      <4> QED
        BY <3>1, <3>2, <3>3, <3>5, <4>6
    <3> QED
      BY <3>4, <3>5
  <2> QED
    BY <2>1 DEF Owing
<1> QED
  BY <1>1, <1>2, <1>3, <1>4, <1>5 DEF OutboxInv

-----------------------------------------------------------------------------
(* Time, stops and reports. *)

(* What is asked for and what is late concern no sender. *)
LEMMA AskInv ==
  ASSUME OutboxInv, NEW m \in Emails, AskFor(m) \/ WindowPasses(m)
  PROVE  OutboxInv'
<1>i. TypeOK /\ Resting /\ Owing /\ \A n \in Emails : EmailInv(n)
  BY DEF OutboxInv
<1>1. UNCHANGED <<row, batch, accepted, slips, pc, woken, owed, suppressed, reports, faults>>
  BY DEF AskFor, WindowPasses, sender, told, left
<1>2. \A n \in Emails : EmailInv(n)' /\ Holders(n)' = Holders(n)
  BY <1>i, <1>1, AllSteady
<1>3. TypeOK'
  <2>1. CASE AskFor(m)
    <3>1. asks \in 0..MaxAsks /\ MaxAsks \in Nat /\ asks > 0 /\ asks' = asks - 1
      BY <1>i, <2>1, OutboxAssumption DEF TypeOK, AskFor
    <3>2. asks' \in 0..MaxAsks
      BY <3>1
    <3>3. [email |-> m, skip |-> To[m] \in suppressed] \in [email : Emails, skip : BOOLEAN]
      OBVIOUS
    <3>4. asked' \subseteq [email : Emails, skip : BOOLEAN] /\ late' = late
      BY <1>i, <2>1, <3>3 DEF AskFor, TypeOK
    <3> QED
      BY <1>i, <1>1, <3>2, <3>4 DEF TypeOK
  <2>2. CASE WindowPasses(m)
    BY <1>i, <1>1, <2>2 DEF WindowPasses, TypeOK, left
  <2> QED
    BY <2>1, <2>2
<1>4. Resting' /\ Owing'
  BY <1>i, <1>1, <1>2 DEF Resting, Holds, Owing
<1> QED
  BY <1>2, <1>3, <1>4 DEF OutboxInv

(* An email's wait ends, or its claim lapses. *)
LEMMA DueInv ==
  ASSUME OutboxInv, NEW m \in Emails, TimeComes(m) \/ ClaimLapses(m)
  PROVE  OutboxInv'
<1>i. TypeOK /\ Resting /\ Owing /\ \A n \in Emails : EmailInv(n)
  BY DEF OutboxInv
<1>t. row \in [Emails -> Row] /\ slips \in [Emails -> Nat] /\ row[m] \in Row /\ slips[m] \in Nat
  BY <1>i DEF TypeOK
<1>1. /\ UNCHANGED <<batch, accepted, pc, woken, owed, asked, late, suppressed, asks, reports>>
      /\ row' = [row EXCEPT ![m].due = TRUE] /\ row[m].status \in Waiting /\ ~row[m].due
  BY DEF TimeComes, ClaimLapses, sender, told, left
<1>2. \/ slips' = slips /\ faults' = faults /\ \A t \in Tasks : ~Holds(t, m)
      \/ slips' = [slips EXCEPT ![m] = @ + 1] /\ faults > 0 /\ faults' = faults - 1
  BY DEF TimeComes, ClaimLapses, told, left
<1>3. /\ row'[m] = [row[m] EXCEPT !.due = TRUE] /\ row'[m] \in Row
      /\ row'[m].status = row[m].status /\ row'[m].attempts = row[m].attempts
      /\ row'[m].content = row[m].content
      /\ \A n \in Emails \ {m} : row'[n] = row[n] /\ slips'[n] = slips[n]
  <2>1. row'[m] = [row[m] EXCEPT !.due = TRUE] /\ \A n \in Emails \ {m} : row'[n] = row[n]
    BY <1>t, <1>1
  <2>2. \A n \in Emails \ {m} : slips'[n] = slips[n]
    BY <1>t, <1>2
  <2> QED
    BY <1>t, <2>1, <2>2 DEF Row
<1>4. ASSUME NEW n \in Emails, n # m PROVE EmailInv(n)' /\ Holders(n)' = Holders(n)
  BY <1>i, <1>1, <1>3, <1>4, Steady
<1>5. TypeOK'
  <2>1. row' \in [Emails -> Row] /\ slips' \in [Emails -> Nat]
    BY <1>t, <1>1, <1>2, <1>3
  <2>2. faults' \in 0..MaxFaults
    BY <1>i, <1>2, FaultSpent DEF TypeOK
  <2> QED
    BY <1>i, <1>1, <2>1, <2>2 DEF TypeOK
<1>6. Resting'
  BY <1>i, <1>1 DEF Resting, Holds
<1>7. EmailInv(m)'
  <2>1. Holders(m)' = Holders(m) /\ Trying(m)' = Trying(m)
    BY <1>1 DEF Holders, Holds, Trying
  <2>2. row[m].status \in Waiting /\ row[m].status \notin Settled \cup {"NONE"}
    BY <1>1 DEF Waiting, Settled, Given
  <2>3. Erased(m)'
    BY <1>i, <1>1, <1>3, <2>1, <2>2 DEF EmailInv, Erased, Holders
  <2>4. /\ Cardinality(Trying(m)) \in Nat /\ accepted[m] \in Nat
        /\ accepted[m] + Cardinality(Trying(m)) + (IF ToCome(m) THEN 1 ELSE 0) <= 1 + slips[m]
        /\ IsFiniteSet(Holders(m)) /\ Cardinality(Holders(m)) <= row[m].attempts
    BY <1>i, HoldersCounted DEF EmailInv, Counted
  <2>5. CASE slips' = slips /\ \A t \in Tasks : ~Holds(t, m)
    <3>1. Holders(m) = {}
      BY <2>5 DEF Holders
    <3>2. ToCome(m)
      BY <2>2, <3>1 DEF ToCome
    <3>3. accepted'[m] + Cardinality(Trying(m)') + (IF ToCome(m)' THEN 1 ELSE 0) <= 1 + slips'[m]
      BY <1>t, <1>1, <2>1, <2>4, <2>5, <3>2
    <3>4. Counted(m)'
      BY <1>3, <2>1, <2>2, <2>4, <3>3 DEF Counted
    <3>5. Truthful(m)'
      BY <1>i, <1>1, <1>3, <2>1, <2>2, <2>5, <3>1 DEF EmailInv, Truthful, Settled, Given, Waiting
    <3> QED
      BY <2>3, <3>4, <3>5 DEF EmailInv
  <2>6. CASE slips' = [slips EXCEPT ![m] = @ + 1]
    <3>1. slips'[m] = slips[m] + 1
      BY <1>t, <2>6
    <3>2. accepted'[m] + Cardinality(Trying(m)') + (IF ToCome(m)' THEN 1 ELSE 0) <= 1 + slips'[m]
      BY <1>t, <1>1, <2>1, <2>4, <3>1
    <3>3. Counted(m)'
      BY <1>3, <2>1, <2>2, <2>4, <3>2 DEF Counted
    <3>4. Truthful(m)'
      BY <1>t, <3>1 DEF Truthful
    <3> QED
      BY <2>3, <3>3, <3>4 DEF EmailInv
  <2> QED
    BY <1>2, <2>5, <2>6
<1>8. Owing'
  <2>1. owed[m] = NoTask
    BY <1>i, <1>1 DEF Owing
  <2>2. ASSUME NEW n \in Emails, owed'[n] # NoTask
        PROVE  /\ row'[n].status = "QUEUED" /\ row'[n].due /\ Holders(n)' = {}
               /\ \/ pc'[owed'[n]] \in {"sweep", "claim", "batch"}
                  \/ pc'[owed'[n]] = "last batch" /\ woken'[owed'[n]]
    <3>1. n # m /\ owed' = owed /\ pc' = pc /\ woken' = woken
      BY <1>1, <2>1, <2>2
    <3>2. row'[n] = row[n] /\ Holders(n)' = Holders(n)
      BY <1>3, <1>4, <3>1
    <3> QED
      BY <1>i, <2>2, <3>1, <3>2 DEF Owing
  <2> QED
    BY <2>2 DEF Owing
<1> QED
  BY <1>4, <1>5, <1>6, <1>7, <1>8 DEF OutboxInv

(* A task stops and loses what it holds. *)
LEMMA StopInv ==
  ASSUME OutboxInv, NEW t \in Tasks, TaskStops(t)
  PROVE  OutboxInv'
<1>i. TypeOK /\ Resting /\ Owing /\ \A n \in Emails : EmailInv(n)
  BY DEF OutboxInv
<1>t. /\ pc \in [Tasks -> {"idle", "sweep", "claim", "batch", "last batch"}]
      /\ woken \in [Tasks -> BOOLEAN] /\ slips \in [Emails -> Nat]
      /\ batch \in [Tasks -> [Emails -> Copy \cup {NotHeld}]]
      /\ owed \in [Emails -> Tasks \cup {NoTask}]
  BY <1>i DEF TypeOK
<1>1. /\ UNCHANGED <<row, asked, late, suppressed, accepted, asks, reports>>
      /\ faults > 0 /\ faults' = faults - 1
      /\ pc' = [pc EXCEPT ![t] = "idle"] /\ woken' = [woken EXCEPT ![t] = FALSE]
      /\ batch' = [batch EXCEPT ![t] = [m \in Emails |-> NotHeld]]
      /\ slips' = [m \in Emails |-> IF Holds(t, m) THEN slips[m] + 1 ELSE slips[m]]
      /\ owed' = [m \in Emails |-> IF owed[m] = t THEN NoTask ELSE owed[m]]
  BY DEF TaskStops, outbox
<1>2. /\ \A m \in Emails : batch'[t][m] = NotHeld
      /\ \A u \in Tasks \ {t} : batch'[u] = batch[u]
  <2> DEFINE b == [m \in Emails |-> NotHeld]
  <2>1. \A m \in Emails : b[m] = NotHeld
    OBVIOUS
  <2>2. batch' = [batch EXCEPT ![t] = b]
    BY <1>1
  <2> HIDE DEF b, Copy
  <2>3. batch'[t] = b /\ \A u \in Tasks \ {t} : batch'[u] = batch[u]
    BY <1>t, <2>2
  <2> QED
    BY <2>1, <2>3
<1>3. TypeOK'
  <2>1. batch' \in [Tasks -> [Emails -> Copy \cup {NotHeld}]]
    <3>1. [m \in Emails |-> NotHeld] \in [Emails -> Copy \cup {NotHeld}]
      OBVIOUS
    <3> HIDE DEF Copy
    <3> QED
      BY <1>t, <1>1, <3>1
  <2>2. slips' \in [Emails -> Nat] /\ owed' \in [Emails -> Tasks \cup {NoTask}]
    <3>1. ASSUME NEW m \in Emails PROVE (IF Holds(t, m) THEN slips[m] + 1 ELSE slips[m]) \in Nat
      <4>0. slips \in [Emails -> Nat]
        BY <1>t
      <4>1. slips[m] \in Nat
        BY <4>0
      <4>2. slips[m] + 1 \in Nat
        BY <4>1
      <4> QED
        BY <4>1, <4>2
    <3>2. slips' \in [Emails -> Nat]
      BY <1>1, <3>1
    <3>3. owed' \in [Emails -> Tasks \cup {NoTask}]
      BY <1>t, <1>1
    <3> QED
      BY <3>2, <3>3
  <2>3. /\ pc' \in [Tasks -> {"idle", "sweep", "claim", "batch", "last batch"}]
        /\ woken' \in [Tasks -> BOOLEAN]
    BY <1>t, <1>1
  <2>4. faults' \in 0..MaxFaults
    BY <1>i, <1>1, FaultSpent
  <2> QED
    BY <1>i, <1>1, <2>1, <2>2, <2>3, <2>4 DEF TypeOK
<1>4. Resting'
  BY <1>i, <1>t, <1>1, <1>2 DEF Resting, Holds
<1>5. ASSUME NEW m \in Emails PROVE EmailInv(m)' /\ Holders(m)' \subseteq Holders(m)
  <2>t. row[m] \in Row /\ slips[m] \in Nat /\ row' = row /\ accepted' = accepted
    BY <1>i, <1>1 DEF TypeOK
  <2>1. CASE ~Holds(t, m)
    <3>1. \A u \in Tasks : batch'[u][m] = batch[u][m]
      BY <1>2, <2>1 DEF Holds
    <3>2. slips'[m] = slips[m]
      BY <1>1, <2>1
    <3> QED
      BY <1>i, <2>t, <3>1, <3>2, Steady
  <2>2. CASE Holds(t, m)
    <3>1. slips'[m] = slips[m] + 1
      BY <1>1, <2>2
    <3>2. /\ Holders(m)' = Holders(m) \ {t} /\ Trying(m)' = Trying(m) \ {t}
          /\ t \in Holders(m) /\ IsFiniteSet(Holders(m)')
          /\ Cardinality(Holders(m)') = Cardinality(Holders(m)) - 1
          /\ t \in Trying(m) => Cardinality(Trying(m)') = Cardinality(Trying(m)) - 1
          /\ t \notin Trying(m) => Trying(m)' = Trying(m)
      BY <1>i, <1>2, <2>2, LettingGo
    <3>3. /\ Cardinality(Trying(m)) \in Nat /\ Cardinality(Holders(m)) \in Nat
          /\ accepted[m] \in Nat /\ row[m].attempts \in Nat
      BY <1>i, <2>t, HoldersCounted DEF EmailInv, Row
    <3>4. /\ accepted[m] + Cardinality(Trying(m)) + (IF ToCome(m) THEN 1 ELSE 0) <= 1 + slips[m]
          /\ Cardinality(Holders(m)) <= row[m].attempts
      BY <1>i DEF EmailInv, Counted
    <3>5. Cardinality(Trying(m)') <= Cardinality(Trying(m)) /\ Cardinality(Trying(m)') \in Int
      <4>1. CASE t \in Trying(m)
        BY <3>2, <3>3, <4>1
      <4>2. CASE t \notin Trying(m)
        <5>1. Trying(m)' = Trying(m)
          BY <3>2, <4>2
        <5> QED
          BY <3>3, <5>1
      <4> QED
        BY <4>1, <4>2
    <3>6. accepted'[m] + Cardinality(Trying(m)') + (IF ToCome(m)' THEN 1 ELSE 0) <= 1 + slips'[m]
      BY <2>t, <3>1, <3>3, <3>4, <3>5
    <3>7. Cardinality(Holders(m)') <= row'[m].attempts
      BY <2>t, <3>2, <3>3, <3>4
    <3>8. row[m].status # "NONE"
      BY <1>i, <3>2 DEF EmailInv, Counted
    <3>9. Counted(m)'
      BY <2>t, <3>2, <3>6, <3>7, <3>8 DEF Counted
    <3>10. Truthful(m)'
      BY <2>t, <3>1 DEF Truthful
    <3>11. Erased(m)'
      <4>1. \A u \in Holders(m)' : u \in Holders(m) /\ batch'[u][m] = batch[u][m]
        BY <1>2, <3>2 DEF Holders
      <4> QED
        BY <1>i, <2>t, <4>1 DEF EmailInv, Erased
    <3> QED
      BY <3>2, <3>9, <3>10, <3>11 DEF EmailInv
  <2> QED
    BY <2>1, <2>2
<1>6. Owing'
  <2>1. ASSUME NEW n \in Emails, owed'[n] # NoTask
        PROVE  /\ row'[n].status = "QUEUED" /\ row'[n].due /\ Holders(n)' = {}
               /\ \/ pc'[owed'[n]] \in {"sweep", "claim", "batch"}
                  \/ pc'[owed'[n]] = "last batch" /\ woken'[owed'[n]]
    <3>1. owed'[n] = owed[n] /\ owed[n] \in Tasks /\ owed[n] # t
      BY <1>t, <1>1, <2>1
    <3>2. /\ row[n].status = "QUEUED" /\ row[n].due /\ Holders(n) = {}
          /\ \/ pc[owed[n]] \in {"sweep", "claim", "batch"}
             \/ pc[owed[n]] = "last batch" /\ woken[owed[n]]
      BY <1>i, <2>1, <3>1 DEF Owing
    <3>3. row' = row /\ pc'[owed[n]] = pc[owed[n]] /\ woken'[owed[n]] = woken[owed[n]]
      BY <1>t, <1>1, <3>1
    <3>4. Holders(n)' = {}
      BY <1>5, <3>2
    <3> QED
      BY <3>1, <3>2, <3>3, <3>4
  <2> QED
    BY <2>1 DEF Owing
<1> QED
  BY <1>3, <1>4, <1>5, <1>6 DEF OutboxInv

(* A report moves a row only to a final status the transport gave it an id for. *)
LEMMA ReportWrites ==
  ASSUME OutboxInv, Report
  PROVE  /\ UNCHANGED <<asked, late, pc, woken, batch, accepted, slips, owed, asks>>
         /\ suppressed' \subseteq Addresses /\ reports' \in 0..MaxReports
         /\ faults' \in 0..MaxFaults
         /\ \/ row' = row
            \/ \E m \in Emails, outcome \in Outcomes :
                 /\ row' = [row EXCEPT ![m].status = outcome]
                 /\ row[m].status \in DeliveryOutcomeFrom(outcome)
                 /\ row[m].id \in Nat \ {0}
<1>i. TypeOK
  BY DEF OutboxInv
<1>1. PICK m \in Emails, outcome \in Outcomes :
        /\ \E id \in 1..accepted[m] :
             row' = IF row[m].id = id /\ row[m].status \in DeliveryOutcomeFrom(outcome)
                    THEN [row EXCEPT ![m].status = outcome] ELSE row
        /\ \/ /\ suppressed' = IF Suppresses(outcome) THEN suppressed \cup {To[m]} ELSE suppressed
              /\ UNCHANGED faults
           \/ /\ Suppresses(outcome) /\ UNCHANGED suppressed
              /\ faults > 0 /\ faults' = faults - 1
        /\ reports > 0 /\ reports' = reports - 1
        /\ UNCHANGED <<asked, late, sender, told, asks>>
  BY DEF Report
<1>6. faults' \in 0..MaxFaults
  <2>1. CASE UNCHANGED faults
    BY <1>i, <2>1 DEF TypeOK
  <2>2. CASE faults > 0 /\ faults' = faults - 1
    BY <1>i, <2>2, FaultSpent
  <2> QED
    BY <1>1, <2>1, <2>2
<1>2. suppressed' \subseteq Addresses
  BY <1>i, <1>1 DEF TypeOK, Addresses
<1>3. reports' \in 0..MaxReports
  <2>1. reports \in 0..MaxReports /\ MaxReports \in Nat
    BY <1>i, OutboxAssumption DEF TypeOK
  <2> QED
    BY <1>1, <2>1
<1>4. PICK id \in 1..accepted[m] :
        row' = IF row[m].id = id /\ row[m].status \in DeliveryOutcomeFrom(outcome)
               THEN [row EXCEPT ![m].status = outcome] ELSE row
  BY <1>1
<1>5. id \in Nat \ {0}
  <2>1. accepted[m] \in Nat
    BY <1>i DEF TypeOK
  <2> QED
    BY <2>1
<1> QED
  BY <1>1, <1>2, <1>3, <1>4, <1>5, <1>6 DEF sender, told

LEMMA ReportInv ==
  ASSUME OutboxInv, Report
  PROVE  OutboxInv'
<1>i. TypeOK /\ Resting /\ Owing /\ \A n \in Emails : EmailInv(n)
  BY DEF OutboxInv
<1>1. /\ UNCHANGED <<asked, late, pc, woken, batch, accepted, slips, owed, asks>>
      /\ suppressed' \subseteq Addresses /\ reports' \in 0..MaxReports
      /\ faults' \in 0..MaxFaults
  BY ReportWrites
<1>2. CASE row' = row
  <2>1. \A n \in Emails : EmailInv(n)' /\ Holders(n)' = Holders(n)
    BY <1>i, <1>1, <1>2, AllSteady
  <2>2. TypeOK'
    BY <1>i, <1>1, <1>2 DEF TypeOK
  <2>3. Resting' /\ Owing'
    BY <1>i, <1>1, <1>2, <2>1 DEF Resting, Holds, Owing
  <2> QED
    BY <2>1, <2>2, <2>3 DEF OutboxInv
<1>3. ASSUME NEW m \in Emails, NEW outcome \in Outcomes,
             row' = [row EXCEPT ![m].status = outcome],
             row[m].status \in DeliveryOutcomeFrom(outcome), row[m].id \in Nat \ {0}
      PROVE  OutboxInv'
  <2>t. row \in [Emails -> Row] /\ row[m] \in Row
    BY <1>i DEF TypeOK
  <2>o. outcome \in Settled \ {"SKIPPED"} /\ row[m].status \in Given
    BY <1>3, OutboxAssumption DEF Settled, Given, DeliveryOutcomeFrom
  <2>1. row'[m] = [row[m] EXCEPT !.status = outcome] /\ \A n \in Emails \ {m} : row'[n] = row[n]
    BY <1>3, <2>t
  <2>2. /\ row'[m] \in Row /\ row'[m].status = outcome /\ row'[m].attempts = row[m].attempts
        /\ row'[m].content = row[m].content /\ row'[m].id = row[m].id
    BY <2>t, <2>o, <2>1 DEF Row
  <2>3. TypeOK'
    <3>1. row' \in [Emails -> Row]
      BY <1>3, <2>t, <2>1, <2>2
    <3> QED
      BY <1>i, <1>1, <3>1 DEF TypeOK
  <2>4. Resting'
    BY <1>i, <1>1 DEF Resting, Holds
  <2>5. ASSUME NEW n \in Emails, n # m PROVE EmailInv(n)' /\ Holders(n)' = Holders(n)
    BY <1>i, <1>1, <2>1, <2>5, Steady
  <2>6. Holders(m)' = Holders(m) /\ Trying(m)' = Trying(m)
    BY <1>1 DEF Holders, Holds, Trying
  <2>7. Counted(m)'
    <3>1. ~ToCome(m)' /\ row'[m].status # "NONE"
      BY <2>o, <2>2 DEF ToCome, Settled, Given, Waiting
    <3>2. /\ Cardinality(Trying(m)) \in Nat /\ accepted[m] \in Nat /\ slips[m] \in Nat
          /\ accepted[m] + Cardinality(Trying(m)) + (IF ToCome(m) THEN 1 ELSE 0) <= 1 + slips[m]
          /\ IsFiniteSet(Holders(m)) /\ Cardinality(Holders(m)) <= row[m].attempts
      BY <1>i, HoldersCounted DEF EmailInv, Counted
    <3>3. accepted'[m] + Cardinality(Trying(m)') + (IF ToCome(m)' THEN 1 ELSE 0) <= 1 + slips'[m]
      BY <1>1, <2>6, <3>1, <3>2
    <3> QED
      BY <2>2, <2>6, <3>1, <3>2, <3>3 DEF Counted
  <2>8. Truthful(m)'
    <3>1. SUFFICES ASSUME slips[m] = 0 PROVE Truthful(m)'
      BY <1>1 DEF Truthful
    <3>2. accepted[m] = 1 /\ Holders(m) = {}
      <4>1. "SENDING" \notin Given
        BY DEF Given
      <4> QED
        BY <1>i, <2>o, <3>1, <4>1 DEF EmailInv, Truthful
    <3> QED
      BY <1>1, <1>3, <2>o, <2>2, <2>6, <3>2 DEF Truthful, Waiting, Settled, Given
  <2>9. Erased(m)'
    <3>1. row[m].status \in Settled
      BY <2>o DEF Settled
    <3> QED
      BY <1>i, <1>1, <2>2, <2>6, <3>1 DEF EmailInv, Erased
  <2>10. Owing'
    <3>1. owed[m] = NoTask
      <4>1. "QUEUED" \notin Given
        BY DEF Given
      <4> QED
        BY <1>i, <2>o, <4>1 DEF Owing
    <3>2. ASSUME NEW n \in Emails, owed'[n] # NoTask
          PROVE  /\ row'[n].status = "QUEUED" /\ row'[n].due /\ Holders(n)' = {}
                 /\ \/ pc'[owed'[n]] \in {"sweep", "claim", "batch"}
                    \/ pc'[owed'[n]] = "last batch" /\ woken'[owed'[n]]
      <4>1. n # m /\ owed' = owed /\ pc' = pc /\ woken' = woken
        BY <1>1, <3>1, <3>2
      <4>2. row'[n] = row[n] /\ Holders(n)' = Holders(n)
        BY <2>1, <2>5, <4>1
      <4> QED
        BY <1>i, <3>2, <4>1, <4>2 DEF Owing
    <3> QED
      BY <3>2 DEF Owing
  <2>11. EmailInv(m)'
    BY <2>7, <2>8, <2>9 DEF EmailInv
  <2> QED
    BY <2>3, <2>4, <2>5, <2>10, <2>11 DEF OutboxInv
<1> QED
  BY <1>2, <1>3, ReportWrites

-----------------------------------------------------------------------------
LEMMA InvStep == OutboxInv /\ [Next]_vars => OutboxInv'
<1> SUFFICES ASSUME OutboxInv, [Next]_vars PROVE OutboxInv'
  OBVIOUS
<1>1. CASE Record
  BY <1>1, RecordInv
<1>2. CASE \E m \in Emails : AskFor(m) \/ TimeComes(m) \/ ClaimLapses(m) \/ WindowPasses(m)
  BY <1>2, AskInv, DueInv
<1>3. ASSUME NEW t \in Tasks, Pass(t) \/ ClaimFails(t) \/ TaskStops(t) PROVE OutboxInv'
  <2>1. CASE \E m \in Emails : SendOne(t, m)
    BY <2>1, SendInv
  <2>2. CASE Tick(t) \/ EndBatch(t) \/ ClaimFails(t)
    BY <2>2, WakesInv
  <2> QED
    BY <1>3, <2>1, <2>2, SweepInv, ClaimInv, StopInv DEF Pass
<1>4. CASE Report
  BY <1>4, ReportInv
<1>5. CASE UNCHANGED vars
  <2>1. /\ UNCHANGED <<row, asked, late, suppressed, pc, woken, batch, accepted, slips, owed>>
        /\ UNCHANGED <<asks, reports, faults>>
    BY <1>5 DEF vars, outbox, sender, told, left
  <2>i. TypeOK /\ Resting /\ Owing /\ \A n \in Emails : EmailInv(n)
    BY DEF OutboxInv
  <2>2. \A n \in Emails : EmailInv(n)' /\ Holders(n)' = Holders(n)
    BY <2>1, <2>i, AllSteady
  <2>3. TypeOK'
    BY <2>1, <2>i DEF TypeOK
  <2>4. Resting' /\ Owing'
    BY <2>1, <2>2, <2>i DEF Resting, Holds, Owing
  <2> QED
    BY <2>2, <2>3, <2>4 DEF OutboxInv
<1> QED
  BY <1>1, <1>2, <1>3, <1>4, <1>5 DEF Next

LEMMA Always == Spec => []OutboxInv
BY InvInit, InvStep, PTL DEF Spec

(***************************************************************************)
(* Every variable keeps its type: that a throttle never counts a try below *)
(* none needs the invariant's count of the tries behind every holder.      *)
(***************************************************************************)
THEOREM TypesHold == Spec => []TypeOK
<1>1. OutboxInv => TypeOK
  BY DEF OutboxInv
<1> QED
  BY <1>1, Always, PTL

(***************************************************************************)
(* Whatever the tasks, the batches and the faults, the transport takes an  *)
(* email at most once more than its claims slipped.                        *)
(***************************************************************************)
THEOREM SentOnceButForSlips == Spec => []TwiceOnlyAfterASlip
<1>1. OutboxInv => TwiceOnlyAfterASlip
  <2> SUFFICES ASSUME OutboxInv, NEW m \in Emails PROVE accepted[m] <= 1 + slips[m]
    BY DEF TwiceOnlyAfterASlip
  <2>1. TypeOK /\ Counted(m)
    BY DEF OutboxInv, EmailInv
  <2>2. Cardinality(Trying(m)) \in Nat /\ accepted[m] \in Nat /\ slips[m] \in Nat
    BY <2>1, HoldersCounted
  <2>3. accepted[m] + Cardinality(Trying(m)) + (IF ToCome(m) THEN 1 ELSE 0) <= 1 + slips[m]
    BY <2>1 DEF Counted
  <2> QED
    BY <2>2, <2>3
<1> QED
  BY <1>1, Always, PTL

(***************************************************************************)
(* An outbox row never lies of an email whose claims did not slip: called  *)
(* sent it was taken, skipped, queued or given up on it was not.           *)
(***************************************************************************)
THEOREM RowsAreTrue == Spec => []OutboxTellsTheTruth
<1>1. OutboxInv => OutboxTellsTheTruth
  <2> SUFFICES ASSUME OutboxInv, NEW m \in Emails, slips[m] = 0
               PROVE  /\ row[m].status \in Given => accepted[m] = 1
                      /\ row[m].status \in {"SKIPPED", "QUEUED"} => accepted[m] = 0
                      /\ row[m].status = "FAILED" /\ row[m].id = 0 => accepted[m] = 0
    BY DEF OutboxTellsTheTruth
  <2>1. Truthful(m)
    BY DEF OutboxInv, EmailInv
  <2>2. row[m].status = "QUEUED" => accepted[m] = 0
    BY <2>1 DEF Truthful, Waiting
  <2> QED
    BY <2>1, <2>2 DEF Truthful
<1> QED
  BY <1>1, Always, PTL

(***************************************************************************)
(* No settled email keeps a secret, also when a sender that held an older  *)
(* copy of the row wrote the end of it.                                    *)
(***************************************************************************)
THEOREM NoSecretIsKept == Spec => []SecretsAreCleared
<1>1. OutboxInv => SecretsAreCleared
  BY OutboxAssumption DEF OutboxInv, EmailInv, Erased, SecretsAreCleared
<1> QED
  BY <1>1, Always, PTL

(***************************************************************************)
(* A task owed a look at a new email is never at rest: its sender is about *)
(* to claim, or knows that a wake came.                                    *)
(***************************************************************************)
THEOREM WakesAreKept == Spec => []NoWakeLost
<1>1. OutboxInv => NoWakeLost
  BY DEF OutboxInv, Owing, NoWakeLost
<1> QED
  BY <1>1, Always, PTL

(***************************************************************************)
(* What a report said last of an email without slips stands: no sender     *)
(* holds it any more, and no later report of another kind moves it.        *)
(***************************************************************************)
THEOREM ReportsAreFinal == Spec => ReportsStand
<1> DEFINE Stands == \A m \in Emails : Reported(m) /\ slips[m] = 0 => row'[m].status = row[m].status
<1>1. OutboxInv /\ [Next]_vars => [Stands]_vars
  <2> SUFFICES ASSUME OutboxInv, Next, NEW m \in Emails, Reported(m), slips[m] = 0
               PROVE  row'[m].status = row[m].status
    BY DEF vars
  <2>i. TypeOK /\ \A n \in Emails : EmailInv(n)
    BY DEF OutboxInv
  <2>t. row \in [Emails -> Row] /\ row[m] \in Row
    BY <2>i DEF TypeOK
  <2>r. row[m].status \notin Waiting \cup {"NONE"}
    BY DEF Reported, Waiting
  <2>s. row[m].status \notin {"SENT", "DELIVERED", "SKIPPED"}
    BY DEF Reported
  <2>h. \A t \in Tasks : ~Holds(t, m)
    <3>1. Holders(m) = {}
      BY <2>i, <2>r DEF EmailInv, Truthful, Waiting, Holders
    <3> QED
      BY <3>1 DEF Holders
  <2>1. CASE Record
    <3>1. PICK a \in asked :
            \/ row' = row
            \/ row[a.email] = Unrecorded /\ row' = [row EXCEPT ![a.email] = Recorded(a.skip)]
      BY <2>1 DEF Record, Records
    <3>2. row[m] # Unrecorded
      BY <2>r DEF Unrecorded
    <3> QED
      BY <2>t, <3>1, <3>2
  <2>2. CASE \E n \in Emails : AskFor(n) \/ TimeComes(n) \/ ClaimLapses(n) \/ WindowPasses(n)
    <3>1. \/ row' = row
          \/ \E n \in Emails : row[n].status \in Waiting /\ row' = [row EXCEPT ![n].due = TRUE]
      BY <2>2 DEF AskFor, TimeComes, ClaimLapses, WindowPasses
    <3> QED
      BY <2>t, <2>r, <3>1
  <2>3. ASSUME NEW t \in Tasks, Pass(t) \/ ClaimFails(t) \/ TaskStops(t)
        PROVE  row'[m].status = row[m].status
    <3>1. CASE Tick(t) \/ EndBatch(t) \/ ClaimFails(t) \/ TaskStops(t)
      BY <3>1 DEF Tick, EndBatch, ClaimFails, TaskStops, outbox
    <3>2. CASE ClearOldContent(t)
      <4>1. row'[m] = row[m] \/ row'[m] = [row[m] EXCEPT !.content = FALSE]
        BY <3>2 DEF ClearOldContent
      <4> QED
        BY <2>t, <4>1 DEF Row
    <3>3. CASE ClaimDue(t)
      <4>1. PICK S \in Claims : row' = [n \in Emails |-> IF n \in S THEN Claimed(n) ELSE row[n]]
        BY <3>3 DEF ClaimDue
      <4>2. m \notin S
        BY <2>r DEF Claims, Due
      <4> QED
        BY <4>1, <4>2
    <3>4. ASSUME NEW n \in Emails, SendOne(t, n) PROVE row'[m].status = row[m].status
      <4>1. Holds(t, n) /\ \A o \in Emails \ {n} : row'[o] = row[o]
        BY <2>i, <3>4, SendWrites
      <4> QED
        BY <2>h, <4>1
    <3> QED
      BY <2>3, <3>1, <3>2, <3>3, <3>4 DEF Pass
  <2>4. CASE Report
    <3>1. CASE row' = row
      BY <3>1
    <3>2. ASSUME NEW n \in Emails, NEW outcome \in Outcomes,
                 row' = [row EXCEPT ![n].status = outcome],
                 row[n].status \in DeliveryOutcomeFrom(outcome)
          PROVE  row'[m].status = row[m].status
      <4>1. n # m
        BY <2>s, <3>2 DEF DeliveryOutcomeFrom
      <4> QED
        BY <2>t, <3>2, <4>1
    <3> QED
      BY <2>4, <3>1, <3>2, ReportWrites
  <2> QED
    BY <2>1, <2>2, <2>3, <2>4 DEF Next
<1> QED
  BY <1>1, Always, PTL DEF Spec, ReportsStand
=============================================================================
