------------------------- MODULE AuthSessions_proofs -------------------------
(***************************************************************************)
(* What holds of AuthSessions however many requests, tokens and links      *)
(* there are, proved from the inductive invariant SessionsInv. Its heart   *)
(* is that every token lock is held by the caller that holds the member's  *)
(* row: so a rotation and a sign-out never overlap, and a sign-out that    *)
(* has changed its tokens has them all.                                    *)
(***************************************************************************)
EXTENDS AuthSessions, TLAPS

Enders == {"reuse", "revoke", "disable", "demote", "change", "confirm"}

(* The statements of its transaction a caller is past, spelt out. *)
PastMember(c) ==
  \/ req[c].op \in (Enders \ {"confirm"}) \cup {"rotate", "delete"} /\ step[c] >= 2
  \/ req[c].op = "confirm" /\ step[c] >= 3
PastTokens(c) ==
  \/ req[c].op \in (Enders \ {"confirm"}) \cup {"delete"} /\ step[c] >= 3
  \/ req[c].op = "confirm" /\ step[c] >= 5
PastLinks(c) ==
  \/ req[c].op \in {"change", "delete", "confirm"} /\ step[c] >= 4
  \/ req[c].op = "request" /\ step[c] >= 2

(* A caller with no request has no transaction, and rows are chosen for the
   statement under way only. *)
StepsMatch == \A c \in Callers :
  /\ step[c] = 0 => req[c] = NoRequest
  /\ chosen[c] # NotStarted => At(c, chosen[c].of)

(* A lock is held by a caller past the statement that takes it. *)
LocksFollowSteps ==
  /\ \A c \in Callers : memberLock = c <=> PastMember(c)
  /\ \A c \in Callers, t \in TokenIds : tokenLock[t] = c => memberLock = c
  /\ \A c \in Callers, l \in LinkIds : linkLock[l] = c =>
       PastLinks(c) \/ (req[c].op = "confirm" /\ step[c] >= 2)

(* Tokens and sessions are named once, and requests name only those there are. *)
Born(t) == token[t].state # "unborn"
RowsKnown ==
  /\ \A t \in TokenIds : token[t].session = 0 <=> ~Born(t)
  /\ \A c \in Callers, t \in TokenIds : tokenLock[t] = c => Born(t)
  /\ \A c \in Callers : chosen[c].of = "tokens" => \A t \in chosen[c].rows : Born(t)
  /\ \A c \in Callers : req[c].op = "rotate" => Born(req[c].token)
NamesKnown ==
  /\ \A t \in TokenIds : Born(t) => Born(token[t].session)
  /\ \A c \in Callers : req[c].op \in Enders => \A s \in req[c].sessions : Born(s)
  /\ \A s \in ended : Born(s)

(* The token a refresh has locked is live until it commits. *)
RotatedIsLive == \A c \in Callers :
  req[c].op = "rotate" /\ step[c] >= 3 =>
    tokenLock[req[c].token] = c /\ token[req[c].token].state = "live"

(* A sign-out spares one token, of a session it does not end ... *)
SparedIsOutside == \A c \in Callers :
  /\ req[c].op \in Enders \ {"reuse", "confirm"} /\ req[c].keep # 0 =>
       Born(req[c].keep) /\ token[req[c].keep].session \notin req[c].sessions
  /\ req[c].op = "reuse" => req[c].sessions = {req[c].session}

(* ... chooses the live tokens of all it ends, and then has them locked. *)
SignOutsReach == \A c \in Callers, t \in Live :
  req[c].op \in Enders /\ token[t].session \in req[c].sessions =>
    /\ chosen[c].of = "tokens" => t \in chosen[c].rows
    /\ PastTokens(c) => tokenLock[t] = c

(* The same for the links a change of password cancels. *)
LinksKnown ==
  /\ \A c \in Callers, l \in LinkIds : linkLock[l] = c => link[l] # "unborn"
  /\ \A c \in Callers : chosen[c].of = "links" => \A l \in chosen[c].rows : link[l] # "unborn"
  /\ \A c \in Callers : req[c].op = "confirm" => link[req[c].link] # "unborn"
  /\ \A c \in Callers : req[c].op \in {"change", "confirm"} =>
       \A l \in req[c].links : link[l] # "unborn"
  /\ \A l \in dead : link[l] # "unborn"

ClaimedIsOpen == \A c \in Callers :
  req[c].op = "confirm" /\ step[c] >= 2 =>
    linkLock[req[c].link] = c /\ link[req[c].link] = "open"

ChangesReach == \A c \in Callers, l \in OpenLinks :
  req[c].op \in {"change", "confirm"} /\ l \in req[c].links =>
    /\ chosen[c].of = "links" => l \in chosen[c].rows \/ linkLock[l] = c
    /\ PastLinks(c) => linkLock[l] = c

UsedOnce == \A l \in LinkIds :
  uses[l] <= 1 /\ (link[l] \in {"unborn", "open"} => uses[l] = 0)

SessionsInv ==
  /\ TypeOK /\ StepsMatch /\ LocksFollowSteps
  /\ RowsKnown /\ NamesKnown /\ RotatedIsLive /\ SparedIsOutside /\ SignOutsReach
  /\ OneLiveToken /\ SignedOutEverywhere
  /\ LinksKnown /\ ClaimedIsOpen /\ ChangesReach
  /\ LinksDieWithThePassword /\ UsedOnce

-----------------------------------------------------------------------------
(* What the operators of AuthSessions come to. *)

(* Where a caller is, by its request. *)
LEMMA Places ==
  ASSUME TypeOK, NEW c \in Callers
  PROVE  /\ At(c, "member") <=>
              \/ req[c].op \in (Enders \ {"confirm"}) \cup {"rotate", "delete"} /\ step[c] = 1
              \/ req[c].op = "confirm" /\ step[c] = 2
         /\ At(c, "token") <=> req[c].op = "rotate" /\ step[c] = 2
         /\ At(c, "claim") <=> req[c].op = "confirm" /\ step[c] = 1
         /\ At(c, "tokens") <=>
              \/ req[c].op \in (Enders \ {"confirm"}) \cup {"delete"} /\ step[c] = 2
              \/ req[c].op = "confirm" /\ step[c] = 4
         /\ At(c, "links") <=>
              \/ req[c].op \in {"change", "delete", "confirm"} /\ step[c] = 3
              \/ req[c].op = "request" /\ step[c] = 1
         /\ \A s : At(c, s) => step[c] \in 1..4
         /\ req[c].op \in {"rotate", "reuse", "revoke", "disable", "demote"} =>
              (Done(c) <=> step[c] >= 3)
         /\ req[c].op \in {"change", "delete"} => (Done(c) <=> step[c] >= 4)
         /\ req[c].op = "confirm" => (Done(c) <=> step[c] >= 5)
         /\ req[c].op = "request" => (Done(c) <=> step[c] >= 2)
<1>t. step[c] \in Int
  BY DEF TypeOK
<1>1. CASE req[c].op \in {"rotate"}
  <2>1. Statements(req[c].op) = <<"member", "token">>
    BY <1>1 DEF Statements
  <2>2. /\ Len(Statements(req[c].op)) = 2
        /\ Statements(req[c].op)[1] = "member" /\ Statements(req[c].op)[2] = "token"
    BY <2>1
  <2> QED
    BY <1>t, <1>1, <2>2 DEF At, Done, Enders
<1>2. CASE req[c].op \in {"reuse", "revoke", "disable", "demote"}
  <2>1. Statements(req[c].op) = <<"member", "tokens">>
    BY <1>2 DEF Statements
  <2>2. /\ Len(Statements(req[c].op)) = 2
        /\ Statements(req[c].op)[1] = "member" /\ Statements(req[c].op)[2] = "tokens"
    BY <2>1
  <2> QED
    BY <1>t, <1>2, <2>2 DEF At, Done, Enders
<1>3. CASE req[c].op \in {"change", "delete"}
  <2>1. Statements(req[c].op) = <<"member", "tokens", "links">>
    BY <1>3 DEF Statements
  <2>2. /\ Len(Statements(req[c].op)) = 3
        /\ Statements(req[c].op)[1] = "member" /\ Statements(req[c].op)[2] = "tokens" /\ Statements(req[c].op)[3] = "links"
    BY <2>1
  <2> QED
    BY <1>t, <1>3, <2>2 DEF At, Done, Enders
<1>4. CASE req[c].op \in {"confirm"}
  <2>1. Statements(req[c].op) = <<"claim", "member", "links", "tokens">>
    BY <1>4 DEF Statements
  <2>2. /\ Len(Statements(req[c].op)) = 4
        /\ Statements(req[c].op)[1] = "claim" /\ Statements(req[c].op)[2] = "member" /\ Statements(req[c].op)[3] = "links" /\ Statements(req[c].op)[4] = "tokens"
    BY <2>1
  <2> QED
    BY <1>t, <1>4, <2>2 DEF At, Done, Enders
<1>5. CASE req[c].op \in {"request"}
  <2>1. Statements(req[c].op) = <<"links">>
    BY <1>5 DEF Statements
  <2>2. /\ Len(Statements(req[c].op)) = 1
        /\ Statements(req[c].op)[1] = "links"
    BY <2>1
  <2> QED
    BY <1>t, <1>5, <2>2 DEF At, Done, Enders
<1>6. CASE req[c].op \notin Enders \cup {"rotate", "delete", "request"}
  <2>1. Statements(req[c].op) = <<>>
    BY <1>6 DEF Statements, Enders
  <2> QED
    BY <1>t, <1>6, <2>1 DEF At, Done, Enders
<1> QED
  BY <1>1, <1>2, <1>3, <1>4, <1>5, <1>6 DEF Enders

(* The fields of a request, by what it is. *)
LEMMA Fields ==
  ASSUME NEW r \in RequestSet
  PROVE  /\ r.op \in Enders \cup {"none", "login", "enable", "delete", "request", "rotate"}
         /\ r.op = "rotate" => r.token \in TokenIds
         /\ r.op = "reuse" => r.session \in TokenIds
         /\ r.op \in Enders => r.sessions \subseteq TokenIds
         /\ r.op \in Enders \ {"reuse", "confirm"} => r.keep \in TokenIds \cup {0}
         /\ r.op \in {"change", "confirm"} => r.links \subseteq LinkIds
         /\ r.op = "confirm" => r.link \in LinkIds
BY DEF RequestSet, SignOutRequest, Enders

(* The rows a statement is after are rows there are. *)
LEMMA RowsAre ==
  ASSUME TypeOK, NEW r
  PROVE  Tokens(r) \subseteq Rows /\ Live \subseteq Rows /\ Rows \subseteq TokenIds
         /\ Links(r) \subseteq LinkRows /\ OpenLinks \subseteq LinkRows /\ LinkRows \subseteq LinkIds
BY DEF Tokens, Links, Live, Rows, OpenLinks, LinkRows

LEMMA AnyIsFree == ASSUME NEW S, S # {} PROVE AnyOf(S) \in S
  BY DEF AnyOf

-----------------------------------------------------------------------------
(* Types, and the rows a request or a lock names. *)

LEMMA Restated ==
  ASSUME NEW r \in Token, NEW s \in {"live", "revoked", "deleted"}
  PROVE  /\ [r EXCEPT !.state = s] \in Token
         /\ [r EXCEPT !.state = s].state = s
         /\ [r EXCEPT !.state = s].session = r.session
BY DEF Token

Typed == TypeOK /\ RowsKnown

LEMMA NoRequestIsRequest ==
  NoRequest \in RequestSet /\ NoRequest.op = "none" /\ NotStarted.of = "nothing"
BY DEF NoRequest, RequestSet, NotStarted

LEMMA AskTyped ==
  ASSUME Typed, NEW c \in Callers, NEW r \in RequestSet, Ask(c, r),
         r.op = "rotate" => Born(r.token)
  PROVE  Typed'
<1>1. TypeOK'
  <2>1. /\ req' \in [Callers -> RequestSet] /\ step' \in [Callers -> 0..5]
        /\ requests' \in 0..MaxRequests
    BY SessionsAssumption DEF Typed, TypeOK, Ask
  <2> QED
    BY <2>1 DEF Typed, TypeOK, Ask, locks, told
<1>2. RowsKnown'
  <2>1. \A d \in Callers : req'[d] = req[d] \/ req'[d] = r
    BY DEF Typed, TypeOK, Ask
  <2>2. UNCHANGED <<token, tokenLock, chosen>>
    BY DEF Ask, locks
  <2> QED
    BY <2>1, <2>2 DEF Typed, RowsKnown, Born
<1> QED
  BY <1>1, <1>2 DEF Typed

(* Every request a caller makes is one. *)
LEMMA RequestTyped ==
  ASSUME Typed, NEW c \in Callers, Request(c)
  PROVE  \E r \in RequestSet : Ask(c, r) /\ (r.op = "rotate" => Born(r.token))
<1>s. /\ Live \subseteq TokenIds /\ OpenLinks \subseteq LinkIds /\ Rows \subseteq TokenIds
      /\ \A t \in Live : token[t].session \in TokenIds
      /\ LiveSessions \subseteq TokenIds
      /\ \A t \in TokenIds : token[t].state = "revoked" => token[t].session \in TokenIds
  BY DEF Typed, TypeOK, RowsKnown, Born, Token, Live, OpenLinks, Rows, LiveSessions
<1>1. CASE RequestLogin(c) \/ RequestEnable(c) \/ RequestDelete(c) \/ RequestLink(c)
  BY <1>1 DEF RequestLogin, RequestEnable, RequestDelete, RequestLink, RequestSet
<1>2. CASE RequestRefresh(c)
  BY <1>s, <1>2 DEF RequestRefresh, RequestSet, Live, Born
<1>3. CASE RequestWithStolenToken(c)
  <2> PICK t \in TokenIds :
        /\ token[t].state = "revoked"
        /\ Ask(c, [op |-> "reuse", session |-> token[t].session, sessions |-> {token[t].session}])
    BY <1>3 DEF RequestWithStolenToken
  <2> QED
    BY <1>s DEF RequestSet
<1>4. CASE RequestSignOut(c)
  <2> PICK op \in {"revoke", "change", "disable", "demote"} : \E keep \in KeepsOf(op) :
        Ask(c, [op |-> op, keep |-> keep, sessions |-> LiveSessions \ SessionOf(keep),
                links |-> IF op = "change" THEN OpenLinks ELSE {}])
    BY <1>4 DEF RequestSignOut
  <2> PICK keep \in KeepsOf(op) :
        Ask(c, [op |-> op, keep |-> keep, sessions |-> LiveSessions \ SessionOf(keep),
                links |-> IF op = "change" THEN OpenLinks ELSE {}])
    OBVIOUS
  <2>1. keep \in TokenIds \cup {0}
    BY <1>s DEF KeepsOf
  <2> QED
    BY <1>s, <2>1 DEF RequestSet, SignOutRequest
<1>5. CASE RequestReset(c)
  BY <1>s, <1>5 DEF RequestReset, RequestSet
<1> QED
  BY <1>1, <1>2, <1>3, <1>4, <1>5 DEF Request

(* What is left of a caller once its transaction is over. *)
LEMMA FinishTyped ==
  ASSUME Typed, NEW c \in Callers, Finish(c)
  PROVE  /\ memberLock' \in Callers \cup {Nobody}
         /\ tokenLock' \in [TokenIds -> Callers \cup {Nobody}]
         /\ linkLock' \in [LinkIds -> Callers \cup {Nobody}]
         /\ req' \in [Callers -> RequestSet]
         /\ step' \in [Callers -> 0..5]
         /\ chosen' \in [Callers -> {NotStarted} \cup [of : {"tokens"}, rows : SUBSET TokenIds]
                                          \cup [of : {"links"}, rows : SUBSET LinkIds]]
         /\ requests' \in 0..MaxRequests
         /\ \A t \in TokenIds : tokenLock'[t] \in Callers => tokenLock'[t] = tokenLock[t]
         /\ \A d \in Callers : chosen'[d].of = "tokens" => chosen'[d] = chosen[d]
         /\ \A d \in Callers : req'[d].op = "rotate" => req'[d] = req[d]
BY NoRequestIsRequest, SessionsAssumption DEF Typed, TypeOK, Finish

(* A token keeps its session, and is not unissued, whatever it becomes. *)
LEMMA ChangedRows ==
  ASSUME Typed, NEW c \in Callers, Finish(c), token' \in [TokenIds -> Token],
         \A t \in TokenIds : Born(t) => Born(t)',
         \A t \in TokenIds : token'[t].session = 0 <=> ~Born(t)'
  PROVE  RowsKnown'
<1>1. \A d \in Callers, t \in TokenIds : tokenLock'[t] = d => Born(t)'
  BY FinishTyped DEF Typed, RowsKnown
<1>2. ASSUME NEW d \in Callers, chosen'[d].of = "tokens"
      PROVE  \A t \in chosen'[d].rows : Born(t)'
  <2>1. chosen'[d] = chosen[d] /\ chosen[d].of = "tokens"
    BY <1>2, FinishTyped
  <2>2. chosen[d].rows \subseteq TokenIds
    BY <2>1, NoRequestIsRequest DEF Typed, TypeOK
  <2> QED
    BY <2>1, <2>2 DEF Typed, RowsKnown
<1>3. ASSUME NEW d \in Callers, req'[d].op = "rotate"
      PROVE  token'[req'[d].token].state # "unborn"
  <2>1. req'[d] = req[d] /\ req[d].token \in TokenIds
    BY <1>3, FinishTyped, Fields DEF Typed, TypeOK
  <2> QED
    BY <1>3, <2>1 DEF Typed, RowsKnown, Born
<1> QED
  BY <1>1, <1>2, <1>3 DEF RowsKnown, Born

LEMMA UnchangedRows ==
  ASSUME Typed, NEW c \in Callers, Finish(c), token' = token
  PROVE  RowsKnown'
BY ChangedRows DEF Typed, TypeOK, RowsKnown, Born

(* Each step keeps the types and the rows. *)
LEMMA StatementTyped ==
  ASSUME Typed, NEW c \in Callers,
         \/ LockMember(c) \/ RotateToken(c) \/ ClaimLink(c)
         \/ ChooseRows(c) \/ ChangeTokens(c) \/ ChangeLinks(c)
  PROVE  Typed'
<1>a. \A s : At(c, s) => step[c] \in 1..4
  BY Places DEF Typed
<1>t. TypeOK /\ RowsKnown
  BY DEF Typed
<1>f. /\ req[c].op = "rotate" => req[c].token \in TokenIds
      /\ req[c].op = "confirm" => req[c].link \in LinkIds
  BY Fields DEF Typed, TypeOK
<1>p. /\ At(c, "token") <=> req[c].op = "rotate" /\ step[c] = 2
      /\ At(c, "claim") <=> req[c].op = "confirm" /\ step[c] = 1
  BY Places DEF Typed
<1>r. /\ Tokens(req[c]) \subseteq Rows /\ Rows \subseteq TokenIds
      /\ Links(req[c]) \subseteq LinkRows /\ LinkRows \subseteq LinkIds
  BY RowsAre DEF Typed
<1>n. ASSUME NextStatement(c), \E s : At(c, s) PROVE step' \in [Callers -> 0..5]
  BY <1>a, <1>t, <1>n DEF NextStatement, TypeOK
<1>1. CASE LockMember(c)
  <2>1. step' \in [Callers -> 0..5] /\ memberLock' \in Callers \cup {Nobody}
    BY <1>1, <1>n DEF LockMember
  <2> QED
    BY <1>1, <1>t, <2>1 DEF LockMember, NextStatement, Typed, TypeOK, RowsKnown, Born, told
<1>2. CASE RotateToken(c)
  <2>1. /\ step' \in [Callers -> 0..5] /\ tokenLock' \in [TokenIds -> Callers \cup {Nobody}]
        /\ \A t \in TokenIds : tokenLock'[t] \in {tokenLock[t], c}
        /\ \A t \in TokenIds : tokenLock'[t] = c => tokenLock[t] = c \/ Born(t)
    BY <1>2, <1>n, <1>f, <1>p, <1>t DEF RotateToken, TypeOK, Rotatable, Born
  <2> QED
    BY <1>2, <1>t, <2>1 DEF RotateToken, NextStatement, Typed, TypeOK, RowsKnown, Born, told
<1>3. CASE ClaimLink(c)
  <2>1. step' \in [Callers -> 0..5] /\ linkLock' \in [LinkIds -> Callers \cup {Nobody}]
    BY <1>3, <1>n, <1>f, <1>p, <1>t DEF ClaimLink, TypeOK
  <2> QED
    BY <1>3, <1>t, <2>1 DEF ClaimLink, NextStatement, Typed, TypeOK, RowsKnown, Born, told
<1>4. CASE ChooseRows(c)
  <2>1. chosen' \in [Callers -> {NotStarted} \cup [of : {"tokens"}, rows : SUBSET TokenIds]
                                             \cup [of : {"links"}, rows : SUBSET LinkIds]]
    BY <1>4, <1>t, <1>r DEF ChooseRows, TypeOK
  <2>2. \A d \in Callers : chosen'[d].of = "tokens" =>
          chosen'[d] = chosen[d] \/ chosen'[d].rows = Tokens(req[c])
    BY <1>4, <1>t DEF ChooseRows, TypeOK
  <2>3. \A t \in Rows : Born(t)
    BY DEF Rows, Born
  <2>4. \A d \in Callers : chosen'[d].of = "tokens" => \A t \in chosen'[d].rows : Born(t)
    BY <1>r, <1>t, <2>2, <2>3 DEF RowsKnown
  <2>5. TypeOK'
    BY <1>4, <1>t, <2>1 DEF ChooseRows, TypeOK, locks, told
  <2>6. RowsKnown'
    BY <1>4, <1>t, <2>4 DEF ChooseRows, RowsKnown, Born, locks
  <2> QED
    BY <2>5, <2>6 DEF Typed
<1>5. CASE ChangeTokens(c)
  <2>1. /\ step' \in [Callers -> 0..5] /\ tokenLock' \in [TokenIds -> Callers \cup {Nobody}]
        /\ \A t \in TokenIds : tokenLock'[t] = tokenLock[t] \/ (tokenLock'[t] = c /\ t \in Rows)
        /\ \A d \in Callers : chosen'[d] = chosen[d] \/ chosen'[d] = NotStarted
        /\ chosen' \in [Callers -> {NotStarted} \cup [of : {"tokens"}, rows : SUBSET TokenIds]
                                         \cup [of : {"links"}, rows : SUBSET LinkIds]]
    BY <1>5, <1>n, <1>r, <1>t DEF ChangeTokens, TypeOK
  <2>2. TypeOK'
    BY <1>5, <1>t, <2>1 DEF ChangeTokens, NextStatement, TypeOK, told
  <2>3. \A t \in Rows : Born(t)
    BY DEF Rows, Born
  <2>4. token' = token /\ req' = req
    BY <1>5 DEF ChangeTokens, NextStatement
  <2>5. RowsKnown'
    BY <1>t, <2>1, <2>3, <2>4, NoRequestIsRequest DEF RowsKnown, Born
  <2> QED
    BY <2>2, <2>5 DEF Typed
<1>6. CASE ChangeLinks(c)
  <2>1. /\ step' \in [Callers -> 0..5] /\ linkLock' \in [LinkIds -> Callers \cup {Nobody}]
        /\ \A d \in Callers : chosen'[d] = chosen[d] \/ chosen'[d] = NotStarted
        /\ chosen' \in [Callers -> {NotStarted} \cup [of : {"tokens"}, rows : SUBSET TokenIds]
                                         \cup [of : {"links"}, rows : SUBSET LinkIds]]
    BY <1>6, <1>n, <1>t DEF ChangeLinks, TypeOK
  <2>2. TypeOK'
    BY <1>6, <1>t, <2>1 DEF ChangeLinks, NextStatement, TypeOK, told
  <2>3. token' = token /\ tokenLock' = tokenLock /\ req' = req
    BY <1>6 DEF ChangeLinks, NextStatement
  <2>4. RowsKnown'
    BY <1>t, <2>1, <2>3, NoRequestIsRequest DEF RowsKnown, Born
  <2> QED
    BY <2>2, <2>4 DEF Typed
<1> QED
  BY <1>1, <1>2, <1>3, <1>4, <1>5, <1>6

LEMMA CommitTyped ==
  ASSUME Typed, NEW c \in Callers,
         \/ Refuse(c) \/ Fail(c) \/ IssueTokens(c) \/ CommitRotation(c)
         \/ CommitSignOut(c) \/ CommitLink(c) \/ CommitDelete(c)
  PROVE  Typed'
<1>t. TypeOK /\ RowsKnown
  BY DEF Typed
<1>f. /\ req[c].op = "rotate" => req[c].token \in TokenIds
      /\ req[c].op = "confirm" => req[c].link \in LinkIds
      /\ req[c].op \in Enders => req[c].sessions \subseteq TokenIds
      /\ req[c].op \in {"change", "confirm"} => req[c].links \subseteq LinkIds
  BY Fields DEF Typed, TypeOK
<1>s. /\ Spare # {} => AnyOf(Spare) \in TokenIds /\ ~Born(AnyOf(Spare))
      /\ SpareLinks # {} => AnyOf(SpareLinks) \in LinkIds
  BY AnyIsFree DEF Spare, SpareLinks, Born
<1>i. TokenIds \subseteq Nat \ {0}
  BY DEF TokenIds
<1>x. ASSUME Finish(c), account' \in {"active", "inactive", "gone"}, token' \in [TokenIds -> Token],
             link' \in [LinkIds -> {"unborn", "open", "used", "cancelled", "gone"}],
             ended' \subseteq TokenIds, dead' \subseteq LinkIds, uses' \in [LinkIds -> Nat],
             \A t \in TokenIds : token'[t].state = "live" => token'[t].rotated = "never"
      PROVE  TypeOK'
  BY <1>x, FinishTyped DEF TypeOK
<1>1. CASE Refuse(c) \/ Fail(c)
  <2>1. TypeOK'
    BY <1>1, <1>t, <1>x DEF Refuse, Fail, TypeOK, told
  <2>2. RowsKnown'
    BY <1>1, UnchangedRows DEF Refuse, Fail
  <2> QED
    BY <2>1, <2>2 DEF Typed
<1>2. CASE IssueTokens(c)
  <2> DEFINE n == AnyOf(Spare)
  <2>n. n \in TokenIds /\ ~Born(n)
    BY <1>2, <1>s DEF IssueTokens
  <2> HIDE DEF n
  <2>1. /\ token' = [token EXCEPT ![n] = Issued(n)]
        /\ Finish(c) /\ UNCHANGED <<account, link, told>>
    BY <1>2 DEF IssueTokens, n
  <2>2. /\ Issued(n) \in Token /\ Issued(n).session = n /\ Issued(n).state = "live"
        /\ Issued(n).rotated = "never"
    BY <2>n DEF Issued, Token
  <2>3. /\ token' \in [TokenIds -> Token]
        /\ \A t \in TokenIds : token'[t].state = "live" => token'[t].rotated = "never"
    BY <1>t, <2>1, <2>2 DEF TypeOK
  <2>4. RowsKnown'
    BY <1>t, <1>i, <2>n, <2>1, <2>2, <2>3, ChangedRows DEF TypeOK, RowsKnown, Born
  <2>5. TypeOK'
    BY <1>t, <1>x, <2>1, <2>3 DEF TypeOK, told
  <2> QED
    BY <2>4, <2>5 DEF Typed
<1>3. CASE CommitRotation(c)
  <2> DEFINE n == AnyOf(Spare)
             t == req[c].token
  <2>n. n \in TokenIds /\ ~Born(n) /\ t \in TokenIds /\ Born(t)
    BY <1>3, <1>t, <1>s, <1>f DEF CommitRotation, RowsKnown
  <2>1. /\ token' = [token EXCEPT ![t] = Rotated(token[t]), ![n] = Issued(token[t].session)]
        /\ Finish(c) /\ UNCHANGED <<account, link, told>>
    BY <1>3 DEF CommitRotation
  <2> HIDE DEF n, t
  <2>2. token[t].session \in TokenIds /\ token[t] \in Token /\ n # t
    BY <1>t, <2>n DEF TypeOK, RowsKnown, Token
  <2> DEFINE old == Rotated(token[t])
             new == Issued(token[t].session)
  <2>3. /\ new \in Token /\ new.session = token[t].session /\ new.state = "live"
        /\ new.rotated = "never"
        /\ old \in Token /\ old.session = token[t].session /\ old.state = "revoked"
    BY <2>2 DEF Issued, Rotated, Token
  <2>4. token' = [x \in TokenIds |-> IF x = n THEN new ELSE IF x = t THEN old ELSE token[x]]
    BY <1>t, <2>n, <2>1, <2>2 DEF TypeOK
  <2> HIDE DEF old, new
  <2>5. /\ token' \in [TokenIds -> Token]
        /\ \A x \in TokenIds : token'[x].state = "live" => token'[x].rotated = "never"
    BY <1>t, <2>3, <2>4 DEF TypeOK
  <2>6. RowsKnown'
    <3>1. \A x \in TokenIds : Born(x) => Born(x)'
      BY <2>3, <2>4 DEF Born
    <3>2. \A x \in TokenIds : token'[x].session = 0 <=> ~Born(x)'
      BY <1>t, <1>i, <2>2, <2>3, <2>4 DEF RowsKnown, Born
    <3> QED
      BY <2>1, <2>5, <3>1, <3>2, ChangedRows
  <2>7. TypeOK'
    BY <1>t, <1>x, <2>1, <2>5 DEF TypeOK, told
  <2> QED
    BY <2>6, <2>7 DEF Typed
<1>4. CASE CommitSignOut(c)
  <2>1. \A t \in TokenIds : token'[t] = token[t] \/ (token'[t] = [token[t] EXCEPT !.state = "revoked"] /\ Born(t))
    BY <1>4, <1>t DEF CommitSignOut, MyTokens, RowsKnown
  <2>2. token' \in [TokenIds -> Token]
    <3>1. ASSUME NEW t \in TokenIds PROVE token'[t] \in Token
      <4>1. token[t] \in Token
        BY <1>t DEF TypeOK
      <4>2. [token[t] EXCEPT !.state = "revoked"] \in Token
        BY <4>1, Restated
      <4> QED
        BY <2>1, <4>1, <4>2
    <3> QED
      BY <1>4, <3>1 DEF CommitSignOut
  <2>3. RowsKnown'
    <3>1. \A t \in TokenIds : Born(t) => Born(t)'
      BY <1>t, <2>1, Restated DEF Born, TypeOK
    <3>2. \A t \in TokenIds : token'[t].session = token[t].session
      BY <1>t, <2>1, Restated DEF TypeOK
    <3>3. \A t \in TokenIds : ~Born(t) => ~Born(t)'
      BY <1>t, <2>1, Restated DEF Born, TypeOK
    <3> QED
      BY <1>4, <1>t, <2>2, <3>1, <3>2, <3>3, ChangedRows DEF CommitSignOut, RowsKnown
  <2>4. /\ link' \in [LinkIds -> {"unborn", "open", "used", "cancelled", "gone"}]
        /\ account' \in {"active", "inactive", "gone"}
    BY <1>4, <1>t DEF CommitSignOut, TypeOK
  <2>5. ended' \subseteq TokenIds /\ dead' \subseteq LinkIds
    BY <1>4, <1>t, <1>f DEF CommitSignOut, TypeOK, Enders
  <2>6. uses' \in [LinkIds -> Nat]
    BY <1>4, <1>t, <1>f DEF CommitSignOut, TypeOK
  <2>8. \A t \in TokenIds : token'[t].state = "live" => token'[t].rotated = "never"
    <3> SUFFICES ASSUME NEW t \in TokenIds
                 PROVE  token'[t].state = "live" => token'[t].rotated = "never"
      OBVIOUS
    <3>1. token[t] \in Token /\ (token[t].state = "live" => token[t].rotated = "never")
      BY <1>t DEF TypeOK
    <3>2. [token[t] EXCEPT !.state = "revoked"].state = "revoked"
      BY <3>1, Restated
    <3> QED
      BY <2>1, <3>1, <3>2
  <2>7. TypeOK'
    BY <1>4, <1>x, <2>2, <2>4, <2>5, <2>6, <2>8 DEF CommitSignOut
  <2> QED
    BY <2>3, <2>7 DEF Typed
<1>5. CASE CommitLink(c)
  <2>1. link' \in [LinkIds -> {"unborn", "open", "used", "cancelled", "gone"}]
    BY <1>5, <1>t DEF CommitLink, TypeOK
  <2>2. TypeOK'
    BY <1>5, <1>t, <1>x, <2>1 DEF CommitLink, TypeOK, told
  <2>3. RowsKnown'
    BY <1>5, UnchangedRows DEF CommitLink
  <2> QED
    BY <2>2, <2>3 DEF Typed
<1>6. CASE CommitDelete(c)
  <2>1. \A t \in TokenIds : token'[t] = token[t] \/ (token'[t] = [token[t] EXCEPT !.state = "deleted"] /\ Born(t))
    BY <1>6, <1>t DEF CommitDelete, MyTokens, RowsKnown
  <2>2. token' \in [TokenIds -> Token]
    <3>1. ASSUME NEW t \in TokenIds PROVE token'[t] \in Token
      <4>1. token[t] \in Token
        BY <1>t DEF TypeOK
      <4>2. [token[t] EXCEPT !.state = "deleted"] \in Token
        BY <4>1, Restated
      <4> QED
        BY <2>1, <4>1, <4>2
    <3> QED
      BY <1>6, <3>1 DEF CommitDelete
  <2>3. RowsKnown'
    <3>1. \A t \in TokenIds : Born(t) => Born(t)'
      BY <1>t, <2>1, Restated DEF Born, TypeOK
    <3>2. \A t \in TokenIds : token'[t].session = token[t].session
      BY <1>t, <2>1, Restated DEF TypeOK
    <3>3. \A t \in TokenIds : ~Born(t) => ~Born(t)'
      BY <1>t, <2>1, Restated DEF Born, TypeOK
    <3> QED
      BY <1>6, <1>t, <2>2, <3>1, <3>2, <3>3, ChangedRows DEF CommitDelete, RowsKnown
  <2>4. /\ link' \in [LinkIds -> {"unborn", "open", "used", "cancelled", "gone"}]
        /\ account' \in {"active", "inactive", "gone"}
    BY <1>6, <1>t DEF CommitDelete, TypeOK
  <2>6. \A t \in TokenIds : token'[t].state = "live" => token'[t].rotated = "never"
    <3> SUFFICES ASSUME NEW t \in TokenIds
                 PROVE  token'[t].state = "live" => token'[t].rotated = "never"
      OBVIOUS
    <3>1. token[t] \in Token /\ (token[t].state = "live" => token[t].rotated = "never")
      BY <1>t DEF TypeOK
    <3>2. [token[t] EXCEPT !.state = "deleted"].state = "deleted"
      BY <3>1, Restated
    <3> QED
      BY <2>1, <3>1, <3>2
  <2>5. TypeOK'
    BY <1>6, <1>t, <1>x, <2>2, <2>4, <2>6 DEF CommitDelete, TypeOK, told
  <2> QED
    BY <2>3, <2>5 DEF Typed
<1> QED
  BY <1>1, <1>2, <1>3, <1>4, <1>5, <1>6

LEMMA OtherTyped ==
  ASSUME Typed, \/ \E c \in Callers : EnableUser(c) \/ IssueSession(c)
                \/ Logout \/ GracePasses \/ UNCHANGED vars
  PROVE  Typed'
<1>t. TypeOK /\ RowsKnown
  BY DEF Typed
<1>1. CASE \E c \in Callers : EnableUser(c)
  <2>1. step' \in [Callers -> 0..5]
    BY <1>1, <1>t DEF EnableUser, TypeOK
  <2> QED
    BY <1>1, <1>t, <2>1 DEF EnableUser, Typed, TypeOK, RowsKnown, Born, locks, told
<1>2. CASE \E c \in Callers : IssueSession(c)
  <2>1. /\ req' \in [Callers -> RequestSet] /\ step' \in [Callers -> 0..5]
        /\ \A d \in Callers : req'[d].op = "rotate" => req'[d] = req[d]
    BY <1>2, <1>t DEF IssueSession, TypeOK, RequestSet
  <2>2. UNCHANGED <<account, token, link, locks, chosen, requests, told>>
    BY <1>2 DEF IssueSession
  <2>3. TypeOK'
    BY <1>t, <2>1, <2>2 DEF TypeOK, locks, told
  <2>4. RowsKnown'
    BY <1>t, <2>1, <2>2 DEF RowsKnown, Born, locks
  <2> QED
    BY <2>3, <2>4 DEF Typed
<1>3. CASE Logout
  <2> PICK t \in Live :
        /\ token' = [token EXCEPT ![t].state = "revoked"] /\ requests > 0 /\ requests' = requests - 1
        /\ UNCHANGED <<account, link, locks, req, step, chosen, told>>
    BY <1>3 DEF Logout
  <2> DEFINE row == [token[t] EXCEPT !.state = "revoked"]
  <2>1. t \in TokenIds /\ Born(t) /\ token[t] \in Token
    BY <1>t DEF Live, Born, TypeOK
  <2>2. row \in Token /\ row.state = "revoked" /\ row.session = token[t].session
    BY <2>1, Restated
  <2>3. token' = [token EXCEPT ![t] = row]
    BY <1>t, <2>1 DEF TypeOK
  <2> HIDE DEF row
  <2>4. /\ token' \in [TokenIds -> Token] /\ requests' \in 0..MaxRequests
        /\ \A x \in TokenIds : token'[x].state = "live" => token'[x].rotated = "never"
    BY <1>t, <2>1, <2>2, <2>3, SessionsAssumption DEF TypeOK
  <2>5. \A x \in TokenIds : (Born(x) <=> Born(x)') /\ token'[x].session = token[x].session
    BY <1>t, <2>1, <2>2, <2>3 DEF TypeOK, Born
  <2>6. TypeOK'
    BY <1>t, <2>4 DEF TypeOK, locks, told
  <2>7. RowsKnown'
    BY <1>t, <2>5 DEF TypeOK, RowsKnown, Born, locks
  <2> QED
    BY <2>6, <2>7 DEF Typed
<1>5. CASE GracePasses
  <2> PICK t \in TokenIds :
        /\ token[t].rotated = "recent"
        /\ token' = [token EXCEPT ![t].rotated = "past"]
        /\ UNCHANGED <<account, link, locks, req, step, chosen, requests, told>>
    BY <1>5 DEF GracePasses
  <2> DEFINE row == [token[t] EXCEPT !.rotated = "past"]
  <2>1. row \in Token /\ row.state = token[t].state /\ row.session = token[t].session
    BY <1>t DEF TypeOK, Token
  <2>2. token' = [token EXCEPT ![t] = row]
    BY <1>t DEF TypeOK
  <2> HIDE DEF row
  <2>3. /\ token' \in [TokenIds -> Token]
        /\ \A x \in TokenIds : token'[x].state = "live" => token'[x].rotated = "never"
    BY <1>t, <2>1, <2>2 DEF TypeOK
  <2>4. \A x \in TokenIds : (Born(x) <=> Born(x)') /\ token'[x].session = token[x].session
    BY <1>t, <2>1, <2>2 DEF TypeOK, Born
  <2>5. TypeOK'
    BY <1>t, <2>3 DEF TypeOK, locks, told
  <2>6. RowsKnown'
    BY <1>t, <2>4 DEF TypeOK, RowsKnown, Born, locks
  <2> QED
    BY <2>5, <2>6 DEF Typed
<1>4. CASE UNCHANGED vars
  BY <1>4, <1>t DEF vars, locks, told, Typed, TypeOK, RowsKnown, Born
<1> QED
  BY <1>1, <1>2, <1>3, <1>4, <1>5

LEMMA NextTyped == ASSUME Typed, [Next]_vars PROVE Typed'
<1>1. CASE \E c \in Callers : Request(c)
  BY <1>1, RequestTyped, AskTyped
<1>2. CASE \E c \in Callers : Transact(c) \/ Fail(c)
  BY <1>2, StatementTyped, CommitTyped, OtherTyped DEF Transact
<1>3. CASE Logout \/ GracePasses \/ UNCHANGED vars
  BY <1>3, OtherTyped
<1> QED
  BY <1>1, <1>2, <1>3 DEF Next

LEMMA InitTyped == Init => Typed
<1> SUFFICES ASSUME Init PROVE TypeOK /\ RowsKnown
  BY DEF Typed
<1>1. Unissued \in Token /\ Unissued.session = 0 /\ Unissued.state = "unborn"
  BY DEF Unissued, Token
<1>2. TypeOK
  BY <1>1, NoRequestIsRequest, SessionsAssumption DEF Init, TypeOK
<1>3. RowsKnown
  BY <1>1, NoRequestIsRequest, SessionsAssumption DEF Init, RowsKnown, Born
<1> QED
  BY <1>2, <1>3

(***************************************************************************)
(* Every variable keeps its type, whatever requests come and fail.         *)
(***************************************************************************)
THEOREM TypeCorrect == Spec => []TypeOK
<1>1. Typed => TypeOK
  BY DEF Typed
<1> QED
  BY <1>1, InitTyped, NextTyped, PTL DEF Spec

-----------------------------------------------------------------------------
(* Who holds which lock. *)

Held == Typed /\ StepsMatch /\ LocksFollowSteps

(* A caller without a request holds nothing. *)
LEMMA IdleHoldsNothing ==
  ASSUME Held, NEW c \in Callers, step[c] = 0
  PROVE  /\ memberLock # c /\ chosen[c] = NotStarted
         /\ \A t \in TokenIds : tokenLock[t] # c
         /\ \A l \in LinkIds : linkLock[l] # c
<1>1. ~PastMember(c) /\ ~PastLinks(c)
  BY DEF PastMember, PastLinks
<1>2. chosen[c] = NotStarted
  BY Places DEF Held, Typed, StepsMatch
<1> QED
  BY <1>1, <1>2 DEF Held, LocksFollowSteps

LEMMA AskHeld ==
  ASSUME Held, NEW c \in Callers, NEW r \in RequestSet, Ask(c, r)
  PROVE  StepsMatch' /\ LocksFollowSteps'
<1>t. TypeOK /\ StepsMatch /\ LocksFollowSteps /\ step[c] = 0
  BY DEF Held, Typed, Ask
<1>1. /\ req'[c] = r /\ step'[c] = 1
      /\ \A d \in Callers \ {c} : req'[d] = req[d] /\ step'[d] = step[d]
      /\ UNCHANGED <<memberLock, tokenLock, linkLock, chosen>>
  BY <1>t DEF Ask, TypeOK, locks
<1>2. \A d \in Callers \ {c} : PastMember(d)' = PastMember(d) /\ PastLinks(d)' = PastLinks(d)
  BY <1>1 DEF PastMember, PastLinks
<1>3. ~PastMember(c)'
  BY <1>1 DEF PastMember
<1>4. \A d \in Callers \ {c} : \A s : At(d, s)' = At(d, s)
  BY <1>1 DEF At
<1>5. StepsMatch'
  BY <1>t, <1>1, <1>4, IdleHoldsNothing DEF StepsMatch
<1>6. LocksFollowSteps'
  BY <1>t, <1>1, <1>2, <1>3, IdleHoldsNothing DEF LocksFollowSteps
<1> QED
  BY <1>5, <1>6

(* A transaction that ends, or dies, leaves no lock and no request behind. *)
LEMMA FinishHeld ==
  ASSUME Held, NEW c \in Callers, Finish(c)
  PROVE  StepsMatch' /\ LocksFollowSteps'
<1>t. TypeOK /\ StepsMatch /\ LocksFollowSteps /\ Nobody \notin Callers
  BY SessionsAssumption DEF Held, Typed
<1>1. /\ req'[c] = NoRequest /\ step'[c] = 0 /\ chosen'[c] = NotStarted
      /\ \A d \in Callers \ {c} : /\ req'[d] = req[d] /\ step'[d] = step[d]
                                  /\ chosen'[d] = chosen[d]
      /\ memberLock' = IF memberLock = c THEN Nobody ELSE memberLock
      /\ \A t \in TokenIds : tokenLock'[t] = IF tokenLock[t] = c THEN Nobody ELSE tokenLock[t]
      /\ \A l \in LinkIds : linkLock'[l] = IF linkLock[l] = c THEN Nobody ELSE linkLock[l]
  BY <1>t DEF Finish, TypeOK
<1>2. \A d \in Callers \ {c} : PastMember(d)' = PastMember(d) /\ PastLinks(d)' = PastLinks(d)
  BY <1>1 DEF PastMember, PastLinks
<1>3. ~PastMember(c)' /\ ~PastLinks(c)'
  BY <1>1 DEF PastMember, PastLinks
<1>4. \A d \in Callers \ {c} : \A s : At(d, s)' = At(d, s)
  BY <1>1 DEF At
<1>5. StepsMatch'
  BY <1>t, <1>1, <1>4 DEF StepsMatch
<1>6. LocksFollowSteps'
  BY <1>t, <1>1, <1>2, <1>3 DEF LocksFollowSteps
<1> QED
  BY <1>5, <1>6

(* Rows are chosen at the statement they are chosen for. *)
LEMMA ChosenWhere ==
  ASSUME Held, NEW c \in Callers
  PROVE  \/ chosen[c] = NotStarted
         \/ chosen[c].of = "tokens" /\ At(c, "tokens") /\ ~At(c, "links")
         \/ chosen[c].of = "links" /\ At(c, "links") /\ ~At(c, "tokens")
<1>1. chosen[c] = NotStarted \/ chosen[c].of \in {"tokens", "links"}
  BY DEF Held, Typed, TypeOK
<1>2. ~(At(c, "links") /\ At(c, "tokens"))
  BY DEF At
<1> QED
  BY <1>1, <1>2 DEF Held, StepsMatch

LEMMA NextHeld ==
  ASSUME Held, NEW c \in Callers, NextStatement(c), \E s : At(c, s),
         \A d \in Callers : chosen'[d] = IF d = c THEN NotStarted ELSE chosen[d],
         memberLock' = IF At(c, "member") THEN c ELSE memberLock,
         At(c, "member") => memberLock = Nobody,
         \A t \in TokenIds : tokenLock'[t] # tokenLock[t] =>
           tokenLock'[t] = c /\ (At(c, "token") \/ At(c, "tokens")),
         \A l \in LinkIds : linkLock'[l] # linkLock[l] =>
           linkLock'[l] = c /\ (At(c, "claim") \/ At(c, "links"))
  PROVE  StepsMatch' /\ LocksFollowSteps'
<1>t. TypeOK /\ StepsMatch /\ LocksFollowSteps /\ Nobody \notin Callers
  BY SessionsAssumption DEF Held, Typed
<1>n. /\ req' = req /\ step'[c] = step[c] + 1 /\ step[c] \in 1..4
      /\ \A d \in Callers \ {c} : step'[d] = step[d]
  BY <1>t, Places DEF NextStatement, TypeOK
<1>1. \A d \in Callers \ {c} : PastMember(d)' = PastMember(d) /\ PastLinks(d)' = PastLinks(d)
  BY <1>n DEF PastMember, PastLinks
<1>2. \A d \in Callers \ {c} : \A s : At(d, s)' = At(d, s)
  BY <1>n DEF At
<1>3. /\ PastMember(c)' <=> PastMember(c) \/ At(c, "member")
      /\ PastLinks(c) \/ At(c, "links") => PastLinks(c)'
      /\ At(c, "token") \/ At(c, "tokens") => PastMember(c)
      /\ At(c, "claim") => req[c].op = "confirm" /\ step[c] = 1
      /\ At(c, "token") \/ At(c, "tokens") => ~At(c, "member")
  BY <1>t, <1>n, Places DEF PastMember, PastLinks, Enders
<1>4. StepsMatch'
  BY <1>t, <1>n, <1>2 DEF StepsMatch
<1>5. \A d \in Callers : memberLock' = d <=> PastMember(d)'
  BY <1>t, <1>1, <1>3 DEF LocksFollowSteps
<1>6. \A d \in Callers, t \in TokenIds : tokenLock'[t] = d => memberLock' = d
  BY <1>t, <1>3 DEF LocksFollowSteps
<1>7. \A d \in Callers, l \in LinkIds : linkLock'[l] = d =>
        PastLinks(d)' \/ (req'[d].op = "confirm" /\ step'[d] >= 2)
  BY <1>t, <1>n, <1>1, <1>3 DEF LocksFollowSteps
<1>8. LocksFollowSteps'
  BY <1>5, <1>6, <1>7 DEF LocksFollowSteps
<1> QED
  BY <1>4, <1>8

LEMMA StatementHeld ==
  ASSUME Held, NEW c \in Callers,
         \/ LockMember(c) \/ RotateToken(c) \/ ClaimLink(c)
         \/ ChooseRows(c) \/ ChangeTokens(c) \/ ChangeLinks(c)
  PROVE  StepsMatch' /\ LocksFollowSteps'
<1>t. TypeOK /\ StepsMatch /\ LocksFollowSteps
  BY DEF Held, Typed
<1>p. /\ \A s \in {"token", "claim", "tokens", "links"} : At(c, s) => ~At(c, "member")
      /\ \A s \in {"member", "token", "claim"} : At(c, s) => chosen[c] = NotStarted
  BY ChosenWhere DEF At
<1>1. CASE LockMember(c)
  BY <1>1, <1>t, <1>p, NextHeld DEF LockMember, TypeOK
<1>2. CASE RotateToken(c)
  BY <1>2, <1>t, <1>p, NextHeld DEF RotateToken, TypeOK
<1>3. CASE ClaimLink(c)
  BY <1>3, <1>t, <1>p, NextHeld DEF ClaimLink, TypeOK
<1>4. CASE ChangeTokens(c)
  BY <1>4, <1>t, <1>p, NextHeld DEF ChangeTokens, TypeOK
<1>5. CASE ChangeLinks(c)
  BY <1>5, <1>t, <1>p, NextHeld DEF ChangeLinks, TypeOK
<1>6. CASE ChooseRows(c)
  <2>1. UNCHANGED <<req, step, memberLock, tokenLock, linkLock>>
    BY <1>6 DEF ChooseRows, locks
  <2>2. \A d \in Callers : PastMember(d)' = PastMember(d) /\ PastLinks(d)' = PastLinks(d)
    BY <2>1 DEF PastMember, PastLinks
  <2>3. \A d \in Callers : \A s : At(d, s)' = At(d, s)
    BY <2>1 DEF At
  <2>4. \A d \in Callers \ {c} : chosen'[d] = chosen[d]
    BY <1>6, <1>t DEF ChooseRows, TypeOK
  <2>5. At(c, chosen'[c].of)
    BY <1>6, <1>t DEF ChooseRows, TypeOK
  <2>6. step[c] # 0
    BY <2>5 DEF At
  <2>7. StepsMatch'
    BY <1>t, <2>1, <2>3, <2>4, <2>5, <2>6 DEF StepsMatch
  <2> QED
    BY <1>t, <2>1, <2>2, <2>7 DEF LocksFollowSteps
<1> QED
  BY <1>1, <1>2, <1>3, <1>4, <1>5, <1>6

LEMMA OtherHeld ==
  ASSUME Held, \/ \E c \in Callers : EnableUser(c) \/ IssueSession(c)
               \/ Logout \/ GracePasses \/ UNCHANGED vars
  PROVE  StepsMatch' /\ LocksFollowSteps'
<1>t. TypeOK /\ StepsMatch /\ LocksFollowSteps
  BY DEF Held, Typed
<1>1. CASE \E c \in Callers : EnableUser(c) \/ IssueSession(c)
  <2> PICK c \in Callers : EnableUser(c) \/ IssueSession(c)
    BY <1>1
  <2>1. /\ UNCHANGED <<memberLock, tokenLock, linkLock, chosen>>
        /\ \A d \in Callers \ {c} : req'[d] = req[d] /\ step'[d] = step[d]
        /\ req[c].op = "enable" /\ step[c] # 0 /\ step'[c] # 0
        /\ req'[c].op \in {"enable", "login"}
    BY <1>t DEF EnableUser, IssueSession, locks, TypeOK
  <2>2. \A d \in Callers : PastMember(d)' = PastMember(d) /\ PastLinks(d)' = PastLinks(d)
    BY <2>1 DEF PastMember, PastLinks, Enders
  <2>3. \A d \in Callers \ {c} : \A s : At(d, s)' = At(d, s)
    BY <2>1 DEF At
  <2>4. ~At(c, "tokens") /\ ~At(c, "links")
    BY <1>t, <2>1, Places DEF Enders
  <2>5. chosen[c] = NotStarted
    BY <2>4, ChosenWhere
  <2>6. StepsMatch'
    BY <1>t, <2>1, <2>3, <2>5 DEF StepsMatch
  <2> QED
    BY <1>t, <2>1, <2>2, <2>6 DEF LocksFollowSteps
<1>2. CASE Logout \/ GracePasses \/ UNCHANGED vars
  <2>1. UNCHANGED <<memberLock, tokenLock, linkLock, chosen, req, step>>
    BY <1>2 DEF Logout, GracePasses, vars, locks
  <2> QED
    BY <1>t, <2>1 DEF StepsMatch, LocksFollowSteps, PastMember, PastLinks, At
<1> QED
  BY <1>1, <1>2

LEMMA NextKeepsHeld == ASSUME Held, [Next]_vars PROVE Held'
<1>1. Typed'
  BY NextTyped DEF Held
<1>2. CASE \E c \in Callers : Request(c)
  BY <1>1, <1>2, RequestTyped, AskHeld DEF Held
<1>3. CASE \E c \in Callers : Transact(c) \/ Fail(c)
  <2> PICK c \in Callers : Transact(c) \/ Fail(c)
    BY <1>3
  <2>1. CASE LockMember(c) \/ RotateToken(c) \/ ClaimLink(c)
               \/ ChooseRows(c) \/ ChangeTokens(c) \/ ChangeLinks(c)
    BY <1>1, <2>1, StatementHeld DEF Held
  <2>2. CASE EnableUser(c) \/ IssueSession(c)
    BY <1>1, <2>2, OtherHeld DEF Held
  <2>3. CASE \/ Refuse(c) \/ Fail(c) \/ IssueTokens(c) \/ CommitRotation(c)
             \/ CommitSignOut(c) \/ CommitLink(c) \/ CommitDelete(c)
    <3>1. Finish(c)
      BY <2>3 DEF Refuse, Fail, IssueTokens, CommitRotation, CommitSignOut, CommitLink, CommitDelete
    <3> QED
      BY <1>1, <3>1, FinishHeld DEF Held
  <2> QED
    BY <2>1, <2>2, <2>3 DEF Transact
<1>4. CASE Logout \/ GracePasses \/ UNCHANGED vars
  BY <1>1, <1>4, OtherHeld DEF Held
<1> QED
  BY <1>2, <1>3, <1>4 DEF Next

LEMMA InitHeld == Init => Held
<1> SUFFICES ASSUME Init PROVE StepsMatch /\ LocksFollowSteps
  BY InitTyped DEF Held
<1>1. \A c \in Callers : step[c] = 0 /\ chosen[c] = NotStarted /\ req[c] = NoRequest
  BY DEF Init
<1> QED
  BY <1>1, SessionsAssumption DEF Init, StepsMatch, LocksFollowSteps, PastMember, PastLinks

(* A caller but a reset waits only for a caller that itself waits for none,
   or for one that waits only for such a caller. *)
LEMMA WaitsEnd ==
  ASSUME Held, NEW c \in Callers, NEW d \in Callers, c # d, WaitsFor(c, d),
         req[c].op # "confirm", req[d].op # "confirm"
  PROVE  \/ memberLock = d /\ At(c, "member")
         \/ At(c, "links") /\ \A e \in Callers : ~WaitsFor(d, e)
<1>t. TypeOK /\ LocksFollowSteps
  BY DEF Held, Typed
<1>c. /\ chosen[c].of = "tokens" => chosen[c].rows \subseteq TokenIds
      /\ chosen[c].of = "links" => chosen[c].rows \subseteq LinkIds
      /\ req[c].op = "rotate" => req[c].token \in TokenIds
  BY <1>t, NoRequestIsRequest, Fields DEF TypeOK
<1>1. CASE At(c, "member")
  <2>1. \A s \in {"token", "claim", "tokens", "links"} : ~At(c, s)
    BY <1>1 DEF At
  <2> QED
    BY <1>1, <2>1 DEF WaitsFor
<1>2. CASE At(c, "token") \/ At(c, "tokens")
  <2>1. memberLock = c /\ ~At(c, "member") /\ ~At(c, "links") /\ ~At(c, "claim")
    BY <1>t, <1>2, Places DEF LocksFollowSteps, PastMember, Enders
  <2>2. At(c, "token") => req[c].op = "rotate"
    BY <1>t, Places
  <2>3. PICK t \in TokenIds : tokenLock[t] = d
    BY <1>c, <1>2, <2>1, <2>2 DEF WaitsFor
  <2> QED
    BY <1>t, <2>1, <2>3 DEF LocksFollowSteps
<1>3. CASE At(c, "links")
  <2>0. \A s \in {"member", "token", "claim", "tokens"} : ~At(c, s)
    BY <1>3 DEF At
  <2>1. PICK l \in LinkIds : linkLock[l] = d
    BY <1>c, <2>0 DEF WaitsFor
  <2>2. PastLinks(d)
    BY <1>t, <2>1 DEF LocksFollowSteps
  <2>3. \A s \in {"member", "token", "claim", "tokens", "links"} : ~At(d, s)
    BY <1>t, <2>2, Places DEF PastLinks, Enders
  <2> QED
    BY <1>3, <2>3 DEF WaitsFor
<1>4. ~At(c, "claim")
  BY <1>t, Places
<1> QED
  BY <1>1, <1>2, <1>3, <1>4 DEF WaitsFor

(***************************************************************************)
(* However many requests overlap, only resets can wait in a circle: what   *)
(* every other one holds while it waits is the member's row and nothing    *)
(* that the holder of another lock still asks for.                         *)
(***************************************************************************)
THEOREM DeadlocksNeedReset == Spec => []NoCircleWithoutReset
<1>1. ASSUME Held PROVE NoCircleWithoutReset
  <2> SUFFICES ASSUME NEW C \in SUBSET Callers, C # {},
                      \A c \in C : \E d \in C : c # d /\ WaitsFor(c, d),
                      \A c \in C : req[c].op # "confirm"
               PROVE  FALSE
    BY DEF NoCircleWithoutReset
  <2>1. PICK c \in C, d \in C : c # d /\ WaitsFor(c, d)
    OBVIOUS
  <2>2. PICK e \in C : d # e /\ WaitsFor(d, e)
    OBVIOUS
  <2>3. PICK f \in C : e # f /\ WaitsFor(e, f)
    OBVIOUS
  <2>4. memberLock = d /\ At(c, "member")
    BY <1>1, <2>1, <2>2, WaitsEnd
  <2>5. memberLock = e /\ At(d, "member")
    BY <1>1, <2>2, <2>3, WaitsEnd
  <2> QED
    BY <2>2, <2>4, <2>5
<1> QED
  BY <1>1, InitHeld, NextKeepsHeld, PTL DEF Spec

-----------------------------------------------------------------------------
(* Tokens. *)

TokenSide ==
  /\ NamesKnown /\ RotatedIsLive /\ SparedIsOutside /\ SignOutsReach
  /\ OneLiveToken /\ SignedOutEverywhere

(* A caller past its sign-out's tokens, or choosing them, has the member's row. *)
LEMMA TokensNeedMember ==
  ASSUME Held, NEW c \in Callers, req[c].op \in Enders, memberLock # c
  PROVE  chosen[c].of # "tokens" /\ ~PastTokens(c)
<1>1. ~PastMember(c)
  BY DEF Held, LocksFollowSteps
<1>2. ~At(c, "tokens")
  BY <1>1, Places DEF Held, Typed, PastMember, Enders
<1>3. ~PastTokens(c)
  BY <1>1 DEF Held, Typed, TypeOK, PastMember, PastTokens, Enders
<1> QED
  BY <1>2, <1>3, ChosenWhere, NoRequestIsRequest

(***************************************************************************)
(* A step of one caller, or of none, that ends live tokens nobody else has *)
(* locked, and issues one at most: of a new session, or instead of a token *)
(* of the same session under the member's lock.                            *)
(***************************************************************************)
LEMMA TokensMove ==
  ASSUME Held, TokenSide, NEW c \in Callers \cup {Nobody}, NEW n,
         \A d \in Callers \ {c} : /\ req'[d] = req[d] /\ step'[d] = step[d]
                                  /\ chosen'[d] = chosen[d],
         c \in Callers => req'[c].op \notin Enders \cup {"rotate"},
         \A d \in Callers \ {c}, t \in TokenIds : tokenLock'[t] = d <=> tokenLock[t] = d,
         \A t \in TokenIds : Born(t) => Born(t)' /\ token'[t].session = token[t].session,
         \A t \in TokenIds : Born(t)' => Born(t) \/ t = n,
         \A t \in Live' : t \in Live \/ (t = n /\ ~Born(n)),
         \A t \in Live : t \notin Live' => tokenLock[t] \in {c, Nobody},
         n \in TokenIds /\ Born(n)' /\ ~Born(n) =>
           \/ token'[n].session = n
           \/ /\ memberLock = c /\ c \in Callers
              /\ \E u \in Live \ Live' : token'[n].session = token[u].session,
         \A s \in ended' : s \in ended \/ (s \in TokenIds /\ Born(s) /\ \A t \in Live' : token'[t].session # s)
  PROVE  TokenSide'
<1>t. TypeOK /\ RowsKnown /\ Nobody \notin Callers
  BY SessionsAssumption DEF Held, Typed
<1>l. Live \subseteq TokenIds /\ Live' \subseteq TokenIds /\ (\A t \in Live : Born(t)) /\ (\A t \in Live' : Born(t)')
  BY DEF Live, Born
<1>n. NamesKnown /\ \A d \in Callers : req[d].op \in Enders => req[d].sessions \subseteq TokenIds
  BY <1>t, Fields DEF TokenSide, TypeOK
<1>s. \A t \in TokenIds : Born(t) => token[t].session \in TokenIds
  BY <1>t DEF TypeOK, RowsKnown, Token
<1>o. \A t \in Live' : \/ t \in Live /\ token'[t].session = token[t].session /\ t # n
                       \/ t \in Live /\ token'[t].session = token[t].session /\ Born(n)
                       \/ t = n /\ ~Born(n)
  BY <1>l
<1>f. ASSUME n \in Live', ~Born(n), Born(token'[n].session), token'[n].session \in TokenIds
      PROVE  /\ memberLock = c /\ c \in Callers
             /\ \E u \in Live \ Live' : token'[n].session = token[u].session
  BY <1>l, <1>f
<1>1. NamesKnown'
  <2>1. ASSUME NEW t \in TokenIds, Born(t)' PROVE Born(token[t].session)'
    <3>1. CASE Born(t)
      BY <1>n, <1>s, <3>1 DEF NamesKnown
    <3>2. CASE ~Born(t) /\ token'[t].session = t
      BY <2>1, <3>2
    <3>3. CASE ~Born(t) /\ \E u \in Live : token'[t].session = token[u].session
      BY <1>l, <1>n, <1>s, <3>3 DEF NamesKnown
    <3> QED
      BY <2>1, <3>1, <3>2, <3>3
  <2>2. \A d \in Callers : req'[d].op \in Enders => \A s \in req'[d].sessions : Born(s)'
    BY <1>n DEF NamesKnown
  <2>3. \A s \in ended' : Born(s)'
    BY <1>n, <1>t DEF NamesKnown, TypeOK
  <2> QED
    BY <2>1, <2>2, <2>3 DEF NamesKnown
<1>2. RotatedIsLive'
  <2> SUFFICES ASSUME NEW d \in Callers, req'[d].op = "rotate", step'[d] >= 3
               PROVE  tokenLock'[req'[d].token] = d /\ token'[req'[d].token].state = "live"
    BY DEF RotatedIsLive
  <2>1. d # c /\ req'[d] = req[d] /\ step'[d] = step[d]
    OBVIOUS
  <2>2. req[d].token \in TokenIds /\ tokenLock[req[d].token] = d /\ token[req[d].token].state = "live"
    BY <1>t, <2>1, Fields DEF TokenSide, RotatedIsLive, TypeOK
  <2>3. req[d].token \in Live'
    BY <1>t, <2>1, <2>2 DEF Live
  <2> QED
    BY <2>1, <2>2, <2>3 DEF Live
<1>3. SparedIsOutside'
  <2>1. ASSUME NEW d \in Callers, req'[d].op \in Enders \ {"reuse", "confirm"}, req'[d].keep # 0
        PROVE  Born(req[d].keep)' /\ token'[req'[d].keep].session \notin req'[d].sessions
    <3>1. req'[d] = req[d] /\ req[d].keep \in TokenIds
      BY <1>t, <2>1, Fields DEF TypeOK
    <3>2. Born(req[d].keep) /\ token[req[d].keep].session \notin req[d].sessions
      BY <2>1, <3>1 DEF TokenSide, SparedIsOutside
    <3> QED
      BY <3>1, <3>2
  <2>2. ASSUME NEW d \in Callers, req'[d].op = "reuse"
        PROVE  req'[d].sessions = {req'[d].session}
    BY <2>2 DEF TokenSide, SparedIsOutside, Enders
  <2> QED
    BY <2>1, <2>2 DEF SparedIsOutside
<1>4. SignOutsReach'
  <2> SUFFICES ASSUME NEW d \in Callers, NEW t \in Live', req'[d].op \in Enders,
                      token'[t].session \in req'[d].sessions
               PROVE  /\ chosen'[d].of = "tokens" => t \in chosen'[d].rows
                      /\ PastTokens(d)' => tokenLock'[t] = d
    BY DEF SignOutsReach
  <2>1. d # c /\ req'[d] = req[d] /\ chosen'[d] = chosen[d] /\ PastTokens(d)' = PastTokens(d)
    BY DEF PastTokens
  <2>2. CASE t \in Live /\ token'[t].session = token[t].session
    BY <1>l, <2>1, <2>2 DEF TokenSide, SignOutsReach
  <2>3. CASE t = n /\ ~Born(n)
    <3>1. Born(token'[t].session) /\ token'[t].session \in TokenIds
      BY <1>n, <2>1 DEF NamesKnown
    <3>2. memberLock = c
      BY <1>f, <2>3, <3>1
    <3> QED
      BY <2>1, <3>2, TokensNeedMember
  <2> QED
    BY <1>o, <2>2, <2>3
<1>5. OneLiveToken'
  <2> SUFFICES ASSUME NEW t \in Live', NEW u \in Live', token'[t].session = token'[u].session, t # u
               PROVE  FALSE
    BY DEF OneLiveToken
  <2>1. \A x, y \in Live : token[x].session = token[y].session => x = y
    BY DEF TokenSide, OneLiveToken
  <2>2. ASSUME NEW x \in Live', x # n, n \in Live', ~Born(n), token'[x].session = token'[n].session
        PROVE  FALSE
    <3>1. x \in Live /\ token[x].session = token'[n].session
      BY <1>o, <2>2
    <3>2. Born(token'[n].session) /\ token'[n].session \in TokenIds
      BY <1>l, <1>n, <1>s, <3>1 DEF NamesKnown
    <3>3. PICK y \in Live \ Live' : token[x].session = token[y].session
      BY <1>f, <2>2, <3>1, <3>2
    <3> QED
      BY <2>1, <2>2, <3>1, <3>3
  <2> QED
    BY <1>o, <2>1, <2>2
<1>6. SignedOutEverywhere'
  <2> SUFFICES ASSUME NEW t \in Live', token'[t].session \in ended PROVE FALSE
    BY DEF SignedOutEverywhere
  <2>1. Born(token'[t].session) /\ token'[t].session \in TokenIds
    BY <1>n, <1>t DEF NamesKnown, TypeOK
  <2>2. \A x \in Live : token[x].session \notin ended
    BY DEF TokenSide, SignedOutEverywhere
  <2>3. CASE t = n /\ ~Born(n)
    BY <1>f, <2>1, <2>2, <2>3
  <2> QED
    BY <1>o, <2>2, <2>3
<1> QED
  BY <1>1, <1>2, <1>3, <1>4, <1>5, <1>6 DEF TokenSide

-----------------------------------------------------------------------------
(* What a request names when it is made. *)

NamesRows(r) ==
  /\ r.op \in Enders => \A s \in r.sessions : Born(s)
  /\ r.op \in Enders \ {"reuse", "confirm"} /\ r.keep # 0 =>
       Born(r.keep) /\ token[r.keep].session \notin r.sessions
  /\ r.op = "reuse" => r.sessions = {r.session}
  /\ r.op = "confirm" => link[r.link] # "unborn"
  /\ r.op \in {"change", "confirm"} => \A l \in r.links : link[l] # "unborn"

LEMMA RequestNames ==
  ASSUME Typed, NamesKnown, NEW c \in Callers, Request(c)
  PROVE  \E r \in RequestSet : Ask(c, r) /\ NamesRows(r)
<1>s. /\ Live \subseteq TokenIds /\ OpenLinks \subseteq LinkIds /\ Rows \subseteq TokenIds
      /\ \A t \in Live : token[t].session \in TokenIds
      /\ LiveSessions \subseteq TokenIds
      /\ \A t \in TokenIds : token[t].state = "revoked" => token[t].session \in TokenIds
  BY DEF Typed, TypeOK, RowsKnown, Born, Token, Live, OpenLinks, Rows, LiveSessions
<1>b. /\ \A s \in LiveSessions : Born(s)
      /\ \A t \in TokenIds : token[t].state = "revoked" => Born(token[t].session)
      /\ \A t \in Rows : Born(t)
      /\ \A l \in OpenLinks : link[l] # "unborn"
  BY DEF NamesKnown, Born, Live, LiveSessions, Rows, OpenLinks
<1>1. CASE RequestLogin(c) \/ RequestEnable(c) \/ RequestDelete(c) \/ RequestLink(c)
  <2>1. \E op \in {"login", "enable", "delete", "request"} : Ask(c, [op |-> op])
    BY <1>1 DEF RequestLogin, RequestEnable, RequestDelete, RequestLink
  <2>2. \A op \in {"login", "enable", "delete", "request"} :
          [op |-> op] \in RequestSet /\ NamesRows([op |-> op])
    BY DEF RequestSet, NamesRows, Enders
  <2> QED
    BY <2>1, <2>2
<1>5. CASE RequestRefresh(c)
  <2>1. \E t \in TokenIds : Ask(c, [op |-> "rotate", token |-> t])
    BY <1>s, <1>5 DEF RequestRefresh
  <2>2. \A t \in TokenIds :
          [op |-> "rotate", token |-> t] \in RequestSet /\ NamesRows([op |-> "rotate", token |-> t])
    BY DEF RequestSet, NamesRows, Enders
  <2> QED
    BY <2>1, <2>2
<1>2. CASE RequestWithStolenToken(c)
  <2> PICK t \in TokenIds :
        /\ token[t].state = "revoked"
        /\ Ask(c, [op |-> "reuse", session |-> token[t].session, sessions |-> {token[t].session}])
    BY <1>2 DEF RequestWithStolenToken
  <2> DEFINE r == [op |-> "reuse", session |-> token[t].session, sessions |-> {token[t].session}]
  <2>1. r \in RequestSet /\ NamesRows(r)
    BY <1>s, <1>b DEF RequestSet, NamesRows, Enders
  <2> QED
    BY <2>1
<1>3. CASE RequestSignOut(c)
  <2> PICK op \in {"revoke", "change", "disable", "demote"} : \E keep \in KeepsOf(op) :
        Ask(c, [op |-> op, keep |-> keep, sessions |-> LiveSessions \ SessionOf(keep),
                links |-> IF op = "change" THEN OpenLinks ELSE {}])
    BY <1>3 DEF RequestSignOut
  <2> PICK keep \in KeepsOf(op) :
        Ask(c, [op |-> op, keep |-> keep, sessions |-> LiveSessions \ SessionOf(keep),
                links |-> IF op = "change" THEN OpenLinks ELSE {}])
    OBVIOUS
  <2> DEFINE r == [op |-> op, keep |-> keep, sessions |-> LiveSessions \ SessionOf(keep),
                   links |-> IF op = "change" THEN OpenLinks ELSE {}]
  <2>1. keep \in Rows \cup {0} /\ keep \in TokenIds \cup {0}
    BY <1>s DEF KeepsOf
  <2>2. r \in RequestSet
    BY <1>s, <2>1 DEF RequestSet, SignOutRequest
  <2>3. keep # 0 => Born(keep) /\ token[keep].session \notin LiveSessions \ SessionOf(keep)
    BY <1>b, <2>1 DEF SessionOf
  <2>4. NamesRows(r)
    BY <1>b, <2>3 DEF NamesRows, Enders
  <2> QED
    BY <2>2, <2>4
<1>4. CASE RequestReset(c)
  <2> PICK l \in OpenLinks :
        Ask(c, [op |-> "confirm", link |-> l, sessions |-> LiveSessions, links |-> OpenLinks \ {l}])
    BY <1>4 DEF RequestReset
  <2> DEFINE r == [op |-> "confirm", link |-> l, sessions |-> LiveSessions, links |-> OpenLinks \ {l}]
  <2>1. r \in RequestSet /\ NamesRows(r)
    BY <1>s, <1>b DEF RequestSet, NamesRows, Enders
  <2> QED
    BY <2>1
<1> QED
  BY <1>1, <1>2, <1>3, <1>4, <1>5 DEF Request

LEMMA AskTokens ==
  ASSUME Held, TokenSide, NEW c \in Callers, NEW r \in RequestSet, Ask(c, r), NamesRows(r)
  PROVE  TokenSide'
<1>1. /\ req'[c] = r /\ step'[c] = 1 /\ chosen[c] = NotStarted
      /\ \A d \in Callers \ {c} : req'[d] = req[d] /\ step'[d] = step[d]
      /\ UNCHANGED <<token, tokenLock, chosen, ended>>
  BY IdleHoldsNothing DEF Ask, Held, Typed, TypeOK, locks, told
<1>2. NamesKnown'
  BY <1>1 DEF TokenSide, NamesKnown, Born, NamesRows
<1>3. RotatedIsLive'
  BY <1>1 DEF TokenSide, RotatedIsLive
<1>4. SparedIsOutside'
  BY <1>1 DEF TokenSide, SparedIsOutside, Born, NamesRows
<1>5. \A d \in Callers \ {c} : PastTokens(d)' = PastTokens(d)
  BY <1>1 DEF PastTokens
<1>6. ~PastTokens(c)'
  BY <1>1 DEF PastTokens
<1>7. Live' = Live
  BY <1>1 DEF Live
<1>8. SignOutsReach'
  BY <1>1, <1>5, <1>6, <1>7, NoRequestIsRequest DEF TokenSide, SignOutsReach
<1>9. OneLiveToken' /\ SignedOutEverywhere'
  BY <1>1, <1>7 DEF TokenSide, OneLiveToken, SignedOutEverywhere
<1> QED
  BY <1>2, <1>3, <1>4, <1>8, <1>9 DEF TokenSide

(* The tokens of the sessions a sign-out ends are the tokens it is after. *)
LEMMA TokensReach ==
  ASSUME Held, TokenSide, NEW c \in Callers, req[c].op \in Enders,
         NEW t \in Live, token[t].session \in req[c].sessions
  PROVE  t \in Tokens(req[c])
<1>1. t \in TokenIds /\ Born(t)
  BY DEF Live, Born
<1>2. CASE req[c].op = "reuse"
  BY <1>2 DEF TokenSide, SparedIsOutside, Tokens
<1>3. CASE req[c].op = "confirm"
  BY <1>3 DEF Tokens
<1>4. CASE req[c].op \in {"revoke", "change", "disable", "demote"}
  <2>1. t # req[c].keep
    BY <1>1, <1>4 DEF TokenSide, SparedIsOutside, Enders, TokenIds
  <2> QED
    BY <1>4, <2>1 DEF Tokens
<1> QED
  BY <1>2, <1>3, <1>4 DEF Enders

LEMMA StatementTokens ==
  ASSUME Held, Held', TokenSide, NEW c \in Callers,
         \/ LockMember(c) \/ RotateToken(c) \/ ClaimLink(c)
         \/ ChooseRows(c) \/ ChangeTokens(c) \/ ChangeLinks(c)
  PROVE  TokenSide'
<1>t. TypeOK /\ Nobody \notin Callers
  BY SessionsAssumption DEF Held, Typed
<1>u. UNCHANGED <<token, req, ended>>
  BY DEF LockMember, RotateToken, ClaimLink, ChooseRows, ChangeTokens, ChangeLinks, NextStatement, told
<1>l. Live' = Live
  BY <1>u DEF Live
<1>k. \A t \in TokenIds : tokenLock[t] \in Callers => tokenLock'[t] = tokenLock[t]
  BY <1>t DEF LockMember, RotateToken, ClaimLink, ChooseRows, ChangeTokens, ChangeLinks, TypeOK, locks
<1>d. \A d \in Callers \ {c} : step'[d] = step[d] /\ chosen'[d] = chosen[d]
  BY <1>t DEF LockMember, RotateToken, ClaimLink, ChooseRows, ChangeTokens, ChangeLinks,
              NextStatement, TypeOK
<1>1. NamesKnown' /\ SparedIsOutside' /\ OneLiveToken' /\ SignedOutEverywhere'
  BY <1>u, <1>l DEF TokenSide, NamesKnown, SparedIsOutside, OneLiveToken, SignedOutEverywhere, Born
<1>s. step[c] \in 0..5 /\ step'[c] = IF ChooseRows(c) THEN step[c] ELSE step[c] + 1
  <2>1. step[c] \in 0..5
    BY <1>t DEF TypeOK
  <2>2. ChooseRows(c) => step' = step
    BY DEF ChooseRows
  <2>3. ~ChooseRows(c) => step'[c] = step[c] + 1
    BY <1>t DEF LockMember, RotateToken, ClaimLink, ChangeTokens, ChangeLinks, NextStatement, TypeOK
  <2> QED
    BY <2>1, <2>2, <2>3
<1>2. RotatedIsLive'
  <2> SUFFICES ASSUME NEW d \in Callers, req[d].op = "rotate", step'[d] >= 3
               PROVE  tokenLock'[req[d].token] = d /\ token[req[d].token].state = "live"
    BY <1>u DEF RotatedIsLive
  <2>1. req[d].token \in TokenIds
    BY <1>t, Fields DEF TypeOK
  <2>2. CASE step[d] >= 3
    BY <1>k, <2>1, <2>2 DEF TokenSide, RotatedIsLive
  <2>3. CASE ~(step[d] >= 3)
    <3>1. d = c /\ step[c] = 2 /\ ~ChooseRows(c)
      BY <1>d, <1>s, <2>3
    <3>2. At(c, "token")
      BY <1>t, <3>1, Places
    <3>3. RotateToken(c)
      BY <3>1, <3>2 DEF LockMember, ClaimLink, ChangeTokens, ChangeLinks, At
    <3> QED
      BY <1>t, <2>1, <3>1, <3>3 DEF RotateToken, Rotatable, TypeOK
  <2> QED
    BY <2>2, <2>3
<1>3. SignOutsReach'
  <2> SUFFICES ASSUME NEW d \in Callers, NEW t \in Live, req[d].op \in Enders,
                      token[t].session \in req[d].sessions
               PROVE  /\ chosen'[d].of = "tokens" => t \in chosen'[d].rows
                      /\ PastTokens(d)' => tokenLock'[t] = d
    BY <1>u, <1>l DEF SignOutsReach
  <2>0. t \in TokenIds /\ t \in Tokens(req[d])
    BY TokensReach DEF Live
  <2>1. /\ chosen[d].of = "tokens" => t \in chosen[d].rows
        /\ PastTokens(d) => tokenLock[t] = d
    BY DEF TokenSide, SignOutsReach
  <2>2. chosen'[d].of = "tokens" => t \in chosen'[d].rows
    <3>1. CASE chosen'[d] = chosen[d] \/ chosen'[d] = NotStarted
      BY <2>1, <3>1, NoRequestIsRequest
    <3>2. CASE ChooseRows(c) /\ d = c
      BY <1>t, <2>0, <3>2 DEF ChooseRows, TypeOK
    <3> QED
      BY <1>t, <1>d, <3>1, <3>2 DEF LockMember, RotateToken, ClaimLink, ChangeTokens, ChangeLinks, TypeOK
  <2>3. ASSUME PastTokens(d)' PROVE tokenLock'[t] = d
    <3>1. CASE PastTokens(d)
      BY <1>k, <2>0, <2>1, <3>1
    <3>2. CASE ~PastTokens(d)
      <4>1. d = c /\ At(c, "tokens") /\ ~ChooseRows(c)
        BY <1>t, <1>u, <1>d, <1>s, <2>3, <3>2, Places DEF PastTokens, Enders
      <4>2. ChangeTokens(c)
        BY <4>1 DEF LockMember, RotateToken, ClaimLink, ChangeLinks, At
      <4> QED
        BY <2>0, <2>1, <4>1, <4>2 DEF ChangeTokens
    <3> QED
      BY <3>1, <3>2
  <2> QED
    BY <2>2, <2>3
<1> QED
  BY <1>1, <1>2, <1>3 DEF TokenSide

(* What a finished transaction leaves to the others, and of itself. *)
LEMMA FinishLeaves ==
  ASSUME Held, NEW c \in Callers, Finish(c)
  PROVE  /\ \A d \in Callers \ {c} : /\ req'[d] = req[d] /\ step'[d] = step[d]
                                     /\ chosen'[d] = chosen[d]
         /\ req'[c].op = "none"
         /\ \A d \in Callers \ {c}, t \in TokenIds : tokenLock'[t] = d <=> tokenLock[t] = d
         /\ \A d \in Callers \ {c}, l \in LinkIds : linkLock'[l] = d <=> linkLock[l] = d
BY NoRequestIsRequest, SessionsAssumption DEF Finish, Held, Typed, TypeOK

LEMMA CommitTokens ==
  ASSUME Held, TokenSide, NEW c \in Callers,
         \/ Refuse(c) \/ Fail(c) \/ IssueTokens(c) \/ CommitRotation(c)
         \/ CommitSignOut(c) \/ CommitLink(c) \/ CommitDelete(c)
  PROVE  TokenSide'
<1>t. TypeOK /\ RowsKnown /\ Nobody \notin Callers /\ c # Nobody /\ 0 \notin TokenIds
  BY SessionsAssumption DEF Held, Typed, TokenIds
<1>f. Finish(c)
  BY DEF Refuse, Fail, IssueTokens, CommitRotation, CommitSignOut, CommitLink, CommitDelete
<1>m. ASSUME NEW n,
             \A t \in TokenIds : Born(t) => Born(t)' /\ token'[t].session = token[t].session,
             \A t \in TokenIds : Born(t)' => Born(t) \/ t = n,
             \A t \in Live' : t \in Live \/ (t = n /\ ~Born(n)),
             \A t \in Live : t \notin Live' => tokenLock[t] \in {c, Nobody},
             n \in TokenIds /\ Born(n)' /\ ~Born(n) =>
               \/ token'[n].session = n
               \/ /\ memberLock = c /\ c \in Callers
                  /\ \E u \in Live \ Live' : token'[n].session = token[u].session,
             \A s \in ended' : \/ s \in ended
                               \/ s \in TokenIds /\ Born(s) /\ \A t \in Live' : token'[t].session # s
      PROVE  TokenSide'
  <2>1. c \in Callers \cup {Nobody} /\ req'[c].op \notin Enders \cup {"rotate"}
    BY <1>f, FinishLeaves DEF Enders
  <2> QED
    BY <1>f, <1>m, <2>1, FinishLeaves, TokensMove
<1>1. CASE Refuse(c) \/ Fail(c) \/ CommitLink(c)
  <2>1. token' = token /\ ended' = ended
    BY <1>1 DEF Refuse, Fail, CommitLink, told
  <2>2. Live' = Live /\ \A t : Born(t)' = Born(t)
    BY <2>1 DEF Live, Born
  <2> QED
    BY <1>m, <2>1, <2>2
<1>2. CASE IssueTokens(c)
  <2> DEFINE n == AnyOf(Spare)
  <2>1. n \in TokenIds /\ ~Born(n)
    BY <1>2, AnyIsFree DEF IssueTokens, Spare, Born
  <2>2. token' = [token EXCEPT ![n] = Issued(n)] /\ ended' = ended
    BY <1>2 DEF IssueTokens, told
  <2> HIDE DEF n
  <2>3. /\ token'[n].session = n /\ token'[n].state = "live"
        /\ \A t \in TokenIds \ {n} : token'[t] = token[t]
    BY <1>t, <2>1, <2>2 DEF Issued, TypeOK
  <2> QED
    BY <1>m, <2>1, <2>2, <2>3 DEF Born, Live
<1>3. CASE CommitRotation(c)
  <2> DEFINE n == AnyOf(Spare)
             t == req[c].token
  <2>1. n \in TokenIds /\ ~Born(n) /\ t \in TokenIds /\ t \in Live /\ tokenLock[t] = c /\ memberLock = c
    <3>1. n \in TokenIds /\ ~Born(n)
      BY <1>3, AnyIsFree DEF CommitRotation, Spare, Born
    <3>2. t \in TokenIds /\ step[c] >= 3 /\ req[c].op = "rotate"
      BY <1>3, <1>t, Fields, Places DEF CommitRotation, TypeOK
    <3>3. tokenLock[t] = c /\ token[t].state = "live"
      BY <3>2 DEF TokenSide, RotatedIsLive
    <3>4. memberLock = c
      BY <3>2, <3>3 DEF Held, LocksFollowSteps
    <3> QED
      BY <3>1, <3>2, <3>3, <3>4 DEF Live
  <2>2. /\ token' = [token EXCEPT ![t] = Rotated(token[t]), ![n] = Issued(token[t].session)]
        /\ ended' = ended
    BY <1>3 DEF CommitRotation, told
  <2> HIDE DEF n, t
  <2>3. n # t
    BY <2>1 DEF Live, Born
  <2>4. /\ token'[n].session = token[t].session /\ token'[n].state = "live"
        /\ token'[t].session = token[t].session /\ token'[t].state = "revoked"
        /\ \A x \in TokenIds \ {n, t} : token'[x] = token[x]
    BY <1>t, <2>1, <2>2, <2>3 DEF Issued, Rotated, TypeOK, Token
  <2>5. t \in Live \ Live'
    BY <2>1, <2>4 DEF Live
  <2>6. \A x \in TokenIds : Born(x) => Born(x)' /\ token'[x].session = token[x].session
    BY <2>1, <2>4 DEF Born
  <2>7. \A x \in TokenIds : Born(x)' => Born(x) \/ x = n
    BY <2>1, <2>4 DEF Born, Live
  <2>8. \A x \in Live' : x \in Live \/ (x = n /\ ~Born(n))
    BY <2>1, <2>4 DEF Live
  <2>9. \A x \in Live : x \notin Live' => tokenLock[x] \in {c, Nobody}
    BY <2>1, <2>4 DEF Live
  <2> QED
    BY <1>m, <2>1, <2>2, <2>4, <2>5, <2>6, <2>7, <2>8, <2>9
<1>4. CASE CommitSignOut(c) \/ CommitDelete(c)
  <2>1. \A t \in TokenIds : \/ token'[t] = token[t] /\ tokenLock[t] # c
                            \/ /\ tokenLock[t] = c /\ Born(t) /\ t \notin Live' /\ Born(t)'
                               /\ token'[t].session = token[t].session
    <3> SUFFICES ASSUME NEW t \in TokenIds
                 PROVE  \/ token'[t] = token[t] /\ tokenLock[t] # c
                        \/ /\ tokenLock[t] = c /\ Born(t) /\ t \notin Live' /\ Born(t)'
                           /\ token'[t].session = token[t].session
      OBVIOUS
    <3>1. CASE tokenLock[t] # c
      BY <1>4, <3>1 DEF CommitSignOut, CommitDelete, MyTokens
    <3>2. CASE tokenLock[t] = c
      <4>1. token'[t] = [token[t] EXCEPT !.state = "revoked"]
              \/ token'[t] = [token[t] EXCEPT !.state = "deleted"]
        BY <1>4, <3>2 DEF CommitSignOut, CommitDelete, MyTokens
      <4>2. token'[t].state \in {"revoked", "deleted"} /\ token'[t].session = token[t].session
        <5>1. token[t] \in Token
          BY <1>t DEF TypeOK
        <5> QED
          BY <4>1, <5>1, Restated
      <4> QED
        BY <1>t, <3>2, <4>2 DEF Live, Born, RowsKnown
    <3> QED
      BY <3>1, <3>2
  <2>2. \A s \in ended' : \/ s \in ended
                          \/ s \in TokenIds /\ Born(s) /\ \A t \in Live' : token'[t].session # s
    <3>1. CASE CommitDelete(c)
      BY <3>1 DEF CommitDelete, told
    <3>2. CASE CommitSignOut(c)
      <4>1. req[c].op \in Enders /\ ended' = ended \cup req[c].sessions /\ Done(c)
        BY <3>2 DEF CommitSignOut, Enders
      <4>2. PastTokens(c)
        BY <1>t, <4>1, Places DEF PastTokens, Enders, TypeOK
      <4>3. \A t \in Live : token[t].session \in req[c].sessions => tokenLock[t] = c
        BY <4>1, <4>2 DEF TokenSide, SignOutsReach
      <4>4. \A s \in req[c].sessions : s \in TokenIds /\ Born(s)
        BY <1>t, <4>1, Fields DEF TokenSide, NamesKnown, TypeOK
      <4>5. \A t \in Live' : t \in TokenIds
        BY DEF Live
      <4>6. \A t \in Live' : t \in Live /\ token'[t] = token[t] /\ tokenLock[t] # c
        BY <2>1, <4>5 DEF Live
      <4> QED
        BY <4>1, <4>3, <4>4, <4>6
    <3> QED
      BY <1>4, <3>1, <3>2
  <2>3. \A t \in TokenIds : Born(t) => Born(t)' /\ token'[t].session = token[t].session
    BY <2>1 DEF Born
  <2>4. \A t \in TokenIds : Born(t)' => Born(t)
    BY <2>1 DEF Born
  <2>5. \A t \in Live' : t \in Live
    BY <2>1 DEF Live
  <2>6. \A t \in Live : t \notin Live' => tokenLock[t] \in {c, Nobody}
    BY <2>1 DEF Live
  <2> QED
    BY <1>m, <1>t, <2>2, <2>3, <2>4, <2>5, <2>6
<1> QED
  BY <1>1, <1>2, <1>3, <1>4

LEMMA OtherTokens ==
  ASSUME Held, TokenSide, \/ \E c \in Callers : EnableUser(c) \/ IssueSession(c)
                          \/ Logout \/ GracePasses \/ UNCHANGED vars
  PROVE  TokenSide'
<1>t. TypeOK /\ RowsKnown /\ Nobody \notin Callers /\ 0 \notin TokenIds
  BY SessionsAssumption DEF Held, Typed, TokenIds
<1>m. ASSUME NEW c \in Callers \cup {Nobody},
             \A d \in Callers \ {c} : /\ req'[d] = req[d] /\ step'[d] = step[d]
                                      /\ chosen'[d] = chosen[d],
             c \in Callers => req'[c].op \notin Enders \cup {"rotate"},
             UNCHANGED <<tokenLock, ended>>,
             \A t \in TokenIds : (Born(t)' <=> Born(t)) /\ token'[t].session = token[t].session,
             \A t \in Live' : t \in Live,
             \A t \in Live : t \notin Live' => tokenLock[t] \in {c, Nobody}
      PROVE  TokenSide'
  BY <1>m, <1>t, TokensMove
<1>1. CASE \E c \in Callers : EnableUser(c) \/ IssueSession(c)
  <2> PICK c \in Callers : EnableUser(c) \/ IssueSession(c)
    BY <1>1
  <2>1. /\ UNCHANGED <<token, tokenLock, chosen, ended>>
        /\ \A d \in Callers \ {c} : req'[d] = req[d] /\ step'[d] = step[d]
        /\ req'[c].op \in {"enable", "login"}
    BY <1>t DEF EnableUser, IssueSession, locks, told, TypeOK
  <2>2. Live' = Live /\ \A t : Born(t)' = Born(t)
    BY <2>1 DEF Live, Born
  <2> QED
    BY <1>m, <2>1, <2>2 DEF Enders
<1>2. CASE Logout
  <2> PICK t \in Live : /\ tokenLock[t] = Nobody
                        /\ token' = [token EXCEPT ![t].state = "revoked"]
                        /\ UNCHANGED <<tokenLock, ended, req, step, chosen>>
    BY <1>2 DEF Logout, locks, told
  <2>1. t \in TokenIds /\ token[t] \in Token
    BY <1>t DEF Live, TypeOK
  <2>2. /\ token'[t].state = "revoked" /\ token'[t].session = token[t].session
        /\ \A x \in TokenIds \ {t} : token'[x] = token[x]
    BY <1>t, <2>1, Restated DEF TypeOK
  <2>3. \A x \in TokenIds : (Born(x)' <=> Born(x)) /\ token'[x].session = token[x].session
    BY <2>2 DEF Born, Live
  <2>4. (\A x \in Live' : x \in Live) /\ \A x \in Live : x \notin Live' => tokenLock[x] = Nobody
    BY <2>2 DEF Live
  <2> QED
    BY <1>m, <1>t, <2>3, <2>4
<1>3. CASE GracePasses \/ UNCHANGED vars
  <2>1. UNCHANGED <<tokenLock, ended, req, step, chosen>>
    BY <1>3 DEF GracePasses, vars, locks, told
  <2>2. \A x \in TokenIds : token'[x].state = token[x].state /\ token'[x].session = token[x].session
    BY <1>3, <1>t DEF GracePasses, vars, TypeOK, Token
  <2>3. \A x \in TokenIds : (Born(x)' <=> Born(x)) /\ token'[x].session = token[x].session
    BY <2>2 DEF Born
  <2>4. Live' = Live
    BY <2>2 DEF Live
  <2> QED
    BY <1>m, <1>t, <2>1, <2>3, <2>4
<1> QED
  BY <1>1, <1>2, <1>3

LEMMA NextTokens == ASSUME Held, TokenSide, [Next]_vars PROVE TokenSide'
<1>0. Held'
  BY NextKeepsHeld
<1>1. CASE \E c \in Callers : Request(c)
  BY <1>1, RequestNames, AskTokens DEF Held, TokenSide
<1>2. CASE \E c \in Callers : Transact(c) \/ Fail(c)
  BY <1>0, <1>2, StatementTokens, CommitTokens, OtherTokens DEF Transact
<1>3. CASE Logout \/ GracePasses \/ UNCHANGED vars
  BY <1>3, OtherTokens
<1> QED
  BY <1>1, <1>2, <1>3 DEF Next

LEMMA InitTokens == Init => TokenSide
<1> SUFFICES ASSUME Init PROVE TokenSide
  OBVIOUS
<1>1. Live = {} /\ (\A t \in TokenIds : ~Born(t)) /\ ended = {} /\ \A c \in Callers : req[c].op = "none"
  BY NoRequestIsRequest DEF Init, Live, Born, Unissued
<1> QED
  BY <1>1 DEF TokenSide, NamesKnown, RotatedIsLive, SparedIsOutside, SignOutsReach,
              OneLiveToken, SignedOutEverywhere, Enders

(***************************************************************************)
(* A session never has two live tokens, however many tabs refresh at once. *)
(***************************************************************************)
THEOREM RotationsMakeOne == Spec => []OneLiveToken
<1>1. TokenSide => OneLiveToken
  BY DEF TokenSide
<1> QED
  BY <1>1, InitHeld, InitTokens, NextKeepsHeld, NextTokens, PTL DEF Spec

(***************************************************************************)
(* No session a sign-out has ended has a live token, whatever refreshes    *)
(* ran beside it: none commits between its choice of rows and its end.     *)
(***************************************************************************)
THEOREM SignOutsEndSessions == Spec => []SignedOutEverywhere
<1>1. TokenSide => SignedOutEverywhere
  BY DEF TokenSide
<1> QED
  BY <1>1, InitHeld, InitTokens, NextKeepsHeld, NextTokens, PTL DEF Spec

-----------------------------------------------------------------------------
(* Reset links. *)

LinkSide == LinksKnown /\ ClaimedIsOpen /\ ChangesReach /\ LinksDieWithThePassword /\ UsedOnce

(***************************************************************************)
(* A step of one caller, or of none, that closes no link another caller    *)
(* has locked, opens none that was there, and lets one reset through a     *)
(* link at most, which it closes.                                          *)
(***************************************************************************)
LEMMA LinksMove ==
  ASSUME Held, LinkSide, NEW c \in Callers \cup {Nobody},
         \A d \in Callers \ {c} : /\ req'[d] = req[d] /\ step'[d] = step[d]
                                  /\ chosen'[d] = chosen[d],
         c \in Callers => req'[c].op \notin {"change", "confirm"}
                            /\ (chosen'[c] = chosen[c] \/ chosen'[c] = NotStarted),
         \A d \in Callers \ {c}, l \in LinkIds : linkLock'[l] = d <=> linkLock[l] = d,
         \A l \in LinkIds : linkLock'[l] \in Callers => linkLock'[l] = linkLock[l],
         \A l \in LinkIds : link[l] # "unborn" => link'[l] # "unborn",
         \A l \in LinkIds : link'[l] = "unborn" => link[l] = "unborn",
         \A l \in LinkIds : link'[l] = "open" => link[l] \in {"unborn", "open"},
         \A l \in LinkIds : link[l] = "open" /\ link'[l] # "open" => linkLock[l] \in {c, Nobody},
         \A l \in dead' : l \in dead \/ (l \in LinkIds /\ link[l] # "unborn" /\ link'[l] # "open"),
         \A l \in LinkIds : \/ uses'[l] = uses[l]
                            \/ uses[l] = 0 /\ uses'[l] = 1 /\ link'[l] \notin {"unborn", "open"}
  PROVE  LinkSide'
<1>t. TypeOK /\ Nobody \notin Callers
  BY SessionsAssumption DEF Held, Typed
<1>k. LinksKnown /\ ClaimedIsOpen /\ ChangesReach /\ LinksDieWithThePassword /\ UsedOnce
  BY DEF LinkSide
<1>f. \A d \in Callers : /\ req[d].op = "confirm" => req[d].link \in LinkIds
                         /\ req[d].op \in {"change", "confirm"} => req[d].links \subseteq LinkIds
                         /\ chosen[d].of = "links" => chosen[d].rows \subseteq LinkIds
  BY <1>t, Fields, NoRequestIsRequest DEF TypeOK
<1>d. dead \subseteq LinkIds
  BY <1>t DEF TypeOK
<1>1. LinksKnown'
  <2>1. \A d \in Callers, l \in LinkIds : linkLock'[l] = d => link'[l] # "unborn"
    BY <1>k DEF LinksKnown
  <2>2. ASSUME NEW d \in Callers, chosen'[d].of = "links"
        PROVE  \A l \in chosen'[d].rows : link'[l] # "unborn"
    <3>1. chosen'[d] = chosen[d]
      BY <2>2, NoRequestIsRequest
    <3> QED
      BY <1>k, <1>f, <2>2, <3>1 DEF LinksKnown
  <2>3. ASSUME NEW d \in Callers, req'[d].op = "confirm"
        PROVE  link'[req'[d].link] # "unborn"
    BY <1>k, <1>f, <2>3 DEF LinksKnown
  <2>4. ASSUME NEW d \in Callers, req'[d].op \in {"change", "confirm"}
        PROVE  \A l \in req'[d].links : link'[l] # "unborn"
    BY <1>k, <1>f, <2>4 DEF LinksKnown
  <2>5. \A l \in dead' : link'[l] # "unborn"
    BY <1>k, <1>d DEF LinksKnown
  <2> QED
    BY <2>1, <2>2, <2>3, <2>4, <2>5 DEF LinksKnown
<1>2. ClaimedIsOpen'
  <2> SUFFICES ASSUME NEW d \in Callers, req'[d].op = "confirm", step'[d] >= 2
               PROVE  linkLock'[req'[d].link] = d /\ link'[req'[d].link] = "open"
    BY DEF ClaimedIsOpen
  <2>1. d # c /\ req'[d] = req[d] /\ step'[d] = step[d] /\ req[d].link \in LinkIds
    BY <1>f
  <2>2. linkLock[req[d].link] = d /\ link[req[d].link] = "open"
    BY <1>k, <2>1 DEF ClaimedIsOpen
  <2> QED
    BY <1>t, <2>1, <2>2
<1>3. ChangesReach'
  <2> SUFFICES ASSUME NEW d \in Callers, NEW l \in OpenLinks', req'[d].op \in {"change", "confirm"},
                      l \in req'[d].links
               PROVE  /\ chosen'[d].of = "links" => l \in chosen'[d].rows \/ linkLock'[l] = d
                      /\ PastLinks(d)' => linkLock'[l] = d
    BY DEF ChangesReach
  <2>1. /\ d # c /\ req'[d] = req[d] /\ chosen'[d] = chosen[d] /\ PastLinks(d)' = PastLinks(d)
        /\ l \in LinkIds /\ link'[l] = "open"
    BY DEF PastLinks, OpenLinks
  <2>2. link[l] = "open"
    BY <1>k, <2>1 DEF LinksKnown
  <2> QED
    BY <1>k, <2>1, <2>2 DEF ChangesReach, OpenLinks
<1>4. LinksDieWithThePassword'
  BY <1>k, <1>d DEF LinksDieWithThePassword, LinksKnown, OpenLinks
<1>5. UsedOnce'
  BY <1>k DEF UsedOnce
<1> QED
  BY <1>1, <1>2, <1>3, <1>4, <1>5 DEF LinkSide

LEMMA AskLinks ==
  ASSUME Held, LinkSide, NEW c \in Callers, NEW r \in RequestSet, Ask(c, r), NamesRows(r)
  PROVE  LinkSide'
<1>1. /\ req'[c] = r /\ step'[c] = 1 /\ chosen[c] = NotStarted
      /\ \A d \in Callers \ {c} : req'[d] = req[d] /\ step'[d] = step[d]
      /\ UNCHANGED <<link, linkLock, chosen, dead, uses>>
  BY IdleHoldsNothing DEF Ask, Held, Typed, TypeOK, locks, told
<1>2. LinksKnown'
  BY <1>1 DEF LinkSide, LinksKnown, NamesRows
<1>3. ClaimedIsOpen'
  BY <1>1 DEF LinkSide, ClaimedIsOpen
<1>4. \A d \in Callers \ {c} : PastLinks(d)' = PastLinks(d)
  BY <1>1 DEF PastLinks
<1>5. OpenLinks' = OpenLinks
  BY <1>1 DEF OpenLinks
<1>6. req'[c].op \in {"change", "confirm"} => ~PastLinks(c)'
  BY <1>1 DEF PastLinks
<1>7. ChangesReach'
  BY <1>1, <1>4, <1>5, <1>6, NoRequestIsRequest DEF LinkSide, ChangesReach
<1>8. LinksDieWithThePassword' /\ UsedOnce'
  BY <1>1, <1>5 DEF LinkSide, LinksDieWithThePassword, UsedOnce
<1> QED
  BY <1>2, <1>3, <1>7, <1>8 DEF LinkSide

LEMMA StatementLinks ==
  ASSUME Held, LinkSide, NEW c \in Callers,
         \/ LockMember(c) \/ RotateToken(c) \/ ClaimLink(c)
         \/ ChooseRows(c) \/ ChangeTokens(c) \/ ChangeLinks(c)
  PROVE  LinkSide'
<1>t. TypeOK /\ Nobody \notin Callers
  BY SessionsAssumption DEF Held, Typed
<1>i. LinksKnown /\ ClaimedIsOpen /\ ChangesReach /\ LinksDieWithThePassword /\ UsedOnce
  BY DEF LinkSide
<1>u. UNCHANGED <<link, req, dead, uses>>
  BY DEF LockMember, RotateToken, ClaimLink, ChooseRows, ChangeTokens, ChangeLinks, NextStatement, told
<1>k. \A l \in LinkIds : linkLock[l] \in Callers => linkLock'[l] = linkLock[l]
  BY <1>t DEF LockMember, RotateToken, ClaimLink, ChooseRows, ChangeTokens, ChangeLinks, TypeOK, locks
<1>r. Links(req[c]) \subseteq LinkRows /\ (\A l \in LinkRows : l \in LinkIds /\ link[l] # "unborn")
  BY RowsAre DEF Held, Typed, LinkRows
<1>d. \A d \in Callers \ {c} : step'[d] = step[d] /\ chosen'[d] = chosen[d]
  BY <1>t DEF LockMember, RotateToken, ClaimLink, ChooseRows, ChangeTokens, ChangeLinks,
              NextStatement, TypeOK
<1>s. step[c] \in 0..5 /\ step'[c] = IF ChooseRows(c) THEN step[c] ELSE step[c] + 1
  <2>1. step[c] \in 0..5
    BY <1>t DEF TypeOK
  <2>2. ChooseRows(c) => step' = step
    BY DEF ChooseRows
  <2>3. ~ChooseRows(c) => step'[c] = step[c] + 1
    BY <1>t DEF LockMember, RotateToken, ClaimLink, ChangeTokens, ChangeLinks, NextStatement, TypeOK
  <2> QED
    BY <2>1, <2>2, <2>3
<1>1. LinksKnown'
  <2>1. ASSUME NEW d \in Callers, NEW l \in LinkIds, linkLock'[l] = d PROVE link[l] # "unborn"
    <3>1. CASE linkLock[l] = d
      BY <1>i, <3>1 DEF LinksKnown
    <3>2. CASE linkLock[l] # d
      <4>1. (ClaimLink(c) /\ l = req[c].link) \/ (ChangeLinks(c) /\ l \in Links(req[c]))
        BY <1>t, <2>1, <3>2 DEF LockMember, RotateToken, ClaimLink, ChooseRows, ChangeTokens,
                                ChangeLinks, TypeOK, locks
      <4> QED
        BY <1>r, <4>1 DEF ClaimLink, Claimable
    <3> QED
      BY <3>1, <3>2
  <2>2. ASSUME NEW d \in Callers, chosen'[d].of = "links"
        PROVE  \A l \in chosen'[d].rows : link[l] # "unborn"
    <3>1. \/ chosen'[d] = chosen[d]
          \/ chosen'[d].rows \subseteq Links(req[c])
      BY <1>t, <1>d, <2>2, NoRequestIsRequest
         DEF LockMember, RotateToken, ClaimLink, ChooseRows, ChangeTokens, ChangeLinks, TypeOK
    <3> QED
      BY <1>i, <1>r, <2>2, <3>1 DEF LinksKnown
  <2> QED
    BY <1>i, <1>u, <2>1, <2>2 DEF LinksKnown
<1>2. ClaimedIsOpen'
  <2> SUFFICES ASSUME NEW d \in Callers, req[d].op = "confirm", step'[d] >= 2
               PROVE  linkLock'[req[d].link] = d /\ link[req[d].link] = "open"
    BY <1>u DEF ClaimedIsOpen
  <2>1. req[d].link \in LinkIds
    BY <1>t, Fields DEF TypeOK
  <2>2. CASE step[d] >= 2
    BY <1>k, <1>i, <2>1, <2>2 DEF ClaimedIsOpen
  <2>3. CASE ~(step[d] >= 2)
    <3>1. d = c /\ ~ChooseRows(c) /\ step[c] = 1
      BY <1>d, <1>s, <2>3
    <3>2. At(c, "claim")
      BY <1>t, <3>1, Places
    <3>3. ClaimLink(c)
      BY <3>1, <3>2 DEF LockMember, RotateToken, ChangeTokens, ChangeLinks, At
    <3> QED
      BY <1>t, <2>1, <3>1, <3>3 DEF ClaimLink, Claimable, TypeOK
  <2> QED
    BY <2>2, <2>3
<1>3. ChangesReach'
  <2> SUFFICES ASSUME NEW d \in Callers, NEW l \in OpenLinks, req[d].op \in {"change", "confirm"},
                      l \in req[d].links
               PROVE  /\ chosen'[d].of = "links" => l \in chosen'[d].rows \/ linkLock'[l] = d
                      /\ PastLinks(d)' => linkLock'[l] = d
    BY <1>u DEF ChangesReach, OpenLinks
  <2>0. l \in LinkIds /\ l \in Links(req[d])
    BY DEF OpenLinks, Links
  <2>1. /\ chosen[d].of = "links" => l \in chosen[d].rows \/ linkLock[l] = d
        /\ PastLinks(d) => linkLock[l] = d
    BY <1>i DEF ChangesReach
  <2>2. ASSUME chosen'[d].of = "links" PROVE l \in chosen'[d].rows \/ linkLock'[l] = d
    <3>1. CASE chosen'[d] = chosen[d] \/ chosen'[d] = NotStarted
      BY <1>k, <2>0, <2>1, <2>2, <3>1, NoRequestIsRequest
    <3>2. CASE ChooseRows(c) /\ d = c
      <4>1. chosen'[c].rows = {x \in Links(req[c]) : linkLock[x] # c}
        BY <1>t, <2>2, <3>2 DEF ChooseRows, TypeOK
      <4> QED
        BY <1>k, <2>0, <3>2, <4>1
    <3> QED
      BY <1>t, <1>d, <3>1, <3>2 DEF LockMember, RotateToken, ClaimLink, ChangeTokens, ChangeLinks, TypeOK
  <2>3. ASSUME PastLinks(d)' PROVE linkLock'[l] = d
    <3>1. CASE PastLinks(d)
      BY <1>k, <2>0, <2>1, <3>1
    <3>2. CASE ~PastLinks(d)
      <4>1. d = c /\ At(c, "links") /\ ~ChooseRows(c)
        BY <1>t, <1>u, <1>d, <1>s, <2>3, <3>2, Places DEF PastLinks
      <4>2. ChangeLinks(c)
        BY <4>1 DEF LockMember, RotateToken, ClaimLink, ChangeTokens, At
      <4> QED
        BY <1>k, <2>0, <2>1, <4>1, <4>2 DEF ChangeLinks
    <3> QED
      BY <3>1, <3>2
  <2> QED
    BY <2>2, <2>3
<1>4. LinksDieWithThePassword' /\ UsedOnce'
  BY <1>i, <1>u DEF LinksDieWithThePassword, UsedOnce, OpenLinks
<1> QED
  BY <1>1, <1>2, <1>3, <1>4 DEF LinkSide

LEMMA CommitLinks ==
  ASSUME Held, LinkSide, NEW c \in Callers,
         \/ Refuse(c) \/ Fail(c) \/ IssueTokens(c) \/ CommitRotation(c)
         \/ CommitSignOut(c) \/ CommitLink(c) \/ CommitDelete(c)
  PROVE  LinkSide'
<1>t. TypeOK /\ Nobody \notin Callers /\ c # Nobody
  BY SessionsAssumption DEF Held, Typed
<1>i. LinksKnown /\ ClaimedIsOpen /\ ChangesReach /\ LinksDieWithThePassword /\ UsedOnce
  BY DEF LinkSide
<1>f. Finish(c)
  BY DEF Refuse, Fail, IssueTokens, CommitRotation, CommitSignOut, CommitLink, CommitDelete
<1>m. ASSUME \A l \in LinkIds : link[l] # "unborn" => link'[l] # "unborn",
             \A l \in LinkIds : link'[l] = "unborn" => link[l] = "unborn",
             \A l \in LinkIds : link'[l] = "open" => link[l] \in {"unborn", "open"},
             \A l \in LinkIds : link[l] = "open" /\ link'[l] # "open" => linkLock[l] \in {c, Nobody},
             \A l \in dead' : l \in dead \/ (l \in LinkIds /\ link[l] # "unborn" /\ link'[l] # "open"),
             \A l \in LinkIds : \/ uses'[l] = uses[l]
                                \/ uses[l] = 0 /\ uses'[l] = 1 /\ link'[l] \notin {"unborn", "open"}
      PROVE  LinkSide'
  <2>1. c \in Callers \cup {Nobody} /\ req'[c].op \notin {"change", "confirm"}
    BY <1>f, FinishLeaves
  <2>2. \A l \in LinkIds : linkLock'[l] \in Callers => linkLock'[l] = linkLock[l]
    BY <1>f, <1>t DEF Finish
  <2>3. chosen'[c] = NotStarted
    BY <1>f, <1>t DEF Finish, TypeOK
  <2> QED
    BY <1>f, <1>m, <2>1, <2>2, <2>3, FinishLeaves, LinksMove
<1>1. CASE Refuse(c) \/ Fail(c) \/ IssueTokens(c) \/ CommitRotation(c)
  <2>1. UNCHANGED <<link, dead, uses>>
    BY <1>1 DEF Refuse, Fail, IssueTokens, CommitRotation, told
  <2> QED
    BY <1>m, <2>1
<1>2. CASE CommitLink(c)
  <2>1. UNCHANGED <<dead, uses>>
    BY <1>2 DEF CommitLink, told
  <2>2. AnyOf(SpareLinks) \in SpareLinks
    BY <1>2, AnyIsFree DEF CommitLink
  <2>3. \A l \in LinkIds : \/ link'[l] = link[l]
                           \/ link[l] = "unborn" /\ link'[l] = "open"
                           \/ link[l] \in {"used", "cancelled"} /\ link'[l] = "gone"
                           \/ linkLock[l] = c /\ link'[l] = "cancelled"
    BY <1>2, <2>2 DEF CommitLink, MyLinks, SpareLinks
  <2>4. \A l \in LinkIds : linkLock[l] = c => link[l] # "unborn"
    BY <1>i DEF LinksKnown
  <2>5. dead \subseteq LinkIds
    BY <1>t DEF TypeOK
  <2> QED
    BY <1>m, <2>1, <2>3, <2>4, <2>5
<1>3. CASE CommitDelete(c)
  <2>1. UNCHANGED <<dead, uses>>
    BY <1>3 DEF CommitDelete, told
  <2>2. \A l \in LinkIds : link'[l] = link[l] \/ (linkLock[l] = c /\ link'[l] = "gone")
    BY <1>3 DEF CommitDelete, MyLinks
  <2>3. \A l \in LinkIds : linkLock[l] = c => link[l] # "unborn"
    BY <1>i DEF LinksKnown
  <2> QED
    BY <1>m, <2>1, <2>2, <2>3
<1>4. CASE CommitSignOut(c)
  <2>1. \A l \in LinkIds : \/ link'[l] = link[l] /\ linkLock[l] # c
                           \/ linkLock[l] = c /\ link'[l] \in {"used", "cancelled"}
    BY <1>4 DEF CommitSignOut, MyLinks
  <2>2. \A l \in LinkIds : linkLock[l] = c => link[l] # "unborn"
    BY <1>i DEF LinksKnown
  <2>3. \A l \in dead' : l \in dead \/ (l \in LinkIds /\ link[l] # "unborn" /\ link'[l] # "open")
    <3>1. CASE dead' = dead
      BY <3>1
    <3>2. CASE req[c].op \in {"change", "confirm"} /\ dead' = dead \cup req[c].links
      <4>1. PastLinks(c)
        BY <1>4, <1>t, <3>2, Places DEF CommitSignOut, PastLinks, TypeOK
      <4>2. \A l \in req[c].links : l \in LinkIds /\ link[l] # "unborn"
        BY <1>i, <1>t, <3>2, Fields DEF LinksKnown, TypeOK
      <4>3. \A l \in req[c].links : link[l] = "open" => linkLock[l] = c
        BY <1>i, <3>2, <4>1, <4>2 DEF ChangesReach, OpenLinks
      <4> QED
        BY <2>1, <3>2, <4>2, <4>3
    <3> QED
      BY <1>4, <3>1, <3>2 DEF CommitSignOut
  <2>4. \A l \in LinkIds : \/ uses'[l] = uses[l]
                           \/ uses[l] = 0 /\ uses'[l] = 1 /\ link'[l] \notin {"unborn", "open"}
    <3>1. CASE req[c].op # "confirm"
      BY <1>4, <3>1 DEF CommitSignOut
    <3>2. CASE req[c].op \in {"confirm"}
      <4>1. req[c].link \in LinkIds /\ step[c] >= 2
        BY <1>4, <1>t, <3>2, Fields, Places DEF CommitSignOut, TypeOK
      <4>2. linkLock[req[c].link] = c /\ link[req[c].link] = "open"
        BY <1>i, <3>2, <4>1 DEF ClaimedIsOpen
      <4>3. uses[req[c].link] = 0
        BY <1>i, <4>1, <4>2 DEF UsedOnce
      <4>4. uses' = [uses EXCEPT ![req[c].link] = @ + 1]
        BY <1>4, <3>2 DEF CommitSignOut
      <4> QED
        BY <1>t, <2>1, <4>1, <4>2, <4>3, <4>4 DEF TypeOK
    <3> QED
      BY <3>1, <3>2
  <2> QED
    BY <1>m, <2>1, <2>2, <2>3, <2>4
<1> QED
  BY <1>1, <1>2, <1>3, <1>4

LEMMA OtherLinks ==
  ASSUME Held, LinkSide, \/ \E c \in Callers : EnableUser(c) \/ IssueSession(c)
                         \/ Logout \/ GracePasses \/ UNCHANGED vars
  PROVE  LinkSide'
<1>t. TypeOK /\ Nobody \notin Callers
  BY SessionsAssumption DEF Held, Typed
<1>1. UNCHANGED <<link, linkLock, chosen, dead, uses>>
  BY DEF EnableUser, IssueSession, Logout, GracePasses, vars, locks, told
<1>2. \E c \in Callers \cup {Nobody} :
        /\ \A d \in Callers \ {c} : req'[d] = req[d] /\ step'[d] = step[d]
        /\ c \in Callers => req'[c].op \notin {"change", "confirm"}
  BY <1>t DEF EnableUser, IssueSession, Logout, GracePasses, vars, TypeOK
<1>3. dead \subseteq LinkIds
  BY <1>t DEF TypeOK
<1> QED
  BY <1>1, <1>2, <1>3, LinksMove DEF LinkSide, LinksKnown, LinksDieWithThePassword, OpenLinks

LEMMA NextLinks == ASSUME Held, NamesKnown, LinkSide, [Next]_vars PROVE LinkSide'
<1>1. CASE \E c \in Callers : Request(c)
  BY <1>1, RequestNames, AskLinks DEF Held
<1>2. CASE \E c \in Callers : Transact(c) \/ Fail(c)
  BY <1>2, StatementLinks, CommitLinks, OtherLinks DEF Transact
<1>3. CASE Logout \/ GracePasses \/ UNCHANGED vars
  BY <1>3, OtherLinks
<1> QED
  BY <1>1, <1>2, <1>3 DEF Next

LEMMA InitLinks == Init => LinkSide
<1> SUFFICES ASSUME Init PROVE LinkSide
  OBVIOUS
<1>1. /\ OpenLinks = {} /\ dead = {} /\ \A c \in Callers : req[c].op = "none" /\ chosen[c].of = "nothing"
      /\ \A l \in LinkIds : uses[l] = 0 /\ linkLock[l] = Nobody
  BY NoRequestIsRequest DEF Init, OpenLinks
<1> QED
  BY <1>1, SessionsAssumption DEF LinkSide, LinksKnown, ClaimedIsOpen, ChangesReach,
                                  LinksDieWithThePassword, UsedOnce

(***************************************************************************)
(* Once a password is changed, no reset link sent before can be used.      *)
(***************************************************************************)
THEOREM OldLinksAreDead == Spec => []LinksDieWithThePassword
<1>1. TokenSide => NamesKnown
  BY DEF TokenSide
<1>2. LinkSide => LinksDieWithThePassword
  BY DEF LinkSide
<1> QED
  BY <1>1, <1>2, InitHeld, InitTokens, InitLinks, NextKeepsHeld, NextTokens, NextLinks, PTL DEF Spec

(***************************************************************************)
(* One reset link lets one reset through.                                  *)
(***************************************************************************)
THEOREM LinksAreSingleUse == Spec => []LinksWorkOnce
<1>1. TokenSide => NamesKnown
  BY DEF TokenSide
<1>2. LinkSide => LinksWorkOnce
  BY DEF LinkSide, UsedOnce, LinksWorkOnce
<1> QED
  BY <1>1, <1>2, InitHeld, InitTokens, InitLinks, NextKeepsHeld, NextTokens, NextLinks, PTL DEF Spec

-----------------------------------------------------------------------------
(* The tokens implement the promise made of sessions. *)

(* Sessions only end when tokens only stop being live. *)
LEMMA TokensEnd ==
  ASSUME Typed, \A t \in TokenIds : token'[t].session = token[t].session,
         \A t \in Live' : t \in Live
  PROVE  [Promise!Next]_SessionStatus
<1> DEFINE S == {s \in TokenIds : SessionStatus[s] = "live" /\ SessionStatus'[s] # "live"}
<1>1. \A s \in TokenIds : SessionStatus[s] # "live" => SessionStatus'[s] = SessionStatus[s]
  BY DEF SessionStatus, Live
<1>2. \A s \in S : SessionStatus'[s] = "over"
  BY DEF SessionStatus, Live
<1>3. \A s \in S : SessionStatus[s] = "live"
  OBVIOUS
<1>4. \A s \in TokenIds \ S : SessionStatus'[s] = SessionStatus[s]
  BY <1>1 DEF SessionStatus
<1>5. SessionStatus' = [s \in TokenIds |-> IF s \in S THEN "over" ELSE SessionStatus[s]]
  <2>1. SessionStatus' = [s \in TokenIds |-> SessionStatus'[s]]
    BY DEF SessionStatus
  <2> QED
    BY <1>2, <1>4, <2>1
<1>6. SessionStatus = [s \in TokenIds |-> SessionStatus[s]]
  BY DEF SessionStatus
<1>7. S \subseteq TokenIds
  OBVIOUS
<1> HIDE DEF S
<1>8. CASE S = {}
  BY <1>5, <1>6, <1>8
<1>9. CASE S # {}
  BY <1>3, <1>5, <1>7, <1>9 DEF Promise!Next, Promise!End
<1> QED
  BY <1>8, <1>9

(* A new session starts, or a rotation passes one on. *)
LEMMA TokenIssued ==
  ASSUME Typed, NamesKnown, NEW n \in TokenIds, ~Born(n), token'[n].state = "live",
         \A t \in TokenIds \ {n} : token'[t].session = token[t].session,
         \/ token'[n].session = n /\ \A t \in TokenIds \ {n} : token'[t].state = token[t].state
         \/ \E u \in Live : /\ token'[n].session = token[u].session
                            /\ \A t \in TokenIds \ {n, u} : token'[t].state = token[t].state
  PROVE  [Promise!Next]_SessionStatus
<1>0. /\ \A t \in TokenIds : token[t].session \in TokenIds => Born(token[t].session)
      /\ token[n].session = 0 /\ 0 \notin TokenIds
  BY DEF Typed, TypeOK, Token, RowsKnown, NamesKnown, TokenIds
<1>1. SessionStatus = [s \in TokenIds |-> SessionStatus[s]] /\ SessionStatus' = [s \in TokenIds |-> SessionStatus'[s]]
  BY DEF SessionStatus
<1>2. CASE token'[n].session = n /\ \A t \in TokenIds \ {n} : token'[t].state = token[t].state
  <2>1. SessionStatus[n] = "unborn" /\ SessionStatus'[n] = "live"
    BY <1>0, <1>2 DEF SessionStatus, Live
  <2>2. ASSUME NEW s \in TokenIds \ {n} PROVE SessionStatus'[s] = SessionStatus[s]
    <3>1. \A t \in TokenIds : token'[t].session = s <=> token[t].session = s
      BY <1>0, <1>2
    <3>2. \A t \in TokenIds : token[t].session = s => token'[t].state = token[t].state
      BY <1>0, <1>2
    <3> QED
      BY <3>1, <3>2 DEF SessionStatus, Live
  <2>3. SessionStatus' = [SessionStatus EXCEPT ![n] = "live"]
    BY <1>1, <2>1, <2>2
  <2> QED
    BY <2>1, <2>3 DEF Promise!Next, Promise!Start
<1>3. CASE \E u \in Live : /\ token'[n].session = token[u].session
                           /\ \A t \in TokenIds \ {n, u} : token'[t].state = token[t].state
  <2> PICK u \in Live : /\ token'[n].session = token[u].session
                        /\ \A t \in TokenIds \ {n, u} : token'[t].state = token[t].state
    BY <1>3
  <2>1. u # n /\ u \in TokenIds /\ n \in Live'
    BY DEF Live, Born
  <2>2. ASSUME NEW s \in TokenIds PROVE SessionStatus'[s] = SessionStatus[s]
    <3>1. CASE s = token[u].session
      BY <2>1, <3>1 DEF SessionStatus
    <3>2. CASE s # token[u].session
      <4>1. \A t \in TokenIds : token'[t].session = s <=> token[t].session = s
        BY <1>0, <2>1, <3>2
      <4>2. \A t \in TokenIds : token[t].session = s => token'[t].state = token[t].state
        BY <1>0, <2>1, <3>2
      <4> QED
        BY <4>1, <4>2 DEF SessionStatus, Live
    <3> QED
      BY <3>1, <3>2
  <2> QED
    BY <1>1, <2>2
<1> QED
  BY <1>2, <1>3

LEMMA StatusStays ==
  ASSUME token' = token
  PROVE  [Promise!Next]_SessionStatus
<1>1. SessionStatus' = SessionStatus
  BY DEF SessionStatus, Live
<1> QED
  BY <1>1

LEMMA NextPromised ==
  ASSUME Held, TokenSide, [Next]_vars
  PROVE  [Promise!Next]_SessionStatus
<1>t. Typed /\ TypeOK /\ NamesKnown
  BY DEF Held, Typed, TokenSide
<1>1. CASE token' = token
  BY <1>1, StatusStays
<1>2. CASE Logout \/ GracePasses
  <2>1. \A t \in TokenIds : token'[t].session = token[t].session
    BY <1>2, <1>t DEF Logout, GracePasses, Live, TypeOK, Token
  <2>2. \A t \in Live' : t \in Live
    BY <1>2, <1>t DEF Logout, GracePasses, Live, TypeOK, Token
  <2> QED
    BY <1>t, <2>1, <2>2, TokensEnd
<1>3. CASE \E c \in Callers : CommitSignOut(c) \/ CommitDelete(c)
  <2> PICK c \in Callers : CommitSignOut(c) \/ CommitDelete(c)
    BY <1>3
  <2>1. \A t \in TokenIds : \/ token'[t] = token[t]
                            \/ token'[t] = [token[t] EXCEPT !.state = "revoked"]
                            \/ token'[t] = [token[t] EXCEPT !.state = "deleted"]
    BY DEF CommitSignOut, CommitDelete
  <2>2. ASSUME NEW t \in TokenIds
        PROVE  token'[t].session = token[t].session /\ (t \in Live' => t \in Live)
    <3>1. token[t] \in Token
      BY <1>t DEF TypeOK
    <3> QED
      BY <2>1, <3>1, Restated DEF Live
  <2> QED
    BY <1>t, <2>2, TokensEnd DEF Live
<1>4. CASE \E c \in Callers : IssueTokens(c)
  <2> PICK c \in Callers : IssueTokens(c)
    BY <1>4
  <2> DEFINE n == AnyOf(Spare)
  <2>1. n \in TokenIds /\ ~Born(n)
    BY AnyIsFree DEF IssueTokens, Spare, Born
  <2>2. token' = [token EXCEPT ![n] = Issued(n)]
    BY DEF IssueTokens
  <2> HIDE DEF n
  <2>3. /\ token'[n].session = n /\ token'[n].state = "live"
        /\ \A t \in TokenIds \ {n} : token'[t] = token[t]
    BY <1>t, <2>1, <2>2 DEF Issued, TypeOK
  <2> QED
    BY <1>t, <2>1, <2>3, TokenIssued
<1>5. CASE \E c \in Callers : CommitRotation(c)
  <2> PICK c \in Callers : CommitRotation(c)
    BY <1>5
  <2> DEFINE n == AnyOf(Spare)
             t == req[c].token
  <2>1. n \in TokenIds /\ ~Born(n)
    BY AnyIsFree DEF CommitRotation, Spare, Born
  <2>2. t \in TokenIds /\ step[c] >= 3 /\ req[c].op = "rotate"
    BY <1>t, Fields, Places DEF CommitRotation, TypeOK
  <2>3. t \in Live
    BY <2>2 DEF TokenSide, RotatedIsLive, Live
  <2>4. token' = [token EXCEPT ![t] = Rotated(token[t]), ![n] = Issued(token[t].session)]
    BY DEF CommitRotation
  <2> HIDE DEF n, t
  <2>5. n # t
    BY <2>1, <2>3 DEF Live, Born
  <2>6. /\ token'[n].session = token[t].session /\ token'[n].state = "live"
        /\ token'[t].session = token[t].session
        /\ \A x \in TokenIds \ {n, t} : token'[x] = token[x]
    BY <1>t, <2>1, <2>2, <2>4, <2>5 DEF Issued, Rotated, TypeOK, Token
  <2> QED
    BY <1>t, <2>1, <2>3, <2>6, TokenIssued
<1>6. CASE UNCHANGED vars \/ \E c \in Callers : Request(c) \/ Fail(c)
  <2>1. token' = token
    <3>1. CASE UNCHANGED vars
      BY <3>1 DEF vars
    <3>2. CASE \E c \in Callers : Request(c)
      BY <1>t, <3>2, RequestTyped DEF Ask
    <3>3. CASE \E c \in Callers : Fail(c)
      BY <3>3 DEF Fail
    <3> QED
      BY <1>6, <3>1, <3>2, <3>3
  <2> QED
    BY <2>1, StatusStays
<1>7. CASE \E c \in Callers : \/ LockMember(c) \/ RotateToken(c) \/ ClaimLink(c) \/ Refuse(c)
                              \/ ChooseRows(c) \/ ChangeTokens(c) \/ ChangeLinks(c)
                              \/ CommitLink(c) \/ EnableUser(c) \/ IssueSession(c)
  <2>1. token' = token
    BY <1>7 DEF LockMember, RotateToken, ClaimLink, Refuse, ChooseRows, ChangeTokens, ChangeLinks,
                NextStatement, CommitLink, EnableUser, IssueSession
  <2> QED
    BY <2>1, StatusStays
<1> QED
  BY <1>2, <1>3, <1>4, <1>5, <1>6, <1>7 DEF Next, Transact

LEMMA InitPromised == Init => Promise!Init
<1> SUFFICES ASSUME Init PROVE \A s \in TokenIds : SessionStatus[s] = "unborn"
  BY DEF Promise!Init, SessionStatus
<1>1. \A t \in TokenIds : token[t].session = 0
  BY DEF Init, Unissued
<1> QED
  BY <1>1 DEF SessionStatus, TokenIds

(***************************************************************************)
(* Rotating tokens and signing out keep what a member is promised: every   *)
(* session starts once, lives on through its refreshes, and once it is     *)
(* over it stays over.                                                     *)
(***************************************************************************)
THEOREM TokensKeepThePromise == Spec => SignInKept
BY InitHeld, InitTokens, InitPromised, NextKeepsHeld, NextTokens, NextPromised, PTL
   DEF Spec, SignInKept, Promise!Spec
=============================================================================
