----------------------------- MODULE AuthSessions -----------------------------
(***************************************************************************)
(* One member's refresh tokens, password reset links and account, as the   *)
(* sign-ins, refreshes, sign-outs, password changes, resets, revokes and   *)
(* the account's deletion, many at once, change them in the database.      *)
(*                                                                         *)
(* A request first checks what it read, then runs its transaction: one     *)
(* statement after another, each waiting for the row locks other           *)
(* transactions hold. A statement on many rows chooses them from what is   *)
(* committed when it starts and, once it has their locks, changes those    *)
(* that still qualify. What it changed shows at the commit. The rows of    *)
(* one statement are locked together, when all of them are free: two       *)
(* statements that reach the same rows are taken to reach them in one      *)
(* order, as scans of one table mostly do.                                 *)
(***************************************************************************)
EXTENDS Integers, Sequences, FiniteSets

CONSTANTS
  Callers,      \* requests in flight, of the member's tabs, of admins, or of a thief
  Nobody,       \* no holder of a lock
  MaxTokens,    \* bound: refresh tokens ever issued
  MaxLinks,     \* bound: reset links ever issued
  MaxRequests   \* bound: requests ever made

TokenIds == 1..MaxTokens
LinkIds == 1..MaxLinks

ASSUME SessionsAssumption ==
  /\ Nobody \notin Callers
  /\ MaxTokens \in Nat /\ MaxLinks \in Nat /\ MaxRequests \in Nat

VARIABLES
  account,     \* "active", "inactive" or "gone"
  token,       \* token id |-> its row; a session is named by its first token
  link,        \* reset link id |-> "unborn", "open", "used", "cancelled" or "gone"
  memberLock,  \* who holds the member's row lock
  tokenLock,   \* token id |-> who has changed its row and not committed
  linkLock,    \* link id |-> the same
  req,         \* caller |-> its request
  step,        \* caller |-> the statement of its transaction it is at, 0 when it has none
  chosen,      \* caller |-> the rows the statement under way chose, or NotStarted
  requests,    \* requests left
  ended,       \* sessions a committed request has ended
  dead,        \* links a committed change of password has overtaken
  uses         \* link |-> how many resets it has let through

locks == <<memberLock, tokenLock, linkLock>>
told == <<ended, dead, uses>>
vars == <<account, token, link, locks, req, step, chosen, requests, told>>

Unissued == [state |-> "unborn", rotated |-> "never", session |-> 0]
Issued(s) == [state |-> "live", rotated |-> "never", session |-> s]
Live == {t \in TokenIds : token[t].state = "live"}
Rows == {t \in TokenIds : token[t].state \in {"live", "revoked"}}
LiveSessions == {token[t].session : t \in Live}
OpenLinks == {l \in LinkIds : link[l] = "open"}
LinkRows == {l \in LinkIds : link[l] \in {"open", "used", "cancelled"}}

AnyOf(free) == CHOOSE i \in free : TRUE
Spare == {t \in TokenIds : token[t].state = "unborn"}
SpareLinks == {l \in LinkIds : link[l] = "unborn"}

(***************************************************************************)
(* The statements of each request's transaction, in order: "member" takes  *)
(* the member's row, by lockMemberRow or by an update of the row; "claim"  *)
(* a reset link, "token" the token to rotate; "tokens" revokes or deletes  *)
(* the tokens at large and "links" cancels or deletes the links.           *)
(***************************************************************************)
StatementsUnlocked(op) ==
  CASE op = "rotate" -> <<"member", "token">>
    [] op \in {"reuse", "revoke"} -> <<"tokens">>
    [] op \in {"disable", "demote"} -> <<"member", "tokens">>
    [] op \in {"change", "delete"} -> <<"member", "tokens", "links">>
    [] op = "confirm" -> <<"claim", "member", "links", "tokens">>
    [] op = "request" -> <<"links">>
    [] OTHER -> <<>>
StatementsTokensFirst(op) ==
  CASE op = "rotate" -> <<"member", "token">>
    [] op \in {"reuse", "revoke", "disable", "demote"} -> <<"member", "tokens">>
    [] op = "change" -> <<"member", "tokens", "links">>
    [] op = "delete" -> <<"tokens", "member", "links">>
    [] op = "confirm" -> <<"claim", "member", "links", "tokens">>
    [] op = "request" -> <<"links">>
    [] OTHER -> <<>>
StatementsLinksKept(op) ==
  CASE op = "rotate" -> <<"member", "token">>
    [] op \in {"reuse", "revoke", "disable", "demote", "change"} -> <<"member", "tokens">>
    [] op = "delete" -> <<"member", "tokens", "links">>
    [] op = "confirm" -> <<"claim", "member", "links", "tokens">>
    [] op = "request" -> <<"links">>
    [] OTHER -> <<>>
Statements(op) ==
  CASE op = "rotate" -> <<"member", "token">>
    [] op \in {"reuse", "revoke", "disable", "demote"} -> <<"member", "tokens">>
    [] op \in {"change", "delete"} -> <<"member", "tokens", "links">>
    [] op = "confirm" -> <<"claim", "member", "links", "tokens">>
    [] op = "request" -> <<"links">>
    [] OTHER -> <<>>

NoRequest == [op |-> "none"]
NotStarted == [of |-> "nothing"]
At(c, statement) ==
  step[c] \in 1..Len(Statements(req[c].op)) /\ Statements(req[c].op)[step[c]] = statement
Done(c) == step[c] > Len(Statements(req[c].op))

Ask(c, request) ==
  /\ step[c] = 0
  /\ requests > 0
  /\ requests' = requests - 1
  /\ req' = [req EXCEPT ![c] = request]
  /\ step' = [step EXCEPT ![c] = 1]
  /\ UNCHANGED <<account, token, link, locks, chosen, told>>

\* Releases everything the caller holds, by a commit or a rollback.
Finish(c) ==
  /\ req' = [req EXCEPT ![c] = NoRequest]
  /\ step' = [step EXCEPT ![c] = 0]
  /\ chosen' = [chosen EXCEPT ![c] = NotStarted]
  /\ memberLock' = IF memberLock = c THEN Nobody ELSE memberLock
  /\ tokenLock' = [t \in TokenIds |-> IF tokenLock[t] = c THEN Nobody ELSE tokenLock[t]]
  /\ linkLock' = [l \in LinkIds |-> IF linkLock[l] = c THEN Nobody ELSE linkLock[l]]
  /\ UNCHANGED requests

(***************************************************************************)
(* The requests. A sign-in finds the account with a matching password,     *)
(* active or not, and then issues its tokens. A refresh finds its token's  *)
(* row: rotated longer ago than the two tabs' grace, the token is stolen;  *)
(* revoked, it is refused; else it is rotated. "sessions" and "links" note *)
(* what the request promises to end, as committed when it was made.        *)
(***************************************************************************)
RequestLogin(c) ==
  /\ account # "gone"
  /\ Ask(c, [op |-> "login"])

RequestRefresh(c) == \E t \in Live :
  Ask(c, [op |-> "rotate", token |-> t])

RequestWithStolenToken(c) == \E t \in TokenIds :
  /\ token[t].state = "revoked" /\ token[t].rotated = "past"
  /\ Ask(c, [op |-> "reuse", session |-> token[t].session,
             sessions |-> {token[t].session}])

\* keep is the caller's own refresh token, spared when members act on themselves.
KeepsOf(op) == IF op \in {"change", "disable"} THEN Rows \cup {0} ELSE {0}
SessionOf(t) == IF t = 0 THEN {} ELSE {token[t].session}

RequestSignOut(c) == \E op \in {"revoke", "change", "disable", "demote"} :
  /\ account # "gone"
  /\ op = "disable" => account = "active"
  /\ \E keep \in KeepsOf(op) :
       Ask(c, [op |-> op, keep |-> keep, sessions |-> LiveSessions \ SessionOf(keep),
               links |-> IF op = "change" THEN OpenLinks ELSE {}])

RequestEnable(c) ==
  /\ account = "inactive"
  /\ Ask(c, [op |-> "enable"])

RequestDelete(c) ==
  /\ account = "inactive"
  /\ Ask(c, [op |-> "delete"])

RequestLink(c) ==
  /\ account # "gone"
  /\ Ask(c, [op |-> "request"])

\* A cheap look before the new password is hashed.
RequestReset(c) == \E l \in OpenLinks :
  Ask(c, [op |-> "confirm", link |-> l, sessions |-> LiveSessions,
          links |-> OpenLinks \ {l}])

(***************************************************************************)
(* Statements on one row: wait for its lock, then look at it again.        *)
(***************************************************************************)
NextStatement(c) ==
  /\ step' = [step EXCEPT ![c] = @ + 1]
  /\ UNCHANGED <<account, token, link, req, requests, told>>

LockMember(c) ==
  /\ At(c, "member")
  /\ memberLock = Nobody
  /\ memberLock' = c
  /\ NextStatement(c) /\ UNCHANGED <<tokenLock, linkLock, chosen>>

RotatableAlways(t) == TRUE
Rotatable(t) == token[t].state = "live"

RotateToken(c) == LET t == req[c].token IN
  /\ At(c, "token")
  /\ tokenLock[t] = Nobody
  /\ Rotatable(t)
  /\ tokenLock' = [tokenLock EXCEPT ![t] = c]
  /\ NextStatement(c) /\ UNCHANGED <<memberLock, linkLock, chosen>>

ClaimableAlways(l) == TRUE
Claimable(l) == link[l] = "open"

ClaimLink(c) == LET l == req[c].link IN
  /\ At(c, "claim")
  /\ linkLock[l] = Nobody
  /\ Claimable(l)
  /\ linkLock' = [linkLock EXCEPT ![l] = c]
  /\ NextStatement(c) /\ UNCHANGED <<memberLock, tokenLock, chosen>>

\* The token another refresh rotated, the link another click used, or the account gone.
Refused(c) ==
  \/ At(c, "token") /\ tokenLock[req[c].token] = Nobody /\ ~Rotatable(req[c].token)
  \/ At(c, "claim") /\ linkLock[req[c].link] = Nobody /\ ~Claimable(req[c].link)
  \/ At(c, "member") /\ memberLock = Nobody /\ account = "gone"
  \/ Done(c) /\ account = "gone"

Refuse(c) ==
  /\ Refused(c)
  /\ Finish(c)
  /\ UNCHANGED <<account, token, link, told>>

(***************************************************************************)
(* Statements on many rows.                                                *)
(***************************************************************************)
Tokens(r) ==
  CASE r.op = "delete"  -> Rows
    [] r.op = "reuse"   -> {t \in Live : token[t].session = r.session}
    [] r.op = "confirm" -> Live
    [] r.op \in {"revoke", "change", "disable", "demote"} -> Live \ {r.keep}
    [] OTHER -> {}

Links(r) == IF r.op = "delete" THEN LinkRows ELSE OpenLinks

ChooseRows(c) ==
  /\ chosen[c] = NotStarted
  /\ \/ At(c, "tokens")
        /\ chosen' = [chosen EXCEPT ![c] = [of |-> "tokens", rows |-> Tokens(req[c])]]
     \/ At(c, "links")
        /\ chosen' = [chosen EXCEPT ![c] = [of |-> "links",
                         rows |-> {l \in Links(req[c]) : linkLock[l] # c}]]
  /\ UNCHANGED <<account, token, link, locks, req, step, requests, told>>

ChangeTokens(c) ==
  /\ At(c, "tokens") /\ chosen[c].of = "tokens"
  /\ \A t \in chosen[c].rows : tokenLock[t] = Nobody
  /\ tokenLock' = [t \in TokenIds |->
       IF t \in chosen[c].rows \cap Tokens(req[c]) THEN c ELSE tokenLock[t]]
  /\ chosen' = [chosen EXCEPT ![c] = NotStarted]
  /\ NextStatement(c) /\ UNCHANGED <<memberLock, linkLock>>

ChangeLinks(c) ==
  /\ At(c, "links") /\ chosen[c].of = "links"
  /\ \A l \in chosen[c].rows : linkLock[l] = Nobody
  /\ linkLock' = [l \in LinkIds |->
       IF l \in chosen[c].rows \cap Links(req[c]) THEN c ELSE linkLock[l]]
  /\ chosen' = [chosen EXCEPT ![c] = NotStarted]
  /\ NextStatement(c) /\ UNCHANGED <<memberLock, tokenLock>>

(***************************************************************************)
(* Commits.                                                                *)
(***************************************************************************)
MyTokens(c) == {t \in TokenIds : tokenLock[t] = c}
MyLinks(c) == {l \in LinkIds : linkLock[l] = c}

\* A session of its own for a sign-in.
IssueTokens(c) ==
  /\ req[c].op = "login" /\ step[c] = 1
  /\ account # "gone" /\ Spare # {}
  /\ token' = [token EXCEPT ![AnyOf(Spare)] = Issued(AnyOf(Spare))]
  /\ Finish(c)
  /\ UNCHANGED <<account, link, told>>

RotatedUnrevoked(row) == [row EXCEPT !.rotated = "recent"]
Rotated(row) == [row EXCEPT !.state = "revoked", !.rotated = "recent"]

CommitRotation(c) == LET t == req[c].token IN
  /\ req[c].op = "rotate" /\ Done(c)
  /\ account # "gone" /\ Spare # {}
  /\ token' = [token EXCEPT ![t] = Rotated(token[t]),
                            ![AnyOf(Spare)] = Issued(token[t].session)]
  /\ Finish(c)
  /\ UNCHANGED <<account, link, told>>

CommitSignOut(c) ==
  /\ req[c].op \in {"reuse", "revoke", "change", "disable", "demote", "confirm"} /\ Done(c)
  /\ account # "gone"
  /\ token' = [t \in TokenIds |->
       IF t \in MyTokens(c) THEN [token[t] EXCEPT !.state = "revoked"] ELSE token[t]]
  /\ link' = [l \in LinkIds |->
       IF l \notin MyLinks(c) THEN link[l]
       ELSE IF req[c].op = "confirm" /\ l = req[c].link THEN "used" ELSE "cancelled"]
  /\ account' = IF req[c].op = "disable" THEN "inactive" ELSE account
  /\ ended' = ended \cup req[c].sessions
  /\ dead' = IF req[c].op \in {"change", "confirm"} THEN dead \cup req[c].links ELSE dead
  /\ uses' = IF req[c].op = "confirm" THEN [uses EXCEPT ![req[c].link] = @ + 1] ELSE uses
  /\ Finish(c)

\* Closed links past their retention go; the row's age is left open.
CommitLink(c) == \E old \in SUBSET {l \in LinkIds : link[l] \in {"used", "cancelled"}} :
  /\ req[c].op = "request" /\ Done(c)
  /\ account # "gone" /\ SpareLinks # {}
  /\ \A l \in old : linkLock[l] = Nobody
  /\ link' = [l \in LinkIds |->
       IF l = AnyOf(SpareLinks) THEN "open"
       ELSE IF l \in old THEN "gone"
       ELSE IF l \in MyLinks(c) THEN "cancelled" ELSE link[l]]
  /\ Finish(c)
  /\ UNCHANGED <<account, token, told>>

\* Rows inserted since its statements chose refuse the member's deletion.
CommitDelete(c) ==
  /\ req[c].op = "delete" /\ Done(c)
  /\ Rows \subseteq MyTokens(c) /\ LinkRows \subseteq MyLinks(c)
  /\ account' = "gone"
  /\ token' = [t \in TokenIds |->
       IF t \in MyTokens(c) THEN [token[t] EXCEPT !.state = "deleted"] ELSE token[t]]
  /\ link' = [l \in LinkIds |-> IF l \in MyLinks(c) THEN "gone" ELSE link[l]]
  /\ Finish(c)
  /\ UNCHANGED told

(***************************************************************************)
(* Enabling writes the account and, for the member's own, then issues a    *)
(* session to an account it finds active.                                  *)
(***************************************************************************)
EnableUser(c) ==
  /\ req[c].op = "enable" /\ step[c] = 1
  /\ account # "gone" /\ memberLock = Nobody
  /\ account' = "active"
  /\ step' = [step EXCEPT ![c] = 2]
  /\ UNCHANGED <<token, link, locks, req, chosen, requests, told>>

IssueSession(c) ==
  /\ req[c].op = "enable" /\ step[c] = 2
  /\ account = "active"
  /\ req' = [req EXCEPT ![c] = [op |-> "login"]]
  /\ step' = [step EXCEPT ![c] = 1]
  /\ UNCHANGED <<account, token, link, locks, chosen, requests, told>>

\* One statement, committed at once.
Logout == \E t \in Live :
  /\ requests > 0 /\ requests' = requests - 1
  /\ tokenLock[t] = Nobody
  /\ token' = [token EXCEPT ![t].state = "revoked"]
  /\ UNCHANGED <<account, link, locks, req, step, chosen, told>>

GracePasses == \E t \in TokenIds :
  /\ token[t].rotated = "recent"
  /\ token' = [token EXCEPT ![t].rotated = "past"]
  /\ UNCHANGED <<account, link, locks, req, step, chosen, requests, told>>

\* A process dies, or the database breaks a deadlock: the transaction rolls back.
Fail(c) ==
  /\ step[c] # 0
  /\ Finish(c)
  /\ UNCHANGED <<account, token, link, told>>

Init ==
  /\ account = "active"
  /\ token = [t \in TokenIds |-> Unissued]
  /\ link = [l \in LinkIds |-> "unborn"]
  /\ memberLock = Nobody
  /\ tokenLock = [t \in TokenIds |-> Nobody]
  /\ linkLock = [l \in LinkIds |-> Nobody]
  /\ req = [c \in Callers |-> NoRequest]
  /\ step = [c \in Callers |-> 0]
  /\ chosen = [c \in Callers |-> NotStarted]
  /\ requests = MaxRequests
  /\ ended = {} /\ dead = {} /\ uses = [l \in LinkIds |-> 0]

Request(c) ==
  \/ RequestLogin(c) \/ RequestRefresh(c) \/ RequestWithStolenToken(c)
  \/ RequestSignOut(c) \/ RequestEnable(c) \/ RequestDelete(c)
  \/ RequestLink(c) \/ RequestReset(c)

Transact(c) ==
  \/ LockMember(c) \/ RotateToken(c) \/ ClaimLink(c) \/ Refuse(c)
  \/ ChooseRows(c) \/ ChangeTokens(c) \/ ChangeLinks(c)
  \/ IssueTokens(c) \/ CommitRotation(c) \/ CommitSignOut(c)
  \/ CommitLink(c) \/ CommitDelete(c) \/ EnableUser(c) \/ IssueSession(c)

Next ==
  \/ \E c \in Callers : Request(c) \/ Transact(c) \/ Fail(c)
  \/ Logout \/ GracePasses

Spec == Init /\ [][Next]_vars

-----------------------------------------------------------------------------
Token == [state : {"unborn", "live", "revoked", "deleted"},
          rotated : {"never", "recent", "past"}, session : TokenIds \cup {0}]
SignOutRequest ==
  [op : {"revoke", "change", "disable", "demote"}, keep : TokenIds \cup {0},
   sessions : SUBSET TokenIds, links : SUBSET LinkIds]
RequestSet ==
  [op : {"none", "login", "enable", "delete", "request"}]
  \cup [op : {"rotate"}, token : TokenIds]
  \cup [op : {"reuse"}, session : TokenIds, sessions : SUBSET TokenIds]
  \cup SignOutRequest
  \cup [op : {"confirm"}, link : LinkIds, sessions : SUBSET TokenIds, links : SUBSET LinkIds]

(***************************************************************************)
(* Every variable keeps its type, and a token's row says of it what a      *)
(* refresh does: a rotated token is revoked, so it may still look stolen   *)
(* once its grace is over, and only a token that never was is good.        *)
(***************************************************************************)
TypeOK ==
  /\ account \in {"active", "inactive", "gone"}
  /\ token \in [TokenIds -> Token]
  /\ \A t \in TokenIds : token[t].state = "live" => token[t].rotated = "never"
  /\ link \in [LinkIds -> {"unborn", "open", "used", "cancelled", "gone"}]
  /\ memberLock \in Callers \cup {Nobody}
  /\ tokenLock \in [TokenIds -> Callers \cup {Nobody}]
  /\ linkLock \in [LinkIds -> Callers \cup {Nobody}]
  /\ req \in [Callers -> RequestSet]
  /\ step \in [Callers -> 0..5]
  /\ chosen \in [Callers -> {NotStarted} \cup [of : {"tokens"}, rows : SUBSET TokenIds]
                                         \cup [of : {"links"}, rows : SUBSET LinkIds]]
  /\ requests \in 0..MaxRequests
  /\ ended \subseteq TokenIds /\ dead \subseteq LinkIds
  /\ uses \in [LinkIds -> Nat]

(***************************************************************************)
(* However many tabs refresh with one token at once, a session has one     *)
(* live token: only the refresh that revoked the old one issues the next.  *)
(***************************************************************************)
OneLiveToken ==
  \A t, u \in Live : token[t].session = token[u].session => t = u

(***************************************************************************)
(* Signed out is signed out: when a revoke, a reset, a change of password  *)
(* or the return of a stolen token has ended the sessions there were, none *)
(* of them has a live token, not even one a refresh was issuing meanwhile. *)
(***************************************************************************)
SignedOutEverywhere ==
  \A t \in Live : token[t].session \notin ended

(***************************************************************************)
(* A reset link sent before a change of password cannot undo it, and one   *)
(* link lets one reset through, however often it is clicked.               *)
(***************************************************************************)
LinksDieWithThePassword ==
  dead \cap OpenLinks = {}

LinksWorkOnce ==
  \A l \in LinkIds : uses[l] <= 1

(***************************************************************************)
(* Refreshes, revokes and an account's deletion never wait for each other  *)
(* in a circle. Every circle there is has a reset in it, which takes its   *)
(* link before the member; the database breaks those.                      *)
(***************************************************************************)
WaitsFor(c, d) ==
  \/ At(c, "member") /\ memberLock = d
  \/ At(c, "token") /\ tokenLock[req[c].token] = d
  \/ At(c, "claim") /\ linkLock[req[c].link] = d
  \/ At(c, "tokens") /\ chosen[c].of = "tokens" /\ \E t \in chosen[c].rows : tokenLock[t] = d
  \/ At(c, "links") /\ chosen[c].of = "links" /\ \E l \in chosen[c].rows : linkLock[l] = d

NoCircleWithoutReset ==
  \A C \in SUBSET Callers :
    C # {} /\ (\A c \in C : \E d \in C : c # d /\ WaitsFor(c, d))
      => \E c \in C : req[c].op = "confirm"

(***************************************************************************)
(* The tokens implement the promise: a rotation leaves the session as it   *)
(* is, and a session that is over never lives again.                       *)
(***************************************************************************)
SessionStatus == [s \in TokenIds |->
  IF \A t \in TokenIds : token[t].session # s THEN "unborn"
  ELSE IF \E t \in Live : token[t].session = s THEN "live" ELSE "over"]

Promise == INSTANCE SignIn WITH Sessions <- TokenIds, session <- SessionStatus
SignInKept == Promise!Spec
=============================================================================
