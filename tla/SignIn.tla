------------------------------- MODULE SignIn -------------------------------
(***************************************************************************)
(* What a member is promised of being signed in: a session starts with one *)
(* sign-in, lives through any number of refreshes, and once it is over no  *)
(* token of it lets anyone back in.                                        *)
(***************************************************************************)
CONSTANT Sessions

VARIABLE session   \* session |-> "unborn", "live" or "over"

Init == session = [s \in Sessions |-> "unborn"]

Start == \E s \in Sessions :
  /\ session[s] = "unborn"
  /\ session' = [session EXCEPT ![s] = "live"]

End == \E S \in (SUBSET Sessions) \ {{}} :
  /\ \A s \in S : session[s] = "live"
  /\ session' = [s \in Sessions |-> IF s \in S THEN "over" ELSE session[s]]

Next == Start \/ End

Spec == Init /\ [][Next]_session
=============================================================================
