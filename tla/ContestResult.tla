--------------------------- MODULE ContestResult ---------------------------
(***************************************************************************)
(* What settlement promises a league: a contest becomes final once, when   *)
(* every event it covers has finished, with a score for every event that   *)
(* was played and for no other; its championship finishes are taken from   *)
(* exactly those scores; and from then on neither the events it covers nor *)
(* its result changes.                                                     *)
(***************************************************************************)
EXTENDS Naturals

CONSTANTS Contests, Events,
          Scores            \* the versions of an event's scores, 0 for none

VARIABLES covers,      \* the events each contest is played on
          played,      \* the events that completed
          cancelled,   \* the events that were called off
          final,       \* the contests that are final
          standings,   \* the scores a final contest's standings count
          finishes     \* the scores its championship finishes count

vars == <<covers, played, cancelled, final, standings, finishes>>

NoResult == [c \in Contests |-> [e \in Events |-> 0]]

Init == /\ covers \in [Contests -> SUBSET Events]
        /\ played = {} /\ cancelled = {} /\ final = {}
        /\ standings = NoResult /\ finishes = NoResult

(* An event ends: it completes or it is cancelled, once. *)
EndEvent(e) ==
  /\ e \notin played \cup cancelled
  /\ \/ played' = played \cup {e} /\ UNCHANGED cancelled
     \/ cancelled' = cancelled \cup {e} /\ UNCHANGED played
  /\ UNCHANGED <<covers, final, standings, finishes>>

(* The events of a contest that is not final change. *)
ChangeEvents(c) ==
  /\ c \notin final
  /\ \E events \in SUBSET Events : covers' = [covers EXCEPT ![c] = events]
  /\ UNCHANGED <<played, cancelled, final, standings, finishes>>

(* A contest all of whose events have ended goes final, complete. *)
Finalise(c) ==
  /\ c \notin final
  /\ covers[c] \subseteq played \cup cancelled
  /\ final' = final \cup {c}
  /\ \E result \in [Events -> Scores] :
       /\ \A e \in Events : result[e] # 0 <=> e \in covers[c] \cap played
       /\ standings' = [standings EXCEPT ![c] = result]
       /\ finishes' = [finishes EXCEPT ![c] = result]
  /\ UNCHANGED <<covers, played, cancelled>>

Next == \/ \E e \in Events : EndEvent(e)
        \/ \E c \in Contests : ChangeEvents(c) \/ Finalise(c)

Spec == Init /\ [][Next]_vars
=============================================================================
