--------------------------- MODULE SwapDecisionLog ---------------------------
(***************************************************************************)
(* What the audit trail of exchange-group decisions promises when several  *)
(* operators decide at once: every group has a log of decisions, only a    *)
(* first decision may be taken from nothing, and every later one is a      *)
(* legal transition from SOME earlier entry of the same log, not           *)
(* necessarily from the last one.  SwapDecision implements it.             *)
(***************************************************************************)
EXTENDS Naturals, Sequences

CONSTANT Keys   \* the execution keys of exchange groups

VARIABLE history  \* history[k]: the statuses recorded for group k, in order

Statuses == {"in_analysis", "claimed", "executed", "rejected"}

(* Where a group may go from each recorded status. *)
AllowedTransitions ==
  [s \in Statuses |->
     CASE s = "in_analysis" -> {"claimed", "executed", "rejected"}
       [] s = "claimed"     -> {"executed", "rejected"}
       [] OTHER             -> {}]

Open(k, s) ==
  /\ history[k] = << >>
  /\ history' = [history EXCEPT ![k] = << s >>]

Follow(k, s) ==
  /\ \E i \in 1..Len(history[k]) : s \in AllowedTransitions[history[k][i]]
  /\ history' = [history EXCEPT ![k] = Append(@, s)]

Init == history = [k \in Keys |-> << >>]

Next == \E k \in Keys, s \in Statuses : Open(k, s) \/ Follow(k, s)

Spec == Init /\ [][Next]_history

=============================================================================
