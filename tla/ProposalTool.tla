---------------------------- MODULE ProposalTool ----------------------------
(***************************************************************************)
(* The proposal tool as a chat turn and the tool itself agree on it: one   *)
(* call at a time, none once the tool holds an Action, none after the      *)
(* turn; a call commits one Action or none; and a call whose commit is not *)
(* answered, or a turn that ends inside it, may leave an Action that the   *)
(* tool never came to hold. AgentTurn, for which a call is one step, and   *)
(* ActionProposal, which models the call and lets a turn make any, are     *)
(* both shown to implement this.                                           *)
(***************************************************************************)
EXTENDS Naturals

VARIABLES
  busy,   \* a call is under way
  held,   \* ActionProposalTool.record is set
  count,  \* Actions committed
  ended   \* the turn is over

toolVars == <<busy, held, count, ended>>

Init == busy = FALSE /\ held = FALSE /\ count = 0 /\ ended = FALSE

Start ==
  /\ ~busy /\ ~held /\ ~ended
  /\ busy' = TRUE
  /\ UNCHANGED <<held, count, ended>>

Refuse ==
  /\ busy /\ busy' = FALSE
  /\ UNCHANGED <<held, count, ended>>

\* There was no Action of this turn before.
Commit ==
  /\ busy /\ count = 0 /\ busy' = FALSE
  /\ held' = TRUE /\ count' = 1
  /\ UNCHANGED ended

\* The turn is over; a call under way ends with it, before or after its commit.
End ==
  /\ ~ended /\ ended' = TRUE /\ busy' = FALSE
  /\ \/ UNCHANGED count
     \/ busy /\ count = 0 /\ count' = 1
  /\ UNCHANGED held

\* The answer to the commit is lost: the tool does not hold the Action, and the turn
\* goes on without it.
Lose ==
  /\ busy /\ count = 0 /\ busy' = FALSE
  /\ count' = 1
  /\ UNCHANGED <<held, ended>>

Next == Start \/ Refuse \/ Commit \/ Lose \/ End

Spec == Init /\ [][Next]_toolVars

=============================================================================
