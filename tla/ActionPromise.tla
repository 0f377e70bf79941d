--------------------------- MODULE ActionPromise ---------------------------
(***************************************************************************)
(* What the approval gateway promises about every write it proposes,       *)
(* without processes, locks, leases, clocks or messages: a document is     *)
(* created in ERPNext only for a proposal that was approved and durably    *)
(* started, an Action that ended as done has its document, one that ended  *)
(* as failed or was refused has none, and an ended Action never changes.   *)
(* ActionLifecycle, the model of the code, is shown to implement it.       *)
(***************************************************************************)
CONSTANT Actions

VARIABLES
  phase,    \* phase[a]: how far the proposal has got
  doc       \* doc[a]: whether ERPNext holds a draft written under a's key

promiseVars == <<phase, doc>>

Phases ==
  {"absent", "pending", "approved", "refused", "running", "done", "failed"}

Init ==
  /\ phase = [a \in Actions |-> "absent"]
  /\ doc = [a \in Actions |-> FALSE]

Move(a, from, to) ==
  /\ phase[a] = from
  /\ phase' = [phase EXCEPT ![a] = to]
  /\ UNCHANGED doc

Propose(a) == Move(a, "absent", "pending")

Approve(a) == Move(a, "pending", "approved")

\* A rejection, an expiry or a logout refuses any number of open proposals.
Refuse(A) ==
  /\ \A a \in A : phase[a] \in {"pending", "approved"}
  /\ phase' = [a \in Actions |-> IF a \in A THEN "refused" ELSE phase[a]]
  /\ UNCHANGED doc

Start(a) == Move(a, "approved", "running")

CreateDraft(a) ==
  /\ phase[a] = "running"
  /\ ~doc[a]
  /\ doc' = [doc EXCEPT ![a] = TRUE]
  /\ UNCHANGED phase

Finish(a) == doc[a] /\ Move(a, "running", "done")

Fail(a) == ~doc[a] /\ Move(a, "running", "failed")

Next ==
  \/ \E A \in SUBSET Actions : Refuse(A)
  \/ \E a \in Actions :
       \/ Propose(a) \/ Approve(a) \/ Start(a)
       \/ CreateDraft(a) \/ Finish(a) \/ Fail(a)

Spec == Init /\ [][Next]_promiseVars

=============================================================================
