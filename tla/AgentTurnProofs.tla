--------------------------- MODULE AgentTurnProofs ---------------------------
(***************************************************************************)
(* Theorems about AgentTurn: its types, that no query is answered too      *)
(* often, that a turn stores at most one reply and proposes at most one    *)
(* Action, which the client was shown if it was told anything, that a      *)
(* converged agent calls no more, that a turn uses the proposal tool by    *)
(* its contract, and that every step uses up some of a finite fuel.        *)
(***************************************************************************)
EXTENDS AgentTurn, FiniteSetTheorems, TLAPS

CallStates == {"todo", "running", "refreshing", "retrying", "done"}
Calls == [what : Queries \cup {"none", "propose"}, state : CallStates]

\* SetCall changes the state of one call.
LEMMA SetCallAt ==
  ASSUME TypeOK, NEW s \in Slots, NEW to \in CallStates, SetCall(s, to)
  PROVE  /\ calls' \in [Slots -> Calls]
         /\ calls'[s].state = to /\ calls'[s].what = calls[s].what
         /\ \A r \in Slots : r # s => calls'[r] = calls[r]
<1>1. calls \in [Slots -> Calls]
  BY DEF TypeOK, Calls, CallStates
<1>2. calls[s] \in Calls
  BY <1>1
<1>3. [calls[s] EXCEPT !.state = to] \in Calls
  BY <1>2 DEF Calls
<1>4. calls' = [calls EXCEPT ![s] = [calls[s] EXCEPT !.state = to]]
  BY DEF SetCall
<1>5. calls'[s] = [calls[s] EXCEPT !.state = to]
  BY <1>1, <1>4
<1>6. QED
  BY <1>1, <1>2, <1>3, <1>4, <1>5 DEF Calls

\* At the start, and between two passes, nothing is called.
LEMMA NoCallsTyped ==
  /\ NoCalls \in [Slots -> Calls]
  /\ \A s \in Slots : NoCalls[s].what = "none" /\ NoCalls[s].state = "done"
<1>1. NoCall \in Calls
  BY DEF NoCall, Calls, CallStates
<1>2. QED
  BY <1>1 DEF NoCalls, NoCall

\* The calls of a pass are well-formed, are still to be made, and are the agent's.
LEMMA PassTyped ==
  ASSUME calls' \in [Slots -> {[what |-> w, state |-> "todo"] : w \in Callable} \cup {NoCall}]
  PROVE  /\ calls' \in [Slots -> Calls]
         /\ \A s \in Slots : /\ calls'[s].state \in {"todo", "done"}
                             /\ calls'[s].what = "propose" => "propose" \in Callable
<1>1. ASSUME NEW s \in Slots
      PROVE  /\ calls'[s] \in Calls /\ calls'[s].state \in {"todo", "done"}
             /\ calls'[s].what = "propose" => "propose" \in Callable
  <2>1. CASE calls'[s] = NoCall
    BY <2>1 DEF NoCall, Calls, CallStates
  <2>2. CASE calls'[s] # NoCall
    <3>1. PICK w \in Callable : calls'[s] = [what |-> w, state |-> "todo"]
      BY <2>2
    <3>2. w \in Queries \cup {"none", "propose"}
      BY <3>1 DEF Callable
    <3>3. QED
      BY <3>1, <3>2 DEF Calls, CallStates
  <2>3. QED
    BY <2>1, <2>2
<1>2. QED
  BY <1>1

-----------------------------------------------------------------------------
(* How often a query is answered.                                           *)

\* The calls of a query that are on their way.
InFlight(q) == {s \in Slots : calls[s].what = q /\ Running(s)}

\* The guard has recorded what is answered and what is on its way, and no more than
\* it allows.
CountInv ==
  \A q \in Queries :
    /\ answered[q] + Cardinality(InFlight(q)) <= seen[q]
    /\ seen[q] < MaxRepeats

LEMMA InFlightFinite ==
  \A q : IsFiniteSet(InFlight(q)) /\ Cardinality(InFlight(q)) \in Nat
<1>1. TAKE q
<1>2. InFlight(q) \subseteq Slots
  BY DEF InFlight
<1>3. QED
  BY <1>2, AgentTurnAssumption, FS_Subset, FS_CardinalityType

\* A call on its way is recorded.
LEMMA InFlightCounted ==
  ASSUME TypeOK, CountInv, NEW s \in Slots, Running(s), calls[s].what \in Queries
  PROVE  answered[calls[s].what] + 1 <= seen[calls[s].what]
<1> DEFINE q == calls[s].what
<1>1. s \in InFlight(q)
  BY DEF InFlight
<1>2. Cardinality(InFlight(q)) # 0
  BY <1>1, InFlightFinite, FS_EmptySet
<1>3. answered[q] \in Nat /\ seen[q] \in Nat /\ Cardinality(InFlight(q)) \in Nat
  BY InFlightFinite DEF TypeOK
<1>4. QED
  BY <1>2, <1>3 DEF CountInv

\* What becomes of the calls on their way when one starts, goes on or ends.
LEMMA InFlightMoves ==
  ASSUME TypeOK, NEW s \in Slots, NEW to \in CallStates, SetCall(s, to),
         NEW q, q = calls[s].what
  PROVE  /\ \A p : p # q => InFlight(p)' = InFlight(p)
         /\ Running(s) /\ to \in {"running", "refreshing", "retrying"} =>
              InFlight(q)' = InFlight(q)
         /\ ~Running(s) /\ to \in {"todo", "done"} =>
              InFlight(q)' = InFlight(q)
         /\ ~Running(s) /\ to \in {"running", "refreshing", "retrying"} =>
              Cardinality(InFlight(q)') = Cardinality(InFlight(q)) + 1
         /\ Running(s) /\ to \in {"todo", "done"} =>
              Cardinality(InFlight(q)') = Cardinality(InFlight(q)) - 1
<1>1. /\ calls'[s].state = to /\ calls'[s].what = q
      /\ \A r \in Slots : r # s => calls'[r] = calls[r]
  BY SetCallAt
<1>2. \A p : p # q => InFlight(p)' = InFlight(p)
  BY <1>1 DEF InFlight, Running
<1>3. Running(s) /\ to \in {"running", "refreshing", "retrying"} => InFlight(q)' = InFlight(q)
  BY <1>1 DEF InFlight, Running
<1>4. ~Running(s) /\ to \in {"todo", "done"} => InFlight(q)' = InFlight(q)
  BY <1>1 DEF InFlight, Running
<1>5. ASSUME ~Running(s), to \in {"running", "refreshing", "retrying"}
      PROVE  Cardinality(InFlight(q)') = Cardinality(InFlight(q)) + 1
  <2>1. InFlight(q)' = InFlight(q) \cup {s} /\ s \notin InFlight(q)
    BY <1>1, <1>5 DEF InFlight, Running
  <2>2. QED
    BY <2>1, InFlightFinite, FS_AddElement
<1>6. ASSUME Running(s), to \in {"todo", "done"}
      PROVE  Cardinality(InFlight(q)') = Cardinality(InFlight(q)) - 1
  <2>1. InFlight(q)' = InFlight(q) \ {s} /\ s \in InFlight(q)
    BY <1>1, <1>6 DEF InFlight, Running
  <2>2. QED
    BY <2>1, InFlightFinite, FS_RemoveElement
<1>7. QED
  BY <1>2, <1>3, <1>4, <1>5, <1>6

\* What a start, a wait, a success and an error do to the counts.
LEMMA CountsMove ==
  ASSUME TypeOK, CountInv, NEW s \in Slots, NEW to \in CallStates, SetCall(s, to),
         NEW q, q = calls[s].what,
         \/ UNCHANGED <<seen, answered>> /\ Running(s)
         \/ UNCHANGED <<seen, answered>> /\ to \in {"todo", "done"}
         \/ q \notin Queries /\ UNCHANGED <<seen, answered>>
         \/ /\ q \in Queries /\ ~Running(s)
            /\ to \in {"running", "refreshing", "retrying"} /\ seen[q] < MaxRepeats - 1
            /\ seen' = [seen EXCEPT ![q] = @ + 1] /\ UNCHANGED answered
         \/ /\ q \in Queries /\ Running(s) /\ to = "done"
            /\ answered' = [answered EXCEPT ![q] = @ + 1] /\ UNCHANGED seen
         \/ /\ q \in Queries /\ Running(s) /\ to = "done"
            /\ seen' = [seen EXCEPT ![q] = @ - 1] /\ UNCHANGED answered
  PROVE  /\ seen' \in [Queries -> Nat] /\ answered' \in [Queries -> Nat]
         /\ CountInv'
<1> DEFINE n(p) == Cardinality(InFlight(p))
           m(p) == Cardinality(InFlight(p)')
<1>1. /\ seen \in [Queries -> Nat] /\ answered \in [Queries -> Nat] /\ MaxRepeats \in Nat
      /\ \A p : n(p) \in Nat /\ m(p) \in Nat
      /\ \A p : p # q => m(p) = n(p)
  <2>1. \A p : Cardinality(InFlight(p)') \in Nat
    <3>1. TAKE p
    <3>2. InFlight(p)' \subseteq Slots
      BY DEF InFlight
    <3>3. QED
      BY <3>2, AgentTurnAssumption, FS_Subset, FS_CardinalityType
  <2>2. QED
    BY <2>1, InFlightMoves, InFlightFinite, AgentTurnAssumption DEF TypeOK
<1>2. \A p \in Queries : answered[p] + n(p) <= seen[p] /\ seen[p] < MaxRepeats
  BY DEF CountInv
<1>3. /\ Running(s) /\ to \in {"running", "refreshing", "retrying"} => m(q) = n(q)
      /\ ~Running(s) /\ to \in {"todo", "done"} => m(q) = n(q)
      /\ ~Running(s) /\ to \in {"running", "refreshing", "retrying"} => m(q) = n(q) + 1
      /\ Running(s) /\ to \in {"todo", "done"} => m(q) = n(q) - 1
  BY InFlightMoves
<1>4. SUFFICES
        /\ seen' \in [Queries -> Nat] /\ answered' \in [Queries -> Nat]
        /\ \A p \in Queries : answered'[p] + m(p) <= seen'[p] /\ seen'[p] < MaxRepeats
  BY DEF CountInv
<1> HIDE DEF n, m
<1>5. CASE /\ UNCHANGED <<seen, answered>>
           /\ Running(s) \/ to \in {"todo", "done"} \/ q \notin Queries
  <2>1. q \in Queries => m(q) <= n(q)
    BY <1>1, <1>3, <1>5 DEF CallStates
  <2>2. QED
    BY <1>1, <1>2, <1>5, <2>1
<1>6. CASE /\ q \in Queries /\ ~Running(s) /\ to \in {"running", "refreshing", "retrying"}
           /\ seen[q] < MaxRepeats - 1
           /\ seen' = [seen EXCEPT ![q] = @ + 1] /\ UNCHANGED answered
  BY <1>1, <1>2, <1>3, <1>6
<1>7. CASE /\ q \in Queries /\ Running(s) /\ to = "done"
           /\ answered' = [answered EXCEPT ![q] = @ + 1] /\ UNCHANGED seen
  BY <1>1, <1>2, <1>3, <1>7
<1>8. CASE /\ q \in Queries /\ Running(s) /\ to = "done"
           /\ seen' = [seen EXCEPT ![q] = @ - 1] /\ UNCHANGED answered
  <2>1. answered[q] + 1 <= seen[q]
    BY <1>8, InFlightCounted
  <2>2. QED
    BY <1>1, <1>2, <1>3, <1>8, <2>1
<1>9. QED
  BY <1>5, <1>6, <1>7, <1>8

\* When nothing is on its way the counts stand.
LEMMA CountsRest ==
  ASSUME TypeOK, CountInv, UNCHANGED <<seen, answered>>,
         \/ UNCHANGED calls
         \/ \A s \in Slots : calls'[s].state \in {"todo", "done"}
  PROVE  CountInv'
<1>1. CASE UNCHANGED calls
  BY <1>1 DEF CountInv, InFlight, Running
<1>2. CASE \A s \in Slots : calls'[s].state \in {"todo", "done"}
  <2>1. \A q : InFlight(q)' = {}
    BY <1>2 DEF InFlight, Running
  <2>2. \A q : Cardinality(InFlight(q)') = 0
    BY <2>1, FS_EmptySet
  <2>3. QED
    BY <1>2, <2>2, InFlightFinite DEF CountInv, TypeOK
<1>3. QED
  BY <1>1, <1>2

\* A step of a call keeps the types and the counts.
LEMMA CallTyped ==
  ASSUME TypeOK, CountInv, NEW s \in Slots, CallStep(s)
  PROVE  TypeOK' /\ CountInv'
<1>1. ASSUME NEW to \in CallStates, SetCall(s, to)
      PROVE  calls' \in [Slots -> [what : Queries \cup {"none", "propose"},
                          state : {"todo", "running", "refreshing", "retrying", "done"}]]
  BY <1>1, SetCallAt DEF Calls, CallStates
<1>2. "propose" \notin Queries
  BY AgentTurnAssumption
<1> USE DEF routing, outcome
<1>3. CASE StartRead(s)
  <2> DEFINE repeated == seen[calls[s].what] >= MaxRepeats - 1
  <2>1. /\ calls[s].state = "todo" /\ calls[s].what \in Queries
        /\ seen' = IF repeated THEN seen ELSE [seen EXCEPT ![calls[s].what] = @ + 1]
        /\ SetCall(s, IF repeated THEN "done" ELSE "running")
        /\ UNCHANGED <<routing, pc, signedIn, attempt, pass, answered, got, retry, final,
                      text, action, outcome, faults>>
    BY <1>3 DEF StartRead
  <2>2. ~Running(s)
    BY <2>1 DEF Running
  <2>3. /\ seen' \in [Queries -> Nat] /\ answered' \in [Queries -> Nat] /\ CountInv'
        /\ calls' \in [Slots -> [what : Queries \cup {"none", "propose"},
                          state : {"todo", "running", "refreshing", "retrying", "done"}]]
    <3>1. CASE repeated
      <4>1. SetCall(s, "done") /\ "done" \in CallStates
        BY <2>1, <3>1 DEF CallStates
      <4>2. QED
        BY <1>1, <2>1, <3>1, <4>1, CountsMove
    <3>2. CASE ~repeated
      <4>1. SetCall(s, "running") /\ "running" \in CallStates
        BY <2>1, <3>2 DEF CallStates
      <4>2. seen[calls[s].what] < MaxRepeats - 1
        BY <2>1, <3>2, AgentTurnAssumption DEF TypeOK
      <4>3. QED
        BY <1>1, <2>1, <2>2, <3>2, <4>1, <4>2, CountsMove
    <3>3. QED
      BY <3>1, <3>2
  <2>4. QED
    BY <2>1, <2>3 DEF TypeOK
<1>4. ASSUME Succeed(s), Running(s), calls[s].what \in Queries
      PROVE  /\ seen' \in [Queries -> Nat] /\ answered' \in [Queries -> Nat] /\ CountInv'
             /\ calls' \in [Slots -> [what : Queries \cup {"none", "propose"},
                          state : {"todo", "running", "refreshing", "retrying", "done"}]]
             /\ got' \in [rows : Nat, empty : Nat]
             /\ retry' \in {"unused", "pending", "used"} /\ final' \in {"no", "converge", "empty"}
  <2>1. /\ SetCall(s, "done") /\ "done" \in CallStates /\ UNCHANGED seen
        /\ answered' = [answered EXCEPT ![calls[s].what] = @ + 1]
    BY <1>4 DEF Succeed, CallStates
  <2>2. PICK empty \in BOOLEAN : Converge(calls[s].what, empty)
    BY <1>4 DEF Succeed
  <2>3. got' \in [rows : Nat, empty : Nat]
    BY <2>2 DEF Converge, TypeOK
  <2>4. retry' \in {"unused", "pending", "used"} /\ final' \in {"no", "converge", "empty"}
    BY <2>2 DEF Converge, TypeOK
  <2>5. QED
    BY <1>1, <1>4, <2>1, <2>3, <2>4, CountsMove
<1>5. ASSUME Forget(s), Running(s), calls[s].what \in Queries
      PROVE  /\ seen' \in [Queries -> Nat] /\ answered' \in [Queries -> Nat] /\ CountInv'
             /\ calls' \in [Slots -> [what : Queries \cup {"none", "propose"},
                          state : {"todo", "running", "refreshing", "retrying", "done"}]]
             /\ UNCHANGED <<got, retry, final>>
  <2>1. /\ SetCall(s, "done") /\ "done" \in CallStates /\ UNCHANGED <<answered, got, retry, final>>
        /\ seen' = [seen EXCEPT ![calls[s].what] = @ - 1]
    BY <1>5 DEF Forget, CallStates
  <2>2. QED
    BY <1>1, <1>5, <2>1, CountsMove
<1>6. ASSUME NEW to \in {"refreshing", "retrying"}, Wait(s, to), Running(s)
      PROVE  /\ seen' \in [Queries -> Nat] /\ answered' \in [Queries -> Nat] /\ CountInv'
             /\ calls' \in [Slots -> [what : Queries \cup {"none", "propose"},
                          state : {"todo", "running", "refreshing", "retrying", "done"}]]
             /\ UNCHANGED <<got, retry, final>>
  <2>1. SetCall(s, to) /\ to \in CallStates /\ UNCHANGED <<seen, answered, got, retry, final>>
    BY <1>6 DEF Wait, CallStates
  <2>2. QED
    BY <1>1, <1>6, <2>1, CountsMove
<1>7. CASE ReadInvalid(s)
  <2>1. Running(s) /\ calls[s].what \in Queries /\ Forget(s)
    BY <1>7 DEF ReadInvalid, Read, Running
  <2>2. QED
    BY <1>5, <1>7, <2>1 DEF ReadInvalid, Read, TypeOK
<1>8. CASE ReadAnswered(s)
  <2>1. Running(s) /\ calls[s].what \in Queries
    BY <1>8 DEF ReadAnswered, Read, Running
  <2>2. Succeed(s) \/ Wait(s, "refreshing") \/ Forget(s)
    <3>1. Called \subseteq {"ok", "auth", "failed"}
      BY DEF Called, Envelope, Rpc, Exchanges
    <3>2. QED
      BY <1>8, <3>1, Zenon DEF ReadAnswered
  <2>3. /\ seen' \in [Queries -> Nat] /\ answered' \in [Queries -> Nat] /\ CountInv'
        /\ calls' \in [Slots -> [what : Queries \cup {"none", "propose"},
                          state : {"todo", "running", "refreshing", "retrying", "done"}]]
        /\ got' \in [rows : Nat, empty : Nat]
        /\ retry' \in {"unused", "pending", "used"} /\ final' \in {"no", "converge", "empty"}
    BY <1>4, <1>5, <1>6, <2>1, <2>2 DEF TypeOK
  <2>4. QED
    BY <1>8, <2>3 DEF ReadAnswered, Read, TypeOK
<1>9. CASE ReadRefreshed(s)
  <2>1. Running(s) /\ calls[s].what \in Queries
    BY <1>9 DEF ReadRefreshed, Read, Running
  <2>2. Wait(s, "retrying") \/ Forget(s)
    BY <1>9 DEF ReadRefreshed
  <2>3. /\ seen' \in [Queries -> Nat] /\ answered' \in [Queries -> Nat] /\ CountInv'
        /\ calls' \in [Slots -> [what : Queries \cup {"none", "propose"},
                          state : {"todo", "running", "refreshing", "retrying", "done"}]]
        /\ UNCHANGED <<got, retry, final>>
    BY <1>5, <1>6, <2>1, <2>2
  <2>4. signedIn' \in BOOLEAN
    BY <1>9 DEF ReadRefreshed, TypeOK
  <2>5. action' \in [count : Nat, held : BOOLEAN, expired : BOOLEAN]
    <3>1. action' \in {action, [action EXCEPT !.expired = action.held]}
      BY <1>9 DEF ReadRefreshed
    <3>2. action \in [count : Nat, held : BOOLEAN, expired : BOOLEAN]
      BY DEF TypeOK
    <3>3. QED
      BY <3>1, <3>2
  <2>6. QED
    BY <1>9, <2>3, <2>4, <2>5 DEF ReadRefreshed, Read, TypeOK
<1>10. CASE ReadRetried(s)
  <2>1. Running(s) /\ calls[s].what \in Queries
    BY <1>10 DEF ReadRetried, Read, Running
  <2>2. (Succeed(s) \/ Forget(s)) /\ signedIn' \in BOOLEAN
    BY <1>10 DEF ReadRetried, TypeOK
  <2>3. /\ seen' \in [Queries -> Nat] /\ answered' \in [Queries -> Nat] /\ CountInv'
        /\ calls' \in [Slots -> [what : Queries \cup {"none", "propose"},
                          state : {"todo", "running", "refreshing", "retrying", "done"}]]
        /\ got' \in [rows : Nat, empty : Nat]
        /\ retry' \in {"unused", "pending", "used"} /\ final' \in {"no", "converge", "empty"}
    BY <1>4, <1>5, <2>1, <2>2 DEF TypeOK
  <2>4. QED
    BY <1>10, <2>2, <2>3 DEF ReadRetried, Read, TypeOK
<1>11. CASE \/ StartProposal(s) \/ FinishProposal(s) \/ ProposalFails(s)
            \/ ProposalLosesSession(s)
  <2>1. calls[s].what \notin Queries /\ UNCHANGED <<seen, answered>>
    BY <1>2, <1>11 DEF StartProposal, FinishProposal, ProposalFails, ProposalLosesSession
  <2>2. SetCall(s, "done") \/ SetCall(s, "running")
    BY <1>11 DEF StartProposal, FinishProposal, ProposalFails, ProposalLosesSession
  <2>3. /\ seen' \in [Queries -> Nat] /\ answered' \in [Queries -> Nat] /\ CountInv'
        /\ calls' \in [Slots -> [what : Queries \cup {"none", "propose"},
                          state : {"todo", "running", "refreshing", "retrying", "done"}]]
    BY <1>1, <2>1, <2>2, CountsMove DEF CallStates
  <2>4. action' \in [count : Nat, held : BOOLEAN, expired : BOOLEAN]
    <3>1. action' \in {action, [count |-> action.count + 1, held |-> TRUE, expired |-> FALSE],
                        [action EXCEPT !.count = @ + 1]}
      BY <1>11 DEF StartProposal, FinishProposal, ProposalFails, ProposalLosesSession
    <3>2. action \in [count : Nat, held : BOOLEAN, expired : BOOLEAN]
      BY DEF TypeOK
    <3>3. action.count + 1 \in Nat
      BY <3>2
    <3>4. [count |-> action.count + 1, held |-> TRUE, expired |-> FALSE]
            \in [count : Nat, held : BOOLEAN, expired : BOOLEAN]
      BY <3>3, Zenon
    <3>5. [action EXCEPT !.count = @ + 1] \in [count : Nat, held : BOOLEAN, expired : BOOLEAN]
      BY <3>2
    <3>6. QED
      BY <3>1, <3>2, <3>4, <3>5
  <2>5. faults' \in 0..MaxFaults
    BY <1>11, AgentTurnAssumption
       DEF StartProposal, FinishProposal, ProposalFails, ProposalLosesSession, TypeOK
  <2>6. QED
    BY <1>11, <2>3, <2>4, <2>5
       DEF StartProposal, FinishProposal, ProposalFails, ProposalLosesSession, TypeOK
<1>12. QED
  BY <1>3, <1>7, <1>8, <1>9, <1>10, <1>11 DEF CallStep

\* A new pass keeps them ...
LEMMA PassKeeps ==
  ASSUME TypeOK, CountInv, CallTools \/ EndPass
  PROVE  TypeOK' /\ CountInv'
<1>1. /\ calls' \in [Slots -> Calls]
      /\ \A s \in Slots : calls'[s].state \in {"todo", "done"}
  BY PassTyped, NoCallsTyped DEF CallTools, EndPass
<1>2. UNCHANGED <<seen, answered>>
  BY DEF CallTools, EndPass
<1>3. CountInv'
  BY <1>1, <1>2, CountsRest
<1>4. pass' \in 0..MaxPasses
  <2>1. (pass < MaxPasses /\ pass' = pass + 1) \/ pass' = pass
    BY DEF CallTools, EndPass
  <2>2. QED
    BY <2>1, AgentTurnAssumption DEF TypeOK
<1>5. retry' \in {"unused", "pending", "used"} /\ text' \in BOOLEAN
      /\ pc' \in {"acting", "thinking"}
  BY DEF CallTools, EndPass, Hint, TypeOK
<1>6. UNCHANGED <<mode, said, intent, signedIn, attempt, seen, answered, got, final,
                  action, stored, told, faults>>
  BY DEF CallTools, EndPass, routing, outcome
<1>7. QED
  BY <1>1, <1>3, <1>4, <1>5, <1>6 DEF TypeOK, Calls, CallStates

LEMMA StoredTyped ==
  ASSUME TypeOK
  PROVE  /\ stored \in Seq({"fixed", "answer", "fallback", "partial"})
         /\ \A r \in {"fixed", "answer", "fallback", "partial"} :
              Append(stored, r) \in Seq({"fixed", "answer", "fallback", "partial"})
<1> DEFINE R == {"fixed", "answer", "fallback", "partial"}
<1>1. stored \in Seq(R)
  BY DEF TypeOK
<1> HIDE DEF R
<1>2. \A r \in R : Append(stored, r) \in Seq(R)
  BY <1>1
<1>3. QED
  BY <1>1, <1>2 DEF R

\* ... as do an interruption ...
LEMMA InterruptionTyped ==
  ASSUME TypeOK, CountInv, Deadline \/ Disconnect \/ ProposalEndsTurn
  PROVE  TypeOK' /\ CountInv'
<1>1. calls' = NoCalls /\ UNCHANGED <<seen, answered>> /\ Interrupted
  BY DEF Deadline, Disconnect, ProposalEndsTurn
<1>2. /\ calls' \in [Slots -> Calls]
      /\ \A s \in Slots : calls'[s].state \in {"todo", "done"}
  BY <1>1, NoCallsTyped
<1>3. CountInv'
  BY <1>1, <1>2, CountsRest
<1>4. action' \in [count : Nat, held : BOOLEAN, expired : BOOLEAN]
  <2>1. action' \in {action, [action EXCEPT !.count = @ + 1]}
    BY <1>1 DEF Interrupted
  <2>2. action \in [count : Nat, held : BOOLEAN, expired : BOOLEAN]
    BY DEF TypeOK
  <2>3. [action EXCEPT !.count = @ + 1] \in [count : Nat, held : BOOLEAN, expired : BOOLEAN]
    BY <2>2
  <2>4. QED
    BY <2>1, <2>2, <2>3
<1>5. stored' \in Seq({"fixed", "answer", "fallback", "partial"})
  <2>1. stored' \in {stored, Append(stored, "answer"), Append(stored, "fallback"),
                     Append(stored, "partial")}
    BY <1>1 DEF Interrupted, Reply
  <2>2. QED
    BY <2>1, StoredTyped
<1>6. /\ pc' \in {"timedout", "over"} /\ told' \in {told, "nothing", "error"}
      /\ faults' \in 0..MaxFaults
      /\ UNCHANGED <<routing, signedIn, attempt, pass, seen, answered, got, retry, final,
                    text>>
  BY AgentTurnAssumption DEF Deadline, Disconnect, ProposalEndsTurn, Over, TypeOK
<1>7. QED
  BY <1>2, <1>3, <1>4, <1>5, <1>6 DEF TypeOK, Calls, CallStates, routing

\* ... the routing and the preparation ...
LEMMA PreparationTyped ==
  ASSUME TypeOK, CountInv, Classify \/ Prepare
  PROVE  TypeOK' /\ CountInv'
<1> USE DEF routing, outcome, agent, Over
<1>1. UNCHANGED agent
  BY DEF Classify, Prepare, GetCredential, Discover, ListTools, Identify, RefreshForRuntime
<1>2. CountInv'
  BY <1>1, CountsRest
<1>3. CASE Classify
  <2>1. intent' \in Intents
    BY <1>3 DEF Classify, Classified, RouteWithContext, Route, Intents
  <2>2. said' \in Seq(Messages)
    BY <1>3 DEF Classify
  <2>3. QED
    BY <1>2, <1>3, <2>1, <2>2 DEF Classify, TypeOK
<1>4. CASE GetCredential \/ RefreshForRuntime
  <2>1. /\ attempt' \in 0..2 /\ signedIn' \in BOOLEAN /\ told' \in {told, "refused"}
        /\ pc' \in {"discovering", "over"}
    <3>1. /\ attempt' \in {attempt, 1, 2} /\ told' \in {told, "refused"}
          /\ pc' \in {"discovering", "over"}
      BY <1>4 DEF GetCredential, RefreshForRuntime
    <3>2. signedIn' \in BOOLEAN
      BY <1>4, Zenon DEF GetCredential, RefreshForRuntime, TypeOK
    <3>3. attempt' \in 0..2
      BY <3>1 DEF TypeOK
    <3>4. QED
      BY <3>1, <3>2, <3>3
  <2>2. UNCHANGED <<mode, said, intent, agent, action, stored, faults>>
    BY <1>4 DEF GetCredential, RefreshForRuntime
  <2>3. QED
    BY <1>2, <2>1, <2>2 DEF TypeOK
<1>5. ASSUME NEW r, PreparationFails(r)
      PROVE  /\ signedIn' \in BOOLEAN /\ told' \in {told, "refused"}
             /\ pc' \in {"refreshing", "over"}
  BY <1>5 DEF PreparationFails, TypeOK
<1>6. CASE Discover \/ ListTools
  <2>1. /\ signedIn' \in BOOLEAN /\ told' \in {told, "refused"}
        /\ pc' \in {"listing", "identifying", "refreshing", "over"}
    BY <1>5, <1>6 DEF Discover, ListTools, TypeOK
  <2>2. QED
    BY <1>2, <1>6, <2>1 DEF Discover, ListTools, TypeOK
<1>7. CASE Identify
  <2>1. /\ signedIn' \in BOOLEAN /\ told' \in {told, "refused"}
        /\ pc' \in {"thinking", "refreshing", "over"}
    BY <1>5, <1>7 DEF Identify, Bind, TypeOK
  <2>2. QED
    BY <1>2, <1>7, <2>1 DEF Identify, TypeOK
<1>8. QED
  BY <1>3, <1>4, <1>6, <1>7 DEF Prepare

\* ... and the end of the turn.
LEMMA EndTyped ==
  ASSUME TypeOK, CountInv,
         \/ Fixed \/ Answer \/ ModelFails \/ EndStream \/ EndPlain \/ Persist \/ PersistFails
         \/ Announce \/ PersistPartial \/ UNCHANGED vars
  PROVE  TypeOK' /\ CountInv'
<1> USE DEF routing, outcome, agent, Over
<1>1. UNCHANGED <<seen, answered, calls>>
  BY DEF Fixed, Answer, ModelFails, EndStream, EndPlain, Persist, PersistFails, Announce,
     PersistPartial, vars
<1>2. CountInv'
  BY <1>1, CountsRest
<1>3. CASE Fixed \/ Persist \/ PersistPartial
  <2>1. stored' \in Seq({"fixed", "answer", "fallback", "partial"})
    BY <1>3, StoredTyped DEF Fixed, Persist, PersistPartial, Reply
  <2>2. QED
    BY <1>2, <1>3, <2>1 DEF Fixed, Persist, PersistPartial, TypeOK
<1>4. CASE Answer
  BY <1>2, <1>4 DEF Answer, Hint, TypeOK
<1>5. CASE ModelFails \/ PersistFails
  BY <1>2, <1>5, AgentTurnAssumption DEF ModelFails, PersistFails, TypeOK
<1>6. CASE EndStream \/ EndPlain \/ Announce
  BY <1>2, <1>6 DEF EndStream, EndPlain, Announce, TypeOK
<1>7. CASE UNCHANGED vars
  BY <1>2, <1>7 DEF vars, TypeOK
<1>8. QED
  BY <1>3, <1>4, <1>5, <1>6, <1>7

LEMMA InitTyped == Init => TypeOK /\ CountInv
<1> SUFFICES ASSUME Init PROVE TypeOK /\ CountInv
  OBVIOUS
<1>1. said \in Seq(Messages)
  <2>1. said \in Questions
    BY DEF Init
  <2>2. CASE said \in {<<m>> : m \in Messages}
    <3>1. PICK m \in Messages : said = <<m>>
      BY <2>2
    <3>2. QED
      BY <3>1
  <2>3. CASE said \in {<<p, m>> : p, m \in Messages}
    <3>1. PICK p \in Messages, m \in Messages : said = <<p, m>>
      BY <2>3
    <3>2. QED
      BY <3>1
  <2>4. QED
    BY <2>1, <2>2, <2>3 DEF Questions
<1>2. seen \in [Queries -> Nat] /\ answered \in [Queries -> Nat]
  BY DEF Init
<1>3. calls \in [Slots -> Calls]
  BY NoCallsTyped DEF Init
<1>4. \A q : InFlight(q) = {}
  BY NoCallsTyped DEF Init, InFlight, Running
<1>5. CountInv
  <2>1. \A q : Cardinality(InFlight(q)) = 0
    BY <1>4, FS_EmptySet
  <2>2. \A q \in Queries : answered[q] = 0 /\ seen[q] = 0
    BY DEF Init
  <2>3. QED
    BY <2>1, <2>2, AgentTurnAssumption DEF CountInv
<1>6. got \in [rows : Nat, empty : Nat]
      /\ action \in [count : Nat, held : BOOLEAN, expired : BOOLEAN]
  BY Zenon DEF Init
<1>7. /\ attempt \in 0..2 /\ pass \in 0..MaxPasses /\ faults \in 0..MaxFaults
      /\ signedIn \in BOOLEAN /\ text \in BOOLEAN
  <2>1. signedIn \in BOOLEAN /\ text \in BOOLEAN
    BY Zenon DEF Init
  <2>2. attempt = 0 /\ pass = 0 /\ faults = 0
    BY DEF Init
  <2>3. QED
    BY <2>1, <2>2, AgentTurnAssumption
<1>8. stored \in Seq({"fixed", "answer", "fallback", "partial"})
  BY DEF Init
<1>9. /\ mode \in {"plain", "stream", "model"} /\ pc \in {"routing", "thinking"}
      /\ intent = "none" /\ retry = "unused" /\ final = "no" /\ told = "nothing"
  BY DEF Init, Entry
<1>10. QED
  BY <1>1, <1>2, <1>3, <1>5, <1>6, <1>7, <1>8, <1>9 DEF TypeOK, Calls, CallStates

LEMMA TypesKept == TypeOK /\ CountInv /\ [Next]_vars => TypeOK' /\ CountInv'
BY CallTyped, PassKeeps, InterruptionTyped, PreparationTyped, EndTyped DEF Next, Proceed

\* Every variable keeps its type.
THEOREM TurnTypeCorrect == Spec => []TypeOK
<1>1. TypeOK /\ CountInv /\ [Next]_vars => TypeOK' /\ CountInv'
  BY TypesKept
<1>2. QED
  BY InitTyped, <1>1, PTL DEF Spec

\* However the calls of a pass interleave and fail, no query is answered more often
\* than the loop guard allows.
THEOREM TurnRepeatsBounded == Spec => []RepeatsBounded
<1>1. TypeOK /\ CountInv => RepeatsBounded
  <2>1. \A q \in Queries : Cardinality(InFlight(q)) \in Nat
    BY InFlightFinite
  <2>2. QED
    BY <2>1, AgentTurnAssumption DEF TypeOK, CountInv, RepeatsBounded
<1>2. TypeOK /\ CountInv /\ [Next]_vars => TypeOK' /\ CountInv'
  BY TypesKept
<1>3. QED
  BY InitTyped, <1>1, <1>2, PTL DEF Spec

-----------------------------------------------------------------------------
(* One reply and one Action.                                                *)

\* A reply is stored where the turn can only announce it or end; only a running proposal
\* can create the Action, alone and while the tool holds none; and only an action intent
\* has one.
OutcomeInv ==
  /\ stored = << >> \/ (Len(stored) = 1 /\ pc \in {"announcing", "over"})
  /\ pc = "announcing" => Len(stored) = 1
  /\ pc = "routing" => intent = "none"
  /\ pc = "fixed" => intent \in {"deny", "clarify"}
  /\ pc # "over" => told = "nothing"
  /\ told \in {"done", "announced"} => Len(stored) = 1
  /\ told = "done" => action.count = 0
  /\ pc # "acting" => \A s \in Slots : calls[s].what = "none"
  /\ \A s \in Slots : calls[s].what = "propose" => intent = "action"
  /\ \A s, r \in Slots :
       Running(s) /\ calls[s].what = "propose" => ~action.held /\ (Running(r) => r = s)
  /\ action.held => action.count = 1
  /\ pc = "announcing" /\ ~action.held => action.count = 0
  /\ action.count = 0 \/ (action.count = 1 /\ intent = "action")

LEMMA OutcomeStart == Init => OutcomeInv
<1> SUFFICES ASSUME Init PROVE OutcomeInv
  OBVIOUS
<1>1. action.count = 0 /\ ~action.held
  BY Zenon DEF Init
<1>2. \A s \in Slots : calls[s].what = "none"
  BY NoCallsTyped DEF Init
<1>3. stored = << >> /\ intent = "none" /\ told = "nothing" /\ pc \in {"routing", "thinking"}
  BY DEF Init, Entry
<1>4. \A s \in Slots : calls[s].what # "propose"
  BY <1>2
<1>5. QED
  BY <1>1, <1>2, <1>3, <1>4, Zenon DEF OutcomeInv

\* Steps that neither store, nor call, nor propose.
LEMMA OutcomeRests ==
  ASSUME TypeOK, OutcomeInv,
         UNCHANGED <<calls, stored, action>>,
         pc' \in {"announcing", "over"} \/ stored = << >>,
         pc' # "announcing", pc' # "acting", pc # "acting",
         pc' # "routing", pc' # "over" => UNCHANGED told,
         pc' = "fixed" => intent' \in {"deny", "clarify"},
         told' \in {"done", "announced"} => Len(stored) = 1,
         told' = "done" => action.count = 0,
         UNCHANGED intent \/ pc = "routing", pc # "over"
  PROVE  OutcomeInv'
BY DEF OutcomeInv, Running

\* The steps of a call.
LEMMA OutcomeOfCall ==
  ASSUME TypeOK, OutcomeInv, NEW s \in Slots, CallStep(s)
  PROVE  OutcomeInv'
<1> USE DEF routing, outcome
<1>1. pc = "acting" /\ UNCHANGED <<pc, intent, stored, told>>
  BY DEF CallStep, StartRead, ReadInvalid, ReadAnswered, ReadRefreshed, ReadRetried, Read,
     StartProposal, FinishProposal, ProposalFails, ProposalLosesSession
<1>2. "propose" \notin Queries /\ "none" \notin Queries
  BY AgentTurnAssumption
<1>3. \A to \in CallStates : SetCall(s, to) =>
        /\ calls'[s].state = to /\ calls'[s].what = calls[s].what
        /\ \A r \in Slots : r # s => calls'[r] = calls[r]
  BY SetCallAt
<1>4. CASE StartRead(s)
  <2>1. /\ calls[s].what \in Queries /\ UNCHANGED action
        /\ ~\E r \in Slots : Running(r) /\ calls[r].what = "propose"
        /\ SetCall(s, "done") \/ SetCall(s, "running")
    BY <1>4 DEF StartRead
  <2>2. /\ calls'[s].what = calls[s].what
        /\ \A r \in Slots : r # s => calls'[r] = calls[r]
    BY <1>3, <2>1 DEF CallStates
  <2>3. QED
    BY <1>1, <1>2, <2>1, <2>2 DEF OutcomeInv, Running
<1>5. CASE ReadInvalid(s) \/ ReadAnswered(s) \/ ReadRefreshed(s) \/ ReadRetried(s)
  <2>1. calls[s].what \in Queries /\ Running(s)
    BY <1>5 DEF ReadInvalid, ReadAnswered, ReadRefreshed, ReadRetried, Read, Running
  <2>2. \E to \in CallStates : SetCall(s, to)
    <3>1. Succeed(s) \/ Forget(s) \/ Wait(s, "refreshing") \/ Wait(s, "retrying")
      <4>1. Called \subseteq {"ok", "auth", "failed"}
        BY DEF Called, Envelope, Rpc, Exchanges
      <4>2. CASE ReadAnswered(s)
        BY <4>1, <4>2, Zenon DEF ReadAnswered
      <4>3. CASE ReadInvalid(s) \/ ReadRefreshed(s) \/ ReadRetried(s)
        BY <4>3, Zenon DEF ReadInvalid, ReadRefreshed, ReadRetried
      <4>4. QED
        BY <1>5, <4>2, <4>3
    <3>2. QED
      BY <3>1 DEF Succeed, Forget, Wait, CallStates
  <2>3. /\ calls'[s].what = calls[s].what
        /\ \A r \in Slots : r # s => calls'[r] = calls[r]
    BY <1>3, <2>2
  <2>4. action'.count = action.count /\ action'.held = action.held
    <3>1. action' \in {action, [action EXCEPT !.expired = action.held]}
      BY <1>5 DEF ReadInvalid, ReadAnswered, ReadRefreshed, ReadRetried
    <3>2. action \in [count : Nat, held : BOOLEAN, expired : BOOLEAN]
      BY DEF TypeOK
    <3>3. QED
      BY <3>1, <3>2
  <2>5. ~\E r \in Slots : Running(r) /\ calls[r].what = "propose"
    BY <1>2, <2>1 DEF OutcomeInv
  <2>6. \A r \in Slots : calls'[r].what = calls[r].what
    BY <2>3
  <2>7. ~\E r \in Slots : Running(r)' /\ calls'[r].what = "propose"
    BY <1>2, <2>1, <2>3, <2>5 DEF Running
  <2>8. QED
    BY <1>1, <2>4, <2>6, <2>7 DEF OutcomeInv
<1>6. CASE StartProposal(s)
  <2>1. /\ calls[s].what = "propose" /\ UNCHANGED action
        /\ ~\E r \in Slots : Running(r)
        /\ action.held => SetCall(s, "done")
        /\ ~action.held => SetCall(s, "running")
    BY <1>6 DEF StartProposal
  <2>2. /\ calls'[s].what = calls[s].what
        /\ \A r \in Slots : r # s => calls'[r] = calls[r]
        /\ action.held => calls'[s].state = "done"
    BY <1>3, <2>1 DEF CallStates
  <2>3. \A r \in Slots : Running(r)' => r = s /\ ~action.held
    BY <2>1, <2>2 DEF Running
  <2>4. QED
    BY <1>1, <2>1, <2>2, <2>3 DEF OutcomeInv
<1>7. CASE FinishProposal(s) \/ ProposalFails(s) \/ ProposalLosesSession(s)
  <2>1. calls[s].what = "propose" /\ Running(s) /\ SetCall(s, "done")
    BY <1>7 DEF FinishProposal, ProposalFails, ProposalLosesSession
  <2>2. /\ calls'[s].what = calls[s].what /\ calls'[s].state = "done"
        /\ \A r \in Slots : r # s => calls'[r] = calls[r]
    BY <1>3, <2>1 DEF CallStates
  <2>3. \A r \in Slots : ~Running(r)'
    BY <2>1, <2>2 DEF OutcomeInv, Running
  <2>4. \A r \in Slots : calls'[r].what = calls[r].what
    BY <2>2
  <2>5. ~action.held /\ action.count \in {0, 1} /\ intent = "action"
    BY <1>1, <2>1 DEF OutcomeInv
  <2>6. \/ UNCHANGED action
        \/ action'.count = 1
    <3>1. \/ UNCHANGED action
          \/ ~Spoiled /\ action' \in {[count |-> action.count + 1, held |-> TRUE, expired |-> FALSE],
                                     [action EXCEPT !.count = @ + 1]}
      BY <1>7 DEF FinishProposal, ProposalFails, ProposalLosesSession
    <3>2. UNCHANGED action \/ (action'.count = action.count + 1 /\ action.count = 0)
      BY <2>5, <3>1 DEF Spoiled, TypeOK
    <3>3. QED
      BY <3>2
  <2>7. QED
    BY <1>1, <2>3, <2>4, <2>5, <2>6 DEF OutcomeInv
<1>8. QED
  BY <1>4, <1>5, <1>6, <1>7 DEF CallStep

\* A pass begins or ends.
LEMMA OutcomeOfPass ==
  ASSUME TypeOK, OutcomeInv, CallTools \/ EndPass
  PROVE  OutcomeInv'
<1>1. /\ pc \in {"thinking", "acting"} /\ pc' \in {"thinking", "acting"}
      /\ UNCHANGED <<mode, intent, stored, told, action>>
  BY DEF CallTools, EndPass, routing, outcome
<1>2. \A s \in Slots : ~Running(s)'
  BY PassTyped, NoCallsTyped DEF CallTools, EndPass, Running
<1>3. \A s \in Slots : calls'[s].what = "propose" => intent = "action"
  <2>1. CASE CallTools
    <3>1. "propose" \in Callable => intent = "action"
      BY AgentTurnAssumption DEF Callable, AgentFor
    <3>2. QED
      BY <2>1, <3>1, PassTyped DEF CallTools
  <2>2. CASE EndPass
    BY <2>2, NoCallsTyped DEF EndPass
  <2>3. QED
    BY <2>1, <2>2
<1>4. pc' # "acting" => \A s \in Slots : calls'[s].what = "none"
  BY NoCallsTyped DEF CallTools, EndPass
<1>5. QED
  BY <1>1, <1>2, <1>3, <1>4 DEF OutcomeInv

\* The time-out strikes or the client leaves, and what was under way may still be
\* committed.
LEMMA OutcomeOfInterruption ==
  ASSUME TypeOK, OutcomeInv, Deadline \/ Disconnect \/ ProposalEndsTurn
  PROVE  OutcomeInv'
<1>1. /\ Interrupted /\ calls' = NoCalls /\ UNCHANGED intent
      /\ \/ pc \in {"thinking", "acting"} /\ pc' = "timedout" /\ UNCHANGED told
         \/ pc # "over" /\ pc' = "over" /\ told' \in {"nothing", "error"}
  BY DEF Deadline, Disconnect, ProposalEndsTurn, Over, routing, Streaming
<1>2. \A s \in Slots : calls'[s].what = "none" /\ ~Running(s)'
  BY <1>1, NoCallsTyped DEF Running
<1>3. \/ UNCHANGED stored
      \/ pc \in {"persisting", "timedout"} /\ \E r : stored' = Append(stored, r)
  BY <1>1 DEF Interrupted
<1>4. \/ stored' = << >>
      \/ Len(stored') = 1 /\ pc' = "over"
  <2>1. CASE UNCHANGED stored
    BY <1>1, <2>1 DEF OutcomeInv
  <2>2. CASE pc \in {"persisting", "timedout"} /\ \E r : stored' = Append(stored, r)
    <3>1. stored = << >> /\ pc' = "over"
      BY <1>1, <2>2 DEF OutcomeInv
    <3>2. QED
      BY <2>2, <3>1
  <2>3. QED
    BY <1>3, <2>1, <2>2
<1>5. /\ action'.count = 0 \/ (action'.count = 1 /\ intent = "action")
      /\ action'.held => action'.count = 1
  <2>1. CASE UNCHANGED action
    BY <2>1 DEF OutcomeInv
  <2>2. CASE action' # action
    <3>1. PICK s \in Slots : /\ Running(s) /\ calls[s].what = "propose" /\ ~Spoiled
                             /\ action' = [action EXCEPT !.count = @ + 1]
      BY <1>1, <2>2 DEF Interrupted
    <3>2. pc = "acting" /\ intent = "action" /\ action.count = 0
      BY <3>1 DEF OutcomeInv, Spoiled
    <3>3. action'.count = 1
      BY <3>1, <3>2 DEF TypeOK
    <3>4. QED
      BY <3>2, <3>3
  <2>3. QED
    BY <2>1, <2>2
<1>6. /\ pc' \in {"timedout", "over"} /\ told' \in {"nothing", "error"}
      /\ UNCHANGED intent /\ (pc' = "timedout" => told' = "nothing")
  BY <1>1 DEF OutcomeInv
<1>7. pc' = "announcing" \/ stored' = << >> \/ pc' = "over"
  BY <1>4
<1>8. \A s \in Slots : calls'[s].what # "propose"
  BY <1>2
<1>9. QED
  BY <1>2, <1>4, <1>5, <1>6, <1>8 DEF OutcomeInv, Running

\* A reply is stored, unless the database session is spoiled.
LEMMA OutcomeOfReply ==
  ASSUME TypeOK, OutcomeInv, Fixed \/ Persist \/ PersistPartial
  PROVE  OutcomeInv'
<1>1. /\ UNCHANGED <<intent, calls, action>>
      /\ \/ pc = "fixed" /\ pc' = "over" /\ told' = "done" /\ stored' = Append(stored, "fixed")
         \/ /\ pc = "persisting" /\ pc' = "announcing" /\ UNCHANGED told /\ ~Spoiled
            /\ \E r : stored' = Append(stored, r)
         \/ /\ pc \in {"persisting", "timedout"} /\ pc' = "over" /\ told' = "error"
            /\ \/ UNCHANGED stored
               \/ \E r : stored' = Append(stored, r)
  BY DEF Fixed, Persist, PersistPartial, Over, routing, agent
<1>2. stored = << >>
  BY <1>1 DEF OutcomeInv
<1>3. Len(stored') = 1 \/ (stored' = << >> /\ pc' = "over" /\ told' = "error")
  BY <1>1, <1>2
<1>4. /\ pc = "fixed" => action.count = 0
      /\ ~Spoiled /\ ~action.held => action.count = 0
  BY DEF OutcomeInv, Spoiled
<1>5. \A s \in Slots : calls[s].what = "none"
  BY <1>1 DEF OutcomeInv
<1>6. \A s \in Slots : calls'[s].what = "none"
  BY <1>1, <1>5
<1>7. QED
  BY <1>1, <1>3, <1>4, <1>6 DEF OutcomeInv

\* All the rest.
LEMMA OutcomeOfRest ==
  ASSUME TypeOK, OutcomeInv,
         \/ Classify \/ Prepare \/ Answer \/ ModelFails \/ EndStream \/ EndPlain
         \/ PersistFails \/ Announce
  PROVE  OutcomeInv'
<1> USE DEF routing, agent, outcome, Over
<1>1. UNCHANGED <<calls, stored, action>>
  BY DEF Classify, Prepare, GetCredential, Discover, ListTools, Identify, RefreshForRuntime,
     Answer, ModelFails, EndStream, EndPlain, PersistFails, Announce
<1>2. CASE Classify
  BY <1>1, <1>2, OutcomeRests DEF Classify, OutcomeInv
<1>3. CASE Prepare
  <2>1. /\ pc \in {"credential", "discovering", "listing", "identifying", "refreshing"}
        /\ pc' \in {"discovering", "listing", "identifying", "refreshing", "thinking", "over"}
        /\ told' \in {told, "refused"} /\ UNCHANGED intent /\ (pc' # "over" => UNCHANGED told)
    BY <1>3 DEF Prepare, GetCredential, Discover, ListTools, Identify, RefreshForRuntime, Bind,
       PreparationFails
  <2>2. QED
    BY <1>1, <2>1, OutcomeRests DEF OutcomeInv
<1>4. CASE Answer \/ EndStream \/ EndPlain
  <2>1. /\ pc \in {"thinking", "ending"} /\ pc' \in {"ending", "persisting", "over"}
        /\ told' \in {told, "error"} /\ UNCHANGED intent /\ (pc' # "over" => UNCHANGED told)
    BY <1>4 DEF Answer, EndStream, EndPlain
  <2>2. QED
    BY <1>1, <2>1, OutcomeRests DEF OutcomeInv
<1>5. CASE ModelFails \/ PersistFails
  <2>1. /\ pc \in {"thinking", "fixed", "persisting", "timedout"} /\ pc' = "over"
        /\ told' = "error" /\ UNCHANGED intent
    BY <1>5 DEF ModelFails, PersistFails
  <2>2. QED
    BY <1>1, <2>1, OutcomeRests DEF OutcomeInv
<1>6. CASE Announce
  <2>1. /\ pc = "announcing" /\ pc' = "over" /\ UNCHANGED intent
        /\ told' \in {"announced", "done"} /\ (told' = "done" => ~action.held)
    BY <1>6 DEF Announce
  <2>2. Len(stored) = 1 /\ (~action.held => action.count = 0)
    BY <2>1 DEF OutcomeInv
  <2>3. QED
    BY <1>1, <2>1, <2>2, OutcomeRests
<1>7. QED
  BY <1>2, <1>3, <1>4, <1>5, <1>6

LEMMA OutcomeKept == TypeOK /\ OutcomeInv /\ [Next]_vars => OutcomeInv'
<1> SUFFICES ASSUME TypeOK, OutcomeInv, [Next]_vars PROVE OutcomeInv'
  OBVIOUS
<1>1. CASE UNCHANGED vars
  BY <1>1 DEF vars, routing, agent, outcome, OutcomeInv, Running
<1>2. CASE Next
  BY <1>2, OutcomeOfCall, OutcomeOfPass, OutcomeOfInterruption, OutcomeOfReply, OutcomeOfRest
     DEF Next, Proceed
<1>3. QED
  BY <1>1, <1>2

\* A turn stores at most one reply and creates at most one Action, wherever it is
\* interrupted, and only an action intent creates one.
THEOREM TurnOneOutcome == Spec => []OneOutcome
<1>1. TypeOK /\ OutcomeInv => OneOutcome
  <2>1. ASSUME TypeOK, OutcomeInv PROVE Len(stored) <= 1
    <3>1. stored = << >> \/ Len(stored) = 1
      BY <2>1 DEF OutcomeInv
    <3>2. stored = << >> => Len(stored) = 0
      OBVIOUS
    <3>3. QED
      BY <3>1, <3>2
  <2>2. ASSUME TypeOK, OutcomeInv
        PROVE  action.count <= 1 /\ (action.count = 1 => intent = "action")
    <3>1. action.count = 0 \/ (action.count = 1 /\ intent = "action")
      BY <2>2 DEF OutcomeInv
    <3>2. QED
      BY <3>1
  <2>3. QED
    BY <2>1, <2>2 DEF OneOutcome
<1>2. QED
  BY TurnTypeCorrect, OutcomeStart, OutcomeKept, <1>1, PTL DEF Spec

\* A client that was told that its turn is done finds the reply in the history, and was
\* shown the Action, if there is one.
THEOREM TurnDoneIsStored == Spec => []DoneIsStored
<1>1. OutcomeInv => DoneIsStored
  BY DEF OutcomeInv, DoneIsStored
<1>2. QED
  BY TurnTypeCorrect, OutcomeStart, OutcomeKept, <1>1, PTL DEF Spec

-----------------------------------------------------------------------------
(* Convergence.                                                             *)

\* As long as the data agent may go on it has no rows, and an empty list has used up its
\* retry.
ConvergeInv ==
  /\ mode = "model" => intent = "none" /\ pc # "routing"
  /\ pc = "routing" => got.rows = 0 /\ got.empty = 0
  /\ intent = "data" /\ final = "no" =>
       got.rows = 0 /\ got.empty <= 1 /\ (retry = "unused" => got.empty = 0)

\* An answer.
LEMMA ConvergeOfAnswer ==
  ASSUME TypeOK, ConvergeInv, NEW s \in Slots, Succeed(s), calls[s].what \in Queries,
         UNCHANGED <<mode, intent>>, pc' = "acting"
  PROVE  ConvergeInv'
<1>1. PICK empty \in BOOLEAN : Converge(calls[s].what, empty)
  BY DEF Succeed
<1>2. got \in [rows : Nat, empty : Nat]
  BY DEF TypeOK
<1>3. CASE calls[s].what \notin Terminal
  BY <1>1, <1>3 DEF Converge, ConvergeInv
<1>4. CASE calls[s].what \in Terminal /\ intent = "data"
  <2>1. AgentFor = "data"
    BY <1>4 DEF AgentFor, ConvergeInv
  <2>2. CASE ~empty
    BY <1>1, <1>4, <2>1, <2>2 DEF Converge, ConvergeInv
  <2>3. CASE empty /\ retry # "unused"
    BY <1>1, <1>4, <2>1, <2>3 DEF Converge, ConvergeInv
  <2>4. CASE empty /\ retry = "unused"
    <3>1. got' = [got EXCEPT !.empty = @ + 1] /\ retry' = "pending" /\ UNCHANGED final
      BY <1>1, <1>4, <2>1, <2>4 DEF Converge
    <3>2. got'.rows = got.rows /\ got'.empty = got.empty + 1
      BY <1>2, <3>1
    <3>3. QED
      BY <1>4, <2>4, <3>1, <3>2 DEF ConvergeInv
  <2>5. QED
    BY <2>2, <2>3, <2>4
<1>5. CASE intent # "data"
  BY <1>5 DEF ConvergeInv
<1>6. QED
  BY <1>3, <1>4, <1>5

LEMMA ConvergeKept == TypeOK /\ ConvergeInv /\ [Next]_vars => ConvergeInv'
<1> SUFFICES ASSUME TypeOK, ConvergeInv, [Next]_vars PROVE ConvergeInv'
  OBVIOUS
<1> USE DEF routing, agent, outcome, Over
<1>1. CASE Classify
  BY <1>1, AgentTurnAssumption DEF Classify, ConvergeInv, Entry
<1>2. CASE UNCHANGED <<mode, intent, got, final>> /\ pc' # "routing" /\ (retry' = "unused" => retry = "unused")
  BY <1>2 DEF ConvergeInv
<1>3. CASE Fixed \/ Prepare \/ EndPass \/ EndStream \/ EndPlain \/ Persist \/ Announce
             \/ PersistPartial \/ ModelFails \/ PersistFails \/ Deadline \/ Disconnect
             \/ ProposalEndsTurn
  <2>1. UNCHANGED <<mode, intent, got, final, retry>> /\ pc' # "routing"
    BY <1>3 DEF Fixed, Prepare, GetCredential, Discover, ListTools, Identify, RefreshForRuntime,
       Bind, PreparationFails, EndPass, EndStream, EndPlain, Persist, Announce, PersistPartial,
       ModelFails, PersistFails, Deadline, Disconnect, ProposalEndsTurn
  <2>2. QED
    BY <1>2, <2>1
<1>4. CASE Answer \/ CallTools
  <2>1. /\ UNCHANGED <<mode, intent, got, final>> /\ pc' # "routing"
        /\ retry' = "unused" => retry = "unused"
    BY <1>4 DEF Answer, CallTools, Hint
  <2>2. QED
    BY <1>2, <2>1
<1>5. ASSUME NEW s \in Slots, CallStep(s) PROVE ConvergeInv'
  <2>1. UNCHANGED <<mode, intent>> /\ pc' = "acting"
    BY <1>5 DEF CallStep, StartRead, ReadInvalid, ReadAnswered, ReadRefreshed, ReadRetried, Read,
       StartProposal, FinishProposal, ProposalFails, ProposalLosesSession
  <2>2. \/ UNCHANGED <<got, final, retry>>
        \/ Succeed(s) /\ calls[s].what \in Queries
    <3>1. CASE \/ StartRead(s) \/ StartProposal(s) \/ FinishProposal(s) \/ ProposalFails(s)
               \/ ProposalLosesSession(s)
      BY <3>1 DEF StartRead, StartProposal, FinishProposal, ProposalFails,
         ProposalLosesSession
    <3>2. CASE ReadAnswered(s)
      <4>1. Called \subseteq {"ok", "auth", "failed"}
        BY DEF Called, Envelope, Rpc, Exchanges
      <4>2. calls[s].what \in Queries
        BY <3>2 DEF ReadAnswered, Read
      <4>3. Succeed(s) \/ Wait(s, "refreshing") \/ Forget(s)
        BY <3>2, <4>1, Zenon DEF ReadAnswered
      <4>4. QED
        BY <4>2, <4>3 DEF Wait, Forget
    <3>3. CASE ReadInvalid(s) \/ ReadRefreshed(s)
      BY <3>3 DEF ReadInvalid, ReadRefreshed, Read, Wait, Forget
    <3>4. CASE ReadRetried(s)
      BY <3>4 DEF ReadRetried, Read, Forget
    <3>5. QED
      BY <1>5, <3>1, <3>2, <3>3, <3>4 DEF CallStep
  <2>3. QED
    BY <1>2, <1>5, <2>1, <2>2, ConvergeOfAnswer
<1>6. CASE UNCHANGED vars
  BY <1>6 DEF vars, ConvergeInv
<1>7. QED
  BY <1>1, <1>3, <1>4, <1>5, <1>6 DEF Next, Proceed

\* The data agent calls no more tools once it has rows or a count, or two empty lists.
THEOREM TurnConverges == Spec => Converges
<1>1. Init => ConvergeInv
  BY DEF Init, ConvergeInv, Entry
<1>2. ConvergeInv /\ [Next]_vars
        => [intent = "data" /\ pc = "thinking" /\ pc' = "acting" =>
              got.rows = 0 /\ got.empty <= 1]_vars
  <2>1. ASSUME ConvergeInv, Next, intent = "data", pc = "thinking", pc' = "acting"
        PROVE  got.rows = 0 /\ got.empty <= 1
    <3>1. CallTools
      BY <2>1 DEF Next, Proceed, Classify, Fixed, Prepare, GetCredential, Discover, ListTools,
         Identify, RefreshForRuntime, Answer, EndPass, CallStep, StartRead, ReadInvalid,
         ReadAnswered, ReadRefreshed, ReadRetried, Read, StartProposal, FinishProposal,
         ProposalFails, ProposalLosesSession, EndStream, EndPlain, Persist, Announce,
         PersistPartial, ModelFails, ProposalEndsTurn, PersistFails, Deadline, Disconnect,
         Over
    <3>2. QED
      BY <2>1, <3>1 DEF CallTools, ConvergeInv
  <2>2. QED
    BY <2>1
<1>3. QED
  BY TurnTypeCorrect, ConvergeKept, <1>1, <1>2, PTL DEF Spec, Converges

-----------------------------------------------------------------------------
(* The turn uses the proposal tool as agreed.                               *)

\* The tool's part of OutcomeInv: nothing is called outside "acting", and a call runs
\* alone and while no Action is held.
LEMMA ToolAtRest ==
  ASSUME OutcomeInv, pc # "acting"
  PROVE  ~Proposing
BY AgentTurnAssumption DEF OutcomeInv, Proposing

\* What a flag says as a formula and as a value.
LEMMA Flags ==
  /\ Proposing \in BOOLEAN /\ (Proposing' \in BOOLEAN)
  /\ Ended \in BOOLEAN /\ (Ended' \in BOOLEAN)
BY DEF Proposing, Ended

LEMMA ContractInit == Init => Contract!Init
<1> SUFFICES ASSUME Init PROVE Contract!Init
  OBVIOUS
<1>1. action.held = FALSE /\ action.count = 0
  BY Zenon DEF Init
<1>2. pc # "acting" /\ ~Ended
  BY DEF Init, Entry, Ended
<1>3. ~Proposing
  BY <1>2, OutcomeStart, ToolAtRest
<1>4. Proposing = FALSE /\ Ended = FALSE
  BY <1>2, <1>3, Flags, Zenon
<1>5. QED
  BY <1>1, <1>4, Zenon DEF Contract!Init

\* The steps of the contract.
LEMMA ContractRests ==
  ASSUME Proposing' <=> Proposing, Ended' <=> Ended,
         action'.held = action.held, action'.count = action.count
  PROVE  [Contract!Next]_(Contract!toolVars)
<1>1. Proposing' = Proposing /\ Ended' = Ended
  BY Flags, Zenon
<1>2. QED
  BY <1>1, Zenon DEF Contract!toolVars

LEMMA ContractStarts ==
  ASSUME ~Proposing, Proposing', ~Ended, ~Ended', ~action.held, UNCHANGED action
  PROVE  [Contract!Next]_(Contract!toolVars)
<1>1. Proposing' = TRUE /\ Ended' = Ended
  BY Flags, Zenon
<1>2. Contract!Start
  BY <1>1, Zenon DEF Contract!Start
<1>3. QED
  BY <1>2, Zenon DEF Contract!Next

LEMMA ContractRefuses ==
  ASSUME Proposing, ~Proposing', ~Ended, ~Ended', UNCHANGED action
  PROVE  [Contract!Next]_(Contract!toolVars)
<1>1. Proposing' = FALSE /\ Ended' = Ended
  BY Flags, Zenon
<1>2. Contract!Refuse
  BY <1>1, Zenon DEF Contract!Refuse
<1>3. QED
  BY <1>2, Zenon DEF Contract!Next

LEMMA ContractCommits ==
  ASSUME Proposing, ~Proposing', ~Ended, ~Ended', action.count = 0,
         action'.held = TRUE, action'.count = 1
  PROVE  [Contract!Next]_(Contract!toolVars)
<1>1. Proposing' = FALSE /\ Ended' = Ended
  BY Flags, Zenon
<1>2. Contract!Commit
  BY <1>1, Zenon DEF Contract!Commit
<1>3. QED
  BY <1>2, Zenon DEF Contract!Next

LEMMA ContractEndsTurn ==
  ASSUME ~Proposing', ~Ended, Ended', action'.held = action.held,
         \/ action'.count = action.count
         \/ Proposing /\ action.count = 0 /\ action'.count = 1
  PROVE  [Contract!Next]_(Contract!toolVars)
<1>1. Proposing' = FALSE /\ Ended' = TRUE
  BY Flags, Zenon
<1>2. Contract!End
  BY <1>1, Zenon DEF Contract!End
<1>3. QED
  BY <1>2, Zenon DEF Contract!Next

LEMMA ContractLoses ==
  ASSUME Proposing, ~Proposing', ~Ended, ~Ended', action.count = 0,
         action'.held = action.held, action'.count = 1
  PROVE  [Contract!Next]_(Contract!toolVars)
<1>1. Proposing' = FALSE /\ Ended' = Ended
  BY Flags, Zenon
<1>2. Contract!Lose
  BY <1>1, Zenon DEF Contract!Lose
<1>3. QED
  BY <1>2, Zenon DEF Contract!Next

\* The turn ends outside a call.
LEMMA ContractEnds ==
  ASSUME OutcomeInv, pc # "acting", Ended', UNCHANGED action,
         ~Proposing'
  PROVE  [Contract!Next]_(Contract!toolVars)
<1>1. ~Proposing
  BY ToolAtRest
<1>2. CASE Ended
  BY <1>1, <1>2, ContractRests
<1>3. CASE ~Ended
  BY <1>1, <1>3, ContractEndsTurn
<1>4. QED
  BY <1>2, <1>3

\* Reads leave the tool alone, and no proposal runs beside one.
LEMMA ContractRead ==
  ASSUME TypeOK, OutcomeInv, NEW s \in Slots,
         StartRead(s) \/ ReadInvalid(s) \/ ReadAnswered(s) \/ ReadRefreshed(s)
           \/ ReadRetried(s)
  PROVE  [Contract!Next]_(Contract!toolVars)
<1> USE DEF routing, outcome
<1>1. /\ pc = "acting" /\ UNCHANGED pc /\ calls[s].what \in Queries
      /\ \E to \in CallStates : SetCall(s, to)
  <2>1. Called \subseteq {"ok", "auth", "failed"}
    BY DEF Called, Envelope, Rpc, Exchanges
  <2>2. CASE StartRead(s)
    BY <2>2 DEF StartRead, CallStates
  <2>3. CASE ~StartRead(s)
    <3>1. Succeed(s) \/ Forget(s) \/ Wait(s, "refreshing") \/ Wait(s, "retrying")
      <4>1. CASE ReadAnswered(s)
        BY <2>1, <4>1, Zenon DEF ReadAnswered
      <4>2. CASE ReadInvalid(s) \/ ReadRefreshed(s) \/ ReadRetried(s)
        BY <4>2, Zenon DEF ReadInvalid, ReadRefreshed, ReadRetried
      <4>3. QED
        BY <2>3, <4>1, <4>2
    <3>2. \E to \in CallStates : SetCall(s, to)
      BY <3>1 DEF Succeed, Forget, Wait, CallStates
    <3>3. QED
      BY <2>3, <3>2 DEF ReadInvalid, ReadAnswered, ReadRefreshed, ReadRetried, Read
  <2>4. QED
    BY <2>2, <2>3
<1>2. /\ calls'[s].what = calls[s].what
      /\ \A r \in Slots : r # s => calls'[r] = calls[r]
  BY <1>1, SetCallAt
<1>3. calls[s].what # "propose"
  BY <1>1, AgentTurnAssumption
<1>4. Proposing' = Proposing
  BY <1>2, <1>3 DEF Proposing, Running
<1>5. action'.held = action.held /\ action'.count = action.count
  <2>1. action' \in {action, [action EXCEPT !.expired = action.held]}
    BY DEF StartRead, ReadInvalid, ReadAnswered, ReadRefreshed, ReadRetried
  <2>2. action \in [count : Nat, held : BOOLEAN, expired : BOOLEAN]
    BY DEF TypeOK
  <2>3. QED
    BY <2>1, <2>2
<1>6. QED
  BY <1>1, <1>4, <1>5, ContractRests DEF Ended

\* A proposal starts and ends.
LEMMA ContractProposal ==
  ASSUME TypeOK, OutcomeInv, NEW s \in Slots,
         StartProposal(s) \/ FinishProposal(s) \/ ProposalFails(s) \/ ProposalLosesSession(s)
  PROVE  [Contract!Next]_(Contract!toolVars)
<1>1. \A to \in CallStates : SetCall(s, to) =>
        /\ calls'[s].state = to /\ calls'[s].what = calls[s].what
        /\ \A r \in Slots : r # s => calls'[r] = calls[r]
  BY SetCallAt
<1>2. pc = "acting" /\ ~Ended /\ ~Ended' /\ calls[s].what = "propose"
  BY DEF StartProposal, FinishProposal, ProposalFails, ProposalLosesSession, routing, Ended
<1>3. CASE StartProposal(s)
  <2>1. /\ ~Proposing /\ UNCHANGED action
        /\ SetCall(s, IF action.held THEN "done" ELSE "running")
    BY <1>3 DEF StartProposal, Proposing
  <2>2. CASE action.held
    <3>1. ~Proposing'
      BY <1>1, <2>1, <2>2 DEF CallStates, Proposing, Running
    <3>2. QED
      BY <1>2, <2>1, <3>1, ContractRests
  <2>3. CASE ~action.held
    <3>1. Proposing'
      BY <1>1, <1>2, <2>1, <2>3 DEF CallStates, Proposing, Running
    <3>2. QED
      BY <1>2, <2>1, <2>3, <3>1, ContractStarts
  <2>4. QED
    BY <2>2, <2>3
<1>4. CASE FinishProposal(s) \/ ProposalFails(s) \/ ProposalLosesSession(s)
  <2>1. Running(s) /\ SetCall(s, "done")
    BY <1>4 DEF FinishProposal, ProposalFails, ProposalLosesSession
  <2>2. Proposing /\ ~action.held /\ (~Spoiled => action.count = 0)
    BY <1>2, <2>1 DEF Proposing, OutcomeInv, Spoiled
  <2>3. ~Proposing'
    BY <1>1, <1>2, <2>1 DEF CallStates, Proposing, OutcomeInv, Running
  <2>4. CASE UNCHANGED action
    BY <1>2, <2>2, <2>3, <2>4, ContractRefuses
  <2>5. CASE ~Spoiled /\ action' = [count |-> action.count + 1, held |-> TRUE, expired |-> FALSE]
    <3>1. action'.held = TRUE /\ action'.count = 1
      <4>1. action'.held = TRUE /\ action'.count = action.count + 1
        BY <2>5
      <4>2. QED
        BY <2>2, <2>5, <4>1
    <3>2. QED
      BY <1>2, <2>2, <2>3, <2>5, <3>1, ContractCommits
  <2>6. CASE ~Spoiled /\ action' = [action EXCEPT !.count = @ + 1]
    <3>1. action'.held = action.held /\ action'.count = 1
      <4>1. action \in [count : Nat, held : BOOLEAN, expired : BOOLEAN]
        BY DEF TypeOK
      <4>2. QED
        BY <2>2, <2>6, <4>1
    <3>2. QED
      BY <1>2, <2>2, <2>3, <2>6, <3>1, ContractLoses
  <2>7. QED
    BY <1>4, <2>4, <2>5, <2>6 DEF FinishProposal, ProposalFails, ProposalLosesSession
<1>5. QED
  BY <1>3, <1>4

\* A pass begins or ends without a call under way.
LEMMA ContractPass ==
  ASSUME TypeOK, OutcomeInv, CallTools \/ EndPass
  PROVE  [Contract!Next]_(Contract!toolVars)
<1>1. ~Ended /\ ~Ended' /\ UNCHANGED action
  BY DEF CallTools, EndPass, Ended
<1>2. ~Proposing'
  BY PassTyped, NoCallsTyped DEF CallTools, EndPass, Proposing, Running
<1>3. ~Proposing
  <2>1. CASE CallTools
    BY <2>1, ToolAtRest DEF CallTools
  <2>2. CASE EndPass
    BY <2>2 DEF EndPass, Proposing, Running
  <2>3. QED
    BY <2>1, <2>2
<1>4. QED
  BY <1>1, <1>2, <1>3, ContractRests

\* The time-out strikes or the client leaves.
LEMMA ContractInterruption ==
  ASSUME TypeOK, OutcomeInv, Deadline \/ Disconnect \/ ProposalEndsTurn
  PROVE  [Contract!Next]_(Contract!toolVars)
<1>1. Interrupted /\ calls' = NoCalls /\ pc # "over" /\ Ended'
  BY DEF Deadline, Disconnect, ProposalEndsTurn, Over, Streaming, Ended
<1>2. ~Proposing'
  BY <1>1, NoCallsTyped DEF Proposing, Running
<1>3. CASE UNCHANGED action
  <2>1. CASE pc # "acting"
    BY <1>1, <1>2, <1>3, <2>1, ContractEnds
  <2>2. CASE pc = "acting"
    BY <1>1, <1>2, <1>3, <2>2, ContractEndsTurn DEF Ended
  <2>3. QED
    BY <2>1, <2>2
<1>4. CASE action' # action
  <2>1. PICK s \in Slots : /\ Running(s) /\ calls[s].what = "propose" /\ ~Spoiled
                           /\ action' = [action EXCEPT !.count = @ + 1]
    BY <1>1, <1>4 DEF Interrupted
  <2>2. pc = "acting" /\ action.count = 0 /\ Proposing
    BY <2>1 DEF OutcomeInv, Proposing, Spoiled
  <2>3. action'.count = 1 /\ action'.held = action.held
    BY <2>1, <2>2 DEF TypeOK
  <2>4. QED
    BY <1>1, <1>2, <2>2, <2>3, ContractEndsTurn DEF Ended
<1>5. QED
  BY <1>3, <1>4

\* All the rest.
LEMMA ContractRest ==
  ASSUME TypeOK, OutcomeInv,
         \/ Classify \/ Prepare \/ Answer \/ ModelFails \/ EndStream \/ EndPlain
         \/ PersistFails \/ Announce \/ Fixed \/ Persist \/ PersistPartial
  PROVE  [Contract!Next]_(Contract!toolVars)
<1> USE DEF routing, agent, outcome, Over
<1>1. UNCHANGED <<calls, action>> /\ pc \notin {"acting", "over"}
      /\ (Ended => Ended')
  BY DEF Ended, Classify, Prepare, GetCredential, Discover, ListTools, Identify, RefreshForRuntime,
     Answer, ModelFails, EndStream, EndPlain, PersistFails, Announce, Fixed, Persist,
     PersistPartial
<1>2. ~Proposing /\ ~Proposing'
  <2>1. ~Proposing
    BY <1>1, ToolAtRest
  <2>2. QED
    BY <1>1, <2>1 DEF Proposing, Running
<1>3. CASE Ended'
  BY <1>1, <1>2, <1>3, ContractEnds
<1>4. CASE ~Ended'
  BY <1>1, <1>2, <1>4, ContractRests
<1>5. QED
  BY <1>3, <1>4

\* Whatever calls a model asks for at once, and wherever the turn is cut off, it calls
\* the proposal tool alone and never again once it holds an Action.
THEOREM TurnKeepsContract == Spec => KeepsToolContract
<1>1. TypeOK /\ OutcomeInv /\ [Next]_vars => [Contract!Next]_(Contract!toolVars)
  <2> SUFFICES ASSUME TypeOK, OutcomeInv, [Next]_vars
               PROVE  [Contract!Next]_(Contract!toolVars)
    OBVIOUS
  <2>1. CASE UNCHANGED vars
    <3>1. UNCHANGED <<pc, calls, action>>
      BY <2>1 DEF vars, agent
    <3>2. QED
      BY <3>1, ContractRests DEF Proposing, Running, Ended
  <2>2. CASE Next
    BY <2>2, ContractRead, ContractProposal, ContractPass, ContractInterruption, ContractRest
       DEF Next, Proceed, CallStep
  <2>3. QED
    BY <2>1, <2>2
<1>2. QED
  BY <1>1, ContractInit, TurnTypeCorrect, OutcomeStart, OutcomeKept, PTL
     DEF Spec, KeepsToolContract, Contract!Spec

-----------------------------------------------------------------------------
(* A turn is short.                                                         *)

\* All that the calls of one pass could have to do.
AllChores == Slots \X (1..4)

LEMMA ChoresFinite ==
  /\ IsFiniteSet(AllChores) /\ Cardinality(AllChores) \in Nat
  /\ IsFiniteSet(Chores) /\ Cardinality(Chores) \in Nat
  /\ Cardinality(Chores) <= Cardinality(AllChores)
<1>1. IsFiniteSet(AllChores)
  <2>1. IsFiniteSet(1..4)
    <3>1. 1 \in Int /\ 4 \in Int
      OBVIOUS
    <3>2. QED
      BY <3>1, FS_Interval, Zenon
  <2>2. QED
    BY <2>1, FS_Product, AgentTurnAssumption DEF AllChores
<1>2. Chores \subseteq AllChores
  BY DEF Chores, AllChores
<1>3. QED
  BY <1>1, <1>2, FS_Subset, FS_CardinalityType

\* The same of the next state.
LEMMA ChoresFiniteNext ==
  /\ IsFiniteSet(Chores') /\ Cardinality(Chores') \in Nat
  /\ Cardinality(Chores') <= Cardinality(AllChores)
<1>1. IsFiniteSet(AllChores)
  BY ChoresFinite
<1>2. Chores' \subseteq AllChores
  BY DEF Chores, AllChores
<1>3. QED
  BY <1>1, <1>2, FS_Subset, FS_CardinalityType

LEMMA EffortIs ==
  /\ Effort("todo") = 4 /\ Effort("running") = 3 /\ Effort("refreshing") = 2
  /\ Effort("retrying") = 1 /\ Effort("done") = 0
BY DEF Effort

\* A call that comes closer to its end leaves fewer chores.
LEMMA ChoresShrink ==
  ASSUME TypeOK, NEW s \in Slots, NEW to \in CallStates, SetCall(s, to),
         Effort(to) < Effort(calls[s].state)
  PROVE  Cardinality(Chores') < Cardinality(Chores)
<1> DEFINE from == calls[s].state
<1>1. /\ calls'[s].state = to
      /\ \A r \in Slots : r # s => calls'[r] = calls[r]
  BY SetCallAt
<1>2. from \in CallStates
  BY DEF TypeOK, CallStates
<1>3. Effort(from) \in 1..4 /\ Effort(to) \in 0..3
  BY <1>2, EffortIs DEF CallStates
<1>4. Chores' \subseteq Chores
  <2> SUFFICES ASSUME NEW e \in AllChores, e[2] <= Effort(calls'[e[1]].state)
               PROVE  e[2] <= Effort(calls[e[1]].state)
    BY DEF Chores, AllChores
  <2>1. e[1] \in Slots /\ e[2] \in 1..4
    BY DEF AllChores
  <2>2. CASE e[1] = s
    BY <1>1, <1>3, <2>1, <2>2
  <2>3. CASE e[1] # s
    BY <1>1, <2>1, <2>3
  <2>4. QED
    BY <2>2, <2>3
<1>5. <<s, Effort(from)>> \in Chores /\ <<s, Effort(from)>> \notin Chores'
  <2>1. <<s, Effort(from)>> \in Chores
    BY <1>3 DEF Chores
  <2>2. ~(Effort(from) <= Effort(calls'[s].state))
    BY <1>1, <1>3
  <2>3. <<s, Effort(from)>> \notin Chores'
    BY <2>2 DEF Chores
  <2>4. QED
    BY <2>1, <2>3
<1>6. IsFiniteSet(Chores)
  BY ChoresFinite
<1>7. Cardinality(Chores') # Cardinality(Chores)
  BY <1>4, <1>5, <1>6, FS_Subset
<1>8. Cardinality(Chores') <= Cardinality(Chores)
  BY <1>4, <1>6, FS_Subset
<1>9. QED
  BY <1>7, <1>8, ChoresFinite, ChoresFiniteNext

\* Without calls there is nothing to do.
LEMMA ChoresNone ==
  ASSUME calls' = NoCalls
  PROVE  Cardinality(Chores') = 0
<1>1. Chores' = {}
  BY NoCallsTyped, EffortIs DEF Chores
<1>2. QED
  BY <1>1, FS_EmptySet

LEMMA StageTyped ==
  ASSUME TypeOK, TypeOK'
  PROVE  Stage \in 0..20 /\ Stage' \in 0..20
BY DEF TypeOK, Stage

\* The number of passes only grows, and each has room for its chores.
LEMMA PassesLeft ==
  ASSUME TypeOK
  PROVE  /\ MaxPasses - pass \in Nat /\ PerPass \in Nat
         /\ (MaxPasses - pass) * PerPass \in Nat
         /\ PerPass = Cardinality(AllChores) + 2
<1>1. MaxPasses - pass \in Nat
  BY AgentTurnAssumption DEF TypeOK
<1>2. PerPass = Cardinality(AllChores) + 2 /\ PerPass \in Nat
  BY ChoresFinite DEF PerPass, AllChores
<1>3. \A m, n \in Nat : m * n \in Nat
  OBVIOUS
<1>4. QED
  BY <1>1, <1>2, <1>3

\* Steps to a later stage, with no more to do than before.
LEMMA StageShrinks ==
  ASSUME TypeOK, TypeOK', Stage' < Stage, UNCHANGED pass,
         Cardinality(Chores') <= Cardinality(Chores)
  PROVE  0 <= Fuel' /\ Fuel' < Fuel
<1>1. Stage \in Nat /\ Stage' \in Nat
  BY StageTyped
<1>2. (MaxPasses - pass) * PerPass \in Nat
  BY PassesLeft
<1>3. PerPass' = PerPass
  BY DEF PerPass
<1>4. Fuel' = Stage' + (MaxPasses - pass) * PerPass + Cardinality(Chores')
  BY <1>3 DEF Fuel
<1>5. QED
  BY <1>1, <1>2, <1>4, ChoresFinite, ChoresFiniteNext DEF Fuel

\* A call is made, goes on, or is over.
LEMMA CallShrinks ==
  ASSUME TypeOK, TypeOK', NEW s \in Slots, CallStep(s)
  PROVE  0 <= Fuel' /\ Fuel' < Fuel
<1> USE DEF routing, outcome
<1>1. UNCHANGED <<pc, attempt, pass>>
  BY DEF CallStep, StartRead, ReadInvalid, ReadAnswered, ReadRefreshed, ReadRetried, Read,
     StartProposal, FinishProposal, ProposalFails, ProposalLosesSession
<1>2. \E to \in CallStates : SetCall(s, to) /\ Effort(to) < Effort(calls[s].state)
  <2>1. Called \subseteq {"ok", "auth", "failed"}
    BY DEF Called, Envelope, Rpc, Exchanges
  <2>2. CASE StartRead(s) \/ StartProposal(s)
    <3>1. calls[s].state = "todo" /\ (SetCall(s, "done") \/ SetCall(s, "running"))
      BY <2>2 DEF StartRead, StartProposal
    <3>2. QED
      BY <3>1, EffortIs DEF CallStates
  <2>3. CASE ReadAnswered(s)
    <3>1. /\ calls[s].state = "running"
          /\ Succeed(s) \/ Forget(s) \/ Wait(s, "refreshing")
      BY <2>1, <2>3, Zenon DEF ReadAnswered, Read
    <3>2. SetCall(s, "done") \/ SetCall(s, "refreshing")
      BY <3>1 DEF Succeed, Forget, Wait
    <3>3. QED
      BY <3>1, <3>2, EffortIs DEF CallStates
  <2>4. CASE ReadInvalid(s) \/ ReadRetried(s)
    <3>1. calls[s].state \in {"running", "retrying"} /\ (Succeed(s) \/ Forget(s))
      BY <2>4, Zenon DEF ReadInvalid, ReadRetried, Read
    <3>2. SetCall(s, "done")
      BY <3>1 DEF Succeed, Forget
    <3>3. QED
      BY <3>1, <3>2, EffortIs DEF CallStates
  <2>5. CASE ReadRefreshed(s)
    <3>1. calls[s].state = "refreshing" /\ (Forget(s) \/ Wait(s, "retrying"))
      BY <2>5, Zenon DEF ReadRefreshed, Read
    <3>2. SetCall(s, "done") \/ SetCall(s, "retrying")
      BY <3>1 DEF Forget, Wait
    <3>3. QED
      BY <3>1, <3>2, EffortIs DEF CallStates
  <2>6. CASE FinishProposal(s) \/ ProposalFails(s) \/ ProposalLosesSession(s)
    <3>1. Running(s) /\ SetCall(s, "done")
      BY <2>6 DEF FinishProposal, ProposalFails, ProposalLosesSession
    <3>2. QED
      BY <3>1, EffortIs DEF Running, CallStates
  <2>7. QED
    BY <2>2, <2>3, <2>4, <2>5, <2>6 DEF CallStep
<1>3. Cardinality(Chores') < Cardinality(Chores)
  BY <1>2, ChoresShrink
<1>4. Stage' = Stage /\ PerPass' = PerPass
  BY <1>1 DEF Stage, PerPass
<1>5. Stage \in Nat /\ (MaxPasses - pass) * PerPass \in Nat
  BY StageTyped, PassesLeft
<1>6. Fuel' = Stage + (MaxPasses - pass) * PerPass + Cardinality(Chores')
  BY <1>1, <1>4 DEF Fuel
<1>7. QED
  BY <1>3, <1>5, <1>6, ChoresFinite, ChoresFiniteNext DEF Fuel

\* A pass begins: it counts, and its calls are worth less than that.
LEMMA PassShrinks ==
  ASSUME TypeOK, TypeOK', CallTools
  PROVE  0 <= Fuel' /\ Fuel' < Fuel
<1>1. Stage = 6 /\ Stage' = 7 /\ pass' = pass + 1 /\ pass \in Nat /\ pass' <= MaxPasses
  BY AgentTurnAssumption DEF CallTools, Stage, TypeOK
<1> DEFINE left == MaxPasses - pass
<1>2. /\ left \in Nat /\ left >= 1 /\ MaxPasses - pass' = left - 1
      /\ PerPass \in Nat /\ PerPass = Cardinality(AllChores) + 2 /\ PerPass' = PerPass
  BY <1>1, PassesLeft, AgentTurnAssumption DEF PerPass
<1>3. \A m, n \in Nat : (m - 1) * n = m * n - n
  OBVIOUS
<1>4. (MaxPasses - pass') * PerPass' = left * PerPass - PerPass
  BY <1>2, <1>3
<1>5. left * PerPass \in Nat /\ (left - 1) * PerPass \in Nat
  <2>1. \A m, n \in Nat : m * n \in Nat
    OBVIOUS
  <2>2. left - 1 \in Nat
    BY <1>2
  <2>3. QED
    BY <1>2, <2>1, <2>2
<1>6. /\ Fuel = 6 + left * PerPass + Cardinality(Chores)
      /\ Fuel' = 7 + (left - 1) * PerPass + Cardinality(Chores')
  BY <1>1, <1>2 DEF Fuel
<1>7. (left - 1) * PerPass = left * PerPass - PerPass
  BY <1>2, <1>3
<1> HIDE DEF left
<1>8. QED
  BY <1>2, <1>5, <1>6, <1>7, ChoresFinite, ChoresFiniteNext

\* The steps that lead from one stage to a later one.
LEMMA OtherShrinks ==
  ASSUME TypeOK, TypeOK', Next, ~CallTools, \A s \in Slots : ~CallStep(s)
  PROVE  0 <= Fuel' /\ Fuel' < Fuel
<1> USE DEF routing, agent, Over
<1>1. UNCHANGED pass
  BY DEF Next, Proceed, Classify, Fixed, Prepare, GetCredential, Discover, ListTools,
     Identify, RefreshForRuntime, Answer, EndPass, EndStream, EndPlain, Persist, Announce,
     PersistPartial, ModelFails, PersistFails, Deadline, Disconnect, ProposalEndsTurn
<1>2. Cardinality(Chores') <= Cardinality(Chores)
  <2>1. CASE EndPass \/ Deadline \/ Disconnect \/ ProposalEndsTurn
    BY <2>1, ChoresNone, ChoresFinite DEF EndPass, Deadline, Disconnect, ProposalEndsTurn
  <2>2. CASE ~(EndPass \/ Deadline \/ Disconnect \/ ProposalEndsTurn)
    <3>1. UNCHANGED calls
      BY <2>2 DEF Next, Proceed, Classify, Fixed, Prepare, GetCredential, Discover,
         ListTools, Identify, RefreshForRuntime, Answer, EndStream, EndPlain, Persist,
         Announce, PersistPartial, ModelFails, PersistFails
    <3>2. QED
      BY <3>1, ChoresFinite DEF Chores
  <2>3. QED
    BY <2>1, <2>2
<1>3. Stage' < Stage
  <2>1. CASE Prepare
    <3>1. CASE GetCredential \/ RefreshForRuntime
      BY <3>1 DEF GetCredential, RefreshForRuntime, Stage
    <3>2. CASE Discover \/ ListTools \/ Identify
      BY <3>2 DEF Discover, ListTools, Identify, Bind, PreparationFails, Stage
    <3>3. QED
      BY <2>1, <3>1, <3>2 DEF Prepare
  <2>2. CASE Classify \/ Fixed \/ Answer \/ EndPass
    <3>1. CASE Classify
      <4>1. pc = "routing" /\ pc' \in {"fixed", "credential"}
        BY <3>1 DEF Classify
      <4>2. QED
        BY <4>1 DEF Stage
    <3>2. CASE Fixed
      <4>1. pc = "fixed" /\ pc' = "over"
        BY <3>2 DEF Fixed
      <4>2. QED
        BY <4>1 DEF Stage
    <3>3. CASE Answer
      <4>1. pc = "thinking" /\ pc' = "ending"
        BY <3>3 DEF Answer
      <4>2. QED
        BY <4>1 DEF Stage
    <3>4. CASE EndPass
      <4>1. pc = "acting" /\ pc' = "thinking"
        BY <3>4 DEF EndPass
      <4>2. QED
        BY <4>1 DEF Stage
    <3>5. QED
      BY <2>2, <3>1, <3>2, <3>3, <3>4
  <2>3. CASE EndStream \/ EndPlain \/ Persist \/ Announce \/ PersistPartial
    BY <2>3 DEF EndStream, EndPlain, Persist, Announce, PersistPartial, Stage
  <2>4. CASE ModelFails \/ PersistFails
    BY <2>4 DEF ModelFails, PersistFails, Stage
  <2>5. CASE Deadline \/ Disconnect \/ ProposalEndsTurn
    BY <2>5 DEF Deadline, Disconnect, ProposalEndsTurn, Streaming, Stage
  <2>6. QED
    BY <2>1, <2>2, <2>3, <2>4, <2>5 DEF Next, Proceed
<1>4. QED
  BY <1>1, <1>2, <1>3, StageShrinks

\* Whatever the model, the tools and the client do, each step of a turn brings it closer
\* to its end: at most 20 + MaxPasses * PerPass steps are possible (max_iters, one
\* corrective 401 retry per call and per preparation).
THEOREM TurnUsesUpFuel == Spec => TurnShrinks
<1>1. TypeOK /\ TypeOK' /\ [Next]_vars => [0 <= Fuel' /\ Fuel' < Fuel]_vars
  <2> SUFFICES ASSUME TypeOK, TypeOK', Next
               PROVE  0 <= Fuel' /\ Fuel' < Fuel
    OBVIOUS
  <2>1. CASE CallTools
    BY <2>1, PassShrinks
  <2>2. CASE \E s \in Slots : CallStep(s)
    BY <2>2, CallShrinks
  <2>3. QED
    BY <2>1, <2>2, OtherShrinks
<1>2. QED
  BY <1>1, TurnTypeCorrect, PTL DEF TurnShrinks, Spec
=============================================================================
