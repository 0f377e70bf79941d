------------------------------ MODULE AgentTurn ------------------------------
(***************************************************************************)
(* One chat turn from the stored question to the stored reply: routing,    *)
(* the preparation of the user's runtime, the agent's passes of reasoning  *)
(* and tool calls, the proposal of an Action, the turn's time-out and the  *)
(* events the client is sent.                                              *)
(*                                                                         *)
(* The calls of one pass run at the same time; each is two steps, so they  *)
(* interleave.  The client of a stream may leave, and the time-out may     *)
(* strike, wherever the turn awaits.  AgentScope is external: a pass is    *)
(* one model call, whose outcome is free within what the code allows it.   *)
(***************************************************************************)
EXTENDS Integers, Sequences, FiniteSets

CONSTANTS
  Messages,    \* the sets of signal words a message may contain
  Queries,     \* pairs of a read tool and its arguments
  Terminal,    \* those of erpnext_get_list, _get_count, _get_item_group_low_stock
  Lists,       \* those of erpnext_get_list
  Slots,       \* the tool calls of one pass
  MaxRepeats,  \* loop_guard_max_repeats
  MaxPasses,   \* max_iters
  MaxFaults    \* bound on failures of the database and of the model

ASSUME AgentTurnAssumption ==
  /\ Messages \subseteq SUBSET {"forbidden", "action", "patrol", "data"}
  /\ Lists \subseteq Terminal /\ Terminal \subseteq Queries
  /\ {"none", "propose"} \cap Queries = {} /\ IsFiniteSet(Slots)
  /\ MaxRepeats \in Nat /\ MaxRepeats >= 2
  /\ MaxPasses \in Nat \ {0} /\ MaxFaults \in Nat

VARIABLES
  mode,     \* POST /chat, /chat/stream or /chat/model/stream
  pc,       \* where the turn is
  said,     \* the user's messages, the current one last; << >> once routed
  intent,   \* the decision
  signedIn, \* the agent session exists
  attempt,  \* of preparing the runtime
  pass,     \* passes begun
  calls,    \* the tool calls of this pass
  seen,     \* what the loop guards have recorded
  answered, \* how often each query was answered with a success
  got,      \* terminal answers of this turn: with rows, empty
  retry,    \* the corrective retry: "unused", "pending", "used"
  final,    \* the hint of the text-only pass: "no", "converge", "empty"
  text,     \* the agent has produced text
  action,   \* Actions committed, whether the tool holds one, is it expired
  stored,   \* assistant messages stored
  told,     \* how the client's request or stream ended
  faults

routing == <<mode, said, intent>>
agent == <<pass, calls, seen, answered, got, retry, final, text>>
outcome == <<stored, told>>
vars == <<routing, pc, signedIn, attempt, agent, action, outcome, faults>>

Intents == {"deny", "action", "patrol", "data", "clarify"}
NoCall == [what |-> "none", state |-> "done"]
NoCalls == [s \in Slots |-> NoCall]

TypeOK ==
  /\ mode \in {"plain", "stream", "model"}
  /\ pc \in {"routing", "fixed", "credential", "discovering", "listing", "identifying",
             "refreshing", "thinking", "acting", "ending", "persisting", "announcing",
             "timedout", "over"}
  /\ said \in Seq(Messages)
  /\ intent \in Intents \cup {"none"}
  /\ signedIn \in BOOLEAN /\ attempt \in 0..2 /\ pass \in 0..MaxPasses
  /\ calls \in [Slots -> [what : Queries \cup {"none", "propose"},
                          state : {"todo", "running", "refreshing", "retrying", "done"}]]
  /\ seen \in [Queries -> Nat] /\ answered \in [Queries -> Nat]
  /\ got \in [rows : Nat, empty : Nat]
  /\ retry \in {"unused", "pending", "used"}
  /\ final \in {"no", "converge", "empty"}
  /\ text \in BOOLEAN
  /\ action \in [count : Nat, held : BOOLEAN, expired : BOOLEAN]
  /\ stored \in Seq({"fixed", "answer", "fallback", "partial"})
  /\ told \in {"nothing", "done", "announced", "error", "refused"}
  /\ faults \in 0..MaxFaults

-----------------------------------------------------------------------------
(* Routing.                                                                 *)

\* IntentGate.route
Route(m) ==
  IF "forbidden" \in m THEN "deny" ELSE IF "action" \in m THEN "action"
  ELSE IF "patrol" \in m THEN "patrol" ELSE IF "data" \in m THEN "data"
  ELSE "clarify"

\* route_with_context: the newest message that is not incomplete decides.
RouteWithContext(messages) ==
  LET explicit == {i \in DOMAIN messages : Route(messages[i]) # "clarify"} IN
  IF explicit = {} THEN "clarify"
  ELSE Route(messages[CHOOSE i \in explicit : \A j \in explicit : j <= i])

\* IntentClassifier.classify: what it may decide.  A denial is final; a failed
\* or timed-out model call leaves the gate's decision, and so does "clarify".
Classified(messages) ==
  LET gate == RouteWithContext(messages) IN
  IF gate = "deny" THEN {"deny"} ELSE {gate, "data", "action", "patrol"}

\* What _start_turn hands over: the user's messages of the context and this one.
Questions == {<<m>> : m \in Messages} \cup {<<p, m>> : p, m \in Messages}

\* The model chat has neither a route nor a runtime.
Entry == IF mode = "model" THEN "thinking" ELSE "routing"

Init ==
  /\ mode \in {"plain", "stream", "model"}
  /\ said \in Questions
  /\ pc = Entry
  /\ intent = "none" /\ signedIn = TRUE /\ attempt = 0
  /\ pass = 0 /\ calls = NoCalls
  /\ seen = [q \in Queries |-> 0] /\ answered = [q \in Queries |-> 0]
  /\ got = [rows |-> 0, empty |-> 0]
  /\ retry = "unused" /\ final = "no" /\ text = FALSE
  /\ action = [count |-> 0, held |-> FALSE, expired |-> FALSE]
  /\ stored = << >> /\ told = "nothing" /\ faults = 0

Classify ==
  /\ pc = "routing"
  /\ intent' \in Classified(said)
  /\ said' = << >>   \* not looked at again
  /\ pc' = IF intent' \in {"deny", "clarify"} THEN "fixed" ELSE "credential"
  /\ UNCHANGED <<mode, signedIn, attempt, agent, action, outcome, faults>>

Over(t) == pc' = "over" /\ told' = t

\* _fixed_policy_response is stored and sent.
Fixed ==
  /\ pc = "fixed"
  /\ stored' = Append(stored, "fixed")
  /\ Over("done")
  /\ UNCHANGED <<routing, signedIn, attempt, agent, action, faults>>

-----------------------------------------------------------------------------
(* The MCP server, as mcp/adapter.py sees it.                               *)

\* What may come of one exchange with it.
Exchanges == {"unreachable", "refused", "httpError", "garbage", "rpcError", "toolError",
              "noContent", "rejected", "answered"}

\* _rpc: 401 and 403 refuse the token; an error inside the payload is not its matter.
Rpc(x) ==
  IF x = "refused" THEN "auth"
  ELSE IF x \in {"unreachable", "httpError", "garbage"} THEN "failed" ELSE "ok"

\* _notification, which reads no body.
Notified(x) == IF x = "garbage" THEN "ok" ELSE Rpc(x)

\* normalize_tool_response: JSON-RPC, then MCP, then the business envelope.
Envelope(x) == IF Rpc(x) = "ok" /\ x # "answered" THEN "failed" ELSE Rpc(x)

\* The results of initialize and its notification, of tools/list under the contract
\* of EXPECTED_TOOLS, and of a tool call.
Initialized == {IF Rpc(x) = "ok" THEN Notified(y) ELSE Rpc(x) : x, y \in Exchanges}

Listed == {IF Rpc(x) = "ok" /\ ~(x = "answered" /\ kept) THEN "failed" ELSE Rpc(x) :
             x \in Exchanges, kept \in BOOLEAN}

Called == {Envelope(x) : x \in Exchanges}

-----------------------------------------------------------------------------
(* _prepare_runtime.                                                        *)

\* get_valid; without a credential the session is given up.
GetCredential ==
  /\ pc = "credential"
  /\ \/ pc' = "discovering" /\ attempt' = 1 /\ UNCHANGED <<signedIn, told>>
     \/ signedIn' = FALSE /\ Over("refused") /\ UNCHANGED attempt
  /\ UNCHANGED <<routing, agent, action, stored, faults>>

\* The handler of MCPError: a refused token is refreshed once, and the second refusal
\* ends the session; the client is answered 401 or 502.
PreparationFails(r) ==
  IF r = "auth" /\ attempt = 1 THEN pc' = "refreshing" /\ UNCHANGED <<signedIn, told>>
  ELSE signedIn' = (signedIn /\ r # "auth") /\ Over("refused")

Discover ==
  /\ pc = "discovering"
  /\ \E r \in Initialized :
       IF r = "ok" THEN pc' = "listing" /\ UNCHANGED <<signedIn, told>>
       ELSE PreparationFails(r)
  /\ UNCHANGED <<routing, attempt, agent, action, stored, faults>>

ListTools ==
  /\ pc = "listing"
  /\ \E r \in Listed :
       IF r = "ok" THEN pc' = "identifying" /\ UNCHANGED <<signedIn, told>>
       ELSE PreparationFails(r)
  /\ UNCHANGED <<routing, attempt, agent, action, stored, faults>>

\* AgentRuntimeFactory.prepare compares the users (403) and builds the toolkits and
\* agents of the request.
Bind(same) ==
  /\ UNCHANGED signedIn
  /\ IF same THEN pc' = "thinking" /\ UNCHANGED told ELSE Over("refused")

\* current_user.
Identify ==
  /\ pc = "identifying"
  /\ \E r \in Called, same \in BOOLEAN :
       IF r = "ok" THEN Bind(same) ELSE PreparationFails(r)
  /\ UNCHANGED <<routing, attempt, agent, action, stored, faults>>

\* Mutant: a refreshed token may be refused again and again.
RefreshUncounted ==
  /\ pc = "refreshing"
  /\ \/ pc' = "discovering" /\ UNCHANGED <<attempt, signedIn, told>>
     \/ signedIn' = FALSE /\ Over("refused") /\ UNCHANGED attempt
  /\ UNCHANGED <<routing, agent, action, stored, faults>>

RefreshForRuntime ==
  /\ pc = "refreshing"
  /\ \/ pc' = "discovering" /\ attempt' = 2 /\ UNCHANGED <<signedIn, told>>
     \/ signedIn' = FALSE /\ Over("refused") /\ UNCHANGED attempt
  /\ UNCHANGED <<routing, agent, action, stored, faults>>

-----------------------------------------------------------------------------
(* The agent: passes and tool calls.                                        *)

\* agent_for
AgentFor == IF mode = "model" THEN "model" ELSE intent

\* What the agent's toolkit lets the model call; the model chat has no tools.
Callable ==
  IF AgentFor = "model" THEN {}
  ELSE IF AgentFor = "action" THEN Queries \cup {"propose"} ELSE Queries

\* on_reasoning: the pending hint is given once.
Hint == retry' = IF retry = "pending" /\ final = "no" THEN "used" ELSE retry

\* Mutant: passes are not counted.
CallWithoutLimit ==
  /\ pc = "thinking" /\ pass < MaxPasses /\ final = "no"
  /\ calls' \in [Slots -> {[what |-> w, state |-> "todo"] : w \in Callable}
                          \cup {NoCall}]
  /\ calls' # NoCalls
  /\ Hint /\ text' \in {text, TRUE}
  /\ pc' = "acting"
  /\ UNCHANGED <<routing, signedIn, attempt, pass, seen, answered, got, final,
                 action, outcome, faults>>

\* The model calls tools, and may say something before.  A converged turn gets
\* tool_choice none.
CallTools ==
  /\ pc = "thinking" /\ pass < MaxPasses /\ final = "no"
  /\ pass' = pass + 1
  /\ calls' \in [Slots -> {[what |-> w, state |-> "todo"] : w \in Callable}
                          \cup {NoCall}]
  /\ calls' # NoCalls
  /\ Hint /\ text' \in {text, TRUE}
  /\ pc' = "acting"
  /\ UNCHANGED <<routing, signedIn, attempt, seen, answered, got, final,
                 action, outcome, faults>>

\* Or it answers, perhaps with nothing; so it does when its passes are used up.
Answer ==
  /\ pc = "thinking"
  /\ text' \in {text, TRUE}
  /\ Hint
  /\ pc' = "ending"
  /\ UNCHANGED <<routing, signedIn, attempt, pass, calls, seen, answered, got,
                 final, action, outcome, faults>>

ModelFails ==
  /\ pc = "thinking" /\ faults < MaxFaults /\ faults' = faults + 1
  /\ Over("error")
  /\ UNCHANGED <<routing, signedIn, attempt, agent, action, stored>>

Running(s) == calls[s].state \in {"running", "refreshing", "retrying"}
SetCall(s, to) == calls' = [calls EXCEPT ![s].state = to]

\* Mutant: the guard counts a call when it has been answered.
StartReadUncounted(s) ==
  LET q == calls[s].what IN
  /\ pc = "acting" /\ calls[s].state = "todo" /\ q \in Queries
  /\ ~\E r \in Slots : Running(r) /\ calls[r].what = "propose"
  /\ seen' = [seen EXCEPT ![q] = answered[q]]
  /\ SetCall(s, IF answered[q] >= MaxRepeats - 1 THEN "done" ELSE "running")
  /\ UNCHANGED <<routing, pc, signedIn, attempt, pass, answered, got, retry, final,
                 text, action, outcome, faults>>

\* LoopGuardTool.call up to the call itself, which is refused with
\* REPEATED_TOOL_CALL when the query has been recorded often enough.  Reads run
\* beside each other.
StartRead(s) ==
  LET q == calls[s].what
      repeated == seen[q] >= MaxRepeats - 1
  IN
  /\ pc = "acting" /\ calls[s].state = "todo" /\ q \in Queries
  /\ ~\E r \in Slots : Running(r) /\ calls[r].what = "propose"
  /\ seen' = IF repeated THEN seen ELSE [seen EXCEPT ![q] = @ + 1]
  /\ SetCall(s, IF repeated THEN "done" ELSE "running")
  /\ UNCHANGED <<routing, pc, signedIn, attempt, pass, answered, got, retry, final,
                 text, action, outcome, faults>>

\* Mutant: an empty list always grants a retry.
ConvergeLeniently(q, empty) ==
  /\ got' = IF q \notin Terminal THEN got
            ELSE IF empty THEN [got EXCEPT !.empty = @ + 1] ELSE [got EXCEPT !.rows = @ + 1]
  /\ IF AgentFor # "data" \/ q \notin Terminal THEN UNCHANGED <<retry, final>>
     ELSE IF empty THEN retry' = "pending" /\ UNCHANGED final
     ELSE final' = "converge" /\ UNCHANGED retry

\* on_acting, after a success.  Only the data agent has the middleware.
Converge(q, empty) ==
  /\ got' = IF q \notin Terminal THEN got
            ELSE IF empty THEN [got EXCEPT !.empty = @ + 1] ELSE [got EXCEPT !.rows = @ + 1]
  /\ IF AgentFor # "data" \/ q \notin Terminal THEN UNCHANGED <<retry, final>>
     ELSE IF ~empty THEN final' = "converge" /\ UNCHANGED retry
     ELSE IF retry = "unused" THEN retry' = "pending" /\ UNCHANGED final
     ELSE retry' = "used" /\ final' = "empty"

\* The call is over with a result ...
Succeed(s) ==
  LET q == calls[s].what IN
  /\ SetCall(s, "done")
  /\ answered' = [answered EXCEPT ![q] = @ + 1]
  /\ \E empty \in IF q \in Lists THEN BOOLEAN ELSE {FALSE} : Converge(q, empty)
  /\ UNCHANGED seen

\* Mutant: a failed call forgets what every call of the pass has recorded.
ForgetPass(s) ==
  /\ SetCall(s, "done")
  /\ seen' = [seen EXCEPT ![calls[s].what] = @ - Cardinality(Slots)]
  /\ UNCHANGED <<answered, got, retry, final>>

\* ... or with an error, which the loop guard does not count.
Forget(s) ==
  /\ SetCall(s, "done")
  /\ seen' = [seen EXCEPT ![calls[s].what] = @ - 1]
  /\ UNCHANGED <<answered, got, retry, final>>

Wait(s, to) == SetCall(s, to) /\ UNCHANGED <<seen, answered, got, retry, final>>

Read(s, state) ==
  /\ pc = "acting" /\ calls[s].state = state /\ calls[s].what \in Queries
  /\ UNCHANGED <<routing, pc, attempt, pass, text, outcome, faults>>

\* INVALID_TOOL_ARGUMENT, before any exchange.
ReadInvalid(s) ==
  /\ Read(s, "running")
  /\ Forget(s)
  /\ UNCHANGED <<signedIn, action>>

\* RefreshingMCPCaller.call_tool: the first try.
ReadAnswered(s) ==
  /\ Read(s, "running")
  /\ \E r \in Called : CASE r = "ok" -> Succeed(s)
                          [] r = "auth" -> Wait(s, "refreshing")
                          [] r = "failed" -> Forget(s)
  /\ UNCHANGED <<signedIn, action>>

\* A new token; or there is none and the session is given up.  If ERPNext has refused
\* to refresh, the rollback expires the record of a proposed Action.
ReadRefreshed(s) ==
  /\ Read(s, "refreshing")
  /\ \/ Wait(s, "retrying") /\ UNCHANGED <<signedIn, action>>
     \/ /\ Forget(s) /\ signedIn' = FALSE
        /\ action' \in {action, [action EXCEPT !.expired = action.held]}

\* The second try.
ReadRetried(s) ==
  /\ Read(s, "retrying")
  /\ \E r \in Called :
       /\ IF r = "ok" THEN Succeed(s) ELSE Forget(s)
       /\ signedIn' = (signedIn /\ r # "auth")
  /\ UNCHANGED action

\* Mutant: the tool says that it is safe to run beside others.
StartProposalBeside(s) ==
  /\ pc = "acting" /\ calls[s] = [what |-> "propose", state |-> "todo"]
  /\ SetCall(s, IF action.held THEN "done" ELSE "running")
  /\ UNCHANGED <<routing, pc, signedIn, attempt, pass, seen, answered, got, retry,
                 final, text, action, outcome, faults>>

\* ActionProposalTool.call, which is not concurrency-safe and so runs alone; a
\* second proposal of the turn is refused with ACTION_ALREADY_PROPOSED.
StartProposal(s) ==
  /\ pc = "acting" /\ calls[s] = [what |-> "propose", state |-> "todo"]
  /\ ~\E r \in Slots : Running(r)
  /\ SetCall(s, IF action.held THEN "done" ELSE "running")
  /\ UNCHANGED <<routing, pc, signedIn, attempt, pass, seen, answered, got, retry,
                 final, text, action, outcome, faults>>

\* The answer to the commit of an Action was lost: the tool does not hold it, and the
\* turn's database session, which nothing rolls back, takes no more statements.
Spoiled == action.count = 1 /\ ~action.held

\* propose has committed a pending Action, or validation has refused it (see
\* ActionProposal).
FinishProposal(s) ==
  /\ pc = "acting" /\ Running(s) /\ calls[s].what = "propose"
  /\ SetCall(s, "done")
  /\ \/ ~Spoiled /\ action' = [count |-> action.count + 1, held |-> TRUE, expired |-> FALSE]
     \/ UNCHANGED action
  /\ UNCHANGED <<routing, pc, signedIn, attempt, pass, seen, answered, got, retry,
                 final, text, outcome, faults>>

\* The database fails in propose, before the commit or in its answer, and the exception
\* ends the call.
ProposalFails(s) ==
  /\ pc = "acting" /\ Running(s) /\ calls[s].what = "propose"
  /\ faults < MaxFaults /\ faults' = faults + 1
  /\ SetCall(s, "done")
  /\ action' \in {action} \cup IF Spoiled THEN {} ELSE {[action EXCEPT !.count = @ + 1]}
  /\ UNCHANGED <<routing, pc, signedIn, attempt, pass, seen, answered, got, retry, final,
                 text, outcome>>

\* It needs the user's token, which is refused for good.
ProposalLosesSession(s) ==
  /\ pc = "acting" /\ Running(s) /\ calls[s].what = "propose"
  /\ SetCall(s, "done") /\ signedIn' = FALSE
  /\ UNCHANGED <<routing, pc, attempt, pass, seen, answered, got, retry, final, text,
                 action, outcome, faults>>

EndPass ==
  /\ pc = "acting" /\ \A s \in Slots : calls[s].state = "done"
  /\ pc' = "thinking" /\ calls' = NoCalls
  /\ UNCHANGED <<routing, signedIn, attempt, pass, seen, answered, got, retry, final,
                 text, action, outcome, faults>>

-----------------------------------------------------------------------------
(* The end of the turn.                                                     *)

\* The summary of the Action is appended to the text, which fails when its record has
\* expired.
Unreadable == action.held /\ action.expired

\* Mutant: what the agent said last is stored only when the client has it.
AnnounceFirst ==
  /\ pc = "ending" /\ mode # "plain"
  /\ pc' = "announcing" /\ told' = IF action.held THEN "announced" ELSE told
  /\ UNCHANGED <<routing, signedIn, attempt, agent, action, stored, faults>>

\* ReplyEndEvent in a stream, where a fallback replaces an empty text.
EndStream ==
  /\ pc = "ending" /\ mode # "plain"
  /\ IF Unreadable THEN Over("error") ELSE pc' = "persisting" /\ UNCHANGED told
  /\ UNCHANGED <<routing, signedIn, attempt, agent, action, stored, faults>>

\* The reply of a plain request must have text.
EndPlain ==
  /\ pc = "ending" /\ mode = "plain"
  /\ IF ~text \/ Unreadable THEN Over("error") ELSE pc' = "persisting" /\ UNCHANGED told
  /\ UNCHANGED <<routing, signedIn, attempt, agent, action, stored, faults>>

Reply == IF text THEN "answer" ELSE "fallback"

\* _persist_assistant commits, in the session that the tool has used ...
Persist ==
  /\ pc = "persisting"
  /\ IF Spoiled THEN Over("error") /\ UNCHANGED stored
     ELSE pc' = "announcing" /\ stored' = Append(stored, Reply) /\ UNCHANGED told
  /\ UNCHANGED <<routing, signedIn, attempt, agent, action, faults>>

\* ... or the conversation or the database is gone.
PersistFails ==
  /\ pc \in {"fixed", "persisting", "timedout"}
  /\ faults < MaxFaults /\ faults' = faults + 1
  /\ Over("error")
  /\ UNCHANGED <<routing, signedIn, attempt, agent, action, stored>>

\* action_required and done, or the response of a plain request.
Announce ==
  /\ pc = "announcing"
  /\ Over(IF action.held THEN "announced" ELSE "done")
  /\ UNCHANGED <<routing, signedIn, attempt, agent, action, stored, faults>>

\* What may have been committed when an await is cut off.
Interrupted ==
  /\ action' \in {action} \cup
       {[action EXCEPT !.count = @ + 1] :
          s \in {r \in Slots : Running(r) /\ calls[r].what = "propose" /\ ~Spoiled}}
  /\ stored' \in {stored} \cup
       {Append(stored, r) : r \in IF Spoiled THEN {}
                                  ELSE IF pc = "persisting" THEN {Reply}
                                  ELSE IF pc = "timedout" THEN {"partial"} ELSE {}}

Streaming == {"thinking", "acting", "ending", "persisting", "announcing"}

\* Mutant: the time-out is reported wherever it strikes.
DeadlineAnywhere ==
  /\ pc \in (IF mode = "plain" THEN {"thinking", "acting"} ELSE Streaming)
  /\ Interrupted /\ calls' = NoCalls
  /\ pc' = "timedout" /\ UNCHANGED told
  /\ UNCHANGED <<routing, signedIn, attempt, pass, seen, answered, got, retry, final,
                 text, faults>>

\* The time-out of the turn cancels what the task awaits: the agent, which
\* reports it as TimeoutError, or, in a stream, the client that is being sent
\* an event, or the reply being stored, and then nothing catches it.
Deadline ==
  /\ \/ pc \in {"thinking", "acting"} /\ pc' = "timedout" /\ UNCHANGED told
     \/ mode # "plain" /\ pc \in Streaming /\ Over("nothing")
  /\ Interrupted /\ calls' = NoCalls
  /\ UNCHANGED <<routing, signedIn, attempt, pass, seen, answered, got, retry, final,
                 text, faults>>

\* The exception of a failing proposal ends the turn.
ProposalEndsTurn ==
  /\ pc = "acting" /\ \E s \in Slots : Running(s) /\ calls[s].what = "propose"
  /\ faults < MaxFaults /\ faults' = faults + 1
  /\ Interrupted /\ calls' = NoCalls
  /\ Over("error")
  /\ UNCHANGED <<routing, signedIn, attempt, pass, seen, answered, got, retry, final,
                 text>>

\* The partial text and TURN_TIMEOUT_FALLBACK are stored, and the error sent.
PersistPartial ==
  /\ pc = "timedout"
  /\ stored' = IF Spoiled THEN stored ELSE Append(stored, "partial")
  /\ Over("error")
  /\ UNCHANGED <<routing, signedIn, attempt, agent, action, faults>>

\* The client of a stream leaves.
Disconnect ==
  /\ mode # "plain" /\ pc \in Streaming \cup {"timedout"}
  /\ Interrupted /\ calls' = NoCalls
  /\ Over("nothing")
  /\ UNCHANGED <<routing, signedIn, attempt, pass, seen, answered, got, retry, final,
                 text, faults>>

-----------------------------------------------------------------------------

Prepare == GetCredential \/ Discover \/ ListTools \/ Identify \/ RefreshForRuntime

CallStep(s) ==
  \/ StartRead(s) \/ ReadInvalid(s) \/ ReadAnswered(s) \/ ReadRefreshed(s)
  \/ ReadRetried(s)
  \/ StartProposal(s) \/ FinishProposal(s) \/ ProposalFails(s)
  \/ ProposalLosesSession(s)

Proceed ==
  \/ Classify \/ Fixed \/ Prepare \/ CallTools \/ Answer \/ EndPass
  \/ \E s \in Slots : CallStep(s)
  \/ EndStream \/ EndPlain \/ Persist \/ Announce \/ PersistPartial

Next == Proceed \/ ModelFails \/ ProposalEndsTurn \/ PersistFails \/ Deadline \/ Disconnect

Spec == Init /\ [][Next]_vars

\* The process keeps running the turn; no time-out or client has to help.
FairSpec == Spec /\ WF_vars(Proceed)

-----------------------------------------------------------------------------
(* What must hold.                                                          *)

\* A turn stores at most one reply and creates at most one Action, wherever it is
\* interrupted: the time-out does not add a partial reply to a complete one
\* (_reply_events), and calls that run beside each other do not both propose.  Only
\* an action intent creates one.
OneOutcome ==
  /\ Len(stored) <= 1
  /\ action.count <= 1
  /\ action.count = 1 => intent = "action"

\* A client that was told "done" finds the reply in the history, and one whose
\* turn proposed an Action was shown it (on_complete before action_required).
DoneIsStored ==
  /\ told \in {"done", "announced"} => Len(stored) = 1
  /\ told = "done" => action.count = 0

\* No query is answered more than max_repeats - 1 times in a turn, also when the same
\* call is made twice in one pass and failed calls give their allowance back: an upper
\* bound, not a promise that a call is allowed.
RepeatsBounded == \A q \in Queries : answered[q] < MaxRepeats

\* Once the data agent has rows or a count, or two empty lists, it calls no
\* more tools (TerminalToolConvergenceMiddleware).
Converges ==
  [][intent = "data" /\ pc = "thinking" /\ pc' = "acting" =>
       got.rows = 0 /\ got.empty <= 1]_vars

\* As the proposal tool sees the turn.
Proposing == \E s \in Slots : Running(s) /\ calls[s].what = "propose"
Ended == pc \in {"timedout", "over"}

Contract == INSTANCE ProposalTool WITH
  busy <- Proposing, held <- action.held, count <- action.count, ended <- Ended

\* The turn uses the proposal tool as agreed: whatever calls a model asks for at the
\* same time, and wherever the turn is cut off (is_concurrency_safe = False).
KeepsToolContract == Contract!Spec

\* How far a turn is from its end: its stage, the passes it may still begin, and
\* what the calls of this pass have still to do.
Stage ==
  LET first == IF attempt = 1 THEN 4 ELSE 0 IN
  CASE pc = "routing" -> 20 [] pc = "credential" -> 19
    [] pc = "discovering" -> 14 + first [] pc = "listing" -> 13 + first
    [] pc = "identifying" -> 12 + first [] pc = "refreshing" -> 15
    [] pc = "acting" -> 7 [] pc = "thinking" -> 6 [] pc = "ending" -> 5
    [] pc = "persisting" -> 4 [] pc = "announcing" -> 3
    [] pc \in {"fixed", "timedout"} -> 2 [] pc = "over" -> 0

Effort(state) ==
  CASE state = "todo" -> 4 [] state = "running" -> 3 [] state = "refreshing" -> 2
    [] state = "retrying" -> 1 [] state = "done" -> 0

Chores == {e \in Slots \X (1..4) : e[2] <= Effort(calls[e[1]].state)}

PerPass == Cardinality(Slots \X (1..4)) + 2

Fuel == Stage + (MaxPasses - pass) * PerPass + Cardinality(Chores)

\* Every step of a turn, of the model, the tools, the time-out or the client, uses up
\* some of it, so a turn takes at most 20 + MaxPasses * PerPass steps: passes, repeated
\* calls, 401 retries and preparation cannot go on (max_iters, refreshing_caller.py).
TurnShrinks == [][0 <= Fuel' /\ Fuel' < Fuel]_vars

\* Every turn ends, with whatever the model and the tools do.
TurnEnds == <>(pc = "over")

=============================================================================
