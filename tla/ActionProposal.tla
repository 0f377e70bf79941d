--------------------------- MODULE ActionProposal ---------------------------
(***************************************************************************)
(* The proposal tool of one chat turn (actions/proposal.py): how arguments *)
(* written by a model become the one Action the turn may propose.  Every   *)
(* step that asks ERPNext sees the documents of that moment; other users   *)
(* rename, hide, save and submit them between the steps.                   *)
(***************************************************************************)
EXTENDS Naturals, Sequences, FiniteSets

CONSTANTS
  Proposals,   \* the arguments a model may write, a set of RawArguments
  Labels, Abbrs, NoAbbr,
  Longer,      \* pairs of abbreviations: the text of the first begins the second
  UserAbbr,    \* of the current user's company, or NoAbbr
  CompanyAbbr, \* of the company in the payload
  Revocable,   \* bound: the fields whose permission others may withdraw
  Links,       \* names of customers, companies and items
  Absent,      \* a key that is not there
  MaxRows,     \* 100 in the code
  Chunk,       \* 50 in the code
  MaxCalls, MaxChanges, MaxFaults

\* A warehouse is called "label - abbr"; a bare label has no abbreviation.
Names == [label : Labels, abbr : Abbrs \cup {NoAbbr}]

Quantities == {"number", "numeral", "invalid"}

\* The fields of the items of every DocType, and DRAFT_DEFINITIONS.
CommonItemFields == {"item_code", "item_name", "description", "qty", "uom",
                     "conversion_factor", "warehouse"}

DraftDefinitions ==
  [SalesOrder |->
     [required |-> {"customer", "company", "transaction_date", "delivery_date", "items"},
      allowed |-> {"customer", "company", "transaction_date", "delivery_date", "currency",
                   "selling_price_list", "po_no", "items"},
      item |-> CommonItemFields \cup {"rate", "delivery_date"}],
   PurchaseOrder |->
     [required |-> {"supplier", "company", "transaction_date", "schedule_date", "items"},
      allowed |-> {"supplier", "company", "transaction_date", "schedule_date", "currency",
                   "buying_price_list", "items"},
      item |-> CommonItemFields \cup {"rate", "schedule_date"}],
   MaterialRequest |->
     [required |-> {"material_request_type", "company", "transaction_date",
                    "schedule_date", "items"},
      allowed |-> {"material_request_type", "company", "transaction_date",
                   "schedule_date", "set_warehouse", "items"},
      item |-> CommonItemFields \cup {"schedule_date"}]]

DateFields == {"transaction_date", "delivery_date", "schedule_date"}

\* Every field a draft may have, and two that none may.
Fields == {"submit", "docstatus"}
            \cup UNION {DraftDefinitions[d].allowed : d \in DOMAIN DraftDefinitions}

\* The kinds of value that validation tells apart.
Values == {"text", "date", "blank", "long", "number", "infinite", "nested", "deep", "rows"}

RawRows == [item : Links, warehouse : Names \cup {Absent},
            delivery_warehouse : Names \cup {Absent},
            qty : Quantities \cup {Absent}, quantity : Quantities \cup {Absent},
            others : [CommonItemFields \cup DateFields \cup {"rate", "docstatus"} ->
                        Values \cup {Absent}]]

\* shape: how the arguments are nested; keyed: they hold an idempotency_key; links:
\* the documents that the payload's fields name.
RawArguments ==
  [op : {"create", "update"}, shape : {"payload", "flat", "wrapped", "rewrapped"},
   keyed : BOOLEAN, doctype : DOMAIN DraftDefinitions \cup {"Other"},
   payload : [Fields -> Values \cup {Absent}], links : SUBSET Links,
   set_warehouse : Names \cup {Absent}, rows : Seq(RawRows)]

ASSUME ActionProposalAssumption ==
  /\ Proposals \subseteq RawArguments
  /\ \A raw \in Proposals : raw.payload["items"] # "rows" => raw.rows = << >>
  /\ IsFiniteSet(Names) /\ Longer \subseteq Abbrs \X Abbrs
  /\ UserAbbr \in Abbrs \cup {NoAbbr} /\ CompanyAbbr \in Abbrs
  /\ Revocable \subseteq Fields
  /\ MaxRows \in Nat /\ Chunk \in Nat \ {0} /\ Absent \notin Names \cup Values
  /\ MaxCalls \in Nat /\ MaxChanges \in Nat /\ MaxFaults \in Nat

VARIABLES
  writable,   \* the fields this user may write
  warehouses, \* the warehouses this user sees
  visible,    \* the other linked documents this user sees
  draft,      \* the draft an update is about: [modified, docstatus]
  pc,
  call,       \* the proposal under way
  record,     \* ActionProposalTool.record
  spoiled,    \* the turn's database session has failed and was not rolled back
  actions,    \* Actions committed in this turn
  answer,     \* of the last call: "none", "ok" or an error
  over,       \* the turn has ended
  calls, changes, faults,
  seen        \* what ERPNext held during the last call (history)

world == <<writable, warehouses, visible, draft>>
vars == <<world, pc, call, record, spoiled, actions, answer, over, calls, changes, faults,
          seen>>

-----------------------------------------------------------------------------
(* The arguments.                                                           *)

\* setdefault(key, pop(alias)), and numbers written as strings.
Either(key, alias) == IF key # Absent THEN key ELSE alias
Coerced(q) == IF q = "numeral" THEN "number" ELSE q

\* _normalize_item_aliases.
Row(raw) == [item |-> raw.item, warehouse |-> Either(raw.warehouse, raw.delivery_warehouse),
             qty |-> Coerced(Either(raw.qty, raw.quantity))]

\* _normalize_model_arguments: one needless envelope is removed, fields beside the
\* doctype become the payload, without an idempotency_key.
WellFormed(raw) == raw.shape \in {"payload", "flat", "wrapped"}
Keyed(raw) == raw.keyed /\ raw.shape # "flat"

\* _required_string, _iso_date, _validate_json_value.
RequiredString(v) == v \in {"text", "date"}
IsoDate(v) == v = "date"
JsonValue(v) == v \notin {"long", "infinite", "deep", "rows", Absent}

ValidValue(f, v) ==
  IF f \in DateFields THEN IsoDate(v) ELSE JsonValue(v) /\ v # "blank"

FieldsOf(raw) == {f \in Fields : raw.payload[f] # Absent}

\* _normalize_payload, but for the items.
ValidPayload(raw) ==
  \A f \in FieldsOf(raw) \ {"items"} : ValidValue(f, raw.payload[f])

\* _normalize_items: rows of allowed fields, with an item and a positive quantity.
ValidRow(raw, i) ==
  LET others == raw.rows[i].others
      given == {f \in DOMAIN others : others[f] # Absent}
  IN /\ given \subseteq DraftDefinitions[raw.doctype].item
     /\ Row(raw.rows[i]).qty = "number"
     /\ \A f \in given : ValidValue(f, others[f])

\* Mutant: the limit of the rows is off by one.
ValidWithOneMore(raw) ==
  /\ WellFormed(raw) /\ ~Keyed(raw) /\ raw.doctype \in DOMAIN DraftDefinitions
  /\ FieldsOf(raw) # {} /\ FieldsOf(raw) \subseteq DraftDefinitions[raw.doctype].allowed
  /\ raw.op = "create" => DraftDefinitions[raw.doctype].required \subseteq FieldsOf(raw)
  /\ ValidPayload(raw)
  /\ "items" \in FieldsOf(raw) =>
       /\ raw.payload["items"] = "rows" /\ Len(raw.rows) \in 1..(MaxRows + 1)
       /\ \A i \in DOMAIN raw.rows : ValidRow(raw, i)

\* validate_action_arguments: no other key at the top, the DocType's allowed and
\* required fields, their values.
Valid(raw) ==
  /\ WellFormed(raw) /\ ~Keyed(raw) /\ raw.doctype \in DOMAIN DraftDefinitions
  /\ FieldsOf(raw) # {} /\ FieldsOf(raw) \subseteq DraftDefinitions[raw.doctype].allowed
  /\ raw.op = "create" => DraftDefinitions[raw.doctype].required \subseteq FieldsOf(raw)
  /\ ValidPayload(raw)
  /\ "items" \in FieldsOf(raw) =>
       /\ raw.payload["items"] = "rows" /\ Len(raw.rows) \in 1..MaxRows
       /\ \A i \in DOMAIN raw.rows : ValidRow(raw, i)

\* The slots that may name a warehouse: the rows, and 0 for set_warehouse.
Slots(raw) == 0..Len(raw.rows)
Asked(raw) ==
  [s \in Slots(raw) |-> IF s = 0 THEN raw.set_warehouse ELSE Row(raw.rows[s]).warehouse]

\* The slots in the order of the code: the rows, then set_warehouse.
First(S) == IF S = {0} THEN 0
            ELSE CHOOSE s \in S \ {0} : \A t \in S \ {0} : s <= t

\* _collect_link_references, without the warehouses.
LinksOf(raw) == raw.links \cup {raw.rows[i].item : i \in DOMAIN raw.rows}

NoCall == [raw |-> Absent]

\* wh      what the slots name now
\* todo    slots still to look up, of this pass
\* abbr    the abbreviation to try
\* unseen  links and warehouses still to validate
Calls == [raw : Proposals, wh : UNION {[0..n -> Names \cup {Absent}] : n \in 0..MaxRows},
          expected : Nat, todo : SUBSET (0..MaxRows), unresolved : SUBSET (0..MaxRows),
          abbr : Abbrs \cup {NoAbbr}, unseen : SUBSET (Links \cup Names), modified : Nat]

\* An Action: what was proposed, what the proposal became, and the history of it.
Action(c) == [op |-> c.raw.op, fields |-> FieldsOf(c.raw), links |-> LinksOf(c.raw),
              asked |-> Asked(c.raw), abbr |-> c.abbr, wh |-> c.wh, expected |-> c.expected,
              modified |-> c.modified, seen |-> seen]

\* What ERPNext held at some moment of the call, and what throughout it.
Now == [fields |-> writable, names |-> visible \cup warehouses, always |-> warehouses,
        drafts |-> IF draft.docstatus = 0 THEN {draft.modified} ELSE {}]

Watch(f, w, v, d) ==
  IF pc = "idle" THEN seen ELSE
  [fields |-> seen.fields \cup f, names |-> seen.names \cup v \cup w,
   always |-> seen.always \cap w,
   drafts |-> seen.drafts \cup (IF d.docstatus = 0 THEN {d.modified} ELSE {})]

PCs == {"idle", "schema", "exact", "context", "company", "alias", "current", "links",
        "creating", "committing"}

TypeOK ==
  /\ writable \subseteq Fields
  /\ warehouses \subseteq Names /\ visible \subseteq Links
  /\ draft \in [modified : Nat, docstatus : {0, 1}]
  /\ pc \in PCs
  /\ IF pc = "idle" THEN call = NoCall ELSE call \in Calls
  /\ record \in BOOLEAN /\ spoiled \in BOOLEAN /\ over \in BOOLEAN
  /\ \A a \in actions : DOMAIN a.wh = DOMAIN a.asked
  /\ answer \in {"none", "ok", "invalid", "conflict", "unavailable", "proposed"}
  /\ calls \in 0..MaxCalls /\ changes \in 0..MaxChanges /\ faults \in 0..MaxFaults

Init ==
  /\ writable = Fields /\ visible = Links
  /\ warehouses \in SUBSET Names
  /\ draft = [modified |-> 1, docstatus |-> 0]
  /\ pc = "idle" /\ call = NoCall
  /\ record = FALSE /\ spoiled = FALSE /\ actions = {} /\ answer = "none" /\ over = FALSE
  /\ calls = 0 /\ changes = 0 /\ faults = 0
  /\ seen = [fields |-> {}, names |-> {}, always |-> {}, drafts |-> {}]

-----------------------------------------------------------------------------
(* The tool.                                                                *)

Answers(a) ==
  /\ pc' = "idle" /\ call' = NoCall /\ answer' = a
Step(to, c) ==
  /\ pc' = to /\ call' = c /\ UNCHANGED answer
Quiet == UNCHANGED <<world, record, spoiled, actions, over, calls, changes, faults, seen>>

\* propose, up to its first call.  The model expects a version it may have read
\* earlier.
Propose(raw) ==
  IF ~Valid(raw) THEN Answers("invalid")
  ELSE \E version \in 1..draft.modified :
         Step("schema", [raw |-> raw, wh |-> Asked(raw), expected |-> version,
                         todo |-> {}, unresolved |-> {}, abbr |-> NoAbbr,
                         unseen |-> {}, modified |-> 0])

\* Mutant: a second call is not refused.
CallAgain(raw) ==
  /\ pc = "idle" /\ ~over /\ calls < MaxCalls
  /\ calls' = calls + 1 /\ seen' = Now
  /\ Propose(raw)
  /\ UNCHANGED <<world, record, spoiled, actions, over, changes, faults>>

\* ActionProposalTool.call.
Call(raw) ==
  /\ pc = "idle" /\ ~over /\ calls < MaxCalls
  /\ calls' = calls + 1 /\ seen' = Now
  /\ IF record THEN Answers("proposed") ELSE Propose(raw)
  /\ UNCHANGED <<world, record, spoiled, actions, over, changes, faults>>

\* _validate_schema; then the slots that name a warehouse are looked up, if any.
Schema ==
  /\ pc = "schema"
  /\ LET named == {s \in DOMAIN call.wh : call.wh[s] # Absent} IN
     IF ~(FieldsOf(call.raw) \subseteq writable) THEN Answers("invalid")
     ELSE IF named = {} THEN Step("current", call)
     ELSE Step("exact", [call EXCEPT !.todo = named])
  /\ Quiet

\* One slot: a name that exists is left alone, another one is unresolved.
Exact ==
  /\ pc = "exact"
  /\ LET s == First(call.todo)
         rest == call.todo \ {s}
         left == call.unresolved \cup (IF call.wh[s] \in warehouses THEN {} ELSE {s})
         next == [call EXCEPT !.todo = rest, !.unresolved = left]
     IN Step(IF rest # {} THEN "exact" ELSE IF left # {} THEN "context" ELSE "current", next)
  /\ Quiet

\* The abbreviation of the user's company; a failing call counts as none.
Context ==
  /\ pc = "context"
  /\ \/ /\ IF UserAbbr # NoAbbr
             THEN Step("alias", [call EXCEPT !.abbr = UserAbbr, !.todo = call.unresolved])
             ELSE Step("company", call)
        /\ UNCHANGED faults
     \/ faults < MaxFaults /\ faults' = faults + 1 /\ Step("company", call)
  /\ UNCHANGED <<world, record, spoiled, actions, over, calls, changes, seen>>

\* Without it, that of the company in the payload, if there is one.
Company ==
  /\ pc = "company"
  /\ \/ /\ IF "company" \in FieldsOf(call.raw)
             THEN Step("alias", [call EXCEPT !.abbr = CompanyAbbr, !.todo = call.unresolved])
             ELSE Step("current", call)
        /\ UNCHANGED faults
     \/ faults < MaxFaults /\ faults' = faults + 1 /\ Step("current", call)
  /\ UNCHANGED <<world, record, spoiled, actions, over, calls, changes, seen>>

\* The name of the warehouse w begins with "name - abbr".
Matches(w, name, abbr) ==
  /\ name.abbr = NoAbbr /\ w.label = name.label
  /\ (w.abbr = abbr \/ <<abbr, w.abbr>> \in Longer)

Candidates(name, abbr) == {w \in warehouses : Matches(w, name, abbr)}

\* Mutant: a page of one row.
ReplacementFirst(name, abbr) ==
  LET found == Candidates(name, abbr)
  IN IF found # {} THEN CHOOSE w \in found : TRUE ELSE name

\* A name stands for the only candidate (a page of two rows), or for itself.
Replacement(name, abbr) ==
  LET found == Candidates(name, abbr)
  IN IF Cardinality(found) = 1 THEN CHOOSE w \in found : TRUE ELSE name

Alias ==
  /\ pc = "alias"
  /\ LET s == First(call.todo)
         rest == call.todo \ {s}
     IN Step(IF rest # {} THEN "alias" ELSE "current",
             [call EXCEPT !.todo = rest, !.wh[s] = Replacement(@, call.abbr)])
  /\ Quiet

\* What _validate_links is to find.
Unseen(c) == LinksOf(c.raw) \cup ({c.wh[s] : s \in DOMAIN c.wh} \ {Absent})

\* _validate_current_document: an update is of a draft nobody has changed since.
Current ==
  /\ pc = "current"
  /\ IF call.raw.op = "create" THEN Step("links", [call EXCEPT !.unseen = Unseen(call)])
     ELSE IF draft.docstatus # 0 \/ draft.modified # call.expected THEN Answers("conflict")
     ELSE Step("links", [call EXCEPT !.unseen = Unseen(call), !.modified = draft.modified])
  /\ Quiet

\* Mutant: only the first chunk of the links is validated.
CheckLinksOnce ==
  /\ pc = "links"
  /\ \E chunk \in SUBSET call.unseen :
       /\ Cardinality(chunk) <= Chunk
       /\ Cardinality(chunk) < Chunk => chunk = call.unseen
       /\ IF ~(chunk \subseteq visible \cup warehouses) THEN Answers("invalid")
          ELSE Step("creating", [call EXCEPT !.unseen = {}])
  /\ Quiet

\* _validate_links, one chunk.  The code sorts the names of a DocType and refuses
\* after its last chunk; here a chunk is any, and refused at once.
CheckLinks ==
  /\ pc = "links"
  /\ \E chunk \in SUBSET call.unseen :
       /\ Cardinality(chunk) <= Chunk
       /\ Cardinality(chunk) < Chunk => chunk = call.unseen
       /\ LET rest == call.unseen \ chunk IN
          IF ~(chunk \subseteq visible \cup warehouses) THEN Answers("invalid")
          ELSE Step(IF rest = {} THEN "creating" ELSE "links", [call EXCEPT !.unseen = rest])
  /\ Quiet

\* create_pending adds and flushes the record; the transaction is open.  A session that
\* has failed takes no more statements.
Create ==
  /\ pc = "creating"
  /\ IF spoiled THEN Answers("unavailable") ELSE Step("committing", call)
  /\ Quiet

Commit ==
  /\ pc = "committing"
  /\ actions' = actions \cup {Action(call)}
  /\ record' = TRUE /\ Answers("ok")
  /\ UNCHANGED <<world, spoiled, over, calls, changes, faults, seen>>

-----------------------------------------------------------------------------
(* What may go wrong, and what others do.                                   *)

\* ERPNext cannot be asked (an error chunk).
Fails ==
  /\ pc \notin {"idle", "creating", "committing"}
  /\ faults < MaxFaults /\ faults' = faults + 1
  /\ Answers("unavailable")
  /\ UNCHANGED <<world, record, spoiled, actions, over, calls, changes, seen>>

\* What may have been committed when the commit did not return.
MayHaveCommitted ==
  actions' \in {actions} \cup
    IF pc = "committing" THEN {actions \cup {Action(call)}} ELSE {}

\* PostgreSQL fails, or its answer to the commit is lost: an exception that nothing in
\* the tool catches, so there is no record of an Action that was committed, and nothing
\* rolls the session back before the request ends.  The turn may end with it.
DatabaseFails ==
  /\ pc \in {"creating", "committing"} /\ ~spoiled
  /\ faults < MaxFaults /\ faults' = faults + 1
  /\ spoiled' = TRUE /\ over' \in BOOLEAN
  /\ MayHaveCommitted
  /\ Answers("unavailable")
  /\ UNCHANGED <<world, record, calls, changes, seen>>

\* Mutant: the end of the turn leaves the call running.
TurnLeavesCall ==
  /\ ~over /\ over' = TRUE
  /\ UNCHANGED <<world, pc, call, record, spoiled, actions, answer, calls, changes, faults,
                 seen>>

\* The turn ends, by its reply or its time-out, also inside a call: before the
\* commit, or after it and before the record is kept.
TurnOver ==
  /\ ~over /\ over' = TRUE
  /\ pc' = "idle" /\ call' = NoCall
  /\ MayHaveCommitted
  /\ UNCHANGED <<world, record, spoiled, answer, calls, changes, faults, seen>>

Change(f, w, v, d) ==
  /\ changes < MaxChanges /\ changes' = changes + 1
  /\ writable' = f /\ warehouses' = w /\ visible' = v /\ draft' = d
  /\ seen' = Watch(f, w, v, d)
  /\ UNCHANGED <<pc, call, record, spoiled, actions, answer, over, calls, faults>>

\* Other users: permissions, documents and the draft change.
SomeoneChanges ==
  \/ \E f \in Revocable : Change(writable \ {f}, warehouses, visible, draft)
  \/ \E n \in Names : \/ n \in warehouses /\ Change(writable, warehouses \ {n}, visible, draft)
                      \/ n \notin warehouses
                           /\ Change(writable, warehouses \cup {n}, visible, draft)
  \/ \E n \in visible : Change(writable, warehouses, visible \ {n}, draft)
  \/ /\ draft.docstatus = 0
     /\ \/ Change(writable, warehouses, visible, [draft EXCEPT !.modified = @ + 1])
        \/ Change(writable, warehouses, visible,
                  [modified |-> draft.modified + 1, docstatus |-> 1])

-----------------------------------------------------------------------------

Tool ==
  \/ Schema \/ Exact \/ Context \/ Company \/ Alias \/ Current \/ CheckLinks
  \/ Create \/ Commit

Next ==
  \/ \E raw \in Proposals : Call(raw)
  \/ Tool \/ Fails \/ DatabaseFails \/ TurnOver \/ SomeoneChanges

Spec == Init /\ [][Next]_vars

-----------------------------------------------------------------------------
(* What must hold.                                                          *)

\* A turn persists at most one Action, also when the answer to its commit is lost and the
\* model proposes again; what the tool calls done is committed, and an Action the tool
\* has no record of is left only by a turn that ended in the commit or whose database
\* session failed in it (ActionProposalTool.call, propose).
OneProposal ==
  /\ Cardinality(actions) <= 1
  /\ answer = "ok" => actions # {}
  /\ actions # {} => record \/ over \/ spoiled

\* Whatever an Action says of ERPNext was true during the call: its fields were
\* writable and the documents it names visible to the user, the warehouses that the
\* service put in included, however many chunks that takes; and an update is for the
\* version its author has read and the draft still had.
PreviewIsTrue ==
  \A a \in actions :
    /\ a.fields \subseteq a.seen.fields
    /\ a.links \cup ({a.wh[s] : s \in DOMAIN a.wh} \ {Absent}) \subseteq a.seen.names
    /\ a.op = "update" => a.modified = a.expected /\ a.modified \in a.seen.drafts

\* A warehouse that exists throughout the call is never replaced by another one, and
\* what replaces a label matches it under the abbreviation the call has tried, as the
\* only warehouse that was there throughout and does.  Of "resolves a unique
\* current-company warehouse alias" (proposal.py:475) this is "unique"; it is not
\* "current-company", since the pattern also matches an abbreviation that is only the
\* beginning of another company's.
AliasIsSound ==
  \A a \in actions : \A s \in DOMAIN a.wh : a.wh[s] # a.asked[s] =>
    /\ a.asked[s] \notin a.seen.always
    /\ Matches(a.wh[s], a.asked[s], a.abbr)
    /\ {w \in a.seen.always : Matches(w, a.asked[s], a.abbr)} \subseteq {a.wh[s]}

Contract == INSTANCE ProposalTool WITH
  busy <- pc # "idle", held <- record, count <- Cardinality(actions), ended <- over

\* The tool does what the turn relies on: it commits once or not at all, and what it
\* has not come to hold is lost only with the turn (ActionProposalTool.call).
KeepsToolContract == Contract!Spec

=============================================================================
