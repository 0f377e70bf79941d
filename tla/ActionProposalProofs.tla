------------------------ MODULE ActionProposalProofs ------------------------
(***************************************************************************)
(* Theorems about ActionProposal: its types, that a turn proposes at most  *)
(* one Action, that what an Action says of ERPNext was true, that an alias *)
(* never replaces a warehouse that exists, and that the tool keeps the     *)
(* contract AgentTurn uses it by.                                          *)
(***************************************************************************)
EXTENDS ActionProposal, FiniteSetTheorems, WellFoundedInduction, TLAPS

-----------------------------------------------------------------------------
(* Calls and their slots.                                                   *)

\* What the slots may name.
Namings == UNION {[0..n -> Names \cup {Absent}] : n \in 0..MaxRows}

LEMMA NamingsKept ==
  ASSUME NEW wh \in Namings, NEW s \in DOMAIN wh, NEW x \in Names \cup {Absent}
  PROVE  [wh EXCEPT ![s] = x] \in Namings
<1>1. PICK n \in 0..MaxRows : wh \in [0..n -> Names \cup {Absent}]
  BY DEF Namings
<1>2. [wh EXCEPT ![s] = x] \in [0..n -> Names \cup {Absent}]
  BY <1>1
<1>3. QED
  BY <1>2 DEF Namings

LEMMA NamingsAt ==
  ASSUME NEW wh \in Namings
  PROVE  DOMAIN wh \subseteq 0..MaxRows /\ \A s \in DOMAIN wh : wh[s] \in Names \cup {Absent}
<1>1. PICK n \in 0..MaxRows : wh \in [0..n -> Names \cup {Absent}]
  BY DEF Namings
<1>2. MaxRows \in Nat
  BY ActionProposalAssumption
<1>3. QED
  BY <1>1, <1>2

\* The first slot of some is one of them.
LEMMA FirstIsOne ==
  ASSUME NEW S \in SUBSET Nat, S # {}
  PROVE  First(S) \in S
<1>1. CASE S = {0}
  BY <1>1 DEF First
<1>2. CASE S # {0}
  <2>1. S \ {0} \in SUBSET Nat /\ S \ {0} # {}
    BY <1>2
  <2>2. \E s \in S \ {0} : \A t \in S \ {0} : s <= t
    <3>1. IsWellFoundedOn({ss \in Nat \X Nat : ss[1] < ss[2]}, Nat)
      BY NatLessThanWellFounded DEF OpToRel
    <3>2. \E s \in S \ {0} : \A t \in S \ {0} :
            <<t, s>> \notin {ss \in Nat \X Nat : ss[1] < ss[2]}
      BY <2>1, <3>1, WFMin
    <3>3. PICK s \in S \ {0} : \A t \in S \ {0} :
            <<t, s>> \notin {ss \in Nat \X Nat : ss[1] < ss[2]}
      BY <3>2
    <3>4. \A t \in S \ {0} : s \in Nat /\ t \in Nat /\ ~(t < s)
      BY <2>1, <3>3
    <3>5. \A t \in S \ {0} : s <= t
      BY <3>4
    <3>6. QED
      BY <3>3, <3>5
  <2>3. QED
    BY <1>2, <2>2 DEF First
<1>3. QED
  BY <1>1, <1>2

\* What a valid proposal asks for.
LEMMA AskedTyped ==
  ASSUME NEW raw \in Proposals, Valid(raw)
  PROVE  Asked(raw) \in Namings /\ LinksOf(raw) \subseteq Links
<1>1. raw \in RawArguments /\ raw.rows \in Seq(RawRows)
      /\ (raw.payload["items"] # "rows" => raw.rows = << >>)
  BY ActionProposalAssumption DEF RawArguments
<1>2. Len(raw.rows) \in 0..MaxRows
  <2>1. CASE "items" \in FieldsOf(raw)
    BY <2>1, <1>1, ActionProposalAssumption DEF Valid
  <2>2. CASE "items" \notin FieldsOf(raw)
    <3>1. "items" \in Fields
      BY DEF Fields, DraftDefinitions
    <3>2. raw.payload["items"] = Absent
      BY <2>2, <3>1 DEF FieldsOf
    <3>3. raw.payload["items"] # "rows"
      BY <3>2, ActionProposalAssumption DEF Values
    <3>4. QED
      BY <1>1, <3>3, ActionProposalAssumption
  <2>3. QED
    BY <2>1, <2>2
<1>3. \A i \in 1..Len(raw.rows) : raw.rows[i] \in RawRows
  BY <1>1
<1>4. \A i \in 1..Len(raw.rows) : Row(raw.rows[i]).warehouse \in Names \cup {Absent}
                                 /\ raw.rows[i].item \in Links
  BY <1>3 DEF RawRows, Row, Either
<1>5. raw.set_warehouse \in Names \cup {Absent} /\ raw.links \subseteq Links
  BY <1>1 DEF RawArguments
<1>6. Asked(raw) \in [0..Len(raw.rows) -> Names \cup {Absent}]
  BY <1>1, <1>4, <1>5 DEF Asked, Slots
<1>7. Asked(raw) \in Namings
  BY <1>2, <1>6 DEF Namings
<1>8. LinksOf(raw) \subseteq Links
  BY <1>1, <1>4, <1>5 DEF LinksOf
<1>9. QED
  BY <1>7, <1>8

LEMMA CallsAre ==
  Calls = [raw : Proposals, wh : Namings, expected : Nat, todo : SUBSET (0..MaxRows),
           unresolved : SUBSET (0..MaxRows), abbr : Abbrs \cup {NoAbbr},
           unseen : SUBSET (Links \cup Names), modified : Nat]
BY DEF Calls, Namings

-----------------------------------------------------------------------------
(* The inductive invariant.                                                 *)

\* What replaced warehouses must satisfy, given what existed throughout the call.
SoundNaming(always, raw, abbr, wh) ==
  \A s \in DOMAIN wh : wh[s] # Asked(raw)[s] =>
    /\ Asked(raw)[s] \notin always
    /\ Matches(wh[s], Asked(raw)[s], abbr)
    /\ {w \in always : Matches(w, Asked(raw)[s], abbr)} \subseteq {wh[s]}

\* No Action is held while a call runs, and one that was lost has spoiled the session;
\* the history covers what ERPNext holds ...
RunningInv ==
  pc # "idle" =>
    /\ ~record /\ ~over /\ (actions # {} => spoiled)
    /\ pc = "committing" => ~spoiled
    /\ writable \subseteq seen.fields
    /\ visible \cup warehouses \subseteq seen.names
    /\ seen.always \subseteq warehouses
    /\ draft.docstatus = 0 => draft.modified \in seen.drafts

\* ... and the call is as far as its place says.
PhaseInv ==
  pc # "idle" =>
    /\ LinksOf(call.raw) \subseteq Links /\ DOMAIN call.wh = Slots(call.raw)
    /\ pc # "schema" => FieldsOf(call.raw) \subseteq seen.fields
    /\ pc \in {"schema", "exact", "context", "company"} => call.wh = Asked(call.raw)
    /\ pc \in {"schema", "exact", "context", "company", "alias"} =>
         call.unresolved \subseteq DOMAIN call.wh
    /\ pc = "exact" => call.todo # {} /\ call.todo \subseteq DOMAIN call.wh
    /\ pc \in {"context", "company"} => call.unresolved # {}
    /\ pc = "alias" => /\ call.todo # {} /\ call.todo \subseteq call.unresolved
                       /\ \A s \in call.todo : call.wh[s] = Asked(call.raw)[s]
    /\ \A s \in call.unresolved : Asked(call.raw)[s] \notin seen.always
    /\ SoundNaming(seen.always, call.raw, call.abbr, call.wh)
    /\ pc \in {"links", "creating", "committing"} =>
         /\ Unseen(call) \subseteq call.unseen \cup seen.names
         /\ call.raw.op = "update" =>
              call.modified = call.expected /\ call.modified \in seen.drafts
    /\ pc \in {"creating", "committing"} => call.unseen = {}

ActionsInv ==
  /\ actions = {} \/ \E a : actions = {a}
  /\ answer = "ok" => actions # {}
  /\ actions # {} => record \/ over \/ spoiled
  /\ PreviewIsTrue /\ AliasIsSound

\* A call that is over leaves nothing to say.
LEMMA AnswerKeeps ==
  ASSUME TypeOK, ActionsInv, NEW x \in {"invalid", "conflict", "unavailable", "proposed"},
         Answers(x), UNCHANGED <<world, record, spoiled, actions, calls, changes>>,
         over' \in {over, TRUE}, faults' \in 0..MaxFaults
  PROVE  TypeOK' /\ RunningInv' /\ PhaseInv' /\ ActionsInv'
<1>1. pc' = "idle" /\ call' = NoCall /\ answer' = x
  BY DEF Answers
<1>2. RunningInv' /\ PhaseInv'
  BY <1>1 DEF RunningInv, PhaseInv
<1>3. over' \in BOOLEAN
  BY DEF TypeOK
<1>4. TypeOK'
  BY <1>1, <1>3 DEF TypeOK, PCs, world
<1>5. ActionsInv'
  <2>1. PreviewIsTrue' /\ AliasIsSound'
    BY DEF ActionsInv, PreviewIsTrue, AliasIsSound
  <2>2. (actions # {} => record \/ over \/ spoiled)'
    BY DEF ActionsInv
  <2>3. QED
    BY <1>1, <2>1, <2>2 DEF ActionsInv
<1>6. QED
  BY <1>2, <1>4, <1>5

\* A step of the call changes the call only.
LEMMA StepKeeps ==
  ASSUME TypeOK, RunningInv, ActionsInv, pc # "idle",
         NEW to \in PCs, NEW c \in Calls, Step(to, c), to # "idle",
         to = "committing" => ~spoiled,
         UNCHANGED <<world, record, spoiled, actions, over, calls, changes, seen>>,
         faults' \in 0..MaxFaults
  PROVE  TypeOK' /\ RunningInv' /\ ActionsInv' /\ pc' = to /\ call' = c
<1>1. pc' = to /\ call' = c /\ UNCHANGED answer
  BY DEF Step
<1>2. RunningInv'
  BY <1>1 DEF RunningInv, world
<1>3. TypeOK'
  BY <1>1 DEF TypeOK, world
<1>4. ActionsInv'
  BY <1>1 DEF ActionsInv, PreviewIsTrue, AliasIsSound
<1>5. QED
  BY <1>1, <1>2, <1>3, <1>4

\* The call begins.
LEMMA CallKeeps ==
  ASSUME TypeOK, RunningInv, PhaseInv, ActionsInv, NEW raw \in Proposals, Call(raw)
  PROVE  TypeOK' /\ RunningInv' /\ PhaseInv' /\ ActionsInv'
<1>1. /\ pc = "idle" /\ ~over /\ seen' = Now /\ calls' \in 0..MaxCalls
      /\ UNCHANGED <<world, record, spoiled, actions, over, changes, faults>>
  BY ActionProposalAssumption DEF Call, TypeOK
<1>2. ASSUME NEW x \in {"invalid", "proposed"}, Answers(x)
      PROVE  TypeOK' /\ RunningInv' /\ PhaseInv' /\ ActionsInv'
  <2>1. pc' = "idle" /\ call' = NoCall /\ answer' = x
    BY <1>2 DEF Answers
  <2>2. RunningInv' /\ PhaseInv'
    BY <2>1 DEF RunningInv, PhaseInv
  <2>3. TypeOK'
    BY <1>1, <2>1 DEF TypeOK, PCs, world
  <2>4. PreviewIsTrue' /\ AliasIsSound'
    BY <1>1 DEF ActionsInv, PreviewIsTrue, AliasIsSound
  <2>5. ActionsInv'
    BY <1>1, <2>1, <2>4 DEF ActionsInv
  <2>6. QED
    BY <2>2, <2>3, <2>5
<1>3. CASE record \/ ~Valid(raw)
  BY <1>2, <1>3 DEF Call, Propose
<1>4. CASE ~record /\ Valid(raw)
  <2>1. PICK version \in 1..draft.modified :
         Step("schema", [raw |-> raw, wh |-> Asked(raw), expected |-> version,
                         todo |-> {}, unresolved |-> {}, abbr |-> NoAbbr,
                         unseen |-> {}, modified |-> 0])
    BY <1>4 DEF Call, Propose
  <2>2. /\ pc' = "schema" /\ UNCHANGED answer
        /\ call' = [raw |-> raw, wh |-> Asked(raw), expected |-> version,
                    todo |-> {}, unresolved |-> {}, abbr |-> NoAbbr,
                    unseen |-> {}, modified |-> 0]
    BY <2>1 DEF Step
  <2>3. version \in Nat
    BY DEF TypeOK
  <2>4. Asked(raw) \in Namings
        /\ LinksOf(raw) \subseteq Links
    BY <1>4, AskedTyped
  <2>5. call' \in Calls
    BY <2>2, <2>3, <2>4, CallsAre
  <2>6. actions # {} => spoiled
    BY <1>1, <1>4 DEF ActionsInv
  <2>7. RunningInv'
    BY <1>1, <1>4, <2>2, <2>6 DEF RunningInv, Now, world
  <2>8. DOMAIN Asked(raw) = Slots(raw)
    BY DEF Asked
  <2>9. /\ call'.raw = raw /\ call'.wh = Asked(raw) /\ call'.unresolved = {}
        /\ call'.abbr = NoAbbr
    BY <2>2
  <2>10. SoundNaming(seen'.always, raw, NoAbbr, Asked(raw))
    BY DEF SoundNaming
  <2>11. PhaseInv'
    BY <2>2, <2>4, <2>8, <2>9, <2>10 DEF PhaseInv
  <2>12. TypeOK'
    BY <1>1, <2>2, <2>5 DEF TypeOK, PCs, world
  <2>13. ActionsInv'
    <3>1. PreviewIsTrue' /\ AliasIsSound'
      BY <1>1 DEF ActionsInv, PreviewIsTrue, AliasIsSound
    <3>2. QED
      BY <1>1, <2>2, <3>1 DEF ActionsInv
  <2>14. QED
    BY <2>7, <2>11, <2>12, <2>13
<1>5. QED
  BY <1>3, <1>4

\* The call, once it runs.
LEMMA CallTyped ==
  ASSUME TypeOK, pc # "idle"
  PROVE  /\ call \in Calls /\ call.raw \in Proposals /\ call.wh \in Namings
         /\ call.expected \in Nat /\ call.todo \subseteq 0..MaxRows
         /\ call.unresolved \subseteq 0..MaxRows /\ call.abbr \in Abbrs \cup {NoAbbr}
         /\ call.unseen \subseteq Links \cup Names /\ call.modified \in Nat
         /\ DOMAIN call.wh \subseteq 0..MaxRows
         /\ \A s \in DOMAIN call.wh : call.wh[s] \in Names \cup {Absent}
<1>1. call \in Calls
  BY DEF TypeOK
<1>2. /\ call.raw \in Proposals /\ call.wh \in Namings
      /\ call.expected \in Nat /\ call.todo \subseteq 0..MaxRows
      /\ call.unresolved \subseteq 0..MaxRows /\ call.abbr \in Abbrs \cup {NoAbbr}
      /\ call.unseen \subseteq Links \cup Names /\ call.modified \in Nat
  BY <1>1, CallsAre
<1>3. QED
  BY <1>1, <1>2, NamingsAt

LEMMA SchemaKeeps ==
  ASSUME TypeOK, RunningInv, PhaseInv, ActionsInv, Schema
  PROVE  TypeOK' /\ RunningInv' /\ PhaseInv' /\ ActionsInv'
<1> DEFINE named == {s \in DOMAIN call.wh : call.wh[s] # Absent}
<1>1. pc = "schema" /\ UNCHANGED <<world, record, spoiled, actions, over, calls, changes, faults, seen>>
  BY DEF Schema, Quiet
<1>2. CASE ~(FieldsOf(call.raw) \subseteq writable)
  BY <1>1, <1>2, AnswerKeeps DEF Schema, TypeOK
<1>3. CASE FieldsOf(call.raw) \subseteq writable /\ named = {}
  <2>1. Step("current", call)
    BY <1>3 DEF Schema
  <2>2. TypeOK' /\ RunningInv' /\ ActionsInv' /\ pc' = "current" /\ call' = call
    BY <1>1, <2>1, CallTyped, StepKeeps DEF PCs, TypeOK
  <2>3. FieldsOf(call.raw) \subseteq seen.fields
    BY <1>1, <1>3 DEF RunningInv
  <2>4. PhaseInv'
    BY <1>1, <2>2, <2>3 DEF PhaseInv
  <2>5. QED
    BY <2>2, <2>4
<1>4. CASE FieldsOf(call.raw) \subseteq writable /\ named # {}
  <2>1. Step("exact", [call EXCEPT !.todo = named])
    BY <1>4 DEF Schema
  <2>2. [call EXCEPT !.todo = named] \in Calls
    BY <1>1, CallTyped, CallsAre
  <2>3. TypeOK' /\ RunningInv' /\ ActionsInv' /\ pc' = "exact"
        /\ call' = [call EXCEPT !.todo = named]
    BY <1>1, <2>1, <2>2, StepKeeps DEF PCs, TypeOK
  <2>4. /\ call'.raw = call.raw /\ call'.wh = call.wh /\ call'.unresolved = call.unresolved
        /\ call'.todo = named /\ call'.abbr = call.abbr
    BY <1>1, <2>3, CallTyped, CallsAre
  <2>5. FieldsOf(call.raw) \subseteq seen.fields
    BY <1>1, <1>4 DEF RunningInv
  <2>6. PhaseInv'
    BY <1>1, <1>4, <2>3, <2>4, <2>5 DEF PhaseInv
  <2>7. QED
    BY <2>3, <2>6
<1>5. QED
  BY <1>2, <1>3, <1>4

LEMMA ExactKeeps ==
  ASSUME TypeOK, RunningInv, PhaseInv, ActionsInv, Exact
  PROVE  TypeOK' /\ RunningInv' /\ PhaseInv' /\ ActionsInv'
<1> DEFINE s == First(call.todo)
           rest == call.todo \ {s}
           left == call.unresolved \cup (IF call.wh[s] \in warehouses THEN {} ELSE {s})
           next == [call EXCEPT !.todo = rest, !.unresolved = left]
           to == IF rest # {} THEN "exact" ELSE IF left # {} THEN "context" ELSE "current"
<1>1. pc = "exact" /\ UNCHANGED <<world, record, spoiled, actions, over, calls, changes, faults, seen>>
      /\ Step(to, next)
  BY DEF Exact, Quiet
<1>2. s \in call.todo /\ s \in DOMAIN call.wh
  BY <1>1, CallTyped, FirstIsOne, ActionProposalAssumption DEF PhaseInv
<1>3. next \in Calls /\ to \in PCs
  BY <1>1, <1>2, CallTyped, CallsAre DEF PCs
<1>4. TypeOK' /\ RunningInv' /\ ActionsInv' /\ pc' = to /\ call' = next
  BY <1>1, <1>3, StepKeeps DEF TypeOK
<1>5. /\ call'.raw = call.raw /\ call'.wh = call.wh /\ call'.todo = rest
      /\ call'.unresolved = left /\ call'.abbr = call.abbr
  BY <1>1, <1>4, CallTyped, CallsAre
<1>6. \A t \in left : Asked(call.raw)[t] \notin seen.always
  <2>1. call.wh[s] \notin warehouses => Asked(call.raw)[s] \notin seen.always
    BY <1>1 DEF RunningInv, PhaseInv
  <2>2. QED
    BY <1>1, <2>1 DEF PhaseInv
<1>7. left \subseteq DOMAIN call.wh
  BY <1>1, <1>2 DEF PhaseInv
<1>8. UNCHANGED seen
  BY <1>1
<1> HIDE DEF s, left
<1>9. PhaseInv'
  BY <1>1, <1>4, <1>5, <1>6, <1>7, <1>8 DEF PhaseInv
<1>10. QED
  BY <1>4, <1>9

LEMMA ContextKeeps ==
  ASSUME TypeOK, RunningInv, PhaseInv, ActionsInv, Context \/ Company
  PROVE  TypeOK' /\ RunningInv' /\ PhaseInv' /\ ActionsInv'
<1>1. pc \in {"context", "company"}
      /\ UNCHANGED <<world, record, spoiled, actions, over, calls, changes, seen>>
  BY DEF Context, Company
<1>2. faults' \in 0..MaxFaults
  BY ActionProposalAssumption DEF Context, Company, TypeOK
<1>3. \/ Step("company", call) \/ Step("current", call)
      \/ \E abbr \in {UserAbbr, CompanyAbbr} :
           Step("alias", [call EXCEPT !.abbr = abbr, !.todo = call.unresolved])
  BY DEF Context, Company
<1>4. CASE Step("company", call) \/ Step("current", call)
  <2>1. TypeOK' /\ RunningInv' /\ ActionsInv' /\ pc' \in {"company", "current"} /\ call' = call
    BY <1>1, <1>2, <1>4, CallTyped, StepKeeps DEF PCs
  <2>2. PhaseInv'
    BY <1>1, <2>1 DEF PhaseInv
  <2>3. QED
    BY <2>1, <2>2
<1>5. ASSUME NEW abbr \in {UserAbbr, CompanyAbbr},
             Step("alias", [call EXCEPT !.abbr = abbr, !.todo = call.unresolved])
      PROVE  TypeOK' /\ RunningInv' /\ PhaseInv' /\ ActionsInv'
  <2>1. [call EXCEPT !.abbr = abbr, !.todo = call.unresolved] \in Calls
    BY <1>1, CallTyped, CallsAre, ActionProposalAssumption
  <2>2. TypeOK' /\ RunningInv' /\ ActionsInv' /\ pc' = "alias"
        /\ call' = [call EXCEPT !.abbr = abbr, !.todo = call.unresolved]
    BY <1>1, <1>2, <1>5, <2>1, StepKeeps DEF PCs
  <2>3. /\ call'.raw = call.raw /\ call'.wh = call.wh /\ call'.todo = call.unresolved
        /\ call'.unresolved = call.unresolved /\ call'.abbr = abbr
    BY <1>1, <2>2, CallTyped, CallsAre
  <2>4. SoundNaming(seen.always, call.raw, abbr, call.wh)
    BY <1>1 DEF PhaseInv, SoundNaming
  <2>5. PhaseInv'
    BY <1>1, <2>2, <2>3, <2>4 DEF PhaseInv
  <2>6. QED
    BY <2>2, <2>5
<1>6. QED
  BY <1>3, <1>4, <1>5

\* A replacement is a warehouse this user sees, the only one that matches.
LEMMA ReplacementIs ==
  ASSUME warehouses \subseteq Names, NEW name \in Names \cup {Absent}, NEW abbr
  PROVE  /\ Replacement(name, abbr) \in Names \cup {Absent}
         /\ Replacement(name, abbr) # name =>
              Candidates(name, abbr) = {Replacement(name, abbr)}
<1> DEFINE found == Candidates(name, abbr)
<1>1. IsFiniteSet(found) /\ found \subseteq Names
  BY ActionProposalAssumption, FS_Subset DEF Candidates
<1>2. CASE Cardinality(found) # 1
  BY <1>2 DEF Replacement
<1>3. CASE Cardinality(found) = 1
  <2>1. PICK w : found = {w}
    BY <1>1, <1>3, FS_Singleton
  <2>2. Replacement(name, abbr) = w
    BY <1>3, <2>1 DEF Replacement
  <2>3. QED
    BY <1>1, <2>1, <2>2
<1>4. QED
  BY <1>2, <1>3

LEMMA AliasKeeps ==
  ASSUME TypeOK, RunningInv, PhaseInv, ActionsInv, Alias
  PROVE  TypeOK' /\ RunningInv' /\ PhaseInv' /\ ActionsInv'
<1> DEFINE s == First(call.todo)
           rest == call.todo \ {s}
           x == Replacement(call.wh[s], call.abbr)
           wh == [call.wh EXCEPT ![s] = x]
           next == [call EXCEPT !.todo = rest, !.wh = wh]
           to == IF rest # {} THEN "alias" ELSE "current"
<1>1. pc = "alias" /\ UNCHANGED <<world, record, spoiled, actions, over, calls, changes, faults, seen>>
  BY DEF Alias, Quiet
<1>2. s \in call.todo /\ s \in call.unresolved /\ s \in DOMAIN call.wh
  BY <1>1, CallTyped, FirstIsOne, ActionProposalAssumption DEF PhaseInv
<1>3. Step(to, next)
  BY <1>1, CallTyped, CallsAre DEF Alias
<1>4. /\ x \in Names \cup {Absent}
      /\ x # call.wh[s] => Candidates(call.wh[s], call.abbr) = {x}
  BY <1>1, <1>2, CallTyped, ReplacementIs DEF TypeOK
<1>5. wh \in Namings /\ DOMAIN wh = DOMAIN call.wh
  BY <1>1, <1>2, <1>4, CallTyped, NamingsKept
<1>6. next \in Calls /\ to \in PCs
  BY <1>1, <1>5, CallTyped, CallsAre DEF PCs
<1>7. TypeOK' /\ RunningInv' /\ ActionsInv' /\ pc' = to /\ call' = next
  BY <1>1, <1>3, <1>6, StepKeeps DEF TypeOK
<1>8. /\ call'.raw = call.raw /\ call'.wh = wh /\ call'.todo = rest
      /\ call'.unresolved = call.unresolved /\ call'.abbr = call.abbr
  BY <1>1, <1>7, CallTyped, CallsAre
<1>9. /\ call.wh[s] = Asked(call.raw)[s] /\ Asked(call.raw)[s] \notin seen.always
      /\ seen.always \subseteq warehouses
  BY <1>1, <1>2 DEF PhaseInv, RunningInv
<1>10. x # Asked(call.raw)[s] =>
         /\ Matches(x, Asked(call.raw)[s], call.abbr)
         /\ {w \in seen.always : Matches(w, Asked(call.raw)[s], call.abbr)} \subseteq {x}
  BY <1>4, <1>9 DEF Candidates
<1>11. SoundNaming(seen.always, call.raw, call.abbr, wh)
  <2> SUFFICES ASSUME NEW t \in DOMAIN wh, wh[t] # Asked(call.raw)[t]
               PROVE  /\ Asked(call.raw)[t] \notin seen.always
                      /\ Matches(wh[t], Asked(call.raw)[t], call.abbr)
                      /\ {w \in seen.always : Matches(w, Asked(call.raw)[t], call.abbr)}
                           \subseteq {wh[t]}
    BY DEF SoundNaming
  <2> HIDE DEF s, x
  <2>1. CASE t = s
    <3>1. wh[t] = x
      BY <2>1, <1>2
    <3>2. QED
      BY <2>1, <3>1, <1>9, <1>10
  <2>2. CASE t # s
    <3>1. wh[t] = call.wh[t] /\ t \in DOMAIN call.wh
      BY <2>2
    <3>2. SoundNaming(seen.always, call.raw, call.abbr, call.wh)
      BY <1>1 DEF PhaseInv
    <3>3. QED
      BY <3>1, <3>2 DEF SoundNaming
  <2>3. QED
    BY <2>1, <2>2
<1>12. \A t \in rest : wh[t] = Asked(call.raw)[t]
  <2> SUFFICES ASSUME NEW t \in rest
               PROVE  wh[t] = Asked(call.raw)[t]
    OBVIOUS
  <2>1. t \in call.todo /\ t # s
    OBVIOUS
  <2>2. wh[t] = call.wh[t]
    BY <2>1, <1>1 DEF PhaseInv
  <2>3. QED
    BY <2>1, <2>2, <1>1 DEF PhaseInv
<1>13. /\ UNCHANGED seen /\ DOMAIN wh = Slots(call.raw) /\ call.unresolved \subseteq DOMAIN wh
       /\ LinksOf(call.raw) \subseteq Links /\ FieldsOf(call.raw) \subseteq seen.fields
       /\ rest \subseteq call.unresolved
       /\ \A t \in call.unresolved : Asked(call.raw)[t] \notin seen.always
  BY <1>1, <1>5 DEF PhaseInv
<1>14. pc' \in {"alias", "current"} /\ (pc' = "alias" => rest # {})
  BY <1>7
<1> HIDE DEF s, rest, wh, x, next, to
<1>15. PhaseInv'
  BY <1>8, <1>9, <1>11, <1>12, <1>13, <1>14 DEF PhaseInv
<1>16. QED
  BY <1>7, <1>15

LEMMA CurrentKeeps ==
  ASSUME TypeOK, RunningInv, PhaseInv, ActionsInv, Current
  PROVE  TypeOK' /\ RunningInv' /\ PhaseInv' /\ ActionsInv'
<1>1. pc = "current" /\ UNCHANGED <<world, record, spoiled, actions, over, calls, changes, faults, seen>>
  BY DEF Current, Quiet
<1>2. CASE Answers("conflict")
  BY <1>1, <1>2, AnswerKeeps DEF TypeOK
<1>3. ASSUME NEW m \in Nat, Step("links", [call EXCEPT !.unseen = Unseen(call), !.modified = m]),
             call.raw.op = "update" => m = call.expected /\ m \in seen.drafts
      PROVE  TypeOK' /\ RunningInv' /\ PhaseInv' /\ ActionsInv'
  <2> DEFINE next == [call EXCEPT !.unseen = Unseen(call), !.modified = m]
  <2>1. Unseen(call) \subseteq Links \cup Names
    BY <1>1, CallTyped DEF Unseen, PhaseInv
  <2>2. next \in Calls
    BY <1>1, <2>1, CallTyped, CallsAre
  <2>3. TypeOK' /\ RunningInv' /\ ActionsInv' /\ pc' = "links" /\ call' = next
    BY <1>1, <1>3, <2>2, StepKeeps DEF TypeOK, PCs
  <2>4. /\ call'.raw = call.raw /\ call'.wh = call.wh /\ call'.expected = call.expected
        /\ call'.unresolved = call.unresolved /\ call'.modified = m
        /\ call'.unseen = Unseen(call) /\ call'.abbr = call.abbr
    BY <1>1, <2>3, CallTyped, CallsAre
  <2>5. Unseen(call') = Unseen(call)
    BY <2>4 DEF Unseen
  <2>6. UNCHANGED seen
    BY <1>1
  <2> HIDE DEF next
  <2>7. PhaseInv'
    BY <1>1, <1>3, <2>3, <2>4, <2>5, <2>6 DEF PhaseInv
  <2>8. QED
    BY <2>3, <2>7
<1>4. CASE call.raw.op = "create" /\ Step("links", [call EXCEPT !.unseen = Unseen(call)])
  <2>1. call.modified \in Nat
    BY <1>1, CallTyped
  <2>2. [call EXCEPT !.unseen = Unseen(call)] =
          [call EXCEPT !.unseen = Unseen(call), !.modified = call.modified]
    BY <1>1, CallTyped, CallsAre
  <2>3. QED
    BY <1>3, <1>4, <2>1, <2>2
<1>5. CASE /\ draft.docstatus = 0 /\ draft.modified = call.expected
           /\ Step("links", [call EXCEPT !.unseen = Unseen(call), !.modified = draft.modified])
  BY <1>1, <1>3, <1>5 DEF RunningInv, TypeOK
<1>6. QED
  BY <1>2, <1>4, <1>5 DEF Current

LEMMA CheckLinksKeeps ==
  ASSUME TypeOK, RunningInv, PhaseInv, ActionsInv, CheckLinks
  PROVE  TypeOK' /\ RunningInv' /\ PhaseInv' /\ ActionsInv'
<1>1. pc = "links" /\ UNCHANGED <<world, record, spoiled, actions, over, calls, changes, faults, seen>>
  BY DEF CheckLinks, Quiet
<1>2. PICK chunk \in SUBSET call.unseen :
        LET rest == call.unseen \ chunk IN
        IF ~(chunk \subseteq visible \cup warehouses) THEN Answers("invalid")
        ELSE Step(IF rest = {} THEN "creating" ELSE "links", [call EXCEPT !.unseen = rest])
  BY DEF CheckLinks
<1> DEFINE rest == call.unseen \ chunk
           to == IF rest = {} THEN "creating" ELSE "links"
           next == [call EXCEPT !.unseen = rest]
<1>3. CASE Answers("invalid")
  BY <1>1, <1>3, AnswerKeeps DEF TypeOK
<1>4. CASE chunk \subseteq visible \cup warehouses /\ Step(to, next)
  <2>1. next \in Calls /\ to \in PCs
    BY <1>1, CallTyped, CallsAre DEF PCs
  <2>2. TypeOK' /\ RunningInv' /\ ActionsInv' /\ pc' = to /\ call' = next
    BY <1>1, <1>4, <2>1, StepKeeps DEF TypeOK
  <2>3. /\ call'.raw = call.raw /\ call'.wh = call.wh /\ call'.expected = call.expected
        /\ call'.unresolved = call.unresolved /\ call'.modified = call.modified
        /\ call'.unseen = rest /\ call'.abbr = call.abbr
    BY <1>1, <2>2, CallTyped, CallsAre
  <2>4. Unseen(call') = Unseen(call)
    BY <2>3 DEF Unseen
  <2>5. chunk \subseteq seen.names
    BY <1>1, <1>4 DEF RunningInv
  <2>6. Unseen(call) \subseteq rest \cup seen.names
    BY <1>1, <2>5 DEF PhaseInv
  <2>7. UNCHANGED seen /\ pc' \in {"links", "creating"} /\ (pc' = "creating" => rest = {})
    BY <1>1, <2>2
  <2> HIDE DEF rest, to, next
  <2>8. PhaseInv'
    BY <1>1, <2>3, <2>4, <2>6, <2>7 DEF PhaseInv
  <2>9. QED
    BY <2>2, <2>8
<1>5. QED
  BY <1>2, <1>3, <1>4

LEMMA CreateKeeps ==
  ASSUME TypeOK, RunningInv, PhaseInv, ActionsInv, Create
  PROVE  TypeOK' /\ RunningInv' /\ PhaseInv' /\ ActionsInv'
<1>1. /\ pc = "creating"
      /\ UNCHANGED <<world, record, spoiled, actions, over, calls, changes, faults, seen>>
  BY DEF Create, Quiet
<1>2. CASE spoiled
  <2>1. Answers("unavailable")
    BY <1>2 DEF Create
  <2>2. QED
    BY <1>1, <2>1, AnswerKeeps DEF TypeOK
<1>3. CASE ~spoiled
  <2>1. Step("committing", call)
    BY <1>3 DEF Create
  <2>2. TypeOK' /\ RunningInv' /\ ActionsInv' /\ pc' = "committing" /\ call' = call
    BY <1>1, <1>3, <2>1, CallTyped, StepKeeps DEF TypeOK, PCs
  <2>3. PhaseInv'
    BY <1>1, <2>2 DEF PhaseInv
  <2>4. QED
    BY <2>2, <2>3
<1>4. QED
  BY <1>2, <1>3

\* What the commit writes is true.
LEMMA ActionIsTrue ==
  ASSUME TypeOK, RunningInv, PhaseInv, ActionsInv, pc = "committing", actions' = {Action(call)}
  PROVE  /\ PreviewIsTrue' /\ AliasIsSound'
         /\ \A a \in actions' : DOMAIN a.wh = DOMAIN a.asked
<1> DEFINE a == Action(call)
<1>1. /\ a.op = call.raw.op /\ a.fields = FieldsOf(call.raw) /\ a.links = LinksOf(call.raw)
      /\ a.asked = Asked(call.raw) /\ a.wh = call.wh /\ a.expected = call.expected
      /\ a.modified = call.modified /\ a.seen = seen /\ a.abbr = call.abbr
  BY DEF Action
<1>2. /\ FieldsOf(call.raw) \subseteq seen.fields /\ Unseen(call) \subseteq seen.names
      /\ call.raw.op = "update" => call.modified = call.expected /\ call.modified \in seen.drafts
      /\ SoundNaming(seen.always, call.raw, call.abbr, call.wh) /\ DOMAIN call.wh = Slots(call.raw)
  BY DEF PhaseInv
<1>3. DOMAIN a.wh = DOMAIN a.asked
  BY <1>1, <1>2 DEF Asked
<1>4. /\ a.fields \subseteq a.seen.fields
      /\ a.links \cup ({a.wh[s] : s \in DOMAIN a.wh} \ {Absent}) \subseteq a.seen.names
      /\ a.op = "update" => a.modified = a.expected /\ a.modified \in a.seen.drafts
  BY <1>1, <1>2 DEF Unseen
<1>5. \A s \in DOMAIN a.wh : a.wh[s] # a.asked[s] =>
        /\ a.asked[s] \notin a.seen.always
        /\ Matches(a.wh[s], a.asked[s], a.abbr)
        /\ {w \in a.seen.always : Matches(w, a.asked[s], a.abbr)} \subseteq {a.wh[s]}
  BY <1>1, <1>2 DEF SoundNaming
<1> HIDE DEF a
<1>6. actions' = {a}
  BY DEF a
<1>7. QED
  BY <1>3, <1>4, <1>5, <1>6 DEF PreviewIsTrue, AliasIsSound

LEMMA CommitKeeps ==
  ASSUME TypeOK, RunningInv, PhaseInv, ActionsInv, Commit
  PROVE  TypeOK' /\ RunningInv' /\ PhaseInv' /\ ActionsInv'
<1>1. /\ pc = "committing" /\ pc' = "idle" /\ call' = NoCall /\ answer' = "ok"
      /\ record' = TRUE /\ UNCHANGED <<world, spoiled, over, calls, changes, faults, seen>>
  BY DEF Commit, Answers
<1>2. actions' = {Action(call)}
  BY <1>1 DEF Commit, RunningInv
<1>3. /\ PreviewIsTrue' /\ AliasIsSound'
      /\ \A a \in actions' : DOMAIN a.wh = DOMAIN a.asked
  BY <1>1, <1>2, ActionIsTrue
<1>4. ActionsInv'
  BY <1>1, <1>2, <1>3 DEF ActionsInv
<1>5. RunningInv' /\ PhaseInv'
  BY <1>1 DEF RunningInv, PhaseInv
<1>6. TypeOK'
  BY <1>1, <1>3 DEF TypeOK, PCs, world
<1>7. QED
  BY <1>4, <1>5, <1>6

LEMMA FailsKeeps ==
  ASSUME TypeOK, RunningInv, PhaseInv, ActionsInv, Fails
  PROVE  TypeOK' /\ RunningInv' /\ PhaseInv' /\ ActionsInv'
<1>1. /\ pc # "idle" /\ Answers("unavailable")
      /\ UNCHANGED <<world, record, spoiled, actions, over, calls, changes, seen>>
  BY DEF Fails
<1>2. faults' \in 0..MaxFaults
  BY ActionProposalAssumption DEF Fails, TypeOK
<1>3. QED
  BY <1>1, <1>2, AnswerKeeps

\* What a commit that does not return leaves is nothing, or the Action it was to write.
LEMMA MayHaveCommittedKeeps ==
  ASSUME TypeOK, RunningInv, PhaseInv, ActionsInv, pc # "idle" \/ actions' = actions,
         MayHaveCommitted
  PROVE  /\ actions' = {} \/ \E a : actions' = {a}
         /\ PreviewIsTrue' /\ AliasIsSound'
         /\ \A a \in actions' : DOMAIN a.wh = DOMAIN a.asked
<1>1. CASE actions' = actions
  BY <1>1 DEF ActionsInv, PreviewIsTrue, AliasIsSound, TypeOK
<1>2. CASE pc = "committing" /\ actions' = actions \cup {Action(call)}
  <2>1. actions' = {Action(call)}
    BY <1>2 DEF RunningInv
  <2>2. QED
    BY <1>2, <2>1, ActionIsTrue
<1>3. QED
  BY <1>1, <1>2 DEF MayHaveCommitted

LEMMA DatabaseFailsKeeps ==
  ASSUME TypeOK, RunningInv, PhaseInv, ActionsInv, DatabaseFails
  PROVE  TypeOK' /\ RunningInv' /\ PhaseInv' /\ ActionsInv'
<1>1. /\ pc # "idle" /\ pc' = "idle" /\ call' = NoCall /\ answer' = "unavailable"
      /\ spoiled' = TRUE /\ MayHaveCommitted
      /\ UNCHANGED <<world, record, calls, changes, seen>>
  BY DEF DatabaseFails, Answers
<1>2. over' \in BOOLEAN /\ faults' \in 0..MaxFaults
  <2>1. over' \in BOOLEAN
    BY Zenon DEF DatabaseFails
  <2>2. faults' \in 0..MaxFaults
    BY ActionProposalAssumption DEF DatabaseFails, TypeOK
  <2>3. QED
    BY <2>1, <2>2
<1>3. /\ actions' = {} \/ \E a : actions' = {a}
      /\ PreviewIsTrue' /\ AliasIsSound'
      /\ \A a \in actions' : DOMAIN a.wh = DOMAIN a.asked
  BY <1>1, MayHaveCommittedKeeps
<1>4. RunningInv' /\ PhaseInv'
  BY <1>1 DEF RunningInv, PhaseInv
<1>5. ActionsInv'
  BY <1>1, <1>3 DEF ActionsInv
<1>6. TypeOK'
  BY <1>1, <1>2, <1>3 DEF TypeOK, PCs, world
<1>7. QED
  BY <1>4, <1>5, <1>6

LEMMA TurnOverKeeps ==
  ASSUME TypeOK, RunningInv, PhaseInv, ActionsInv, TurnOver
  PROVE  TypeOK' /\ RunningInv' /\ PhaseInv' /\ ActionsInv'
<1>1. /\ ~over /\ over' = TRUE /\ pc' = "idle" /\ call' = NoCall /\ MayHaveCommitted
      /\ UNCHANGED <<world, record, spoiled, answer, calls, changes, faults, seen>>
  BY DEF TurnOver
<1>2. RunningInv' /\ PhaseInv'
  BY <1>1 DEF RunningInv, PhaseInv
<1>3. pc # "idle" \/ actions' = actions
  BY <1>1 DEF MayHaveCommitted
<1>4. /\ actions' = {} \/ \E a : actions' = {a}
      /\ PreviewIsTrue' /\ AliasIsSound'
      /\ \A a \in actions' : DOMAIN a.wh = DOMAIN a.asked
  BY <1>1, <1>3, MayHaveCommittedKeeps
<1>5. answer = "ok" => actions' # {}
  BY <1>1 DEF ActionsInv, MayHaveCommitted
<1>6. ActionsInv'
  BY <1>1, <1>4, <1>5 DEF ActionsInv
<1>7. TypeOK'
  BY <1>1, <1>4 DEF TypeOK, PCs, world
<1>8. QED
  BY <1>2, <1>6, <1>7

\* What others do only adds to what the call has seen, and only takes from what was
\* there throughout it.
LEMMA ChangeKeeps ==
  ASSUME TypeOK, RunningInv, PhaseInv, ActionsInv,
         NEW f \in SUBSET Fields, NEW w \in SUBSET Names, NEW v \in SUBSET Links,
         NEW d \in [modified : Nat, docstatus : {0, 1}], Change(f, w, v, d)
  PROVE  TypeOK' /\ RunningInv' /\ PhaseInv' /\ ActionsInv'
<1>1. /\ changes' \in 0..MaxChanges
      /\ writable' = f /\ warehouses' = w /\ visible' = v /\ draft' = d
      /\ seen' = Watch(f, w, v, d)
      /\ UNCHANGED <<pc, call, record, spoiled, actions, answer, over, calls, faults>>
  BY ActionProposalAssumption DEF Change, TypeOK
<1>2. TypeOK'
  BY <1>1 DEF TypeOK
<1>3. ActionsInv'
  <2>1. PreviewIsTrue' /\ AliasIsSound'
    BY <1>1 DEF ActionsInv, PreviewIsTrue, AliasIsSound
  <2>2. QED
    BY <1>1, <2>1 DEF ActionsInv
<1>4. CASE pc = "idle"
  BY <1>1, <1>2, <1>3, <1>4 DEF RunningInv, PhaseInv
<1>5. CASE pc # "idle"
  <2>1. /\ seen'.fields = seen.fields \cup f /\ seen'.names = (seen.names \cup v) \cup w
        /\ seen'.always = seen.always \cap w
        /\ seen'.drafts = seen.drafts \cup (IF d.docstatus = 0 THEN {d.modified} ELSE {})
    BY <1>1, <1>5 DEF Watch
  <2>2. RunningInv'
    BY <1>1, <1>5, <2>1 DEF RunningInv
  <2>3. /\ seen.fields \subseteq seen'.fields /\ seen.names \subseteq seen'.names
        /\ seen'.always \subseteq seen.always /\ seen.drafts \subseteq seen'.drafts
    BY <2>1
  <2>4. SoundNaming(seen'.always, call.raw, call.abbr, call.wh)
    <3>1. SoundNaming(seen.always, call.raw, call.abbr, call.wh)
      BY <1>5 DEF PhaseInv
    <3>2. QED
      BY <2>3, <3>1 DEF SoundNaming
  <2>5. PhaseInv'
    BY <1>1, <1>5, <2>3, <2>4 DEF PhaseInv, Unseen
  <2>6. QED
    BY <1>2, <1>3, <2>2, <2>5
<1>6. QED
  BY <1>4, <1>5

LEMMA SomeoneChangesKeeps ==
  ASSUME TypeOK, RunningInv, PhaseInv, ActionsInv, SomeoneChanges
  PROVE  TypeOK' /\ RunningInv' /\ PhaseInv' /\ ActionsInv'
<1>1. /\ writable \in SUBSET Fields /\ warehouses \in SUBSET Names /\ visible \in SUBSET Links
      /\ draft \in [modified : Nat, docstatus : {0, 1}]
  BY DEF TypeOK
<1>2. /\ [draft EXCEPT !.modified = @ + 1] \in [modified : Nat, docstatus : {0, 1}]
      /\ [modified |-> draft.modified + 1, docstatus |-> 1]
           \in [modified : Nat, docstatus : {0, 1}]
  BY <1>1
<1>3. PICK f \in SUBSET Fields, w \in SUBSET Names, v \in SUBSET Links,
           d \in [modified : Nat, docstatus : {0, 1}] : Change(f, w, v, d)
  <2>1. ASSUME NEW g \in Revocable, Change(writable \ {g}, warehouses, visible, draft)
        PROVE  \E f \in SUBSET Fields, w \in SUBSET Names, v \in SUBSET Links,
                  d \in [modified : Nat, docstatus : {0, 1}] : Change(f, w, v, d)
    <3>1. writable \ {g} \in SUBSET Fields
      BY <1>1
    <3>2. QED
      BY <1>1, <2>1, <3>1
  <2>2. ASSUME NEW n \in Names,
               \/ Change(writable, warehouses \ {n}, visible, draft)
               \/ Change(writable, warehouses \cup {n}, visible, draft)
        PROVE  \E f \in SUBSET Fields, w \in SUBSET Names, v \in SUBSET Links,
                  d \in [modified : Nat, docstatus : {0, 1}] : Change(f, w, v, d)
    <3>1. warehouses \ {n} \in SUBSET Names /\ warehouses \cup {n} \in SUBSET Names
      BY <1>1
    <3>2. QED
      BY <1>1, <2>2, <3>1
  <2>3. ASSUME NEW n \in visible, Change(writable, warehouses, visible \ {n}, draft)
        PROVE  \E f \in SUBSET Fields, w \in SUBSET Names, v \in SUBSET Links,
                  d \in [modified : Nat, docstatus : {0, 1}] : Change(f, w, v, d)
    <3>1. visible \ {n} \in SUBSET Links
      BY <1>1
    <3>2. QED
      BY <1>1, <2>3, <3>1
  <2>4. QED
    BY <1>1, <1>2, <2>1, <2>2, <2>3 DEF SomeoneChanges
<1>4. QED
  BY <1>3, ChangeKeeps

-----------------------------------------------------------------------------
(* The theorems.                                                            *)

LEMMA ProposalInit ==
  ASSUME Init
  PROVE  TypeOK /\ RunningInv /\ PhaseInv /\ ActionsInv
<1>1. TypeOK
  <2>1. draft \in [modified : Nat, docstatus : {0, 1}]
    BY DEF Init
  <2>2. calls \in 0..MaxCalls /\ changes \in 0..MaxChanges /\ faults \in 0..MaxFaults
    BY ActionProposalAssumption DEF Init
  <2>3. record \in BOOLEAN /\ spoiled \in BOOLEAN /\ over \in BOOLEAN
    BY Zenon DEF Init
  <2>4. QED
    BY <2>1, <2>2, <2>3 DEF Init, TypeOK, PCs
<1>2. RunningInv /\ PhaseInv
  BY DEF Init, RunningInv, PhaseInv
<1>3. ActionsInv
  BY DEF Init, ActionsInv, PreviewIsTrue, AliasIsSound
<1>4. QED
  BY <1>1, <1>2, <1>3

LEMMA ProposalStep ==
  ASSUME TypeOK, RunningInv, PhaseInv, ActionsInv, [Next]_vars
  PROVE  TypeOK' /\ RunningInv' /\ PhaseInv' /\ ActionsInv'
<1>1. ASSUME NEW raw \in Proposals, Call(raw)
      PROVE  TypeOK' /\ RunningInv' /\ PhaseInv' /\ ActionsInv'
  BY <1>1, CallKeeps
<1>2. CASE Schema
  BY <1>2, SchemaKeeps
<1>3. CASE Exact
  BY <1>3, ExactKeeps
<1>4. CASE Context \/ Company
  BY <1>4, ContextKeeps
<1>5. CASE Alias
  BY <1>5, AliasKeeps
<1>6. CASE Current
  BY <1>6, CurrentKeeps
<1>7. CASE CheckLinks
  BY <1>7, CheckLinksKeeps
<1>8. CASE Create
  BY <1>8, CreateKeeps
<1>9. CASE Commit
  BY <1>9, CommitKeeps
<1>10. CASE Fails
  BY <1>10, FailsKeeps
<1>11. CASE TurnOver \/ DatabaseFails
  BY <1>11, TurnOverKeeps, DatabaseFailsKeeps
<1>12. CASE SomeoneChanges
  BY <1>12, SomeoneChangesKeeps
<1>13. CASE UNCHANGED vars
  <2>1. /\ UNCHANGED <<writable, warehouses, visible, draft, pc, call, record, spoiled, actions>>
        /\ UNCHANGED <<answer, over, calls, changes, faults, seen>>
    BY <1>13 DEF vars, world
  <2>2. TypeOK'
    BY <2>1 DEF TypeOK
  <2>3. RunningInv' /\ PhaseInv'
    BY <2>1 DEF RunningInv, PhaseInv, SoundNaming, Unseen
  <2>4. ActionsInv'
    BY <2>1 DEF ActionsInv, PreviewIsTrue, AliasIsSound
  <2>5. QED
    BY <2>2, <2>3, <2>4
<1>14. QED
  BY <1>1, <1>2, <1>3, <1>4, <1>5, <1>6, <1>7, <1>8, <1>9, <1>10, <1>11, <1>12, <1>13
     DEF Next, Tool

LEMMA ProposalInvariant == Spec => [](TypeOK /\ RunningInv /\ PhaseInv /\ ActionsInv)
<1>1. Init => TypeOK /\ RunningInv /\ PhaseInv /\ ActionsInv
  BY ProposalInit
<1>2. (TypeOK /\ RunningInv /\ PhaseInv /\ ActionsInv) /\ [Next]_vars
        => (TypeOK /\ RunningInv /\ PhaseInv /\ ActionsInv)'
  BY ProposalStep
<1>3. QED
  BY <1>1, <1>2, PTL DEF Spec

\* Every state of a proposing turn is of its type, for any arguments, any limits on
\* rows and chunks, and any changes by other users.
THEOREM ProposalTypeCorrect == Spec => []TypeOK
BY ProposalInvariant, PTL

\* A chat turn persists at most one Action (ActionProposalTool.call refuses a second
\* one, and a session whose commit was not answered takes none), an "ok" is committed,
\* and a turn that goes on in a sound session has the record of its Action.
THEOREM ProposalOneProposal == Spec => []OneProposal
<1>1. ActionsInv => OneProposal
  <2> SUFFICES ASSUME ActionsInv
               PROVE  OneProposal
    OBVIOUS
  <2>1. CASE actions = {}
    <3>1. Cardinality(actions) = 0
      BY <2>1, FS_EmptySet
    <3>2. QED
      BY <3>1 DEF ActionsInv, OneProposal
  <2>2. ASSUME NEW a, actions = {a}
        PROVE  OneProposal
    <3>1. Cardinality(actions) = 1
      BY <2>2, FS_Singleton
    <3>2. QED
      BY <3>1 DEF ActionsInv, OneProposal
  <2>3. QED
    BY <2>1, <2>2 DEF ActionsInv
<1>2. QED
  BY <1>1, ProposalInvariant, PTL

\* Whatever an Action says of ERPNext was true during the call that proposed it
\* (_validate_schema, _validate_links, _validate_current_document), although others
\* change fields, documents and the draft between those steps.
THEOREM ProposalPreviewIsTrue == Spec => []PreviewIsTrue
<1>1. ActionsInv => PreviewIsTrue
  BY DEF ActionsInv
<1>2. QED
  BY <1>1, ProposalInvariant, PTL

\* The warehouse alias resolution (_resolve_warehouse_alias) never replaces a warehouse
\* that exists throughout the call; what replaces a label matches it under the
\* abbreviation tried, and no second warehouse that was there throughout does.
THEOREM ProposalAliasIsSound == Spec => []AliasIsSound
<1>1. ActionsInv => AliasIsSound
  BY DEF ActionsInv
<1>2. QED
  BY <1>1, ProposalInvariant, PTL

-----------------------------------------------------------------------------
(* The tool keeps what the turn relies on.                                  *)

LEMMA ContractInit == Init => Contract!Init
BY FS_EmptySet, Zenon DEF Init, Contract!Init

\* A call starts only while the tool holds no Action.
LEMMA ContractCall ==
  ASSUME NEW raw \in Proposals, Call(raw)
  PROVE  [Contract!Next]_(Contract!toolVars)
<1>1. pc = "idle" /\ ~over /\ UNCHANGED <<record, actions, over>>
  BY DEF Call
<1>2. CASE pc' = "idle"
  BY <1>1, <1>2 DEF Contract!toolVars
<1>3. CASE pc' # "idle"
  <2>1. ~record
    BY <1>3 DEF Call, Answers
  <2>2. Contract!Start
    BY <1>1, <1>3, <2>1 DEF Contract!Start
  <2>3. QED
    BY <2>2 DEF Contract!Next
<1>4. QED
  BY <1>2, <1>3

\* What a running call does but to end the turn.
LEMMA ContractTool ==
  ASSUME RunningInv, Tool
  PROVE  [Contract!Next]_(Contract!toolVars)
<1>1. CASE Commit
  <2>1. /\ pc = "committing" /\ pc' = "idle" /\ record' = TRUE /\ UNCHANGED over
        /\ actions' = actions \cup {Action(call)}
    BY <1>1 DEF Commit, Answers
  <2>2. actions = {} /\ actions' = {Action(call)}
    BY <2>1 DEF RunningInv
  <2>3. Cardinality(actions) = 0 /\ Cardinality(actions') = 1
    BY <2>2, FS_EmptySet, FS_Singleton
  <2>4. Contract!Commit
    BY <2>1, <2>3 DEF Contract!Commit
  <2>5. QED
    BY <2>4 DEF Contract!Next
<1>2. CASE ~Commit
  <2>1. pc # "idle" /\ UNCHANGED <<record, actions, over>>
    BY <1>2 DEF Tool, Schema, Exact, Context, Company, Alias, Current, CheckLinks, Create,
       Quiet
  <2>2. CASE pc' = "idle"
    <3>1. Contract!Refuse
      BY <2>1, <2>2 DEF Contract!Refuse
    <3>2. QED
      BY <3>1 DEF Contract!Next
  <2>3. CASE pc' # "idle"
    BY <2>1, <2>3 DEF Contract!toolVars
  <2>4. QED
    BY <2>2, <2>3
<1>3. QED
  BY <1>1, <1>2

\* A failing call ends alone ...
LEMMA ContractFails ==
  ASSUME RunningInv, Fails
  PROVE  [Contract!Next]_(Contract!toolVars)
<1>1. pc # "idle" /\ pc' = "idle" /\ UNCHANGED <<record, actions, over>>
  BY DEF Fails, Answers
<1>2. Contract!Refuse
  BY <1>1 DEF Contract!Refuse
<1>3. QED
  BY <1>2 DEF Contract!Next

\* ... or, in the database, with its turn, and perhaps after its commit.
LEMMA ContractDatabaseFails ==
  ASSUME TypeOK, RunningInv, ActionsInv, DatabaseFails
  PROVE  [Contract!Next]_(Contract!toolVars)
<1>1. /\ pc # "idle" /\ ~over /\ pc' = "idle" /\ over' \in BOOLEAN /\ ~spoiled
      /\ UNCHANGED record
  BY Zenon DEF DatabaseFails, Answers, RunningInv
<1>2. actions = {}
  BY <1>1 DEF RunningInv
<1>3. \/ actions' = actions
      \/ Cardinality(actions) = 0 /\ Cardinality(actions') = 1
  <2>1. actions' = actions \/ actions' = {Action(call)}
    BY <1>2 DEF DatabaseFails, MayHaveCommitted
  <2>2. QED
    BY <1>2, <2>1, FS_EmptySet, FS_Singleton
<1>4. CASE over'
  <2>1. Contract!End
    BY <1>1, <1>3, <1>4, Zenon DEF Contract!End
  <2>2. QED
    BY <2>1 DEF Contract!Next
<1>5. CASE ~over'
  <2>1. over' = over
    <3>1. over \in BOOLEAN
      BY Zenon DEF TypeOK
    <3>2. QED
      BY <1>1, <1>5, <3>1, Zenon
  <2>2. Contract!Refuse \/ Contract!Lose
    BY <1>1, <1>3, <2>1, Zenon DEF Contract!Refuse, Contract!Lose
  <2>3. QED
    BY <2>2 DEF Contract!Next
<1>6. QED
  BY <1>4, <1>5

LEMMA ContractTurnOver ==
  ASSUME RunningInv, TurnOver
  PROVE  [Contract!Next]_(Contract!toolVars)
<1>1. ~over /\ over' = TRUE /\ pc' = "idle" /\ MayHaveCommitted /\ UNCHANGED record
  BY DEF TurnOver
<1>2. CASE actions' = actions
  <2>1. Contract!End
    BY <1>1, <1>2, Zenon DEF Contract!End
  <2>2. QED
    BY <2>1 DEF Contract!Next
<1>3. CASE pc = "committing" /\ actions' = actions \cup {Action(call)}
  <2>1. actions = {} /\ actions' = {Action(call)}
    BY <1>3 DEF RunningInv
  <2>2. Cardinality(actions) = 0 /\ Cardinality(actions') = 1
    BY <2>1, FS_EmptySet, FS_Singleton
  <2>3. Contract!End
    BY <1>1, <1>3, <2>2 DEF Contract!End
  <2>4. QED
    BY <2>3 DEF Contract!Next
<1>4. QED
  BY <1>1, <1>2, <1>3 DEF MayHaveCommitted

\* For any arguments, any changes by other users and any failures the tool keeps its
\* contract with the turn (ActionProposalTool.call, ActionProposalService.propose).
THEOREM ProposalKeepsContract == Spec => KeepsToolContract
<1>1. TypeOK /\ RunningInv /\ ActionsInv /\ [Next]_vars => [Contract!Next]_(Contract!toolVars)
  <2> SUFFICES ASSUME TypeOK, RunningInv, ActionsInv, [Next]_vars
               PROVE  [Contract!Next]_(Contract!toolVars)
    OBVIOUS
  <2>1. CASE SomeoneChanges \/ UNCHANGED vars
    <3>1. UNCHANGED <<pc, record, actions, over>>
      BY <2>1 DEF SomeoneChanges, Change, vars
    <3>2. QED
      BY <3>1 DEF Contract!toolVars
  <2>2. QED
    BY <2>1, ContractCall, ContractTool, ContractFails, ContractDatabaseFails, ContractTurnOver
       DEF Next
<1>2. QED
  BY <1>1, ContractInit, ProposalInvariant, PTL DEF Spec, KeepsToolContract, Contract!Spec
=============================================================================
