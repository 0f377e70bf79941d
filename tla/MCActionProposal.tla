-------------------------- MODULE MCActionProposal --------------------------
(* A small instance of ActionProposal for TLC. *)
EXTENDS ActionProposal

CONSTANTS stores, a, ab, item, customer

\* The text of the abbreviation a begins that of ab.
OneLabel == {stores}
TwoAbbrs == {a, ab}
ALongerAbbr == {<<a, ab>>}
OneField == {"company"}
SomeLinks == {item, customer}

Bare == [label |-> stores, abbr |-> NoAbbr]
Full == [label |-> stores, abbr |-> ab]

NoOthers == [f \in CommonItemFields \cup DateFields \cup {"rate", "docstatus"} |-> Absent]

OneRow(name, alias) ==
  [item |-> item, warehouse |-> name, delivery_warehouse |-> alias,
   qty |-> Absent, quantity |-> "numeral", others |-> [NoOthers EXCEPT !["uom"] = "text"]]

\* A payload of these fields, with the values they should have.
Payload(fields) ==
  [f \in Fields |-> IF f \notin fields THEN Absent ELSE IF f \in DateFields THEN "date"
                    ELSE IF f = "items" THEN "rows" ELSE "text"]

A(op, shape, doctype, fields, set, rows) ==
  [op |-> op, shape |-> shape, keyed |-> FALSE, doctype |-> doctype,
   payload |-> Payload(fields), links |-> {customer}, set_warehouse |-> set, rows |-> rows]

Needed(doctype) == DraftDefinitions[doctype].required

\* A new document with a bare label and a full name, flat; an update of a draft's
\* warehouse, wrapped; one without a warehouse; one with a row too many, and one with
\* a value that no date is.
SomeProposals ==
  {A("create", "flat", "MaterialRequest", Needed("MaterialRequest") \cup {"set_warehouse"},
     Full, <<OneRow(Absent, Bare)>>),
   A("update", "wrapped", "SalesOrder", {"items"}, Absent, <<OneRow(Bare, Full)>>),
   A("update", "payload", "PurchaseOrder", {"company"}, Absent, <<>>),
   A("create", "payload", "SalesOrder", Needed("SalesOrder"), Absent,
     <<OneRow(Full, Absent), OneRow(Full, Absent)>>),
   [A("create", "payload", "SalesOrder", Needed("SalesOrder"), Absent,
      <<OneRow(Full, Absent)>>) EXCEPT !.payload["delivery_date"] = "text"]}
=============================================================================
