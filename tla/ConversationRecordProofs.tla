----------------------- MODULE ConversationRecordProofs -----------------------
(***************************************************************************)
(* Conversation implements ConversationRecord: every step of the turns, of *)
(* the owner and of the retention worker is a step of the record, or       *)
(* changes nothing that the record shows.                                  *)
(***************************************************************************)
EXTENDS ConversationProofs

\* A row that is not committed has not aged.
YoungInv == \A c \in Conversations : row[c] \in {"none", "born"} => ~aged[c] /\ ~old[c]

RecordInv == BaseInv /\ MemoryInv /\ YoungInv

-----------------------------------------------------------------------------
(* What the record shows of a step.                                         *)

LEMMA ShownIs ==
  /\ \A r \in {"none", "born"} : StateOf(r) = "absent"
  /\ StateOf("live") = "open"
  /\ StateOf("deleted") = "deleted"
  /\ StateOf("purged") = "gone"
BY DEF StateOf

\* Whose question waits depends on the turn alone.
LEMMA WaitingIs ==
  /\ Waiting \subseteq Turns \X Conversations
  /\ \A u \in Turns, d \in Conversations :
       <<u, d>> \in Waiting <=> turn[u].conv = d /\ turn[u].role = "assistant"
  /\ \A u \in Turns, d \in Conversations :
       <<u, d>> \in Waiting' <=> turn'[u].conv = d /\ turn'[u].role = "assistant"
BY DEF Waiting

\* A turn that keeps its conversation and its role waits as before ...
LEMMA RoleKept ==
  ASSUME TypeOK, NEW t \in Turns, NEW s \in TurnStates, Becomes(t, s),
         s.conv = turn[t].conv, s.role = turn[t].role
  PROVE  Waiting' = Waiting
<1>1. \A u \in Turns : turn'[u].conv = turn[u].conv /\ turn'[u].role = turn[u].role
  BY Moves
<1>2. QED
  BY <1>1 DEF Waiting

\* ... and one that is to ask next waits no more.
LEMMA RoleDropped ==
  ASSUME TypeOK, NEW t \in Turns, NEW s \in TurnStates, Becomes(t, s), s.role = "user"
  PROVE  Waiting' = Waiting \ {<<t, turn[t].conv>>}
<1>1. turn'[t] = s /\ \A u \in Turns : u # t => turn'[u] = turn[u]
  BY Moves
<1>2. ASSUME NEW u \in Turns, NEW d \in Conversations
      PROVE  <<u, d>> \in Waiting' <=> <<u, d>> \in Waiting \ {<<t, turn[t].conv>>}
  BY <1>1, WaitingIs
<1>3. /\ Waiting' \subseteq Turns \X Conversations
      /\ Waiting \ {<<t, turn[t].conv>>} \subseteq Turns \X Conversations
  BY DEF Waiting
<1>4. QED
  BY <1>2, <1>3

\* A step that ends at most a turn's waiting.
LEMMA QuietRecord ==
  ASSUME UNCHANGED <<Shown, messages, Covered, Due>>,
         NEW t \in Turns, NEW c \in Conversations,
         Waiting' = Waiting \/ Waiting' = Waiting \ {<<t, c>>}
  PROVE  [Record!Next]_(Record!recordVars)
<1>1. CASE Waiting' = Waiting
  BY <1>1 DEF Record!recordVars
<1>2. CASE Waiting' = Waiting \ {<<t, c>>}
  <2>1. Record!GiveUp(t, c)
    BY <1>2 DEF Record!GiveUp
  <2>2. QED
    BY <2>1 DEF Record!Next
<1>3. QED
  BY <1>1, <1>2

LEMMA RowsKept ==
  ASSUME UNCHANGED <<row, messages, summary, aged, old>>
  PROVE  UNCHANGED <<Shown, messages, Covered, Due>>
BY DEF Shown, Covered, Due, Expired

-----------------------------------------------------------------------------
(* The turns.                                                               *)

\* A quiet step keeps the turn's role, or makes it one that is to ask.
LEMMA QuietRole ==
  ASSUME TypeOK, NEW t \in Turns, NEW c \in Conversations,
         \/ Remember(t, c) \/ List(t, c) \/ Lead(t, c) \/ Plan(t, c) \/ Summarize(t, c)
         \/ SummaryFails(t, c) \/ Release(t, c) \/ CannotAppend(t, c) \/ Answer(t, c)
  PROVE  \E s \in TurnStates : /\ Becomes(t, s) /\ s.conv = c
                               /\ s.role = "user" \/ s.role = turn[t].role
<1>1. PICK s \in TurnStates : s.conv = c /\ Becomes(t, s)
  BY QuietSteps DEF Quietly
<1>2. turn'[t] = s
  BY <1>1, Moves
<1>3. turn[t] \in TurnStates /\ turn \in [Turns -> TurnStates]
  BY DEF TypeOK
<1>4. turn'[t].role = "user" \/ turn'[t].role = turn[t].role
  <2>1. ASSUME NEW p, Goto(t, p)
        PROVE  turn'[t].role = turn[t].role
    BY <1>3, <2>1 DEF Goto, Becomes, TurnStates
  <2>2. ASSUME NEW d, turn'[t] = Idle(d)
        PROVE  turn'[t].role = "user"
    BY <2>2 DEF Idle
  <2>3. CASE Remember(t, c)
    BY <1>3, <2>3 DEF Remember, Becomes, TurnStates
  <2>4. CASE List(t, c)
    <3>1. ASSUME NEW S, Becomes(t, [Idle(c) EXCEPT !.pc = "appending", !.mem = turn[t].mem,
                                      !.recent = S, !.spoiled = turn[t].spoiled])
          PROVE  turn'[t].role = "user"
      BY <1>3, <3>1 DEF Becomes, Idle
    <3>2. QED
      BY <2>1, <2>4, <3>1 DEF List
  <2>5. CASE Lead(t, c)
    <3>1. CASE Becomes(t, [turn[t] EXCEPT !.pc = "remembering", !.tried = TRUE,
                                          !.leader = TRUE])
      BY <1>3, <3>1 DEF Becomes, TurnStates
    <3>2. CASE Becomes(t, [turn[t] EXCEPT !.pc = "listing", !.tried = TRUE,
                                          !.loaded = NoMemory])
      BY <1>3, <3>2 DEF Becomes, TurnStates
    <3>3. QED
      BY <2>5, <3>1, <3>2 DEF Lead
  <2>6. CASE Plan(t, c)
    <3>1. ASSUME NEW K, NEW n,
                 Becomes(t, [turn[t] EXCEPT !.pc = "summarizing", !.cuts = K, !.done = n])
          PROVE  turn'[t].role = turn[t].role
      BY <1>3, <3>1 DEF Becomes, TurnStates
    <3>2. QED
      BY <2>1, <2>6, <3>1 DEF Plan
  <2>7. CASE Summarize(t, c)
    <3>1. ASSUME NEW b, Becomes(t, [turn[t] EXCEPT !.pc = "saving", !.batch = b])
          PROVE  turn'[t].role = turn[t].role
      BY <1>3, <3>1 DEF Becomes, TurnStates
    <3>2. QED
      BY <2>7, <3>1 DEF Summarize
  <2>8. CASE SummaryFails(t, c)
    <3>1. ASSUME NEW m, NEW b, Becomes(t, [turn[t] EXCEPT !.pc = "releasing", !.mem = m,
                                                         !.spoiled = b])
          PROVE  turn'[t].role = turn[t].role
      BY <1>3, <3>1 DEF Becomes, TurnStates
    <3>2. QED
      BY <2>8, <3>1 DEF SummaryFails
  <2>9. CASE Release(t, c)
    <3>1. CASE Becomes(t, [turn[t] EXCEPT !.pc = "listing", !.leader = FALSE,
                            !.loaded = NoMemory, !.cuts = {}, !.done = 0, !.batch = 0])
      BY <1>3, <3>1 DEF Becomes, TurnStates
    <3>2. CASE Leave(t)
      BY <1>3, <2>2, <3>2 DEF Leave, Becomes
    <3>3. QED
      BY <2>9, <3>1, <3>2 DEF Release
  <2>10. CASE CannotAppend(t, c) \/ Answer(t, c)
    <3>1. CASE Leave(t)
      BY <1>3, <2>2, <3>1 DEF Leave, Becomes
    <3>2. QED
      BY <2>1, <2>10, <3>1 DEF CannotAppend, Answer
  <2>11. QED
    BY <2>3, <2>4, <2>5, <2>6, <2>7, <2>8, <2>9, <2>10
<1>5. QED
  BY <1>1, <1>2, <1>4

LEMMA TakeNumberRole ==
  ASSUME TypeOK, NEW t \in Turns, NEW c \in Conversations, TakeNumber(t, c)
  PROVE  \E s \in TurnStates : Becomes(t, s) /\ s.conv = c /\ s.role = turn[t].role
<1> DEFINE s == [Idle(c) EXCEPT !.pc = "inserting", !.role = turn[t].role,
                                !.number = Len(messages[c]) + 1]
<1>1. Becomes(t, s)
  BY DEF TakeNumber
<1>2. s \in TurnStates
  <2>1. Idle(c) \in TurnStates /\ turn[t].role \in {"user", "assistant"}
    BY IdleTyped, TurnTyped
  <2>2. messages[c] \in Seq({"user", "assistant"})
    BY DEF TypeOK
  <2>3. Len(messages[c]) + 1 \in Nat
    BY <2>2
  <2>4. QED
    BY <2>1, <2>3, NextTurns DEF PCs
<1>3. s.conv = c /\ s.role = turn[t].role
  BY DEF Idle
<1>4. QED
  BY <1>1, <1>2, <1>3

LEMMA BeginRecord ==
  ASSUME RecordInv, NEW t \in Turns, NEW c \in Conversations, Begin(t, c)
  PROVE  [Record!Next]_(Record!recordVars)
<1>1. /\ UNCHANGED <<messages, summary, aged, old>>
      /\ \A d \in Conversations :
           row'[d] = row[d] \/ (row[d] = "none" /\ row'[d] = "born")
  BY DEF Begin, RecordInv, BaseInv, TypeOK
<1>2. UNCHANGED <<Shown, messages, Covered, Due>>
  BY <1>1, ShownIs DEF Shown, Covered, Due, Expired
<1> DEFINE s == [Idle(c) EXCEPT !.pc = "remembering", !.loaded = Stored(c)]
<1>3. s \in TurnStates /\ s.role = "user"
  <2>1. Idle(c) \in TurnStates /\ Stored(c) \in Memories
    BY IdleTyped, StoredTyped DEF RecordInv, BaseInv
  <2>2. QED
    BY <2>1 DEF TurnStates, PCs, Idle
<1>4. Becomes(t, s)
  BY DEF Begin
<1> HIDE DEF s
<1>5. Waiting' = Waiting \ {<<t, turn[t].conv>>} /\ turn[t].conv \in Conversations
  BY <1>3, <1>4, RoleDropped, TurnTyped DEF RecordInv, BaseInv
<1>6. QED
  BY <1>2, <1>5, QuietRecord

LEMMA SaveRecord ==
  ASSUME RecordInv, NEW t \in Turns, NEW c \in Conversations, Save(t, c)
  PROVE  [Record!Next]_(Record!recordVars)
<1>1. UNCHANGED <<row, messages, aged, old>> /\ turn[t].conv = c
  BY SaveIs DEF RecordInv, BaseInv, At
<1>2. Waiting' = Waiting
  <2>1. turn[t] \in TurnStates
    BY TurnTyped DEF RecordInv, BaseInv
  <2>2. turn'[t].role = turn[t].role /\ turn'[t].conv = turn[t].conv
    <3>1. ASSUME NEW p, NEW m, NEW n,
                 Becomes(t, [turn[t] EXCEPT !.pc = p, !.mem = m, !.loaded = m, !.done = n])
          PROVE  turn'[t].role = turn[t].role /\ turn'[t].conv = turn[t].conv
      BY <2>1, <3>1 DEF Becomes, RecordInv, BaseInv, TypeOK, TurnStates
    <3>2. CASE Becomes(t, [turn[t] EXCEPT !.pc = "releasing", !.lost = TRUE])
      BY <2>1, <3>2 DEF Becomes, RecordInv, BaseInv, TypeOK, TurnStates
    <3>3. QED
      BY <3>1, <3>2 DEF Save
  <2>3. PICK s \in TurnStates : Becomes(t, s)
    BY SaveIs DEF RecordInv, BaseInv
  <2>4. turn'[t] = s
    BY <2>3, Moves DEF RecordInv, BaseInv
  <2>5. QED
    BY <2>2, <2>3, <2>4, RoleKept DEF RecordInv, BaseInv
<1>3. UNCHANGED <<Shown, Due>>
  BY <1>1 DEF Shown, Due, Expired
<1>4. CASE summary' = summary
  BY <1>1, <1>2, <1>3, <1>4 DEF Record!recordVars, Covered
<1>5. CASE /\ row[c] = "live"
           /\ turn[t].batch \in DOMAIN messages[c]
           /\ messages[c][turn[t].batch] = "assistant"
           /\ summary' = [summary EXCEPT ![c] = [through |-> turn[t].batch,
                                                 covers |-> 1..turn[t].batch]]
           /\ ~LeaseMayExpire => summary[c].through < turn[t].batch
  <2>1. Shown[c] = "open"
    BY <1>5, ShownIs DEF Shown
  <2>2. /\ summary[c].covers = 1..summary[c].through /\ summary[c].through \in Nat
        /\ turn[t].batch \in Nat
    BY StoredTyped, TurnTyped DEF RecordInv, BaseInv, MemoryInv, WholeAt, Whole
  <2>3. ~LeaseMayExpire => Covered[c] \subseteq 1..turn[t].batch
    BY <1>5, <2>2 DEF Covered
  <2>4. Covered' = [Covered EXCEPT ![c] = 1..turn[t].batch]
    BY <1>5 DEF Covered, RecordInv, BaseInv, TypeOK
  <2>5. Record!Summarise(c, turn[t].batch)
    BY <1>1, <1>2, <1>3, <1>5, <2>1, <2>3, <2>4 DEF Record!Summarise
  <2>6. QED
    BY <1>5, <2>5 DEF Record!Next
<1>6. QED
  BY <1>4, <1>5, SaveStep, BaseStep DEF RecordInv, Next, TurnNext, Proceed

\* The two messages of a turn: its question, and the reply to it.
LEMMA InsertRecord ==
  ASSUME RecordInv, NEW t \in Turns, NEW c \in Conversations, Insert(t, c)
  PROVE  [Record!Next]_(Record!recordVars)
<1>1. /\ turn[t].conv = c /\ row[c] \in {"live", "born"} /\ row'[c] = "live"
      /\ messages' = [messages EXCEPT ![c] = Append(@, turn[t].role)]
      /\ aged'[c] = FALSE /\ old'[c] = FALSE /\ UNCHANGED summary
      /\ \A d \in Conversations : d # c =>
           /\ row'[d] = row[d] /\ messages'[d] = messages[d]
           /\ aged'[d] = aged[d] /\ old'[d] = old[d]
  <2>1. messages' = [messages EXCEPT ![c] = Append(@, turn[t].role)]
    BY DEF Insert
  <2>2. aged'[c] = FALSE /\ old'[c] = FALSE
    BY DEF Insert, RecordInv, BaseInv, TypeOK
  <2>3. QED
    BY <2>1, <2>2, InsertIs DEF RecordInv
<1>2. Shown[c] \in {"absent", "open"} /\ Shown' = [Shown EXCEPT ![c] = "open"]
  <2>1. Shown[c] \in {"absent", "open"}
    BY <1>1, ShownIs DEF Shown
  <2>2. \A d \in Conversations : StateOf(row'[d]) = IF d = c THEN "open" ELSE StateOf(row[d])
    BY <1>1, ShownIs
  <2>3. QED
    BY <2>1, <2>2 DEF Shown
<1>3. Due' = Due \ {c}
  BY <1>1 DEF Due, Expired
<1>4. Covered' = Covered
  BY <1>1 DEF Covered
<1>5. Record!Say(c, turn[t].role)
  BY <1>1, <1>2, <1>3, <1>4 DEF Record!Say
<1>6. PICK s \in TurnStates : Becomes(t, s) /\ s \in {Idle(c), Answering(c)}
  BY InsertLeaves
<1>7. turn'[t] = s /\ \A u \in Turns : u # t => turn'[u] = turn[u]
  BY <1>6, Moves DEF RecordInv, BaseInv
<1>8. Idle(c).role = "user" /\ Answering(c).role = "assistant" /\ Answering(c).conv = c
  BY DEF Idle, Answering
<1>9. turn[t].role \in {"user", "assistant"}
  BY TurnTyped DEF RecordInv, BaseInv
<1>10. CASE turn[t].role = "user"
  <2>1. \A d \in Conversations : <<t, d>> \notin Waiting
    BY <1>10, WaitingIs
  <2>2. s = Answering(c)
    BY <1>7, <1>10 DEF Insert, Becomes, Answering, RecordInv, BaseInv, TypeOK
  <2>3. ASSUME NEW u \in Turns, NEW d \in Conversations
        PROVE  <<u, d>> \in Waiting' <=> <<u, d>> \in Waiting \cup {<<t, c>>}
    BY <1>1, <1>7, <1>8, <1>10, <2>2, WaitingIs
  <2>4. /\ Waiting' \subseteq Turns \X Conversations
        /\ Waiting \cup {<<t, c>>} \subseteq Turns \X Conversations
    BY DEF Waiting
  <2>5. Waiting' = Waiting \cup {<<t, c>>}
    BY <2>3, <2>4
  <2>6. Record!Ask(t, c)
    BY <1>5, <1>10, <2>1, <2>5 DEF Record!Ask
  <2>7. QED
    BY <2>6 DEF Record!Next
<1>11. CASE turn[t].role = "assistant"
  <2>1. <<t, c>> \in Waiting
    BY <1>1, <1>11, WaitingIs
  <2>2. s = Idle(c)
    BY <1>1, <1>7, <1>11 DEF Insert, Leave, Becomes, RecordInv, BaseInv, TypeOK
  <2>3. Waiting' = Waiting \ {<<t, c>>}
    BY <1>1, <1>6, <1>8, <2>2, RoleDropped DEF RecordInv, BaseInv
  <2>4. Record!Reply(t, c)
    BY <1>5, <1>11, <2>1, <2>3 DEF Record!Reply
  <2>5. QED
    BY <2>4 DEF Record!Next
<1>12. QED
  BY <1>9, <1>10, <1>11

LEMMA BreakOffRecord ==
  ASSUME RecordInv, NEW t \in Turns, NEW c \in Conversations, BreakOff(t, c)
  PROVE  [Record!Next]_(Record!recordVars)
<1>1. /\ UNCHANGED <<messages, summary, aged, old>> /\ turn[t].conv = c
      /\ \A d \in Conversations :
           row'[d] = row[d] \/ (row[d] = "born" /\ row'[d] = "none")
  BY DEF BreakOff, RecordInv, BaseInv, TypeOK
<1>2. UNCHANGED <<Shown, messages, Covered, Due>>
  BY <1>1, ShownIs DEF Shown, Covered, Due, Expired
<1>3. Becomes(t, Idle(c)) /\ Idle(c).role = "user"
  BY <1>1 DEF BreakOff, Leave, Idle
<1>4. Waiting' = Waiting \ {<<t, c>>}
  BY <1>1, <1>3, IdleTyped, RoleDropped DEF RecordInv, BaseInv
<1>5. QED
  BY <1>2, <1>4, QuietRecord

LEMMA TurnRecord ==
  ASSUME RecordInv, NEW t \in Turns, NEW c \in Conversations, TurnNext(t, c)
  PROVE  [Record!Next]_(Record!recordVars)
<1>1. CASE \/ Remember(t, c) \/ List(t, c) \/ Lead(t, c) \/ Plan(t, c) \/ Summarize(t, c)
           \/ SummaryFails(t, c) \/ Release(t, c) \/ CannotAppend(t, c) \/ Answer(t, c)
           \/ TakeNumber(t, c)
  <2>1. UNCHANGED <<row, messages, summary, aged, old>> /\ turn[t].conv = c
    BY <1>1 DEF Remember, List, Lead, Plan, Summarize, SummaryFails, Release, CannotAppend,
                Answer, TakeNumber, At, rows
  <2>2. PICK s \in TurnStates : /\ Becomes(t, s) /\ s.conv = c
                                /\ s.role = "user" \/ s.role = turn[t].role
    BY <1>1, QuietRole, TakeNumberRole DEF RecordInv, BaseInv
  <2>3. Waiting' = Waiting \/ Waiting' = Waiting \ {<<t, c>>}
    BY <2>1, <2>2, RoleKept, RoleDropped DEF RecordInv, BaseInv
  <2>4. QED
    BY <2>1, <2>3, RowsKept, QuietRecord
<1>2. QED
  BY <1>1, BeginRecord, SaveRecord, InsertRecord, BreakOffRecord DEF TurnNext, Proceed

-----------------------------------------------------------------------------
(* The owner, the clock and the retention worker.                           *)

LEMMA OwnerRecord ==
  ASSUME RecordInv, NEW c \in Conversations, OwnerNext(c) \/ TimePasses(c)
  PROVE  [Record!Next]_(Record!recordVars)
<1>1. UNCHANGED <<messages, summary, turn>>
  BY DEF OwnerNext, Create, Rename, Delete, TimePasses
<1>2. Covered' = Covered /\ Waiting' = Waiting
  BY <1>1 DEF Covered, Waiting
<1>3. /\ row \in [Conversations -> {"none", "born", "live", "deleted", "purged"}]
      /\ aged \in [Conversations -> BOOLEAN] /\ old \in [Conversations -> BOOLEAN]
  BY DEF RecordInv, BaseInv, TypeOK
<1>4. CASE Create(c)
  <2>1. row[c] = "none" /\ row' = [row EXCEPT ![c] = "live"] /\ UNCHANGED <<aged, old>>
    BY <1>4 DEF Create
  <2>2. Shown[c] = "absent" /\ Shown' = [Shown EXCEPT ![c] = "open"]
    BY <1>3, <2>1, ShownIs DEF Shown
  <2>3. ~aged[c] /\ ~old[c]
    BY <2>1 DEF RecordInv, YoungInv
  <2>4. Due' = Due
    BY <1>1, <1>3, <2>1, <2>3 DEF Due, Expired
  <2>5. Record!Open(c)
    BY <1>1, <1>2, <2>2, <2>4 DEF Record!Open
  <2>6. QED
    BY <2>5 DEF Record!Next
<1>5. CASE Rename(c)
  <2>1. /\ row[c] = "live" /\ aged' = [aged EXCEPT ![c] = FALSE]
        /\ UNCHANGED <<row, old>>
    BY <1>5 DEF Rename
  <2>2. Shown' = Shown /\ Shown[c] = "open"
    BY <2>1, ShownIs DEF Shown
  <2>3. /\ ~aged'[c] /\ \A d \in Conversations : d # c => aged'[d] = aged[d]
    BY <1>3, <2>1
  <2>4. CASE old[c] /\ messages[c] = << >>
    <3>1. Due' = Due
      BY <1>1, <2>1, <2>3, <2>4 DEF Due, Expired
    <3>2. QED
      BY <1>1, <1>2, <2>2, <3>1 DEF Record!recordVars
  <2>5. CASE ~(old[c] /\ messages[c] = << >>)
    <3>1. Due' = Due \ {c}
      BY <1>1, <2>1, <2>3, <2>5 DEF Due, Expired
    <3>2. Record!Rename(c)
      BY <1>1, <1>2, <2>2, <3>1 DEF Record!Rename
    <3>3. QED
      BY <3>2 DEF Record!Next
  <2>6. QED
    BY <2>4, <2>5
<1>6. CASE Delete(c)
  <2>1. /\ row[c] = "live" /\ row' = [row EXCEPT ![c] = "deleted"]
        /\ aged' = [aged EXCEPT ![c] = FALSE] /\ UNCHANGED old
    BY <1>6 DEF Delete
  <2>2. Shown[c] = "open" /\ Shown' = [Shown EXCEPT ![c] = "deleted"]
    BY <1>3, <2>1, ShownIs DEF Shown
  <2>3. /\ ~aged'[c] /\ row'[c] = "deleted"
        /\ \A d \in Conversations : d # c => aged'[d] = aged[d] /\ row'[d] = row[d]
    BY <1>3, <2>1
  <2>4. Due' = Due \ {c}
    BY <1>1, <2>1, <2>3 DEF Due, Expired
  <2>5. Record!Delete(c)
    BY <1>1, <1>2, <2>2, <2>4 DEF Record!Delete
  <2>6. QED
    BY <2>5 DEF Record!Next
<1>7. CASE TimePasses(c)
  <2>1. /\ row[c] \in {"live", "deleted"} /\ UNCHANGED row
        /\ aged' \in {aged, [aged EXCEPT ![c] = TRUE]}
        /\ old' = [old EXCEPT ![c] = messages[c] = << >>]
    BY <1>7 DEF TimePasses
  <2>2. Shown' = Shown /\ Shown[c] \in {"open", "deleted"}
    BY <2>1, ShownIs DEF Shown
  <2>3. /\ aged[c] => aged'[c]
        /\ \A d \in Conversations : d # c => aged'[d] = aged[d] /\ old'[d] = old[d]
    BY <1>3, <2>1
  <2>4. messages[c] = << >> => old'[c]
    BY <1>3, <2>1
  <2>5. Due' = Due \/ Due' = Due \cup {c}
    BY <1>1, <2>1, <2>3, <2>4 DEF Due, Expired
  <2>6. CASE Due' = Due
    BY <1>1, <1>2, <2>2, <2>6 DEF Record!recordVars
  <2>7. CASE Due' = Due \cup {c}
    <3>1. Record!TimePasses(c)
      BY <1>1, <1>2, <2>2, <2>7 DEF Record!TimePasses
    <3>2. QED
      BY <3>1 DEF Record!Next
  <2>8. QED
    BY <2>5, <2>6, <2>7
<1>8. QED
  BY <1>4, <1>5, <1>6, <1>7 DEF OwnerNext

LEMMA PurgeRecord ==
  ASSUME RecordInv, Purge
  PROVE  [Record!Next]_(Record!recordVars)
<1>1. /\ row' = [c \in Conversations |-> IF c \in doomed THEN "purged" ELSE row[c]]
      /\ messages' = [c \in Conversations |-> IF c \in doomed THEN << >> ELSE messages[c]]
      /\ summary' = [c \in Conversations |-> IF c \in doomed THEN NoMemory ELSE summary[c]]
      /\ UNCHANGED <<aged, old, turn>>
  BY DEF Purge
<1>2. doomed \subseteq Due
  BY DEF RecordInv, BaseInv, TypeOK, DoomInv, Due
<1>3. Shown' = [c \in Conversations |-> IF c \in doomed THEN "gone" ELSE Shown[c]]
  BY <1>1, ShownIs DEF Shown
<1>4. Covered' = [c \in Conversations |-> IF c \in doomed THEN {} ELSE Covered[c]]
  BY <1>1 DEF Covered, NoMemory
<1>5. Due' = Due \ doomed
  BY <1>1 DEF Due, Expired
<1>6. Waiting' = Waiting
  BY <1>1 DEF Waiting
<1>7. Record!Purge(doomed)
  BY <1>1, <1>2, <1>3, <1>4, <1>5, <1>6 DEF Record!Purge
<1>8. QED
  BY <1>2, <1>7 DEF Record!Next

LEMMA RecordStep ==
  ASSUME RecordInv, [Next]_vars
  PROVE  [Record!Next]_(Record!recordVars)
<1>1. CASE \/ \E c \in Conversations : LeaseExpires(c)
           \/ SelectExpired \/ SweepFails \/ UNCHANGED vars
  <2>1. UNCHANGED <<row, messages, summary, aged, old, turn>>
    BY <1>1 DEF LeaseExpires, SelectExpired, SweepFails, vars, rows
  <2>2. QED
    BY <2>1, RowsKept DEF Record!recordVars, Waiting
<1>2. QED
  BY <1>1, TurnRecord, OwnerRecord, PurgeRecord DEF Next

-----------------------------------------------------------------------------
(* The invariant, and the refinement.                                       *)

LEMMA YoungStep ==
  ASSUME RecordInv, [Next]_vars
  PROVE  YoungInv'
<1>0. /\ row \in [Conversations -> {"none", "born", "live", "deleted", "purged"}]
      /\ aged \in [Conversations -> BOOLEAN] /\ old \in [Conversations -> BOOLEAN]
  BY DEF RecordInv, BaseInv, TypeOK
<1>1. CASE UNCHANGED <<aged, old>>
  <2>1. \A c \in Conversations :
          row'[c] \in {"none", "born"} => row[c] \in {"none", "born"}
    <3>1. ASSUME NEW t \in Turns, NEW c \in Conversations, TurnNext(t, c)
          PROVE  \A d \in Conversations : row'[d] = row[d] \/ row[d] \in {"none", "born"}
      BY <1>0, <3>1 DEF TurnNext, Proceed, Begin, Remember, List, Lead, Plan, Summarize,
           SummaryFails, Save, Release, TakeNumber, CannotAppend, Insert, Answer, BreakOff, rows
    <3>2. ASSUME NEW c \in Conversations, OwnerNext(c) \/ TimePasses(c) \/ LeaseExpires(c)
          PROVE  \A d \in Conversations :
                   row'[d] = row[d] \/ row'[d] \in {"live", "deleted"}
      BY <1>0, <3>2 DEF OwnerNext, Create, Rename, Delete, TimePasses, LeaseExpires, rows
    <3>3. CASE SelectExpired \/ Purge \/ SweepFails \/ UNCHANGED vars
      BY <1>0, <3>3 DEF SelectExpired, Purge, SweepFails, vars, rows
    <3>4. QED
      BY <3>1, <3>2, <3>3 DEF Next
  <2>2. QED
    BY <1>1, <2>1 DEF RecordInv, YoungInv
<1>2. ASSUME NEW t \in Turns, NEW c \in Conversations, Insert(t, c)
      PROVE  YoungInv'
  BY <1>2, InsertIs DEF RecordInv, YoungInv
<1>3. ASSUME NEW c \in Conversations, Rename(c) \/ Delete(c) \/ TimePasses(c)
      PROVE  YoungInv'
  <2>1. \A d \in Conversations :
          d # c => row'[d] = row[d] /\ aged'[d] = aged[d] /\ old'[d] = old[d]
    BY <1>0, <1>3 DEF Rename, Delete, TimePasses
  <2>2. row'[c] \in {"live", "deleted"}
    BY <1>0, <1>3 DEF Rename, Delete, TimePasses
  <2>3. QED
    BY <2>1, <2>2 DEF RecordInv, YoungInv
<1>4. \/ UNCHANGED <<aged, old>>
      \/ \E t \in Turns, c \in Conversations : Insert(t, c)
      \/ \E c \in Conversations : Rename(c) \/ Delete(c) \/ TimePasses(c)
  <2>1. ASSUME NEW t \in Turns, NEW c \in Conversations, TurnNext(t, c), ~Insert(t, c)
        PROVE  UNCHANGED <<aged, old>>
    BY <2>1 DEF TurnNext, Proceed, Begin, Remember, List, Lead, Plan, Summarize, rows,
         SummaryFails, Save, Release, TakeNumber, CannotAppend, Answer, BreakOff
  <2>2. ASSUME NEW c \in Conversations, Create(c) \/ LeaseExpires(c)
        PROVE  UNCHANGED <<aged, old>>
    BY <2>2 DEF Create, LeaseExpires, rows
  <2>3. CASE SelectExpired \/ Purge \/ SweepFails \/ UNCHANGED vars
    BY <2>3 DEF SelectExpired, Purge, SweepFails, vars, rows
  <2>4. QED
    BY <2>1, <2>2, <2>3 DEF Next, OwnerNext
<1>5. QED
  BY <1>1, <1>2, <1>3, <1>4

LEMMA RecordInvariant == Spec => []RecordInv
<1>1. Init => YoungInv
  BY DEF Init, YoungInv
<1>2. BaseInv /\ MemoryInv /\ YoungInv /\ [Next]_vars => YoungInv'
  BY YoungStep DEF RecordInv
<1>3. QED
  BY <1>1, <1>2, MemoryInvariant, PTL DEF Spec, RecordInv

LEMMA RecordInit == Init => Record!Init
<1> SUFFICES ASSUME Init
             PROVE  Record!Init
  OBVIOUS
<1>1. PICK c \in Conversations : turn = [t \in Turns |-> Idle(c)]
  BY DEF Init
<1>2. \A t \in Turns : turn[t].role = "user"
  BY <1>1 DEF Idle
<1>3. Waiting = {}
  BY <1>2 DEF Waiting
<1>4. Due = {}
  BY DEF Init, Due, Expired
<1>5. Shown = [d \in Conversations |-> "absent"]
  BY ShownIs DEF Init, Shown
<1>6. Covered = [d \in Conversations |-> {}]
  BY DEF Init, Covered, NoMemory
<1>7. QED
  BY <1>3, <1>4, <1>5, <1>6 DEF Init, Record!Init

\* The store keeps what ConversationRecord promises, for any number of conversations
\* and turns and any limits; a summary only grows as long as its lease outlives the
\* turn that holds it (conversations/repository.py, memory.py, retention.py).
THEOREM ConversationKeepsRecord == Spec => KeepsRecord
<1>1. RecordInv /\ [Next]_vars => [Record!Next]_(Record!recordVars)
  BY RecordStep
<1>2. QED
  BY <1>1, RecordInit, RecordInvariant, PTL DEF Spec, KeepsRecord, Record!Spec
=============================================================================
