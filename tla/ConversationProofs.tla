-------------------------- MODULE ConversationProofs --------------------------
(***************************************************************************)
(* Theorems about Conversation: its types, that a message always gets the  *)
(* next number, that a deleted conversation stays silent, that only what   *)
(* has expired is purged, and what the summary contains and the model      *)
(* sees, whatever the summary lease does.  Only that summaries move        *)
(* forward needs a lease that outlives its holder.                         *)
(***************************************************************************)
EXTENDS Conversation, FiniteSetTheorems, SequenceTheorems, TLAPS

-----------------------------------------------------------------------------
(* Types.                                                                   *)

LEMMA TurnTyped ==
  ASSUME TypeOK, NEW t \in Turns
  PROVE  /\ turn[t] \in TurnStates /\ turn[t].pc \in PCs /\ turn[t].conv \in Conversations
         /\ turn[t].loaded \in Memories /\ turn[t].mem \in Memories
         /\ turn[t].loaded.through \in Nat /\ turn[t].mem.through \in Nat
         /\ turn[t].loaded.covers \subseteq Nat \ {0} /\ turn[t].mem.covers \subseteq Nat \ {0}
         /\ turn[t].cuts \subseteq Nat /\ turn[t].recent \subseteq Nat \ {0}
         /\ turn[t].done \in Nat /\ turn[t].batch \in Nat /\ turn[t].number \in Nat
         /\ turn[t].role \in {"user", "assistant"}
<1>1. turn[t] \in TurnStates
  BY DEF TypeOK
<1>2. QED
  BY <1>1 DEF TurnStates, Memories

LEMMA TurnFlags ==
  ASSUME TypeOK, NEW t \in Turns
  PROVE  /\ turn[t].spoiled \in BOOLEAN /\ turn[t].tried \in BOOLEAN
         /\ turn[t].leader \in BOOLEAN /\ turn[t].lost \in BOOLEAN
<1>1. turn[t] \in TurnStates
  BY DEF TypeOK
<1>2. QED
  BY <1>1, Zenon DEF TurnStates

LEMMA NoMemoryTyped == NoMemory \in Memories
BY DEF NoMemory, Memories

LEMMA IdleTyped ==
  ASSUME NEW c \in Conversations
  PROVE  Idle(c) \in TurnStates
BY NoMemoryTyped DEF Idle, TurnStates, PCs

LEMMA StoredTyped ==
  ASSUME TypeOK, NEW c \in Conversations
  PROVE  /\ Stored(c) \in Memories /\ Stored(c).through \in Nat
         /\ summary[c] \in Memories /\ summary[c].through \in Nat
<1>1. summary[c] \in Memories
  BY DEF TypeOK
<1>2. Stored(c) \in Memories
  BY <1>1, NoMemoryTyped DEF Stored
<1>3. QED
  BY <1>1, <1>2 DEF Memories

\* The messages after one are those with greater numbers.
LEMMA AfterIs ==
  ASSUME TypeOK, NEW c \in Conversations, NEW n \in Nat
  PROVE  /\ Len(messages[c]) \in Nat /\ DOMAIN messages[c] = 1..Len(messages[c])
         /\ After(c, n) = (n + 1)..Len(messages[c])
         /\ After(c, n) \subseteq Nat \ {0}
         /\ Cuts(c, n) \subseteq After(c, n)
         /\ \A i \in Cuts(c, n) : messages[c][i] = "assistant"
<1>1. messages[c] \in Seq({"user", "assistant"})
  BY DEF TypeOK
<1>2. Len(messages[c]) \in Nat /\ DOMAIN messages[c] = 1..Len(messages[c])
  BY <1>1
<1>3. After(c, n) = (n + 1)..Len(messages[c])
  BY <1>2 DEF After
<1>4. QED
  BY <1>2, <1>3 DEF Cuts

\* The states a turn may take by a field or two.
LEMMA NextTurns ==
  ASSUME NEW s \in TurnStates
  PROVE  /\ \A p \in PCs : [s EXCEPT !.pc = p] \in TurnStates
         /\ \A p \in PCs, m \in Memories :
              [s EXCEPT !.pc = p, !.mem = m] \in TurnStates
         /\ \A p \in PCs, K \in SUBSET Nat, n \in Nat :
              [s EXCEPT !.pc = p, !.cuts = K, !.done = n] \in TurnStates
         /\ \A p \in PCs, b \in Nat : [s EXCEPT !.pc = p, !.batch = b] \in TurnStates
         /\ \A p \in PCs, m \in Memories, b \in BOOLEAN :
              [s EXCEPT !.pc = p, !.mem = m, !.spoiled = b] \in TurnStates
         /\ \A p \in PCs, m \in Memories, n \in Nat :
              [s EXCEPT !.pc = p, !.mem = m, !.loaded = m, !.done = n] \in TurnStates
         /\ \A p \in PCs, b \in BOOLEAN : [s EXCEPT !.pc = p, !.lost = b] \in TurnStates
         /\ \A p \in PCs, m \in Memories, b \in BOOLEAN :
              [s EXCEPT !.pc = p, !.tried = b, !.loaded = m] \in TurnStates
         /\ \A p \in PCs, m \in Memories, S \in SUBSET (Nat \ {0}), b \in BOOLEAN :
              [s EXCEPT !.pc = p, !.mem = m, !.recent = S, !.spoiled = b] \in TurnStates
         /\ \A p \in PCs, r \in {"user", "assistant"} :
              [s EXCEPT !.pc = p, !.role = r] \in TurnStates
         /\ \A p \in PCs, r \in {"user", "assistant"}, n \in Nat :
              [s EXCEPT !.pc = p, !.role = r, !.number = n] \in TurnStates
         /\ \A p \in PCs, a, b \in BOOLEAN :
              [s EXCEPT !.pc = p, !.tried = a, !.leader = b] \in TurnStates
BY DEF TurnStates

LEMMA Moves ==
  ASSUME TypeOK, NEW t \in Turns, NEW s \in TurnStates, Becomes(t, s)
  PROVE  /\ turn' \in [Turns -> TurnStates] /\ turn'[t] = s
         /\ \A u \in Turns : u # t => turn'[u] = turn[u]
BY DEF TypeOK, Becomes

-----------------------------------------------------------------------------
(* The rows and their locks.                                                *)

\* A turn's row is there, and nobody else is at work on a row that is not committed.
OwnerInv ==
  /\ \A t \in Turns : turn[t].pc # "idle" => row[turn[t].conv] # "none"
  /\ \A t, u \in Turns :
       /\ turn[t].pc # "idle" /\ turn[u].pc # "idle"
       /\ turn[t].conv = turn[u].conv /\ row[turn[t].conv] = "born"
       => t = u

\* Who inserts has the lock and the next number.
LockInv ==
  \A t \in Turns : turn[t].pc = "inserting" =>
    /\ lock[turn[t].conv] = t /\ row[turn[t].conv] \in {"live", "born"}
    /\ turn[t].number = Len(messages[turn[t].conv]) + 1

\* What the worker has selected is locked, and has expired still.
DoomInv == \A c \in doomed : lock[c] = Worker /\ Expired(c)

\* A row that is not committed has nothing in it.
RowInv ==
  \A c \in Conversations : row[c] \in {"none", "born"} =>
    messages[c] = << >> /\ summary[c] = NoMemory

BaseInv == TypeOK /\ OwnerInv /\ LockInv /\ DoomInv /\ RowInv

\* A step of one turn that touches neither rows nor their locks.
Quietly(t, c) ==
  /\ turn[t].pc # "idle" /\ turn[t].conv = c
  /\ \E s \in TurnStates : s.conv = c /\ s.pc # "inserting" /\ Becomes(t, s)
  /\ UNCHANGED <<rows, lock, doomed, faults>>
  /\ lease' \in [Conversations -> Turns \cup {NoOne}]

LEMMA QuietlyKeeps ==
  ASSUME BaseInv, NEW t \in Turns, NEW c \in Conversations, Quietly(t, c)
  PROVE  BaseInv'
<1>1. PICK s \in TurnStates : s.conv = c /\ s.pc # "inserting" /\ Becomes(t, s)
  BY DEF Quietly
<1>2. /\ turn[t].pc # "idle" /\ turn[t].conv = c
      /\ UNCHANGED <<row, messages, summary, aged, old, lock, doomed, faults>>
      /\ lease' \in [Conversations -> Turns \cup {NoOne}]
  BY DEF Quietly, rows
<1>3. /\ turn' \in [Turns -> TurnStates] /\ turn'[t] = s
      /\ \A u \in Turns : u # t => turn'[u] = turn[u]
  BY <1>1, Moves DEF BaseInv
<1>4. TypeOK'
  BY <1>2, <1>3 DEF BaseInv, TypeOK
<1>5. /\ \A u \in Turns : turn'[u].pc # "idle" => turn[u].pc # "idle"
                                               /\ turn'[u].conv = turn[u].conv
      /\ \A u \in Turns : turn'[u].pc = "inserting" => turn'[u] = turn[u]
  BY <1>1, <1>2, <1>3
<1>6. OwnerInv'
  BY <1>2, <1>5 DEF BaseInv, OwnerInv
<1>7. LockInv'
  BY <1>2, <1>5 DEF BaseInv, LockInv
<1>8. DoomInv' /\ RowInv'
  BY <1>2 DEF BaseInv, DoomInv, RowInv, Expired
<1>9. QED
  BY <1>4, <1>6, <1>7, <1>8 DEF BaseInv

LEMMA IdleQuietly ==
  ASSUME NEW t \in Turns, NEW c \in Conversations, turn[t].conv = c, Leave(t)
  PROVE  \E s \in TurnStates : s.conv = c /\ s.pc # "inserting" /\ Becomes(t, s)
BY IdleTyped DEF Leave, Idle

LEMMA GotoQuietly ==
  ASSUME TypeOK, NEW t \in Turns, NEW c \in Conversations, turn[t].conv = c,
         NEW p \in PCs, p # "inserting", Goto(t, p)
  PROVE  \E s \in TurnStates : s.conv = c /\ s.pc # "inserting" /\ Becomes(t, s)
<1>1. [turn[t] EXCEPT !.pc = p] \in TurnStates
  BY TurnTyped, NextTurns
<1>2. [turn[t] EXCEPT !.pc = p].conv = c /\ [turn[t] EXCEPT !.pc = p].pc # "inserting"
  BY TurnTyped DEF TurnStates
<1>3. QED
  BY <1>1, <1>2 DEF Goto

\* Which steps those are.
LEMMA QuietSteps ==
  ASSUME TypeOK, NEW t \in Turns, NEW c \in Conversations,
         \/ Remember(t, c) \/ List(t, c) \/ Lead(t, c) \/ Plan(t, c) \/ Summarize(t, c)
         \/ SummaryFails(t, c) \/ Release(t, c) \/ CannotAppend(t, c) \/ Answer(t, c)
  PROVE  Quietly(t, c)
<1> DEFINE Moved == \E s \in TurnStates : s.conv = c /\ s.pc # "inserting" /\ Becomes(t, s)
<1>1. turn[t].pc # "idle" /\ turn[t].conv = c
  BY DEF Remember, List, Lead, Plan, Summarize, SummaryFails, Release, CannotAppend,
         Answer, At
<1>2. UNCHANGED <<rows, lock, doomed, faults>>
  BY DEF Remember, List, Lead, Plan, Summarize, SummaryFails, Release, CannotAppend,
         Answer
<1>3. lease' \in [Conversations -> Turns \cup {NoOne}]
  BY DEF TypeOK, Remember, List, Lead, Plan, Summarize, SummaryFails, Release,
         CannotAppend, Answer
<1>4. turn[t] \in TurnStates
  BY TurnTyped
<1>5. CASE Remember(t, c)
  <2>1. [turn[t] EXCEPT !.pc = "listing", !.mem = Stored(c)] \in TurnStates
    BY <1>4, StoredTyped, NextTurns DEF PCs
  <2>2. Moved
    BY <1>1, <1>4, <1>5, <2>1 DEF Remember, TurnStates
  <2>3. QED
    BY <1>1, <1>2, <1>3, <2>2 DEF Quietly
<1>6. CASE List(t, c)
  <2>1. CASE Goto(t, "leading")
    BY <1>1, <1>2, <1>3, <2>1, GotoQuietly DEF Quietly, PCs
  <2>2. ASSUME NEW S \in Trimmed(After(c, turn[t].mem.through)),
               Becomes(t, [Idle(c) EXCEPT !.pc = "appending", !.mem = turn[t].mem,
                                          !.recent = S, !.spoiled = turn[t].spoiled])
        PROVE  Quietly(t, c)
    <3> DEFINE s == [Idle(c) EXCEPT !.pc = "appending", !.mem = turn[t].mem,
                                    !.recent = S, !.spoiled = turn[t].spoiled]
    <3>1. S \subseteq After(c, turn[t].mem.through)
      BY DEF Trimmed
    <3>2. S \subseteq Nat \ {0}
      BY <3>1, TurnTyped, AfterIs
    <3>3. s \in TurnStates
      <4>1. /\ Idle(c) \in TurnStates /\ turn[t].mem \in Memories
            /\ turn[t].spoiled \in BOOLEAN /\ S \in SUBSET (Nat \ {0})
        BY <3>2, IdleTyped, TurnTyped, TurnFlags
      <4>2. QED
        BY <4>1, NextTurns DEF PCs
    <3>4. s.conv = c /\ s.pc = "appending"
      BY DEF Idle
    <3> HIDE DEF s
    <3>5. QED
      BY <1>1, <1>2, <1>3, <2>2, <3>3, <3>4 DEF Quietly, s
  <2>3. QED
    BY <1>6, <2>1, <2>2 DEF List
<1>7. CASE Lead(t, c)
  <2>1. /\ [turn[t] EXCEPT !.pc = "remembering", !.tried = TRUE, !.leader = TRUE] \in TurnStates
        /\ [turn[t] EXCEPT !.pc = "listing", !.tried = TRUE, !.loaded = NoMemory] \in TurnStates
    BY <1>4, NoMemoryTyped, NextTurns DEF PCs
  <2>2. Moved
    BY <1>1, <1>4, <1>7, <2>1 DEF Lead, TurnStates
  <2>3. QED
    BY <1>1, <1>2, <1>3, <2>2 DEF Quietly
<1>8. CASE Plan(t, c)
  <2>1. CASE Goto(t, "releasing")
    BY <1>1, <1>2, <1>3, <2>1, GotoQuietly DEF Quietly, PCs
  <2>2. CASE Becomes(t, [turn[t] EXCEPT !.pc = "summarizing",
                           !.cuts = Cuts(c, turn[t].mem.through),
                           !.done = turn[t].mem.through])
    <3>1. Cuts(c, turn[t].mem.through) \in SUBSET Nat /\ turn[t].mem.through \in Nat
      BY TurnTyped, AfterIs
    <3>2. [turn[t] EXCEPT !.pc = "summarizing", !.cuts = Cuts(c, turn[t].mem.through),
                          !.done = turn[t].mem.through] \in TurnStates
      BY <1>4, <3>1, NextTurns DEF PCs
    <3>3. Moved
      BY <1>1, <1>4, <2>2, <3>2 DEF TurnStates
    <3>4. QED
      BY <1>1, <1>2, <1>3, <3>3 DEF Quietly
  <2>3. QED
    BY <1>8, <2>1, <2>2 DEF Plan
<1>9. CASE Summarize(t, c)
  <2>1. PICK b \in {i \in turn[t].cuts : turn[t].done < i} :
          Becomes(t, [turn[t] EXCEPT !.pc = "saving", !.batch = b])
    BY <1>9 DEF Summarize
  <2>2. b \in Nat
    BY TurnTyped
  <2>3. [turn[t] EXCEPT !.pc = "saving", !.batch = b] \in TurnStates
    BY <1>4, <2>2, NextTurns DEF PCs
  <2>4. Moved
    BY <1>1, <1>4, <2>1, <2>3 DEF TurnStates
  <2>5. QED
    BY <1>1, <1>2, <1>3, <2>4 DEF Quietly
<1>10. CASE SummaryFails(t, c)
  <2>1. (turn[t].spoiled \/ turn[t].batch = 0) \in BOOLEAN
    OBVIOUS
  <2>2. [turn[t] EXCEPT !.pc = "releasing", !.mem = Stored(c),
                        !.spoiled = turn[t].spoiled \/ turn[t].batch = 0] \in TurnStates
    BY <1>4, <2>1, StoredTyped, NextTurns DEF PCs
  <2>3. Moved
    BY <1>1, <1>4, <1>10, <2>2 DEF SummaryFails, TurnStates
  <2>4. QED
    BY <1>1, <1>2, <1>3, <2>3 DEF Quietly
<1>11. CASE Release(t, c)
  <2>1. CASE Leave(t)
    BY <1>1, <1>2, <1>3, <2>1, IdleQuietly DEF Quietly
  <2>2. CASE Becomes(t, [turn[t] EXCEPT !.pc = "listing", !.leader = FALSE,
                         !.loaded = NoMemory, !.cuts = {}, !.done = 0, !.batch = 0])
    <3>1. [turn[t] EXCEPT !.pc = "listing", !.leader = FALSE,
             !.loaded = NoMemory, !.cuts = {}, !.done = 0, !.batch = 0] \in TurnStates
      BY <1>4, NoMemoryTyped DEF TurnStates, PCs
    <3>2. Moved
      BY <1>1, <1>4, <2>2, <3>1 DEF TurnStates
    <3>3. QED
      BY <1>1, <1>2, <1>3, <3>2 DEF Quietly
  <2>3. QED
    BY <1>11, <2>1, <2>2 DEF Release
<1>12. CASE CannotAppend(t, c)
  <2>1. Leave(t)
    BY <1>12 DEF CannotAppend
  <2>2. QED
    BY <1>1, <1>2, <1>3, <2>1, IdleQuietly DEF Quietly
<1>13. CASE Answer(t, c)
  <2>1. CASE Goto(t, "appending")
    BY <1>1, <1>2, <1>3, <2>1, GotoQuietly DEF Quietly, PCs
  <2>2. CASE Leave(t)
    BY <1>1, <1>2, <1>3, <2>2, IdleQuietly DEF Quietly
  <2>3. QED
    BY <1>13, <2>1, <2>2 DEF Answer
<1>14. QED
  BY <1>5, <1>6, <1>7, <1>8, <1>9, <1>10, <1>11, <1>12, <1>13

LEMMA BeginKeeps ==
  ASSUME BaseInv, NEW t \in Turns, NEW c \in Conversations, Begin(t, c)
  PROVE  BaseInv'
<1> DEFINE s == [Idle(c) EXCEPT !.pc = "remembering", !.loaded = Stored(c)]
<1>1. /\ turn[t].pc = "idle" /\ Becomes(t, s)
      /\ UNCHANGED <<messages, summary, aged, old, lock, lease, doomed, faults>>
  BY DEF Begin
<1>2. \/ row[c] = "live" /\ row' = row
      \/ row[c] = "none" /\ row' = [row EXCEPT ![c] = "born"]
  BY DEF Begin
<1>3. s \in TurnStates
  <2>1. Idle(c) \in TurnStates /\ Stored(c) \in Memories
    BY IdleTyped, StoredTyped DEF BaseInv
  <2>2. QED
    BY <2>1 DEF TurnStates, PCs
<1>4. s.pc = "remembering" /\ s.conv = c
  BY DEF Idle
<1> HIDE DEF s
<1>5. /\ turn' \in [Turns -> TurnStates] /\ turn'[t] = s
      /\ \A u \in Turns : u # t => turn'[u] = turn[u]
  BY <1>1, <1>3, Moves DEF BaseInv
<1>6. row' \in [Conversations -> {"none", "born", "live", "deleted", "purged"}]
  BY <1>2 DEF BaseInv, TypeOK
<1>7. /\ row'[c] \in {"live", "born"} /\ (row'[c] = "born" => row[c] = "none")
      /\ \A d \in Conversations : d # c => row'[d] = row[d]
      /\ row[c] \in {"live", "none"}
  BY <1>2 DEF BaseInv, TypeOK
<1>8. TypeOK'
  BY <1>1, <1>5, <1>6 DEF BaseInv, TypeOK
<1>9. \A u \in Turns : turn[u].conv \in Conversations
  BY TurnTyped DEF BaseInv
<1>10. OwnerInv'
  BY <1>1, <1>4, <1>5, <1>7, <1>9 DEF BaseInv, OwnerInv
<1>11. LockInv'
  BY <1>1, <1>4, <1>5, <1>7, <1>9 DEF BaseInv, LockInv
<1>12. DoomInv'
  BY <1>1, <1>2 DEF BaseInv, DoomInv, Expired, TypeOK
<1>13. RowInv'
  BY <1>1, <1>7 DEF BaseInv, RowInv
<1>14. QED
  BY <1>8, <1>10, <1>11, <1>12, <1>13 DEF BaseInv

\* What a save leaves behind.
LEMMA SaveIs ==
  ASSUME TypeOK, NEW t \in Turns, NEW c \in Conversations, Save(t, c)
  PROVE  /\ At(t, "saving", c) /\ lock[c] = NoOne
         /\ UNCHANGED <<row, messages, aged, old, lock, lease, doomed, faults>>
         /\ summary' \in [Conversations -> Memories]
         /\ row[c] # "live" => summary' = summary
         /\ \A d \in Conversations : d # c => summary'[d] = summary[d]
         /\ \E s \in TurnStates : s.conv = c /\ Becomes(t, s)
              /\ s.pc \in {"releasing", "summarizing"}
<1> DEFINE s == turn[t]
           new == [through |-> s.batch,
                   covers |-> s.mem.covers \cup (s.done + 1) .. s.batch]
           saved == IF s.loaded.through < s.batch THEN new ELSE s.loaded
           to == IF s.batch = Newest(s.cuts) THEN "releasing" ELSE "summarizing"
<1>1. /\ At(t, "saving", c) /\ lock[c] = NoOne
      /\ UNCHANGED <<row, messages, aged, old, lock, lease, doomed, faults>>
  BY DEF Save
<1>2. s \in TurnStates /\ s.conv = c
  BY <1>1, TurnTyped DEF At
<1>3. new \in Memories
  BY TurnTyped DEF Memories
<1>4. saved \in Memories /\ s.batch \in Nat /\ to \in PCs
  BY <1>3, TurnTyped DEF PCs
<1>5. CASE row[c] = "live"
  <2>1. \/ summary' = [summary EXCEPT ![c] = new]
        \/ summary' = summary
    BY <1>5 DEF Save
  <2>2. Becomes(t, [s EXCEPT !.pc = to, !.mem = saved, !.loaded = saved, !.done = s.batch])
    BY <1>5 DEF Save
  <2>3. [s EXCEPT !.pc = to, !.mem = saved, !.loaded = saved, !.done = s.batch] \in TurnStates
    BY <1>2, <1>4, NextTurns
  <2>4. /\ [s EXCEPT !.pc = to, !.mem = saved, !.loaded = saved, !.done = s.batch].conv = c
        /\ [s EXCEPT !.pc = to, !.mem = saved, !.loaded = saved, !.done = s.batch].pc = to
    BY <1>2 DEF TurnStates
  <2>5. summary' \in [Conversations -> Memories]
        /\ \A d \in Conversations : d # c => summary'[d] = summary[d]
    BY <1>3, <2>1 DEF TypeOK
  <2>6. QED
    BY <1>1, <1>5, <2>2, <2>3, <2>4, <2>5
<1>6. CASE row[c] # "live"
  <2>1. summary' = summary /\ Becomes(t, [s EXCEPT !.pc = "releasing", !.lost = TRUE])
    BY <1>6 DEF Save
  <2>2. [s EXCEPT !.pc = "releasing", !.lost = TRUE] \in TurnStates
    BY <1>2, NextTurns DEF PCs
  <2>3. /\ [s EXCEPT !.pc = "releasing", !.lost = TRUE].conv = c
        /\ [s EXCEPT !.pc = "releasing", !.lost = TRUE].pc = "releasing"
    BY <1>2 DEF TurnStates
  <2>4. QED
    BY <1>1, <2>1, <2>2, <2>3 DEF TypeOK
<1>7. QED
  BY <1>5, <1>6

LEMMA SaveKeeps ==
  ASSUME BaseInv, NEW t \in Turns, NEW c \in Conversations, Save(t, c)
  PROVE  BaseInv'
<1>1. /\ turn[t].pc = "saving" /\ turn[t].conv = c /\ lock[c] = NoOne
      /\ UNCHANGED <<row, messages, aged, old, lock, lease, doomed, faults>>
      /\ summary' \in [Conversations -> Memories]
      /\ row[c] # "live" => summary' = summary
      /\ \A d \in Conversations : d # c => summary'[d] = summary[d]
  BY SaveIs DEF BaseInv, At
<1>2. PICK s \in TurnStates : s.conv = c /\ Becomes(t, s)
              /\ s.pc \in {"releasing", "summarizing"}
  BY SaveIs DEF BaseInv
<1>3. /\ turn' \in [Turns -> TurnStates] /\ turn'[t] = s
      /\ \A u \in Turns : u # t => turn'[u] = turn[u]
  BY <1>2, Moves DEF BaseInv
<1>4. TypeOK'
  BY <1>1, <1>3 DEF BaseInv, TypeOK
<1>5. OwnerInv'
  BY <1>1, <1>2, <1>3 DEF BaseInv, OwnerInv
<1>6. LockInv'
  BY <1>1, <1>2, <1>3 DEF BaseInv, LockInv
<1>7. DoomInv'
  BY <1>1 DEF BaseInv, DoomInv, Expired
<1>8. RowInv'
  <2> SUFFICES ASSUME NEW d \in Conversations, row[d] \in {"none", "born"}
               PROVE  messages[d] = << >> /\ summary'[d] = NoMemory
    BY <1>1 DEF RowInv
  <2>1. summary'[d] = summary[d]
    BY <1>1
  <2>2. QED
    BY <2>1 DEF BaseInv, RowInv
<1>9. QED
  BY <1>4, <1>5, <1>6, <1>7, <1>8 DEF BaseInv

LEMMA TakeNumberKeeps ==
  ASSUME BaseInv, NEW t \in Turns, NEW c \in Conversations, TakeNumber(t, c)
  PROVE  BaseInv'
<1> DEFINE s == [Idle(c) EXCEPT !.pc = "inserting", !.role = turn[t].role,
                                !.number = Len(messages[c]) + 1]
<1>1. /\ turn[t].pc = "appending" /\ turn[t].conv = c /\ lock[c] = NoOne
      /\ row[c] \in {"live", "born"} /\ lock' = [lock EXCEPT ![c] = t]
      /\ Becomes(t, s)
      /\ UNCHANGED <<row, messages, summary, aged, old, lease, doomed, faults>>
  BY DEF TakeNumber, At, rows
<1>2. s \in TurnStates
  <2>1. Idle(c) \in TurnStates /\ turn[t].role \in {"user", "assistant"}
    BY IdleTyped, TurnTyped DEF BaseInv
  <2>2. messages[c] \in Seq({"user", "assistant"})
    BY DEF BaseInv, TypeOK
  <2>3. Len(messages[c]) + 1 \in Nat
    BY <2>2
  <2>4. QED
    BY <2>1, <2>3, NextTurns DEF PCs
<1>3. s.pc = "inserting" /\ s.conv = c /\ s.number = Len(messages[c]) + 1
  BY DEF Idle
<1> HIDE DEF s
<1>4. /\ turn' \in [Turns -> TurnStates] /\ turn'[t] = s
      /\ \A u \in Turns : u # t => turn'[u] = turn[u]
  BY <1>1, <1>2, Moves DEF BaseInv
<1>5. /\ lock' \in [Conversations -> Turns \cup {Worker, NoOne}]
      /\ lock'[c] = t /\ \A d \in Conversations : d # c => lock'[d] = lock[d]
  BY <1>1 DEF BaseInv, TypeOK
<1>6. TypeOK'
  BY <1>1, <1>4, <1>5 DEF BaseInv, TypeOK
<1>7. OwnerInv'
  BY <1>1, <1>3, <1>4 DEF BaseInv, OwnerInv
<1>8. LockInv'
  <2> SUFFICES ASSUME NEW u \in Turns, turn'[u].pc = "inserting"
               PROVE  /\ lock'[turn'[u].conv] = u /\ row[turn'[u].conv] \in {"live", "born"}
                      /\ turn'[u].number = Len(messages[turn'[u].conv]) + 1
    BY <1>1 DEF LockInv
  <2>1. CASE u = t
    BY <1>1, <1>3, <1>4, <1>5, <2>1
  <2>2. CASE u # t
    <3>1. turn'[u] = turn[u] /\ turn[u].conv \in Conversations
      BY <1>4, <2>2, TurnTyped DEF BaseInv
    <3>2. /\ lock[turn[u].conv] = u /\ row[turn[u].conv] \in {"live", "born"}
          /\ turn[u].number = Len(messages[turn[u].conv]) + 1
      BY <3>1 DEF BaseInv, LockInv
    <3>3. turn[u].conv # c
      BY <1>1, <3>2, ConversationAssumption
    <3>4. QED
      BY <1>5, <3>1, <3>2, <3>3
  <2>3. QED
    BY <2>1, <2>2
<1>9. DoomInv'
  <2>1. \A d \in doomed : d # c
    BY <1>1, ConversationAssumption DEF BaseInv, DoomInv
  <2>2. doomed \subseteq Conversations
    BY DEF BaseInv, TypeOK
  <2>3. QED
    BY <1>1, <1>5, <2>1, <2>2 DEF BaseInv, DoomInv, Expired
<1>10. RowInv'
  BY <1>1 DEF BaseInv, RowInv
<1>11. QED
  BY <1>6, <1>7, <1>8, <1>9, <1>10 DEF BaseInv

\* What an insertion leaves behind.
LEMMA InsertIs ==
  ASSUME BaseInv, NEW t \in Turns, NEW c \in Conversations, Insert(t, c)
  PROVE  /\ turn[t].pc = "inserting" /\ turn[t].conv = c /\ lock[c] = t
         /\ row[c] \in {"live", "born"} /\ row'[c] = "live"
         /\ messages'[c] = Append(messages[c], turn[t].role)
         /\ \A d \in Conversations : d # c =>
              /\ row'[d] = row[d] /\ messages'[d] = messages[d]
              /\ aged'[d] = aged[d] /\ old'[d] = old[d] /\ lock'[d] = lock[d]
         /\ row' \in [Conversations -> {"none", "born", "live", "deleted", "purged"}]
         /\ messages' \in [Conversations -> Seq({"user", "assistant"})]
         /\ aged' \in [Conversations -> BOOLEAN] /\ old' \in [Conversations -> BOOLEAN]
         /\ lock' \in [Conversations -> Turns \cup {Worker, NoOne}]
         /\ UNCHANGED <<summary, lease, doomed, faults>>
<1>1. /\ turn[t].pc = "inserting" /\ turn[t].conv = c
      /\ messages' = [messages EXCEPT ![c] = Append(@, turn[t].role)]
      /\ row' = IF row[c] = "born" THEN [row EXCEPT ![c] = "live"] ELSE row
      /\ aged' = [aged EXCEPT ![c] = FALSE] /\ old' = [old EXCEPT ![c] = FALSE]
      /\ lock' = [lock EXCEPT ![c] = NoOne]
      /\ UNCHANGED <<summary, lease, doomed, faults>>
  BY DEF Insert, At
<1>2. lock[c] = t /\ row[c] \in {"live", "born"}
  BY <1>1 DEF BaseInv, LockInv
<1>3. /\ turn[t].role \in {"user", "assistant"}
      /\ messages[c] \in Seq({"user", "assistant"})
  BY TurnTyped DEF BaseInv, TypeOK
<1>4. Append(messages[c], turn[t].role) \in Seq({"user", "assistant"})
  BY <1>3
<1>5. /\ row' \in [Conversations -> {"none", "born", "live", "deleted", "purged"}]
      /\ row'[c] = "live" /\ \A d \in Conversations : d # c => row'[d] = row[d]
  BY <1>1, <1>2 DEF BaseInv, TypeOK
<1>6. /\ messages' \in [Conversations -> Seq({"user", "assistant"})]
      /\ messages'[c] = Append(messages[c], turn[t].role)
      /\ \A d \in Conversations : d # c => messages'[d] = messages[d]
  BY <1>1, <1>4 DEF BaseInv, TypeOK
<1>7. /\ aged' \in [Conversations -> BOOLEAN] /\ old' \in [Conversations -> BOOLEAN]
      /\ \A d \in Conversations : d # c => aged'[d] = aged[d] /\ old'[d] = old[d]
  BY <1>1 DEF BaseInv, TypeOK
<1>8. /\ lock' \in [Conversations -> Turns \cup {Worker, NoOne}]
      /\ \A d \in Conversations : d # c => lock'[d] = lock[d]
  BY <1>1 DEF BaseInv, TypeOK
<1>9. QED
  BY <1>1, <1>2, <1>5, <1>6, <1>7, <1>8

\* What the turn is afterwards.
Answering(c) == [Idle(c) EXCEPT !.pc = "answering", !.role = "assistant"]

LEMMA InsertLeaves ==
  ASSUME NEW t \in Turns, NEW c \in Conversations, Insert(t, c)
  PROVE  \E s \in TurnStates : /\ s.conv = c /\ s.pc \in {"answering", "idle"}
                               /\ Becomes(t, s) /\ s \in {Idle(c), Answering(c)}
<1>1. CASE turn[t].role = "user"
  <2>1. Answering(c) \in TurnStates
    BY IdleTyped, NextTurns DEF PCs, Answering
  <2>2. Answering(c).conv = c /\ Answering(c).pc = "answering"
    BY DEF Idle, Answering
  <2>3. Becomes(t, Answering(c))
    BY <1>1 DEF Insert, Answering
  <2>4. QED
    BY <2>1, <2>2, <2>3
<1>2. CASE turn[t].role # "user"
  <2>1. Becomes(t, Idle(c))
    BY <1>2 DEF Insert, Leave, At
  <2>2. Idle(c).conv = c /\ Idle(c).pc = "idle"
    BY DEF Idle
  <2>3. QED
    BY <2>1, <2>2, IdleTyped
<1>3. QED
  BY <1>1, <1>2

LEMMA InsertKeeps ==
  ASSUME BaseInv, NEW t \in Turns, NEW c \in Conversations, Insert(t, c)
  PROVE  BaseInv'
<1>1. /\ turn[t].pc = "inserting" /\ turn[t].conv = c /\ lock[c] = t
      /\ row[c] \in {"live", "born"} /\ row'[c] = "live"
      /\ \A d \in Conversations : d # c =>
           /\ row'[d] = row[d] /\ messages'[d] = messages[d]
           /\ aged'[d] = aged[d] /\ old'[d] = old[d] /\ lock'[d] = lock[d]
      /\ UNCHANGED <<summary, lease, doomed, faults>>
  BY InsertIs
<1>2. PICK s \in TurnStates : s.conv = c /\ s.pc \in {"answering", "idle"} /\ Becomes(t, s)
  BY InsertLeaves
<1>3. /\ turn' \in [Turns -> TurnStates] /\ turn'[t] = s
      /\ \A u \in Turns : u # t => turn'[u] = turn[u]
  BY <1>2, Moves DEF BaseInv
<1>4. TypeOK'
  BY <1>1, <1>3, InsertIs DEF BaseInv, TypeOK
<1>5. \A u \in Turns : turn[u].conv \in Conversations
  BY TurnTyped DEF BaseInv
<1>6. OwnerInv'
  BY <1>1, <1>2, <1>3, <1>5 DEF BaseInv, OwnerInv
<1>7. LockInv'
  <2> SUFFICES ASSUME NEW u \in Turns, turn'[u].pc = "inserting"
               PROVE  /\ lock'[turn'[u].conv] = u /\ row'[turn'[u].conv] \in {"live", "born"}
                      /\ turn'[u].number = Len(messages'[turn'[u].conv]) + 1
    BY DEF LockInv
  <2>1. u # t /\ turn'[u] = turn[u]
    BY <1>2, <1>3
  <2>2. /\ lock[turn[u].conv] = u /\ row[turn[u].conv] \in {"live", "born"}
        /\ turn[u].number = Len(messages[turn[u].conv]) + 1
    BY <2>1 DEF BaseInv, LockInv
  <2>3. turn[u].conv # c
    BY <1>1, <2>1, <2>2
  <2>4. QED
    BY <1>1, <1>5, <2>1, <2>2, <2>3
<1>8. DoomInv'
  <2>1. \A d \in doomed : d # c /\ d \in Conversations
    BY <1>1, ConversationAssumption DEF BaseInv, DoomInv, TypeOK
  <2>2. QED
    BY <1>1, <2>1 DEF BaseInv, DoomInv, Expired
<1>9. RowInv'
  BY <1>1 DEF BaseInv, RowInv
<1>10. QED
  BY <1>4, <1>6, <1>7, <1>8, <1>9 DEF BaseInv

LEMMA BreakOffKeeps ==
  ASSUME BaseInv, NEW t \in Turns, NEW c \in Conversations, BreakOff(t, c)
  PROVE  BaseInv'
<1>1. /\ turn[t].pc # "idle" /\ turn[t].conv = c /\ Becomes(t, Idle(c))
      /\ row' = IF row[c] = "born" THEN [row EXCEPT ![c] = "none"] ELSE row
      /\ lock' = IF lock[c] = t THEN [lock EXCEPT ![c] = NoOne] ELSE lock
      /\ UNCHANGED <<messages, summary, aged, old, doomed>>
  BY DEF BreakOff, Leave
<1>2. Idle(c) \in TurnStates /\ Idle(c).conv = c /\ Idle(c).pc = "idle"
  BY IdleTyped DEF Idle
<1>3. /\ turn' \in [Turns -> TurnStates] /\ turn'[t] = Idle(c)
      /\ \A u \in Turns : u # t => turn'[u] = turn[u]
  BY <1>1, <1>2, Moves DEF BaseInv
<1>4. faults' \in 0..MaxFaults /\ lease' \in [Conversations -> Turns \cup {NoOne}]
  <2>1. faults' \in 0..MaxFaults
    BY ConversationAssumption DEF BreakOff, BaseInv, TypeOK
  <2>2. \/ lease' = lease
        \/ lease' = [lease EXCEPT ![c] = NoOne]
    BY DEF BreakOff
  <2>3. QED
    BY <2>1, <2>2 DEF BaseInv, TypeOK
<1>5. /\ row' \in [Conversations -> {"none", "born", "live", "deleted", "purged"}]
      /\ \A d \in Conversations : row'[d] = row[d] \/ (d = c /\ row[d] = "born" /\ row'[d] = "none")
  BY <1>1 DEF BaseInv, TypeOK
<1>6. /\ lock' \in [Conversations -> Turns \cup {Worker, NoOne}]
      /\ \A d \in Conversations : lock'[d] = lock[d] \/ (lock[d] = t /\ lock'[d] = NoOne)
  BY <1>1 DEF BaseInv, TypeOK
<1>7. TypeOK'
  BY <1>1, <1>3, <1>4, <1>5, <1>6 DEF BaseInv, TypeOK
<1>8. \A u \in Turns : turn[u].conv \in Conversations
  BY TurnTyped DEF BaseInv
<1>9. \A u \in Turns : turn'[u].pc # "idle" =>
        u # t /\ turn'[u] = turn[u] /\ row'[turn[u].conv] = row[turn[u].conv]
  BY <1>1, <1>2, <1>3, <1>5, <1>8 DEF BaseInv, OwnerInv
<1>10. OwnerInv'
  BY <1>9 DEF BaseInv, OwnerInv
<1>11. LockInv'
  <2> SUFFICES ASSUME NEW u \in Turns, turn'[u].pc = "inserting"
               PROVE  /\ lock'[turn'[u].conv] = u /\ row'[turn'[u].conv] \in {"live", "born"}
                      /\ turn'[u].number = Len(messages[turn'[u].conv]) + 1
    BY <1>1 DEF LockInv
  <2>1. u # t /\ turn'[u] = turn[u] /\ row'[turn[u].conv] = row[turn[u].conv]
    BY <1>9
  <2>2. lock'[turn[u].conv] = lock[turn[u].conv]
    BY <1>6, <1>8, <2>1 DEF BaseInv, LockInv
  <2>3. QED
    BY <2>1, <2>2 DEF BaseInv, LockInv
<1>12. DoomInv'
  <2>1. \A d \in doomed : d \in Conversations
    BY DEF BaseInv, TypeOK
  <2>2. \A d \in doomed : lock'[d] = Worker
    BY <1>6, <2>1, ConversationAssumption DEF BaseInv, DoomInv
  <2>3. \A d \in doomed : row'[d] = row[d]
    BY <1>5, <2>1 DEF BaseInv, DoomInv, Expired
  <2>4. QED
    BY <1>1, <2>1, <2>2, <2>3 DEF BaseInv, DoomInv, Expired
<1>13. RowInv'
  BY <1>1, <1>5 DEF BaseInv, RowInv
<1>14. QED
  BY <1>7, <1>10, <1>11, <1>12, <1>13 DEF BaseInv

\* What touches neither the turns nor the messages: only a row or its clock changes.
LEMMA OwnerKeeps ==
  ASSUME BaseInv, NEW c \in Conversations,
         Create(c) \/ Rename(c) \/ Delete(c) \/ TimePasses(c) \/ LeaseExpires(c)
  PROVE  BaseInv'
<1>1. UNCHANGED <<messages, summary, lock, turn, doomed, faults>>
  BY DEF Create, Rename, Delete, TimePasses, LeaseExpires, rows
<1>2. \/ row' = row
      \/ row[c] = "none" /\ row' = [row EXCEPT ![c] = "live"]
      \/ row[c] = "live" /\ lock[c] = NoOne /\ row' = [row EXCEPT ![c] = "deleted"]
  BY DEF Create, Rename, Delete, TimePasses, LeaseExpires, rows
<1>3. row' \in [Conversations -> {"none", "born", "live", "deleted", "purged"}]
  BY <1>2 DEF BaseInv, TypeOK
<1>4. aged' \in [Conversations -> BOOLEAN]
  <2>1. \/ aged' = aged \/ aged' = [aged EXCEPT ![c] = FALSE]
        \/ aged' = [aged EXCEPT ![c] = TRUE]
    BY DEF Create, Rename, Delete, TimePasses, LeaseExpires, rows
  <2>2. QED
    BY <2>1 DEF BaseInv, TypeOK
<1>5. old' \in [Conversations -> BOOLEAN]
  <2>1. old' = old \/ old' = [old EXCEPT ![c] = (messages[c] = << >>)]
    BY DEF Create, Rename, Delete, TimePasses, LeaseExpires, rows
  <2>2. (messages[c] = << >>) \in BOOLEAN
    OBVIOUS
  <2>3. QED
    BY <2>1, <2>2 DEF BaseInv, TypeOK
<1>6. lease' \in [Conversations -> Turns \cup {NoOne}]
  <2>1. lease' = lease \/ lease' = [lease EXCEPT ![c] = NoOne]
    BY DEF Create, Rename, Delete, TimePasses, LeaseExpires
  <2>2. QED
    BY <2>1 DEF BaseInv, TypeOK
<1>7. TypeOK'
  BY <1>1, <1>3, <1>4, <1>5, <1>6 DEF BaseInv, TypeOK
<1>8. /\ \A d \in Conversations : row'[d] \in {"none", "born"} => row'[d] = row[d]
      /\ \A d \in Conversations : row[d] \in {"born", "live"} =>
           row'[d] = row[d] \/ (d = c /\ row[d] = "live" /\ lock[d] = NoOne)
      /\ \A d \in Conversations : row'[d] = "none" => row[d] = "none"
  BY <1>2 DEF BaseInv, TypeOK
<1>9. \A u \in Turns : turn[u].conv \in Conversations
  BY TurnTyped DEF BaseInv
<1>10. OwnerInv'
  BY <1>1, <1>8, <1>9 DEF BaseInv, OwnerInv
<1>11. LockInv'
  BY <1>1, <1>8, <1>9, ConversationAssumption DEF BaseInv, LockInv
<1>12. DoomInv'
  <2> SUFFICES ASSUME NEW d \in doomed
               PROVE  lock[d] = Worker /\ Expired(d)'
    BY <1>1 DEF DoomInv
  <2>1. d \in Conversations /\ lock[d] = Worker /\ Expired(d) /\ lock[d] # NoOne
    BY ConversationAssumption DEF BaseInv, DoomInv, TypeOK
  <2>2. row'[d] = row[d]
    BY <1>2, <2>1 DEF Expired, BaseInv, TypeOK
  <2>3. aged[d] => aged'[d]
    BY <2>1 DEF Create, Rename, Delete, TimePasses, LeaseExpires, rows, BaseInv, TypeOK
  <2>4. old[d] /\ messages[d] = << >> => old'[d]
    BY <2>1 DEF Create, Rename, Delete, TimePasses, LeaseExpires, rows, BaseInv, TypeOK
  <2>5. QED
    BY <1>1, <2>1, <2>2, <2>3, <2>4 DEF Expired
<1>13. RowInv'
  BY <1>1, <1>8 DEF BaseInv, RowInv
<1>14. QED
  BY <1>7, <1>10, <1>11, <1>12, <1>13 DEF BaseInv

LEMMA SelectKeeps ==
  ASSUME BaseInv, SelectExpired
  PROVE  BaseInv'
<1>1. PICK S \in SUBSET {c \in Conversations : Expired(c) /\ lock[c] = NoOne} :
        /\ doomed' = S
        /\ lock' = [c \in Conversations |-> IF c \in S THEN Worker ELSE lock[c]]
  BY DEF SelectExpired
<1>2. UNCHANGED <<row, messages, summary, aged, old, lease, turn, faults>>
  BY DEF SelectExpired, rows
<1>3. lock' \in [Conversations -> Turns \cup {Worker, NoOne}]
      /\ \A c \in Conversations : lock[c] # NoOne => lock'[c] = lock[c]
  BY <1>1 DEF BaseInv, TypeOK
<1>4. TypeOK'
  BY <1>1, <1>2, <1>3 DEF BaseInv, TypeOK
<1>5. OwnerInv' /\ RowInv'
  BY <1>2 DEF BaseInv, OwnerInv, RowInv
<1>6. LockInv'
  <2>1. \A u \in Turns : turn[u].conv \in Conversations /\ u # NoOne
    BY TurnTyped, ConversationAssumption DEF BaseInv
  <2>2. QED
    BY <1>2, <1>3, <2>1 DEF BaseInv, LockInv
<1>7. DoomInv'
  BY <1>1, <1>2 DEF DoomInv, Expired
<1>8. QED
  BY <1>4, <1>5, <1>6, <1>7 DEF BaseInv

\* The worker's locks are released, and no other ones.
LEMMA UnlockedIs ==
  ASSUME BaseInv
  PROVE  /\ Unlocked \in [Conversations -> Turns \cup {Worker, NoOne}]
         /\ \A c \in Conversations : lock[c] \in Turns => Unlocked[c] = lock[c]
BY ConversationAssumption DEF BaseInv, TypeOK, Unlocked

LEMMA PurgeKeeps ==
  ASSUME BaseInv, Purge
  PROVE  BaseInv'
<1>1. /\ row' = [c \in Conversations |-> IF c \in doomed THEN "purged" ELSE row[c]]
      /\ messages' = [c \in Conversations |-> IF c \in doomed THEN << >> ELSE messages[c]]
      /\ summary' = [c \in Conversations |-> IF c \in doomed THEN NoMemory ELSE summary[c]]
      /\ lock' = Unlocked /\ doomed' = {}
      /\ UNCHANGED <<aged, old, lease, turn, faults>>
  BY DEF Purge
<1>2. row' \in [Conversations -> {"none", "born", "live", "deleted", "purged"}]
      /\ \A c \in Conversations : row'[c] = "purged" \/ (c \notin doomed /\ row'[c] = row[c])
  BY <1>1 DEF BaseInv, TypeOK
<1>3. messages' \in [Conversations -> Seq({"user", "assistant"})]
      /\ \A c \in Conversations : c \notin doomed => messages'[c] = messages[c]
  BY <1>1 DEF BaseInv, TypeOK
<1>4. summary' \in [Conversations -> Memories]
      /\ \A c \in Conversations : c \notin doomed => summary'[c] = summary[c]
  BY <1>1, NoMemoryTyped DEF BaseInv, TypeOK
<1>5. TypeOK'
  BY <1>1, <1>2, <1>3, <1>4, UnlockedIs DEF BaseInv, TypeOK
<1>6. \A u \in Turns : turn[u].conv \in Conversations
  BY TurnTyped DEF BaseInv
<1>7. OwnerInv'
  BY <1>1, <1>2, <1>6 DEF BaseInv, OwnerInv
<1>8. LockInv'
  <2> SUFFICES ASSUME NEW u \in Turns, turn[u].pc = "inserting"
               PROVE  /\ lock'[turn[u].conv] = u /\ row'[turn[u].conv] \in {"live", "born"}
                      /\ turn[u].number = Len(messages'[turn[u].conv]) + 1
    BY <1>1 DEF LockInv
  <2>1. /\ lock[turn[u].conv] = u /\ row[turn[u].conv] \in {"live", "born"}
        /\ turn[u].number = Len(messages[turn[u].conv]) + 1
    BY DEF BaseInv, LockInv
  <2>2. turn[u].conv \notin doomed
    BY <2>1, ConversationAssumption DEF BaseInv, DoomInv
  <2>3. lock'[turn[u].conv] = u
    BY <1>1, <1>6, <2>1, UnlockedIs
  <2>4. row'[turn[u].conv] = row[turn[u].conv]
    BY <1>1, <1>6, <2>2
  <2>5. QED
    BY <1>3, <1>6, <2>1, <2>2, <2>3, <2>4
<1>9. DoomInv'
  BY <1>1 DEF DoomInv
<1>10. RowInv'
  BY <1>2, <1>3, <1>4 DEF BaseInv, RowInv
<1>11. QED
  BY <1>5, <1>7, <1>8, <1>9, <1>10 DEF BaseInv

LEMMA SweepFailsKeeps ==
  ASSUME BaseInv, SweepFails
  PROVE  BaseInv'
<1>1. /\ lock' = Unlocked /\ doomed' = {} /\ faults' \in 0..MaxFaults
      /\ UNCHANGED <<row, messages, summary, aged, old, lease, turn>>
  BY ConversationAssumption DEF SweepFails, rows, BaseInv, TypeOK
<1>2. TypeOK'
  BY <1>1, UnlockedIs DEF BaseInv, TypeOK
<1>3. OwnerInv' /\ RowInv' /\ DoomInv'
  BY <1>1 DEF BaseInv, OwnerInv, RowInv, DoomInv
<1>4. LockInv'
  <2>1. \A u \in Turns : turn[u].conv \in Conversations
    BY TurnTyped DEF BaseInv
  <2>2. QED
    BY <1>1, <2>1, UnlockedIs DEF BaseInv, LockInv
<1>5. QED
  BY <1>2, <1>3, <1>4 DEF BaseInv

LEMMA BaseInit ==
  ASSUME Init
  PROVE  BaseInv
<1>1. PICK c \in Conversations : turn = [t \in Turns |-> Idle(c)]
  BY DEF Init
<1>2. turn \in [Turns -> TurnStates] /\ \A t \in Turns : turn[t].pc = "idle"
  <2>1. Idle(c) \in TurnStates /\ Idle(c).pc = "idle"
    BY IdleTyped DEF Idle
  <2>2. QED
    BY <1>1, <2>1
<1>3. messages \in [Conversations -> Seq({"user", "assistant"})]
  BY DEF Init
<1>4. TypeOK
  <2>1. aged \in [Conversations -> BOOLEAN] /\ old \in [Conversations -> BOOLEAN]
    BY DEF Init
  <2>2. faults \in 0..MaxFaults
    BY ConversationAssumption DEF Init
  <2>3. QED
    BY <1>2, <1>3, <2>1, <2>2, NoMemoryTyped DEF Init, TypeOK
<1>5. OwnerInv /\ LockInv
  BY <1>2 DEF OwnerInv, LockInv
<1>6. DoomInv /\ RowInv
  BY DEF Init, DoomInv, RowInv
<1>7. QED
  BY <1>4, <1>5, <1>6 DEF BaseInv

LEMMA BaseStep ==
  ASSUME BaseInv, [Next]_vars
  PROVE  BaseInv'
<1>1. ASSUME NEW t \in Turns, NEW c \in Conversations, TurnNext(t, c)
      PROVE  BaseInv'
  <2>1. CASE Begin(t, c)
    BY <2>1, BeginKeeps
  <2>2. CASE Save(t, c)
    BY <2>2, SaveKeeps
  <2>3. CASE TakeNumber(t, c)
    BY <2>3, TakeNumberKeeps
  <2>4. CASE Insert(t, c)
    BY <2>4, InsertKeeps
  <2>5. CASE BreakOff(t, c)
    BY <2>5, BreakOffKeeps
  <2>6. CASE \/ Remember(t, c) \/ List(t, c) \/ Lead(t, c) \/ Plan(t, c) \/ Summarize(t, c)
             \/ SummaryFails(t, c) \/ Release(t, c) \/ CannotAppend(t, c) \/ Answer(t, c)
    BY <2>6, QuietSteps, QuietlyKeeps DEF BaseInv
  <2>7. QED
    BY <1>1, <2>1, <2>2, <2>3, <2>4, <2>5, <2>6 DEF TurnNext, Proceed
<1>2. ASSUME NEW c \in Conversations, OwnerNext(c) \/ TimePasses(c) \/ LeaseExpires(c)
      PROVE  BaseInv'
  BY <1>2, OwnerKeeps DEF OwnerNext
<1>3. CASE SelectExpired
  BY <1>3, SelectKeeps
<1>4. CASE Purge
  BY <1>4, PurgeKeeps
<1>5. CASE SweepFails
  BY <1>5, SweepFailsKeeps
<1>6. CASE UNCHANGED vars
  BY <1>6 DEF vars, rows, BaseInv, TypeOK, OwnerInv, LockInv, DoomInv, RowInv, Expired
<1>7. QED
  BY <1>1, <1>2, <1>3, <1>4, <1>5, <1>6 DEF Next

LEMMA BaseInvariant == Spec => []BaseInv
<1>1. Init => BaseInv
  BY BaseInit
<1>2. BaseInv /\ [Next]_vars => BaseInv'
  BY BaseStep
<1>3. QED
  BY <1>1, <1>2, PTL DEF Spec


\* Every state of conversations, turns and the worker is of its type, for any number
\* of conversations and turns, any limits, and leases that expire or not.
THEOREM ConversationTypeCorrect == Spec => []TypeOK
BY BaseInvariant, PTL DEF BaseInv

\* The number append_message has taken under the row lock is still the next one when
\* the message is inserted, whatever other turns, the owner and the worker do.
THEOREM ConversationNumberIsNext == Spec => []NumberIsNext
<1>1. BaseInv => NumberIsNext
  BY DEF BaseInv, LockInv, NumberIsNext
<1>2. QED
  BY <1>1, BaseInvariant, PTL

\* The row of a conversation that is deleted changes in no step but a purge, and so do
\* its messages and its summary: append_message and save_memory look at deleted_at
\* under the row lock.
THEOREM ConversationDeletedStaysSilent == Spec => DeletedStaysSilent
<1> DEFINE Silent == \A c \in Conversations :
       row[c] \in {"deleted", "purged"} =>
         \/ row'[c] = row[c] /\ messages'[c] = messages[c] /\ summary'[c] = summary[c]
         \/ row'[c] = "purged"
<1>1. ASSUME BaseInv, [Next]_vars
      PROVE  Silent
  <2>1. ASSUME NEW t \in Turns, NEW c \in Conversations, TurnNext(t, c)
        PROVE  Silent
    <3>1. CASE Begin(t, c)
      BY <1>1, <3>1 DEF Begin, BaseInv, TypeOK
    <3>2. CASE Save(t, c)
      <4>1. /\ UNCHANGED <<row, messages>>
            /\ row[c] # "live" => summary' = summary
            /\ \A d \in Conversations : d # c => summary'[d] = summary[d]
        BY <1>1, <3>2, SaveIs DEF BaseInv
      <4>2. QED
        BY <4>1
    <3>3. CASE TakeNumber(t, c)
      BY <3>3 DEF TakeNumber, rows
    <3>4. CASE Insert(t, c)
      <4>1. /\ row[c] \in {"live", "born"} /\ UNCHANGED summary
            /\ \A d \in Conversations : d # c => row'[d] = row[d] /\ messages'[d] = messages[d]
        BY <1>1, <3>4, InsertIs
      <4>2. QED
        BY <4>1
    <3>5. CASE BreakOff(t, c)
      BY <1>1, <3>5 DEF BreakOff, BaseInv, TypeOK
    <3>6. CASE \/ Remember(t, c) \/ List(t, c) \/ Lead(t, c) \/ Plan(t, c) \/ Summarize(t, c)
               \/ SummaryFails(t, c) \/ Release(t, c) \/ CannotAppend(t, c) \/ Answer(t, c)
      BY <1>1, <3>6, QuietSteps DEF Quietly, rows, BaseInv
    <3>7. QED
      BY <2>1, <3>1, <3>2, <3>3, <3>4, <3>5, <3>6 DEF TurnNext, Proceed
  <2>2. ASSUME NEW c \in Conversations, OwnerNext(c) \/ TimePasses(c) \/ LeaseExpires(c)
        PROVE  Silent
    BY <1>1, <2>2 DEF OwnerNext, Create, Rename, Delete, TimePasses, LeaseExpires, rows,
                      BaseInv, TypeOK
  <2>3. CASE SelectExpired \/ SweepFails \/ UNCHANGED vars
    BY <2>3 DEF SelectExpired, SweepFails, vars, rows
  <2>4. CASE Purge
    BY <1>1, <2>4 DEF Purge, BaseInv, TypeOK
  <2>5. QED
    BY <1>1, <2>1, <2>2, <2>3, <2>4 DEF Next
<1>2. BaseInv /\ [Next]_vars => [Silent]_vars
  BY <1>1
<1>3. QED
  BY <1>2, BaseInvariant, PTL DEF Spec, DeletedStaysSilent

\* What purge_expired deletes has expired at that moment: SELECT ... FOR UPDATE keeps
\* others from the rows between the two statements.
THEOREM ConversationOnlyExpiredIsPurged == Spec => OnlyExpiredIsPurged
<1> DEFINE Expiring == \A c \in Conversations :
       row'[c] = "purged" /\ row[c] # "purged" => Expired(c)
<1>1. ASSUME BaseInv, [Next]_vars
      PROVE  Expiring
  <2>1. ASSUME NEW t \in Turns, NEW c \in Conversations, TurnNext(t, c)
        PROVE  Expiring
    <3>1. CASE Begin(t, c)
      BY <1>1, <3>1 DEF Begin, BaseInv, TypeOK
    <3>2. CASE Save(t, c) \/ TakeNumber(t, c)
      BY <3>2 DEF Save, TakeNumber, rows
    <3>3. CASE Insert(t, c)
      <4>1. /\ row'[c] = "live"
            /\ \A d \in Conversations : d # c => row'[d] = row[d]
        BY <1>1, <3>3, InsertIs
      <4>2. QED
        BY <4>1
    <3>4. CASE BreakOff(t, c)
      BY <1>1, <3>4 DEF BreakOff, BaseInv, TypeOK
    <3>5. CASE \/ Remember(t, c) \/ List(t, c) \/ Lead(t, c) \/ Plan(t, c) \/ Summarize(t, c)
               \/ SummaryFails(t, c) \/ Release(t, c) \/ CannotAppend(t, c) \/ Answer(t, c)
      BY <1>1, <3>5, QuietSteps DEF Quietly, rows, BaseInv
    <3>6. QED
      BY <2>1, <3>1, <3>2, <3>3, <3>4, <3>5 DEF TurnNext, Proceed
  <2>2. ASSUME NEW c \in Conversations, OwnerNext(c) \/ TimePasses(c) \/ LeaseExpires(c)
        PROVE  Expiring
    BY <1>1, <2>2 DEF OwnerNext, Create, Rename, Delete, TimePasses, LeaseExpires, rows,
                      BaseInv, TypeOK
  <2>3. CASE SelectExpired \/ SweepFails \/ UNCHANGED vars
    BY <2>3 DEF SelectExpired, SweepFails, vars, rows
  <2>4. CASE Purge
    BY <1>1, <2>4 DEF Purge, BaseInv, TypeOK, DoomInv
  <2>5. QED
    BY <1>1, <2>1, <2>2, <2>3, <2>4 DEF Next
<1>2. BaseInv /\ [Next]_vars => [Expiring]_vars
  BY <1>1
<1>3. QED
  BY <1>2, BaseInvariant, PTL DEF Spec, OnlyExpiredIsPurged

-----------------------------------------------------------------------------
(* The summary, whether or not its lease outlives the holder.               *)

\* A memory covers what it says it does.
Whole(m) == m.covers = 1..m.through

\* A turn leads with the lease, unless that may expire ...
LeaderAt(t) ==
  /\ turn[t].leader /\ ~LeaseMayExpire => lease[turn[t].conv] = t
  /\ turn[t].pc \in {"summarizing", "saving", "releasing"} => turn[t].leader
  /\ turn[t].pc \in {"idle", "leading"} => ~turn[t].leader

\* ... goes by memories that are whole; under its lease, by the stored one ...
MindAt(t) ==
  /\ Whole(turn[t].mem) /\ Whole(turn[t].loaded)
  /\ ~LeaseMayExpire /\ row[turn[t].conv] \notin {"deleted", "purged"} =>
       /\ turn[t].loaded.through <= summary[turn[t].conv].through
       /\ turn[t].leader /\ turn[t].pc \in {"listing", "summarizing", "saving"} =>
            turn[t].mem = summary[turn[t].conv]
       /\ turn[t].pc \in {"summarizing", "saving"} => turn[t].done = turn[t].mem.through

\* ... has come to the end of its memory, or is still behind the one it loaded, and
\* cuts behind replies ...
PlaceAt(t) ==
  /\ turn[t].pc \in {"summarizing", "saving"} =>
       /\ turn[t].done <= turn[t].mem.through
       /\ turn[t].done < turn[t].mem.through => turn[t].mem = turn[t].loaded
  /\ turn[t].pc = "saving" => turn[t].batch \in turn[t].cuts /\ turn[t].done < turn[t].batch
  /\ turn[t].pc \in {"summarizing", "saving"} /\ row[turn[t].conv] # "purged" =>
       \A i \in turn[t].cuts : /\ i \in DOMAIN messages[turn[t].conv]
                               /\ messages[turn[t].conv][i] = "assistant"

\* ... and gives the model a run of messages behind the summary.
ContextAt(t) ==
  /\ turn[t].pc \in {"answering", "inserting"} => turn[t].recent = {}
  /\ turn[t].pc = "appending" /\ turn[t].recent # {} =>
       \E a, b \in turn[t].recent : turn[t].recent = a..b /\ turn[t].mem.through < a

TurnInv(t) == LeaderAt(t) /\ MindAt(t) /\ PlaceAt(t) /\ ContextAt(t)

WholeAt(c) ==
  /\ Whole(summary[c])
  /\ summary[c].through > 0 =>
       /\ summary[c].through \in DOMAIN messages[c]
       /\ messages[c][summary[c].through] = "assistant"

MemoryInv ==
  /\ \A t \in Turns : TurnInv(t)
  /\ \A c \in Conversations : WholeAt(c)

\* What a step but a save does to a conversation: it may take messages, or go.
Steady ==
  \A c \in Conversations :
    /\ row'[c] \notin {"deleted", "purged"} => row[c] \notin {"deleted", "purged"}
    /\ row'[c] # "purged" =>
         /\ row[c] # "purged" /\ summary'[c] = summary[c]
         /\ \A i \in DOMAIN messages[c] :
              i \in DOMAIN messages'[c] /\ messages'[c][i] = messages[c][i]
    /\ row'[c] = "purged" =>
         \/ summary'[c] = NoMemory
         \/ summary'[c] = summary[c] /\ messages'[c] = messages[c]

LEMMA SteadyKeepsWhole ==
  ASSUME MemoryInv, Steady
  PROVE  \A c \in Conversations : WholeAt(c)'
<1> SUFFICES ASSUME NEW c \in Conversations
             PROVE  WholeAt(c)'
  OBVIOUS
<1>1. CASE row'[c] # "purged"
  BY <1>1 DEF MemoryInv, Steady, WholeAt, Whole
<1>2. CASE summary'[c] = NoMemory
  BY <1>2 DEF WholeAt, Whole, NoMemory
<1>3. CASE summary'[c] = summary[c] /\ messages'[c] = messages[c]
  BY <1>3 DEF MemoryInv, WholeAt, Whole
<1>4. QED
  BY <1>1, <1>2, <1>3 DEF Steady

LEMMA SteadyKeepsOther ==
  ASSUME BaseInv, MemoryInv, Steady, NEW u \in Turns, turn'[u] = turn[u],
         turn[u].leader /\ ~LeaseMayExpire => lease'[turn[u].conv] = lease[turn[u].conv]
  PROVE  TurnInv(u)'
<1>1. turn[u].conv \in Conversations
  BY TurnTyped DEF BaseInv
<1>2. LeaderAt(u)'
  BY <1>1 DEF MemoryInv, TurnInv, LeaderAt
<1>3. MindAt(u)'
  BY <1>1 DEF MemoryInv, TurnInv, MindAt, Steady, Whole
<1>4. PlaceAt(u)'
  BY <1>1 DEF MemoryInv, TurnInv, PlaceAt, Steady
<1>5. ContextAt(u)'
  BY <1>1 DEF MemoryInv, TurnInv, ContextAt
<1>6. QED
  BY <1>2, <1>3, <1>4, <1>5 DEF TurnInv

\* Every step but a save is steady.
LEMMA StepSteady ==
  ASSUME BaseInv, [Next]_vars
  PROVE  Steady \/ \E t \in Turns, c \in Conversations : Save(t, c)
<1>1. ASSUME UNCHANGED <<row, messages, summary>>
      PROVE  Steady
  BY <1>1 DEF Steady
<1>2. ASSUME NEW t \in Turns, NEW c \in Conversations, TurnNext(t, c), ~Save(t, c)
      PROVE  Steady
  <2>1. CASE Begin(t, c)
    <3>1. UNCHANGED <<messages, summary>>
          /\ \A d \in Conversations : row'[d] = row[d] \/ (row[d] = "none" /\ row'[d] = "born")
      BY <2>1 DEF Begin, BaseInv, TypeOK
    <3>2. QED
      BY <3>1 DEF Steady
  <2>2. CASE TakeNumber(t, c)
    BY <1>1, <2>2 DEF TakeNumber, rows
  <2>3. CASE Insert(t, c)
    <3>1. /\ row[c] \in {"live", "born"} /\ row'[c] = "live" /\ UNCHANGED summary
          /\ messages'[c] = Append(messages[c], turn[t].role)
          /\ \A d \in Conversations : d # c => row'[d] = row[d] /\ messages'[d] = messages[d]
      BY <2>3, InsertIs
    <3>2. messages[c] \in Seq({"user", "assistant"}) /\ turn[t].role \in {"user", "assistant"}
      BY TurnTyped DEF BaseInv, TypeOK
    <3>3. \A i \in DOMAIN messages[c] :
            i \in DOMAIN messages'[c] /\ messages'[c][i] = messages[c][i]
      BY <3>1, <3>2
    <3>4. QED
      BY <3>1, <3>3 DEF Steady
  <2>4. CASE BreakOff(t, c)
    <3>1. UNCHANGED <<messages, summary>>
          /\ \A d \in Conversations : row'[d] = row[d] \/ (row[d] = "born" /\ row'[d] = "none")
      BY <2>4 DEF BreakOff, BaseInv, TypeOK
    <3>2. QED
      BY <3>1 DEF Steady
  <2>5. CASE \/ Remember(t, c) \/ List(t, c) \/ Lead(t, c) \/ Plan(t, c) \/ Summarize(t, c)
             \/ SummaryFails(t, c) \/ Release(t, c) \/ CannotAppend(t, c) \/ Answer(t, c)
    BY <1>1, <2>5, QuietSteps DEF Quietly, rows, BaseInv
  <2>6. QED
    BY <1>2, <2>1, <2>2, <2>3, <2>4, <2>5 DEF TurnNext, Proceed
<1>3. ASSUME NEW c \in Conversations, OwnerNext(c) \/ TimePasses(c) \/ LeaseExpires(c)
      PROVE  Steady
  <2>1. UNCHANGED <<messages, summary>>
        /\ \A d \in Conversations : \/ row'[d] = row[d]
                                    \/ row[d] = "none" /\ row'[d] = "live"
                                    \/ row[d] = "live" /\ row'[d] = "deleted"
    BY <1>3 DEF OwnerNext, Create, Rename, Delete, TimePasses, LeaseExpires, rows,
                BaseInv, TypeOK
  <2>2. QED
    BY <2>1 DEF Steady
<1>4. CASE SelectExpired \/ SweepFails \/ UNCHANGED vars
  BY <1>1, <1>4 DEF SelectExpired, SweepFails, vars, rows
<1>5. CASE Purge
  <2>1. \A c \in Conversations :
          \/ row'[c] = "purged" /\ summary'[c] = NoMemory
          \/ row'[c] = row[c] /\ summary'[c] = summary[c] /\ messages'[c] = messages[c]
    BY <1>5 DEF Purge, BaseInv, TypeOK
  <2>2. QED
    BY <2>1 DEF Steady
<1>6. QED
  BY <1>2, <1>3, <1>4, <1>5 DEF Next

\* A turn without the lease, with nothing loaded and nothing listed, is as it should be.
LEMMA FreshIsSound ==
  ASSUME BaseInv', NEW t \in Turns, ~turn'[t].leader, turn'[t].loaded = NoMemory,
         Whole(turn'[t].mem), turn'[t].pc \notin {"summarizing", "saving", "releasing"},
         turn'[t].recent = {}
  PROVE  TurnInv(t)'
<1>1. turn'[t].conv \in Conversations
  BY DEF BaseInv, TypeOK, TurnStates
<1>2. summary'[turn'[t].conv].through \in Nat
  BY <1>1 DEF BaseInv, TypeOK, Memories
<1>3. MindAt(t)'
  BY <1>2 DEF MindAt, Whole, NoMemory
<1>4. QED
  BY <1>3 DEF TurnInv, LeaderAt, PlaceAt, ContextAt

\* What the model is given is the end of the conversation.
EndOf(n, m, k) == {i \in (n + 1)..m : Cardinality({j \in (n + 1)..m : j >= i}) <= k}

LEMMA EndIs ==
  ASSUME NEW n \in Nat, NEW m \in Nat, NEW k \in Nat, EndOf(n, m, k) # {}
  PROVE  \E a, b \in EndOf(n, m, k) : EndOf(n, m, k) = a..b /\ n < a
<1> DEFINE S == EndOf(n, m, k)
<1>1. \A i \in (n + 1)..m : Cardinality({j \in (n + 1)..m : j >= i}) = (m - i) + 1
  <2> SUFFICES ASSUME NEW i \in (n + 1)..m
               PROVE  Cardinality({j \in (n + 1)..m : j >= i}) = (m - i) + 1
    OBVIOUS
  <2>1. {j \in (n + 1)..m : j >= i} = i..m
    OBVIOUS
  <2>2. Cardinality(i..m) = (m - i) + 1
    BY FS_Interval
  <2>3. QED
    BY <2>1, <2>2
<1>2. S = {i \in (n + 1)..m : (m - i) + 1 <= k}
  BY <1>1 DEF EndOf
<1>3. PICK x \in (n + 1)..m : (m - x) + 1 <= k
  BY <1>2
<1>4. 1 <= k /\ n + 1 <= m
  BY <1>3
<1> DEFINE a == IF (m - k) + 1 > n + 1 THEN (m - k) + 1 ELSE n + 1
<1>5. a \in (n + 1)..m /\ (m - a) + 1 <= k
  BY <1>4
<1>6. S = a..m
  BY <1>2, <1>4
<1> HIDE DEF a
<1>7. a \in Int /\ n < a /\ a <= m
  BY <1>5
<1>8. a \in a..m /\ m \in a..m
  BY <1>7
<1> HIDE DEF S
<1>9. \E x1, x2 \in S : S = x1..x2 /\ n < x1
  BY <1>6, <1>7, <1>8
<1>10. QED
  BY <1>9 DEF S

\* The context of a turn.
LEMMA ContextSteps ==
  ASSUME BaseInv, BaseInv', MemoryInv, NEW t \in Turns, NEW c \in Conversations,
         Begin(t, c) \/ Remember(t, c) \/ List(t, c)
  PROVE  TurnInv(t)'
<1>1. /\ turn[t] \in TurnStates /\ turn[t].mem.through \in Nat
      /\ Whole(Stored(c)) /\ Stored(c) \in Memories
  BY TurnTyped, StoredTyped DEF BaseInv, MemoryInv, WholeAt, Whole, Stored, NoMemory
<1>2. TurnInv(t)
  BY DEF MemoryInv
<1>3. CASE Begin(t, c)
  <2> DEFINE s == [Idle(c) EXCEPT !.pc = "remembering", !.loaded = Stored(c)]
  <2>1. Becomes(t, s) /\ UNCHANGED summary
    BY <1>3 DEF Begin
  <2>2. /\ s.pc = "remembering" /\ s.conv = c /\ s.leader = FALSE /\ s.mem = NoMemory
        /\ s.loaded = Stored(c)
    BY DEF Idle
  <2> HIDE DEF s
  <2>3. turn'[t] = s
    BY <2>1 DEF Becomes, BaseInv, TypeOK
  <2>4. Stored(c).through <= summary[c].through
    BY StoredTyped DEF Stored, NoMemory, BaseInv
  <2>5. Whole(NoMemory)
    BY DEF Whole, NoMemory
  <2>6. MindAt(t)'
    BY <1>1, <2>1, <2>2, <2>3, <2>4, <2>5 DEF MindAt
  <2>7. QED
    BY <2>2, <2>3, <2>6 DEF TurnInv, LeaderAt, PlaceAt, ContextAt
<1>4. CASE Remember(t, c)
  <2> DEFINE s == [turn[t] EXCEPT !.pc = "listing", !.mem = Stored(c)]
  <2>1. Becomes(t, s) /\ UNCHANGED <<row, summary, lease>> /\ turn[t].conv = c
        /\ turn[t].pc = "remembering"
    BY <1>4 DEF Remember, At, rows
  <2>2. turn'[t] = s
    BY <2>1 DEF Becomes, BaseInv, TypeOK
  <2>3. /\ s.pc = "listing" /\ s.conv = c /\ s.leader = turn[t].leader
        /\ s.mem = Stored(c) /\ s.loaded = turn[t].loaded
    BY <1>1, <2>1 DEF TurnStates
  <2>4. row[c] \notin {"deleted", "purged"} => Stored(c) = summary[c]
    BY DEF BaseInv, TypeOK, RowInv, Stored
  <2> HIDE DEF s
  <2>5. MindAt(t)'
    BY <1>1, <1>2, <2>1, <2>2, <2>3, <2>4 DEF TurnInv, MindAt
  <2>6. QED
    BY <1>2, <2>1, <2>2, <2>3, <2>5 DEF TurnInv, LeaderAt, PlaceAt, ContextAt
<1>5. CASE List(t, c)
  <2>1. /\ turn[t].conv = c /\ turn[t].pc = "listing" /\ ~turn[t].leader
        /\ UNCHANGED <<row, summary, lease>>
    BY <1>5 DEF List, At, rows
  <2>2. CASE Goto(t, "leading")
    <3> DEFINE s == [turn[t] EXCEPT !.pc = "leading"]
    <3>1. turn'[t] = s
      BY <2>2 DEF Goto, Becomes, BaseInv, TypeOK
    <3>2. /\ s.pc = "leading" /\ s.conv = c /\ s.leader = turn[t].leader
          /\ s.mem = turn[t].mem /\ s.loaded = turn[t].loaded
      BY <1>1, <2>1 DEF TurnStates
    <3> HIDE DEF s
    <3>3. MindAt(t)'
      BY <1>2, <2>1, <3>1, <3>2 DEF TurnInv, MindAt
    <3>4. QED
      BY <2>1, <3>1, <3>2, <3>3 DEF TurnInv, LeaderAt, PlaceAt, ContextAt
  <2>3. ASSUME NEW S \in Trimmed(After(c, turn[t].mem.through)),
               Becomes(t, [Idle(c) EXCEPT !.pc = "appending", !.mem = turn[t].mem,
                                          !.recent = S, !.spoiled = turn[t].spoiled])
        PROVE  TurnInv(t)'
    <3> DEFINE s == [Idle(c) EXCEPT !.pc = "appending", !.mem = turn[t].mem,
                                    !.recent = S, !.spoiled = turn[t].spoiled]
    <3>1. turn'[t] = s
      BY <2>3 DEF Becomes, BaseInv, TypeOK
    <3>2. /\ s.pc = "appending" /\ s.conv = c /\ s.leader = FALSE /\ s.recent = S
          /\ s.mem = turn[t].mem /\ s.loaded = NoMemory
      BY DEF Idle
    <3> HIDE DEF s
    <3>3. summary[c].through \in Nat
      BY StoredTyped DEF BaseInv
    <3>4. MindAt(t)'
      BY <1>2, <2>1, <3>1, <3>2, <3>3 DEF TurnInv, MindAt, Whole, NoMemory
    <3>5. PICK k \in Fitting :
            S = {i \in After(c, turn[t].mem.through) :
                   Cardinality({j \in After(c, turn[t].mem.through) : j >= i}) <= k}
      BY DEF Trimmed
    <3>6. /\ After(c, turn[t].mem.through) = (turn[t].mem.through + 1)..Len(messages[c])
          /\ Len(messages[c]) \in Nat /\ k \in Nat
      BY <1>1, AfterIs, ConversationAssumption DEF BaseInv
    <3>7. S # {} => \E a, b \in S : S = a..b /\ turn[t].mem.through < a
      <4> DEFINE n == turn[t].mem.through
                 m == Len(messages[c])
      <4>1. S = EndOf(n, m, k)
        BY <3>5, <3>6 DEF EndOf
      <4>2. n \in Nat /\ m \in Nat /\ k \in Nat
        BY <1>1, <3>6
      <4> HIDE DEF n, m
      <4>3. S # {} => \E a, b \in S : S = a..b /\ n < a
        BY <4>1, <4>2, EndIs
      <4>4. QED
        BY <4>3 DEF n
    <3>8. QED
      BY <3>1, <3>2, <3>4, <3>7 DEF TurnInv, LeaderAt, PlaceAt, ContextAt
  <2>4. QED
    BY <1>5, <2>2, <2>3 DEF List
<1>6. QED
  BY <1>3, <1>4, <1>5

\* The leader's steps, but for the save.
LEMMA LeaderSteps ==
  ASSUME BaseInv, BaseInv', MemoryInv, NEW t \in Turns, NEW c \in Conversations,
         \/ Lead(t, c) \/ Plan(t, c) \/ Summarize(t, c) \/ SummaryFails(t, c) \/ Release(t, c)
  PROVE  TurnInv(t)'
<1>1. /\ turn[t] \in TurnStates /\ turn[t].mem.through \in Nat
      /\ turn[t].loaded.through \in Nat /\ Whole(Stored(c)) /\ Stored(c) \in Memories
  BY TurnTyped, StoredTyped DEF BaseInv, MemoryInv, WholeAt, Whole, Stored, NoMemory
<1>2. TurnInv(t)
  BY DEF MemoryInv
<1>3. turn[t].conv = c /\ UNCHANGED <<row, messages, summary>>
  BY DEF Lead, Plan, Summarize, SummaryFails, Release, At, rows
<1>4. Whole(NoMemory) /\ NoMemory.through = 0 /\ summary[c].through \in Nat
  BY StoredTyped DEF Whole, NoMemory, BaseInv
<1>5. CASE Lead(t, c)
  <2>1. turn[t].pc = "leading"
    BY <1>5 DEF Lead, At
  <2>2. CASE /\ lease' = [lease EXCEPT ![c] = t]
             /\ Becomes(t, [turn[t] EXCEPT !.pc = "remembering", !.tried = TRUE,
                                           !.leader = TRUE])
    <3> DEFINE s == [turn[t] EXCEPT !.pc = "remembering", !.tried = TRUE, !.leader = TRUE]
    <3>1. turn'[t] = s
      BY <2>2 DEF Becomes, BaseInv, TypeOK
    <3>2. /\ s.pc = "remembering" /\ s.conv = c
          /\ s.mem = turn[t].mem /\ s.loaded = turn[t].loaded
      BY <1>1, <1>3 DEF TurnStates
    <3> HIDE DEF s
    <3>3. lease'[c] = t
      BY <2>2 DEF BaseInv, TypeOK
    <3>4. MindAt(t)'
      BY <1>2, <1>3, <3>1, <3>2 DEF TurnInv, MindAt
    <3>5. QED
      BY <3>1, <3>2, <3>3, <3>4 DEF TurnInv, LeaderAt, PlaceAt, ContextAt
  <2>3. CASE Becomes(t, [turn[t] EXCEPT !.pc = "listing", !.tried = TRUE,
                                        !.loaded = NoMemory])
    <3> DEFINE s == [turn[t] EXCEPT !.pc = "listing", !.tried = TRUE, !.loaded = NoMemory]
    <3>1. turn'[t] = s
      BY <2>3 DEF Becomes, BaseInv, TypeOK
    <3>2. /\ s.pc = "listing" /\ s.conv = c /\ s.leader = turn[t].leader
          /\ s.mem = turn[t].mem /\ s.loaded = NoMemory
      BY <1>1, <1>3 DEF TurnStates
    <3> HIDE DEF s
    <3>3. ~turn[t].leader
      BY <1>2, <2>1 DEF TurnInv, LeaderAt
    <3>4. MindAt(t)'
      BY <1>2, <1>3, <1>4, <3>1, <3>2, <3>3 DEF TurnInv, MindAt
    <3>5. QED
      BY <3>1, <3>2, <3>3, <3>4 DEF TurnInv, LeaderAt, PlaceAt, ContextAt
  <2>4. QED
    BY <1>5, <2>2, <2>3 DEF Lead
<1>6. CASE Plan(t, c)
  <2>1. turn[t].pc = "listing" /\ turn[t].leader /\ UNCHANGED lease
    BY <1>6 DEF Plan, At
  <2> DEFINE cuts == Cuts(c, turn[t].mem.through)
  <2>2. CASE Becomes(t, [turn[t] EXCEPT !.pc = "summarizing", !.cuts = cuts,
                                        !.done = turn[t].mem.through])
    <3> DEFINE s == [turn[t] EXCEPT !.pc = "summarizing", !.cuts = cuts,
                                    !.done = turn[t].mem.through]
    <3>1. turn'[t] = s
      BY <2>2 DEF Becomes, BaseInv, TypeOK
    <3>2. /\ s.pc = "summarizing" /\ s.conv = c /\ s.leader = turn[t].leader
          /\ s.mem = turn[t].mem /\ s.loaded = turn[t].loaded
          /\ s.cuts = cuts /\ s.done = turn[t].mem.through
      BY <1>1, <1>3 DEF TurnStates
    <3>3. \A i \in cuts : i \in DOMAIN messages[c] /\ messages[c][i] = "assistant"
      BY DEF Cuts, After
    <3> HIDE DEF s, cuts
    <3>4. MindAt(t)'
      BY <1>2, <1>3, <2>1, <3>1, <3>2 DEF TurnInv, MindAt
    <3>5. LeaderAt(t)'
      BY <1>2, <1>3, <2>1, <3>1, <3>2 DEF TurnInv, LeaderAt
    <3>6. PlaceAt(t)' /\ ContextAt(t)'
      BY <1>1, <1>3, <3>1, <3>2, <3>3 DEF PlaceAt, ContextAt
    <3>7. QED
      BY <3>4, <3>5, <3>6 DEF TurnInv
  <2>3. CASE Goto(t, "releasing")
    <3> DEFINE s == [turn[t] EXCEPT !.pc = "releasing"]
    <3>1. turn'[t] = s
      BY <2>3 DEF Goto, Becomes, BaseInv, TypeOK
    <3>2. /\ s.pc = "releasing" /\ s.conv = c /\ s.leader = turn[t].leader
          /\ s.mem = turn[t].mem /\ s.loaded = turn[t].loaded
      BY <1>1, <1>3 DEF TurnStates
    <3> HIDE DEF s
    <3>3. MindAt(t)' /\ LeaderAt(t)'
      BY <1>2, <1>3, <2>1, <3>1, <3>2 DEF TurnInv, MindAt, LeaderAt
    <3>4. QED
      BY <3>1, <3>2, <3>3 DEF TurnInv, PlaceAt, ContextAt
  <2>4. QED
    BY <1>6, <2>2, <2>3 DEF Plan
<1>7. CASE Summarize(t, c)
  <2>1. PICK b \in {i \in turn[t].cuts : turn[t].done < i} :
          Becomes(t, [turn[t] EXCEPT !.pc = "saving", !.batch = b])
    BY <1>7 DEF Summarize
  <2>2. turn[t].pc = "summarizing" /\ UNCHANGED lease
    BY <1>7 DEF Summarize, At
  <2> DEFINE s == [turn[t] EXCEPT !.pc = "saving", !.batch = b]
  <2>3. turn'[t] = s
    BY <2>1 DEF Becomes, BaseInv, TypeOK
  <2>4. /\ s.pc = "saving" /\ s.conv = c /\ s.leader = turn[t].leader
        /\ s.mem = turn[t].mem /\ s.loaded = turn[t].loaded
        /\ s.cuts = turn[t].cuts /\ s.done = turn[t].done /\ s.batch = b
    BY <1>1, <1>3 DEF TurnStates
  <2> HIDE DEF s
  <2>5. MindAt(t)' /\ LeaderAt(t)'
    BY <1>2, <1>3, <2>2, <2>3, <2>4 DEF TurnInv, MindAt, LeaderAt
  <2>6. PlaceAt(t)' /\ ContextAt(t)'
    BY <1>2, <1>3, <2>1, <2>2, <2>3, <2>4 DEF TurnInv, PlaceAt, ContextAt
  <2>7. QED
    BY <2>5, <2>6 DEF TurnInv
<1>8. CASE SummaryFails(t, c)
  <2> DEFINE s == [turn[t] EXCEPT !.pc = "releasing", !.mem = Stored(c),
                     !.spoiled = turn[t].spoiled \/ turn[t].batch = 0]
  <2>1. turn[t].pc = "summarizing" /\ UNCHANGED lease /\ Becomes(t, s)
    BY <1>8 DEF SummaryFails, At
  <2>2. turn'[t] = s
    BY <2>1 DEF Becomes, BaseInv, TypeOK
  <2>3. /\ s.pc = "releasing" /\ s.conv = c /\ s.leader = turn[t].leader
        /\ s.mem = Stored(c) /\ s.loaded = turn[t].loaded
    BY <1>1, <1>3 DEF TurnStates
  <2> HIDE DEF s
  <2>4. MindAt(t)' /\ LeaderAt(t)'
    BY <1>1, <1>2, <1>3, <2>1, <2>2, <2>3 DEF TurnInv, MindAt, LeaderAt
  <2>5. QED
    BY <2>2, <2>3, <2>4 DEF TurnInv, PlaceAt, ContextAt
<1>9. CASE Release(t, c)
  <2>1. CASE Leave(t)
    <3>1. turn'[t] = Idle(c)
      BY <1>3, <2>1 DEF Leave, Becomes, BaseInv, TypeOK
    <3>2. QED
      BY <1>4, <3>1, FreshIsSound DEF Idle
  <2>2. CASE Becomes(t, [turn[t] EXCEPT !.pc = "listing", !.leader = FALSE,
                         !.loaded = NoMemory, !.cuts = {}, !.done = 0, !.batch = 0])
    <3> DEFINE s == [turn[t] EXCEPT !.pc = "listing", !.leader = FALSE,
                       !.loaded = NoMemory, !.cuts = {}, !.done = 0, !.batch = 0]
    <3>1. turn'[t] = s
      BY <2>2 DEF Becomes, BaseInv, TypeOK
    <3>2. /\ s.pc = "listing" /\ s.conv = c /\ s.leader = FALSE
          /\ s.mem = turn[t].mem /\ s.loaded = NoMemory
      BY <1>1, <1>3 DEF TurnStates
    <3> HIDE DEF s
    <3>3. MindAt(t)'
      BY <1>2, <1>3, <1>4, <3>1, <3>2 DEF TurnInv, MindAt
    <3>4. QED
      BY <3>1, <3>2, <3>3 DEF TurnInv, LeaderAt, PlaceAt, ContextAt
  <2>3. QED
    BY <1>9, <2>1, <2>2 DEF Release
<1>10. QED
  BY <1>5, <1>6, <1>7, <1>8, <1>9

\* The steps with a message, and the ends of a turn.
LEMMA MessageSteps ==
  ASSUME BaseInv, BaseInv', MemoryInv, NEW t \in Turns, NEW c \in Conversations,
         \/ TakeNumber(t, c) \/ CannotAppend(t, c) \/ Insert(t, c) \/ Answer(t, c)
         \/ BreakOff(t, c)
  PROVE  TurnInv(t)'
<1>1. Whole(NoMemory)
  BY DEF Whole, NoMemory
<1>2. CASE Leave(t)
  <2>1. turn'[t] = Idle(turn[t].conv)
    BY <1>2 DEF Leave, Becomes, BaseInv, TypeOK
  <2>2. QED
    BY <1>1, <2>1, FreshIsSound DEF Idle
<1>3. CASE TakeNumber(t, c)
  <2> DEFINE s == [Idle(c) EXCEPT !.pc = "inserting", !.role = turn[t].role,
                                  !.number = Len(messages[c]) + 1]
  <2>1. turn'[t] = s
    BY <1>3 DEF TakeNumber, Becomes, BaseInv, TypeOK
  <2>2. /\ s.pc = "inserting" /\ ~s.leader /\ s.loaded = NoMemory /\ s.mem = NoMemory
        /\ s.recent = {}
    BY DEF Idle
  <2> HIDE DEF s
  <2>3. QED
    BY <1>1, <2>1, <2>2, FreshIsSound
<1>4. CASE Insert(t, c)
  <2>1. PICK s \in TurnStates : Becomes(t, s) /\ s \in {Idle(c), Answering(c)}
    BY <1>4, InsertLeaves
  <2>2. turn'[t] = s
    BY <2>1 DEF Becomes, BaseInv, TypeOK
  <2>3. CASE s = Idle(c)
    BY <1>1, <2>2, <2>3, FreshIsSound DEF Idle
  <2>4. CASE s = Answering(c)
    <3>1. /\ s.pc = "answering" /\ ~s.leader /\ s.loaded = NoMemory
          /\ s.mem = NoMemory /\ s.recent = {}
      BY <2>4 DEF Idle, Answering
    <3>2. QED
      BY <1>1, <2>2, <3>1, FreshIsSound
  <2>5. QED
    BY <2>1, <2>3, <2>4
<1>5. CASE Answer(t, c) /\ Goto(t, "appending")
  <2> DEFINE s == [turn[t] EXCEPT !.pc = "appending"]
  <2>1. /\ turn[t].pc = "answering" /\ turn[t].conv = c
        /\ UNCHANGED <<row, summary, lease>>
    BY <1>5 DEF Answer, At, rows
  <2>2. turn'[t] = s
    BY <1>5 DEF Goto, Becomes, BaseInv, TypeOK
  <2>3. turn[t] \in TurnStates
    BY TurnTyped DEF BaseInv
  <2>4. /\ s.pc = "appending" /\ s.conv = c /\ s.leader = turn[t].leader
        /\ s.mem = turn[t].mem /\ s.loaded = turn[t].loaded /\ s.recent = turn[t].recent
    BY <2>1, <2>3 DEF TurnStates
  <2> HIDE DEF s
  <2>5. TurnInv(t)
    BY DEF MemoryInv
  <2>6. MindAt(t)' /\ LeaderAt(t)'
    BY <2>1, <2>2, <2>4, <2>5 DEF TurnInv, MindAt, LeaderAt
  <2>7. PlaceAt(t)' /\ ContextAt(t)'
    BY <2>1, <2>2, <2>4, <2>5 DEF TurnInv, PlaceAt, ContextAt
  <2>8. QED
    BY <2>6, <2>7 DEF TurnInv
<1>6. QED
  BY <1>2, <1>3, <1>4, <1>5 DEF CannotAppend, Answer, BreakOff

\* A save continues the summary, or finds one that is as far as its batch.  What it
\* stores is whole even if the lease has long passed to another turn, because it
\* writes only over a shorter memory than its own batch.
LEMMA SaveStep ==
  ASSUME BaseInv, BaseInv', MemoryInv, NEW t \in Turns, NEW c \in Conversations, Save(t, c)
  PROVE  /\ MemoryInv'
         /\ \/ summary' = summary
            \/ /\ row[c] = "live"
               /\ turn[t].batch \in DOMAIN messages[c]
               /\ messages[c][turn[t].batch] = "assistant"
               /\ summary' = [summary EXCEPT ![c] = [through |-> turn[t].batch,
                                                     covers |-> 1..turn[t].batch]]
               /\ ~LeaseMayExpire => summary[c].through < turn[t].batch
<1> DEFINE new == [through |-> turn[t].batch,
                   covers |-> turn[t].mem.covers \cup (turn[t].done + 1) .. turn[t].batch]
           to == IF turn[t].batch = Newest(turn[t].cuts) THEN "releasing" ELSE "summarizing"
<1>1. /\ turn[t].pc = "saving" /\ turn[t].conv = c
      /\ UNCHANGED <<row, messages, aged, old, lock, lease, doomed, faults>>
      /\ row[c] # "live" => summary' = summary
      /\ \A d \in Conversations : d # c => summary'[d] = summary[d]
  BY SaveIs DEF BaseInv, At
<1>2. PICK q \in TurnStates : Becomes(t, q) /\ q.conv = c
  BY SaveIs DEF BaseInv
<1>3. \A u \in Turns : u # t => turn'[u] = turn[u]
  BY <1>2 DEF Becomes, BaseInv, TypeOK
<1>4. /\ turn[t] \in TurnStates /\ turn[t].batch \in Nat /\ turn[t].done \in Nat
      /\ turn[t].mem.through \in Nat /\ turn[t].loaded.through \in Nat
      /\ \A d \in Conversations : summary[d].through \in Nat
  BY TurnTyped, StoredTyped DEF BaseInv
<1>5. TurnInv(t) /\ turn[t].leader /\ (~LeaseMayExpire => lease[c] = t)
  BY <1>1 DEF MemoryInv, TurnInv, LeaderAt
<1>6. ~LeaseMayExpire => \A u \in Turns : turn[u].leader /\ turn[u].conv = c => u = t
  BY <1>5 DEF MemoryInv, TurnInv, LeaderAt
<1>7. CASE row[c] # "live"
  <2> DEFINE s == [turn[t] EXCEPT !.pc = "releasing", !.lost = TRUE]
  <2>1. Becomes(t, s) /\ summary' = summary
    BY <1>1, <1>7 DEF Save
  <2>2. turn'[t] = s
    BY <2>1 DEF Becomes, BaseInv, TypeOK
  <2>3. /\ s.pc = "releasing" /\ s.conv = c /\ s.leader = turn[t].leader
        /\ s.mem = turn[t].mem /\ s.loaded = turn[t].loaded
    BY <1>1, <1>4 DEF TurnStates
  <2> HIDE DEF s
  <2>4. MindAt(t)' /\ LeaderAt(t)'
    BY <1>1, <1>5, <2>1, <2>2, <2>3 DEF TurnInv, MindAt, LeaderAt
  <2>5. TurnInv(t)'
    BY <2>2, <2>3, <2>4 DEF TurnInv, PlaceAt, ContextAt
  <2>6. Steady
    BY <1>1, <2>1 DEF Steady
  <2>7. MemoryInv'
    BY <1>1, <1>3, <2>5, <2>6, SteadyKeepsOther, SteadyKeepsWhole DEF MemoryInv
  <2>8. QED
    BY <2>1, <2>7
<1>8. CASE row[c] = "live" /\ ~(turn[t].loaded.through < turn[t].batch)
  <2> DEFINE s == [turn[t] EXCEPT !.pc = to, !.mem = turn[t].loaded,
                                  !.loaded = turn[t].loaded, !.done = turn[t].batch]
  <2>1. summary' = summary /\ Becomes(t, s)
    BY <1>8 DEF Save
  <2>2. turn'[t] = s
    BY <2>1 DEF Becomes, BaseInv, TypeOK
  <2>3. /\ s.pc \in {"releasing", "summarizing"} /\ s.conv = c /\ s.leader = turn[t].leader
        /\ s.mem = turn[t].loaded /\ s.loaded = turn[t].loaded /\ s.done = turn[t].batch
        /\ s.cuts = turn[t].cuts
    BY <1>1, <1>4 DEF TurnStates
  <2> HIDE DEF s, to
  <2>4. LeaseMayExpire
    <3>1. SUFFICES ASSUME ~LeaseMayExpire
                   PROVE  FALSE
      BY ConversationAssumption
    <3>2. /\ turn[t].loaded.through <= summary[c].through /\ turn[t].mem = summary[c]
          /\ turn[t].done = turn[t].mem.through /\ turn[t].done < turn[t].batch
      BY <1>1, <1>5, <1>8, <3>1 DEF TurnInv, MindAt, PlaceAt
    <3>3. QED
      BY <1>4, <1>8, <3>2
  <2>5. MindAt(t)' /\ LeaderAt(t)'
    BY <1>1, <1>5, <2>2, <2>3, <2>4 DEF TurnInv, MindAt, LeaderAt
  <2>6. PlaceAt(t)' /\ ContextAt(t)'
    BY <1>1, <1>4, <1>5, <1>8, <2>2, <2>3 DEF TurnInv, PlaceAt, ContextAt
  <2>7. Steady
    BY <1>1, <2>1 DEF Steady
  <2>8. MemoryInv'
    BY <1>1, <1>3, <2>5, <2>6, <2>7, SteadyKeepsOther, SteadyKeepsWhole
    DEF MemoryInv, TurnInv
  <2>9. QED
    BY <2>1, <2>8
<1>9. CASE row[c] = "live" /\ turn[t].loaded.through < turn[t].batch
  <2>1. /\ turn[t].done <= turn[t].mem.through /\ turn[t].done < turn[t].batch
        /\ turn[t].done < turn[t].mem.through => turn[t].mem = turn[t].loaded
        /\ turn[t].batch \in turn[t].cuts /\ Whole(turn[t].mem)
        /\ turn[t].batch \in DOMAIN messages[c] /\ messages[c][turn[t].batch] = "assistant"
    BY <1>1, <1>5, <1>9 DEF TurnInv, MindAt, PlaceAt
  <2>2. ~LeaseMayExpire => summary[c].through < turn[t].batch
    BY <1>1, <1>4, <1>5, <1>9, <2>1 DEF TurnInv, MindAt
  <2> DEFINE s == [turn[t] EXCEPT !.pc = to, !.mem = new, !.loaded = new,
                                  !.done = turn[t].batch]
  <2>3. summary' = [summary EXCEPT ![c] = new] /\ Becomes(t, s)
    BY <1>9 DEF Save
  <2>4. summary'[c] = new
    BY <2>3 DEF BaseInv, TypeOK
  <2>5. turn'[t] = s
    BY <2>3 DEF Becomes, BaseInv, TypeOK
  <2>6. /\ s.pc \in {"releasing", "summarizing"} /\ s.conv = c /\ s.leader = turn[t].leader
        /\ s.mem = new /\ s.loaded = new /\ s.done = turn[t].batch /\ s.cuts = turn[t].cuts
    BY <1>1, <1>4 DEF TurnStates
  <2> HIDE DEF s, to
  <2>7. new.through = turn[t].batch /\ new.covers = 1..turn[t].batch /\ Whole(new)
    <3>1. turn[t].mem.through < turn[t].batch
      BY <1>4, <1>9, <2>1
    <3>2. turn[t].mem.covers = 1..turn[t].mem.through
      BY <2>1 DEF Whole
    <3>3. new.covers = 1..turn[t].batch
      BY <1>4, <2>1, <3>1, <3>2
    <3>4. QED
      BY <3>3 DEF Whole
  <2>8. summary' = [summary EXCEPT ![c] = [through |-> turn[t].batch,
                                           covers |-> 1..turn[t].batch]]
    BY <2>3, <2>7
  <2> HIDE DEF new
  <2>9. MindAt(t)'
    BY <1>1, <1>4, <2>4, <2>5, <2>6, <2>7 DEF MindAt
  <2>10. LeaderAt(t)'
    BY <1>1, <1>5, <2>5, <2>6 DEF LeaderAt
  <2>11. PlaceAt(t)' /\ ContextAt(t)'
    BY <1>1, <1>4, <1>5, <2>5, <2>6, <2>7 DEF TurnInv, PlaceAt, ContextAt
  <2>12. ASSUME NEW u \in Turns, u # t
         PROVE  TurnInv(u)'
    <3>1. turn'[u] = turn[u] /\ TurnInv(u) /\ turn[u].conv \in Conversations
      BY <1>3, <2>12, TurnTyped DEF MemoryInv, BaseInv
    <3>2. turn[u].conv = c /\ ~LeaseMayExpire =>
            /\ turn[u].pc \notin {"summarizing", "saving"} /\ ~turn[u].leader
      BY <1>6, <2>12, <3>1 DEF TurnInv, LeaderAt
    <3>3. ~LeaseMayExpire =>
            /\ turn[u].loaded.through \in Nat
            /\ turn[u].loaded.through <= summary[c].through
                 => turn[u].loaded.through <= summary'[c].through
      BY <1>4, <2>2, <2>4, <2>7, TurnTyped DEF BaseInv
    <3>4. MindAt(u)'
      BY <1>1, <3>1, <3>2, <3>3 DEF TurnInv, MindAt
    <3>5. QED
      BY <1>1, <3>1, <3>4 DEF TurnInv, LeaderAt, PlaceAt, ContextAt
  <2>13. \A d \in Conversations : WholeAt(d)'
    <3>1. WholeAt(c)'
      BY <1>1, <2>1, <2>4, <2>7 DEF WholeAt
    <3>2. ASSUME NEW d \in Conversations, d # c
          PROVE  WholeAt(d)'
      BY <1>1, <3>2 DEF MemoryInv, WholeAt
    <3>3. QED
      BY <3>1, <3>2
  <2>14. MemoryInv'
    BY <2>9, <2>10, <2>11, <2>12, <2>13 DEF MemoryInv, TurnInv
  <2>15. QED
    BY <1>9, <2>1, <2>2, <2>8, <2>14
<1>10. QED
  BY <1>7, <1>8, <1>9

\* Nobody but its holder gives up a lease that is in use.
LEMMA LeaseKept ==
  ASSUME BaseInv, MemoryInv, ~LeaseMayExpire, [Next]_vars, NEW u \in Turns,
         turn[u].leader, \A c \in Conversations : ~TurnNext(u, c)
  PROVE  lease'[turn[u].conv] = lease[turn[u].conv]
<1>1. lease[turn[u].conv] = u /\ turn[u].conv \in Conversations /\ u # NoOne
  BY TurnTyped, ConversationAssumption DEF MemoryInv, TurnInv, LeaderAt, BaseInv
<1>2. ASSUME NEW t \in Turns, NEW c \in Conversations, TurnNext(t, c), u # t
      PROVE  lease'[turn[u].conv] = lease[turn[u].conv]
  <2>1. \/ lease' = lease
        \/ lease[c] = NoOne /\ lease' = [lease EXCEPT ![c] = t]
        \/ lease[c] = t /\ lease' = [lease EXCEPT ![c] = NoOne]
    BY <1>2 DEF TurnNext, Proceed, Begin, Remember, List, Lead, Plan, Summarize,
                SummaryFails, Save, Release, TakeNumber, CannotAppend, Insert, Answer, BreakOff
  <2>2. QED
    BY <1>1, <1>2, <2>1 DEF BaseInv, TypeOK
<1>3. ASSUME NEW c \in Conversations, OwnerNext(c) \/ TimePasses(c) \/ LeaseExpires(c)
      PROVE  lease'[turn[u].conv] = lease[turn[u].conv]
  <2>1. CASE LeaseExpires(c)
    <3>1. c # turn[u].conv
      BY <1>1, <2>1 DEF LeaseExpires
    <3>2. QED
      BY <1>1, <2>1, <3>1 DEF LeaseExpires, BaseInv, TypeOK
  <2>2. QED
    BY <1>3, <2>1 DEF OwnerNext, Create, Rename, Delete, TimePasses
<1>4. CASE SelectExpired \/ Purge \/ SweepFails \/ UNCHANGED vars
  BY <1>4 DEF SelectExpired, Purge, SweepFails, vars
<1>5. QED
  BY <1>2, <1>3, <1>4 DEF Next

LEMMA MemoryStep ==
  ASSUME BaseInv, MemoryInv, [Next]_vars
  PROVE  MemoryInv'
<1>1. BaseInv'
  BY BaseStep
<1>2. CASE \E t \in Turns, c \in Conversations : Save(t, c)
  BY <1>1, <1>2, SaveStep
<1>3. CASE Steady /\ ~(\E t \in Turns, c \in Conversations : Save(t, c))
  <2>1. ASSUME NEW u \in Turns, \A c \in Conversations : ~TurnNext(u, c)
        PROVE  TurnInv(u)'
    <3>1. turn'[u] = turn[u]
      <4>1. ASSUME NEW t \in Turns, NEW c \in Conversations, TurnNext(t, c)
            PROVE  turn'[u] = turn[u]
        <5>1. t # u
          BY <2>1, <4>1
        <5>2. \E s : Becomes(t, s)
          BY <4>1 DEF TurnNext, Proceed, Begin, Remember, List, Lead, Plan, Summarize,
             SummaryFails, Save, Release, TakeNumber, CannotAppend, Insert, Answer, BreakOff,
             Leave, Goto
        <5>3. QED
          BY <5>1, <5>2 DEF Becomes, BaseInv, TypeOK
      <4>2. ASSUME NEW c \in Conversations, OwnerNext(c) \/ TimePasses(c) \/ LeaseExpires(c)
            PROVE  turn' = turn
        BY <4>2 DEF OwnerNext, Create, Rename, Delete, TimePasses, LeaseExpires
      <4>3. CASE SelectExpired \/ Purge \/ SweepFails \/ UNCHANGED vars
        BY <4>3 DEF SelectExpired, Purge, SweepFails, vars
      <4>4. QED
        BY <4>1, <4>2, <4>3 DEF Next
    <3>2. turn[u].leader /\ ~LeaseMayExpire => lease'[turn[u].conv] = lease[turn[u].conv]
      BY <2>1, LeaseKept
    <3>3. QED
      BY <1>3, <3>1, <3>2, SteadyKeepsOther
  <2>2. ASSUME NEW u \in Turns, NEW c \in Conversations, TurnNext(u, c)
        PROVE  TurnInv(u)'
    <3>1. CASE Begin(u, c) \/ Remember(u, c) \/ List(u, c)
      BY <1>1, <3>1, ContextSteps
    <3>2. CASE \/ Lead(u, c) \/ Plan(u, c) \/ Summarize(u, c) \/ SummaryFails(u, c)
               \/ Release(u, c)
      BY <1>1, <3>2, LeaderSteps
    <3>3. CASE \/ TakeNumber(u, c) \/ CannotAppend(u, c) \/ Insert(u, c) \/ Answer(u, c)
               \/ BreakOff(u, c)
      BY <1>1, <3>3, MessageSteps
    <3>4. QED
      BY <1>3, <2>2, <3>1, <3>2, <3>3 DEF TurnNext, Proceed
  <2>3. \A c \in Conversations : WholeAt(c)'
    BY <1>3, SteadyKeepsWhole
  <2>4. QED
    BY <2>1, <2>2, <2>3 DEF MemoryInv
<1>4. QED
  BY <1>2, <1>3, StepSteady

LEMMA MemoryInit ==
  ASSUME Init
  PROVE  MemoryInv
<1>1. PICK c \in Conversations : turn = [t \in Turns |-> Idle(c)]
  BY DEF Init
<1>2. Whole(NoMemory) /\ NoMemory.through = 0
  BY DEF Whole, NoMemory
<1>3. \A d \in Conversations : summary[d] = NoMemory
  BY DEF Init
<1>4. \A d \in Conversations : WholeAt(d)
  BY <1>2, <1>3 DEF WholeAt
<1>5. ASSUME NEW t \in Turns
      PROVE  TurnInv(t)
  <2>1. turn[t] = Idle(c)
    BY <1>1
  <2>2. /\ turn[t].pc = "idle" /\ ~turn[t].leader /\ turn[t].mem = NoMemory
        /\ turn[t].loaded = NoMemory /\ turn[t].conv = c
    BY <2>1 DEF Idle
  <2>3. QED
    BY <1>2, <1>3, <2>2 DEF TurnInv, LeaderAt, MindAt, PlaceAt, ContextAt
<1>6. QED
  BY <1>4, <1>5 DEF MemoryInv

LEMMA MemoryInvariant == Spec => [](BaseInv /\ MemoryInv)
<1>1. Init => BaseInv /\ MemoryInv
  BY BaseInit, MemoryInit
<1>2. BaseInv /\ MemoryInv /\ [Next]_vars => (BaseInv /\ MemoryInv)'
  BY BaseStep, MemoryStep
<1>3. QED
  BY <1>1, <1>2, PTL DEF Spec

\* A summary contains exactly the messages up to its through_sequence and ends behind a
\* reply, whichever turns lead, fail or break off, and even if two lead at a time because
\* a lease has expired (memory.py, _summarize_if_leader; repository.py, save_memory).
THEOREM ConversationSummaryIsWhole == Spec => []SummaryIsWhole
<1>1. BaseInv /\ MemoryInv => SummaryIsWhole
  <2> SUFFICES ASSUME BaseInv, MemoryInv, NEW c \in Conversations
               PROVE  /\ summary[c].covers = 1..summary[c].through
                      /\ summary[c].through > 0 =>
                           /\ summary[c].through <= Len(messages[c])
                           /\ messages[c][summary[c].through] = "assistant"
    BY DEF SummaryIsWhole
  <2>1. messages[c] \in Seq({"user", "assistant"}) /\ WholeAt(c)
    BY DEF BaseInv, TypeOK, MemoryInv
  <2>2. QED
    BY <2>1 DEF WholeAt, Whole
<1>2. QED
  BY <1>1, MemoryInvariant, PTL

\* The model sees no message twice, and the messages it sees besides the summary are a
\* run, for any limit on what fits and whoever has the lease (prepare_context,
\* trim_context).
THEOREM ConversationContextIsSound == Spec => []ContextIsSound
<1>1. BaseInv /\ MemoryInv => ContextIsSound
  <2> SUFFICES ASSUME BaseInv, MemoryInv, NEW t \in Turns, turn[t].pc = "appending"
               PROVE  /\ turn[t].recent \cap turn[t].mem.covers = {}
                      /\ turn[t].recent # {} =>
                           \E a, b \in turn[t].recent :
                              turn[t].recent = a..b /\ turn[t].mem.through < a
    BY DEF ContextIsSound
  <2>1. /\ turn[t].mem.covers = 1..turn[t].mem.through /\ turn[t].mem.through \in Nat
        /\ turn[t].recent \subseteq Nat
    BY TurnTyped DEF BaseInv, MemoryInv, TurnInv, MindAt, Whole
  <2>2. turn[t].recent # {} =>
          \E a, b \in turn[t].recent : turn[t].recent = a..b /\ turn[t].mem.through < a
    BY DEF MemoryInv, TurnInv, ContextAt
  <2>3. turn[t].recent \cap turn[t].mem.covers = {}
    BY <2>1, <2>2
  <2>4. QED
    BY <2>2, <2>3
<1>2. QED
  BY <1>1, MemoryInvariant, PTL

\* As long as a summary lease outlives its holder, a summary is never replaced by one
\* that covers less, although save_memory compares with a record that
\* SELECT ... FOR UPDATE does not refresh.
THEOREM ConversationSummaryMovesForward ==
  ASSUME ~LeaseMayExpire
  PROVE  Spec => SummaryMovesForward
<1> DEFINE Forward == \A c \in Conversations :
       row'[c] # "purged" => summary[c].through <= summary'[c].through
<1>1. ASSUME BaseInv, MemoryInv, [Next]_vars
      PROVE  Forward
  <2>1. \A c \in Conversations : summary[c].through \in Nat /\ summary \in [Conversations -> Memories]
    BY <1>1, StoredTyped DEF BaseInv, TypeOK
  <2>2. CASE \E t \in Turns, c \in Conversations : Save(t, c)
    <3>1. PICK t \in Turns, c \in Conversations : Save(t, c)
      BY <2>2
    <3>2. \/ summary' = summary
          \/ /\ summary' = [summary EXCEPT ![c] = [through |-> turn[t].batch,
                                                   covers |-> 1..turn[t].batch]]
             /\ summary[c].through < turn[t].batch /\ turn[t].batch \in Nat
      BY <1>1, <3>1, BaseStep, SaveStep, TurnTyped DEF BaseInv
    <3>3. QED
      BY <2>1, <3>2
  <2>3. CASE Steady
    BY <2>1, <2>3 DEF Steady
  <2>4. QED
    BY <1>1, <2>2, <2>3, StepSteady
<1>2. BaseInv /\ MemoryInv /\ [Next]_vars => [Forward]_vars
  BY <1>1
<1>3. QED
  BY <1>2, MemoryInvariant, PTL DEF Spec, SummaryMovesForward
=============================================================================
