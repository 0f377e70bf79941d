----------------------------- MODULE Conversation -----------------------------
(***************************************************************************)
(* The conversations of one owner: chat turns that run at the same time,   *)
(* the summary a turn writes under a Redis lease, renaming, deletion and   *)
(* the retention worker.                                                   *)
(*                                                                         *)
(* A turn is one request: it finds or creates the conversation, prepares   *)
(* the model's context (and may first summarise old rounds), appends the   *)
(* user's message, and, when the model has answered, the reply.  A step is *)
(* a statement whose place among others matters; statements under the row  *)
(* lock are one step with the commit that ends them, except for an append, *)
(* which takes its number first.                                           *)
(***************************************************************************)
EXTENDS Integers, Sequences, FiniteSets

CONSTANTS
  Conversations,
  Turns,           \* requests that chat
  Worker, NoOne,   \* the retention worker; a free lock or lease
  Trigger,         \* chat_summary_trigger_messages
  Keep,            \* chat_summary_keep_recent_messages
  Fitting,         \* how many messages may fit the model's context
  BatchSize,       \* chat_retention_batch_size
  LeaseMayExpire,  \* may the summary lease expire while its holder goes on?
  MaxMessages,     \* bound: no turn begins on a longer conversation
  MaxFaults        \* bound on turns that break off and failed sweeps

ASSUME ConversationAssumption ==
  /\ Worker \notin Turns /\ NoOne \notin Turns \cup {Worker}
  /\ Trigger \in Nat /\ Keep \in Nat /\ 0 < Keep /\ Keep < Trigger
  /\ Fitting \subseteq Nat /\ BatchSize \in Nat \ {0}
  /\ LeaseMayExpire \in BOOLEAN
  /\ MaxMessages \in Nat /\ MaxFaults \in Nat

VARIABLES
  row,      \* "none", "born" (not committed), "live", "deleted", "purged"
  messages, \* the roles of the committed messages; the index is the sequence
  summary,  \* what the summary covers, and the through_sequence stored with it
  aged,     \* updated_at, or deleted_at, is older than its retention time
  old,      \* created_at exceeds the retention time of empty conversations
  lock,     \* who holds the row FOR UPDATE
  lease,    \* who holds the summary lock in Redis
  turn,     \* the turns
  doomed,   \* what the retention worker has selected and locked
  faults

rows == <<row, messages, summary, aged, old>>
vars == <<rows, lock, lease, turn, doomed, faults>>

\* `covers` is the set of messages whose text has gone into the summary.

\* Mutant: a conversation without a summary has through_sequence -1.
NoMemoryYet == [through |-> -1, covers |-> {}]

NoMemory == [through |-> 0, covers |-> {}]
Memories == [through : Nat, covers : SUBSET (Nat \ {0})]

PCs == {"idle", "remembering", "listing", "leading", "summarizing", "saving",
        "releasing", "appending", "inserting", "answering"}

\* loaded   the summary in the ORM object the turn holds since it began
\* spoiled  a rollback has expired that object
\* mem      the memory the turn goes by
\* tried    the turn has asked for the summary lease
\* leader   ... and has got it
\* cuts     where the prefix it has loaded may be cut; it ends at the last
\* done     the end of the last batch, batch the end of the next
\* recent   the messages it gives to the model besides the summary
\* role     whose message it appends next, and under which number
\* lost     it ends once the lease is released
TurnStates ==
  [pc : PCs, conv : Conversations, loaded : Memories, spoiled : BOOLEAN,
   mem : Memories, tried : BOOLEAN, leader : BOOLEAN, cuts : SUBSET Nat, done : Nat,
   batch : Nat, recent : SUBSET (Nat \ {0}), role : {"user", "assistant"},
   number : Nat, lost : BOOLEAN]

TypeOK ==
  /\ row \in [Conversations -> {"none", "born", "live", "deleted", "purged"}]
  /\ messages \in [Conversations -> Seq({"user", "assistant"})]
  /\ summary \in [Conversations -> Memories]
  /\ aged \in [Conversations -> BOOLEAN]
  /\ old \in [Conversations -> BOOLEAN]
  /\ lock \in [Conversations -> Turns \cup {Worker, NoOne}]
  /\ lease \in [Conversations -> Turns \cup {NoOne}]
  /\ turn \in [Turns -> TurnStates]
  /\ doomed \subseteq Conversations
  /\ faults \in 0..MaxFaults

Idle(c) ==
  [pc |-> "idle", conv |-> c, loaded |-> NoMemory, spoiled |-> FALSE,
   mem |-> NoMemory, tried |-> FALSE, leader |-> FALSE, cuts |-> {}, done |-> 0,
   batch |-> 0, recent |-> {}, role |-> "user", number |-> 0, lost |-> FALSE]

Init ==
  /\ row = [c \in Conversations |-> "none"]
  /\ messages = [c \in Conversations |-> << >>]
  /\ summary = [c \in Conversations |-> NoMemory]
  /\ aged = [c \in Conversations |-> FALSE]
  /\ old = [c \in Conversations |-> FALSE]
  /\ lock = [c \in Conversations |-> NoOne]
  /\ lease = [c \in Conversations |-> NoOne]
  /\ \E c \in Conversations : turn = [t \in Turns |-> Idle(c)]
  /\ doomed = {}
  /\ faults = 0

-----------------------------------------------------------------------------
(* The rounds of a conversation, as conversations/memory.py sees them.      *)

\* Mutant: the message at the end of the summary is listed again.
FromOn(c, n) == {i \in DOMAIN messages[c] : i >= n}

\* list_messages_after
After(c, n) == {i \in DOMAIN messages[c] : i > n}

\* Mutant: the summary may end with a question.
CutAnywhere(c, n) == {i \in After(c, n) : i <= Len(messages[c]) - Keep}

\* Where summarizable_prefix and summary_batches may cut: behind a reply, and
\* before the messages that are kept.
Cuts(c, n) ==
  {i \in After(c, n) : i <= Len(messages[c]) - Keep
                       /\ messages[c][i] = "assistant"}

Newest(S) == CHOOSE i \in S : \A j \in S : j <= i

\* should_summarize by the number of messages; their length does the same.
Worthwhile(c, n) == Cardinality(After(c, n)) >= Trigger

\* get_memory does not see a deleted conversation.
Stored(c) == IF row[c] = "live" THEN summary[c] ELSE NoMemory

-----------------------------------------------------------------------------
(* A turn: the context.                                                     *)

At(t, pc, c) == turn[t].pc = pc /\ turn[t].conv = c
Becomes(t, s) == turn' = [turn EXCEPT ![t] = s]
Goto(t, to) == Becomes(t, [turn[t] EXCEPT !.pc = to])
Leave(t) == Becomes(t, Idle(turn[t].conv))

\* resolve_or_create: an owned conversation that is not deleted, or a new one,
\* which nobody else sees before the user's message is committed.
Begin(t, c) ==
  /\ turn[t].pc = "idle"
  /\ Len(messages[c]) <= MaxMessages
  /\ \/ row[c] = "live" /\ UNCHANGED row
     \/ row[c] = "none" /\ row' = [row EXCEPT ![c] = "born"]
  /\ Becomes(t, [Idle(c) EXCEPT !.pc = "remembering", !.loaded = Stored(c)])
  /\ UNCHANGED <<messages, summary, aged, old, lock, lease, doomed, faults>>

\* get_memory, at first and again under the lease.
Remember(t, c) ==
  /\ At(t, "remembering", c)
  /\ Becomes(t, [turn[t] EXCEPT !.pc = "listing", !.mem = Stored(c)])
  /\ UNCHANGED <<rows, lock, lease, doomed, faults>>

\* trim_context and the limit on messages: the newest that fit.
Trimmed(S) ==
  {{i \in S : Cardinality({j \in S : j >= i}) <= n} : n \in Fitting}

\* list_messages_after in prepare_context.
List(t, c) ==
  LET n == turn[t].mem.through IN
  /\ At(t, "listing", c) /\ ~turn[t].leader
  /\ \/ /\ Worthwhile(c, n) /\ ~turn[t].tried
        /\ Goto(t, "leading")
     \/ /\ turn[t].tried \/ ~Worthwhile(c, n)
        /\ \E S \in Trimmed(After(c, n)) :
             Becomes(t, [Idle(c) EXCEPT !.pc = "appending", !.mem = turn[t].mem,
                                        !.recent = S, !.spoiled = turn[t].spoiled])
  /\ UNCHANGED <<rows, lock, lease, doomed, faults>>

\* RedisLease.acquire; who does not get it goes by the memory it has.
Lead(t, c) ==
  /\ At(t, "leading", c)
  /\ \/ /\ lease[c] = NoOne
        /\ lease' = [lease EXCEPT ![c] = t]
        /\ Becomes(t, [turn[t] EXCEPT !.pc = "remembering", !.tried = TRUE,
                                      !.leader = TRUE])
     \/ /\ lease[c] # NoOne
        /\ Becomes(t, [turn[t] EXCEPT !.pc = "listing", !.tried = TRUE,
                                      !.loaded = NoMemory])
        /\ UNCHANGED lease
  /\ UNCHANGED <<rows, lock, doomed, faults>>

\* list_messages_after under the lease.
Plan(t, c) ==
  LET cuts == Cuts(c, turn[t].mem.through) IN
  /\ At(t, "listing", c) /\ turn[t].leader
  /\ \/ /\ cuts # {}
        /\ Becomes(t, [turn[t] EXCEPT !.pc = "summarizing",
                         !.cuts = cuts, !.done = turn[t].mem.through])
     \/ cuts = {} /\ Goto(t, "releasing")
  /\ UNCHANGED <<rows, lock, lease, doomed, faults>>

\* The model summarises the next batch.  Batches end behind a reply.
Summarize(t, c) ==
  /\ At(t, "summarizing", c)
  /\ \E b \in {i \in turn[t].cuts : turn[t].done < i} :
       Becomes(t, [turn[t] EXCEPT !.pc = "saving", !.batch = b])
  /\ UNCHANGED <<rows, lock, lease, doomed, faults>>

\* Or it fails.  Unless a batch has just been committed, a transaction is open
\* and its rollback expires every loaded object.
SummaryFails(t, c) ==
  /\ At(t, "summarizing", c)
  /\ Becomes(t, [turn[t] EXCEPT !.pc = "releasing", !.mem = Stored(c),
                   !.spoiled = turn[t].spoiled \/ turn[t].batch = 0])
  /\ UNCHANGED <<rows, lock, lease, doomed, faults>>

\* save_memory and its commit.  The guard reads the object that was loaded at
\* the beginning: SELECT ... FOR UPDATE does not refresh it.
Save(t, c) ==
  LET s == turn[t]
      new == [through |-> s.batch,
              covers |-> s.mem.covers \cup (s.done + 1) .. s.batch]
      behind == s.loaded.through < s.batch
      saved == IF behind THEN new ELSE s.loaded
  IN
  /\ At(t, "saving", c) /\ lock[c] = NoOne
  /\ \/ /\ row[c] = "live"
        /\ summary' = IF behind THEN [summary EXCEPT ![c] = new] ELSE summary
        /\ Becomes(t, [s EXCEPT
             !.pc = IF s.batch = Newest(s.cuts) THEN "releasing" ELSE "summarizing",
             !.mem = saved, !.loaded = saved, !.done = s.batch])
     \/ /\ row[c] # "live"
        /\ Becomes(t, [s EXCEPT !.pc = "releasing", !.lost = TRUE])
        /\ UNCHANGED summary
  /\ UNCHANGED <<row, messages, aged, old, lock, lease, doomed, faults>>

\* RedisLease.release, on every way out of the leader's block.
Release(t, c) ==
  /\ At(t, "releasing", c)
  /\ lease' = IF lease[c] = t THEN [lease EXCEPT ![c] = NoOne] ELSE lease
  /\ \/ turn[t].lost /\ Leave(t)
     \/ /\ ~turn[t].lost
        /\ Becomes(t, [turn[t] EXCEPT !.pc = "listing", !.leader = FALSE,
                         !.loaded = NoMemory, !.cuts = {}, !.done = 0, !.batch = 0])
  /\ UNCHANGED <<rows, lock, doomed, faults>>

-----------------------------------------------------------------------------
(* A turn: its two messages.                                                *)

\* Mutant: the row is not locked while the number is taken.
TakeNumberUnlocked(t, c) ==
  /\ At(t, "appending", c) /\ ~turn[t].spoiled
  /\ row[c] \in {"live", "born"}
  /\ Becomes(t, [Idle(c) EXCEPT !.pc = "inserting", !.role = turn[t].role,
                                !.number = Len(messages[c]) + 1])
  /\ UNCHANGED <<rows, lock, lease, doomed, faults>>

\* append_message up to the new sequence number.  The context is complete by
\* then and not looked at any more.
TakeNumber(t, c) ==
  /\ At(t, "appending", c) /\ ~turn[t].spoiled
  /\ row[c] \in {"live", "born"} /\ lock[c] = NoOne
  /\ lock' = [lock EXCEPT ![c] = t]
  /\ Becomes(t, [Idle(c) EXCEPT !.pc = "inserting", !.role = turn[t].role,
                                !.number = Len(messages[c]) + 1])
  /\ UNCHANGED <<rows, lease, doomed, faults>>

\* ConversationNotFoundError, which the routes do not handle here; or, before
\* that, reading conversation_id of the expired object fails.
CannotAppend(t, c) ==
  /\ At(t, "appending", c)
  /\ turn[t].spoiled \/ row[c] \notin {"live", "born"}
  /\ Leave(t)
  /\ UNCHANGED <<rows, lock, lease, doomed, faults>>

\* Mutant: the message is not committed on its own.
InsertOnly(t, c) ==
  /\ At(t, "inserting", c)
  /\ messages' = [messages EXCEPT ![c] = Append(@, turn[t].role)]
  /\ row' = IF row[c] = "born" THEN [row EXCEPT ![c] = "live"] ELSE row
  /\ IF turn[t].role = "user"
       THEN Becomes(t, [Idle(c) EXCEPT !.pc = "answering", !.role = "assistant"])
       ELSE Leave(t)
  /\ UNCHANGED <<summary, aged, old, lock, lease, doomed, faults>>

\* INSERT and commit.  The model then answers the user's message.
Insert(t, c) ==
  /\ At(t, "inserting", c)
  /\ messages' = [messages EXCEPT ![c] = Append(@, turn[t].role)]
  /\ row' = IF row[c] = "born" THEN [row EXCEPT ![c] = "live"] ELSE row
  /\ aged' = [aged EXCEPT ![c] = FALSE]
  /\ old' = [old EXCEPT ![c] = FALSE]   \* matters only while it is empty
  /\ lock' = [lock EXCEPT ![c] = NoOne]
  /\ IF turn[t].role = "user"
       THEN Becomes(t, [Idle(c) EXCEPT !.pc = "answering", !.role = "assistant"])
       ELSE Leave(t)
  /\ UNCHANGED <<summary, lease, doomed, faults>>

\* The model has answered, or the turn ends without a reply to store.
Answer(t, c) ==
  /\ At(t, "answering", c)
  /\ Goto(t, "appending") \/ Leave(t)
  /\ UNCHANGED <<rows, lock, lease, doomed, faults>>

\* The process dies, the client leaves, PostgreSQL or Redis fails: what is not
\* committed is gone, and the lease may stay behind.
BreakOff(t, c) ==
  /\ faults < MaxFaults /\ faults' = faults + 1
  /\ turn[t].pc # "idle" /\ turn[t].conv = c
  /\ row' = IF row[c] = "born" THEN [row EXCEPT ![c] = "none"] ELSE row
  /\ lock' = IF lock[c] = t THEN [lock EXCEPT ![c] = NoOne] ELSE lock
  /\ \/ UNCHANGED lease
     \/ lease[c] = t /\ lease' = [lease EXCEPT ![c] = NoOne]
  /\ Leave(t)
  /\ UNCHANGED <<messages, summary, aged, old, doomed>>

-----------------------------------------------------------------------------
(* The other routes, the clock and the retention worker.                    *)

\* POST /conversations; PATCH and DELETE wait for the row lock.
Create(c) ==
  /\ row[c] = "none"
  /\ row' = [row EXCEPT ![c] = "live"]
  /\ UNCHANGED <<messages, summary, aged, old, lock, lease, turn, doomed, faults>>

Rename(c) ==
  /\ row[c] = "live" /\ lock[c] = NoOne
  /\ aged' = [aged EXCEPT ![c] = FALSE]
  /\ UNCHANGED <<row, messages, summary, old, lock, lease, turn, doomed, faults>>

Delete(c) ==
  /\ row[c] = "live" /\ lock[c] = NoOne
  /\ row' = [row EXCEPT ![c] = "deleted"]
  /\ aged' = [aged EXCEPT ![c] = FALSE]
  /\ UNCHANGED <<messages, summary, old, lock, lease, turn, doomed, faults>>

TimePasses(c) ==
  /\ row[c] \in {"live", "deleted"}
  /\ aged' \in {aged, [aged EXCEPT ![c] = TRUE]}
  /\ old' = [old EXCEPT ![c] = messages[c] = << >>]
  /\ UNCHANGED <<row, messages, summary, lock, lease, turn, doomed, faults>>

LeaseExpires(c) ==
  /\ lease[c] # NoOne
  /\ LeaseMayExpire \/ ~turn[lease[c]].leader \/ turn[lease[c]].conv # c
  /\ lease' = [lease EXCEPT ![c] = NoOne]
  /\ UNCHANGED <<rows, lock, turn, doomed, faults>>

\* Mutant: the condition on deleted conversations is missing.
ExpiredUndeleted(c) ==
  row[c] = "live" /\ (aged[c] \/ (old[c] /\ messages[c] = << >>))

\* The three conditions of purge_expired.
Expired(c) ==
  \/ row[c] \in {"deleted", "live"} /\ aged[c]
  \/ row[c] = "live" /\ old[c] /\ messages[c] = << >>

\* Mutant: the rows are not locked between SELECT and DELETE.
SelectUnlocked ==
  LET found == {c \in Conversations : Expired(c)} IN
  /\ doomed = {} /\ found # {}
  /\ doomed' \in {S \in SUBSET found : S # {} /\ Cardinality(S) <= BatchSize}
  /\ UNCHANGED <<rows, lock, lease, turn, faults>>

\* SELECT ... FOR UPDATE SKIP LOCKED: as many as fit, the longest idle first
\* (updated_at is not modelled, so any of them).
SelectExpired ==
  LET found == {c \in Conversations : Expired(c) /\ lock[c] = NoOne} IN
  /\ doomed = {} /\ found # {}
  /\ \E S \in SUBSET found :
       /\ Cardinality(S) = BatchSize \/ (S = found /\ Cardinality(S) < BatchSize)
       /\ doomed' = S
       /\ lock' = [c \in Conversations |-> IF c \in S THEN Worker ELSE lock[c]]
  /\ UNCHANGED <<rows, lease, turn, faults>>

Unlocked == [c \in Conversations |-> IF lock[c] = Worker THEN NoOne ELSE lock[c]]

\* DELETE, which takes the messages along, and commit; or the sweep fails.
Purge ==
  /\ doomed # {}
  /\ row' = [c \in Conversations |-> IF c \in doomed THEN "purged" ELSE row[c]]
  /\ messages' = [c \in Conversations |-> IF c \in doomed THEN << >> ELSE messages[c]]
  /\ summary' = [c \in Conversations |-> IF c \in doomed THEN NoMemory ELSE summary[c]]
  /\ lock' = Unlocked /\ doomed' = {}
  /\ UNCHANGED <<aged, old, lease, turn, faults>>

SweepFails ==
  /\ doomed # {} /\ faults < MaxFaults /\ faults' = faults + 1
  /\ lock' = Unlocked /\ doomed' = {}
  /\ UNCHANGED <<rows, lease, turn>>

-----------------------------------------------------------------------------

\* What a turn does by itself.
Proceed(t, c) ==
  \/ Remember(t, c) \/ List(t, c) \/ Lead(t, c) \/ Plan(t, c)
  \/ Summarize(t, c) \/ SummaryFails(t, c) \/ Save(t, c) \/ Release(t, c)
  \/ TakeNumber(t, c) \/ CannotAppend(t, c) \/ Insert(t, c) \/ Answer(t, c)

TurnNext(t, c) == Begin(t, c) \/ Proceed(t, c) \/ BreakOff(t, c)

OwnerNext(c) == Create(c) \/ Rename(c) \/ Delete(c)

Next ==
  \/ \E t \in Turns, c \in Conversations : TurnNext(t, c)
  \/ \E c \in Conversations : OwnerNext(c) \/ TimePasses(c) \/ LeaseExpires(c)
  \/ SelectExpired \/ Purge \/ SweepFails

Spec == Init /\ [][Next]_vars

\* Turns and the sweep go on.  A row lock is granted in the order in which it
\* is asked for, so who waits for one gets it; here lock holders are few enough
\* for weak fairness to say so.
Fairness ==
  /\ \A t \in Turns, c \in Conversations : WF_vars(Proceed(t, c))
  /\ WF_vars(SelectExpired) /\ WF_vars(Purge)

FairSpec == Spec /\ Fairness

-----------------------------------------------------------------------------
(* What must hold.                                                          *)

\* The number an append has taken is still the next one when it is inserted;
\* otherwise the unique constraint on (conversation_id, sequence) would refuse
\* the message (append_message's FOR UPDATE).
NumberIsNext ==
  \A t \in Turns : turn[t].pc = "inserting" =>
    turn[t].number = Len(messages[turn[t].conv]) + 1

\* A summary contains exactly the messages up to its through_sequence, all of
\* them stored, and ends behind a reply: it never cuts a round, whoever leads
\* and however often (memory.py, _summarize_if_leader).
SummaryIsWhole ==
  \A c \in Conversations :
    LET s == summary[c] IN
    /\ s.covers = 1..s.through
    /\ s.through > 0 =>
         s.through <= Len(messages[c]) /\ messages[c][s.through] = "assistant"

\* The model sees no message twice, in the summary and again beside it, and
\* the messages beside it are a run up to the newest listed (prepare_context).
ContextIsSound ==
  \A t \in Turns :
    LET s == turn[t] IN
    s.pc = "appending" =>
      /\ s.recent \cap s.mem.covers = {}
      /\ s.recent # {} =>
           \E a, b \in s.recent : s.recent = a..b /\ s.mem.through < a

\* A summary is never replaced by one that covers less (save_memory's check
\* under the summary lease).
SummaryMovesForward ==
  [][\A c \in Conversations :
       row'[c] # "purged" => summary[c].through <= summary'[c].through]_vars

\* A deleted conversation gets no message, no summary and no second life: it
\* can only be purged, whatever turns were under way when it was deleted.
DeletedStaysSilent ==
  [][\A c \in Conversations :
       row[c] \in {"deleted", "purged"} =>
         \/ row'[c] = row[c] /\ messages'[c] = messages[c]
                             /\ summary'[c] = summary[c]
         \/ row'[c] = "purged"]_vars

\* What the retention worker deletes has expired at that moment, not only when
\* it was selected: no message just stored goes with it (purge_expired).
OnlyExpiredIsPurged ==
  [][\A c \in Conversations :
       row'[c] = "purged" /\ row[c] # "purged" => Expired(c)]_vars

\* A row as its owner knows it; one that is not committed is not there.
StateOf(r) ==
  CASE r \in {"none", "born"} -> "absent"
    [] r = "live" -> "open"
    [] r = "deleted" -> "deleted"
    [] r = "purged" -> "gone"

Shown == [c \in Conversations |-> StateOf(row[c])]
Covered == [c \in Conversations |-> summary[c].covers]
Due == {c \in Conversations : Expired(c)}
Waiting == {w \in Turns \X Conversations :
              turn[w[1]].conv = w[2] /\ turn[w[1]].role = "assistant"}

Record == INSTANCE ConversationRecord WITH
  Onward <- ~LeaseMayExpire, state <- Shown, log <- messages,
  covered <- Covered, due <- Due, waiting <- Waiting

\* The store keeps what ConversationRecord promises: every step of turns, owner,
\* lease and retention worker is one of its steps, or changes nothing an owner
\* can see.
KeepsRecord == Record!Spec

\* Every turn ends: none waits for ever for a row or for the summary lease.
TurnsEnd ==
  \A t \in Turns : turn[t].pc # "idle" ~> turn[t].pc = "idle"

\* A deleted conversation whose time has come is purged.
DeletedIsPurged ==
  \A c \in Conversations :
    row[c] = "deleted" /\ aged[c] ~> row[c] = "purged"

=============================================================================
