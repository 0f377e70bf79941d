-------------------------- MODULE ConversationRecord --------------------------
(***************************************************************************)
(* What an owner may rely on about conversations, however many turns run   *)
(* on one, whichever of them fail, and whenever the retention worker       *)
(* sweeps: messages are only added, a reply only to a question of its own  *)
(* turn and once; a summary stands for all messages up to a reply; a       *)
(* deleted conversation changes no more; and what is purged is gone for    *)
(* good and was due at that moment.  Conversation is shown to implement    *)
(* this.                                                                   *)
(***************************************************************************)
EXTENDS Integers, Sequences

CONSTANTS
  Conversations,
  Turns,
  Onward     \* does a summary never give up a message it stands for?

VARIABLES
  state,     \* "absent", "open", "deleted" or "gone"
  log,       \* the roles of a conversation's messages, in order
  covered,   \* the messages its summary stands for
  due,       \* the conversations whose retention time is over
  waiting    \* <<t, c>>: turn t has asked in c and may still be answered

recordVars == <<state, log, covered, due, waiting>>

Init ==
  /\ state = [c \in Conversations |-> "absent"]
  /\ log = [c \in Conversations |-> << >>]
  /\ covered = [c \in Conversations |-> {}]
  /\ due = {} /\ waiting = {}

Open(c) ==
  /\ state[c] = "absent"
  /\ state' = [state EXCEPT ![c] = "open"]
  /\ UNCHANGED <<log, covered, due, waiting>>

\* A message renews a conversation, and opens one that was not there.
Say(c, role) ==
  /\ state[c] \in {"absent", "open"}
  /\ state' = [state EXCEPT ![c] = "open"]
  /\ log' = [log EXCEPT ![c] = Append(@, role)]
  /\ due' = due \ {c}
  /\ UNCHANGED covered

Ask(t, c) ==
  /\ \A d \in Conversations : <<t, d>> \notin waiting
  /\ Say(c, "user")
  /\ waiting' = waiting \cup {<<t, c>>}

Reply(t, c) ==
  /\ <<t, c>> \in waiting
  /\ Say(c, "assistant")
  /\ waiting' = waiting \ {<<t, c>>}

GiveUp(t, c) ==
  /\ waiting' = waiting \ {<<t, c>>}
  /\ UNCHANGED <<state, log, covered, due>>

\* The summary comes to stand for the messages up to a reply.
Summarise(c, n) ==
  /\ state[c] = "open"
  /\ n \in DOMAIN log[c] /\ log[c][n] = "assistant"
  /\ Onward => covered[c] \subseteq 1..n
  /\ covered' = [covered EXCEPT ![c] = 1..n]
  /\ UNCHANGED <<state, log, due, waiting>>

Rename(c) ==
  /\ state[c] = "open"
  /\ due' = due \ {c}
  /\ UNCHANGED <<state, log, covered, waiting>>

\* Deletion starts another retention time.
Delete(c) ==
  /\ state[c] = "open"
  /\ state' = [state EXCEPT ![c] = "deleted"]
  /\ due' = due \ {c}
  /\ UNCHANGED <<log, covered, waiting>>

TimePasses(c) ==
  /\ state[c] \in {"open", "deleted"}
  /\ due' = due \cup {c}
  /\ UNCHANGED <<state, log, covered, waiting>>

Purge(C) ==
  /\ C \subseteq due
  /\ state' = [c \in Conversations |-> IF c \in C THEN "gone" ELSE state[c]]
  /\ log' = [c \in Conversations |-> IF c \in C THEN << >> ELSE log[c]]
  /\ covered' = [c \in Conversations |-> IF c \in C THEN {} ELSE covered[c]]
  /\ due' = due \ C
  /\ UNCHANGED waiting

Next ==
  \/ \E c \in Conversations :
       \/ Open(c) \/ Rename(c) \/ Delete(c) \/ TimePasses(c)
       \/ \E t \in Turns : Ask(t, c) \/ Reply(t, c) \/ GiveUp(t, c)
       \/ \E n \in DOMAIN log[c] : Summarise(c, n)
  \/ \E C \in SUBSET due : Purge(C)

Spec == Init /\ [][Next]_recordVars

=============================================================================
