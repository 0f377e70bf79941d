---------------------------- MODULE MCConversation ----------------------------
(* Small instances of Conversation for TLC. *)
EXTENDS Conversation

CONSTANTS c1, t1, t2

OneConversation == {c1}
TwoTurns == {t1, t2}

AFew == {2}
=============================================================================
