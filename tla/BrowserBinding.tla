--------------------------- MODULE BrowserBinding ---------------------------
(***************************************************************************)
(* One browser binding: the OAuth login that creates it, the agent session *)
(* and credential it owns, the authorisation of each request, the user's   *)
(* logout, and the logout that ERPNext announces (back-channel), delivered *)
(* at least once.                                                          *)
(*                                                                         *)
(* The tokens of the credential are the subject of CredentialRefresh, the  *)
(* Actions of an ended session that of ActionLifecycle.                    *)
(***************************************************************************)
EXTENDS Naturals, FiniteSets

CONSTANTS
  Callbacks,   \* times the browser presents the state of the login
  Requests,    \* requests that carry the session cookie
  Deliveries,  \* of the logout event
  RetriesEarly, \* may ERPNext repeat an event within the 60 s that the reservation
                \* of a delivery lasts which it has no answer to?
  MaxFaults    \* bound on failing calls of Redis, PostgreSQL and ERPNext

Actors == Callbacks \cup Requests \cup Deliveries

ASSUME BrowserBindingAssumption ==
  /\ Callbacks \cap Requests = {} /\ Callbacks \cap Deliveries = {}
  /\ Requests \cap Deliveries = {}
  /\ RetriesEarly \in BOOLEAN /\ MaxFaults \in Nat

VARIABLES
  oauthState, \* the state of the login: "none", "stored", "approved", "consumed"
  token,      \* the login's token in ERPNext: "none", "live", "revoked"
  erp,        \* the binding in ERPNext: "none", "bound", "out"
  credential, \* the row: "none", "active", "revoked"
  session,    \* the session's key exists in Redis
  index,      \* the binding's set of sessions contains it
  trailing,   \* ... which has not been renewed since the session was
  marker,     \* agent:revoked-binding is set
  cached,     \* the introspection of the token is cached
  outbox,     \* the event in ERPNext: "none", "pending", "acked"
  replay,     \* the event's replay key: "none", "processing", "completed"
  at,         \* the actors
  logins,     \* callbacks that consumed the state
  landed,     \* a delivery has committed the logout
  left,       \* the user's logout has ended
  faults

redis == <<session, index, trailing, marker, cached, replay>>
ghosts == <<logins, landed, left>>
vars == <<oauthState, token, erp, credential, redis, outbox, at, ghosts, faults>>

PCs == {"idle", "exchanging", "identifying", "confirming", "returning", "creating",
        "created", "touching", "checking", "loading",
        "introspecting", "acting", "leaving", "revoking", "marking", "collecting",
        "dropping", "committing", "completing"}

\* found   the credential was seen, its revocation is not committed yet
\* listed  the session was in the index when it was read
\* late    the request began after a logout had ended
\* why     a request's reason to end the session
States == [pc : PCs, found : BOOLEAN, listed : BOOLEAN, late : BOOLEAN,
           why : {"none", "denied", "logout"}]

Idle == [pc |-> "idle", found |-> FALSE, listed |-> FALSE, late |-> FALSE,
         why |-> "none"]

TypeOK ==
  /\ oauthState \in {"none", "stored", "approved", "consumed"}
  /\ token \in {"none", "live", "revoked"}
  /\ erp \in {"none", "bound", "out"}
  /\ credential \in {"none", "active", "revoked"}
  /\ session \in BOOLEAN /\ index \in BOOLEAN /\ trailing \in BOOLEAN
  /\ marker \in BOOLEAN /\ cached \in BOOLEAN
  /\ outbox \in {"none", "pending", "acked"}
  /\ replay \in {"none", "processing", "completed"}
  /\ at \in [Actors -> States]
  /\ logins \in Nat /\ landed \in BOOLEAN /\ left \in BOOLEAN
  /\ faults \in 0..MaxFaults

Init ==
  /\ oauthState = "none" /\ token = "none" /\ erp = "none" /\ credential = "none"
  /\ session = FALSE /\ index = FALSE /\ trailing = FALSE /\ marker = FALSE
  /\ cached = FALSE
  /\ outbox = "none" /\ replay = "none"
  /\ at = [a \in Actors |-> Idle]
  /\ logins = 0 /\ landed = FALSE /\ left = FALSE /\ faults = 0

Becomes(a, s) == at' = [at EXCEPT ![a] = s]
Goto(a, to) == Becomes(a, [at[a] EXCEPT !.pc = to])
End(a) == Becomes(a, Idle)
At(a, pc) == at[a].pc = pc

-----------------------------------------------------------------------------
(* Login.                                                                   *)

\* GET /auth/login; the state is stored for oauth_state_ttl_seconds.
Login ==
  /\ oauthState = "none" /\ logins = 0
  /\ oauthState' = "stored"
  /\ UNCHANGED <<token, erp, credential, redis, outbox, at, ghosts, faults>>

\* The browser follows authorization_url to ERPNext, which sends it back with a code
\* and the state.
Approve ==
  /\ oauthState = "stored"
  /\ oauthState' = "approved"
  /\ UNCHANGED <<token, erp, credential, redis, outbox, at, ghosts, faults>>

StateExpires ==
  /\ oauthState \in {"stored", "approved"}
  /\ oauthState' = "consumed"
  /\ UNCHANGED <<token, erp, credential, redis, outbox, at, ghosts, faults>>

\* OAuthStateStore.consume: GETDEL.  Without a stored state the answer is 400.
Consume(c) ==
  /\ At(c, "idle") /\ oauthState = "approved"
  /\ oauthState' = "consumed" /\ logins' = logins + 1
  /\ Goto(c, "exchanging")
  /\ UNCHANGED <<token, erp, credential, redis, outbox, landed, left, faults>>

\* What OAuthClient makes of an answer: no response, an error status or no JSON;
\* JSON that lacks the field; the field, naming this login's user and binding or not.
Answers == {"failed", "incomplete", "mine", "other"}
Given(x) == x \in {"mine", "other"}

\* exchange_code.  ERPNext may have issued a token that the agent does not get.
ExchangeCode(c) ==
  /\ At(c, "exchanging")
  /\ \E x \in Answers :
       IF Given(x) THEN token' = "live" /\ Goto(c, "identifying")
       ELSE token' \in {token, "live"} /\ End(c)
  /\ UNCHANGED <<oauthState, erp, credential, redis, outbox, ghosts, faults>>

\* The profile's subject, for which the user stands in, and the user that Frappe and
\* the MCP server know by the token.
Identified(profile, user, mcpUser) ==
  profile # "failed" /\ Given(user) /\ Given(mcpUser) /\ user = mcpUser

Identify(c) ==
  /\ At(c, "identifying")
  /\ \E profile, user, mcpUser \in Answers :
       Goto(c, IF Identified(profile, user, mcpUser) THEN "confirming" ELSE "returning")
  /\ UNCHANGED <<oauthState, token, erp, credential, redis, outbox, ghosts, faults>>

\* The confirmation names this login's binding, user and client.
Confirmed(x) == x = "mine"

\* confirm_binding: ERPNext binds the browser, also when its answer is lost.
Confirm(c) ==
  /\ At(c, "confirming")
  /\ \E x \in Answers :
       /\ erp' \in IF x = "failed" THEN {erp, "bound"} ELSE {"bound"}
       /\ Goto(c, IF Confirmed(x) THEN "creating" ELSE "returning")
  /\ UNCHANGED <<oauthState, token, credential, redis, outbox, ghosts, faults>>

\* OAuthClient.revoke, which may fail.
Revoked == {token, "revoked"}

\* The handler of OAuthError and MCPError tries to revoke the token it was issued.
ReturnToken(c) ==
  /\ At(c, "returning")
  /\ token' \in Revoked
  /\ End(c)
  /\ UNCHANGED <<oauthState, erp, credential, redis, outbox, ghosts, faults>>

CreateCredential(c) ==
  /\ At(c, "creating")
  /\ credential' = "active"
  /\ Goto(c, "created")
  /\ UNCHANGED <<oauthState, token, erp, redis, outbox, ghosts, faults>>

\* SessionStore.create: key and indexes in one transaction.
CreateSession(c) ==
  /\ At(c, "created")
  /\ session' = TRUE /\ index' = TRUE /\ trailing' = FALSE
  /\ End(c)
  /\ UNCHANGED <<oauthState, token, erp, credential, marker, cached, replay, outbox,
                 ghosts, faults>>

LoginFails(c) ==
  /\ at[c].pc \in {"creating", "created"}
  /\ faults < MaxFaults /\ faults' = faults + 1
  /\ End(c)
  /\ UNCHANGED <<oauthState, token, erp, credential, redis, outbox, ghosts>>

-----------------------------------------------------------------------------
(* A request: current_session and AuthorizationService.validate.            *)

\* SessionStore.get finds the session and renews it, ...
Enter(r) ==
  /\ At(r, "idle") /\ session
  /\ trailing' = index
  /\ Becomes(r, [Idle EXCEPT !.pc = "touching", !.late = landed \/ left])
  /\ UNCHANGED <<oauthState, token, erp, credential, session, index, marker, cached,
                 replay, outbox, ghosts, faults>>

\* ... and then, in a call of its own, the indexes.
Touch(r) ==
  /\ At(r, "touching")
  /\ trailing' = FALSE
  /\ Goto(r, "checking")
  /\ UNCHANGED <<oauthState, token, erp, credential, session, index, marker, cached,
                 replay, outbox, ghosts, faults>>

Deny(r) ==
  Becomes(r, [at[r] EXCEPT !.pc = "collecting", !.why = "denied"])

\* Mutant: the marker is not looked at.
IgnoreMarker(r) ==
  /\ At(r, "checking")
  /\ Goto(r, "loading")
  /\ UNCHANGED <<oauthState, token, erp, credential, redis, outbox, ghosts, faults>>

CheckMarker(r) ==
  /\ At(r, "checking")
  /\ IF marker THEN Deny(r) ELSE Goto(r, "loading")
  /\ UNCHANGED <<oauthState, token, erp, credential, redis, outbox, ghosts, faults>>

\* get_valid: an active credential, whatever it takes; or the session is ended.
\* A cached introspection decides the rest.
Load(r) ==
  /\ At(r, "loading")
  /\ IF credential # "active" THEN Deny(r)
     ELSE Goto(r, IF cached THEN "acting" ELSE "introspecting")
  /\ UNCHANGED <<oauthState, token, erp, credential, redis, outbox, ghosts, faults>>

\* What OAuthClient.introspect may say: a revoked token is inactive, and so, perhaps, is
\* one whose user has left; or ERPNext cannot be asked.
Introspections ==
  (IF token = "live" THEN {"active"} ELSE {})
    \cup (IF token = "revoked" \/ erp = "out" THEN {"inactive"} ELSE {})
    \cup (IF faults < MaxFaults THEN {"unavailable"} ELSE {})

\* 503 when ERPNext cannot be asked.
Introspect(r) ==
  /\ At(r, "introspecting")
  /\ \E i \in Introspections :
       /\ cached' = (cached \/ i = "active")
       /\ faults' = IF i = "unavailable" THEN faults + 1 ELSE faults
       /\ CASE i = "active" -> Goto(r, "acting")
            [] i = "inactive" -> Goto(r, "revoking")
            [] i = "unavailable" -> End(r)
  /\ UNCHANGED <<oauthState, token, erp, credential, session, index, trailing, marker,
                 replay, outbox, ghosts>>

CacheExpires ==
  /\ cached
  /\ cached' = FALSE
  /\ UNCHANGED <<oauthState, token, erp, credential, session, index, trailing, marker,
                 replay, outbox, at, ghosts, faults>>

\* _revoke commits the revocation, sets the marker and ends the session.
RevokeDenied(r) ==
  /\ At(r, "revoking") /\ r \in Requests
  /\ credential' = "revoked"
  /\ Goto(r, "marking")
  /\ UNCHANGED <<oauthState, token, erp, redis, outbox, ghosts, faults>>

\* The authorised request does its work and ends; csrf_protected_session may refuse
\* it first.
Act(r) ==
  /\ At(r, "acting")
  /\ End(r)
  /\ UNCHANGED <<oauthState, token, erp, credential, redis, outbox, ghosts, faults>>

\* POST /auth/logout: the token is revoked in ERPNext, which may fail, and the
\* credential in the transaction that get_db commits at the end.  The tokens of a
\* revoked credential are gone.
Leave(r) ==
  /\ At(r, "acting")
  /\ token' \in IF credential = "active" THEN Revoked ELSE {token}
  /\ Becomes(r, [at[r] EXCEPT !.pc = "collecting", !.why = "logout", !.found = TRUE])
  /\ UNCHANGED <<oauthState, erp, credential, redis, outbox, ghosts, faults>>

RequestFails(r) ==
  /\ ~At(r, "idle") /\ faults < MaxFaults /\ faults' = faults + 1
  /\ End(r)
  /\ UNCHANGED <<oauthState, token, erp, credential, redis, outbox, ghosts>>

-----------------------------------------------------------------------------
(* The logout that ERPNext announces.                                       *)

ErpLogout ==
  /\ erp = "bound"
  /\ erp' = "out" /\ outbox' = "pending"
  /\ UNCHANGED <<oauthState, token, credential, redis, at, ghosts, faults>>

\* ERPNext sends the event until it has an answer, and does not repeat it while the
\* agent holds it reserved, unless it retries early.
Sent(d) ==
  /\ At(d, "idle") /\ outbox = "pending"
  /\ RetriesEarly \/ replay # "processing"

\* Mutant: the key says completed from the start.
ReserveForGood(d) ==
  /\ Sent(d)
  /\ IF replay = "none"
       THEN replay' = "completed" /\ Goto(d, "revoking") /\ UNCHANGED outbox
       ELSE outbox' = "acked" /\ UNCHANGED <<replay, at>>
  /\ UNCHANGED <<oauthState, token, erp, credential, session, index, trailing, marker,
                 cached, ghosts, faults>>

\* A delivery that has passed the checks of its signature and time reserves
\* the event; if it is reserved or done already, it is acknowledged at once.
Reserve(d) ==
  /\ Sent(d)
  /\ IF replay = "none"
       THEN replay' = "processing" /\ Goto(d, "revoking") /\ UNCHANGED outbox
       ELSE outbox' = "acked" /\ UNCHANGED <<replay, at>>
  /\ UNCHANGED <<oauthState, token, erp, credential, session, index, trailing, marker,
                 cached, ghosts, faults>>

\* The reply of the SET is lost, outside the try: the event stays reserved.
ReserveFails(d) ==
  /\ Sent(d) /\ replay = "none"
  /\ faults < MaxFaults /\ faults' = faults + 1
  /\ replay' = "processing"
  /\ UNCHANGED <<oauthState, token, erp, credential, session, index, trailing, marker,
                 cached, outbox, at, ghosts>>

\* get_for_binding
KnownBinding == credential # "none"

\* revoke_by_binding; the row changes with the commit.  An unknown binding is
\* acknowledged like any other.
RevokeByBinding(d) ==
  /\ At(d, "revoking") /\ d \in Deliveries
  /\ Becomes(d, [at[d] EXCEPT !.pc = "collecting", !.found = KnownBinding])
  /\ UNCHANGED <<oauthState, token, erp, credential, redis, outbox, ghosts, faults>>

\* delete_by_binding reads the index, and then deletes what it has read, and
\* the index.
Collect(a) ==
  /\ At(a, "collecting")
  /\ Becomes(a, [at[a] EXCEPT !.pc = "dropping", !.listed = index])
  /\ UNCHANGED <<oauthState, token, erp, credential, redis, outbox, ghosts, faults>>

Drop(a) ==
  /\ At(a, "dropping")
  /\ session' = (session /\ ~at[a].listed) /\ index' = FALSE /\ trailing' = FALSE
  /\ IF a \in Deliveries THEN Goto(a, "marking")
     ELSE IF at[a].why = "logout" THEN Goto(a, "committing") ELSE End(a)
  /\ UNCHANGED <<oauthState, token, erp, credential, marker, cached, replay, outbox,
                 ghosts, faults>>

\* invalidate_binding_cache.
Mark(a) ==
  /\ At(a, "marking")
  /\ marker' = TRUE
  /\ IF a \in Deliveries THEN Goto(a, "committing") ELSE Deny(a)
  /\ UNCHANGED <<oauthState, token, erp, credential, session, index, trailing, cached,
                 replay, outbox, ghosts, faults>>

Commit(a) ==
  /\ At(a, "committing")
  /\ credential' = IF at[a].found THEN "revoked" ELSE credential
  /\ IF a \in Deliveries
       THEN Goto(a, "completing") /\ landed' = TRUE /\ UNCHANGED left
       ELSE End(a) /\ left' = TRUE /\ UNCHANGED landed
  /\ UNCHANGED <<oauthState, token, erp, redis, outbox, logins, faults>>

\* The replay key is kept as completed, and the event acknowledged, unless the
\* answer is lost.
Complete(d) ==
  /\ At(d, "completing")
  /\ replay' = "completed"
  /\ \/ outbox' = "acked" /\ UNCHANGED faults
     \/ faults < MaxFaults /\ faults' = faults + 1 /\ UNCHANGED outbox
  /\ End(d)
  /\ UNCHANGED <<oauthState, token, erp, credential, session, index, trailing, marker,
                 cached, ghosts>>

\* Mutant: a failed delivery records its failure in the key.
DeliveryFailsNoted(d) ==
  /\ ~At(d, "idle") /\ faults < MaxFaults /\ faults' = faults + 1
  /\ replay' = "failed"
  /\ End(d)
  /\ UNCHANGED <<oauthState, token, erp, credential, session, index, trailing, marker,
                 cached, outbox, ghosts>>

\* A delivery breaks off.  The except branch rolls back and frees the event, but its
\* own calls may fail, and a cancellation or a crash does not get there; a SETEX
\* without a reply may have stored the key.
DeliveryFails(d) ==
  /\ ~At(d, "idle") /\ faults < MaxFaults /\ faults' = faults + 1
  /\ replay' \in {"none", replay} \cup (IF At(d, "completing") THEN {"completed"} ELSE {})
  /\ End(d)
  /\ UNCHANGED <<oauthState, token, erp, credential, session, index, trailing, marker,
                 cached, outbox, ghosts>>

-----------------------------------------------------------------------------
(* Time.                                                                    *)

SessionExpires ==
  /\ session
  /\ session' = FALSE
  /\ UNCHANGED <<oauthState, token, erp, credential, index, trailing, marker, cached,
                 replay, outbox, at, ghosts, faults>>

\* The index outlives the session, unless it has not been renewed with it.
IndexExpires ==
  /\ index /\ (~session \/ trailing)
  /\ index' = FALSE /\ trailing' = FALSE
  /\ UNCHANGED <<oauthState, token, erp, credential, session, marker, cached, replay,
                 outbox, at, ghosts, faults>>

\* Mutant: only a completed key has a time to live.
ReservedForEver ==
  /\ replay = "completed"
  /\ replay' = "none"
  /\ UNCHANGED <<oauthState, token, erp, credential, session, index, trailing, marker,
                 cached, outbox, at, ghosts, faults>>

\* A reserved event's key lives for 60 s, a completed one's for
\* oauth_logout_event_replay_ttl_seconds.
ReplayExpires ==
  /\ replay # "none"
  /\ replay' = "none"
  /\ UNCHANGED <<oauthState, token, erp, credential, session, index, trailing, marker,
                 cached, outbox, at, ghosts, faults>>

-----------------------------------------------------------------------------

CallbackNext(c) ==
  \/ Consume(c) \/ ExchangeCode(c) \/ Identify(c) \/ Confirm(c) \/ ReturnToken(c)
  \/ CreateCredential(c) \/ CreateSession(c) \/ LoginFails(c)

RequestNext(r) ==
  \/ Enter(r) \/ Touch(r) \/ CheckMarker(r) \/ Load(r) \/ Introspect(r)
  \/ RevokeDenied(r) \/ Act(r) \/ Leave(r) \/ Collect(r) \/ Drop(r) \/ Mark(r) \/ Commit(r)
  \/ RequestFails(r)

Deliver(d) ==
  \/ Reserve(d) \/ RevokeByBinding(d) \/ Collect(d) \/ Drop(d) \/ Mark(d)
  \/ Commit(d) \/ Complete(d)

DeliveryNext(d) == Deliver(d) \/ ReserveFails(d) \/ DeliveryFails(d)

Next ==
  \/ Login \/ Approve \/ StateExpires \/ ErpLogout \/ CacheExpires
  \/ SessionExpires \/ IndexExpires \/ ReplayExpires
  \/ \E c \in Callbacks : CallbackNext(c)
  \/ \E r \in Requests : RequestNext(r)
  \/ \E d \in Deliveries : DeliveryNext(d)

Spec == Init /\ [][Next]_vars

\* A delivery runs on, ERPNext sends an event until it is acknowledged, and a
\* reservation runs out.
FairSpec ==
  Spec /\ WF_vars(\E d \in Deliveries : Deliver(d))
       /\ WF_vars(replay = "processing" /\ ReplayExpires)

-----------------------------------------------------------------------------
(* What must hold.                                                          *)

\* After a logout, of the user or of ERPNext, has ended no request that begins
\* is authorised, not even with a session that a slow login creates afterwards.
LoggedOutIsOut ==
  \A r \in Requests : at[r].late => at[r].pc \notin {"introspecting", "acting"}

\* ERPNext is told that a logout is accepted only after one has landed, through lost
\* replies, deliveries that break off with or without their except branch, overlapping
\* and repeated ones (backchannel.py:73-102).  Needs ~RetriesEarly: a repetition within
\* the reservation of a broken delivery is acknowledged as its duplicate.
AcknowledgedIsDone == outbox = "acked" => landed

\* An announced logout lands, whatever fails on the way: no broken delivery blocks the
\* event for ever.  Needs ~RetriesEarly too.
LogoutLands == outbox = "pending" ~> landed /\ outbox = "acked"
=============================================================================
