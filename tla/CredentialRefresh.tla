------------------------- MODULE CredentialRefresh -------------------------
(***************************************************************************)
(* One OAuth credential and the session that uses it.  Concurrent requests *)
(* and the recovery worker load the credential, refresh it under a Redis   *)
(* lease when it is about to expire or ERPNext's MCP endpoint rejects it,  *)
(* and end the session when they cannot.  Meanwhile the user signs out,    *)
(* ERPNext sends a back-channel logout, tokens lapse, and replies, commits *)
(* and processes are lost.                                                 *)
(*                                                                         *)
(* Tokens are numbered in the order in which ERPNext issues them; 0 stands *)
(* for a missing refresh token and for the emptied access token of a       *)
(* revoked row.  A step is one round trip to PostgreSQL, Redis or ERPNext. *)
(***************************************************************************)
EXTENDS Naturals

CONSTANTS
  Procs,           \* concurrent requests (and recovery attempts)
  NoProc,          \* a free lease
  LeaseMayExpire,  \* may the lease expire while its holder still refreshes?
  RetiresOld,      \* does a refresh invalidate older tokens at ERPNext?
  Logouts,         \* the kinds of logout that happen: "user", "erp" or both
  MaxTokens,       \* bound: no token lapses once ERPNext has issued so many
  MaxFaults        \* bound on crashes, lost replies and failed commits

ASSUME ConstantsAssumption ==
  /\ NoProc \notin Procs
  /\ LeaseMayExpire \in BOOLEAN
  /\ RetiresOld \in BOOLEAN
  /\ Logouts \subseteq {"user", "erp"}
  /\ MaxTokens \in Nat
  /\ MaxFaults \in Nat

VARIABLES
  \* PostgreSQL: the row of oauth_device_credentials
  access,      \* the access token
  refresh,     \* the refresh token, 0 if there is none
  expiry,      \* expires_at: "fresh", "soon" (within the leeway) or "expired"
  revoked,     \* revoked_at is set
  \* Redis
  lease,       \* holder of the refresh lock
  live,        \* the Agent session exists
  marked,      \* agent:revoked-binding exists
  cached,      \* access tokens with a positive introspection entry
  \* ERPNext
  issued,      \* number of token pairs issued so far
  erpAccess,   \* access tokens it accepts
  erpRefresh,  \* refresh tokens it accepts
  \* the requests
  pc,
  stage,       \* "guard" in current_session, "call" in the handler or worker
  forced,      \* the refresh follows an authentication failure
  late,        \* the deadline of the waiting loop has passed
  base,        \* access token of the baseline credential
  mine,        \* the credential loaded last: its access and refresh token
  got,         \* the pair ERPNext returned, refresh = 0 if it kept the old one
  wasRevoked,  \* revoked_at of the object that replace_tokens loaded
  outcome,     \* how the critical section ended
  \* the two kinds of logout
  signOut,     \* POST /auth/logout
  parting,     \* the access token it has loaded
  hook,        \* POST /auth/backchannel-logout
  faults

rowVars     == <<access, refresh, expiry, revoked>>
sessionVars == <<live, marked, cached>>
erpVars     == <<issued, erpAccess, erpRefresh>>
stateVars   == <<stage, forced, late, base>>
localVars   == <<stateVars, mine, got, wasRevoked, outcome>>
logoutVars  == <<signOut, parting, hook>>
vars == <<access, refresh, expiry, revoked, lease, live, marked, cached, issued,
          erpAccess, erpRefresh, pc, stage, forced, late, base, mine, got,
          wasRevoked, outcome, signOut, parting, hook, faults>>

Pairs == [access : Nat, refresh : Nat]

\* Where a request holds the lease, as far as it knows.
Critical == {"rechecking", "refreshing", "replacing", "committing", "reloading"}
Holding  == Critical \cup {"releasing"}
PCs == {"idle", "checking", "loading", "acquiring", "polling", "introspecting",
        "using", "revoking", "marking", "ending"} \cup Holding

TypeOK ==
  /\ access \in Nat /\ refresh \in Nat
  /\ expiry \in {"fresh", "soon", "expired"}
  /\ revoked \in BOOLEAN
  /\ lease \in Procs \cup {NoProc}
  /\ live \in BOOLEAN /\ marked \in BOOLEAN
  /\ cached \subseteq Nat
  /\ issued \in Nat
  /\ erpAccess \subseteq Nat /\ erpRefresh \subseteq Nat
  /\ pc \in [Procs -> PCs]
  /\ stage \in [Procs -> {"guard", "call"}]
  /\ forced \in [Procs -> BOOLEAN]
  /\ late \in [Procs -> BOOLEAN]
  /\ base \in [Procs -> Nat]
  /\ mine \in [Procs -> Pairs]
  /\ got \in [Procs -> Pairs]
  /\ wasRevoked \in [Procs -> BOOLEAN]
  /\ outcome \in [Procs -> {"ok", "reauthenticate", "error"}]
  /\ signOut \in {"no", "loaded", "told", "ended"}
  /\ parting \in Nat
  /\ hook \in {"no", "ended", "marked"}
  /\ faults \in 0..MaxFaults

Nothing == [access |-> 0, refresh |-> 0]

\* The callback has just stored the first pair and created the session.
Init ==
  /\ access = 1 /\ refresh \in {0, 1} /\ expiry = "fresh" /\ revoked = FALSE
  /\ lease = NoProc
  /\ live = TRUE /\ marked = FALSE /\ cached = {}
  /\ issued = 1 /\ erpAccess = {1} /\ erpRefresh = {refresh} \ {0}
  /\ pc = [p \in Procs |-> "idle"]
  /\ stage = [p \in Procs |-> "guard"]
  /\ forced = [p \in Procs |-> FALSE]
  /\ late = [p \in Procs |-> FALSE]
  /\ base = [p \in Procs |-> 0]
  /\ mine = [p \in Procs |-> Nothing]
  /\ got = [p \in Procs |-> Nothing]
  /\ wasRevoked = [p \in Procs |-> FALSE]
  /\ outcome = [p \in Procs |-> "ok"]
  /\ signOut = "no" /\ parting = 0 /\ hook = "no"
  /\ faults = 0

-----------------------------------------------------------------------------

Goto(p, to) == pc' = [pc EXCEPT ![p] = to]

\* The request ends and its local variables with it.
Leave(p) ==
  /\ Goto(p, "idle")
  /\ stage' = [stage EXCEPT ![p] = "guard"]
  /\ forced' = [forced EXCEPT ![p] = FALSE]
  /\ late' = [late EXCEPT ![p] = FALSE]
  /\ base' = [base EXCEPT ![p] = 0]
  /\ mine' = [mine EXCEPT ![p] = Nothing]
  /\ got' = [got EXCEPT ![p] = Nothing]
  /\ wasRevoked' = [wasRevoked EXCEPT ![p] = FALSE]
  /\ outcome' = [outcome EXCEPT ![p] = "ok"]

\* A dependency fails or a process dies.
Fault == faults < MaxFaults /\ faults' = faults + 1

Row == [access |-> access, refresh |-> refresh]

\* credential_expires_soon; "expired" is credential_is_expired.
Soon == expiry # "fresh"

\* Where a request goes on once it has a valid credential.
Ready(p) == IF stage[p] = "guard" THEN "introspecting" ELSE "using"

\* Mutant: the token that ERPNext has just refused passes as fresh.
SettledUnforced(p) == access # base[p] \/ ~Soon

\* _another_request_refreshed, or nothing to do any more.
Settled(p) == access # base[p] \/ (~forced[p] /\ ~Soon)

-----------------------------------------------------------------------------
(* current_session, AuthorizationService.validate and get_valid.            *)

\* The cookie's session exists.  The recovery worker, which finds the session
\* through its Action, does not pass the guard.
Arrive(p, st) ==
  /\ pc[p] = "idle"
  /\ live
  /\ Goto(p, IF st = "guard" THEN "checking" ELSE "loading")
  /\ stage' = [stage EXCEPT ![p] = st]
  /\ UNCHANGED <<rowVars, lease, sessionVars, erpVars, forced, late, base, mine,
                 got, wasRevoked, outcome, logoutVars, faults>>

CheckMark(p) ==
  /\ pc[p] = "checking"
  /\ \/ marked /\ live' = FALSE /\ Leave(p)
     \/ ~marked /\ Goto(p, "loading") /\ UNCHANGED <<live, localVars>>
  /\ UNCHANGED <<rowVars, lease, marked, cached, erpVars, logoutVars, faults>>

Load(p) ==
  /\ pc[p] = "loading"
  /\ \/ revoked /\ Goto(p, "ending") /\ UNCHANGED <<base, mine>>
     \/ /\ ~revoked
        /\ Goto(p, IF Soon THEN "acquiring" ELSE Ready(p))
        /\ base' = [base EXCEPT ![p] = access]
        /\ mine' = [mine EXCEPT ![p] = Row]
  /\ UNCHANGED <<rowVars, lease, sessionVars, erpVars, stage, forced, late, got,
                 wasRevoked, outcome, logoutVars, faults>>

\* The guard asks ERPNext about the token unless it did so a moment ago; the
\* handler then loads the credential again for its own calls.
Introspect(p) ==
  /\ pc[p] = "introspecting"
  /\ \/ /\ mine[p].access \in erpAccess \cup cached
        /\ cached' = cached \cup {mine[p].access}
        /\ Goto(p, "loading")
        /\ stage' = [stage EXCEPT ![p] = "call"]
        /\ UNCHANGED <<forced, late, base, mine, got, wasRevoked, outcome>>
     \/ /\ mine[p].access \notin erpAccess \cup cached
        /\ Goto(p, "revoking")
        /\ UNCHANGED <<cached, localVars>>
     \/ Leave(p) /\ UNCHANGED cached
  /\ UNCHANGED <<rowVars, lease, live, marked, erpVars, logoutVars, faults>>

\* AuthorizationService._revoke: commit, mark, end the session.
RevokeBinding(p) ==
  /\ pc[p] = "revoking"
  /\ access' = 0 /\ refresh' = 0 /\ revoked' = TRUE /\ UNCHANGED expiry
  /\ Goto(p, "marking")
  /\ UNCHANGED <<lease, sessionVars, erpVars, localVars, logoutVars, faults>>

MarkBinding(p) ==
  /\ pc[p] = "marking"
  /\ marked' = TRUE
  /\ Goto(p, "ending")
  /\ UNCHANGED <<rowVars, lease, live, cached, erpVars, localVars, logoutVars,
                 faults>>

\* Every caller answers a TokenRefreshError by deleting the session.
EndSession(p) ==
  /\ pc[p] = "ending"
  /\ live' = FALSE
  /\ Leave(p)
  /\ UNCHANGED <<rowVars, lease, marked, cached, erpVars, logoutVars, faults>>

\* An MCP call; after an authentication failure it is repeated once.  The calls
\* that follow a repeated one start with the refreshed credential.
Use(p) ==
  /\ pc[p] = "using"
  /\ \/ mine[p].access \in erpAccess /\ Leave(p)
     \/ /\ mine[p].access \in erpAccess /\ forced[p]
        /\ forced' = [forced EXCEPT ![p] = FALSE]
        /\ UNCHANGED <<pc, stage, late, base, mine, got, wasRevoked, outcome>>
     \/ /\ mine[p].access \notin erpAccess /\ ~forced[p]
        /\ Goto(p, "acquiring")
        /\ forced' = [forced EXCEPT ![p] = TRUE]
        /\ base' = [base EXCEPT ![p] = mine[p].access]
        /\ UNCHANGED <<stage, late, mine, got, wasRevoked, outcome>>
     \/ /\ mine[p].access \notin erpAccess /\ forced[p]
        /\ Goto(p, "ending")
        /\ UNCHANGED localVars
  /\ UNCHANGED <<rowVars, lease, sessionVars, erpVars, logoutVars, faults>>

-----------------------------------------------------------------------------
(* TokenRefreshService._refresh_single_flight.                              *)

\* Mutant: the lock is written without NX.
AcquireFromHolder(p) ==
  /\ pc[p] = "acquiring"
  /\ lease' = p /\ Goto(p, "rechecking")
  /\ UNCHANGED <<rowVars, sessionVars, erpVars, localVars, logoutVars, faults>>

Acquire(p) ==
  /\ pc[p] = "acquiring"
  /\ \/ lease = NoProc /\ lease' = p /\ Goto(p, "rechecking")
     \/ lease # NoProc /\ UNCHANGED lease /\ Goto(p, "polling")
  /\ UNCHANGED <<rowVars, sessionVars, erpVars, localVars, logoutVars, faults>>

\* Mutant: a request without the lease only waits for the holder's result.
PollOthers(p) ==
  /\ pc[p] = "polling"
  /\ revoked \/ Settled(p)
  /\ Goto(p, IF revoked THEN "ending" ELSE Ready(p))
  /\ mine' = IF revoked THEN mine ELSE [mine EXCEPT ![p] = Row]
  /\ UNCHANGED <<rowVars, lease, sessionVars, erpVars, stateVars, got, wasRevoked,
                 outcome, logoutVars, faults>>

\* A token that has been renewed, or that a late request may still use.
MayUse(p) == Settled(p) \/ (late[p] /\ ~forced[p] /\ expiry # "expired")

\* Without the lease: read again, and sleep until the next attempt.
Poll(p) ==
  /\ pc[p] = "polling"
  /\ \/ /\ ~revoked /\ MayUse(p)
        /\ Goto(p, Ready(p))
        /\ late' = [late EXCEPT ![p] = FALSE] /\ mine' = [mine EXCEPT ![p] = Row]
     \/ /\ revoked \/ ~MayUse(p)
        /\ Goto(p, IF revoked \/ late[p] THEN "ending" ELSE "acquiring")
        /\ UNCHANGED <<late, mine>>
  /\ UNCHANGED <<rowVars, lease, sessionVars, erpVars, stage, forced, base, got,
                 wasRevoked, outcome, logoutVars, faults>>

Deadline(p) ==
  /\ pc[p] \in {"acquiring", "polling"}
  /\ ~late[p]
  /\ late' = [late EXCEPT ![p] = TRUE]
  /\ UNCHANGED <<rowVars, lease, sessionVars, erpVars, pc, stage, forced, base,
                 mine, got, wasRevoked, outcome, logoutVars, faults>>

Finish(p, how) ==
  /\ Goto(p, "releasing")
  /\ outcome' = [outcome EXCEPT ![p] = how]

\* Under the lease: somebody else may have refreshed meanwhile.
Recheck(p) ==
  /\ pc[p] = "rechecking"
  /\ mine' = [mine EXCEPT ![p] = Row]
  /\ \/ revoked /\ Finish(p, "reauthenticate")
     \/ ~revoked /\ Settled(p) /\ Finish(p, "ok")
     \/ ~revoked /\ ~Settled(p) /\ refresh = 0 /\ Finish(p, "reauthenticate")
     \/ /\ ~revoked /\ ~Settled(p) /\ refresh # 0
        /\ Goto(p, "refreshing") /\ UNCHANGED outcome
  /\ UNCHANGED <<rowVars, lease, sessionVars, erpVars, stateVars, got, wasRevoked,
                 logoutVars, faults>>

\* ERPNext issues the next access token and, if rotate, the next refresh token.
Grant(rotate) ==
  /\ issued' = issued + 1
  /\ erpAccess' = (IF RetiresOld THEN {} ELSE erpAccess) \cup {issued + 1}
  /\ erpRefresh' =
       IF ~rotate THEN erpRefresh
       ELSE (IF RetiresOld THEN {} ELSE erpRefresh) \cup {issued + 1}

\* grant_type=refresh_token.
Refresh(p) ==
  /\ pc[p] = "refreshing"
  /\ \/ /\ mine[p].refresh \in erpRefresh
        /\ \E rotate \in BOOLEAN :
             /\ Grant(rotate)
             /\ got' = [got EXCEPT ![p] =
                  [access |-> issued + 1, refresh |-> IF rotate THEN issued + 1 ELSE 0]]
        /\ Goto(p, "replacing")
        /\ UNCHANGED outcome
     \/ /\ mine[p].refresh \notin erpRefresh
        /\ Finish(p, "reauthenticate")
        /\ UNCHANGED <<erpVars, got>>
  /\ UNCHANGED <<rowVars, lease, sessionVars, stateVars, mine, wasRevoked,
                 logoutVars, faults>>

\* The endpoint does not answer, whether or not it handled the request.
RefreshLost(p) ==
  /\ pc[p] = "refreshing"
  /\ Fault
  /\ \/ UNCHANGED erpVars
     \/ mine[p].refresh \in erpRefresh /\ \E rotate \in BOOLEAN : Grant(rotate)
  /\ Finish(p, "reauthenticate")
  /\ UNCHANGED <<rowVars, lease, sessionVars, stateVars, mine, got, wasRevoked,
                 logoutVars>>

\* replace_tokens selects the row again: the session's identity map is weak and
\* nothing keeps the object that get has loaded.
SelectForReplace(p) ==
  /\ pc[p] = "replacing"
  /\ wasRevoked' = [wasRevoked EXCEPT ![p] = revoked]
  /\ Goto(p, "committing")
  /\ UNCHANGED <<rowVars, lease, sessionVars, erpVars, stateVars, mine, got,
                 outcome, logoutVars, faults>>

\* Mutant: a reply without a refresh token erases the stored one.
CommitWithoutRefresh(p) ==
  /\ pc[p] = "committing"
  /\ access' = got[p].access /\ refresh' = got[p].refresh /\ expiry' = "fresh"
  /\ revoked' = (revoked /\ ~wasRevoked[p])
  /\ Goto(p, "reloading")
  /\ UNCHANGED <<lease, sessionVars, erpVars, localVars, logoutVars, faults>>

\* The UPDATE names the attributes that changed: revoked_at = None is one of
\* them only if the loaded object had it set.
CommitTokens(p) ==
  /\ pc[p] = "committing"
  /\ access' = got[p].access
  /\ refresh' = IF got[p].refresh = 0 THEN refresh ELSE got[p].refresh
  /\ expiry' = "fresh"
  /\ revoked' = (revoked /\ ~wasRevoked[p])
  /\ Goto(p, "reloading")
  /\ UNCHANGED <<lease, sessionVars, erpVars, localVars, logoutVars, faults>>

\* Not an OAuthError: the request ends with an error and the session stays.
CommitFails(p) ==
  /\ pc[p] \in {"replacing", "committing"}
  /\ Fault
  /\ Finish(p, "error")
  /\ UNCHANGED <<rowVars, lease, sessionVars, erpVars, stateVars, mine, got,
                 wasRevoked, logoutVars>>

\* Mutant: an outcome that the exit does not know.
ReloadRetries(p) ==
  /\ pc[p] = "reloading"
  /\ IF revoked THEN Finish(p, "retry") /\ UNCHANGED mine
     ELSE Finish(p, "ok") /\ mine' = [mine EXCEPT ![p] = Row]
  /\ UNCHANGED <<rowVars, lease, sessionVars, erpVars, stateVars, got, wasRevoked,
                 logoutVars, faults>>

Reload(p) ==
  /\ pc[p] = "reloading"
  /\ \/ revoked /\ Finish(p, "reauthenticate") /\ UNCHANGED mine
     \/ ~revoked /\ Finish(p, "ok") /\ mine' = [mine EXCEPT ![p] = Row]
  /\ UNCHANGED <<rowVars, lease, sessionVars, erpVars, stateVars, got, wasRevoked,
                 logoutVars, faults>>

\* The owner-checked delete at the exit of "async with".
Release(p) ==
  /\ pc[p] = "releasing"
  /\ lease' = IF lease = p THEN NoProc ELSE lease
  /\ \/ /\ outcome[p] = "ok"
        /\ Goto(p, Ready(p))
        /\ late' = [late EXCEPT ![p] = FALSE]
        /\ got' = [got EXCEPT ![p] = Nothing]
        /\ wasRevoked' = [wasRevoked EXCEPT ![p] = FALSE]
        /\ UNCHANGED <<stage, forced, base, mine, outcome>>
     \/ outcome[p] = "reauthenticate" /\ Goto(p, "ending") /\ UNCHANGED localVars
     \/ outcome[p] = "error" /\ Leave(p)
  /\ UNCHANGED <<rowVars, sessionVars, erpVars, logoutVars, faults>>

\* Redis fails: the request ends with an error and the lock stays until its TTL.
ReleaseFails(p) ==
  /\ pc[p] = "releasing"
  /\ Fault
  /\ Leave(p)
  /\ UNCHANGED <<rowVars, lease, sessionVars, erpVars, logoutVars>>

\* A crash, or Redis failing on SET: a lock that was written stays.
Crash(p) ==
  /\ pc[p] # "idle"
  /\ Fault
  /\ lease' \in {lease} \cup (IF pc[p] = "acquiring" /\ lease = NoProc THEN {p} ELSE {})
  /\ Leave(p)
  /\ UNCHANGED <<rowVars, sessionVars, erpVars, logoutVars>>

LeaseExpires ==
  /\ lease # NoProc
  /\ LeaseMayExpire \/ pc[lease] \notin Holding
  /\ lease' = NoProc
  /\ UNCHANGED <<rowVars, sessionVars, erpVars, pc, localVars, logoutVars, faults>>

-----------------------------------------------------------------------------
(* The clock and ERPNext.                                                   *)

Tick ==
  /\ issued < MaxTokens
  /\ expiry # "expired"
  /\ expiry' = IF expiry = "fresh" THEN "soon" ELSE "expired"
  /\ UNCHANGED <<access, refresh, revoked, lease, sessionVars, erpVars, pc,
                 localVars, logoutVars, faults>>

CacheEnds(g) ==
  /\ g \in cached
  /\ cached' = cached \ {g}
  /\ UNCHANGED <<rowVars, lease, live, marked, erpVars, pc, localVars, logoutVars,
                 faults>>

\* ERPNext stops to accept an access token, at its end or before.
AccessLapses(g) ==
  /\ issued < MaxTokens
  /\ g \in erpAccess
  /\ erpAccess' = erpAccess \ {g}
  /\ UNCHANGED <<rowVars, lease, sessionVars, issued, erpRefresh, pc, localVars,
                 logoutVars, faults>>

-----------------------------------------------------------------------------
(* POST /auth/logout and POST /auth/backchannel-logout.                     *)

SignOutLoads ==
  /\ "user" \in Logouts
  /\ signOut = "no"
  /\ live
  /\ signOut' = "loaded" /\ parting' = access
  /\ UNCHANGED <<rowVars, lease, sessionVars, erpVars, pc, localVars, hook, faults>>

\* ERPNext revokes the pair of the access token it is shown, or fails to.
SignOutTellsErp ==
  /\ signOut = "loaded"
  /\ signOut' = "told" /\ parting' = 0
  /\ \/ UNCHANGED <<erpAccess, erpRefresh>>
     \/ erpAccess' = erpAccess \ {parting} /\ erpRefresh' = erpRefresh \ {parting}
  /\ UNCHANGED <<rowVars, lease, sessionVars, issued, pc, localVars, hook, faults>>

SignOutEnds ==
  /\ signOut = "told"
  /\ signOut' = "ended"
  /\ live' = FALSE
  /\ UNCHANGED <<rowVars, lease, marked, cached, erpVars, pc, localVars, parting,
                 hook, faults>>

\* The revoked row commits when the request's database dependency exits.
SignOutCommits ==
  /\ signOut = "ended"
  /\ signOut' = "no"
  /\ access' = 0 /\ refresh' = 0 /\ revoked' = TRUE /\ UNCHANGED expiry
  /\ UNCHANGED <<lease, sessionVars, erpVars, pc, localVars, parting, hook, faults>>

HookEnds ==
  /\ "erp" \in Logouts
  /\ hook = "no"
  /\ hook' = "ended"
  /\ live' = FALSE
  /\ UNCHANGED <<rowVars, lease, marked, cached, erpVars, pc, localVars, signOut,
                 parting, faults>>

HookMarks ==
  /\ hook = "ended"
  /\ hook' = "marked"
  /\ marked' = TRUE
  /\ UNCHANGED <<rowVars, lease, live, cached, erpVars, pc, localVars, signOut,
                 parting, faults>>

HookCommits ==
  /\ hook = "marked"
  /\ hook' = "no"
  /\ access' = 0 /\ refresh' = 0 /\ revoked' = TRUE /\ UNCHANGED expiry
  /\ UNCHANGED <<lease, sessionVars, erpVars, pc, localVars, signOut, parting, faults>>

\* A logout that fails rolls its row back; sessions and mark are not restored.
LogoutFails ==
  /\ Fault
  /\ signOut' \in {signOut, "no"} /\ hook' \in {hook, "no"}
  /\ <<signOut', hook'>> # <<signOut, hook>>
  /\ parting' = IF signOut' = "no" THEN 0 ELSE parting
  /\ UNCHANGED <<rowVars, lease, sessionVars, erpVars, pc, localVars>>

-----------------------------------------------------------------------------

RefreshStep(p) ==
  \/ Acquire(p) \/ Poll(p) \/ Recheck(p) \/ Refresh(p) \/ RefreshLost(p)
  \/ SelectForReplace(p) \/ CommitTokens(p) \/ CommitFails(p) \/ Reload(p)
  \/ Release(p) \/ ReleaseFails(p)

RequestStep(p) ==
  \/ CheckMark(p) \/ Load(p) \/ Introspect(p) \/ RevokeBinding(p)
  \/ MarkBinding(p) \/ EndSession(p) \/ Use(p)

SignOutStep == SignOutLoads \/ SignOutTellsErp \/ SignOutEnds \/ SignOutCommits
HookStep == HookEnds \/ HookMarks \/ HookCommits

Next ==
  \/ \E p \in Procs :
       \/ \E st \in {"guard", "call"} : Arrive(p, st)
       \/ RequestStep(p) \/ RefreshStep(p) \/ Deadline(p) \/ Crash(p)
  \/ LeaseExpires
  \/ Tick
  \/ \E g \in erpAccess \cup cached : CacheEnds(g) \/ AccessLapses(g)
  \/ SignOutStep \/ HookStep \/ LogoutFails

Spec == Init /\ [][Next]_vars

\* Requests under way go on, deadlines pass and the lock's TTL runs out.
Fairness ==
  /\ \A p \in Procs : WF_vars(RequestStep(p) \/ RefreshStep(p)) /\ WF_vars(Deadline(p))
  /\ WF_vars(LeaseExpires)

FairSpec == Spec /\ Fairness

-----------------------------------------------------------------------------

\* Only one request at a time refreshes the credential, over all instances
\* (single flight: token_refresh.py, _refresh_single_flight).
OneRefresher ==
  \A p, q \in Procs : pc[p] \in Critical /\ pc[q] \in Critical => p = q

\* A refresh that was decided on an old row never overwrites the tokens of a
\* later one: the stored access token only moves forward or is erased.
TokensMoveForward ==
  [][access' # access => access' > access \/ (access' = 0 /\ revoked')]_vars

\* What concurrent requests do never costs the user the authorization: while
\* the session lives, nobody ends it and no reply, commit or process was lost,
\* the stored refresh token is one that ERPNext accepts if it accepts any, or
\* the request that has its successor in hand is about to store it
\* (token_store.py, replace_tokens).
StoredTokenWorks ==
  /\ live /\ signOut = "no" /\ faults = 0
  /\ \A p \in Procs : pc[p] \notin {"marking", "ending"}
  => \/ erpRefresh = {}
     \/ refresh \in erpRefresh
     \/ \E p \in Procs :
          pc[p] \in {"replacing", "committing"} /\ got[p].refresh \in erpRefresh

\* A call that was refused for its token is repeated with another one only.
RetryUsesNewToken ==
  \A p \in Procs : pc[p] = "using" /\ forced[p] => mine[p].access # base[p]

\* A session is ended only for the reasons the documentation names: the row is
\* revoked, the refresh token is missing or ERPNext does not accept it, or a
\* repeated call was refused as well (development log, section 2.10; every
\* handler of TokenRefreshError).
EndsOnlyIfLost ==
  [][\A p \in Procs :
       pc[p] \in {"loading", "polling", "using", "releasing"} /\ pc'[p] = "ending" =>
         \/ revoked
         \/ refresh \notin erpRefresh
         \/ forced[p] /\ mine[p].access \notin erpAccess]_vars

\* Revocation is final: nothing turns a revoked credential valid again.
RevokedIsFinal == [][revoked => revoked']_vars

\* Every request ends, whoever holds the lock and whatever was lost.
RequestsEnd == \A p \in Procs : pc[p] # "idle" ~> pc[p] = "idle"

=============================================================================
