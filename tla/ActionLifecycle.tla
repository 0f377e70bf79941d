-------------------------- MODULE ActionLifecycle --------------------------
(***************************************************************************)
(* The life of a persisted Action: proposed by a chat turn, decided by its *)
(* owner, claimed by a compare-and-set, written to ERPNext under a fixed   *)
(* idempotency key, read back and settled, or recovered by a background    *)
(* worker.  The actors are the HTTP handlers of api/approvals.py, the      *)
(* recovery worker, ERPNext's back-channel logout and ERPNext itself.      *)
(* They share PostgreSQL (READ COMMITTED rows with row locks), Redis       *)
(* (execution leases, recovery cooldowns, sessions) and ERPNext's          *)
(* idempotency store.  A step is one round trip to one of them.            *)
(***************************************************************************)
EXTENDS Naturals, FiniteSets

CONSTANTS
  Actions,        \* Action ids, numbered in the order of created_at
  Sessions,       \* Agent (browser) sessions of one user
  SessionOf,      \* SessionOf[a]: the session whose chat turn proposed a
  Executors,      \* concurrent POST /approvals/{id}/execute handlers
  Workers,        \* recovery workers, one per service instance
  Readers,        \* concurrent GET /approvals and GET /approvals/{id} handlers
  Deciders,       \* concurrent POST /approvals/{id}/decision handlers
  NoProc,         \* no process: a free lock or lease
  NoAction,       \* no Action: a process that works on none
  BatchSize,      \* ACTION_RECOVERY_BATCH_SIZE
  StaleReads,     \* may expires_at pass between a SELECT and its expiry check?
  LeaseMayExpire, \* may an execution lease expire under a live holder?
  MaxCrashes      \* bound on crashes of handlers and workers

Procs == Executors \cup Workers \cup Readers \cup Deciders

ASSUME ConstantsAssumption ==
  /\ Actions \subseteq Nat
  /\ NoAction \notin Actions
  /\ SessionOf \in [Actions -> Sessions]
  /\ NoProc \notin Procs
  /\ Executors \cap Workers = {}
  /\ Readers \cap Deciders = {}
  /\ (Executors \cup Workers) \cap (Readers \cup Deciders) = {}
  /\ BatchSize \in Nat \ {0}
  /\ StaleReads \in BOOLEAN
  /\ LeaseMayExpire \in BOOLEAN
  /\ MaxCrashes \in Nat

VARIABLES
  \* PostgreSQL: the committed row of every Action, and its row lock
  status,     \* ActionRecord.status, "ABSENT" before the row exists
  decision,   \* what decided_by decided: "none", "approve" or "reject"
  failure,    \* failure_code is set
  lock,       \* the transaction that holds the row FOR UPDATE
  \* the clock, as far as the Actions see it
  overdue,    \* expires_at <= now
  \* Redis
  lease,      \* holder of the execution lease
  cooldown,   \* the recovery cooldown key exists
  live,       \* sessions a request can still authenticate with
  \* ERPNext: what it knows about the Action's idempotency key
  erp,        \* "free", "busy" while a write runs, "draft" once it is stored
  \* the processes
  pc,
  job,        \* the Action a process works on
  seen,       \* seen[p][a]: status of the row object p loaded, "ABSENT" if none
  todo,       \* rest of a worker's batch
  revoking,   \* sessions a back-channel logout has deleted but not committed
  \* history, read by the properties only
  loggedOut,  \* sessions whose open Actions a logout has expired
  crashes

rowVars     == <<status, decision, failure>>
redisVars   == <<lease, cooldown>>
procVars    == <<pc, job, seen, todo>>
sessionVars == <<live, revoking, loggedOut>>
vars == <<status, decision, failure, lock, overdue, lease, cooldown, live, erp,
          pc, job, seen, todo, revoking, loggedOut, crashes>>

Statuses == {"ABSENT", "PENDING", "APPROVED", "EXECUTING", "SUCCEEDED",
             "FAILED", "REJECTED", "EXPIRED"}
Open     == {"PENDING", "APPROVED"}
Settled  == {"SUCCEEDED", "FAILED", "REJECTED", "EXPIRED"}

\* What ActionExecutor._write_and_verify goes through.
Writing == {"write", "await", "rejected", "readback", "confirmed", "uncertain"}
\* Where a process believes it holds the execution lease.
Holding == {"leased", "reloaded", "authorizing", "claiming", "release"} \cup Writing
PCs     == {"idle", "loaded", "leasing", "locking", "deciding"} \cup Holding

NothingSeen == [a \in Actions |-> "ABSENT"]

TypeOK ==
  /\ status \in [Actions -> Statuses]
  /\ decision \in [Actions -> {"none", "approve", "reject"}]
  /\ failure \in [Actions -> BOOLEAN]
  /\ lock \in [Actions -> Procs \cup {NoProc}]
  /\ overdue \in [Actions -> BOOLEAN]
  /\ lease \in [Actions -> Procs \cup {NoProc}]
  /\ cooldown \in [Actions -> BOOLEAN]
  /\ live \subseteq Sessions
  /\ erp \in [Actions -> {"free", "busy", "draft"}]
  /\ pc \in [Procs -> PCs]
  /\ job \in [Procs -> Actions \cup {NoAction}]
  /\ seen \in [Procs -> [Actions -> Statuses]]
  /\ todo \in [Workers -> SUBSET Actions]
  /\ revoking \subseteq Sessions
  /\ loggedOut \subseteq Sessions
  /\ crashes \in 0..MaxCrashes

Init ==
  /\ status = [a \in Actions |-> "ABSENT"]
  /\ decision = [a \in Actions |-> "none"]
  /\ failure = [a \in Actions |-> FALSE]
  /\ lock = [a \in Actions |-> NoProc]
  /\ overdue = [a \in Actions |-> FALSE]
  /\ lease = [a \in Actions |-> NoProc]
  /\ cooldown = [a \in Actions |-> FALSE]
  /\ live = Sessions
  /\ erp = [a \in Actions |-> "free"]
  /\ pc = [p \in Procs |-> "idle"]
  /\ job = [p \in Procs |-> NoAction]
  /\ seen = [p \in Procs |-> NothingSeen]
  /\ todo = [w \in Workers |-> {}]
  /\ revoking = {}
  /\ loggedOut = {}
  /\ crashes = 0

-----------------------------------------------------------------------------
(* Control of one process.                                                  *)

Goto(p, to) ==
  /\ pc' = [pc EXCEPT ![p] = to]
  /\ UNCHANGED <<job, seen, todo>>

\* The handler returns; a worker goes on with the rest of its batch.
Leave(p) ==
  /\ pc' = [pc EXCEPT ![p] = "idle"]
  /\ job' = [job EXCEPT ![p] = NoAction]
  /\ seen' = [seen EXCEPT ![p] = NothingSeen]
  /\ todo' = [w \in Workers |-> IF w = p THEN todo[w] \ {job[w]} ELSE todo[w]]

-----------------------------------------------------------------------------
(* Proposals and the clock.                                                 *)

\* A chat turn commits a PENDING row.  The turn may outlive its session.
Propose(a) ==
  /\ status[a] = "ABSENT"
  /\ \A b \in Actions : b < a => status[b] # "ABSENT"
  /\ status' = [status EXCEPT ![a] = "PENDING"]
  /\ UNCHANGED <<decision, failure, lock, overdue, redisVars, erp, procVars,
                 sessionVars, crashes>>

\* p holds a loaded row of a that it has still to check against the clock.
ChecksLater(p, a) == pc[p] \in {"loaded", "reloaded"} /\ seen[p][a] \in Open

Elapse(a) ==
  /\ status[a] # "ABSENT"
  /\ ~overdue[a]
  /\ StaleReads \/ \A p \in Procs : ~ChecksLater(p, a)
  /\ overdue' = [overdue EXCEPT ![a] = TRUE]
  /\ UNCHANGED <<rowVars, lock, redisVars, erp, procVars, sessionVars, crashes>>

\* expire_if_needed decides on the loaded object, not on the row it overwrites.
Expirable(p) == {a \in Actions : seen[p][a] \in Open /\ overdue[a]}

ExpireRows(A) ==
  /\ \A a \in A : lock[a] = NoProc
  /\ status' = [a \in Actions |-> IF a \in A THEN "EXPIRED" ELSE status[a]]
  /\ UNCHANGED <<decision, failure>>

-----------------------------------------------------------------------------
(* GET /approvals and GET /approvals/{id}.                                  *)

ReadRows(r, A) ==
  /\ pc[r] = "idle"
  /\ A # {}
  /\ \E s \in live : \A a \in A : SessionOf[a] = s /\ status[a] # "ABSENT"
  /\ pc' = [pc EXCEPT ![r] = "loaded"]
  /\ seen' = [seen EXCEPT ![r] =
                [a \in Actions |-> IF a \in A THEN status[a] ELSE "ABSENT"]]
  /\ UNCHANGED <<rowVars, lock, overdue, redisVars, erp, job, todo, sessionVars,
                 crashes>>

FinishRead(r) ==
  /\ pc[r] = "loaded"
  /\ ExpireRows(Expirable(r))
  /\ Leave(r)
  /\ UNCHANGED <<lock, overdue, redisVars, erp, sessionVars, crashes>>

-----------------------------------------------------------------------------
(* POST /approvals/{id}/decision.  The commit is the exit of the request's  *)
(* database dependency, so the row lock outlives the handler's body.        *)

RequestDecision(d, a) ==
  /\ pc[d] = "idle"
  /\ SessionOf[a] \in live
  /\ status[a] # "ABSENT"
  /\ pc' = [pc EXCEPT ![d] = "locking"]
  /\ job' = [job EXCEPT ![d] = a]
  /\ UNCHANGED <<rowVars, lock, overdue, redisVars, erp, seen, todo, sessionVars,
                 crashes>>

LockForDecision(d) ==
  LET a == job[d] IN
  /\ pc[d] = "locking"
  /\ lock[a] = NoProc
  /\ status[a] = "PENDING" /\ ~overdue[a]
  /\ lock' = [lock EXCEPT ![a] = d]
  /\ Goto(d, "deciding")
  /\ UNCHANGED <<rowVars, overdue, redisVars, erp, sessionVars, crashes>>

RefuseDecision(d) ==
  LET a == job[d] IN
  /\ pc[d] = "locking"
  /\ lock[a] = NoProc
  /\ \/ status[a] \in Open /\ overdue[a] /\ ExpireRows({a})
     \/ status[a] # "PENDING" /\ ~(status[a] \in Open /\ overdue[a])
        /\ UNCHANGED rowVars
  /\ Leave(d)
  /\ UNCHANGED <<lock, overdue, redisVars, erp, sessionVars, crashes>>

\* Mutant: the decision itself is stored as the status.
DecisionAsStatus(d, verdict) ==
  /\ pc[d] = "deciding"
  /\ status' = [status EXCEPT ![job[d]] = verdict]
  /\ decision' = [decision EXCEPT ![job[d]] = verdict]
  /\ lock' = [lock EXCEPT ![job[d]] = NoProc]
  /\ Leave(d)
  /\ UNCHANGED <<failure, overdue, redisVars, erp, sessionVars, crashes>>

CommitDecision(d, verdict) ==
  LET a == job[d] IN
  /\ pc[d] = "deciding"
  /\ status' = [status EXCEPT ![a] =
                  IF verdict = "approve" THEN "APPROVED" ELSE "REJECTED"]
  /\ decision' = [decision EXCEPT ![a] = verdict]
  /\ lock' = [lock EXCEPT ![a] = NoProc]
  /\ Leave(d)
  /\ UNCHANGED <<failure, overdue, redisVars, erp, sessionVars, crashes>>

-----------------------------------------------------------------------------
(* POST /approvals/{id}/execute, up to the write.                           *)

RequestExecution(e, a) ==
  /\ pc[e] = "idle"
  /\ SessionOf[a] \in live
  /\ status[a] # "ABSENT"
  /\ pc' = [pc EXCEPT ![e] = "loaded"]
  /\ job' = [job EXCEPT ![e] = a]
  /\ seen' = [seen EXCEPT ![e][a] = status[a]]
  /\ UNCHANGED <<rowVars, lock, overdue, redisVars, erp, todo, sessionVars,
                 crashes>>

\* _validate_executable_action on the object loaded last.
Executable(e) ==
  /\ Expirable(e) = {}
  /\ seen[e][job[e]] \in {"APPROVED", "EXECUTING"}
  /\ decision[job[e]] # "none"

Validate(e) ==
  /\ pc[e] = "loaded"
  /\ \/ Executable(e) /\ Goto(e, "leasing") /\ UNCHANGED rowVars
     \/ ~Executable(e) /\ Leave(e) /\ ExpireRows(Expirable(e))
  /\ UNCHANGED <<lock, overdue, redisVars, erp, sessionVars, crashes>>

Reload(e) ==
  /\ pc[e] = "leased"
  /\ pc' = [pc EXCEPT ![e] = "reloaded"]
  /\ seen' = [seen EXCEPT ![e][job[e]] = status[job[e]]]
  /\ UNCHANGED <<rowVars, lock, overdue, redisVars, erp, job, todo, sessionVars,
                 crashes>>

Revalidate(e) ==
  /\ pc[e] = "reloaded"
  /\ \/ Executable(e) /\ Goto(e, "authorizing") /\ UNCHANGED rowVars
     \/ ~Executable(e) /\ Goto(e, "release") /\ ExpireRows(Expirable(e))
  /\ UNCHANGED <<lock, overdue, redisVars, erp, sessionVars, crashes>>

\* Mutant: the claim does not compare the status.
ClaimAnything(e) ==
  /\ pc[e] = "claiming"
  /\ ~overdue[job[e]]
  /\ status' = [status EXCEPT ![job[e]] = "EXECUTING"]
  /\ Goto(e, "write")
  /\ UNCHANGED <<decision, failure, lock, overdue, redisVars, erp, sessionVars,
                 crashes>>

\* The compare-and-set APPROVED -> EXECUTING, committed before any write.
Claim(e) ==
  LET a == job[e] IN
  /\ pc[e] = "claiming"
  /\ status[a] = "APPROVED" /\ ~overdue[a]
  /\ status' = [status EXCEPT ![a] = "EXECUTING"]
  /\ Goto(e, "write")
  /\ UNCHANGED <<decision, failure, lock, overdue, redisVars, erp, sessionVars,
                 crashes>>

ClaimRefused(e) ==
  /\ pc[e] = "claiming"
  /\ status[job[e]] # "APPROVED" \/ overdue[job[e]]
  /\ Goto(e, "release")
  /\ UNCHANGED <<rowVars, lock, overdue, redisVars, erp, sessionVars, crashes>>

-----------------------------------------------------------------------------
(* The recovery worker, up to the write.                                    *)

Executing == {a \in Actions : status[a] = "EXECUTING"}

\* list_executing_ids: the BatchSize oldest EXECUTING rows.
Batch == {a \in Executing : Cardinality({b \in Executing : b < a}) < BatchSize}

Scan(w) ==
  /\ pc[w] = "idle"
  /\ todo[w] = {}
  /\ Executing # {}
  /\ todo' = [todo EXCEPT ![w] = Batch]
  /\ UNCHANGED <<rowVars, lock, overdue, redisVars, erp, pc, job, seen,
                 sessionVars, crashes>>

Oldest(A) == {a \in A : \A b \in A : a <= b}

\* claim_action_recovery_attempt: one attempt per cooldown, over all instances.
ClaimRecovery(w) ==
  /\ pc[w] = "idle"
  /\ \E a \in Oldest(todo[w]) :
       /\ ~cooldown[a]
       /\ cooldown' = [cooldown EXCEPT ![a] = TRUE]
       /\ job' = [job EXCEPT ![w] = a]
  /\ pc' = [pc EXCEPT ![w] = "leasing"]
  /\ UNCHANGED <<rowVars, lock, overdue, lease, erp, seen, todo, sessionVars,
                 crashes>>

\* The Action is cooling down, or Redis fails: left to a later scan.  A SET
\* whose reply is lost still starts the cooldown.
DeferRecovery(w) ==
  /\ pc[w] = "idle"
  /\ \E a \in Oldest(todo[w]) :
       /\ todo' = [todo EXCEPT ![w] = @ \ {a}]
       /\ cooldown' \in {cooldown, [cooldown EXCEPT ![a] = TRUE]}
  /\ UNCHANGED <<rowVars, lock, overdue, lease, erp, pc, job, seen,
                 sessionVars, crashes>>

LoadExecuting(w) ==
  LET a == job[w] IN
  /\ pc[w] = "leased"
  /\ status[a] = "EXECUTING" /\ decision[a] # "none"
  /\ pc' = [pc EXCEPT ![w] = "authorizing"]
  /\ seen' = [seen EXCEPT ![w][a] = "EXECUTING"]
  /\ UNCHANGED <<rowVars, lock, overdue, redisVars, erp, job, todo, sessionVars,
                 crashes>>

\* The Action was settled meanwhile ("skipped"), or nobody decided it ("error").
SkipExecuting(w) ==
  LET a == job[w] IN
  /\ pc[w] = "leased"
  /\ status[a] # "EXECUTING" \/ decision[a] = "none"
  /\ failure' = [failure EXCEPT ![a] = @ \/ status[a] = "EXECUTING"]
  /\ Goto(w, "release")
  /\ UNCHANGED <<status, decision, lock, overdue, redisVars, erp, sessionVars,
                 crashes>>

\* Mutant: the cooldown key is written without a TTL.
CooldownWithoutTtl(a) == cooldown[a] /\ UNCHANGED vars

CooldownEnds(a) ==
  /\ cooldown[a]
  /\ cooldown' = [cooldown EXCEPT ![a] = FALSE]
  /\ UNCHANGED <<rowVars, lock, overdue, lease, erp, procVars, sessionVars,
                 crashes>>

-----------------------------------------------------------------------------
(* Lease, credentials and identity, shared by both entry points.            *)

\* Mutant: the lease key is written without NX.
TakeLeaseFromHolder(p) ==
  /\ pc[p] = "leasing"
  /\ lease' = [lease EXCEPT ![job[p]] = p]
  /\ Goto(p, "leased")
  /\ UNCHANGED <<rowVars, lock, overdue, cooldown, erp, sessionVars, crashes>>

TakeLease(p) ==
  LET a == job[p] IN
  /\ pc[p] = "leasing"
  /\ lease[a] = NoProc
  /\ lease' = [lease EXCEPT ![a] = p]
  /\ Goto(p, "leased")
  /\ UNCHANGED <<rowVars, lock, overdue, cooldown, erp, sessionVars, crashes>>

\* The lease is held, or Redis fails; a SET whose reply is lost still holds.
LeaseRefused(p) ==
  LET a == job[p] IN
  /\ pc[p] = "leasing"
  /\ \/ UNCHANGED lease
     \/ lease[a] = NoProc /\ lease' = [lease EXCEPT ![a] = p]
  /\ Leave(p)
  /\ UNCHANGED <<rowVars, lock, overdue, cooldown, erp, sessionVars, crashes>>

\* Mutant: an authorized executor reconciles without claiming.
AuthorizeWithoutClaim(p) ==
  /\ pc[p] = "authorizing"
  /\ p \in Workers => SessionOf[job[p]] \in live
  /\ Goto(p, "write")
  /\ UNCHANGED <<rowVars, lock, overdue, redisVars, erp, sessionVars, crashes>>

\* A valid credential whose MCP user is the owner.  The worker looks the
\* credential up through the session that proposed the Action.
Authorize(p) ==
  LET a == job[p] IN
  /\ pc[p] = "authorizing"
  /\ p \in Workers => SessionOf[a] \in live
  /\ Goto(p, IF seen[p][a] = "EXECUTING" THEN "write" ELSE "claiming")
  /\ UNCHANGED <<rowVars, lock, overdue, redisVars, erp, sessionVars, crashes>>

\* Failures that end the session: a refresh that fails, a second 401, a
\* foreign identity.
MayEndSession(a) ==
  /\ live' \in {live, live \ {SessionOf[a]}}
  /\ UNCHANGED <<revoking, loggedOut>>

\* Only the worker records why it stopped; the record itself can fail.
AuthorizeFails(p) ==
  LET a == job[p] IN
  /\ pc[p] = "authorizing"
  /\ \/ UNCHANGED failure
     \/ p \in Workers /\ failure' = [failure EXCEPT ![a] = TRUE]
  /\ MayEndSession(a)
  /\ Goto(p, "release")
  /\ UNCHANGED <<status, decision, lock, overdue, redisVars, erp, crashes>>

-----------------------------------------------------------------------------
(* ActionExecutor._write_and_verify.                                        *)

\* The request reserves the key in ERPNext, or replays the stored result.
SendWrite(p) ==
  LET a == job[p] IN
  /\ pc[p] = "write"
  /\ \/ /\ erp[a] = "free"
        /\ erp' = [erp EXCEPT ![a] = "busy"]
        /\ Goto(p, "await")
     \/ /\ erp[a] = "draft"
        /\ Goto(p, "readback")
        /\ UNCHANGED erp
  /\ UNCHANGED <<rowVars, lock, overdue, redisVars, sessionVars, crashes>>

\* The request is lost, refused as unauthenticated, or answered
\* IDEMPOTENCY_IN_PROGRESS or IDEMPOTENCY_UNAVAILABLE.
SendFails(p) ==
  /\ pc[p] = "write"
  /\ MayEndSession(job[p])
  /\ Goto(p, "uncertain")
  /\ UNCHANGED <<rowVars, lock, overdue, redisVars, erp, crashes>>

\* ERPNext ends the write, whether or not anybody still waits for it.
ErpFinishes(a, stored) ==
  /\ erp[a] = "busy"
  /\ erp' = [erp EXCEPT ![a] = IF stored THEN "draft" ELSE "free"]
  /\ pc' = [p \in Procs |->
              IF pc[p] = "await" /\ job[p] = a
                THEN IF stored THEN "readback" ELSE "rejected"
                ELSE pc[p]]
  /\ UNCHANGED <<rowVars, lock, overdue, redisVars, job, seen, todo, sessionVars,
                 crashes>>

\* Mutant: a response that never came is taken for success.
AwaitGivesUp(p) ==
  /\ pc[p] = "await"
  /\ Goto(p, "confirmed")
  /\ UNCHANGED <<rowVars, lock, overdue, redisVars, erp, sessionVars, crashes>>

\* A timeout, a lost or malformed response.
AwaitFails(p) ==
  /\ pc[p] = "await"
  /\ Goto(p, "uncertain")
  /\ UNCHANGED <<rowVars, lock, overdue, redisVars, erp, sessionVars, crashes>>

ReadBack(p) ==
  /\ pc[p] = "readback"
  /\ Goto(p, "confirmed")
  /\ UNCHANGED <<rowVars, lock, overdue, redisVars, erp, sessionVars, crashes>>

ReadBackFails(p) ==
  /\ pc[p] = "readback"
  /\ MayEndSession(job[p])
  /\ Goto(p, "uncertain")
  /\ UNCHANGED <<rowVars, lock, overdue, redisVars, erp, crashes>>

\* The three endings are updates by primary key: they look at no old status.
RecordSucceeded(p) ==
  /\ pc[p] = "confirmed"
  /\ status' = [status EXCEPT ![job[p]] = "SUCCEEDED"]
  /\ failure' = [failure EXCEPT ![job[p]] = FALSE]
  /\ Goto(p, "release")
  /\ UNCHANGED <<decision, lock, overdue, redisVars, erp, sessionVars, crashes>>

RecordRejected(p) ==
  /\ pc[p] = "rejected"
  /\ status' = [status EXCEPT ![job[p]] = "FAILED"]
  /\ failure' = [failure EXCEPT ![job[p]] = TRUE]
  /\ Goto(p, "release")
  /\ UNCHANGED <<decision, lock, overdue, redisVars, erp, sessionVars, crashes>>

\* Mutant: an uncertain write is recorded as failed.
UncertainIsFailed(p) ==
  /\ pc[p] = "uncertain"
  /\ status' = [status EXCEPT ![job[p]] = "FAILED"]
  /\ failure' = [failure EXCEPT ![job[p]] = TRUE]
  /\ Goto(p, "release")
  /\ UNCHANGED <<decision, lock, overdue, redisVars, erp, sessionVars, crashes>>

\* Mutant: an uncertain write gives the approval back for another try.
UncertainIsApproved(p) ==
  /\ pc[p] = "uncertain"
  /\ status' = [status EXCEPT ![job[p]] = "APPROVED"]
  /\ failure' = [failure EXCEPT ![job[p]] = TRUE]
  /\ Goto(p, "release")
  /\ UNCHANGED <<decision, lock, overdue, redisVars, erp, sessionVars, crashes>>

RecordUncertain(p) ==
  /\ pc[p] = "uncertain"
  /\ failure' = [failure EXCEPT ![job[p]] = TRUE]
  /\ Goto(p, "release")
  /\ UNCHANGED <<status, decision, lock, overdue, redisVars, erp, sessionVars,
                 crashes>>

\* The commit of an ending fails: the row stays EXECUTING for the next attempt.
RecordFails(p) ==
  /\ pc[p] \in {"confirmed", "rejected", "uncertain"}
  /\ Goto(p, "release")
  /\ UNCHANGED <<rowVars, lock, overdue, redisVars, erp, sessionVars, crashes>>

\* The owner-checked delete; if Redis fails the key stays until its TTL.
Release(p) ==
  LET a == job[p] IN
  /\ pc[p] = "release"
  /\ lease' \in {lease, [lease EXCEPT ![a] = IF @ = p THEN NoProc ELSE @]}
  /\ Leave(p)
  /\ UNCHANGED <<rowVars, lock, overdue, cooldown, erp, sessionVars, crashes>>

-----------------------------------------------------------------------------
(* Time-outs of leases, crashes, and the end of sessions.                   *)

Holds(p, a) == p \in Procs /\ pc[p] \in Holding /\ job[p] = a

LeaseExpires(a) ==
  /\ lease[a] # NoProc
  /\ LeaseMayExpire \/ ~Holds(lease[a], a)
  /\ lease' = [lease EXCEPT ![a] = NoProc]
  /\ UNCHANGED <<rowVars, lock, overdue, cooldown, erp, procVars, sessionVars,
                 crashes>>

\* PostgreSQL rolls the transaction back; the keys in Redis stay.
Crash(p) ==
  /\ pc[p] # "idle"
  /\ crashes < MaxCrashes
  /\ crashes' = crashes + 1
  /\ pc' = [pc EXCEPT ![p] = "idle"]
  /\ job' = [job EXCEPT ![p] = NoAction]
  /\ seen' = [seen EXCEPT ![p] = NothingSeen]
  /\ todo' = [w \in Workers |-> IF w = p THEN {} ELSE todo[w]]
  /\ lock' = [a \in Actions |-> IF lock[a] = p THEN NoProc ELSE lock[a]]
  /\ UNCHANGED <<rowVars, overdue, redisVars, erp, sessionVars>>

\* TTL, sign-out in the Agent, revocation found by introspection: the session
\* disappears and nothing touches its Actions.
SessionEnds(s) ==
  /\ s \in live
  /\ live' = live \ {s}
  /\ UNCHANGED <<rowVars, lock, overdue, redisVars, erp, procVars, revoking,
                 loggedOut, crashes>>

\* ERPNext's back-channel logout: sessions first, then the Actions' commit.
LogoutDeletes(s) ==
  /\ s \in live
  /\ live' = live \ {s}
  /\ revoking' = revoking \cup {s}
  /\ UNCHANGED <<rowVars, lock, overdue, redisVars, erp, procVars, loggedOut,
                 crashes>>

\* Mutant: the logout expires pending Actions and forgets approved ones.
LogoutExpiresPending(s) ==
  LET A == {a \in Actions : SessionOf[a] = s /\ status[a] = "PENDING"} IN
  /\ s \in revoking
  /\ \A a \in A : lock[a] = NoProc
  /\ status' = [a \in Actions |-> IF a \in A THEN "EXPIRED" ELSE status[a]]
  /\ failure' = [a \in Actions |-> a \in A \/ failure[a]]
  /\ revoking' = revoking \ {s}
  /\ loggedOut' = loggedOut \cup {s}
  /\ UNCHANGED <<decision, lock, overdue, redisVars, live, erp, procVars, crashes>>

LogoutCommits(s) ==
  LET A == {a \in Actions : SessionOf[a] = s /\ status[a] \in Open} IN
  /\ s \in revoking
  /\ \A a \in A : lock[a] = NoProc
  /\ status' = [a \in Actions |-> IF a \in A THEN "EXPIRED" ELSE status[a]]
  /\ failure' = [a \in Actions |-> a \in A \/ failure[a]]
  /\ revoking' = revoking \ {s}
  /\ loggedOut' = loggedOut \cup {s}
  /\ UNCHANGED <<decision, lock, overdue, redisVars, live, erp, procVars, crashes>>

\* A later step of the handler fails and its transaction rolls back.
LogoutFails(s) ==
  /\ s \in revoking
  /\ revoking' = revoking \ {s}
  /\ UNCHANGED <<rowVars, lock, overdue, redisVars, live, erp, procVars,
                 loggedOut, crashes>>

-----------------------------------------------------------------------------

ReaderStep(r) ==
  \/ \E A \in SUBSET Actions : ReadRows(r, A)
  \/ FinishRead(r)

DeciderStep(d) ==
  \/ \E a \in Actions : RequestDecision(d, a)
  \/ LockForDecision(d)
  \/ RefuseDecision(d)
  \/ \E verdict \in {"approve", "reject"} : CommitDecision(d, verdict)

ExecutorStep(e) ==
  \/ \E a \in Actions : RequestExecution(e, a)
  \/ Validate(e) \/ Reload(e) \/ Revalidate(e)
  \/ Claim(e) \/ ClaimRefused(e)

WorkerStep(w) ==
  \/ Scan(w) \/ ClaimRecovery(w) \/ DeferRecovery(w)
  \/ LoadExecuting(w) \/ SkipExecuting(w)

WriteStep(p) ==
  \/ TakeLease(p) \/ LeaseRefused(p)
  \/ Authorize(p) \/ AuthorizeFails(p)
  \/ SendWrite(p) \/ SendFails(p) \/ AwaitFails(p)
  \/ ReadBack(p) \/ ReadBackFails(p)
  \/ RecordSucceeded(p) \/ RecordRejected(p) \/ RecordUncertain(p) \/ RecordFails(p)
  \/ Release(p)

ActionStep(a) ==
  \/ Propose(a) \/ Elapse(a) \/ CooldownEnds(a) \/ LeaseExpires(a)
  \/ \E stored \in BOOLEAN : ErpFinishes(a, stored)

SessionStep(s) ==
  \/ SessionEnds(s) \/ LogoutDeletes(s) \/ LogoutCommits(s) \/ LogoutFails(s)

Next ==
  \/ \E a \in Actions : ActionStep(a)
  \/ \E r \in Readers : ReaderStep(r)
  \/ \E d \in Deciders : DeciderStep(d)
  \/ \E e \in Executors : ExecutorStep(e)
  \/ \E w \in Workers : WorkerStep(w)
  \/ \E p \in Executors \cup Workers : WriteStep(p)
  \/ \E p \in Procs : Crash(p)
  \/ \E s \in Sessions : SessionStep(s)

Spec == Init /\ [][Next]_vars

\* A handler or worker that is under way keeps going and the worker's loop
\* keeps scanning; users need not come back, so no request is fair.
Advance(p) ==
  \/ WriteStep(p)
  \/ p \in Executors /\ pc[p] # "idle" /\ ExecutorStep(p)
  \/ p \in Workers /\ WorkerStep(p)

\* A dependency fails, as opposed to answering that the process is too late.
Fault(p) ==
  \/ LeaseRefused(p) /\ lease[job[p]] = NoProc
  \/ AuthorizeFails(p) /\ SessionOf[job[p]] \in live
  \/ SendFails(p) /\ erp[job[p]] # "busy"
  \/ AwaitFails(p) \/ ReadBackFails(p) \/ RecordFails(p)
  \/ Release(p) /\ lease'[job[p]] = p
  \/ p \in Workers /\ DeferRecovery(p) /\ \E a \in Oldest(todo[p]) : ~cooldown[a]

\* Keys with a TTL expire, ERPNext ends what it began, and after some point no
\* dependency fails any more.
Fairness ==
  /\ \A p \in Executors \cup Workers : WF_vars(Advance(p))
  /\ \A a \in Actions :
       /\ WF_vars(CooldownEnds(a))
       /\ WF_vars(LeaseExpires(a))
       /\ WF_vars(\E stored \in BOOLEAN : ErpFinishes(a, stored))
  /\ <>[][\A p \in Executors \cup Workers : ~Fault(p)]_vars

FairSpec == Spec /\ Fairness

-----------------------------------------------------------------------------
(* What has to hold: first what does under every timing, then what needs    *)
(* timing that the code relies on and does not enforce (StaleReads and      *)
(* LeaseMayExpire both FALSE; for OwnedActionSettles, StaleReads).          *)

\* Whatever reaches ERPNext was approved by its owner and made durable first:
\* a key that ERPNext knows never belongs to a row that is still open or was
\* rejected (executor.py commits the claim before the side effect).
WriteWasApproved ==
  \A a \in Actions : erp[a] # "free" =>
    /\ decision[a] = "approve"
    /\ status[a] \notin {"ABSENT", "PENDING", "APPROVED", "REJECTED"}

\* Two handlers and a worker may race for the row, a lease may be lost and the
\* row may be overwritten: an Action is still claimed once, before ERPNext and
\* every writer (claim_execution is a compare-and-set on APPROVED).
ClaimedOnce ==
  [][\A a \in Actions : status'[a] = "EXECUTING" /\ status[a] # "EXECUTING" =>
       /\ erp[a] = "free"
       /\ \A p \in Procs : ~(pc[p] \in Writing /\ job[p] = a)]_vars

\* A logout that expired the open Actions of a session is final for them: no
\* decision or execution under way at that moment starts a write afterwards
\* (backchannel.py expires before it commits; claim and decision re-check).
NoClaimAfterLogout ==
  [][\A a \in Actions : SessionOf[a] \in loggedOut /\ status[a] # "EXECUTING" =>
       status'[a] # "EXECUTING"]_vars

\* An Action shown as SUCCEEDED has its draft in ERPNext, whoever else was
\* writing and whichever reply was lost (executor.py reads back first).
SucceededHasDraft ==
  \A a \in Actions : status[a] = "SUCCEEDED" => erp[a] = "draft"

\* While ERPNext works on a key or holds its draft, the row says EXECUTING or
\* SUCCEEDED: no FAILED, EXPIRED or REJECTED row hides a write, and a row that
\* ended in success carries no failure (executor.py, approvals.py).
RowTellsTheWrite ==
  \A a \in Actions :
    /\ erp[a] # "free" => status[a] \in {"EXECUTING", "SUCCEEDED"}
    /\ status[a] = "SUCCEEDED" => ~failure[a]

\* The lease keeps manual execution and background recovery of one Action
\* apart (actions/coordination.py).
WritersExcluded ==
  \A p, q \in Procs :
    pc[p] \in Writing /\ pc[q] \in Writing /\ job[p] = job[q] => p = q

\* One writer at a time, and for a row that is still EXECUTING: no write is sent
\* again for a settled Action.
OneWriter ==
  /\ WritersExcluded
  /\ \A p \in Procs : pc[p] \in Writing => status[job[p]] = "EXECUTING"

\* A settled outcome is final: success and failure never change, and a refused
\* Action never comes back (a late reader may relabel REJECTED as EXPIRED).
SettledIsFinal ==
  [][\A a \in Actions :
       /\ status[a] \in {"SUCCEEDED", "FAILED"} => status'[a] = status[a]
       /\ status[a] \in {"REJECTED", "EXPIRED"} =>
            status'[a] \in {"REJECTED", "EXPIRED"}]_vars

\* An EXECUTING row is left by the recorded outcome of its write only: an
\* uncertain write keeps the status (executor.py, _record_uncertain_failure).
ExecutingUntilOutcome ==
  [][\A a \in Actions : status[a] = "EXECUTING" =>
       status'[a] \in {"EXECUTING", "SUCCEEDED", "FAILED"}]_vars

\* As long as the proposing session exists, the worker brings every EXECUTING
\* Action to its outcome through crashes, lost replies, leaked and lost leases and
\* refused credentials (recovery.py).  Needs ~StaleReads: a late expiry check can
\* take the row out of the worker's sight.
OwnedActionSettles ==
  \A a \in Actions : status[a] = "EXECUTING" ~>
    status[a] \in {"SUCCEEDED", "FAILED"} \/ SessionOf[a] \notin live

\* What the documentation says of recovery: the worker resolves the credential by
\* site, requesting user and OAuth client, and an Action without one waits for the
\* user to sign in again.  So while the user is signed in somewhere, an EXECUTING
\* Action gets its outcome.
SignedInOwnerSettles ==
  \A a \in Actions : status[a] = "EXECUTING" ~>
    status[a] \in {"SUCCEEDED", "FAILED"} \/ live = {}

PhaseOf(st) ==
  CASE st = "ABSENT"    -> "absent"
    [] st = "PENDING"   -> "pending"
    [] st = "APPROVED"  -> "approved"
    [] st = "EXECUTING" -> "running"
    [] st = "SUCCEEDED" -> "done"
    [] st = "FAILED"    -> "failed"
    [] OTHER            -> "refused"

Promise == INSTANCE ActionPromise WITH
  phase <- [a \in Actions |-> PhaseOf(status[a])],
  doc   <- [a \in Actions |-> erp[a] = "draft"]

\* The gateway keeps the promise of ActionPromise: every step of handlers,
\* worker, ERPNext, clock, logout or crash is one of its steps or none.
KeepsPromise == Promise!Spec

=============================================================================
