----------------------- MODULE ActionLifecycleProofs -----------------------
(***************************************************************************)
(* Theorems about ActionLifecycle for any number of Actions, sessions,     *)
(* handlers and workers, any batch size and any number of crashes.         *)
(***************************************************************************)
EXTENDS ActionLifecycle, TLAPS

-----------------------------------------------------------------------------
(* Type correctness.  TypeOK is inductive.  It is taken apart into the row  *)
(* of an Action, the control of the processes, and the rest; there is one   *)
(* lemma per actor.                                                         *)

RowTyped ==
  /\ status \in [Actions -> Statuses]
  /\ decision \in [Actions -> {"none", "approve", "reject"}]
  /\ failure \in [Actions -> BOOLEAN]

ProcTyped ==
  /\ pc \in [Procs -> PCs]
  /\ job \in [Procs -> Actions \cup {NoAction}]
  /\ seen \in [Procs -> [Actions -> Statuses]]
  /\ todo \in [Workers -> SUBSET Actions]

SessionTyped ==
  /\ live \subseteq Sessions
  /\ revoking \subseteq Sessions
  /\ loggedOut \subseteq Sessions

RestTyped ==
  /\ lock \in [Actions -> Procs \cup {NoProc}]
  /\ overdue \in [Actions -> BOOLEAN]
  /\ lease \in [Actions -> Procs \cup {NoProc}]
  /\ cooldown \in [Actions -> BOOLEAN]
  /\ erp \in [Actions -> {"free", "busy", "draft"}]
  /\ crashes \in 0..MaxCrashes

LEMMA TypeParts == TypeOK <=> RowTyped /\ ProcTyped /\ SessionTyped /\ RestTyped
BY DEF TypeOK, RowTyped, ProcTyped, SessionTyped, RestTyped

LEMMA TypePartsNext ==
  TypeOK' <=> RowTyped' /\ ProcTyped' /\ SessionTyped' /\ RestTyped'
BY DEF TypeOK, RowTyped, ProcTyped, SessionTyped, RestTyped

LEMMA TypeInit == Init => TypeOK
BY ConstantsAssumption DEF Init, TypeOK, Procs, NothingSeen, Statuses, PCs

LEMMA GotoTyped ==
  ASSUME ProcTyped, NEW p \in Procs, NEW to \in PCs, Goto(p, to)
  PROVE  ProcTyped'
BY DEF ProcTyped, Goto

LEMMA LeaveTyped ==
  ASSUME ProcTyped, NEW p \in Procs, Leave(p)
  PROVE  ProcTyped'
<1> "idle" \in PCs /\ NothingSeen \in [Actions -> Statuses]
  BY DEF PCs, NothingSeen, Statuses
<1> QED
  BY DEF ProcTyped, Leave

LEMMA ExpireTyped ==
  ASSUME RowTyped, NEW A, ExpireRows(A)
  PROVE  RowTyped'
BY DEF RowTyped, ExpireRows, Statuses

\* What the clock, the TTLs and ERPNext change keeps its type.
LEMMA TypeActionStep ==
  ASSUME TypeOK, NEW a \in Actions, ActionStep(a)
  PROVE  TypeOK'
<1> USE DEF TypeOK, rowVars, redisVars, procVars, sessionVars
<1>1. CASE Propose(a)
  BY <1>1 DEF Propose, Statuses
<1>2. CASE Elapse(a)
  BY <1>2 DEF Elapse
<1>3. CASE CooldownEnds(a)
  BY <1>3 DEF CooldownEnds
<1>4. CASE LeaseExpires(a)
  BY <1>4 DEF LeaseExpires
<1>5. CASE \E stored \in BOOLEAN : ErpFinishes(a, stored)
  BY <1>5 DEF ErpFinishes, PCs, Holding, Writing
<1>6. QED
  BY <1>1, <1>2, <1>3, <1>4, <1>5 DEF ActionStep

LEMMA TypeReaderStep ==
  ASSUME TypeOK, NEW r \in Readers, ReaderStep(r)
  PROVE  TypeOK'
<1> r \in Procs
  BY DEF Procs
<1>1. CASE \E A \in SUBSET Actions : ReadRows(r, A)
  BY <1>1 DEF TypeOK, rowVars, redisVars, sessionVars, ReadRows, PCs, Statuses
<1>2. CASE FinishRead(r)
  <2>1. RowTyped' /\ ProcTyped'
    BY <1>2, TypeParts, ExpireTyped, LeaveTyped DEF FinishRead
  <2>2. SessionTyped' /\ RestTyped'
    BY <1>2, TypeParts
    DEF FinishRead, SessionTyped, RestTyped, redisVars, sessionVars
  <2>3. QED
    BY <2>1, <2>2, TypePartsNext
<1>3. QED
  BY <1>1, <1>2 DEF ReaderStep

LEMMA TypeDeciderStep ==
  ASSUME TypeOK, NEW d \in Deciders, DeciderStep(d)
  PROVE  TypeOK'
<1> d \in Procs
  BY DEF Procs
<1> USE DEF rowVars, redisVars, sessionVars
<1>1. CASE \E a \in Actions : RequestDecision(d, a)
  BY <1>1 DEF TypeOK, RequestDecision, PCs
<1>2. CASE LockForDecision(d)
  BY <1>2 DEF TypeOK, LockForDecision, Goto, PCs
<1>3. CASE RefuseDecision(d)
  <2>1. RowTyped'
    BY <1>3, TypeParts, ExpireTyped DEF RefuseDecision, RowTyped
  <2>2. ProcTyped'
    BY <1>3, TypeParts, LeaveTyped DEF RefuseDecision
  <2>3. SessionTyped' /\ RestTyped'
    BY <1>3, TypeParts DEF RefuseDecision, SessionTyped, RestTyped
  <2>4. QED
    BY <2>1, <2>2, <2>3, TypePartsNext
<1>4. CASE \E verdict \in {"approve", "reject"} : CommitDecision(d, verdict)
  <2>1. RowTyped'
    BY <1>4, TypeParts DEF CommitDecision, RowTyped, Statuses
  <2>2. ProcTyped'
    BY <1>4, TypeParts, LeaveTyped DEF CommitDecision
  <2>3. SessionTyped' /\ RestTyped'
    BY <1>4, TypeParts DEF CommitDecision, SessionTyped, RestTyped
  <2>4. QED
    BY <2>1, <2>2, <2>3, TypePartsNext
<1>5. QED
  BY <1>1, <1>2, <1>3, <1>4 DEF DeciderStep

LEMMA TypeExecutorStep ==
  ASSUME TypeOK, NEW e \in Executors, ExecutorStep(e)
  PROVE  TypeOK'
<1> e \in Procs
  BY DEF Procs
<1> USE DEF rowVars, redisVars, sessionVars
<1>1. CASE \E a \in Actions : RequestExecution(e, a)
  BY <1>1 DEF TypeOK, RequestExecution, PCs
<1>2. CASE Validate(e)
  <2>1. RowTyped'
    BY <1>2, TypeParts, ExpireTyped DEF Validate, RowTyped
  <2>2. ProcTyped'
    BY <1>2, TypeParts, LeaveTyped, GotoTyped DEF Validate, PCs
  <2>3. SessionTyped' /\ RestTyped'
    BY <1>2, TypeParts DEF Validate, SessionTyped, RestTyped
  <2>4. QED
    BY <2>1, <2>2, <2>3, TypePartsNext
<1>3. CASE Reload(e)
  BY <1>3 DEF TypeOK, Reload, PCs, Holding
<1>4. CASE Revalidate(e)
  <2>1. RowTyped'
    BY <1>4, TypeParts, ExpireTyped DEF Revalidate, RowTyped
  <2>2. ProcTyped'
    BY <1>4, TypeParts, GotoTyped DEF Revalidate, PCs, Holding
  <2>3. SessionTyped' /\ RestTyped'
    BY <1>4, TypeParts DEF Revalidate, SessionTyped, RestTyped
  <2>4. QED
    BY <2>1, <2>2, <2>3, TypePartsNext
<1>5. CASE Claim(e)
  BY <1>5 DEF TypeOK, Claim, Goto, PCs, Holding, Writing, Statuses
<1>6. CASE ClaimRefused(e)
  BY <1>6 DEF TypeOK, ClaimRefused, Goto, PCs, Holding
<1>7. QED
  BY <1>1, <1>2, <1>3, <1>4, <1>5, <1>6 DEF ExecutorStep

LEMMA TypeWorkerStep ==
  ASSUME TypeOK, NEW w \in Workers, WorkerStep(w)
  PROVE  TypeOK'
<1> w \in Procs
  BY DEF Procs
<1> USE DEF TypeOK, rowVars, redisVars, sessionVars
<1>1. CASE Scan(w)
  BY <1>1 DEF Scan, Batch, Executing
<1>2. CASE ClaimRecovery(w)
  BY <1>2 DEF ClaimRecovery, Oldest, PCs
<1>3. CASE DeferRecovery(w)
  BY <1>3 DEF DeferRecovery
<1>4. CASE LoadExecuting(w)
  BY <1>4 DEF LoadExecuting, PCs, Holding, Statuses
<1>5. CASE SkipExecuting(w)
  BY <1>5 DEF SkipExecuting, Goto, PCs, Holding
<1>6. QED
  BY <1>1, <1>2, <1>3, <1>4, <1>5 DEF WorkerStep

LEMMA TypeWriteStep ==
  ASSUME TypeOK, NEW p \in Executors \cup Workers, WriteStep(p)
  PROVE  TypeOK'
<1> p \in Procs
  BY DEF Procs
<1> DEFINE A == \/ TakeLease(p) \/ LeaseRefused(p) \/ Release(p)
           B == \/ Authorize(p) \/ AuthorizeFails(p)
           C == \/ SendWrite(p) \/ SendFails(p) \/ AwaitFails(p)
                \/ ReadBack(p) \/ ReadBackFails(p)
           D == \/ RecordSucceeded(p) \/ RecordRejected(p)
                \/ RecordUncertain(p) \/ RecordFails(p)
<1> USE DEF rowVars, redisVars, sessionVars
<1>1. CASE A
  <2>1. RowTyped'
    BY <1>1, TypeParts DEF TakeLease, LeaseRefused, Release, RowTyped
  <2>2. ProcTyped'
    BY <1>1, TypeParts, GotoTyped, LeaveTyped
    DEF TakeLease, LeaseRefused, Release, PCs, Holding
  <2>3. SessionTyped' /\ RestTyped'
    BY <1>1, TypeParts DEF TakeLease, LeaseRefused, Release, SessionTyped, RestTyped
  <2>4. QED
    BY <2>1, <2>2, <2>3, TypePartsNext
<1>2. CASE B
  <2>1. RowTyped' /\ RestTyped'
    BY <1>2, TypeParts DEF Authorize, AuthorizeFails, RowTyped, RestTyped
  <2>2. ProcTyped'
    BY <1>2, TypeParts, GotoTyped DEF Authorize, AuthorizeFails, PCs, Holding, Writing
  <2>3. SessionTyped'
    BY <1>2, TypeParts DEF Authorize, AuthorizeFails, MayEndSession, SessionTyped
  <2>4. QED
    BY <2>1, <2>2, <2>3, TypePartsNext
<1>3. CASE C
  <2> USE DEF SendWrite, SendFails, AwaitFails, ReadBack, ReadBackFails
  <2>1. RowTyped' /\ RestTyped'
    BY <1>3, TypeParts DEF RowTyped, RestTyped
  <2>2. ProcTyped'
    BY <1>3, TypeParts, GotoTyped DEF PCs, Holding, Writing
  <2>3. SessionTyped'
    BY <1>3, TypeParts DEF MayEndSession, SessionTyped
  <2>4. QED
    BY <2>1, <2>2, <2>3, TypePartsNext
<1>4. CASE D
  <2> USE DEF RecordSucceeded, RecordRejected, RecordUncertain, RecordFails
  <2>1. RowTyped'
    BY <1>4, TypeParts DEF RowTyped, Statuses
  <2>2. ProcTyped'
    BY <1>4, TypeParts, GotoTyped DEF PCs, Holding
  <2>3. SessionTyped' /\ RestTyped'
    BY <1>4, TypeParts DEF SessionTyped, RestTyped
  <2>4. QED
    BY <2>1, <2>2, <2>3, TypePartsNext
<1>5. QED
  BY <1>1, <1>2, <1>3, <1>4 DEF WriteStep

LEMMA TypeCrash ==
  ASSUME TypeOK, NEW p \in Procs, Crash(p)
  PROVE  TypeOK'
BY ConstantsAssumption
DEF TypeOK, Crash, rowVars, redisVars, sessionVars, PCs, NothingSeen, Statuses

LEMMA TypeSessionStep ==
  ASSUME TypeOK, NEW s \in Sessions, SessionStep(s)
  PROVE  TypeOK'
<1> USE DEF TypeOK, rowVars, redisVars, procVars
<1>1. CASE SessionEnds(s)
  BY <1>1 DEF SessionEnds
<1>2. CASE LogoutDeletes(s)
  BY <1>2 DEF LogoutDeletes
<1>3. CASE LogoutCommits(s)
  BY <1>3 DEF LogoutCommits, Statuses
<1>4. CASE LogoutFails(s)
  BY <1>4 DEF LogoutFails
<1>5. QED
  BY <1>1, <1>2, <1>3, <1>4 DEF SessionStep

LEMMA TypeNext == TypeOK /\ [Next]_vars => TypeOK'
<1> SUFFICES ASSUME TypeOK, [Next]_vars
             PROVE  TypeOK'
  OBVIOUS
<1>1. CASE UNCHANGED vars
  BY <1>1
  DEF TypeOK, vars, rowVars, redisVars, procVars, sessionVars
<1>2. CASE Next
  BY <1>2, TypeActionStep, TypeReaderStep, TypeDeciderStep, TypeExecutorStep,
     TypeWorkerStep, TypeWriteStep, TypeCrash, TypeSessionStep DEF Next
<1>3. QED
  BY <1>1, <1>2

\* Every variable keeps to its type, for any number of Actions and processes.
THEOREM TypeCorrect == Spec => []TypeOK
BY TypeInit, TypeNext, PTL DEF Spec

-----------------------------------------------------------------------------
(* What holds under every timing: leases may be lost, expiry checks may be  *)
(* overtaken by the clock, handlers may crash at any step.                  *)

\* The owner approved a, and its claim or its end was made durable.
Started(a) ==
  /\ decision[a] = "approve"
  /\ status[a] \in {"EXECUTING", "SUCCEEDED", "FAILED", "EXPIRED"}

\* A process under way works on an Action; a reader may look at several.
BusyWithAction ==
  \A p \in Procs :
    \/ pc[p] = "idle"
    \/ job[p] \in Actions
    \/ p \in Readers /\ pc[p] = "loaded"

\* A decision under way holds the lock of a row that is still PENDING.
DecidesPending ==
  \A p \in Procs : pc[p] = "deciding" =>
    lock[job[p]] = p /\ status[job[p]] = "PENDING"

ClaimableWasApproved ==
  \A a \in Actions : status[a] \in {"APPROVED", "EXECUTING"} => decision[a] = "approve"

\* ERPNext, a writer and a loaded EXECUTING row only ever concern started Actions.
OnlyStarted ==
  /\ \A a \in Actions : erp[a] # "free" => Started(a)
  /\ \A p \in Procs : pc[p] \in Writing => Started(job[p])
  /\ \A p \in Procs : \A a \in Actions : seen[p][a] = "EXECUTING" => Started(a)

\* Success is recorded by a process that knows of the draft.
SuccessKnowsDraft ==
  /\ \A p \in Procs : pc[p] \in {"readback", "confirmed"} => erp[job[p]] = "draft"
  /\ \A a \in Actions : status[a] = "SUCCEEDED" => erp[a] = "draft"

\* After a logout no row can be approved any more and no decision is under way
\* that could approve one.
LogoutStands ==
  /\ live \cap revoking = {}
  /\ live \cap loggedOut = {}
  /\ \A a \in Actions : SessionOf[a] \in loggedOut => status[a] # "APPROVED"
  /\ \A p \in Procs : pc[p] \in {"locking", "deciding"} =>
       /\ status[job[p]] # "ABSENT"
       /\ SessionOf[job[p]] \in loggedOut => status[job[p]] # "PENDING"

AnyTimingInv ==
  /\ TypeOK
  /\ BusyWithAction
  /\ DecidesPending
  /\ ClaimableWasApproved
  /\ OnlyStarted
  /\ SuccessKnowsDraft
  /\ LogoutStands

LEMMA AnyTimingInit == Init => AnyTimingInv
<1> SUFFICES ASSUME Init
             PROVE  AnyTimingInv
  OBVIOUS
<1>1. TypeOK
  BY TypeInit
<1>2. QED
  BY <1>1
  DEF AnyTimingInv, Init, BusyWithAction, DecidesPending, ClaimableWasApproved,
      OnlyStarted, SuccessKnowsDraft, LogoutStands, NothingSeen, Writing

\* Steps that leave the rows, the locks, ERPNext and the control alone.
LEMMA FrameKeeps ==
  ASSUME AnyTimingInv, TypeOK',
         UNCHANGED <<status, decision, lock, erp, pc, job, seen, loggedOut>>,
         live' \subseteq live, revoking' \subseteq revoking
  PROVE  AnyTimingInv'
BY DEF AnyTimingInv, BusyWithAction, DecidesPending, ClaimableWasApproved,
       OnlyStarted, SuccessKnowsDraft, LogoutStands, Started

\* A process that steps aside expires at most rows whose lock is free and goes
\* where it neither decides nor writes.
StepsAside(p, A) ==
  /\ ExpireRows(A) \/ UNCHANGED <<status, decision>>
  /\ \/ Leave(p)
     \/ /\ pc[p] # "idle" /\ p \notin Readers
        /\ \E to \in PCs : to \notin Writing \cup {"locking", "deciding"} /\ Goto(p, to)
  /\ live' \subseteq live
  /\ UNCHANGED <<lock, erp, revoking, loggedOut>>

LEMMA StepsAsideKeeps ==
  ASSUME AnyTimingInv, TypeOK', NEW p \in Procs, NEW A, StepsAside(p, A)
  PROVE  AnyTimingInv'
<1> USE DEF AnyTimingInv
<1>1. /\ pc'[p] \notin Writing \cup {"locking", "deciding"}
      /\ \A q \in Procs : q # p => pc'[q] = pc[q] /\ job'[q] = job[q]
      /\ \A q \in Procs, a \in Actions : seen'[q][a] \in {seen[q][a], "ABSENT"}
  BY DEF StepsAside, Goto, Leave, TypeOK, NothingSeen, Writing, PCs
<1>2. /\ decision' = decision /\ lock' = lock /\ erp' = erp
      /\ live' \subseteq live /\ revoking' = revoking /\ loggedOut' = loggedOut
  BY DEF StepsAside, ExpireRows
<1>3. \A a \in Actions :
        /\ status'[a] \in {status[a], "EXPIRED"}
        /\ lock[a] # NoProc => status'[a] = status[a]
  BY DEF StepsAside, ExpireRows
<1>4. \A a \in Actions : Started(a) => Started(a)'
  BY <1>2, <1>3 DEF Started
<1>5. \A q \in Procs : pc'[q] \in Writing \cup {"locking", "deciding"} =>
        pc[q] = pc'[q] /\ job'[q] = job[q] /\ job[q] \in Actions
  BY <1>1 DEF BusyWithAction, Writing
<1>6. BusyWithAction'
  BY DEF BusyWithAction, StepsAside, Goto, Leave, TypeOK
<1>7. DecidesPending'
  <2> SUFFICES ASSUME NEW q \in Procs, pc'[q] = "deciding"
               PROVE  lock'[job'[q]] = q /\ status'[job'[q]] = "PENDING"
    BY DEF DecidesPending
  <2>1. pc[q] = "deciding" /\ job'[q] = job[q] /\ job[q] \in Actions
    BY <1>5
  <2>2. lock[job[q]] = q /\ status[job[q]] = "PENDING" /\ q # NoProc
    BY <2>1, ConstantsAssumption DEF DecidesPending
  <2>3. QED
    BY <1>2, <1>3, <2>1, <2>2
<1>8. ClaimableWasApproved'
  BY <1>2, <1>3 DEF ClaimableWasApproved
<1>9. OnlyStarted'
  BY <1>1, <1>2, <1>4, <1>5 DEF OnlyStarted
<1>10. SuccessKnowsDraft'
  BY <1>2, <1>3, <1>5 DEF SuccessKnowsDraft, Writing
<1>11. LogoutStands'
  BY <1>2, <1>3, <1>5 DEF LogoutStands
<1>12. QED
  BY <1>6, <1>7, <1>8, <1>9, <1>10, <1>11

\* A row seen EXECUTING needs no claim: whoever loaded it knows it was started.
LEMMA AuthorizeKeepsStarted ==
  ASSUME TypeOK, BusyWithAction, OnlyStarted,
         NEW p \in Executors \cup Workers, Authorize(p)
  PROVE  OnlyStarted'
<1>1. p \in Procs /\ p \notin Readers
  BY ConstantsAssumption DEF Procs
<1>2. job[p] \in Actions
  BY <1>1 DEF BusyWithAction, Authorize
<1>3. /\ pc'[p] = IF seen[p][job[p]] = "EXECUTING" THEN "write" ELSE "claiming"
      /\ job' = job /\ seen' = seen /\ status' = status
      /\ decision' = decision /\ erp' = erp
      /\ \A q \in Procs : q # p => pc'[q] = pc[q]
  BY <1>1 DEF Authorize, Goto, TypeOK, rowVars
<1>4. pc'[p] \in Writing => Started(job[p])
  BY <1>1, <1>2, <1>3 DEF OnlyStarted, Writing
<1>5. \A q \in Procs : pc'[q] \in Writing => Started(job[q])
  BY <1>3, <1>4 DEF OnlyStarted
<1>6. \A a : Started(a)' <=> Started(a)
  BY <1>3 DEF Started
<1>7. QED
  BY <1>3, <1>5, <1>6 DEF OnlyStarted, Started

\* The claim starts the Action before its holder may write.
LEMMA ClaimKeepsStarted ==
  ASSUME TypeOK, BusyWithAction, ClaimableWasApproved, OnlyStarted,
         NEW e \in Executors, Claim(e)
  PROVE  OnlyStarted'
<1>1. e \in Procs /\ e \notin Readers
  BY ConstantsAssumption DEF Procs
<1>2. job[e] \in Actions
  BY <1>1 DEF BusyWithAction, Claim
<1>3. /\ job' = job /\ seen' = seen /\ decision' = decision /\ erp' = erp
      /\ \A q \in Procs : q # e => pc'[q] = pc[q]
      /\ status' = [status EXCEPT ![job[e]] = "EXECUTING"]
  BY <1>1 DEF Claim, Goto, TypeOK
<1>4. decision'[job[e]] = "approve" /\ status'[job[e]] = "EXECUTING"
  BY <1>2, <1>3 DEF Claim, ClaimableWasApproved, TypeOK
<1>5. \A a \in Actions : Started(a) => Started(a)'
  BY <1>3, <1>4 DEF Started, TypeOK
<1>6. \A q \in Procs : pc'[q] \in Writing => Started(job[q])'
  <2> SUFFICES ASSUME NEW q \in Procs, pc'[q] \in Writing
               PROVE  Started(job[q])'
    OBVIOUS
  <2>1. CASE q = e
    BY <2>1, <1>3, <1>4 DEF Started
  <2>2. CASE q # e
    <3>1. pc[q] \in Writing
      BY <2>2, <1>3
    <3>2. Started(job[q]) /\ job[q] # job[e]
      BY <3>1 DEF OnlyStarted, Claim, Started
    <3>3. status'[job[q]] = status[job[q]]
      BY <3>2, <1>3 DEF Claim, Started, TypeOK
    <3>4. QED
      BY <3>2, <3>3, <1>3 DEF Started
  <2>3. QED
    BY <2>1, <2>2
<1>7. QED
  BY <1>3, <1>5, <1>6 DEF OnlyStarted

LEMMA KeepsActionStep ==
  ASSUME AnyTimingInv, NEW a \in Actions, ActionStep(a)
  PROVE  AnyTimingInv'
<1>0. TypeOK'
  BY TypeActionStep DEF AnyTimingInv
<1>1. CASE Elapse(a) \/ CooldownEnds(a) \/ LeaseExpires(a)
  BY <1>0, <1>1, FrameKeeps
  DEF Elapse, CooldownEnds, LeaseExpires, rowVars, procVars, sessionVars
<1> USE ConstantsAssumption
<1> USE DEF AnyTimingInv, TypeOK, BusyWithAction, DecidesPending,
            ClaimableWasApproved, OnlyStarted, SuccessKnowsDraft, LogoutStands,
            Started, rowVars, redisVars, procVars, sessionVars, Procs, Writing,
            Open, NothingSeen
<1>2. CASE Propose(a)
  BY <1>0, <1>2 DEF Propose
<1>3. CASE \E stored \in BOOLEAN : ErpFinishes(a, stored)
  BY <1>0, <1>3 DEF ErpFinishes
<1>4. QED
  BY <1>1, <1>2, <1>3 DEF ActionStep

LEMMA KeepsReaderStep ==
  ASSUME AnyTimingInv, NEW r \in Readers, ReaderStep(r)
  PROVE  AnyTimingInv'
<1>0. TypeOK'
  BY TypeReaderStep DEF AnyTimingInv
<1>1. CASE FinishRead(r)
  <2>1. r \in Procs /\ StepsAside(r, Expirable(r))
    BY <1>1 DEF FinishRead, StepsAside, Procs, sessionVars
  <2>2. QED
    BY <1>0, <2>1, StepsAsideKeeps
<1>2. CASE \E A \in SUBSET Actions : ReadRows(r, A)
  <2>1. /\ r \in Procs /\ pc'[r] = "loaded" /\ job' = job
        /\ \A q \in Procs : q # r => pc'[q] = pc[q] /\ seen'[q] = seen[q]
        /\ \A a \in Actions : seen'[r][a] \in {status[a], "ABSENT"}
    BY <1>2 DEF ReadRows, AnyTimingInv, TypeOK, Procs
  <2>2. UNCHANGED <<status, decision, lock, erp, live, revoking, loggedOut>>
    BY <1>2 DEF ReadRows, rowVars, sessionVars
  <2>3. \A a \in Actions : status[a] = "EXECUTING" => Started(a)
    BY DEF AnyTimingInv, ClaimableWasApproved, Started
  <2>4. BusyWithAction'
    BY <2>1 DEF AnyTimingInv, BusyWithAction
  <2>5. DecidesPending' /\ ClaimableWasApproved' /\ LogoutStands'
    BY <2>1, <2>2
    DEF AnyTimingInv, DecidesPending, ClaimableWasApproved, LogoutStands
  <2>6. OnlyStarted' /\ SuccessKnowsDraft'
    BY <2>1, <2>2, <2>3
    DEF AnyTimingInv, OnlyStarted, SuccessKnowsDraft, Started, Writing
  <2>7. QED
    BY <1>0, <2>4, <2>5, <2>6 DEF AnyTimingInv
<1>3. QED
  BY <1>1, <1>2 DEF ReaderStep

LEMMA KeepsDeciderStep ==
  ASSUME AnyTimingInv, NEW d \in Deciders, DeciderStep(d)
  PROVE  AnyTimingInv'
<1>0. TypeOK'
  BY TypeDeciderStep DEF AnyTimingInv
<1>1. CASE RefuseDecision(d)
  <2>1. d \in Procs /\ StepsAside(d, {job[d]})
    BY <1>1 DEF RefuseDecision, StepsAside, Procs, rowVars, sessionVars
  <2>2. QED
    BY <1>0, <2>1, StepsAsideKeeps
<1> USE ConstantsAssumption
<1> USE DEF AnyTimingInv, TypeOK, BusyWithAction, DecidesPending,
            ClaimableWasApproved, OnlyStarted, SuccessKnowsDraft, LogoutStands,
            Started, rowVars, redisVars, procVars, sessionVars, Procs, Writing,
            Open, NothingSeen
<1>2. CASE \E a \in Actions : RequestDecision(d, a)
  BY <1>0, <1>2 DEF RequestDecision
<1>3. CASE LockForDecision(d)
  BY <1>0, <1>3 DEF LockForDecision, Goto
<1>4. CASE \E verdict \in {"approve", "reject"} : CommitDecision(d, verdict)
  BY <1>0, <1>4 DEF CommitDecision, Leave
<1>5. QED
  BY <1>1, <1>2, <1>3, <1>4 DEF DeciderStep

LEMMA KeepsExecutorStep ==
  ASSUME AnyTimingInv, NEW e \in Executors, ExecutorStep(e)
  PROVE  AnyTimingInv'
<1>0. TypeOK'
  BY TypeExecutorStep DEF AnyTimingInv
<1>p. e \in Procs /\ e \notin Readers
  BY ConstantsAssumption DEF Procs
<1>1. CASE Validate(e)
  <2>1. StepsAside(e, Expirable(e))
    BY <1>p, <1>1 DEF Validate, StepsAside, PCs, Holding,
                   Writing, rowVars, sessionVars
  <2>2. QED
    BY <1>0, <1>p, <2>1, StepsAsideKeeps
<1>2. CASE Revalidate(e)
  <2>1. StepsAside(e, Expirable(e))
    BY <1>p, <1>2 DEF Revalidate, StepsAside, PCs, Holding,
                   Writing, rowVars, sessionVars
  <2>2. QED
    BY <1>0, <1>p, <2>1, StepsAsideKeeps
<1>3. CASE ClaimRefused(e)
  <2>1. StepsAside(e, {})
    BY <1>p, <1>3 DEF ClaimRefused, StepsAside, PCs, Holding,
                   Writing, rowVars, sessionVars
  <2>2. QED
    BY <1>0, <1>p, <2>1, StepsAsideKeeps
<1> USE ConstantsAssumption
<1> USE DEF AnyTimingInv, TypeOK, BusyWithAction, DecidesPending,
            ClaimableWasApproved, OnlyStarted, SuccessKnowsDraft, LogoutStands,
            Started, rowVars, redisVars, procVars, sessionVars, Procs, Writing,
            Open, NothingSeen
<1>4. CASE \E a \in Actions : RequestExecution(e, a)
  BY <1>0, <1>4 DEF RequestExecution
<1>5. CASE Reload(e)
  BY <1>0, <1>5 DEF Reload
<1>6. CASE Claim(e)
  <2>1. /\ BusyWithAction' /\ DecidesPending' /\ ClaimableWasApproved'
        /\ SuccessKnowsDraft' /\ LogoutStands'
    BY <1>0, <1>6 DEF Claim, Goto
  <2>2. OnlyStarted'
    BY <1>6, ClaimKeepsStarted
  <2>3. QED
    BY <1>0, <2>1, <2>2
<1>7. QED
  BY <1>1, <1>2, <1>3, <1>4, <1>5, <1>6 DEF ExecutorStep

LEMMA KeepsWorkerStep ==
  ASSUME AnyTimingInv, NEW w \in Workers, WorkerStep(w)
  PROVE  AnyTimingInv'
<1>0. TypeOK'
  BY TypeWorkerStep DEF AnyTimingInv
<1>p. w \in Procs /\ w \notin Readers
  BY ConstantsAssumption DEF Procs
<1>1. CASE Scan(w) \/ DeferRecovery(w)
  BY <1>0, <1>1, FrameKeeps DEF Scan, DeferRecovery, rowVars, sessionVars
<1>2. CASE SkipExecuting(w)
  <2>1. StepsAside(w, {})
    BY <1>p, <1>2 DEF SkipExecuting, StepsAside, PCs, Holding,
                   Writing, rowVars, sessionVars
  <2>2. QED
    BY <1>0, <1>p, <2>1, StepsAsideKeeps
<1> USE ConstantsAssumption
<1> USE DEF AnyTimingInv, TypeOK, BusyWithAction, DecidesPending,
            ClaimableWasApproved, OnlyStarted, SuccessKnowsDraft, LogoutStands,
            Started, rowVars, redisVars, procVars, sessionVars, Procs, Writing,
            Open, NothingSeen
<1>3. CASE ClaimRecovery(w)
  BY <1>0, <1>3 DEF ClaimRecovery, Oldest
<1>4. CASE LoadExecuting(w)
  BY <1>0, <1>4 DEF LoadExecuting
<1>5. QED
  BY <1>1, <1>2, <1>3, <1>4 DEF WorkerStep

LEMMA KeepsWriteStep ==
  ASSUME AnyTimingInv, NEW p \in Executors \cup Workers, WriteStep(p)
  PROVE  AnyTimingInv'
<1>0. TypeOK'
  BY TypeWriteStep DEF AnyTimingInv
<1>p. p \in Procs /\ p \notin Readers
  BY ConstantsAssumption DEF Procs
<1>1. CASE TakeLease(p) \/ LeaseRefused(p) \/ Release(p)
  <2>1. StepsAside(p, {})
    BY <1>p, <1>1 DEF TakeLease, LeaseRefused, Release, StepsAside, PCs, Holding,
                   Writing, rowVars, sessionVars
  <2>2. QED
    BY <1>0, <1>p, <2>1, StepsAsideKeeps
<1>2. CASE AuthorizeFails(p)
  <2>1. StepsAside(p, {})
    BY <1>p, <1>2 DEF AuthorizeFails, MayEndSession, StepsAside, PCs, Holding,
                   Writing, rowVars, sessionVars
  <2>2. QED
    BY <1>0, <1>p, <2>1, StepsAsideKeeps
<1>3. CASE RecordUncertain(p) \/ RecordFails(p)
  <2>1. StepsAside(p, {})
    BY <1>p, <1>3 DEF RecordUncertain, RecordFails, StepsAside, PCs, Holding,
                   Writing, rowVars, sessionVars
  <2>2. QED
    BY <1>0, <1>p, <2>1, StepsAsideKeeps
<1> USE ConstantsAssumption
<1> USE DEF AnyTimingInv, TypeOK, BusyWithAction, DecidesPending,
            ClaimableWasApproved, OnlyStarted, SuccessKnowsDraft, LogoutStands,
            Started, rowVars, redisVars, procVars, sessionVars, Procs, Writing,
            Open, NothingSeen
<1>4. CASE Authorize(p)
  <2>1. /\ BusyWithAction' /\ DecidesPending' /\ ClaimableWasApproved'
        /\ SuccessKnowsDraft' /\ LogoutStands'
    BY <1>0, <1>4 DEF Authorize, Goto
  <2>2. OnlyStarted'
    BY <1>4, AuthorizeKeepsStarted
  <2>3. QED
    BY <1>0, <2>1, <2>2
<1>5. CASE SendWrite(p)
  <2>1. /\ BusyWithAction' /\ DecidesPending' /\ ClaimableWasApproved'
        /\ OnlyStarted' /\ LogoutStands'
    BY <1>0, <1>5 DEF SendWrite, Goto
  <2>2. SuccessKnowsDraft'
    <3>1. job[p] \in Actions /\ p \in Procs
      BY <1>5 DEF SendWrite
    <3>2. \A a \in Actions : erp[a] = "draft" => erp'[a] = "draft"
      BY <1>5 DEF SendWrite
    <3>3. pc'[p] = "readback" => erp'[job[p]] = "draft"
      BY <1>5, <3>1 DEF SendWrite, Goto
    <3>4. job' = job /\ \A q \in Procs : q # p => pc'[q] = pc[q]
      BY <1>5 DEF SendWrite, Goto
    <3>5. pc'[p] # "confirmed"
      BY <1>5, <3>1 DEF SendWrite, Goto
    <3>6. status' = status
      BY <1>5 DEF SendWrite
    <3>7. \A q \in Procs : pc'[q] \in {"readback", "confirmed"} => job[q] \in Actions
      BY <3>1, <3>4
    <3>8. QED
      BY <3>2, <3>3, <3>4, <3>5, <3>6, <3>7
  <2>3. QED
    BY <1>0, <2>1, <2>2
<1>6. CASE SendFails(p)
  BY <1>0, <1>6 DEF SendFails, MayEndSession, Goto
<1>7. CASE AwaitFails(p)
  BY <1>0, <1>7 DEF AwaitFails, Goto
<1>8. CASE ReadBack(p)
  BY <1>0, <1>8 DEF ReadBack, Goto
<1>9. CASE ReadBackFails(p)
  BY <1>0, <1>9 DEF ReadBackFails, MayEndSession, Goto
<1>10. CASE RecordSucceeded(p)
  BY <1>0, <1>10 DEF RecordSucceeded, Goto
<1>11. CASE RecordRejected(p)
  BY <1>0, <1>11 DEF RecordRejected, Goto
<1>12. QED
  BY <1>1, <1>2, <1>3, <1>4, <1>5, <1>6, <1>7, <1>8, <1>9, <1>10, <1>11
  DEF WriteStep

LEMMA KeepsSessionStep ==
  ASSUME AnyTimingInv, NEW s \in Sessions, SessionStep(s)
  PROVE  AnyTimingInv'
<1>0. TypeOK'
  BY TypeSessionStep DEF AnyTimingInv
<1>1. CASE SessionEnds(s) \/ LogoutFails(s)
  BY <1>0, <1>1, FrameKeeps
  DEF SessionEnds, LogoutFails, rowVars, procVars
<1> USE ConstantsAssumption
<1> USE DEF AnyTimingInv, TypeOK, BusyWithAction, DecidesPending,
            ClaimableWasApproved, OnlyStarted, SuccessKnowsDraft, LogoutStands,
            Started, rowVars, redisVars, procVars, sessionVars, Procs, Writing,
            Open, NothingSeen
<1>2. CASE LogoutDeletes(s)
  <2>1. /\ BusyWithAction' /\ DecidesPending' /\ ClaimableWasApproved'
        /\ OnlyStarted' /\ SuccessKnowsDraft'
    BY <1>0, <1>2 DEF LogoutDeletes
  <2>2. LogoutStands'
    BY <1>0, <1>2 DEF LogoutDeletes
  <2>3. QED
    BY <1>0, <2>1, <2>2
<1>3. CASE LogoutCommits(s)
  <2>1. /\ BusyWithAction' /\ ClaimableWasApproved' /\ OnlyStarted'
        /\ SuccessKnowsDraft' /\ LogoutStands'
    BY <1>0, <1>3 DEF LogoutCommits
  <2>2. DecidesPending'
    <3> SUFFICES ASSUME NEW q \in Procs, pc'[q] = "deciding"
                 PROVE  lock'[job'[q]] = q /\ status'[job'[q]] = "PENDING"
      OBVIOUS
    <3>1. pc[q] = "deciding" /\ job'[q] = job[q] /\ job[q] \in Actions
      BY <1>3 DEF LogoutCommits
    <3>2. lock[job[q]] = q /\ lock[job[q]] # NoProc /\ status[job[q]] = "PENDING"
      BY <3>1
    <3>3. status'[job[q]] = status[job[q]] /\ lock' = lock
      BY <1>3, <3>1, <3>2 DEF LogoutCommits
    <3>4. QED
      BY <3>1, <3>2, <3>3
  <2>3. QED
    BY <1>0, <2>1, <2>2
<1>4. QED
  BY <1>1, <1>2, <1>3 DEF SessionStep

LEMMA KeepsCrash ==
  ASSUME AnyTimingInv, NEW p \in Procs, Crash(p)
  PROVE  AnyTimingInv'
<1>0. TypeOK'
  BY TypeCrash DEF AnyTimingInv
<1> USE ConstantsAssumption
<1> USE DEF AnyTimingInv, TypeOK, BusyWithAction, DecidesPending,
            ClaimableWasApproved, OnlyStarted, SuccessKnowsDraft, LogoutStands,
            Started, rowVars, redisVars, procVars, sessionVars, Procs, Writing,
            Open, NothingSeen
<1>1. QED
  BY <1>0 DEF Crash

LEMMA AnyTimingNext == AnyTimingInv /\ [Next]_vars => AnyTimingInv'
<1> SUFFICES ASSUME AnyTimingInv, [Next]_vars
             PROVE  AnyTimingInv'
  OBVIOUS
<1>1. CASE UNCHANGED vars
  <2>1. TypeOK'
    BY <1>1, TypeNext DEF AnyTimingInv
  <2>2. QED
    BY <1>1, <2>1, FrameKeeps DEF vars, rowVars, procVars, sessionVars
<1>2. CASE Next
  BY <1>2, KeepsActionStep, KeepsReaderStep, KeepsDeciderStep, KeepsExecutorStep,
     KeepsWorkerStep, KeepsWriteStep, KeepsCrash, KeepsSessionStep DEF Next
<1>3. QED
  BY <1>1, <1>2

LEMMA AnyTimingCorrect == Spec => []AnyTimingInv
BY AnyTimingInit, AnyTimingNext, PTL DEF Spec

\* Whatever ERPNext knows of was approved by its owner and durably claimed.
THEOREM OnlyApprovedWrites == Spec => []WriteWasApproved
<1>1. AnyTimingInv => WriteWasApproved
  BY DEF AnyTimingInv, OnlyStarted, Started, WriteWasApproved
<1>2. QED
  BY <1>1, AnyTimingCorrect, PTL

\* An Action shown as SUCCEEDED has its draft, even if leases were lost.
THEOREM SuccessIsReal == Spec => []SucceededHasDraft
<1>1. AnyTimingInv => SucceededHasDraft
  BY DEF AnyTimingInv, SuccessKnowsDraft, SucceededHasDraft
<1>2. QED
  BY <1>1, AnyTimingCorrect, PTL

\* Nothing but a claim turns a row EXECUTING.
LEMMA OnlyClaimStarts ==
  ASSUME TypeOK, Next, NEW a \in Actions,
         status[a] # "EXECUTING", status'[a] = "EXECUTING"
  PROVE  \E e \in Executors : Claim(e) /\ job[e] = a
<1> USE DEF TypeOK, rowVars, ExpireRows
<1>1. ASSUME NEW b \in Actions, ActionStep(b)
      PROVE  FALSE
  BY <1>1 DEF ActionStep, Propose, Elapse, CooldownEnds, LeaseExpires, ErpFinishes
<1>2. ASSUME NEW r \in Readers, ReaderStep(r)
      PROVE  FALSE
  BY <1>2 DEF ReaderStep, ReadRows, FinishRead
<1>3. ASSUME NEW d \in Deciders, DeciderStep(d)
      PROVE  FALSE
  BY <1>3
  DEF DeciderStep, RequestDecision, LockForDecision, RefuseDecision, CommitDecision
<1>4. ASSUME NEW e \in Executors, ExecutorStep(e)
      PROVE  Claim(e) /\ job[e] = a
  BY <1>4
  DEF ExecutorStep, RequestExecution, Validate, Reload, Revalidate, Claim, ClaimRefused
<1>5. ASSUME NEW w \in Workers, WorkerStep(w)
      PROVE  FALSE
  BY <1>5
  DEF WorkerStep, Scan, ClaimRecovery, DeferRecovery, LoadExecuting, SkipExecuting
<1>6. ASSUME NEW p \in Executors \cup Workers, WriteStep(p)
      PROVE  FALSE
  BY <1>6
  DEF WriteStep, TakeLease, LeaseRefused, Authorize, AuthorizeFails, SendWrite,
      SendFails, AwaitFails, ReadBack, ReadBackFails, RecordSucceeded,
      RecordRejected, RecordUncertain, RecordFails, Release
<1>7. ASSUME NEW p \in Procs, Crash(p)
      PROVE  FALSE
  BY <1>7 DEF Crash
<1>8. ASSUME NEW s \in Sessions, SessionStep(s)
      PROVE  FALSE
  BY <1>8 DEF SessionStep, SessionEnds, LogoutDeletes, LogoutCommits, LogoutFails
<1>9. QED
  BY <1>1, <1>2, <1>3, <1>4, <1>5, <1>6, <1>7, <1>8 DEF Next

\* The compare-and-set makes the first claim of an Action the only one: nobody
\* has written under its key, and nobody is about to.
THEOREM ClaimIsUnique == Spec => ClaimedOnce
<1> DEFINE FirstClaim(a) ==
             status'[a] = "EXECUTING" /\ status[a] # "EXECUTING" =>
               /\ erp[a] = "free"
               /\ \A p \in Procs : ~(pc[p] \in Writing /\ job[p] = a)
<1>1. ASSUME AnyTimingInv, Next, NEW a \in Actions
      PROVE  FirstClaim(a)
  <2> SUFFICES ASSUME status[a] # "EXECUTING", status'[a] = "EXECUTING"
               PROVE  /\ erp[a] = "free"
                      /\ \A p \in Procs : ~(pc[p] \in Writing /\ job[p] = a)
    OBVIOUS
  <2>1. status[a] = "APPROVED"
    BY <1>1, OnlyClaimStarts DEF AnyTimingInv, Claim
  <2>2. ~Started(a)
    BY <2>1 DEF Started
  <2>3. QED
    BY <1>1, <2>2 DEF AnyTimingInv, OnlyStarted
<1>2. AnyTimingInv /\ [Next]_vars => [\A a \in Actions : FirstClaim(a)]_vars
  BY <1>1
<1>3. QED
  BY <1>2, AnyTimingCorrect, PTL DEF Spec, ClaimedOnce

\* No decision or execution under way survives a logout that has expired the
\* open Actions of its session.
THEOREM LogoutIsFinal == Spec => NoClaimAfterLogout
<1> DEFINE StaysOut(a) ==
             SessionOf[a] \in loggedOut /\ status[a] # "EXECUTING" =>
               status'[a] # "EXECUTING"
<1>1. ASSUME AnyTimingInv, Next, NEW a \in Actions
      PROVE  StaysOut(a)
  BY <1>1, OnlyClaimStarts DEF AnyTimingInv, LogoutStands, Claim
<1>2. AnyTimingInv /\ [Next]_vars => [\A a \in Actions : StaysOut(a)]_vars
  BY <1>1
<1>3. QED
  BY <1>2, AnyTimingCorrect, PTL DEF Spec, NoClaimAfterLogout

=============================================================================
