------------------------- MODULE ActionTightProofs -------------------------
(***************************************************************************)
(* Theorems about ActionLifecycle under the two timing assumptions the     *)
(* code relies on: an execution lease outlives its holder's work, and no   *)
(* Action passes expires_at between its SELECT and its expiry check.  That *)
(* writers exclude each other needs the first of the two only.             *)
(***************************************************************************)
EXTENDS ActionLifecycleProofs

-----------------------------------------------------------------------------
(* The lease, however old the rows are that the handlers have loaded.       *)

\* Whoever believes to hold a lease does hold it.
HoldersHold ==
  \A p \in Procs : pc[p] \in Holding => lease[job[p]] = p

\* A step that lets nobody begin to hold, or change what it works on, keeps that
\* while nobody's lease is taken away.
LEMMA HoldersRest ==
  ASSUME TypeOK, HoldersHold, BusyWithAction,
         \A p \in Procs : pc'[p] \in Holding => pc[p] \in Holding /\ job'[p] = job[p],
         \A a \in Actions :
           lease[a] # NoProc /\ Holds(lease[a], a) => lease'[a] = lease[a]
  PROVE  HoldersHold'
<1> SUFFICES ASSUME NEW p \in Procs, pc'[p] \in Holding
             PROVE  lease'[job'[p]] = p
  BY DEF HoldersHold
<1>1. pc[p] \in Holding /\ job'[p] = job[p] /\ job[p] \in Actions
  BY DEF BusyWithAction, Holding, Writing
<1>2. lease[job[p]] = p /\ p # NoProc
  BY <1>1, ConstantsAssumption DEF HoldersHold
<1>3. QED
  BY <1>1, <1>2 DEF Holds

\* Steps that leave every lease alone.
LEMMA HoldersStay ==
  ASSUME AnyTimingInv, HoldersHold, [Next]_vars,
         \A a \in Actions : ~LeaseExpires(a),
         \A p \in Executors \cup Workers :
           ~TakeLease(p) /\ ~LeaseRefused(p) /\ ~Release(p)
  PROVE  HoldersHold'
<1> USE DEF TypeOK, Holding, Writing, Goto, Leave
<1>0. TypeOK /\ BusyWithAction
  BY DEF AnyTimingInv
<1> DEFINE Rests == /\ UNCHANGED lease
                    /\ \A p \in Procs : pc'[p] \in Holding =>
                         pc[p] \in Holding /\ job'[p] = job[p]
<1>1. ASSUME NEW a \in Actions, ActionStep(a) PROVE Rests
  BY <1>0, <1>1 DEF ActionStep, Propose, Elapse, CooldownEnds, ErpFinishes, rowVars,
     redisVars, procVars
<1>2. ASSUME NEW r \in Readers, ReaderStep(r) PROVE Rests
  BY <1>0, <1>2 DEF ReaderStep, ReadRows, FinishRead, redisVars
<1>3. ASSUME NEW d \in Deciders, DeciderStep(d) PROVE Rests
  BY <1>0, <1>3 DEF DeciderStep, RequestDecision, LockForDecision, RefuseDecision,
     CommitDecision, redisVars
<1>4. ASSUME NEW e \in Executors, ExecutorStep(e) PROVE Rests
  BY <1>0, <1>4 DEF ExecutorStep, RequestExecution, Validate, Reload, Revalidate, Claim,
     ClaimRefused, redisVars
<1>5. ASSUME NEW w \in Workers, WorkerStep(w) PROVE Rests
  BY <1>0, <1>5 DEF WorkerStep, Scan, ClaimRecovery, DeferRecovery, LoadExecuting,
     SkipExecuting, redisVars
<1>6. ASSUME NEW p \in Executors \cup Workers, WriteStep(p) PROVE Rests
  BY <1>0, <1>6 DEF WriteStep, Authorize, AuthorizeFails, SendWrite, SendFails,
     AwaitFails, ReadBack, ReadBackFails, RecordSucceeded, RecordRejected,
     RecordUncertain, RecordFails, redisVars
<1>7. ASSUME NEW p \in Procs, Crash(p) PROVE Rests
  BY <1>0, <1>7 DEF Crash, redisVars
<1>8. ASSUME NEW s \in Sessions, SessionStep(s) PROVE Rests
  BY <1>0, <1>8 DEF SessionStep, SessionEnds, LogoutDeletes, LogoutCommits, LogoutFails,
     redisVars, procVars
<1>9. ASSUME UNCHANGED vars PROVE Rests
  BY <1>9 DEF vars
<1>10. Rests
  BY <1>1, <1>2, <1>3, <1>4, <1>5, <1>6, <1>7, <1>8, <1>9 DEF Next, vars
<1>11. QED
  BY <1>0, <1>10, HoldersRest

\* No step takes a lease from its holder, as long as none expires under one.
LEMMA HoldersNext ==
  ASSUME ~LeaseMayExpire, AnyTimingInv, HoldersHold, [Next]_vars
  PROVE  HoldersHold'
<1> USE DEF TypeOK, Holding, Writing, Goto, Leave
<1>0. TypeOK /\ BusyWithAction
  BY DEF AnyTimingInv
<1>1. ASSUME NEW a \in Actions, LeaseExpires(a) PROVE HoldersHold'
  BY <1>0, <1>1, HoldersRest DEF LeaseExpires, procVars
<1>2. ASSUME NEW p \in Executors \cup Workers, TakeLease(p) PROVE HoldersHold'
  <2>1. \A q \in Procs \ {p} : pc'[q] \in Holding => lease'[job'[q]] = q
    BY <1>0, <1>2, ConstantsAssumption DEF TakeLease, HoldersHold, BusyWithAction
  <2>2. job'[p] \in Actions /\ lease'[job'[p]] = p
    BY <1>0, <1>2 DEF TakeLease, BusyWithAction, Procs
  <2>3. QED
    BY <2>1, <2>2 DEF HoldersHold
<1>3. ASSUME NEW p \in Executors \cup Workers, LeaseRefused(p) PROVE HoldersHold'
  BY <1>0, <1>3, HoldersRest, ConstantsAssumption DEF LeaseRefused
<1>4. ASSUME NEW p \in Executors \cup Workers, Release(p) PROVE HoldersHold'
  <2>1. pc'[p] = "idle" /\ \A q \in Procs \ {p} : pc'[q] = pc[q] /\ job'[q] = job[q]
    BY <1>0, <1>4 DEF Release, Procs
  <2>2. ASSUME NEW q \in Procs, pc'[q] \in Holding
        PROVE  lease'[job'[q]] = q
    <3>1. q # p /\ job[q] \in Actions /\ lease[job[q]] = q /\ job'[q] = job[q]
      BY <1>0, <2>1, <2>2 DEF HoldersHold, BusyWithAction
    <3>2. lease'[job[q]] = lease[job[q]]
      BY <1>0, <1>4, <3>1 DEF Release
    <3>3. QED
      BY <3>1, <3>2
  <2>3. QED
    BY <2>2 DEF HoldersHold
<1>5. QED
  BY <1>1, <1>2, <1>3, <1>4, HoldersStay

\* The lease keeps writers of one Action apart, handler or worker, also when an Action
\* has expired behind the back of one of them.
THEOREM WritersAreApart ==
  ASSUME ~LeaseMayExpire
  PROVE  Spec => []WritersExcluded
<1>1. Init => HoldersHold
  BY DEF Init, HoldersHold, Holding, Writing
<1>2. AnyTimingInv /\ HoldersHold /\ [Next]_vars => HoldersHold'
  BY HoldersNext
<1>3. AnyTimingInv /\ HoldersHold => WritersExcluded
  BY DEF HoldersHold, WritersExcluded, Holding
<1>4. QED
  BY <1>1, <1>2, <1>3, AnyTimingCorrect, PTL DEF Spec

-----------------------------------------------------------------------------
(* Both timing assumptions.                                                 *)

TightTiming == ~StaleReads /\ ~LeaseMayExpire

-----------------------------------------------------------------------------
(* The inductive invariant.                                                 *)

\* A writer works for a row that is EXECUTING, and so does whoever has loaded
\* an EXECUTING row under the lease; a worker has loaded nothing else.
WritesExecuting ==
  /\ \A p \in Procs : pc[p] \in Writing => status[job[p]] = "EXECUTING"
  /\ \A p \in Procs :
       pc[p] \in {"reloaded", "authorizing"} /\ seen[p][job[p]] = "EXECUTING" =>
         status[job[p]] = "EXECUTING"
  /\ \A w \in Workers : pc[w] = "authorizing" => seen[w][job[w]] = "EXECUTING"

\* An executor or worker has loaded the row of its job only.
SeesItsJob ==
  \A p \in Executors \cup Workers :
    /\ pc[p] = "idle" => job[p] = NoAction
    /\ \A a \in Actions : seen[p][a] # "ABSENT" => a = job[p]

\* A row about to be expired on the strength of a loaded object has not been
\* claimed meanwhile.
ExpiresUnclaimed ==
  \A p \in Procs, a \in Actions :
    pc[p] \in {"loaded", "reloaded"} /\ seen[p][a] \in Open /\ overdue[a] =>
      status[a] \in Open \cup {"REJECTED", "EXPIRED"}

\* A writer that waits, or was rejected, knows what ERPNext does with the key.
WriterKnowsKey ==
  \A p \in Procs :
    /\ pc[p] = "await" => erp[job[p]] = "busy"
    /\ pc[p] = "rejected" => erp[job[p]] = "free"

TightInv ==
  /\ AnyTimingInv
  /\ HoldersHold
  /\ WritesExecuting
  /\ SeesItsJob
  /\ ExpiresUnclaimed
  /\ WriterKnowsKey
  /\ RowTellsTheWrite

\* Steps that leave alone what the second half of the invariant speaks about.
LEMMA TightFrame ==
  ASSUME TightInv, AnyTimingInv',
         UNCHANGED <<status, failure, overdue, erp, pc, job, seen>>,
         \A a \in Actions :
           lease[a] # NoProc /\ Holds(lease[a], a) => lease'[a] = lease[a]
  PROVE  TightInv'
<1>1. HoldersHold'
  <2> SUFFICES ASSUME NEW p \in Procs, pc[p] \in Holding
               PROVE  lease'[job[p]] = p
    BY DEF HoldersHold
  <2>1. job[p] \in Actions /\ lease[job[p]] = p /\ p # NoProc
    BY ConstantsAssumption
    DEF TightInv, HoldersHold, AnyTimingInv, BusyWithAction, Holding, Writing
  <2>2. QED
    BY <2>1 DEF Holds
<1>2. QED
  BY <1>1
  DEF TightInv, WritesExecuting, SeesItsJob, ExpiresUnclaimed, WriterKnowsKey,
      RowTellsTheWrite

\* A process that retreats expires at most rows nobody has claimed, and ends or
\* goes on to give its lease back.
Retreats(p, A) ==
  /\ ExpireRows(A) \/ UNCHANGED rowVars
  /\ \A a \in A \cap Actions : status[a] \in Open \cup {"REJECTED", "EXPIRED"}
  /\ \/ Leave(p)
     \/ pc[p] \in Holding /\ p \notin Readers /\ Goto(p, "release")
  /\ UNCHANGED <<overdue, lease, erp>>

LEMMA RetreatsKeeps ==
  ASSUME TightInv, AnyTimingInv', NEW p \in Procs, NEW A, Retreats(p, A)
  PROVE  TightInv'
<1> USE DEF TightInv
<1> TypeOK
  BY DEF AnyTimingInv
<1>1. \A a \in Actions :
        /\ status'[a] \in {status[a], "EXPIRED"}
        /\ status[a] \in {"EXECUTING", "SUCCEEDED", "FAILED"} => status'[a] = status[a]
        /\ failure'[a] = failure[a]
  BY DEF Retreats, ExpireRows, rowVars, Open, TypeOK
<1>2. /\ \A q \in Procs : q # p =>
              pc'[q] = pc[q] /\ job'[q] = job[q] /\ seen'[q] = seen[q]
      /\ \/ pc'[p] = "idle" /\ job'[p] = NoAction /\ seen'[p] = NothingSeen
         \/ /\ pc'[p] = "release" /\ job'[p] = job[p] /\ seen'[p] = seen[p]
            /\ pc[p] \in Holding
  BY DEF Retreats, Leave, Goto, TypeOK
<1>3. UNCHANGED <<overdue, lease, erp>>
  BY DEF Retreats
<1>4. \A q \in Procs : pc[q] \in Holding \cup {"loaded"} /\ q \notin Readers =>
        job[q] \in Actions
  BY DEF AnyTimingInv, BusyWithAction, Holding, Writing
<1>5. HoldersHold'
  BY <1>2, <1>3 DEF HoldersHold, Holding, Writing
<1>6. WritesExecuting'
  <2>1. \A q \in Procs : pc[q] \in Holding => job[q] \in Actions
    BY DEF AnyTimingInv, BusyWithAction, Holding, Writing
  <2>2. \A q \in Procs :
          pc'[q] \in Writing \cup {"reloaded", "authorizing"} =>
            /\ pc'[q] = pc[q] /\ job'[q] = job[q] /\ seen'[q] = seen[q]
            /\ job[q] \in Actions
    BY <1>2, <2>1 DEF Holding, Writing
  <2>3. Workers \subseteq Procs
    BY DEF Procs
  <2>4. QED
    BY <1>1, <2>2, <2>3 DEF WritesExecuting
<1>7. SeesItsJob'
  BY <1>2 DEF SeesItsJob, NothingSeen, Procs
<1>8. ExpiresUnclaimed'
  BY <1>1, <1>2, <1>3 DEF ExpiresUnclaimed, NothingSeen, Open
<1>9. WriterKnowsKey'
  BY <1>2, <1>3 DEF WriterKnowsKey
<1>10. RowTellsTheWrite'
  BY <1>1, <1>3 DEF RowTellsTheWrite
<1>11. QED
  BY <1>5, <1>6, <1>7, <1>8, <1>9, <1>10

\* What a loaded and lapsed object says is enough to expire its row.
LEMMA ExpirableUnclaimed ==
  ASSUME ExpiresUnclaimed, NEW p \in Procs, pc[p] \in {"loaded", "reloaded"}
  PROVE  \A a \in Expirable(p) \cap Actions :
           status[a] \in Open \cup {"REJECTED", "EXPIRED"}
BY DEF ExpiresUnclaimed, Expirable

LEMMA TightActionStep ==
  ASSUME TightTiming, TightInv, NEW a \in Actions, ActionStep(a)
  PROVE  TightInv'
<1>0. AnyTimingInv'
  BY KeepsActionStep DEF TightInv
<1>1. CASE CooldownEnds(a)
  BY <1>0, <1>1, TightFrame
  DEF CooldownEnds, rowVars, redisVars, procVars, sessionVars
<1>2. CASE LeaseExpires(a)
  BY <1>0, <1>2, TightFrame DEF LeaseExpires, TightTiming, rowVars, procVars
<1> USE ConstantsAssumption
<1> USE DEF TightTiming, TightInv, AnyTimingInv, TypeOK, BusyWithAction,
            DecidesPending, ClaimableWasApproved, OnlyStarted, SuccessKnowsDraft,
            HoldersHold, WritesExecuting, SeesItsJob, ExpiresUnclaimed,
            WriterKnowsKey, RowTellsTheWrite, Started, rowVars, redisVars,
            procVars, sessionVars, Procs, Writing, Holding, Open, NothingSeen
<1>3. CASE Propose(a)
  <2>1. HoldersHold'
    BY <1>0, <1>3 DEF Propose
  <2>2. WritesExecuting'
    BY <1>0, <1>3 DEF Propose
  <2>3. SeesItsJob'
    BY <1>0, <1>3 DEF Propose
  <2>4. ExpiresUnclaimed'
    BY <1>0, <1>3 DEF Propose
  <2>5. WriterKnowsKey'
    BY <1>0, <1>3 DEF Propose
  <2>6. RowTellsTheWrite'
    BY <1>0, <1>3 DEF Propose
  <2>7. QED
    BY <1>0, <2>1, <2>2, <2>3, <2>4, <2>5, <2>6
<1>4. CASE Elapse(a)
  BY <1>0, <1>4 DEF Elapse, ChecksLater
<1>5. CASE \E stored \in BOOLEAN : ErpFinishes(a, stored)
  BY <1>0, <1>5 DEF ErpFinishes
<1>6. QED
  BY <1>1, <1>2, <1>3, <1>4, <1>5 DEF ActionStep

LEMMA TightReaderStep ==
  ASSUME TightTiming, TightInv, NEW r \in Readers, ReaderStep(r)
  PROVE  TightInv'
<1>0. AnyTimingInv'
  BY KeepsReaderStep DEF TightInv
<1>1. CASE FinishRead(r)
  <2>1. r \in Procs
    BY DEF Procs
  <2>2. Retreats(r, Expirable(r))
    BY <1>1, <2>1, ExpirableUnclaimed DEF FinishRead, TightInv, redisVars, Retreats
  <2>3. QED
    BY <1>0, <2>1, <2>2, RetreatsKeeps
<1> USE ConstantsAssumption
<1> USE DEF TightTiming, TightInv, AnyTimingInv, TypeOK, BusyWithAction,
            DecidesPending, ClaimableWasApproved, OnlyStarted, SuccessKnowsDraft,
            HoldersHold, WritesExecuting, SeesItsJob, ExpiresUnclaimed,
            WriterKnowsKey, RowTellsTheWrite, Started, rowVars, redisVars,
            procVars, sessionVars, Procs, Writing, Holding, Open, NothingSeen
<1>2. CASE \E A \in SUBSET Actions : ReadRows(r, A)
  <2>1. HoldersHold'
    BY <1>0, <1>2 DEF ReadRows
  <2>2. WritesExecuting'
    BY <1>0, <1>2 DEF ReadRows
  <2>3. SeesItsJob'
    BY <1>0, <1>2 DEF ReadRows
  <2>4. ExpiresUnclaimed'
    BY <1>0, <1>2 DEF ReadRows
  <2>5. WriterKnowsKey'
    BY <1>0, <1>2 DEF ReadRows
  <2>6. RowTellsTheWrite'
    BY <1>0, <1>2 DEF ReadRows
  <2>7. QED
    BY <1>0, <2>1, <2>2, <2>3, <2>4, <2>5, <2>6
<1>3. QED
  BY <1>1, <1>2 DEF ReaderStep

LEMMA TightDeciderStep ==
  ASSUME TightTiming, TightInv, NEW d \in Deciders, DeciderStep(d)
  PROVE  TightInv'
<1>0. AnyTimingInv'
  BY KeepsDeciderStep DEF TightInv
<1>1. CASE RefuseDecision(d)
  <2>0. d \in Procs
    BY DEF Procs
  <2>1. CASE status[job[d]] \in Open /\ overdue[job[d]]
    <3>1. Retreats(d, {job[d]})
      BY <1>1, <2>1 DEF RefuseDecision, Retreats, redisVars
    <3>2. QED
      BY <1>0, <2>0, <3>1, RetreatsKeeps
  <2>2. CASE ~(status[job[d]] \in Open /\ overdue[job[d]])
    <3>1. Retreats(d, {})
      BY <1>1, <2>2 DEF RefuseDecision, Retreats, redisVars
    <3>2. QED
      BY <1>0, <2>0, <3>1, RetreatsKeeps
  <2>3. QED
    BY <2>1, <2>2
<1> USE ConstantsAssumption
<1> USE DEF TightTiming, TightInv, AnyTimingInv, TypeOK, BusyWithAction,
            DecidesPending, ClaimableWasApproved, OnlyStarted, SuccessKnowsDraft,
            HoldersHold, WritesExecuting, SeesItsJob, ExpiresUnclaimed,
            WriterKnowsKey, RowTellsTheWrite, Started, rowVars, redisVars,
            procVars, sessionVars, Procs, Writing, Holding, Open, NothingSeen
<1>2. CASE \E a \in Actions : RequestDecision(d, a)
  BY <1>0, <1>2 DEF RequestDecision
<1>3. CASE LockForDecision(d)
  BY <1>0, <1>3 DEF LockForDecision, Goto
<1>4. CASE \E verdict \in {"approve", "reject"} : CommitDecision(d, verdict)
  BY <1>0, <1>4 DEF CommitDecision, Leave
<1>5. QED
  BY <1>1, <1>2, <1>3, <1>4 DEF DeciderStep

LEMMA TightExecutorStep ==
  ASSUME TightTiming, TightInv, NEW e \in Executors, ExecutorStep(e)
  PROVE  TightInv'
<1>0. AnyTimingInv'
  BY KeepsExecutorStep DEF TightInv
<1>1. CASE Validate(e)
  <2>1. e \in Procs /\ e \notin Readers
    BY ConstantsAssumption DEF Procs
  <2>2. CASE ~Executable(e)
    <3>1. Retreats(e, Expirable(e))
      BY <1>1, <2>1, <2>2, ExpirableUnclaimed
      DEF Validate, Retreats, TightInv, redisVars
    <3>2. QED
      BY <1>0, <2>1, <3>1, RetreatsKeeps
  <2>3. CASE Executable(e)
    BY <1>0, <1>1, <2>3, ConstantsAssumption
    DEF Validate, Goto, TightTiming, TightInv, AnyTimingInv, TypeOK, BusyWithAction,
            DecidesPending, ClaimableWasApproved, OnlyStarted, SuccessKnowsDraft,
            HoldersHold, WritesExecuting, SeesItsJob, ExpiresUnclaimed,
            WriterKnowsKey, RowTellsTheWrite, Started, rowVars, redisVars,
            procVars, sessionVars, Procs, Writing, Holding, Open, NothingSeen
  <2>4. QED
    BY <2>2, <2>3
<1>2. CASE Revalidate(e)
  <2>1. e \in Procs /\ e \notin Readers
    BY ConstantsAssumption DEF Procs
  <2>2. CASE ~Executable(e)
    <3>1. Retreats(e, Expirable(e))
      BY <1>2, <2>1, <2>2, ExpirableUnclaimed
      DEF Revalidate, Retreats, TightInv, redisVars, Holding
    <3>2. QED
      BY <1>0, <2>1, <3>1, RetreatsKeeps
  <2>3. CASE Executable(e)
    BY <1>0, <1>2, <2>3, ConstantsAssumption
    DEF Revalidate, Goto, TightTiming, TightInv, AnyTimingInv, TypeOK, BusyWithAction,
            DecidesPending, ClaimableWasApproved, OnlyStarted, SuccessKnowsDraft,
            HoldersHold, WritesExecuting, SeesItsJob, ExpiresUnclaimed,
            WriterKnowsKey, RowTellsTheWrite, Started, rowVars, redisVars,
            procVars, sessionVars, Procs, Writing, Holding, Open, NothingSeen
  <2>4. QED
    BY <2>2, <2>3
<1>3. CASE ClaimRefused(e)
  <2>1. e \in Procs /\ e \notin Readers /\ Retreats(e, {})
    BY <1>3, ConstantsAssumption DEF ClaimRefused, Retreats, Procs, Holding, redisVars
  <2>2. QED
    BY <1>0, <2>1, RetreatsKeeps
<1> USE ConstantsAssumption
<1> USE DEF TightTiming, TightInv, AnyTimingInv, TypeOK, BusyWithAction,
            DecidesPending, ClaimableWasApproved, OnlyStarted, SuccessKnowsDraft,
            HoldersHold, WritesExecuting, SeesItsJob, ExpiresUnclaimed,
            WriterKnowsKey, RowTellsTheWrite, Started, rowVars, redisVars,
            procVars, sessionVars, Procs, Writing, Holding, Open, NothingSeen
<1>4. CASE \E a \in Actions : RequestExecution(e, a)
  BY <1>0, <1>4 DEF RequestExecution
<1>5. CASE Reload(e)
  BY <1>0, <1>5 DEF Reload
<1>6. CASE Claim(e)
  BY <1>0, <1>6 DEF Claim, Goto
<1>7. QED
  BY <1>1, <1>2, <1>3, <1>4, <1>5, <1>6 DEF ExecutorStep

LEMMA TightWorkerStep ==
  ASSUME TightTiming, TightInv, NEW w \in Workers, WorkerStep(w)
  PROVE  TightInv'
<1>0. AnyTimingInv'
  BY KeepsWorkerStep DEF TightInv
<1>1. CASE Scan(w)
  BY <1>0, <1>1, TightFrame
  DEF Scan, rowVars, redisVars, procVars, sessionVars
<1>2. CASE DeferRecovery(w)
  BY <1>0, <1>2, TightFrame
  DEF DeferRecovery, rowVars, redisVars, procVars, sessionVars
<1> USE ConstantsAssumption
<1> USE DEF TightTiming, TightInv, AnyTimingInv, TypeOK, BusyWithAction,
            DecidesPending, ClaimableWasApproved, OnlyStarted, SuccessKnowsDraft,
            HoldersHold, WritesExecuting, SeesItsJob, ExpiresUnclaimed,
            WriterKnowsKey, RowTellsTheWrite, Started, rowVars, redisVars,
            procVars, sessionVars, Procs, Writing, Holding, Open, NothingSeen
<1>3. CASE ClaimRecovery(w)
  BY <1>0, <1>3 DEF ClaimRecovery, Oldest
<1>4. CASE LoadExecuting(w)
  <2>1. HoldersHold'
    BY <1>0, <1>4 DEF LoadExecuting
  <2>2. WritesExecuting'
    BY <1>0, <1>4 DEF LoadExecuting
  <2>3. SeesItsJob'
    BY <1>0, <1>4 DEF LoadExecuting
  <2>4. ExpiresUnclaimed'
    BY <1>0, <1>4 DEF LoadExecuting
  <2>5. WriterKnowsKey'
    BY <1>0, <1>4 DEF LoadExecuting
  <2>6. RowTellsTheWrite'
    BY <1>0, <1>4 DEF LoadExecuting
  <2>7. QED
    BY <1>0, <2>1, <2>2, <2>3, <2>4, <2>5, <2>6
<1>5. CASE SkipExecuting(w)
  BY <1>0, <1>5 DEF SkipExecuting, Goto
<1>6. QED
  BY <1>1, <1>2, <1>3, <1>4, <1>5 DEF WorkerStep

LEMMA TightWriteStep ==
  ASSUME TightTiming, TightInv, NEW p \in Executors \cup Workers, WriteStep(p)
  PROVE  TightInv'
<1>0. AnyTimingInv'
  BY KeepsWriteStep DEF TightInv
<1>1. CASE SendWrite(p)
  <2>1. /\ p \in Procs /\ job[p] \in Actions /\ lease[job[p]] = p
        /\ erp[job[p]] # "busy"
    BY <1>1, ConstantsAssumption
    DEF SendWrite, TightInv, AnyTimingInv, BusyWithAction, HoldersHold, Procs,
        Holding, Writing
  <2>2. /\ UNCHANGED <<status, failure, overdue, lease, job, seen>>
        /\ \A q \in Procs : q # p => pc'[q] = pc[q]
    BY <1>1 DEF SendWrite, Goto, rowVars, redisVars, TightInv, AnyTimingInv, TypeOK
  <2>3. \/ pc'[p] = "await" /\ erp' = [erp EXCEPT ![job[p]] = "busy"]
        \/ pc'[p] = "readback" /\ erp' = erp /\ erp[job[p]] = "draft"
    BY <1>1, <2>1 DEF SendWrite, Goto, TightInv, AnyTimingInv, TypeOK
  <2>4. pc[p] = "write" /\ status[job[p]] = "EXECUTING"
    BY <1>1, <2>1 DEF SendWrite, TightInv, WritesExecuting, Writing
  <2>5. HoldersHold'
    BY <2>1, <2>2, <2>3 DEF TightInv, HoldersHold
  <2>6. WritesExecuting' /\ SeesItsJob' /\ ExpiresUnclaimed'
    BY <2>1, <2>2, <2>3, <2>4
    DEF TightInv, WritesExecuting, SeesItsJob, ExpiresUnclaimed, Procs
  <2>7. WriterKnowsKey'
    <3> SUFFICES ASSUME NEW q \in Procs, pc'[q] \in {"await", "rejected"}
                 PROVE  /\ pc'[q] = "await" => erp'[job[q]] = "busy"
                        /\ pc'[q] = "rejected" => erp'[job[q]] = "free"
      BY <2>2 DEF WriterKnowsKey
    <3>1. CASE q = p
      BY <3>1, <2>1, <2>3 DEF TightInv, AnyTimingInv, TypeOK
    <3>2. CASE q # p
      <4>1. pc[q] = pc'[q] /\ lease[job[q]] = q /\ job[q] \in Actions
        BY <3>2, <2>2
        DEF TightInv, AnyTimingInv, BusyWithAction, HoldersHold, Holding, Writing
      <4>2. job[q] # job[p]
        BY <3>2, <4>1, <2>1
      <4>3. erp'[job[q]] = erp[job[q]]
        BY <4>1, <4>2, <2>3 DEF TightInv, AnyTimingInv, TypeOK
      <4>4. QED
        BY <4>1, <4>3 DEF TightInv, WriterKnowsKey
    <3>3. QED
      BY <3>1, <3>2
  <2>8. RowTellsTheWrite'
    BY <2>1, <2>2, <2>3, <2>4 DEF TightInv, RowTellsTheWrite, AnyTimingInv, TypeOK
  <2>9. QED
    BY <1>0, <2>5, <2>6, <2>7, <2>8 DEF TightInv
<1> USE ConstantsAssumption
<1> USE DEF TightTiming, TightInv, AnyTimingInv, TypeOK, BusyWithAction,
            DecidesPending, ClaimableWasApproved, OnlyStarted, SuccessKnowsDraft,
            HoldersHold, WritesExecuting, SeesItsJob, ExpiresUnclaimed,
            WriterKnowsKey, RowTellsTheWrite, Started, rowVars, redisVars,
            procVars, sessionVars, Procs, Writing, Holding, Open, NothingSeen
<1>2. CASE TakeLease(p)
  BY <1>0, <1>2 DEF TakeLease, Goto
<1>3. CASE LeaseRefused(p)
  BY <1>0, <1>3 DEF LeaseRefused, Leave
<1>4. CASE Authorize(p)
  BY <1>0, <1>4 DEF Authorize, Goto
<1>5. CASE AuthorizeFails(p)
  BY <1>0, <1>5 DEF AuthorizeFails, Goto, MayEndSession
<1>6. CASE SendFails(p)
  BY <1>0, <1>6 DEF SendFails, Goto, MayEndSession
<1>7. CASE AwaitFails(p)
  BY <1>0, <1>7 DEF AwaitFails, Goto
<1>8. CASE ReadBack(p)
  BY <1>0, <1>8 DEF ReadBack, Goto
<1>9. CASE ReadBackFails(p)
  BY <1>0, <1>9 DEF ReadBackFails, Goto, MayEndSession
<1>10. CASE RecordSucceeded(p)
  BY <1>0, <1>10 DEF RecordSucceeded, Goto
<1>11. CASE RecordRejected(p)
  BY <1>0, <1>11 DEF RecordRejected, Goto
<1>12. CASE RecordUncertain(p)
  BY <1>0, <1>12 DEF RecordUncertain, Goto
<1>13. CASE RecordFails(p)
  BY <1>0, <1>13 DEF RecordFails, Goto
<1>14. CASE Release(p)
  BY <1>0, <1>14 DEF Release, Leave
<1>15. QED
  BY <1>1, <1>2, <1>3, <1>4, <1>5, <1>6, <1>7, <1>8, <1>9, <1>10,
     <1>11, <1>12, <1>13, <1>14 DEF WriteStep

LEMMA TightSessionStep ==
  ASSUME TightTiming, TightInv, NEW s \in Sessions, SessionStep(s)
  PROVE  TightInv'
<1>0. AnyTimingInv'
  BY KeepsSessionStep DEF TightInv
<1>1. CASE SessionEnds(s)
  BY <1>0, <1>1, TightFrame
  DEF SessionEnds, rowVars, redisVars, procVars, sessionVars
<1>2. CASE LogoutDeletes(s)
  BY <1>0, <1>2, TightFrame
  DEF LogoutDeletes, rowVars, redisVars, procVars, sessionVars
<1>3. CASE LogoutFails(s)
  BY <1>0, <1>3, TightFrame
  DEF LogoutFails, rowVars, redisVars, procVars, sessionVars
<1> USE ConstantsAssumption
<1> USE DEF TightTiming, TightInv, AnyTimingInv, TypeOK, BusyWithAction,
            DecidesPending, ClaimableWasApproved, OnlyStarted, SuccessKnowsDraft,
            HoldersHold, WritesExecuting, SeesItsJob, ExpiresUnclaimed,
            WriterKnowsKey, RowTellsTheWrite, Started, rowVars, redisVars,
            procVars, sessionVars, Procs, Writing, Holding, Open, NothingSeen
<1>4. CASE LogoutCommits(s)
  BY <1>0, <1>4 DEF LogoutCommits
<1>5. QED
  BY <1>1, <1>2, <1>3, <1>4 DEF SessionStep

LEMMA TightCrash ==
  ASSUME TightTiming, TightInv, NEW p \in Procs, Crash(p)
  PROVE  TightInv'
<1>0. AnyTimingInv'
  BY KeepsCrash DEF TightInv
<1> USE ConstantsAssumption
<1> USE DEF TightTiming, TightInv, AnyTimingInv, TypeOK, BusyWithAction,
            DecidesPending, ClaimableWasApproved, OnlyStarted, SuccessKnowsDraft,
            HoldersHold, WritesExecuting, SeesItsJob, ExpiresUnclaimed,
            WriterKnowsKey, RowTellsTheWrite, Started, rowVars, redisVars,
            procVars, sessionVars, Procs, Writing, Holding, Open, NothingSeen
<1>1. QED
  BY <1>0 DEF Crash

LEMMA TightInit == Init => TightInv
<1> SUFFICES ASSUME Init
             PROVE  TightInv
  OBVIOUS
<1>1. AnyTimingInv
  BY AnyTimingInit
<1>2. QED
  BY <1>1, ConstantsAssumption
  DEF TightInv, Init, HoldersHold, WritesExecuting, SeesItsJob, ExpiresUnclaimed,
      WriterKnowsKey, RowTellsTheWrite, NothingSeen, Holding, Writing, Procs

LEMMA TightNext ==
  ASSUME TightTiming
  PROVE  TightInv /\ [Next]_vars => TightInv'
<1> SUFFICES ASSUME TightInv, [Next]_vars
             PROVE  TightInv'
  OBVIOUS
<1>1. CASE UNCHANGED vars
  <2>1. AnyTimingInv'
    BY <1>1, AnyTimingNext DEF TightInv
  <2>2. QED
    BY <1>1, <2>1, TightFrame DEF vars
<1>2. CASE Next
  BY <1>2, TightActionStep, TightReaderStep, TightDeciderStep, TightExecutorStep,
     TightWorkerStep, TightWriteStep, TightCrash, TightSessionStep DEF Next
<1>3. QED
  BY <1>1, <1>2

LEMMA TightCorrect ==
  ASSUME TightTiming
  PROVE  Spec => []TightInv
<1>1. TightInv /\ [Next]_vars => TightInv'
  BY TightNext
<1>2. QED
  BY <1>1, TightInit, PTL DEF Spec

\* No row that is open, refused or failed hides a write of ERPNext's, and a
\* success carries no failure.
THEOREM RowsAreTruthful ==
  ASSUME TightTiming
  PROVE  Spec => []RowTellsTheWrite
<1>1. TightInv => RowTellsTheWrite
  BY DEF TightInv
<1>2. QED
  BY <1>1, TightCorrect, PTL

\* And each writes for a row that is still EXECUTING.
THEOREM LeaseExcludes ==
  ASSUME TightTiming
  PROVE  Spec => []OneWriter
<1>1. TightInv /\ WritersExcluded => OneWriter
  BY DEF TightInv, WritesExecuting, OneWriter
<1>2. ~LeaseMayExpire
  BY DEF TightTiming
<1>3. QED
  BY <1>1, <1>2, WritersAreApart, TightCorrect, PTL

-----------------------------------------------------------------------------
(* What a step does to the rows and to ERPNext's keys.                      *)

Becomes(a, from, to) ==
  /\ status[a] = from
  /\ status' = [status EXCEPT ![a] = to]
  /\ UNCHANGED erp

Expires(A) ==
  /\ \A a \in A : status[a] \in Open \cup {"REJECTED", "EXPIRED"}
  /\ status' = [a \in Actions |-> IF a \in A THEN "EXPIRED" ELSE status[a]]
  /\ UNCHANGED erp

KeyMoves(a) ==
  /\ status[a] = "EXECUTING"
  /\ erp[a] # "draft"
  /\ \E v \in {"free", "busy", "draft"} : erp' = [erp EXCEPT ![a] = v]
  /\ UNCHANGED status

RowStep(a) ==
  \/ Becomes(a, "ABSENT", "PENDING")
  \/ Becomes(a, "PENDING", "APPROVED")
  \/ Becomes(a, "PENDING", "REJECTED")
  \/ Becomes(a, "APPROVED", "EXECUTING")
  \/ erp[a] = "draft" /\ Becomes(a, "EXECUTING", "SUCCEEDED")
  \/ erp[a] = "free" /\ Becomes(a, "EXECUTING", "FAILED")
  \/ KeyMoves(a)

RowsStep ==
  \/ UNCHANGED <<status, erp>>
  \/ \E A \in SUBSET Actions : Expires(A)
  \/ \E a \in Actions : RowStep(a)

LEMMA ExpireRowsStep ==
  ASSUME TypeOK, NEW A, ExpireRows(A), UNCHANGED erp,
         \A a \in A \cap Actions : status[a] \in Open \cup {"REJECTED", "EXPIRED"}
  PROVE  RowsStep
<1>1. A \cap Actions \in SUBSET Actions
  OBVIOUS
<1>2. Expires(A \cap Actions)
  BY DEF Expires, ExpireRows
<1>3. QED
  BY <1>1, <1>2 DEF RowsStep

LEMMA NextRowsStep ==
  ASSUME TightInv, Next
  PROVE  RowsStep
<1> TypeOK
  BY DEF TightInv, AnyTimingInv
<1> USE DEF rowVars
<1>1. ASSUME NEW a \in Actions, ActionStep(a)
      PROVE  RowsStep
  <2>1. CASE Propose(a)
    BY <2>1 DEF Propose, RowsStep, RowStep, Becomes
  <2>2. CASE Elapse(a) \/ CooldownEnds(a) \/ LeaseExpires(a)
    BY <2>2 DEF Elapse, CooldownEnds, LeaseExpires, RowsStep
  <2>3. CASE \E stored \in BOOLEAN : ErpFinishes(a, stored)
    <3>1. status[a] = "EXECUTING" /\ erp[a] = "busy"
      BY <2>3
      DEF ErpFinishes, TightInv, RowTellsTheWrite, AnyTimingInv, SuccessKnowsDraft
    <3>2. KeyMoves(a)
      BY <2>3, <3>1 DEF ErpFinishes, KeyMoves
    <3>3. QED
      BY <3>2 DEF RowsStep, RowStep
  <2>4. QED
    BY <1>1, <2>1, <2>2, <2>3 DEF ActionStep
<1>2. ASSUME NEW r \in Readers, ReaderStep(r)
      PROVE  RowsStep
  <2>1. CASE \E A \in SUBSET Actions : ReadRows(r, A)
    BY <2>1 DEF ReadRows, RowsStep
  <2>2. CASE FinishRead(r)
    <3>1. r \in Procs /\ pc[r] = "loaded" /\ ExpireRows(Expirable(r)) /\ UNCHANGED erp
      BY <2>2 DEF FinishRead, Procs
    <3>2. QED
      BY <3>1, ExpirableUnclaimed, ExpireRowsStep DEF TightInv
  <2>3. QED
    BY <1>2, <2>1, <2>2 DEF ReaderStep
<1>3. ASSUME NEW d \in Deciders, DeciderStep(d)
      PROVE  RowsStep
  <2>1. CASE (\E a \in Actions : RequestDecision(d, a)) \/ LockForDecision(d)
    BY <2>1 DEF RequestDecision, LockForDecision, RowsStep
  <2>2. CASE RefuseDecision(d)
    <3>1. CASE UNCHANGED rowVars
      BY <2>2, <3>1 DEF RefuseDecision, RowsStep
    <3>2. CASE status[job[d]] \in Open /\ ExpireRows({job[d]})
      <4>1. UNCHANGED erp
        BY <2>2 DEF RefuseDecision
      <4>2. QED
        BY <3>2, <4>1, ExpireRowsStep
    <3>3. QED
      BY <2>2, <3>1, <3>2 DEF RefuseDecision
  <2>3. CASE \E verdict \in {"approve", "reject"} : CommitDecision(d, verdict)
    <3>1. job[d] \in Actions /\ status[job[d]] = "PENDING"
      BY <2>3, ConstantsAssumption
      DEF CommitDecision, TightInv, AnyTimingInv, BusyWithAction, DecidesPending, Procs
    <3>2. QED
      BY <2>3, <3>1 DEF CommitDecision, RowsStep, RowStep, Becomes
  <2>4. QED
    BY <1>3, <2>1, <2>2, <2>3 DEF DeciderStep
<1>4. ASSUME NEW e \in Executors, ExecutorStep(e)
      PROVE  RowsStep
  <2>p. e \in Procs /\ e \notin Readers
    BY ConstantsAssumption DEF Procs
  <2>1. CASE (\E a \in Actions : RequestExecution(e, a)) \/ Reload(e) \/ ClaimRefused(e)
    BY <2>1 DEF RequestExecution, Reload, ClaimRefused, RowsStep
  <2>2. CASE Validate(e) \/ Revalidate(e)
    <3>1. CASE UNCHANGED rowVars
      BY <2>2, <3>1 DEF Validate, Revalidate, RowsStep
    <3>2. CASE ExpireRows(Expirable(e))
      <4>1. pc[e] \in {"loaded", "reloaded"} /\ UNCHANGED erp
        BY <2>2 DEF Validate, Revalidate
      <4>2. QED
        BY <2>p, <3>2, <4>1, ExpirableUnclaimed, ExpireRowsStep DEF TightInv
    <3>3. QED
      BY <2>2, <3>1, <3>2 DEF Validate, Revalidate
  <2>3. CASE Claim(e)
    <3>1. job[e] \in Actions
      BY <2>p, <2>3 DEF Claim, TightInv, AnyTimingInv, BusyWithAction
    <3>2. QED
      BY <2>3, <3>1 DEF Claim, RowsStep, RowStep, Becomes
  <2>4. QED
    BY <1>4, <2>1, <2>2, <2>3 DEF ExecutorStep
<1>5. ASSUME NEW w \in Workers, WorkerStep(w)
      PROVE  RowsStep
  BY <1>5
  DEF WorkerStep, Scan, ClaimRecovery, DeferRecovery, LoadExecuting, SkipExecuting,
      RowsStep
<1>6. ASSUME NEW p \in Executors \cup Workers, WriteStep(p)
      PROVE  RowsStep
  <2>p. p \in Procs /\ p \notin Readers
    BY ConstantsAssumption DEF Procs
  <2>1. CASE SendWrite(p) \/ RecordSucceeded(p) \/ RecordRejected(p)
    <3>1. job[p] \in Actions /\ status[job[p]] = "EXECUTING"
      BY <2>p, <2>1
      DEF SendWrite, RecordSucceeded, RecordRejected, TightInv, AnyTimingInv,
          BusyWithAction, WritesExecuting, Writing
    <3>2. CASE SendWrite(p)
      BY <3>1, <3>2 DEF SendWrite, RowsStep, RowStep, KeyMoves
    <3>3. CASE RecordSucceeded(p)
      <4>1. erp[job[p]] = "draft"
        BY <2>p, <3>3 DEF RecordSucceeded, TightInv, AnyTimingInv, SuccessKnowsDraft
      <4>2. QED
        BY <3>1, <3>3, <4>1 DEF RecordSucceeded, RowsStep, RowStep, Becomes
    <3>4. CASE RecordRejected(p)
      <4>1. erp[job[p]] = "free"
        BY <2>p, <3>4 DEF RecordRejected, TightInv, WriterKnowsKey
      <4>2. QED
        BY <3>1, <3>4, <4>1 DEF RecordRejected, RowsStep, RowStep, Becomes
    <3>5. QED
      BY <2>1, <3>2, <3>3, <3>4
  <2>2. CASE ~(SendWrite(p) \/ RecordSucceeded(p) \/ RecordRejected(p))
    BY <1>6, <2>2
    DEF WriteStep, TakeLease, LeaseRefused, Authorize, AuthorizeFails, SendFails,
        AwaitFails, ReadBack, ReadBackFails, RecordUncertain, RecordFails, Release,
        RowsStep
  <2>3. QED
    BY <2>1, <2>2
<1>7. ASSUME NEW p \in Procs, Crash(p)
      PROVE  RowsStep
  BY <1>7 DEF Crash, RowsStep
<1>8. ASSUME NEW s \in Sessions, SessionStep(s)
      PROVE  RowsStep
  <2>1. CASE LogoutCommits(s)
    BY <2>1 DEF LogoutCommits, RowsStep, Expires
  <2>2. CASE ~LogoutCommits(s)
    BY <1>8, <2>2 DEF SessionStep, SessionEnds, LogoutDeletes, LogoutFails, RowsStep
  <2>3. QED
    BY <2>1, <2>2
<1>9. QED
  BY <1>1, <1>2, <1>3, <1>4, <1>5, <1>6, <1>7, <1>8 DEF Next

\* A recorded outcome stands: success and failure never change, and a refused
\* Action stays refused.
THEOREM OutcomesStand ==
  ASSUME TightTiming
  PROVE  Spec => SettledIsFinal
<1> DEFINE Stands(a) ==
             /\ status[a] \in {"SUCCEEDED", "FAILED"} => status'[a] = status[a]
             /\ status[a] \in {"REJECTED", "EXPIRED"} =>
                  status'[a] \in {"REJECTED", "EXPIRED"}
<1>1. ASSUME TightInv, Next, NEW a \in Actions
      PROVE  Stands(a)
  <2>1. TypeOK /\ RowsStep
    BY <1>1, NextRowsStep DEF TightInv, AnyTimingInv
  <2>2. QED
    BY <2>1
    DEF RowsStep, RowStep, Becomes, Expires, KeyMoves, Open, TypeOK
<1>2. TightInv /\ [Next]_vars => [\A a \in Actions : Stands(a)]_vars
  BY <1>1
<1>3. QED
  BY <1>2, TightCorrect, PTL DEF Spec, SettledIsFinal

-----------------------------------------------------------------------------
(* The code implements the promise.                                         *)

Phase == [a \in Actions |-> PhaseOf(status[a])]
Doc   == [a \in Actions |-> erp[a] = "draft"]

LEMMA MovePhase ==
  ASSUME TypeOK, NEW a \in Actions, NEW from, NEW to, Becomes(a, from, to)
  PROVE  /\ Phase' = [Phase EXCEPT ![a] = PhaseOf(to)]
         /\ Phase[a] = PhaseOf(from)
         /\ Doc' = Doc
<1>1. \A b \in Actions : status'[b] = IF b = a THEN to ELSE status[b]
  BY DEF Becomes, TypeOK
<1>2. \A b \in Actions :
        PhaseOf(status'[b]) = IF b = a THEN PhaseOf(to) ELSE PhaseOf(status[b])
  BY <1>1
<1>3. QED
  BY <1>2 DEF Phase, Doc, Becomes

LEMMA PromiseInit == Init => Promise!Init
BY DEF Init, Promise!Init, PhaseOf

\* Every step of the rows is a step of the promise, or none.
LEMMA PromiseStep ==
  ASSUME TypeOK, SuccessKnowsDraft, RowTellsTheWrite, RowsStep
  PROVE  [Promise!Next]_(Promise!promiseVars)
<1>1. CASE UNCHANGED <<status, erp>>
  BY <1>1 DEF Promise!promiseVars
<1>2. CASE \E A \in SUBSET Actions : Expires(A)
  <2>1. PICK A \in SUBSET Actions : Expires(A)
    BY <1>2
  <2> DEFINE R == {a \in A : status[a] \in Open}
  <2>2. \A a \in Actions : status'[a] = IF a \in A THEN "EXPIRED" ELSE status[a]
    BY <2>1 DEF Expires
  <2>3. \A a \in R : Phase[a] \in {"pending", "approved"}
    BY DEF Phase, PhaseOf, Open
  <2>4. \A a \in Actions :
          PhaseOf(status'[a]) = IF a \in R THEN "refused" ELSE PhaseOf(status[a])
    BY <2>1, <2>2 DEF Expires, PhaseOf, Open
  <2>5. Phase' = [a \in Actions |-> IF a \in R THEN "refused" ELSE Phase[a]]
    BY <2>4 DEF Phase
  <2>6. R \in SUBSET Actions /\ Doc' = Doc
    BY <2>1 DEF Doc, Expires
  <2>7. Promise!Refuse(R)
    BY <2>3, <2>5, <2>6 DEF Promise!Refuse, Phase, Doc
  <2>8. QED
    BY <2>6, <2>7 DEF Promise!Next
<1>3. ASSUME NEW a \in Actions, RowStep(a)
      PROVE  [Promise!Next]_(Promise!promiseVars)
  <2>1. ASSUME NEW from, NEW to, Becomes(a, from, to)
        PROVE  Promise!Move(a, PhaseOf(from), PhaseOf(to))
    BY <2>1, MovePhase DEF Promise!Move, Phase, Doc
  <2>2. CASE Becomes(a, "ABSENT", "PENDING")
    <3>1. Promise!Move(a, "absent", "pending")
      BY <2>1, <2>2 DEF PhaseOf
    <3>2. QED
      BY <3>1 DEF Promise!Next, Promise!Propose
  <2>3. CASE Becomes(a, "PENDING", "APPROVED")
    <3>1. Promise!Move(a, "pending", "approved")
      BY <2>1, <2>3 DEF PhaseOf
    <3>2. QED
      BY <3>1 DEF Promise!Next, Promise!Approve
  <2>4. CASE Becomes(a, "PENDING", "REJECTED")
    <3>1. Phase[a] = "pending" /\ Phase' = [Phase EXCEPT ![a] = "refused"] /\ Doc' = Doc
      BY <2>4, MovePhase DEF PhaseOf
    <3>2. Phase' = [b \in Actions |-> IF b \in {a} THEN "refused" ELSE Phase[b]]
      BY <3>1 DEF Phase
    <3>3. Promise!Refuse({a})
      BY <3>1, <3>2 DEF Promise!Refuse, Phase, Doc
    <3>4. QED
      BY <3>3 DEF Promise!Next
  <2>5. CASE Becomes(a, "APPROVED", "EXECUTING")
    <3>1. Promise!Move(a, "approved", "running")
      BY <2>1, <2>5 DEF PhaseOf
    <3>2. QED
      BY <3>1 DEF Promise!Next, Promise!Start
  <2>6. CASE erp[a] = "draft" /\ Becomes(a, "EXECUTING", "SUCCEEDED")
    <3>1. Promise!Move(a, "running", "done")
      BY <2>1, <2>6 DEF PhaseOf
    <3>2. Doc[a]
      BY <2>6 DEF Doc
    <3>3. QED
      BY <3>1, <3>2 DEF Promise!Next, Promise!Finish, Doc
  <2>7. CASE erp[a] = "free" /\ Becomes(a, "EXECUTING", "FAILED")
    <3>1. Promise!Move(a, "running", "failed")
      BY <2>1, <2>7 DEF PhaseOf
    <3>2. ~Doc[a]
      BY <2>7 DEF Doc
    <3>3. QED
      BY <3>1, <3>2 DEF Promise!Next, Promise!Fail, Doc
  <2>8. CASE KeyMoves(a)
    <3>1. PICK v \in {"free", "busy", "draft"} : erp' = [erp EXCEPT ![a] = v]
      BY <2>8 DEF KeyMoves
    <3>2. Phase' = Phase /\ Phase[a] = "running" /\ ~Doc[a]
      BY <2>8 DEF KeyMoves, Phase, Doc, PhaseOf
    <3>3. \A b \in Actions : erp'[b] = IF b = a THEN v ELSE erp[b]
      BY <3>1 DEF TypeOK
    <3>4. CASE v = "draft"
      <4>1. Doc' = [Doc EXCEPT ![a] = TRUE]
        BY <3>3, <3>4 DEF Doc
      <4>2. Promise!CreateDraft(a)
        BY <3>2, <4>1 DEF Promise!CreateDraft, Phase, Doc
      <4>3. QED
        BY <4>2 DEF Promise!Next
    <3>5. CASE v # "draft"
      <4>1. Doc' = Doc
        BY <2>8, <3>3, <3>5 DEF Doc, KeyMoves
      <4>2. QED
        BY <3>2, <4>1 DEF Promise!promiseVars, Phase, Doc
    <3>6. QED
      BY <3>4, <3>5
  <2>9. QED
    BY <1>3, <2>2, <2>3, <2>4, <2>5, <2>6, <2>7, <2>8 DEF RowStep
<1>4. QED
  BY <1>1, <1>2, <1>3 DEF RowsStep

\* The handlers, the worker and ERPNext together implement ActionPromise.
THEOREM GatewayKeepsPromise ==
  ASSUME TightTiming
  PROVE  Spec => KeepsPromise
<1>1. TightInv /\ [Next]_vars => [Promise!Next]_(Promise!promiseVars)
  <2> SUFFICES ASSUME TightInv, [Next]_vars
               PROVE  [Promise!Next]_(Promise!promiseVars)
    OBVIOUS
  <2>1. RowsStep
    BY NextRowsStep DEF RowsStep, vars
  <2>2. QED
    BY <2>1, PromiseStep DEF TightInv, AnyTimingInv
<1>2. QED
  BY <1>1, PromiseInit, TightCorrect, PTL DEF Spec, KeepsPromise, Promise!Spec

=============================================================================
