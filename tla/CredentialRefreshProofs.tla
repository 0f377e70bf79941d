---------------------- MODULE CredentialRefreshProofs ----------------------
(***************************************************************************)
(* Theorems about CredentialRefresh: its type invariant and the retry of a *)
(* refused call, whatever becomes of the refresh lock; and, as long as the *)
(* lock outlives its holder's work, single flight, the order of the stored *)
(* tokens and the stored refresh token that keeps working.                 *)
(***************************************************************************)
EXTENDS CredentialRefresh, TLAPS

-----------------------------------------------------------------------------
(* Types.                                                                   *)

\* What a request keeps in its local variables has its type.
LocalTypes ==
  /\ pc \in [Procs -> PCs]
  /\ stage \in [Procs -> {"guard", "call"}]
  /\ forced \in [Procs -> BOOLEAN]
  /\ late \in [Procs -> BOOLEAN]
  /\ base \in [Procs -> Nat]
  /\ mine \in [Procs -> Pairs]
  /\ got \in [Procs -> Pairs]
  /\ wasRevoked \in [Procs -> BOOLEAN]
  /\ outcome \in [Procs -> {"ok", "reauthenticate", "error"}]

\* The pairs of tokens that are copied about.
LEMMA PairTypes ==
  ASSUME access \in Nat, refresh \in Nat
  PROVE  Nothing \in Pairs /\ Row \in Pairs
BY DEF Nothing, Row, Pairs

\* The numbers in them.
LEMMA FieldTypes ==
  ASSUME TypeOK, NEW p \in Procs
  PROVE  /\ mine[p].access \in Nat /\ mine[p].refresh \in Nat
         /\ got[p].access \in Nat /\ got[p].refresh \in Nat
BY DEF TypeOK, Pairs

\* ERPNext's books stay sets of numbers.
LEMMA GrantTypes ==
  ASSUME issued \in Nat, erpAccess \subseteq Nat, erpRefresh \subseteq Nat,
         NEW rotate \in BOOLEAN, Grant(rotate)
  PROVE  issued' \in Nat /\ erpAccess' \subseteq Nat /\ erpRefresh' \subseteq Nat
<1>1. issued + 1 \in Nat
  OBVIOUS
<1>2. CASE RetiresOld
  BY <1>1, <1>2 DEF Grant
<1>3. CASE ~RetiresOld
  BY <1>1, <1>3 DEF Grant
<1>4. QED
  BY <1>2, <1>3

\* A request that leaves keeps the types.
LEMMA LeaveTypes ==
  ASSUME LocalTypes, access \in Nat, refresh \in Nat, NEW p \in Procs, Leave(p)
  PROVE  LocalTypes'
<1>1. "idle" \in PCs
  BY DEF PCs
<1>2. QED
  BY <1>1, PairTypes DEF LocalTypes, Leave, Goto

\* The initial state has the type.
LEMMA TypeInit == Init => TypeOK
<1>1. SUFFICES ASSUME Init PROVE TypeOK
  OBVIOUS
<1>2. QED
  <2>1. Nothing \in Pairs
    BY DEF Nothing, Pairs
  <2>2. /\ access \in Nat /\ refresh \in Nat /\ issued \in Nat /\ parting \in Nat
        /\ faults \in 0..MaxFaults /\ lease \in Procs \cup {NoProc}
        /\ cached \subseteq Nat /\ erpAccess \subseteq Nat /\ erpRefresh \subseteq Nat
    BY <1>1, ConstantsAssumption DEF Init
  <2>3. LocalTypes
    BY <1>1, <2>1 DEF Init, LocalTypes, PCs
  <2>4. QED
    BY <1>1, <2>2, <2>3 DEF Init, TypeOK, LocalTypes

\* Every step keeps the type.
LEMMA TypeStep == ASSUME TypeOK, [Next]_vars PROVE TypeOK'
<1> USE ConstantsAssumption
<1> USE DEF TypeOK, LocalTypes, Goto, PCs, Holding, Critical,
         rowVars, sessionVars, erpVars, stateVars, localVars, logoutVars

<1>1. ASSUME NEW p \in Procs, NEW st \in {"guard", "call"}, Arrive(p, st)
     PROVE  TypeOK'
  BY <1>1 DEF Arrive
<1>2. ASSUME NEW p \in Procs, CheckMark(p)
     PROVE  TypeOK'
  BY <1>2, LeaveTypes DEF CheckMark
<1>3. ASSUME NEW p \in Procs, Load(p)
     PROVE  TypeOK'
  BY <1>3, PairTypes DEF Load, Ready, Row, Soon
<1>4. ASSUME NEW p \in Procs, Introspect(p)
     PROVE  TypeOK'
  <2>1. mine[p].access \in Nat
    BY FieldTypes
  <2>2. cached' \subseteq Nat
    BY <1>4, <2>1 DEF Introspect
  <2>3. LocalTypes'
    <3>1. CASE Leave(p)
      BY <3>1, LeaveTypes
    <3>2. CASE ~Leave(p)
      BY <1>4, <3>2 DEF Introspect
    <3>3. QED
      BY <3>1, <3>2
  <2>4. QED
    BY <1>4, <2>2, <2>3 DEF Introspect
<1>5. ASSUME NEW p \in Procs, RevokeBinding(p)
     PROVE  TypeOK'
  BY <1>5 DEF RevokeBinding
<1>6. ASSUME NEW p \in Procs, MarkBinding(p)
     PROVE  TypeOK'
  BY <1>6 DEF MarkBinding
<1>7. ASSUME NEW p \in Procs, EndSession(p)
     PROVE  TypeOK'
  BY <1>7, LeaveTypes DEF EndSession
<1>8. ASSUME NEW p \in Procs, Use(p)
     PROVE  TypeOK'
  <2>1. CASE Leave(p)
    BY <1>8, <2>1, LeaveTypes DEF Use
  <2>2. CASE ~Leave(p)
    <3>1. base' \in [Procs -> Nat]
      BY <1>8, <2>2, FieldTypes DEF Use
    <3>2. /\ pc' \in [Procs -> PCs] /\ forced' \in [Procs -> BOOLEAN]
          /\ UNCHANGED <<stage, late, mine, got, wasRevoked, outcome>>
      BY <1>8, <2>2 DEF Use
    <3>3. QED
      BY <1>8, <3>1, <3>2 DEF Use
  <2>3. QED
    BY <2>1, <2>2
<1>9. ASSUME NEW p \in Procs, Acquire(p)
     PROVE  TypeOK'
  BY <1>9 DEF Acquire
<1>10. ASSUME NEW p \in Procs, Poll(p)
     PROVE  TypeOK'
  <2>1. mine' \in [Procs -> Pairs]
    BY <1>10, PairTypes DEF Poll
  <2>2. pc' \in [Procs -> PCs] /\ late' \in [Procs -> BOOLEAN]
    BY <1>10 DEF Poll, Ready
  <2>3. QED
    BY <1>10, <2>1, <2>2 DEF Poll
<1>11. ASSUME NEW p \in Procs, Recheck(p)
     PROVE  TypeOK'
  BY <1>11, PairTypes DEF Recheck, Row, Settled, Soon, Finish
<1>12. ASSUME NEW p \in Procs, Refresh(p)
     PROVE  TypeOK'
  <2>1. got' \in [Procs -> Pairs]
    <3>1. \A rotate \in BOOLEAN :
            [access |-> issued + 1, refresh |-> IF rotate THEN issued + 1 ELSE 0] \in Pairs
      BY DEF Pairs
    <3>2. QED
      BY <1>12, <3>1 DEF Refresh
  <2>2. /\ issued' \in Nat /\ erpAccess' \subseteq Nat /\ erpRefresh' \subseteq Nat
    BY <1>12, GrantTypes DEF Refresh
  <2>3. /\ pc' \in [Procs -> PCs]
        /\ outcome' \in [Procs -> {"ok", "reauthenticate", "error"}]
    BY <1>12 DEF Refresh, Finish
  <2>4. QED
    BY <1>12, <2>1, <2>2, <2>3 DEF Refresh
<1>13. ASSUME NEW p \in Procs, RefreshLost(p)
     PROVE  TypeOK'
  <2>1. issued' \in Nat /\ erpAccess' \subseteq Nat /\ erpRefresh' \subseteq Nat
    BY <1>13, GrantTypes DEF RefreshLost
  <2>2. faults' \in 0..MaxFaults
    BY <1>13 DEF RefreshLost, Fault
  <2>3. QED
    BY <1>13, <2>1, <2>2 DEF RefreshLost, Finish
<1>14. ASSUME NEW p \in Procs, SelectForReplace(p)
     PROVE  TypeOK'
  BY <1>14 DEF SelectForReplace
<1>15. ASSUME NEW p \in Procs, CommitTokens(p)
     PROVE  TypeOK'
  BY <1>15, FieldTypes DEF CommitTokens
<1>16. ASSUME NEW p \in Procs, CommitFails(p)
     PROVE  TypeOK'
  BY <1>16 DEF CommitFails, Finish, Fault
<1>17. ASSUME NEW p \in Procs, Reload(p)
     PROVE  TypeOK'
  BY <1>17, PairTypes DEF Reload, Finish, Row
<1>18. ASSUME NEW p \in Procs, Release(p)
     PROVE  TypeOK'
  <2>1. CASE Leave(p)
    BY <1>18, <2>1, LeaveTypes DEF Release
  <2>2. CASE ~Leave(p)
    <3>1. got' \in [Procs -> Pairs]
      BY <1>18, <2>2, PairTypes DEF Release
    <3>2. pc' \in [Procs -> PCs] /\ lease' \in Procs \cup {NoProc}
      BY <1>18, <2>2 DEF Release, Ready
    <3>3. /\ late' \in [Procs -> BOOLEAN] /\ wasRevoked' \in [Procs -> BOOLEAN]
          /\ UNCHANGED <<stage, forced, base, mine, outcome>>
      BY <1>18, <2>2 DEF Release
    <3>4. QED
      BY <1>18, <3>1, <3>2, <3>3 DEF Release
  <2>3. QED
    BY <2>1, <2>2
<1>19. ASSUME NEW p \in Procs, ReleaseFails(p)
     PROVE  TypeOK'
  BY <1>19, LeaveTypes DEF ReleaseFails, Fault
<1>20. ASSUME NEW p \in Procs, Deadline(p)
     PROVE  TypeOK'
  BY <1>20 DEF Deadline
<1>21. ASSUME NEW p \in Procs, Crash(p)
     PROVE  TypeOK'
  BY <1>21, LeaveTypes DEF Crash, Fault
<1>22. ASSUME LeaseExpires
     PROVE  TypeOK'
  BY <1>22 DEF LeaseExpires
<1>23. ASSUME Tick
     PROVE  TypeOK'
  BY <1>23 DEF Tick
<1>24. ASSUME SignOutLoads
     PROVE  TypeOK'
  BY <1>24 DEF SignOutLoads
<1>25. ASSUME SignOutTellsErp
     PROVE  TypeOK'
  BY <1>25 DEF SignOutTellsErp
<1>26. ASSUME SignOutEnds
     PROVE  TypeOK'
  BY <1>26 DEF SignOutEnds
<1>27. ASSUME SignOutCommits
     PROVE  TypeOK'
  BY <1>27 DEF SignOutCommits
<1>28. ASSUME HookEnds
     PROVE  TypeOK'
  BY <1>28 DEF HookEnds
<1>29. ASSUME HookMarks
     PROVE  TypeOK'
  BY <1>29 DEF HookMarks
<1>30. ASSUME HookCommits
     PROVE  TypeOK'
  BY <1>30 DEF HookCommits
<1>31. ASSUME LogoutFails
     PROVE  TypeOK'
  BY <1>31 DEF LogoutFails, Fault
<1>32. ASSUME NEW g \in erpAccess \cup cached, CacheEnds(g) \/ AccessLapses(g)
     PROVE  TypeOK'
  BY <1>32 DEF CacheEnds, AccessLapses
<1>33. CASE UNCHANGED vars
  BY <1>33 DEF vars
<1>34. QED
  BY <1>1, <1>2, <1>3, <1>4, <1>5, <1>6, <1>7, <1>8, <1>9, <1>10, <1>11, <1>12,
     <1>13, <1>14, <1>15, <1>16, <1>17, <1>18, <1>19, <1>20, <1>21, <1>22, <1>23,
     <1>24, <1>25, <1>26, <1>27, <1>28, <1>29, <1>30, <1>31, <1>32, <1>33
  DEF Next, RequestStep, RefreshStep, SignOutStep, HookStep

\* Every variable keeps its type whatever the lock's TTL (all of
\* token_refresh.py, authorization.py and the two logout endpoints).
THEOREM CredentialTypeCorrect == Spec => []TypeOK
<1>1. QED
  BY TypeInit, TypeStep, PTL DEF Spec

-----------------------------------------------------------------------------
(* The inductive invariant.                                                 *)

\* The lock's TTL outlives the work done under it.
LockOutlivesHolder == ~LeaseMayExpire

\* Then whoever is in the critical section holds it.
HoldsLock(p) == LockOutlivesHolder /\ pc[p] \in Holding => lease = p

\* Nobody knows a token that ERPNext has not issued.
KnowsIssued(p) == base[p] <= issued /\ mine[p].access <= issued

\* A request has a pair in hand that is not yet stored.
InHand(p) == pc[p] \in {"replacing", "committing"}

\* A pair in hand is newer than the refused token, and under the lock than the row.
PairIsNewer(p) ==
  InHand(p) =>
    /\ base[p] < got[p].access
    /\ got[p].access <= issued
    /\ LockOutlivesHolder => access < got[p].access

\* A forced refresh belongs to a call; the guard never forces one.
ForcedIsCall(p) ==
  /\ pc[p] = "using" => stage[p] = "call"
  /\ forced[p] =>
       /\ stage[p] = "call"
       /\ pc[p] \in {"acquiring", "polling", "using", "ending"} \cup Holding

\* From the commit on, a forced refresh has another token than the refused one.
ForcedIsFresh(p) ==
  forced[p] =>
    /\ pc[p] = "reloading" => revoked \/ access # base[p]
    /\ pc[p] = "releasing" /\ outcome[p] = "ok" => mine[p].access # base[p]
    /\ pc[p] = "using" => mine[p].access # base[p]

RequestInv(p) ==
  HoldsLock(p) /\ KnowsIssued(p) /\ PairIsNewer(p) /\ ForcedIsCall(p) /\ ForcedIsFresh(p)

RefreshInv ==
  /\ TypeOK
  /\ access <= issued
  /\ \A p \in Procs : RequestInv(p)

\* A pair in hand has not been stored: neither the row nor any request has its access
\* token, and no two requests have the same pair in hand, whoever holds the lock.
NewInv ==
  \A p \in Procs : InHand(p) =>
    /\ access # got[p].access
    /\ \A q \in Procs :
         /\ base[q] # got[p].access /\ mine[q].access # got[p].access
         /\ InHand(q) /\ got[q].access = got[p].access => q = p

\* The initial state satisfies it.
LEMMA RefreshInit == Init => RefreshInv
<1>1. SUFFICES ASSUME Init PROVE RefreshInv
  OBVIOUS
<1>2. TypeOK
  BY <1>1, TypeInit
<1>3. QED
  BY <1>1, <1>2 DEF Init, RefreshInv, RequestInv, HoldsLock, KnowsIssued,
     PairIsNewer, InHand, ForcedIsCall, ForcedIsFresh, Nothing, Holding, Critical

\* How a step of another request, of a logout, of ERPNext or of the clock
\* looks to the request q.
Elsewhere(q) ==
  /\ pc'[q] = pc[q] /\ stage'[q] = stage[q] /\ forced'[q] = forced[q]
  /\ base'[q] = base[q] /\ mine'[q] = mine[q] /\ got'[q] = got[q]
  /\ outcome'[q] = outcome[q]
  /\ LockOutlivesHolder /\ pc[q] \in Holding /\ lease = q => lease' = q
  /\ pc[q] \in Holding =>
       \/ access' = access /\ revoked' = revoked
       \/ access' = 0 /\ revoked'
       \/ ~LockOutlivesHolder /\ access' # base[q]

\* It keeps what the invariant says of a request.
LEMMA ElsewhereKeeps ==
  ASSUME RefreshInv, issued' \in Nat, issued <= issued',
         NEW q \in Procs, Elsewhere(q)
  PROVE  RequestInv(q)'
<1>1. /\ access \in Nat /\ issued \in Nat /\ base[q] \in Nat
      /\ mine[q].access \in Nat /\ got[q].access \in Nat
  BY FieldTypes DEF RefreshInv, TypeOK
<1>2. RequestInv(q)
  BY DEF RefreshInv
<1>3. HoldsLock(q)' /\ KnowsIssued(q)' /\ ForcedIsCall(q)'
  BY <1>1, <1>2 DEF RequestInv, HoldsLock, KnowsIssued, ForcedIsCall, Elsewhere,
     Holding, Critical
<1>4. PairIsNewer(q)' /\ ForcedIsFresh(q)'
  BY <1>1, <1>2
  DEF RequestInv, PairIsNewer, InHand, ForcedIsFresh, Elsewhere, Holding, Critical
<1>5. QED
  BY <1>3, <1>4 DEF RequestInv

\* A request that leaves has nothing left to go wrong with.
LEMMA LeaveKeeps ==
  ASSUME TypeOK, issued' \in Nat, NEW p \in Procs, Leave(p)
  PROVE  RequestInv(p)'
<1>1. /\ pc'[p] = "idle" /\ forced'[p] = FALSE /\ base'[p] = 0
      /\ mine'[p].access = 0
  BY DEF TypeOK, Leave, Goto, Nothing
<1>2. QED
  BY <1>1 DEF RequestInv, HoldsLock, KnowsIssued, PairIsNewer, InHand, ForcedIsCall,
     ForcedIsFresh, Holding, Critical

\* Every step keeps it.
LEMMA RefreshStepKeeps ==
  ASSUME RefreshInv, NewInv, [Next]_vars
  PROVE  RefreshInv'
<1>0. TypeOK /\ TypeOK'
  BY TypeStep DEF RefreshInv
<1> USE DEF LockOutlivesHolder, InHand, TypeOK, Goto, PCs, Holding, Critical,
         rowVars, sessionVars, erpVars, stateVars, localVars, logoutVars
<1>1. ASSUME NEW p \in Procs, NEW st \in {"guard", "call"}, Arrive(p, st)
     PROVE  RefreshInv'
  <2>1. issued <= issued' /\ access' <= issued'
    BY <1>1, <1>0 DEF Arrive, RefreshInv
  <2>2. ASSUME NEW q \in Procs, q # p PROVE Elsewhere(q)
    BY <1>1, <1>0, <2>2 DEF Arrive, Elsewhere, RefreshInv, RequestInv, HoldsLock
  <2>3. RequestInv(p)'
    BY <1>1, <1>0, FieldTypes DEF Arrive, RefreshInv, RequestInv, HoldsLock,
       KnowsIssued, PairIsNewer, ForcedIsCall, ForcedIsFresh
  <2>4. QED
    BY <1>0, <2>1, <2>2, <2>3, ElsewhereKeeps DEF RefreshInv
<1>2. ASSUME NEW p \in Procs, CheckMark(p)
     PROVE  RefreshInv'
  <2>1. issued <= issued' /\ access' <= issued'
    BY <1>2, <1>0 DEF CheckMark, RefreshInv
  <2>2. ASSUME NEW q \in Procs, q # p PROVE Elsewhere(q)
    BY <1>2, <1>0, <2>2 DEF CheckMark, Elsewhere, RefreshInv, RequestInv, HoldsLock,
       Leave
  <2>3. RequestInv(p)'
    <3>1. CASE Leave(p)
      BY <3>1, <1>0, LeaveKeeps
    <3>2. CASE ~Leave(p)
      BY <1>2, <1>0, <3>2, FieldTypes DEF CheckMark, RefreshInv, RequestInv,
         HoldsLock, KnowsIssued, PairIsNewer, ForcedIsCall, ForcedIsFresh
    <3>3. QED
      BY <3>1, <3>2
  <2>4. QED
    BY <1>0, <2>1, <2>2, <2>3, ElsewhereKeeps DEF RefreshInv
<1>3. ASSUME NEW p \in Procs, Load(p)
     PROVE  RefreshInv'
  <2>1. issued <= issued' /\ access' <= issued'
    BY <1>3, <1>0 DEF Load, Ready, Row, Soon, RefreshInv
  <2>2. ASSUME NEW q \in Procs, q # p PROVE Elsewhere(q)
    BY <1>3, <1>0, <2>2 DEF Load, Ready, Row, Soon, Elsewhere, RefreshInv,
       RequestInv, HoldsLock
  <2>3. RequestInv(p)'
    BY <1>3, <1>0, FieldTypes DEF Load, Ready, Row, Soon, RefreshInv, RequestInv,
       HoldsLock, KnowsIssued, PairIsNewer, ForcedIsCall, ForcedIsFresh
  <2>4. QED
    BY <1>0, <2>1, <2>2, <2>3, ElsewhereKeeps DEF RefreshInv
<1>4. ASSUME NEW p \in Procs, Introspect(p)
     PROVE  RefreshInv'
  <2>1. issued <= issued' /\ access' <= issued'
    BY <1>4, <1>0 DEF Introspect, RefreshInv
  <2>2. ASSUME NEW q \in Procs, q # p PROVE Elsewhere(q)
    BY <1>4, <1>0, <2>2 DEF Introspect, Elsewhere, RefreshInv, RequestInv,
       HoldsLock, Leave
  <2>3. RequestInv(p)'
    <3>1. CASE Leave(p)
      BY <3>1, <1>0, LeaveKeeps
    <3>2. CASE ~Leave(p)
      BY <1>4, <1>0, <3>2, FieldTypes DEF Introspect, RefreshInv, RequestInv,
         HoldsLock, KnowsIssued, PairIsNewer, ForcedIsCall, ForcedIsFresh
    <3>3. QED
      BY <3>1, <3>2
  <2>4. QED
    BY <1>0, <2>1, <2>2, <2>3, ElsewhereKeeps DEF RefreshInv
<1>5. ASSUME NEW p \in Procs, RevokeBinding(p)
     PROVE  RefreshInv'
  <2>1. issued <= issued' /\ access' <= issued'
    BY <1>5, <1>0 DEF RevokeBinding, RefreshInv
  <2>2. ASSUME NEW q \in Procs, q # p PROVE Elsewhere(q)
    BY <1>5, <1>0, <2>2 DEF RevokeBinding, Elsewhere, RefreshInv, RequestInv,
       HoldsLock
  <2>3. RequestInv(p)'
    BY <1>5, <1>0, FieldTypes DEF RevokeBinding, RefreshInv, RequestInv, HoldsLock,
       KnowsIssued, PairIsNewer, ForcedIsCall, ForcedIsFresh
  <2>4. QED
    BY <1>0, <2>1, <2>2, <2>3, ElsewhereKeeps DEF RefreshInv
<1>6. ASSUME NEW p \in Procs, MarkBinding(p)
     PROVE  RefreshInv'
  <2>1. issued <= issued' /\ access' <= issued'
    BY <1>6, <1>0 DEF MarkBinding, RefreshInv
  <2>2. ASSUME NEW q \in Procs, q # p PROVE Elsewhere(q)
    BY <1>6, <1>0, <2>2 DEF MarkBinding, Elsewhere, RefreshInv, RequestInv,
       HoldsLock
  <2>3. RequestInv(p)'
    BY <1>6, <1>0, FieldTypes DEF MarkBinding, RefreshInv, RequestInv, HoldsLock,
       KnowsIssued, PairIsNewer, ForcedIsCall, ForcedIsFresh
  <2>4. QED
    BY <1>0, <2>1, <2>2, <2>3, ElsewhereKeeps DEF RefreshInv
<1>7. ASSUME NEW p \in Procs, EndSession(p)
     PROVE  RefreshInv'
  <2>1. issued <= issued' /\ access' <= issued'
    BY <1>7, <1>0 DEF EndSession, RefreshInv
  <2>2. ASSUME NEW q \in Procs, q # p PROVE Elsewhere(q)
    BY <1>7, <1>0, <2>2 DEF EndSession, Elsewhere, RefreshInv, RequestInv,
       HoldsLock, Leave
  <2>3. RequestInv(p)'
    <3>1. CASE Leave(p)
      BY <3>1, <1>0, LeaveKeeps
    <3>2. CASE ~Leave(p)
      BY <1>7, <1>0, <3>2, FieldTypes DEF EndSession, RefreshInv, RequestInv,
         HoldsLock, KnowsIssued, PairIsNewer, ForcedIsCall, ForcedIsFresh
    <3>3. QED
      BY <3>1, <3>2
  <2>4. QED
    BY <1>0, <2>1, <2>2, <2>3, ElsewhereKeeps DEF RefreshInv
<1>8. ASSUME NEW p \in Procs, Use(p)
     PROVE  RefreshInv'
  <2>1. issued <= issued' /\ access' <= issued'
    BY <1>8, <1>0 DEF Use, RefreshInv
  <2>2. ASSUME NEW q \in Procs, q # p PROVE Elsewhere(q)
    BY <1>8, <1>0, <2>2 DEF Use, Elsewhere, RefreshInv, RequestInv, HoldsLock, Leave
  <2>3. RequestInv(p)'
    <3>1. CASE Leave(p)
      BY <3>1, <1>0, LeaveKeeps
    <3>2. CASE ~Leave(p)
      BY <1>8, <1>0, <3>2, FieldTypes DEF Use, RefreshInv, RequestInv, HoldsLock,
         KnowsIssued, PairIsNewer, ForcedIsCall, ForcedIsFresh
    <3>3. QED
      BY <3>1, <3>2
  <2>4. QED
    BY <1>0, <2>1, <2>2, <2>3, ElsewhereKeeps DEF RefreshInv
<1>9. ASSUME NEW p \in Procs, Acquire(p)
     PROVE  RefreshInv'
  <2>1. issued <= issued' /\ access' <= issued'
    BY <1>9, <1>0 DEF Acquire, RefreshInv
  <2>2. ASSUME NEW q \in Procs, q # p PROVE Elsewhere(q)
    BY <1>9, <1>0, <2>2, ConstantsAssumption DEF Acquire, Elsewhere, RefreshInv,
       RequestInv, HoldsLock
  <2>3. RequestInv(p)'
    BY <1>9, <1>0, FieldTypes DEF Acquire, RefreshInv, RequestInv, HoldsLock,
       KnowsIssued, PairIsNewer, ForcedIsCall, ForcedIsFresh
  <2>4. QED
    BY <1>0, <2>1, <2>2, <2>3, ElsewhereKeeps DEF RefreshInv
<1>10. ASSUME NEW p \in Procs, Poll(p)
     PROVE  RefreshInv'
  <2>1. issued <= issued' /\ access' <= issued'
    BY <1>10, <1>0 DEF Poll, Ready, Row, MayUse, Settled, Soon, RefreshInv
  <2>2. ASSUME NEW q \in Procs, q # p PROVE Elsewhere(q)
    BY <1>10, <1>0, <2>2 DEF Poll, Ready, Row, MayUse, Settled, Soon, Elsewhere,
       RefreshInv, RequestInv, HoldsLock
  <2>3. RequestInv(p)'
    BY <1>10, <1>0, FieldTypes DEF Poll, Ready, Row, MayUse, Settled, Soon,
       RefreshInv, RequestInv, HoldsLock, KnowsIssued, PairIsNewer, ForcedIsCall,
       ForcedIsFresh
  <2>4. QED
    BY <1>0, <2>1, <2>2, <2>3, ElsewhereKeeps DEF RefreshInv
<1>11. ASSUME NEW p \in Procs, Recheck(p)
     PROVE  RefreshInv'
  <2>1. issued <= issued' /\ access' <= issued'
    BY <1>11, <1>0 DEF Recheck, Row, Settled, Soon, Finish, RefreshInv
  <2>2. ASSUME NEW q \in Procs, q # p PROVE Elsewhere(q)
    BY <1>11, <1>0, <2>2 DEF Recheck, Row, Settled, Soon, Finish, Elsewhere,
       RefreshInv, RequestInv, HoldsLock
  <2>3. RequestInv(p)'
    BY <1>11, <1>0, FieldTypes DEF Recheck, Row, Settled, Soon, Finish, RefreshInv,
       RequestInv, HoldsLock, KnowsIssued, PairIsNewer, ForcedIsCall, ForcedIsFresh
  <2>4. QED
    BY <1>0, <2>1, <2>2, <2>3, ElsewhereKeeps DEF RefreshInv
<1>12. ASSUME NEW p \in Procs, Refresh(p)
     PROVE  RefreshInv'
  <2>1. issued <= issued' /\ access' <= issued'
    BY <1>12, <1>0 DEF Refresh, Finish, Grant, RefreshInv
  <2>2. ASSUME NEW q \in Procs, q # p PROVE Elsewhere(q)
    BY <1>12, <1>0, <2>2 DEF Refresh, Finish, Grant, Elsewhere, RefreshInv,
       RequestInv, HoldsLock
  <2>3. RequestInv(p)'
    BY <1>12, <1>0, FieldTypes DEF Refresh, Finish, Grant, RefreshInv, RequestInv,
       HoldsLock, KnowsIssued, PairIsNewer, ForcedIsCall, ForcedIsFresh
  <2>4. QED
    BY <1>0, <2>1, <2>2, <2>3, ElsewhereKeeps DEF RefreshInv
<1>13. ASSUME NEW p \in Procs, RefreshLost(p)
     PROVE  RefreshInv'
  <2>1. issued <= issued' /\ access' <= issued'
    BY <1>13, <1>0 DEF RefreshLost, Finish, Grant, Fault, RefreshInv
  <2>2. ASSUME NEW q \in Procs, q # p PROVE Elsewhere(q)
    BY <1>13, <1>0, <2>2 DEF RefreshLost, Finish, Grant, Fault, Elsewhere,
       RefreshInv, RequestInv, HoldsLock
  <2>3. RequestInv(p)'
    BY <1>13, <1>0, FieldTypes DEF RefreshLost, Finish, Grant, Fault, RefreshInv,
       RequestInv, HoldsLock, KnowsIssued, PairIsNewer, ForcedIsCall, ForcedIsFresh
  <2>4. QED
    BY <1>0, <2>1, <2>2, <2>3, ElsewhereKeeps DEF RefreshInv
<1>14. ASSUME NEW p \in Procs, SelectForReplace(p)
     PROVE  RefreshInv'
  <2>1. issued <= issued' /\ access' <= issued'
    BY <1>14, <1>0 DEF SelectForReplace, RefreshInv
  <2>2. ASSUME NEW q \in Procs, q # p PROVE Elsewhere(q)
    BY <1>14, <1>0, <2>2 DEF SelectForReplace, Elsewhere, RefreshInv, RequestInv,
       HoldsLock
  <2>3. RequestInv(p)'
    BY <1>14, <1>0, FieldTypes DEF SelectForReplace, RefreshInv, RequestInv,
       HoldsLock, KnowsIssued, PairIsNewer, ForcedIsCall, ForcedIsFresh
  <2>4. QED
    BY <1>0, <2>1, <2>2, <2>3, ElsewhereKeeps DEF RefreshInv
<1>15. ASSUME NEW p \in Procs, CommitTokens(p)
     PROVE  RefreshInv'
  <2>1. issued <= issued' /\ access' <= issued'
    BY <1>15, <1>0 DEF CommitTokens, RefreshInv, RequestInv, PairIsNewer
  <2>2. ASSUME NEW q \in Procs, q # p PROVE Elsewhere(q)
    BY <1>15, <1>0, <2>2 DEF CommitTokens, Elsewhere, RefreshInv, RequestInv,
       HoldsLock, NewInv
  <2>3. RequestInv(p)'
    BY <1>15, <1>0, FieldTypes DEF CommitTokens, RefreshInv, RequestInv, HoldsLock,
       KnowsIssued, PairIsNewer, ForcedIsCall, ForcedIsFresh
  <2>4. QED
    BY <1>0, <2>1, <2>2, <2>3, ElsewhereKeeps DEF RefreshInv
<1>16. ASSUME NEW p \in Procs, CommitFails(p)
     PROVE  RefreshInv'
  <2>1. issued <= issued' /\ access' <= issued'
    BY <1>16, <1>0 DEF CommitFails, Finish, Fault, RefreshInv
  <2>2. ASSUME NEW q \in Procs, q # p PROVE Elsewhere(q)
    BY <1>16, <1>0, <2>2 DEF CommitFails, Finish, Fault, Elsewhere, RefreshInv,
       RequestInv, HoldsLock
  <2>3. RequestInv(p)'
    BY <1>16, <1>0, FieldTypes DEF CommitFails, Finish, Fault, RefreshInv,
       RequestInv, HoldsLock, KnowsIssued, PairIsNewer, ForcedIsCall, ForcedIsFresh
  <2>4. QED
    BY <1>0, <2>1, <2>2, <2>3, ElsewhereKeeps DEF RefreshInv
<1>17. ASSUME NEW p \in Procs, Reload(p)
     PROVE  RefreshInv'
  <2>1. issued <= issued' /\ access' <= issued'
    BY <1>17, <1>0 DEF Reload, Finish, Row, RefreshInv
  <2>2. ASSUME NEW q \in Procs, q # p PROVE Elsewhere(q)
    BY <1>17, <1>0, <2>2 DEF Reload, Finish, Row, Elsewhere, RefreshInv, RequestInv,
       HoldsLock
  <2>3. RequestInv(p)'
    BY <1>17, <1>0, FieldTypes DEF Reload, Finish, Row, RefreshInv, RequestInv,
       HoldsLock, KnowsIssued, PairIsNewer, ForcedIsCall, ForcedIsFresh
  <2>4. QED
    BY <1>0, <2>1, <2>2, <2>3, ElsewhereKeeps DEF RefreshInv
<1>18. ASSUME NEW p \in Procs, Release(p)
     PROVE  RefreshInv'
  <2>1. issued <= issued' /\ access' <= issued'
    BY <1>18, <1>0 DEF Release, Ready, RefreshInv
  <2>2. ASSUME NEW q \in Procs, q # p PROVE Elsewhere(q)
    BY <1>18, <1>0, <2>2 DEF Release, Ready, Elsewhere, RefreshInv, RequestInv,
       HoldsLock, Leave
  <2>3. RequestInv(p)'
    <3>1. CASE Leave(p)
      BY <3>1, <1>0, LeaveKeeps
    <3>2. CASE ~Leave(p)
      BY <1>18, <1>0, <3>2, FieldTypes DEF Release, Ready, RefreshInv, RequestInv,
         HoldsLock, KnowsIssued, PairIsNewer, ForcedIsCall, ForcedIsFresh
    <3>3. QED
      BY <3>1, <3>2
  <2>4. QED
    BY <1>0, <2>1, <2>2, <2>3, ElsewhereKeeps DEF RefreshInv
<1>19. ASSUME NEW p \in Procs, ReleaseFails(p)
     PROVE  RefreshInv'
  <2>1. issued <= issued' /\ access' <= issued'
    BY <1>19, <1>0 DEF ReleaseFails, Fault, RefreshInv
  <2>2. ASSUME NEW q \in Procs, q # p PROVE Elsewhere(q)
    BY <1>19, <1>0, <2>2 DEF ReleaseFails, Fault, Elsewhere, RefreshInv, RequestInv,
       HoldsLock, Leave
  <2>3. RequestInv(p)'
    <3>1. CASE Leave(p)
      BY <3>1, <1>0, LeaveKeeps
    <3>2. CASE ~Leave(p)
      BY <1>19, <1>0, <3>2, FieldTypes DEF ReleaseFails, Fault, RefreshInv,
         RequestInv, HoldsLock, KnowsIssued, PairIsNewer, ForcedIsCall,
         ForcedIsFresh
    <3>3. QED
      BY <3>1, <3>2
  <2>4. QED
    BY <1>0, <2>1, <2>2, <2>3, ElsewhereKeeps DEF RefreshInv
<1>20. ASSUME NEW p \in Procs, Deadline(p)
     PROVE  RefreshInv'
  <2>1. issued <= issued' /\ access' <= issued'
    BY <1>20, <1>0 DEF Deadline, RefreshInv
  <2>2. ASSUME NEW q \in Procs, q # p PROVE Elsewhere(q)
    BY <1>20, <1>0, <2>2 DEF Deadline, Elsewhere, RefreshInv, RequestInv, HoldsLock
  <2>3. RequestInv(p)'
    BY <1>20, <1>0, FieldTypes DEF Deadline, RefreshInv, RequestInv, HoldsLock,
       KnowsIssued, PairIsNewer, ForcedIsCall, ForcedIsFresh
  <2>4. QED
    BY <1>0, <2>1, <2>2, <2>3, ElsewhereKeeps DEF RefreshInv
<1>21. ASSUME NEW p \in Procs, Crash(p)
     PROVE  RefreshInv'
  <2>1. issued <= issued' /\ access' <= issued'
    BY <1>21, <1>0 DEF Crash, Fault, RefreshInv
  <2>2. ASSUME NEW q \in Procs, q # p PROVE Elsewhere(q)
    BY <1>21, <1>0, <2>2, ConstantsAssumption DEF Crash, Fault, Elsewhere,
       RefreshInv, RequestInv, HoldsLock, Leave
  <2>3. RequestInv(p)'
    <3>1. CASE Leave(p)
      BY <3>1, <1>0, LeaveKeeps
    <3>2. CASE ~Leave(p)
      BY <1>21, <1>0, <3>2, FieldTypes DEF Crash, Fault, RefreshInv, RequestInv,
         HoldsLock, KnowsIssued, PairIsNewer, ForcedIsCall, ForcedIsFresh
    <3>3. QED
      BY <3>1, <3>2
  <2>4. QED
    BY <1>0, <2>1, <2>2, <2>3, ElsewhereKeeps DEF RefreshInv
<1>22. ASSUME LeaseExpires
     PROVE  RefreshInv'
  <2>1. issued <= issued' /\ access' <= issued'
    BY <1>22, <1>0 DEF LeaseExpires, RefreshInv
  <2>2. ASSUME NEW q \in Procs PROVE Elsewhere(q)
    BY <1>22, <1>0, ConstantsAssumption DEF LeaseExpires, Elsewhere, RefreshInv,
       RequestInv, HoldsLock
  <2>3. QED
    BY <1>0, <2>1, <2>2, ElsewhereKeeps DEF RefreshInv
<1>23. ASSUME Tick
     PROVE  RefreshInv'
  <2>1. issued <= issued' /\ access' <= issued'
    BY <1>23, <1>0 DEF Tick, RefreshInv
  <2>2. ASSUME NEW q \in Procs PROVE Elsewhere(q)
    BY <1>23, <1>0 DEF Tick, Elsewhere, RefreshInv, RequestInv, HoldsLock
  <2>3. QED
    BY <1>0, <2>1, <2>2, ElsewhereKeeps DEF RefreshInv
<1>24. ASSUME SignOutLoads
     PROVE  RefreshInv'
  <2>1. issued <= issued' /\ access' <= issued'
    BY <1>24, <1>0 DEF SignOutLoads, RefreshInv
  <2>2. ASSUME NEW q \in Procs PROVE Elsewhere(q)
    BY <1>24, <1>0 DEF SignOutLoads, Elsewhere, RefreshInv, RequestInv, HoldsLock
  <2>3. QED
    BY <1>0, <2>1, <2>2, ElsewhereKeeps DEF RefreshInv
<1>25. ASSUME SignOutTellsErp
     PROVE  RefreshInv'
  <2>1. issued <= issued' /\ access' <= issued'
    BY <1>25, <1>0 DEF SignOutTellsErp, RefreshInv
  <2>2. ASSUME NEW q \in Procs PROVE Elsewhere(q)
    BY <1>25, <1>0 DEF SignOutTellsErp, Elsewhere, RefreshInv, RequestInv, HoldsLock
  <2>3. QED
    BY <1>0, <2>1, <2>2, ElsewhereKeeps DEF RefreshInv
<1>26. ASSUME SignOutEnds
     PROVE  RefreshInv'
  <2>1. issued <= issued' /\ access' <= issued'
    BY <1>26, <1>0 DEF SignOutEnds, RefreshInv
  <2>2. ASSUME NEW q \in Procs PROVE Elsewhere(q)
    BY <1>26, <1>0 DEF SignOutEnds, Elsewhere, RefreshInv, RequestInv, HoldsLock
  <2>3. QED
    BY <1>0, <2>1, <2>2, ElsewhereKeeps DEF RefreshInv
<1>27. ASSUME SignOutCommits
     PROVE  RefreshInv'
  <2>1. issued <= issued' /\ access' <= issued'
    BY <1>27, <1>0 DEF SignOutCommits, RefreshInv
  <2>2. ASSUME NEW q \in Procs PROVE Elsewhere(q)
    BY <1>27, <1>0 DEF SignOutCommits, Elsewhere, RefreshInv, RequestInv, HoldsLock
  <2>3. QED
    BY <1>0, <2>1, <2>2, ElsewhereKeeps DEF RefreshInv
<1>28. ASSUME HookEnds
     PROVE  RefreshInv'
  <2>1. issued <= issued' /\ access' <= issued'
    BY <1>28, <1>0 DEF HookEnds, RefreshInv
  <2>2. ASSUME NEW q \in Procs PROVE Elsewhere(q)
    BY <1>28, <1>0 DEF HookEnds, Elsewhere, RefreshInv, RequestInv, HoldsLock
  <2>3. QED
    BY <1>0, <2>1, <2>2, ElsewhereKeeps DEF RefreshInv
<1>29. ASSUME HookMarks
     PROVE  RefreshInv'
  <2>1. issued <= issued' /\ access' <= issued'
    BY <1>29, <1>0 DEF HookMarks, RefreshInv
  <2>2. ASSUME NEW q \in Procs PROVE Elsewhere(q)
    BY <1>29, <1>0 DEF HookMarks, Elsewhere, RefreshInv, RequestInv, HoldsLock
  <2>3. QED
    BY <1>0, <2>1, <2>2, ElsewhereKeeps DEF RefreshInv
<1>30. ASSUME HookCommits
     PROVE  RefreshInv'
  <2>1. issued <= issued' /\ access' <= issued'
    BY <1>30, <1>0 DEF HookCommits, RefreshInv
  <2>2. ASSUME NEW q \in Procs PROVE Elsewhere(q)
    BY <1>30, <1>0 DEF HookCommits, Elsewhere, RefreshInv, RequestInv, HoldsLock
  <2>3. QED
    BY <1>0, <2>1, <2>2, ElsewhereKeeps DEF RefreshInv
<1>31. ASSUME LogoutFails
     PROVE  RefreshInv'
  <2>1. issued <= issued' /\ access' <= issued'
    BY <1>31, <1>0 DEF LogoutFails, Fault, RefreshInv
  <2>2. ASSUME NEW q \in Procs PROVE Elsewhere(q)
    BY <1>31, <1>0 DEF LogoutFails, Fault, Elsewhere, RefreshInv, RequestInv,
       HoldsLock
  <2>3. QED
    BY <1>0, <2>1, <2>2, ElsewhereKeeps DEF RefreshInv
<1>32. ASSUME NEW g \in erpAccess \cup cached, CacheEnds(g) \/ AccessLapses(g)
     PROVE  RefreshInv'
  <2>1. issued <= issued' /\ access' <= issued'
    BY <1>32, <1>0 DEF CacheEnds, AccessLapses, RefreshInv
  <2>2. ASSUME NEW q \in Procs PROVE Elsewhere(q)
    BY <1>32, <1>0 DEF CacheEnds, AccessLapses, Elsewhere, RefreshInv, RequestInv,
       HoldsLock
  <2>3. QED
    BY <1>0, <2>1, <2>2, ElsewhereKeeps DEF RefreshInv
<1>33. ASSUME UNCHANGED vars
     PROVE  RefreshInv'
  <2>1. issued <= issued' /\ access' <= issued'
    BY <1>33, <1>0 DEF vars, RefreshInv
  <2>2. ASSUME NEW q \in Procs PROVE Elsewhere(q)
    BY <1>33, <1>0 DEF vars, Elsewhere, RefreshInv, RequestInv, HoldsLock
  <2>3. QED
    BY <1>0, <2>1, <2>2, ElsewhereKeeps DEF RefreshInv
<1>34. QED
  BY <1>1, <1>2, <1>3, <1>4, <1>5, <1>6, <1>7, <1>8, <1>9, <1>10, <1>11, <1>12,
     <1>13, <1>14, <1>15, <1>16, <1>17, <1>18, <1>19, <1>20, <1>21, <1>22, <1>23,
     <1>24, <1>25, <1>26, <1>27, <1>28, <1>29, <1>30, <1>31, <1>32, <1>33
  DEF Next, RequestStep, RefreshStep, SignOutStep, HookStep

\* A step that grants or stores no pair shows a request no token but the row's, stores
\* none, and gives nobody a pair.
Looks ==
  /\ access' = access \/ access' = 0
  /\ \A q \in Procs :
       /\ base'[q] \in {base[q], mine[q].access, access, 0}
       /\ mine'[q].access \in {mine[q].access, access, 0}
       /\ InHand(q)' => InHand(q) /\ got'[q] = got[q]

LEMMA LooksKeeps ==
  ASSUME RefreshInv, NewInv, Looks
  PROVE  NewInv'
<1> SUFFICES ASSUME NEW p \in Procs, InHand(p)'
             PROVE  /\ access' # got'[p].access
                    /\ \A q \in Procs :
                         /\ base'[q] # got'[p].access /\ mine'[q].access # got'[p].access
                         /\ InHand(q)' /\ got'[q].access = got'[p].access => q = p
  BY DEF NewInv
<1>1. InHand(p) /\ got'[p] = got[p]
  BY DEF Looks
<1>2. got[p].access # 0
  <2>1. got[p].access \in Nat /\ base[p] \in Nat /\ base[p] < got[p].access
    BY <1>1, FieldTypes DEF RefreshInv, RequestInv, PairIsNewer, TypeOK
  <2>2. QED
    BY <2>1
<1>3. QED
  BY <1>1, <1>2 DEF Looks, NewInv

\* Almost every step does no more.
LEMMA StepLooks ==
  ASSUME TypeOK, [Next]_vars, \A p \in Procs : ~Refresh(p) /\ ~CommitTokens(p)
  PROVE  Looks
<1> USE DEF TypeOK, Goto, InHand, rowVars, erpVars, stateVars, localVars
<1>1. ASSUME NEW p \in Procs, Leave(p), access' \in {access, 0}
      PROVE  Looks
  BY <1>1 DEF Leave, Looks, Nothing
<1>2. ASSUME NEW p \in Procs, NEW st \in {"guard", "call"}, Arrive(p, st)
      PROVE  Looks
  BY <1>2 DEF Arrive, Looks
<1>3. ASSUME NEW p \in Procs, RequestStep(p)
      PROVE  Looks
  <2>1. CASE Leave(p)
    <3>1. access' \in {access, 0}
      BY <1>3 DEF RequestStep, CheckMark, Load, Introspect, RevokeBinding, MarkBinding,
         EndSession, Use
    <3>2. QED
      BY <1>1, <2>1, <3>1
  <2>2. CASE ~Leave(p) /\ (CheckMark(p) \/ EndSession(p) \/ Introspect(p))
    BY <2>2 DEF CheckMark, EndSession, Introspect, Looks
  <2>3. CASE Load(p)
    BY <2>3 DEF Load, Looks, Ready, Row
  <2>4. CASE RevokeBinding(p) \/ MarkBinding(p)
    BY <2>4 DEF RevokeBinding, MarkBinding, Looks
  <2>5. CASE ~Leave(p) /\ Use(p)
    BY <2>5 DEF Use, Looks
  <2>6. QED
    BY <1>3, <2>1, <2>2, <2>3, <2>4, <2>5 DEF RequestStep
<1>4. ASSUME NEW p \in Procs, RefreshStep(p)
      PROVE  Looks
  <2>1. CASE Acquire(p) \/ Recheck(p)
    BY <2>1 DEF Acquire, Recheck, Finish, Row, Looks
  <2>2. CASE Poll(p)
    BY <2>2 DEF Poll, Ready, Row, Looks
  <2>3. CASE RefreshLost(p) \/ CommitFails(p) \/ SelectForReplace(p)
    BY <2>3 DEF RefreshLost, CommitFails, SelectForReplace, Finish, Looks
  <2>4. CASE Reload(p)
    BY <2>4 DEF Reload, Finish, Row, Looks
  <2>5. CASE Leave(p) /\ (Release(p) \/ ReleaseFails(p))
    BY <1>1, <2>5 DEF Release, ReleaseFails
  <2>6. CASE ~Leave(p) /\ (Release(p) \/ ReleaseFails(p))
    BY <2>6 DEF Release, ReleaseFails, Ready, Looks
  <2>7. QED
    BY <1>4, <2>1, <2>2, <2>3, <2>4, <2>5, <2>6 DEF RefreshStep
<1>5. ASSUME NEW p \in Procs, Deadline(p) \/ Crash(p)
      PROVE  Looks
  <2>1. CASE Deadline(p)
    BY <2>1 DEF Deadline, Looks
  <2>2. CASE Crash(p)
    BY <1>1, <2>2 DEF Crash
  <2>3. QED
    BY <1>5, <2>1, <2>2
<1>6. CASE LeaseExpires \/ Tick \/ LogoutFails \/ UNCHANGED vars
             \/ \E g \in erpAccess \cup cached : CacheEnds(g) \/ AccessLapses(g)
  BY <1>6 DEF LeaseExpires, Tick, LogoutFails, CacheEnds, AccessLapses, vars, Looks
<1>7. CASE SignOutStep \/ HookStep
  BY <1>7 DEF SignOutStep, SignOutLoads, SignOutTellsErp, SignOutEnds, SignOutCommits,
     HookStep, HookEnds, HookMarks, HookCommits, Looks
<1>8. QED
  BY <1>2, <1>3, <1>4, <1>5, <1>6, <1>7 DEF Next

\* A grant is of a token nobody has seen, and a store shows one that only its request had.
LEMMA NewStep ==
  ASSUME RefreshInv, NewInv, [Next]_vars
  PROVE  NewInv'
<1>1. TypeOK
  BY DEF RefreshInv
<1>2. CASE \E p \in Procs : Refresh(p)
  <2>1. PICK p \in Procs : Refresh(p)
    BY <1>2
  <2>2. /\ access' = access /\ base' = base /\ mine' = mine
        /\ \A q \in Procs \ {p} : got'[q] = got[q] /\ (InHand(q)' => InHand(q))
        /\ InHand(p)' => got'[p].access = issued + 1
    BY <1>1, <2>1 DEF TypeOK, Refresh, Finish, Goto, InHand, rowVars, stateVars
  <2>3. /\ issued \in Nat /\ access \in Nat /\ access <= issued
        /\ \A q \in Procs :
             /\ base[q] \in Nat /\ base[q] <= issued
             /\ mine[q].access \in Nat /\ mine[q].access <= issued
             /\ InHand(q) => got[q].access \in Nat /\ got[q].access <= issued
    BY <1>1, FieldTypes DEF RefreshInv, RequestInv, KnowsIssued, PairIsNewer, TypeOK
  <2>4. ASSUME NEW q \in Procs, q # p, InHand(q)'
        PROVE  /\ InHand(q) /\ got'[q] = got[q]
               /\ InHand(p)' => got'[p].access # got[q].access
    BY <2>2, <2>3, <2>4
  <2>5. QED
    BY <2>2, <2>3, <2>4 DEF NewInv
<1>3. CASE \E p \in Procs : CommitTokens(p)
  <2>1. PICK p \in Procs : CommitTokens(p)
    BY <1>3
  <2>2. /\ access' = got[p].access /\ InHand(p) /\ ~InHand(p)'
        /\ base' = base /\ mine' = mine /\ got' = got
        /\ \A q \in Procs \ {p} : InHand(q)' => InHand(q)
    BY <1>1, <2>1 DEF TypeOK, CommitTokens, Goto, InHand, localVars, stateVars
  <2>3. QED
    BY <2>2 DEF NewInv
<1>4. CASE \A p \in Procs : ~Refresh(p) /\ ~CommitTokens(p)
  BY <1>1, <1>4, StepLooks, LooksKeeps
<1>5. QED
  BY <1>2, <1>3, <1>4

\* They hold throughout.
LEMMA RefreshCorrect == Spec => [](RefreshInv /\ NewInv)
<1>1. Init => RefreshInv /\ NewInv
  BY RefreshInit DEF Init, NewInv, InHand
<1>2. RefreshInv /\ NewInv /\ [Next]_vars => RefreshInv' /\ NewInv'
  BY RefreshStepKeeps, NewStep
<1>3. QED
  BY <1>1, <1>2, PTL DEF Spec

-----------------------------------------------------------------------------
(* The theorems.                                                            *)

\* As long as the lock outlives its holder, at most one request is inside the
\* critical section of _refresh_single_flight (token_refresh.py).
THEOREM SingleFlight ==
  ASSUME LockOutlivesHolder
  PROVE  Spec => []OneRefresher
<1>1. RefreshInv => OneRefresher
  BY DEF RefreshInv, RequestInv, HoldsLock, OneRefresher, Holding
<1>2. QED
  BY <1>1, RefreshCorrect, PTL

\* A call that ERPNext refused for its token is repeated with another token, even if the
\* lock has expired and several requests refresh at once (refreshing_caller.py,
\* call_tool).
THEOREM RetryIsFresh == Spec => []RetryUsesNewToken
<1>1. RefreshInv => RetryUsesNewToken
  BY DEF RefreshInv, RequestInv, ForcedIsFresh, RetryUsesNewToken
<1>2. QED
  BY <1>1, RefreshCorrect, PTL

\* What a step does to the stored access token.
LEMMA TokenStep ==
  ASSUME LockOutlivesHolder, RefreshInv, [Next]_vars, access' # access
  PROVE  access' > access \/ (access' = 0 /\ revoked')
<1>1. ASSUME NEW p \in Procs, CommitTokens(p) PROVE access' > access
  <2>1. access \in Nat /\ got[p].access \in Nat
    BY FieldTypes DEF RefreshInv, TypeOK
  <2>2. pc[p] = "committing" /\ access' = got[p].access
    BY <1>1 DEF CommitTokens
  <2>3. QED
    BY <2>1, <2>2 DEF RefreshInv, RequestInv, PairIsNewer, InHand
<1>2. CASE \E p \in Procs : RequestStep(p)
  BY <1>2 DEF RequestStep, CheckMark, Load, Introspect, RevokeBinding, MarkBinding,
     EndSession, Use, rowVars
<1>3. CASE \E p \in Procs : RefreshStep(p)
  BY <1>1, <1>3 DEF RefreshStep, Acquire, Poll, Recheck, Refresh, RefreshLost,
     SelectForReplace, CommitFails, Reload, Release, ReleaseFails, rowVars
<1>4. CASE \E p \in Procs :
             (\E st \in {"guard", "call"} : Arrive(p, st)) \/ Deadline(p) \/ Crash(p)
  BY <1>4 DEF Arrive, Deadline, Crash, rowVars
<1>5. CASE LeaseExpires \/ Tick \/ LogoutFails
             \/ \E g \in erpAccess \cup cached : CacheEnds(g) \/ AccessLapses(g)
  BY <1>5 DEF LeaseExpires, Tick, LogoutFails, CacheEnds, AccessLapses, rowVars
<1>6. CASE SignOutStep \/ HookStep
  BY <1>6 DEF SignOutStep, SignOutLoads, SignOutTellsErp, SignOutEnds,
     SignOutCommits,
     HookStep, HookEnds, HookMarks, HookCommits, rowVars
<1>7. QED
  BY <1>2, <1>3, <1>4, <1>5, <1>6 DEF Next, vars

\* As long as the lock outlives its holder, a refresh never puts an older
\* access token over a newer one (token_store.py, replace_tokens).
THEOREM TokensOnlyForward ==
  ASSUME LockOutlivesHolder
  PROVE  Spec => TokensMoveForward
<1>1. RefreshInv /\ [Next]_vars =>
        [access' # access => access' > access \/ (access' = 0 /\ revoked')]_vars
  BY TokenStep DEF vars
<1>2. QED
  BY <1>1, RefreshCorrect, PTL DEF Spec, TokensMoveForward

-----------------------------------------------------------------------------
(* The stored refresh token.                                                *)

\* Nobody ends the session, and nothing was lost: what StoredTokenWorks presumes.
Calm ==
  /\ live /\ signOut = "no" /\ faults = 0
  /\ \A p \in Procs : pc[p] \notin {"marking", "ending"}

\* The refresh token of a pair in hand is one that ERPNext accepts, and the stored
\* one works or is about to be replaced.
TokensFit ==
  /\ \A p \in Procs : InHand(p) /\ got[p].refresh # 0 => got[p].refresh \in erpRefresh
  /\ \/ erpRefresh = {}
     \/ refresh \in erpRefresh
     \/ \E p \in Procs : InHand(p) /\ got[p].refresh \in erpRefresh

\* A logout that is past its deletion has left no session, so that calm never returns.
EndedInv ==
  /\ 0 \notin erpRefresh
  /\ signOut = "ended" => ~live
  /\ hook # "no" => ~live

TokenInv == EndedInv /\ (Calm => TokensFit)

\* The initial state satisfies it.
LEMMA TokenInit == Init => TokenInv
BY DEF Init, TokenInv, EndedInv, Calm, TokensFit, InHand

\* A fault ends the calm.
LEMMA FaultIsLoud == ASSUME TypeOK, Fault PROVE ~Calm'
BY ConstantsAssumption DEF TypeOK, Fault, Calm

\* Every step keeps EndedInv.
LEMMA EndedKept ==
  ASSUME RefreshInv, EndedInv, [Next]_vars
  PROVE  EndedInv'
<1> USE DEF EndedInv
<1>1. TypeOK
  BY DEF RefreshInv
<1>2. ASSUME NEW p \in Procs, NEW rotate \in BOOLEAN, Grant(rotate)
      PROVE  0 \notin erpRefresh'
  BY <1>1, <1>2 DEF Grant, TypeOK
<1>3. CASE \E p \in Procs : RequestStep(p)
  BY <1>3 DEF RequestStep, CheckMark, Load, Introspect, RevokeBinding, MarkBinding,
     EndSession, Use, erpVars, sessionVars, logoutVars
<1>4. CASE \E p \in Procs : RefreshStep(p)
  <2>1. PICK p \in Procs : RefreshStep(p)
    BY <1>4
  <2>2. live' = live /\ signOut' = signOut /\ hook' = hook
    BY <2>1 DEF RefreshStep, Acquire, Poll, Recheck, Refresh, RefreshLost,
       SelectForReplace, CommitTokens, CommitFails, Reload, Release, ReleaseFails,
       sessionVars, logoutVars
  <2>3. 0 \notin erpRefresh'
    BY <1>2, <2>1 DEF RefreshStep, Acquire, Poll, Recheck, Refresh, RefreshLost,
       SelectForReplace, CommitTokens, CommitFails, Reload, Release, ReleaseFails, erpVars
  <2>4. QED
    BY <2>2, <2>3
<1>5. CASE \E p \in Procs :
             (\E st \in {"guard", "call"} : Arrive(p, st)) \/ Deadline(p) \/ Crash(p)
  BY <1>5 DEF Arrive, Deadline, Crash, erpVars, sessionVars, logoutVars
<1>6. CASE LeaseExpires \/ Tick
             \/ \E g \in erpAccess \cup cached : CacheEnds(g) \/ AccessLapses(g)
  BY <1>6 DEF LeaseExpires, Tick, CacheEnds, AccessLapses, erpVars, sessionVars,
     logoutVars
<1>7. CASE SignOutStep \/ HookStep \/ LogoutFails
  BY <1>7 DEF SignOutStep, SignOutLoads, SignOutTellsErp, SignOutEnds, SignOutCommits,
     HookStep, HookEnds, HookMarks, HookCommits, LogoutFails, erpVars, sessionVars
<1>8. CASE UNCHANGED vars
  BY <1>8 DEF vars
<1>9. QED
  BY <1>3, <1>4, <1>5, <1>6, <1>7, <1>8 DEF Next

\* A step that touches neither the stored refresh token, nor ERPNext's, nor a pair in
\* hand.
Aside ==
  /\ refresh' = refresh /\ erpRefresh' = erpRefresh
  /\ \A q \in Procs : (InHand(q)' <=> InHand(q)) /\ (InHand(q) => got'[q] = got[q])

LEMMA AsideKeeps == ASSUME TokensFit, Aside PROVE TokensFit'
BY DEF TokensFit, Aside, InHand

\* A request that leaves from outside its pair's life is such a step.
LEMMA LeaveAside ==
  ASSUME TypeOK, NEW p \in Procs, Leave(p), ~InHand(p),
         refresh' = refresh, erpRefresh' = erpRefresh
  PROVE  Aside
BY DEF TypeOK, Leave, Goto, Aside, InHand

\* The guard's and the handler's steps touch none of them while it stays calm.
LEMMA RequestAside ==
  ASSUME TypeOK, NEW p \in Procs, RequestStep(p), Calm'
  PROVE  Aside /\ Calm
<1>1. ~InHand(p) /\ erpRefresh' = erpRefresh
  BY DEF RequestStep, CheckMark, Load, Introspect, RevokeBinding, MarkBinding,
     EndSession, Use, InHand, erpVars
<1>2. ~RevokeBinding(p) /\ ~MarkBinding(p) /\ ~EndSession(p)
  BY DEF TypeOK, RevokeBinding, MarkBinding, EndSession, Goto, Calm
<1>3. refresh' = refresh /\ signOut' = signOut /\ faults' = faults
  BY <1>2 DEF RequestStep, CheckMark, Load, Introspect, Use, rowVars, logoutVars
<1>4. pc[p] \in {"checking", "loading", "introspecting", "using"} /\ (live' => live)
  BY <1>2 DEF RequestStep, CheckMark, Load, Introspect, Use, sessionVars
<1>5. \A q \in Procs \ {p} : pc'[q] = pc[q] /\ got'[q] = got[q]
  BY <1>2 DEF TypeOK, RequestStep, CheckMark, Load, Introspect, Use, Leave, Goto, localVars
<1>6. ~InHand(p)'
  BY <1>2 DEF TypeOK, RequestStep, CheckMark, Load, Introspect, Use, Leave, Goto, InHand,
     Ready
<1>7. QED
  BY <1>1, <1>3, <1>4, <1>5, <1>6 DEF Aside, Calm, InHand

\* Of the steps of a refresh only the grant and the commit touch them.
LEMMA RefreshAside ==
  ASSUME TypeOK, NEW p \in Procs, RefreshStep(p), Calm', ~Refresh(p), ~CommitTokens(p)
  PROVE  Aside /\ Calm
<1>1. ~RefreshLost(p) /\ ~CommitFails(p) /\ ~ReleaseFails(p)
  BY FaultIsLoud DEF RefreshLost, CommitFails, ReleaseFails
<1>2. Acquire(p) \/ Poll(p) \/ Recheck(p) \/ SelectForReplace(p) \/ Reload(p) \/ Release(p)
  BY <1>1 DEF RefreshStep
<1>3. /\ refresh' = refresh /\ erpRefresh' = erpRefresh
      /\ live' = live /\ signOut' = signOut /\ faults' = faults
  BY <1>2 DEF Acquire, Poll, Recheck, SelectForReplace, Reload, Release, rowVars, erpVars,
     sessionVars, logoutVars
<1>4. \A q \in Procs \ {p} : pc'[q] = pc[q] /\ got'[q] = got[q]
  BY <1>2 DEF TypeOK, Acquire, Poll, Recheck, SelectForReplace, Reload, Release, Finish,
     Leave, Goto, stateVars, localVars
<1>5. /\ InHand(p)' <=> InHand(p)
      /\ InHand(p) => got'[p] = got[p]
      /\ pc[p] \notin {"marking", "ending"}
  BY <1>2 DEF TypeOK, Acquire, Poll, Recheck, SelectForReplace, Reload, Release, Finish,
     Leave, Goto, InHand, Ready
<1>6. QED
  BY <1>3, <1>4, <1>5 DEF Aside, Calm, InHand

\* ERPNext's clock, the TTLs, arrivals and logouts touch none of them either.
LEMMA WorldAside ==
  ASSUME TypeOK, EndedInv, Calm',
         \/ \E p \in Procs :
              (\E st \in {"guard", "call"} : Arrive(p, st)) \/ Deadline(p) \/ Crash(p)
         \/ LeaseExpires \/ Tick
         \/ \E g \in erpAccess \cup cached : CacheEnds(g) \/ AccessLapses(g)
         \/ SignOutStep \/ HookStep \/ LogoutFails
         \/ UNCHANGED vars
  PROVE  Aside /\ Calm
<1>1. CASE \E p \in Procs :
             (\E st \in {"guard", "call"} : Arrive(p, st)) \/ Deadline(p)
  BY <1>1 DEF TypeOK, Arrive, Deadline, Goto, Aside, Calm, InHand, rowVars, erpVars,
     sessionVars, logoutVars
<1>2. CASE LeaseExpires \/ Tick \/ UNCHANGED vars
             \/ \E g \in erpAccess \cup cached : CacheEnds(g) \/ AccessLapses(g)
  BY <1>2 DEF LeaseExpires, Tick, CacheEnds, AccessLapses, vars, Aside, Calm, InHand,
     rowVars, erpVars, sessionVars, localVars, logoutVars
<1>3. CASE SignOutStep
  <2>1. ~SignOutLoads /\ ~SignOutTellsErp /\ ~SignOutEnds
    BY DEF SignOutLoads, SignOutTellsErp, SignOutEnds, Calm
  <2>2. ~SignOutCommits
    BY DEF SignOutCommits, EndedInv, Calm, sessionVars
  <2>3. QED
    BY <1>3, <2>1, <2>2 DEF SignOutStep
<1>4. CASE HookStep
  <2>1. ~HookEnds
    BY DEF HookEnds, Calm
  <2>2. ~HookMarks /\ ~HookCommits
    BY DEF HookMarks, HookCommits, EndedInv, Calm, sessionVars
  <2>3. QED
    BY <1>4, <2>1, <2>2 DEF HookStep
<1>5. ~LogoutFails /\ \A p \in Procs : ~Crash(p)
  BY FaultIsLoud DEF LogoutFails, Crash
<1>6. QED
  BY <1>1, <1>2, <1>3, <1>4, <1>5

\* A granted pair is one that ERPNext accepts; the stored token may go, but then the
\* request has its successor in hand.
LEMMA GrantKeeps ==
  ASSUME LockOutlivesHolder, RefreshInv, RefreshInv', EndedInv, Calm => TokensFit, Calm',
         NEW p \in Procs, Refresh(p)
  PROVE  TokensFit'
<1>1. TypeOK
  BY DEF RefreshInv
<1>2. refresh' = refresh /\ \A q \in Procs \ {p} : pc'[q] = pc[q] /\ got'[q] = got[q]
  BY <1>1 DEF TypeOK, Refresh, Finish, Goto, rowVars
<1>3. Calm /\ pc[p] = "refreshing"
  BY <1>2 DEF Refresh, Calm, sessionVars, logoutVars
<1>4. \A q \in Procs : ~InHand(q)
  BY <1>3 DEF RefreshInv, RequestInv, HoldsLock, InHand, Holding, Critical
<1>5. CASE mine[p].refresh \notin erpRefresh
  BY <1>1, <1>2, <1>3, <1>4, <1>5, AsideKeeps
     DEF Refresh, Finish, Goto, TypeOK, Aside, InHand, erpVars
<1>6. CASE mine[p].refresh \in erpRefresh
  <2>1. PICK rotate \in BOOLEAN :
          /\ Grant(rotate)
          /\ got'[p] = [access |-> issued + 1, refresh |-> IF rotate THEN issued + 1 ELSE 0]
          /\ pc'[p] = "replacing"
    BY <1>1, <1>6 DEF Refresh, Goto, TypeOK
  <2>2. \A q \in Procs \ {p} : ~InHand(q)'
    BY <1>2, <1>4 DEF InHand
  <2>3. CASE rotate
    BY <2>1, <2>2, <2>3 DEF Grant, TokensFit, InHand
  <2>4. CASE ~rotate
    BY <1>2, <1>3, <1>4, <2>1, <2>2, <2>4 DEF Grant, TokensFit, InHand
  <2>5. QED
    BY <2>3, <2>4
<1>7. QED
  BY <1>5, <1>6

\* The commit stores the successor it has in hand, or keeps the token that ERPNext kept.
LEMMA CommitKeeps ==
  ASSUME LockOutlivesHolder, RefreshInv, EndedInv, Calm => TokensFit, Calm',
         NEW p \in Procs, CommitTokens(p)
  PROVE  TokensFit'
<1>1. TypeOK
  BY DEF RefreshInv
<1>2. /\ erpRefresh' = erpRefresh /\ got' = got /\ pc[p] = "committing"
      /\ pc'[p] = "reloading" /\ \A q \in Procs \ {p} : pc'[q] = pc[q]
      /\ refresh' = IF got[p].refresh = 0 THEN refresh ELSE got[p].refresh
  BY <1>1 DEF TypeOK, CommitTokens, Goto, erpVars, localVars
<1>3. Calm
  BY <1>2 DEF CommitTokens, Calm, sessionVars, logoutVars
<1>4. \A q \in Procs \ {p} : ~InHand(q) /\ ~InHand(q)'
  BY <1>2 DEF RefreshInv, RequestInv, HoldsLock, InHand, Holding, Critical
<1>5. CASE got[p].refresh = 0
  BY <1>2, <1>3, <1>4, <1>5 DEF EndedInv, TokensFit, InHand
<1>6. CASE got[p].refresh # 0
  BY <1>2, <1>3, <1>4, <1>6 DEF TokensFit, InHand
<1>7. QED
  BY <1>5, <1>6

\* Every step keeps the invariant.
LEMMA TokenKept ==
  ASSUME LockOutlivesHolder, RefreshInv, RefreshInv', TokenInv, [Next]_vars
  PROVE  TokenInv'
<1>1. TypeOK /\ EndedInv /\ (Calm => TokensFit)
  BY DEF RefreshInv, TokenInv
<1>2. EndedInv'
  BY <1>1, EndedKept
<1>3. ASSUME Calm' PROVE TokensFit'
  <2>1. CASE \E p \in Procs : RequestStep(p)
    BY <1>1, <1>3, <2>1, RequestAside, AsideKeeps
  <2>2. CASE \E p \in Procs : RefreshStep(p)
    <3>1. PICK p \in Procs : RefreshStep(p)
      BY <2>2
    <3>2. CASE Refresh(p)
      BY <1>1, <1>3, <3>2, GrantKeeps
    <3>3. CASE CommitTokens(p)
      BY <1>1, <1>3, <3>3, CommitKeeps
    <3>4. CASE ~Refresh(p) /\ ~CommitTokens(p)
      BY <1>1, <1>3, <3>1, <3>4, RefreshAside, AsideKeeps
    <3>5. QED
      BY <3>2, <3>3, <3>4
  <2>3. CASE ~(\E p \in Procs : RequestStep(p) \/ RefreshStep(p))
    BY <1>1, <1>3, <2>3, WorldAside, AsideKeeps DEF Next
  <2>4. QED
    BY <2>1, <2>2, <2>3
<1>4. QED
  BY <1>2, <1>3 DEF TokenInv

\* As long as the lock outlives its holder, concurrent requests never cost the user the
\* authorization: while the session lives and nothing is lost, the stored refresh token
\* works, or its successor is about to be stored (token_store.py, replace_tokens).
THEOREM StoredTokenKeepsWorking ==
  ASSUME LockOutlivesHolder
  PROVE  Spec => []StoredTokenWorks
<1>1. TokenInv => StoredTokenWorks
  BY DEF TokenInv, TokensFit, InHand, Calm, StoredTokenWorks
<1>2. RefreshInv /\ RefreshInv' /\ TokenInv /\ [Next]_vars => TokenInv'
  BY TokenKept
<1>3. QED
  BY <1>1, <1>2, TokenInit, RefreshCorrect, PTL DEF Spec

=============================================================================
