------------------------ MODULE BrowserBindingProofs ------------------------
(***************************************************************************)
(* Theorems about BrowserBinding: its types, that whoever is logged out    *)
(* stays out, and, for an ERPNext that does not repeat an event while the  *)
(* agent holds it reserved, that an accepted logout has landed.            *)
(***************************************************************************)
EXTENDS BrowserBinding, TLAPS

-----------------------------------------------------------------------------
(* One actor moves.                                                         *)

\* An actor's step leaves the others where they are.
LEMMA BecomesAt ==
  ASSUME at \in [Actors -> States], NEW a \in Actors, NEW s, Becomes(a, s)
  PROVE  at'[a] = s /\ \A b \in Actors : b # a => at'[b] = at[b]
BY DEF Becomes

\* Goto changes the place and nothing else.
LEMMA GotoAt ==
  ASSUME at \in [Actors -> States], NEW a \in Actors, NEW to, Goto(a, to)
  PROVE  /\ at'[a].pc = to
         /\ at'[a].found = at[a].found /\ at'[a].listed = at[a].listed
         /\ at'[a].late = at[a].late /\ at'[a].why = at[a].why
         /\ \A b \in Actors : b # a => at'[b] = at[b]
<1>1. at[a] \in States
  OBVIOUS
<1>2. at' = [at EXCEPT ![a] = [at[a] EXCEPT !.pc = to]]
  BY DEF Goto, Becomes
<1>3. at'[a] = [at[a] EXCEPT !.pc = to]
  BY <1>2
<1>4. QED
  BY <1>1, <1>2, <1>3 DEF States

\* Deny sends a request to end its session.
LEMMA DenyAt ==
  ASSUME at \in [Actors -> States], NEW a \in Actors, Deny(a)
  PROVE  /\ at'[a].pc = "collecting" /\ at'[a].why = "denied"
         /\ at'[a].found = at[a].found /\ at'[a].listed = at[a].listed
         /\ at'[a].late = at[a].late
         /\ \A b \in Actors : b # a => at'[b] = at[b]
<1>1. at[a] \in States
  OBVIOUS
<1>2. at' = [at EXCEPT ![a] = [at[a] EXCEPT !.pc = "collecting", !.why = "denied"]]
  BY DEF Deny, Becomes
<1>3. at'[a] = [at[a] EXCEPT !.pc = "collecting", !.why = "denied"]
  BY <1>2
<1>4. QED
  BY <1>1, <1>2, <1>3 DEF States

\* Whoever ends is idle.
LEMMA EndAt ==
  ASSUME at \in [Actors -> States], NEW a \in Actors, End(a)
  PROVE  at'[a] = Idle /\ \A b \in Actors : b # a => at'[b] = at[b]
BY BecomesAt DEF End

\* The moves keep the type of the actors.
LEMMA MovesTyped ==
  ASSUME at \in [Actors -> States], NEW a \in Actors
  PROVE  /\ End(a) => at' \in [Actors -> States]
         /\ Deny(a) => at' \in [Actors -> States]
         /\ \A to \in PCs : Goto(a, to) => at' \in [Actors -> States]
         /\ \A s \in States : Becomes(a, s) => at' \in [Actors -> States]
<1>1. \A s \in States : Becomes(a, s) => at' \in [Actors -> States]
  BY DEF Becomes
<1>2. Idle \in States
  BY DEF Idle, States, PCs
<1>3. at[a] \in States
  OBVIOUS
<1>4. [at[a] EXCEPT !.pc = "collecting", !.why = "denied"] \in States
  BY <1>3 DEF States, PCs
<1>5. \A to \in PCs : [at[a] EXCEPT !.pc = to] \in States
  BY <1>3 DEF States
<1>6. QED
  BY <1>1, <1>2, <1>4, <1>5 DEF End, Deny, Goto

-----------------------------------------------------------------------------
(* Types.                                                                   *)

LEMMA InitTyped == Init => TypeOK
<1>1. Idle \in States
  BY DEF Idle, States, PCs
<1>2. [a \in Actors |-> Idle] \in [Actors -> States]
  BY <1>1
<1>3. Init => faults \in 0..MaxFaults /\ logins \in Nat
  BY BrowserBindingAssumption DEF Init
<1>4. QED
  BY <1>2, <1>3, Zenon DEF Init, TypeOK

\* The steps of a callback.
LEMMA CallbackTyped ==
  ASSUME TypeOK, NEW c \in Callbacks, CallbackNext(c)
  PROVE  TypeOK'
<1> c \in Actors
  BY DEF Actors
<1> USE MovesTyped DEF redis, ghosts
<1>1. CASE Consume(c)
  BY <1>1 DEF Consume, TypeOK, PCs
<1>2. CASE ExchangeCode(c)
  BY <1>2 DEF ExchangeCode, TypeOK, PCs
<1>3. CASE Identify(c)
  BY <1>3 DEF Identify, TypeOK, PCs
<1>4. CASE Confirm(c)
  BY <1>4 DEF Confirm, TypeOK, PCs
<1>5. CASE ReturnToken(c)
  BY <1>5 DEF ReturnToken, Revoked, TypeOK, PCs
<1>6. CASE CreateCredential(c)
  BY <1>6 DEF CreateCredential, TypeOK, PCs
<1>7. CASE CreateSession(c)
  <2>1. session' \in BOOLEAN /\ index' \in BOOLEAN /\ trailing' \in BOOLEAN
    BY <1>7 DEF CreateSession
  <2>2. QED
    BY <1>7, <2>1 DEF CreateSession, TypeOK
<1>8. CASE LoginFails(c)
  BY <1>8, BrowserBindingAssumption DEF LoginFails, TypeOK
<1>9. QED
  BY <1>1, <1>2, <1>3, <1>4, <1>5, <1>6, <1>7, <1>8 DEF CallbackNext

\* The steps that end a session, a request's or a delivery's.
LEMMA EndingTyped ==
  ASSUME TypeOK, NEW a \in Actors, Collect(a) \/ Drop(a) \/ Mark(a) \/ Commit(a)
  PROVE  TypeOK'
<1> USE MovesTyped DEF redis, ghosts
<1>1. CASE Collect(a)
  <2>1. at[a] \in States /\ index \in BOOLEAN
    BY DEF TypeOK
  <2>2. [at[a] EXCEPT !.pc = "dropping", !.listed = index] \in States
    BY <2>1 DEF States, PCs
  <2>3. QED
    BY <1>1, <2>2 DEF Collect, TypeOK
<1>2. CASE Drop(a)
  <2>1. session' \in BOOLEAN /\ index' \in BOOLEAN /\ trailing' \in BOOLEAN
    BY <1>2 DEF Drop
  <2>2. at' \in [Actors -> States]
    BY <1>2 DEF Drop, TypeOK, PCs
  <2>3. UNCHANGED <<oauthState, token, erp, credential, marker, cached, replay, outbox,
                    ghosts, faults>>
    BY <1>2 DEF Drop
  <2>4. QED
    BY <2>1, <2>2, <2>3 DEF TypeOK
<1>3. CASE Mark(a)
  BY <1>3 DEF Mark, TypeOK, PCs
<1>4. CASE Commit(a)
  <2>1. at' \in [Actors -> States]
    BY <1>4 DEF Commit, TypeOK, PCs
  <2>2. credential' \in {"none", "active", "revoked"}
    BY <1>4 DEF Commit, TypeOK
  <2>3. landed' \in BOOLEAN /\ left' \in BOOLEAN
    BY <1>4 DEF Commit, TypeOK
  <2>4. QED
    BY <1>4, <2>1, <2>2, <2>3 DEF Commit, TypeOK
<1>5. QED
  BY <1>1, <1>2, <1>3, <1>4

\* The steps of a request.
LEMMA RequestTyped ==
  ASSUME TypeOK, NEW r \in Requests, RequestNext(r)
  PROVE  TypeOK'
<1> r \in Actors
  BY DEF Actors
<1> USE MovesTyped DEF redis, ghosts
<1>1. CASE Enter(r)
  <2>1. (landed \/ left) \in BOOLEAN
    OBVIOUS
  <2>2. [Idle EXCEPT !.pc = "touching", !.late = landed \/ left] \in States
    BY <2>1 DEF Idle, States, PCs
  <2>3. QED
    BY <1>1, <2>2 DEF Enter, TypeOK
<1>2. CASE Touch(r) \/ CheckMarker(r)
  BY <1>2 DEF Touch, CheckMarker, TypeOK, PCs
<1>3. CASE Load(r)
  BY <1>3 DEF Load, TypeOK, PCs
<1>4. CASE Introspect(r)
  <2>1. PICK i \in Introspections :
          /\ cached' = (cached \/ i = "active")
          /\ faults' = IF i = "unavailable" THEN faults + 1 ELSE faults
          /\ CASE i = "active" -> Goto(r, "acting")
               [] i = "inactive" -> Goto(r, "revoking")
               [] i = "unavailable" -> End(r)
    BY <1>4 DEF Introspect
  <2>2. cached' \in BOOLEAN
    BY <2>1
  <2>3. i \in {"active", "inactive", "unavailable"}
        /\ (i = "unavailable" => faults < MaxFaults)
    BY DEF Introspections
  <2>4. faults' \in 0..MaxFaults
    BY <2>1, <2>3, BrowserBindingAssumption DEF TypeOK
  <2>5. at' \in [Actors -> States]
    BY <2>1, <2>3 DEF TypeOK, PCs
  <2>6. QED
    BY <1>4, <2>2, <2>4, <2>5 DEF Introspect, TypeOK
<1>5. CASE RevokeDenied(r)
  BY <1>5 DEF RevokeDenied, TypeOK, PCs
<1>6. CASE Act(r)
  BY <1>6 DEF Act, TypeOK
<1>7. CASE Leave(r)
  <2>1. at[r] \in States
    BY DEF TypeOK
  <2>2. [at[r] EXCEPT !.pc = "collecting", !.why = "logout", !.found = TRUE] \in States
    BY <2>1 DEF States, PCs
  <2>3. QED
    BY <1>7, <2>2 DEF Leave, Revoked, TypeOK
<1>8. CASE RequestFails(r)
  BY <1>8, BrowserBindingAssumption DEF RequestFails, TypeOK
<1>9. CASE Collect(r) \/ Drop(r) \/ Mark(r) \/ Commit(r)
  BY <1>9, EndingTyped
<1>10. QED
  BY <1>1, <1>2, <1>3, <1>4, <1>5, <1>6, <1>7, <1>8, <1>9 DEF RequestNext

\* The steps of a delivery.
LEMMA DeliveryTyped ==
  ASSUME TypeOK, NEW d \in Deliveries, DeliveryNext(d)
  PROVE  TypeOK'
<1> d \in Actors
  BY DEF Actors
<1> USE MovesTyped DEF redis, ghosts
<1>1. CASE Reserve(d) \/ ReserveFails(d)
  BY <1>1, BrowserBindingAssumption DEF Reserve, ReserveFails, TypeOK, PCs
<1>2. CASE RevokeByBinding(d)
  <2>1. at[d] \in States /\ KnownBinding \in BOOLEAN
    BY DEF TypeOK, KnownBinding
  <2>2. [at[d] EXCEPT !.pc = "collecting", !.found = KnownBinding] \in States
    BY <2>1 DEF States, PCs
  <2>3. QED
    BY <1>2, <2>2 DEF RevokeByBinding, TypeOK
<1>3. CASE Collect(d) \/ Drop(d) \/ Mark(d) \/ Commit(d)
  BY <1>3, EndingTyped
<1>4. CASE Complete(d)
  BY <1>4, BrowserBindingAssumption DEF Complete, TypeOK
<1>5. CASE DeliveryFails(d)
  <2>1. replay' \in {"none", "processing", "completed"}
    BY <1>5 DEF DeliveryFails, TypeOK
  <2>2. QED
    BY <1>5, <2>1, BrowserBindingAssumption DEF DeliveryFails, TypeOK
<1>6. QED
  BY <1>1, <1>2, <1>3, <1>4, <1>5 DEF DeliveryNext, Deliver

\* Time, the user and ERPNext.
LEMMA WorldTyped ==
  ASSUME TypeOK,
         Login \/ Approve \/ StateExpires \/ ErpLogout \/ CacheExpires
           \/ SessionExpires \/ IndexExpires \/ ReplayExpires \/ UNCHANGED vars
  PROVE  TypeOK'
<1> USE DEF redis, ghosts
<1>1. CASE SessionExpires \/ IndexExpires \/ ReplayExpires
  <2>1. session' \in BOOLEAN /\ index' \in BOOLEAN /\ trailing' \in BOOLEAN
    BY <1>1 DEF SessionExpires, IndexExpires, ReplayExpires, TypeOK
  <2>2. replay' \in {"none", "processing", "completed"}
    BY <1>1 DEF SessionExpires, IndexExpires, ReplayExpires, TypeOK
  <2>3. UNCHANGED <<oauthState, token, erp, credential, marker, cached, outbox, at, ghosts,
                    faults>>
    BY <1>1 DEF SessionExpires, IndexExpires, ReplayExpires
  <2>4. QED
    BY <2>1, <2>2, <2>3 DEF TypeOK
<1>2. CASE Login \/ Approve \/ StateExpires \/ ErpLogout \/ CacheExpires
  <2>1. CASE Login \/ Approve \/ StateExpires
    BY <2>1 DEF TypeOK, Login, Approve, StateExpires
  <2>2. CASE ErpLogout
    BY <2>2 DEF TypeOK, ErpLogout
  <2>3. CASE CacheExpires
    <3>1. cached' \in BOOLEAN
      BY <2>3 DEF CacheExpires
    <3>2. UNCHANGED <<oauthState, token, erp, credential, session, index, trailing, marker,
                      replay, outbox, at, ghosts, faults>>
      BY <2>3 DEF CacheExpires
    <3>3. QED
      BY <3>1, <3>2 DEF TypeOK
  <2>4. QED
    BY <1>2, <2>1, <2>2, <2>3
<1>3. CASE UNCHANGED vars
  BY <1>3 DEF TypeOK, vars
<1>4. QED
  BY <1>1, <1>2, <1>3

\* Every variable keeps its type.
THEOREM BindingTypeCorrect == Spec => []TypeOK
<1>1. TypeOK /\ [Next]_vars => TypeOK'
  BY CallbackTyped, RequestTyped, DeliveryTyped, WorldTyped DEF Next
<1>2. QED
  BY InitTyped, <1>1, PTL DEF Spec

-----------------------------------------------------------------------------
(* A browser binding has one login, and it is over before there is a session. *)

\* How every actor's step moves it.
LEMMA Moves ==
  ASSUME TypeOK, NEW a \in Actors
  PROVE  /\ \A s : Becomes(a, s) => at'[a] = s
         /\ \A to : Goto(a, to) =>
              /\ at'[a].pc = to
              /\ at'[a].found = at[a].found /\ at'[a].listed = at[a].listed
              /\ at'[a].late = at[a].late /\ at'[a].why = at[a].why
         /\ Deny(a) =>
              /\ at'[a].pc = "collecting" /\ at'[a].why = "denied"
              /\ at'[a].found = at[a].found /\ at'[a].listed = at[a].listed
              /\ at'[a].late = at[a].late
         /\ End(a) =>
              /\ at'[a].pc = "idle" /\ at'[a].why = "none"
              /\ ~at'[a].found /\ ~at'[a].listed /\ ~at'[a].late
<1>1. at \in [Actors -> States]
  BY DEF TypeOK
<1>2. \A to : Goto(a, to) =>
              /\ at'[a].pc = to
              /\ at'[a].found = at[a].found /\ at'[a].listed = at[a].listed
              /\ at'[a].late = at[a].late /\ at'[a].why = at[a].why
  BY <1>1, GotoAt
<1>3. \A s : Becomes(a, s) => at'[a] = s
  BY <1>1, BecomesAt
<1>4. Deny(a) =>
              /\ at'[a].pc = "collecting" /\ at'[a].why = "denied"
              /\ at'[a].found = at[a].found /\ at'[a].listed = at[a].listed
              /\ at'[a].late = at[a].late
  BY <1>1, DenyAt
<1>5. End(a) => at'[a] = Idle
  BY <1>1, EndAt
<1>6. QED
  BY <1>2, <1>3, <1>4, <1>5 DEF Idle

\* An actor's step leaves the others where they are.
LEMMA OthersStay ==
  ASSUME TypeOK, NEW a \in Actors, NEW b \in Actors, b # a,
         CallbackNext(a) \/ RequestNext(a) \/ DeliveryNext(a)
  PROVE  at'[b] = at[b]
<1>1. UNCHANGED at \/ (\E s : Becomes(a, s))
  <2> USE DEF Goto, End, Deny
  <2>1. CASE CallbackNext(a)
    BY <2>1 DEF CallbackNext, Consume, ExchangeCode, Identify, Confirm, ReturnToken,
         CreateCredential, CreateSession, LoginFails
  <2>2. CASE Introspect(a)
    <3>1. PICK i \in Introspections :
            CASE i = "active" -> Goto(a, "acting")
              [] i = "inactive" -> Goto(a, "revoking")
              [] i = "unavailable" -> End(a)
      BY <2>2 DEF Introspect
    <3>2. i \in {"active", "inactive", "unavailable"}
      BY DEF Introspections
    <3>3. QED
      BY <3>1, <3>2
  <2>3. CASE Enter(a) \/ Touch(a) \/ CheckMarker(a) \/ Load(a) \/ RevokeDenied(a) \/ Act(a)
                \/ Leave(a) \/ RequestFails(a)
    BY <2>3, Zenon DEF Enter, Touch, CheckMarker, Load, RevokeDenied, Act, Leave,
       RequestFails
  <2>4. CASE Collect(a) \/ Drop(a) \/ Mark(a) \/ Commit(a)
    BY <2>4, Zenon DEF Collect, Drop, Mark, Commit
  <2>5. CASE Reserve(a) \/ ReserveFails(a) \/ RevokeByBinding(a) \/ Complete(a)
               \/ DeliveryFails(a)
    BY <2>5, Zenon DEF DeliveryFails, Reserve, ReserveFails, RevokeByBinding, Complete
  <2>6. QED
    BY <2>1, <2>2, <2>3, <2>4, <2>5 DEF RequestNext, DeliveryNext, Deliver
<1>2. QED
  BY <1>1, BecomesAt DEF TypeOK

\* What a request or a delivery does to the login: nothing.
LEMMA LoginUntouched ==
  ASSUME TypeOK, NEW a \in Requests \cup Deliveries, a \in Requests => RequestNext(a),
         a \in Deliveries => DeliveryNext(a)
  PROVE  /\ UNCHANGED oauthState /\ (session' => session)
         /\ \A c \in Callbacks : at'[c] = at[c]
<1> a \in Actors /\ Callbacks \subseteq Actors /\ a \notin Callbacks
  BY BrowserBindingAssumption DEF Actors
<1> USE DEF redis
<1>1. \A c \in Callbacks : at'[c] = at[c]
  BY OthersStay
<1>2. UNCHANGED oauthState
  <2>1. CASE a \in Requests
    BY <2>1 DEF RequestNext, Enter, Touch, CheckMarker, Load, Introspect, RevokeDenied,
       Act, Leave, Collect, Drop, Mark, Commit, RequestFails
  <2>2. CASE a \in Deliveries
    BY <2>2 DEF DeliveryNext, Deliver, DeliveryFails, ReserveFails, Sent, Reserve,
       RevokeByBinding, Collect, Drop, Mark, Commit, Complete
  <2>3. QED
    BY <2>1, <2>2
<1>3. session' => session
  <2>1. CASE Drop(a)
    BY <2>1 DEF Drop
  <2>2. CASE ~Drop(a) /\ a \in Requests
    BY <2>2 DEF RequestNext, Enter, Touch, CheckMarker, Load, Introspect, RevokeDenied,
       Act, Leave, Collect, Mark, Commit, RequestFails
  <2>3. CASE ~Drop(a) /\ a \in Deliveries
    BY <2>3 DEF DeliveryNext, Deliver, DeliveryFails, ReserveFails, Sent, Reserve,
       RevokeByBinding, Collect, Mark, Commit, Complete
  <2>4. QED
    BY <2>1, <2>2, <2>3
<1>4. QED
  BY <1>1, <1>2, <1>3

\* A login runs once, before there is a credential; a session has one, and so has
\* whoever works on it.
LoginInv ==
  /\ \A c \in Callbacks : ~At(c, "idle") => oauthState = "consumed"
  /\ \A c, e \in Callbacks : ~At(c, "idle") /\ ~At(e, "idle") => c = e
  /\ \A c \in Callbacks : At(c, "created") => credential # "none"
  /\ credential # "none" =>
       oauthState = "consumed" /\ \A c \in Callbacks : at[c].pc \in {"idle", "created"}
  /\ session \/ (\E r \in Requests : ~At(r, "idle")) =>
       credential # "none" /\ \A c \in Callbacks : At(c, "idle")
  /\ \A d \in Deliveries : at[d].found => credential # "none"

\* The credential never goes away, and a revoked one stays revoked.
LEMMA CredentialStays ==
  ASSUME TypeOK, LoginInv, [Next]_vars
  PROVE  /\ credential # "none" => credential' # "none"
         /\ credential = "revoked" => credential' = "revoked"
<1> USE DEF redis, ghosts
<1>1. CASE \E c \in Callbacks : CallbackNext(c)
  BY <1>1 DEF LoginInv, At, CallbackNext, Consume, ExchangeCode, Identify, Confirm,
     ReturnToken, CreateCredential, CreateSession, LoginFails
<1>2. CASE \E r \in Requests : RequestNext(r)
  BY <1>2 DEF RequestNext, Enter, Touch, CheckMarker, Load, Introspect, RevokeDenied, Act,
     Leave, Collect, Drop, Mark, Commit, RequestFails
<1>3. CASE \E d \in Deliveries : DeliveryNext(d)
  BY <1>3 DEF DeliveryNext, Deliver, DeliveryFails, ReserveFails, Sent, Reserve,
     RevokeByBinding, Collect, Drop, Mark, Commit, Complete
<1>4. CASE ~(\/ \E c \in Callbacks : CallbackNext(c)
             \/ \E r \in Requests : RequestNext(r)
             \/ \E d \in Deliveries : DeliveryNext(d))
  BY <1>4 DEF Next, vars, Login, Approve, StateExpires, ErpLogout, CacheExpires,
     SessionExpires, IndexExpires, ReplayExpires
<1>5. QED
  BY <1>1, <1>2, <1>3, <1>4

\* The world's steps leave the actors where they are.
World ==
  \/ Login \/ Approve \/ StateExpires \/ ErpLogout \/ CacheExpires
  \/ SessionExpires \/ IndexExpires \/ ReplayExpires \/ UNCHANGED vars

LEMMA LoginKept ==
  ASSUME TypeOK, LoginInv, [Next]_vars
  PROVE  LoginInv'
<1> Callbacks \subseteq Actors /\ Requests \subseteq Actors /\ Deliveries \subseteq Actors
    /\ Callbacks \cap Requests = {} /\ Callbacks \cap Deliveries = {}
    /\ Requests \cap Deliveries = {}
  BY BrowserBindingAssumption DEF Actors
<1> USE DEF At
<1>1. ASSUME NEW c \in Callbacks, CallbackNext(c) PROVE LoginInv'
  <2>1. \A b \in Actors : b # c => at'[b] = at[b]
    BY <1>1, OthersStay
  <2>2. c \notin Requests /\ c \notin Deliveries
    OBVIOUS
  <2>3. \A b \in Requests \cup Deliveries : at'[b] = at[b]
    BY <2>1, <2>2
  <2> USE Moves DEF redis, ghosts
  <2>4. CASE Consume(c)
    BY <2>1, <2>3, <2>4 DEF Consume, LoginInv
  <2>5. CASE ExchangeCode(c)
    <3>1. At(c, "exchanging") /\ at'[c].pc \in {"idle", "identifying"}
          /\ UNCHANGED <<oauthState, credential, session>>
      BY <2>5 DEF ExchangeCode
    <3>2. QED
      BY <2>1, <2>3, <3>1 DEF LoginInv
  <2>6. CASE Identify(c)
    <3>1. At(c, "identifying") /\ at'[c].pc \in {"confirming", "returning"}
          /\ UNCHANGED <<oauthState, credential, session>>
      BY <2>6 DEF Identify
    <3>2. QED
      BY <2>1, <2>3, <3>1 DEF LoginInv
  <2>7. CASE Confirm(c)
    <3>1. At(c, "confirming") /\ at'[c].pc \in {"creating", "returning"}
          /\ UNCHANGED <<oauthState, credential, session>>
      BY <2>7 DEF Confirm
    <3>2. QED
      BY <2>1, <2>3, <3>1 DEF LoginInv
  <2>8. CASE ReturnToken(c)
    <3>1. At(c, "returning") /\ at'[c].pc = "idle"
          /\ UNCHANGED <<oauthState, credential, session>>
      BY <2>8 DEF ReturnToken
    <3>2. QED
      BY <2>1, <2>3, <3>1 DEF LoginInv
  <2>9. CASE CreateCredential(c)
    <3>1. At(c, "creating") /\ at'[c].pc = "created" /\ credential' = "active"
          /\ UNCHANGED <<oauthState, session>>
      BY <2>9 DEF CreateCredential
    <3>2. QED
      BY <2>1, <2>3, <3>1 DEF LoginInv
  <2>10. CASE CreateSession(c)
    <3>1. At(c, "created") /\ at'[c].pc = "idle" /\ UNCHANGED <<oauthState, credential>>
      BY <2>10 DEF CreateSession
    <3>2. \A e \in Callbacks : at'[e].pc = "idle"
      BY <2>1, <3>1 DEF LoginInv
    <3>3. QED
      BY <2>3, <3>1, <3>2 DEF LoginInv
  <2>11. CASE LoginFails(c)
    <3>1. at'[c].pc = "idle" /\ UNCHANGED <<oauthState, credential, session>>
      BY <2>11 DEF LoginFails
    <3>2. QED
      BY <2>1, <2>3, <3>1 DEF LoginInv
  <2>12. QED
    BY <1>1, <2>4, <2>5, <2>6, <2>7, <2>8, <2>9, <2>10, <2>11 DEF CallbackNext
<1>2. ASSUME NEW r \in Requests, RequestNext(r) PROVE LoginInv'
  <2>1. UNCHANGED oauthState /\ (session' => session)
        /\ \A c \in Callbacks : at'[c] = at[c]
    BY <1>2, LoginUntouched
  <2>2. \A b \in Actors : b # r => at'[b] = at[b]
    BY <1>2, OthersStay
  <2>3. session \/ ~At(r, "idle")
    BY <1>2 DEF RequestNext, Enter, Touch, CheckMarker, Load, Introspect, RevokeDenied,
       Act, Leave, Collect, Drop, Mark, Commit, RequestFails
  <2>4. credential # "none" /\ credential' # "none" /\ \A c \in Callbacks : At(c, "idle")
    BY <2>3, CredentialStays DEF LoginInv
  <2>5. QED
    BY <2>1, <2>2, <2>4 DEF LoginInv
<1>3. ASSUME NEW d \in Deliveries, DeliveryNext(d) PROVE LoginInv'
  <2>1. UNCHANGED oauthState /\ (session' => session)
        /\ \A c \in Callbacks : at'[c] = at[c]
    BY <1>3, LoginUntouched
  <2>2. \A b \in Actors : b # d => at'[b] = at[b]
    BY <1>3, OthersStay
  <2>3. at'[d].found => credential # "none"
    <3>1. CASE RevokeByBinding(d)
      <4>1. at'[d] = [at[d] EXCEPT !.pc = "collecting", !.found = KnownBinding]
        BY <3>1, Moves DEF RevokeByBinding
      <4>2. at[d] \in States
        BY DEF TypeOK
      <4>3. QED
        BY <4>1, <4>2 DEF States, KnownBinding
    <3>2. CASE Collect(d)
      <4>1. at'[d] = [at[d] EXCEPT !.pc = "dropping", !.listed = index]
        BY <3>2, Moves DEF Collect
      <4>2. at[d] \in States
        BY DEF TypeOK
      <4>3. QED
        BY <4>1, <4>2 DEF States, LoginInv
    <3>3. CASE Reserve(d) \/ ReserveFails(d) \/ Drop(d) \/ Mark(d) \/ Commit(d)
               \/ Complete(d) \/ DeliveryFails(d)
      <4>1. at'[d].found => at[d].found
        BY <3>3, Moves DEF Reserve, ReserveFails, Drop, Mark, Commit, Complete,
           DeliveryFails
      <4>2. QED
        BY <4>1 DEF LoginInv
    <3>4. QED
      BY <1>3, <3>1, <3>2, <3>3 DEF DeliveryNext, Deliver
  <2>4. credential' # "none" => credential # "none"
    <3>1. CASE Commit(d)
      BY <3>1 DEF Commit, LoginInv
    <3>2. CASE ~Commit(d)
      BY <1>3, <3>2 DEF DeliveryNext, Deliver, DeliveryFails, ReserveFails, Sent, Reserve,
         RevokeByBinding, Collect, Drop, Mark, Complete
    <3>3. QED
      BY <3>1, <3>2
  <2>5. credential # "none" => credential' # "none"
    BY CredentialStays
  <2>6. QED
    BY <2>1, <2>2, <2>3, <2>4, <2>5 DEF LoginInv
<1>4. CASE World
  <2>1. UNCHANGED <<credential, at>> /\ (session' => session)
        /\ (oauthState = "consumed" => oauthState' = "consumed")
    BY <1>4 DEF World, vars, redis, Login, Approve, StateExpires, ErpLogout, CacheExpires,
       SessionExpires, IndexExpires, ReplayExpires
  <2>2. QED
    BY <2>1 DEF LoginInv
<1>5. QED
  BY <1>1, <1>2, <1>3, <1>4 DEF Next, World

\* The marker stays.
LEMMA MarkerStays ==
  ASSUME [Next]_vars
  PROVE  marker => marker'
<1> USE DEF redis, ghosts
<1>1. CASE \E c \in Callbacks : CallbackNext(c)
  BY <1>1 DEF CallbackNext, Consume, ExchangeCode, Identify, Confirm, ReturnToken,
     CreateCredential, CreateSession, LoginFails
<1>2. CASE \E r \in Requests : RequestNext(r)
  BY <1>2 DEF RequestNext, Enter, Touch, CheckMarker, Load, Introspect, RevokeDenied, Act,
     Leave, Collect, Drop, Mark, Commit, RequestFails
<1>3. CASE \E d \in Deliveries : DeliveryNext(d)
  BY <1>3 DEF DeliveryNext, Deliver, DeliveryFails, ReserveFails, Sent, Reserve,
     RevokeByBinding, Collect, Drop, Mark, Commit, Complete
<1>4. CASE World
  BY <1>4 DEF World, vars, Login, Approve, StateExpires, ErpLogout, CacheExpires,
     SessionExpires, IndexExpires, ReplayExpires
<1>5. QED
  BY <1>1, <1>2, <1>3, <1>4 DEF Next, World

-----------------------------------------------------------------------------
(* Whoever is logged out stays out.                                         *)

\* A user's logout that comes to its commit has seen the credential, a delivery's has
\* set the marker, and one of the two denies each request that begins afterwards.
LogoutInv ==
  /\ \A r \in Requests : at[r].why = "logout" => at[r].found
  /\ \A r \in Requests : At(r, "committing") => at[r].why = "logout"
  /\ \A d \in Deliveries : at[d].pc \in {"committing", "completing"} => marker
  /\ landed => marker
  /\ left => credential = "revoked"
  /\ \A r \in Requests : at[r].late => landed \/ left
  /\ \A r \in Requests : at[r].late /\ At(r, "loading") => credential = "revoked"
  /\ LoggedOutIsOut

LEMMA LogoutKept ==
  ASSUME TypeOK, LoginInv, LogoutInv, [Next]_vars
  PROVE  LogoutInv'
<1> Callbacks \subseteq Actors /\ Requests \subseteq Actors /\ Deliveries \subseteq Actors
    /\ Callbacks \cap Requests = {} /\ Callbacks \cap Deliveries = {}
    /\ Requests \cap Deliveries = {}
  BY BrowserBindingAssumption DEF Actors
<1> marker => marker'
  BY MarkerStays
<1> credential = "revoked" => credential' = "revoked"
  BY CredentialStays
<1> USE DEF At, LoggedOutIsOut
<1>1. ASSUME NEW c \in Callbacks, CallbackNext(c) PROVE LogoutInv'
  <2>1. \A b \in Requests \cup Deliveries : at'[b] = at[b]
    BY <1>1, OthersStay
  <2>2. UNCHANGED <<landed, left>>
    BY <1>1 DEF CallbackNext, Consume, ExchangeCode, Identify, Confirm, ReturnToken,
       CreateCredential, CreateSession, LoginFails, ghosts
  <2>3. QED
    BY <2>1, <2>2 DEF LogoutInv
<1>2. ASSUME NEW r \in Requests, RequestNext(r) PROVE LogoutInv'
  <2>1. \A b \in Actors : b # r => at'[b] = at[b]
    BY <1>2, OthersStay
  <2>2. at[r] \in States
    BY DEF TypeOK
  <2> USE Moves DEF redis, ghosts
  <2>3. CASE Enter(r)
    <3>1. at'[r] = [Idle EXCEPT !.pc = "touching", !.late = landed \/ left]
      BY <2>3 DEF Enter
    <3>2. /\ at'[r].pc = "touching" /\ at'[r].why = "none"
          /\ at'[r].late => landed \/ left
      BY <3>1 DEF Idle
    <3>3. UNCHANGED <<landed, left>>
      BY <2>3 DEF Enter
    <3>4. QED
      BY <2>1, <3>2, <3>3 DEF LogoutInv
  <2>4. CASE Touch(r) \/ CheckMarker(r)
    <3>1. /\ at'[r].found = at[r].found /\ at'[r].late = at[r].late
          /\ \/ at'[r].pc = "collecting" /\ at'[r].why = "denied"
             \/ at'[r].pc = "checking" /\ at'[r].why = at[r].why
             \/ ~marker /\ at'[r].pc = "loading" /\ at'[r].why = at[r].why
          /\ UNCHANGED <<landed, left>>
      BY <2>4 DEF Touch, CheckMarker
    <3>2. QED
      BY <2>1, <3>1 DEF LogoutInv
  <2>5. CASE Load(r)
    <3>1. /\ at'[r].found = at[r].found /\ at'[r].late = at[r].late /\ At(r, "loading")
          /\ \/ at'[r].pc = "collecting" /\ at'[r].why = "denied"
             \/ /\ credential = "active" /\ at'[r].pc \in {"acting", "introspecting"}
                /\ at'[r].why = at[r].why
          /\ UNCHANGED <<landed, left>>
      BY <2>5 DEF Load
    <3>2. QED
      BY <2>1, <3>1 DEF LogoutInv
  <2>6. CASE Introspect(r)
    <3>1. PICK i \in Introspections :
            CASE i = "active" -> Goto(r, "acting")
              [] i = "inactive" -> Goto(r, "revoking")
              [] i = "unavailable" -> End(r)
      BY <2>6 DEF Introspect
    <3>2. i \in {"active", "inactive", "unavailable"}
      BY DEF Introspections
    <3>3. Goto(r, "acting") \/ Goto(r, "revoking") \/ End(r)
      BY <3>1, <3>2
    <3>4. At(r, "introspecting") /\ UNCHANGED <<landed, left>>
      BY <2>6 DEF Introspect
    <3>5. /\ at'[r].pc \in {"idle", "acting", "revoking"}
          /\ at'[r].late => at[r].late
          /\ at'[r].why = "logout" => at[r].why = "logout" /\ at'[r].found = at[r].found
      BY <3>3
    <3>6. QED
      BY <2>1, <3>4, <3>5 DEF LogoutInv
  <2>7. CASE RevokeDenied(r) \/ Mark(r)
    <3>1. /\ at'[r].found = at[r].found /\ at'[r].late = at[r].late
          /\ \/ at'[r].pc = "collecting" /\ at'[r].why = "denied"
             \/ at'[r].pc = "marking" /\ at'[r].why = at[r].why
          /\ UNCHANGED <<landed, left>>
      BY <2>7 DEF RevokeDenied, Mark
    <3>2. QED
      BY <2>1, <3>1 DEF LogoutInv
  <2>8. CASE Act(r) \/ RequestFails(r)
    <3>1. /\ at'[r].pc = "idle" /\ at'[r].why = "none" /\ ~at'[r].late
          /\ UNCHANGED <<landed, left>>
      BY <2>8 DEF Act, RequestFails
    <3>2. QED
      BY <2>1, <3>1 DEF LogoutInv
  <2>9. CASE Leave(r)
    <3>1. at'[r] = [at[r] EXCEPT !.pc = "collecting", !.why = "logout", !.found = TRUE]
      BY <2>9 DEF Leave
    <3>2. at'[r].pc = "collecting" /\ at'[r].found /\ at'[r].late = at[r].late
      BY <2>2, <3>1 DEF States
    <3>3. UNCHANGED <<landed, left>>
      BY <2>9 DEF Leave
    <3>4. QED
      BY <2>1, <3>2, <3>3 DEF LogoutInv
  <2>10. CASE Collect(r)
    <3>1. at'[r] = [at[r] EXCEPT !.pc = "dropping", !.listed = index]
      BY <2>10 DEF Collect
    <3>2. /\ at'[r].pc = "dropping" /\ at'[r].found = at[r].found
          /\ at'[r].late = at[r].late /\ at'[r].why = at[r].why
      BY <2>2, <3>1 DEF States
    <3>3. UNCHANGED <<landed, left>>
      BY <2>10 DEF Collect
    <3>4. QED
      BY <2>1, <3>2, <3>3 DEF LogoutInv
  <2>11. CASE Drop(r)
    <3>1. /\ \/ /\ at'[r].pc = "committing" /\ at[r].why = "logout"
                /\ at'[r].why = at[r].why
                /\ at'[r].found = at[r].found /\ at'[r].late = at[r].late
             \/ at'[r].pc = "idle" /\ at'[r].why = "none" /\ ~at'[r].late
          /\ UNCHANGED <<landed, left>>
      BY <2>11 DEF Drop
    <3>2. QED
      BY <2>1, <3>1 DEF LogoutInv
  <2>12. CASE Commit(r)
    <3>1. /\ At(r, "committing") /\ UNCHANGED landed /\ left' = TRUE
          /\ credential' = IF at[r].found THEN "revoked" ELSE credential
          /\ at'[r].pc = "idle" /\ at'[r].why = "none" /\ ~at'[r].late
      BY <2>12 DEF Commit
    <3>2. credential' = "revoked"
      BY <3>1 DEF LogoutInv
    <3>3. QED
      BY <2>1, <3>1, <3>2 DEF LogoutInv
  <2>13. QED
    BY <1>2, <2>3, <2>4, <2>5, <2>6, <2>7, <2>8, <2>9, <2>10, <2>11, <2>12 DEF RequestNext
<1>3. ASSUME NEW d \in Deliveries, DeliveryNext(d) PROVE LogoutInv'
  <2>1. \A b \in Actors : b # d => at'[b] = at[b]
    BY <1>3, OthersStay
  <2>2. \A r \in Requests : at'[r] = at[r]
    BY <2>1
  <2>3. at[d] \in States /\ d \notin Requests
    BY DEF TypeOK
  <2> USE Moves DEF redis, ghosts
  <2>4. CASE Reserve(d) \/ ReserveFails(d) \/ RevokeByBinding(d) \/ Collect(d) \/ Drop(d)
               \/ DeliveryFails(d)
    <3>1. UNCHANGED <<landed, left>>
      BY <2>4 DEF Reserve, ReserveFails, RevokeByBinding, Collect, Drop, DeliveryFails
    <3>2. \/ at'[d] = at[d]
          \/ at'[d].pc \in {"idle", "revoking", "collecting", "dropping", "marking"}
      <4>1. CASE RevokeByBinding(d)
        <5>1. at'[d] = [at[d] EXCEPT !.pc = "collecting", !.found = KnownBinding]
          BY <4>1 DEF RevokeByBinding
        <5>2. QED
          BY <2>3, <5>1 DEF States
      <4>2. CASE Collect(d)
        <5>1. at'[d] = [at[d] EXCEPT !.pc = "dropping", !.listed = index]
          BY <4>2 DEF Collect
        <5>2. QED
          BY <2>3, <5>1 DEF States
      <4>3. CASE Reserve(d) \/ ReserveFails(d) \/ Drop(d) \/ DeliveryFails(d)
        BY <4>3 DEF Reserve, ReserveFails, Drop, DeliveryFails
      <4>4. QED
        BY <2>4, <4>1, <4>2, <4>3
    <3>3. QED
      BY <2>1, <2>2, <3>1, <3>2 DEF LogoutInv
  <2>5. CASE Mark(d)
    <3>1. marker' /\ UNCHANGED <<landed, left>>
      BY <2>5 DEF Mark
    <3>2. QED
      BY <2>2, <3>1 DEF LogoutInv
  <2>6. CASE Commit(d) \/ Complete(d)
    <3>1. at[d].pc \in {"committing", "completing"} /\ (landed => landed') /\ UNCHANGED left
      BY <2>6 DEF Commit, Complete
    <3>2. marker'
      BY <3>1 DEF LogoutInv
    <3>3. QED
      BY <2>2, <3>1, <3>2 DEF LogoutInv
  <2>7. QED
    BY <1>3, <2>4, <2>5, <2>6 DEF DeliveryNext, Deliver
<1>4. CASE World
  <2>1. UNCHANGED <<landed, left, at>>
    BY <1>4 DEF World, vars, ghosts, Login, Approve, StateExpires, ErpLogout, CacheExpires,
       SessionExpires, IndexExpires, ReplayExpires
  <2>2. QED
    BY <2>1 DEF LogoutInv
<1>5. QED
  BY <1>1, <1>2, <1>3, <1>4 DEF Next, World

\* Whoever is logged out stays out: no request that begins after a logout has ended is
\* authorised, however late the login creates its session.
THEOREM BindingLoggedOutIsOut == Spec => []LoggedOutIsOut
<1>1. Init => LoginInv /\ LogoutInv
  BY DEF Init, LoginInv, LogoutInv, LoggedOutIsOut, At, Idle, Actors
<1>2. TypeOK /\ LoginInv /\ LogoutInv /\ [Next]_vars => LoginInv' /\ LogoutInv'
  BY LoginKept, LogoutKept
<1>3. LogoutInv => LoggedOutIsOut
  BY DEF LogoutInv
<1>4. QED
  BY BindingTypeCorrect, <1>1, <1>2, <1>3, PTL DEF Spec

-----------------------------------------------------------------------------
(* An accepted logout has landed, for an ERPNext that does not repeat an    *)
(* event while it is reserved.                                              *)

\* Only a delivery acknowledges the event or stores that it is completed, and what has
\* landed has landed.
LEMMA EventUntouched ==
  ASSUME TypeOK, [Next]_vars, ~\E d \in Deliveries : DeliveryNext(d)
  PROVE  /\ UNCHANGED landed /\ replay' \in {replay, "none"} /\ outbox' \in {outbox, "pending"}
         /\ \A d \in Deliveries : at'[d] = at[d]
<1> Callbacks \subseteq Actors /\ Requests \subseteq Actors /\ Deliveries \subseteq Actors
    /\ Callbacks \cap Deliveries = {} /\ Requests \cap Deliveries = {}
  BY BrowserBindingAssumption DEF Actors
<1> USE DEF redis, ghosts
<1>1. ASSUME NEW c \in Callbacks, CallbackNext(c)
      PROVE  UNCHANGED <<replay, landed, outbox>> /\ \A d \in Deliveries : at'[d] = at[d]
  <2>1. \A d \in Deliveries : at'[d] = at[d]
    BY <1>1, OthersStay
  <2>2. QED
    BY <1>1, <2>1 DEF CallbackNext, Consume, ExchangeCode, Identify, Confirm, ReturnToken,
       CreateCredential, CreateSession, LoginFails
<1>2. ASSUME NEW r \in Requests, RequestNext(r)
      PROVE  UNCHANGED <<replay, landed, outbox>> /\ \A d \in Deliveries : at'[d] = at[d]
  <2>1. (\A d \in Deliveries : at'[d] = at[d]) /\ r \notin Deliveries
    BY <1>2, OthersStay
  <2>2. UNCHANGED <<replay, landed, outbox>>
    BY <1>2, <2>1 DEF RequestNext, Enter, Touch, CheckMarker, Load, Introspect,
       RevokeDenied, Act, Leave, Collect, Drop, Mark, Commit, RequestFails
  <2>3. QED
    BY <2>1, <2>2
<1>3. CASE World
  BY <1>3 DEF World, vars, Login, Approve, StateExpires, ErpLogout, CacheExpires,
     SessionExpires, IndexExpires, ReplayExpires
<1>4. QED
  BY <1>1, <1>2, <1>3 DEF Next, World

\* A delivery that stores completed has committed.
DeliveryInv ==
  /\ replay = "completed" => landed
  /\ \A d \in Deliveries : At(d, "completing") => landed
  /\ AcknowledgedIsDone

LEMMA DeliveryKept ==
  ASSUME ~RetriesEarly, TypeOK, DeliveryInv, [Next]_vars
  PROVE  DeliveryInv'
<1> USE DEF At, AcknowledgedIsDone
<1>1. ASSUME NEW d \in Deliveries, DeliveryNext(d) PROVE DeliveryInv'
  <2>1. \A e \in Deliveries : e # d => at'[e] = at[e]
    BY <1>1, OthersStay DEF Actors
  <2>2. d \in Actors /\ at[d] \in States
    BY DEF TypeOK, Actors
  <2> USE Moves DEF redis, ghosts
  <2>3. CASE Reserve(d) /\ replay = "none"
    <3>1. /\ replay' = "processing" /\ at'[d].pc = "revoking"
          /\ UNCHANGED <<outbox, landed>>
      BY <2>2, <2>3 DEF Reserve
    <3>2. QED
      BY <2>1, <3>1 DEF DeliveryInv
  <2>4. CASE Reserve(d) /\ replay # "none"
    <3>1. replay = "completed"
      BY <2>4 DEF Reserve, Sent, TypeOK
    <3>2. UNCHANGED <<replay, at, landed>>
      BY <2>4 DEF Reserve
    <3>3. QED
      BY <3>1, <3>2 DEF DeliveryInv
  <2>5. CASE ReserveFails(d)
    <3>1. replay' = "processing" /\ UNCHANGED <<at, outbox, landed>>
      BY <2>5 DEF ReserveFails
    <3>2. QED
      BY <3>1 DEF DeliveryInv
  <2>6. CASE RevokeByBinding(d) \/ Collect(d) \/ Drop(d) \/ Mark(d)
    <3>1. UNCHANGED <<landed, outbox, replay>>
      BY <2>6 DEF RevokeByBinding, Collect, Drop, Mark
    <3>2. at'[d].pc \in {"collecting", "dropping", "marking", "committing"}
      <4>1. CASE RevokeByBinding(d)
        <5>1. at'[d] = [at[d] EXCEPT !.pc = "collecting", !.found = KnownBinding]
          BY <2>2, <4>1 DEF RevokeByBinding
        <5>2. QED
          BY <2>2, <5>1 DEF States
      <4>2. CASE Collect(d)
        <5>1. at'[d] = [at[d] EXCEPT !.pc = "dropping", !.listed = index]
          BY <2>2, <4>2 DEF Collect
        <5>2. QED
          BY <2>2, <5>1 DEF States
      <4>3. CASE Drop(d) \/ Mark(d)
        BY <2>2, <4>3 DEF Drop, Mark
      <4>4. QED
        BY <2>6, <4>1, <4>2, <4>3
    <3>3. QED
      BY <2>1, <3>1, <3>2 DEF DeliveryInv
  <2>7. CASE Commit(d)
    <3>1. landed' /\ UNCHANGED <<outbox, replay>>
      BY <2>7 DEF Commit
    <3>2. QED
      BY <3>1 DEF DeliveryInv
  <2>8. CASE Complete(d)
    <3>1. landed /\ UNCHANGED landed
      BY <2>8 DEF Complete, DeliveryInv
    <3>2. QED
      BY <3>1 DEF DeliveryInv
  <2>9. CASE DeliveryFails(d)
    <3>1. at'[d].pc = "idle" /\ UNCHANGED <<outbox, landed>>
      BY <2>2, <2>9 DEF DeliveryFails
    <3>2. replay' = "completed" => replay = "completed" \/ At(d, "completing")
      BY <2>9 DEF DeliveryFails
    <3>3. QED
      BY <2>1, <3>1, <3>2 DEF DeliveryInv
  <2>10. QED
    BY <1>1, <2>3, <2>4, <2>5, <2>6, <2>7, <2>8, <2>9 DEF DeliveryNext, Deliver
<1>2. CASE ~\E d \in Deliveries : DeliveryNext(d)
  <2>1. /\ UNCHANGED landed /\ replay' \in {replay, "none"} /\ outbox' \in {outbox, "pending"}
        /\ \A d \in Deliveries : at'[d] = at[d]
    BY <1>2, EventUntouched
  <2>2. QED
    BY <2>1 DEF DeliveryInv
<1>3. QED
  BY <1>1, <1>2

\* When ERPNext does not repeat an event within its reservation, an accepted logout has
\* landed, however many deliveries overlap and break off, with or without their except
\* branch (backchannel.py:73-102).
THEOREM BindingAcknowledgedIsDone ==
  ASSUME ~RetriesEarly
  PROVE  Spec => []AcknowledgedIsDone
<1>1. Init => DeliveryInv
  BY DEF Init, DeliveryInv, AcknowledgedIsDone, At, Idle, Actors
<1>2. TypeOK /\ DeliveryInv /\ [Next]_vars => DeliveryInv'
  BY DeliveryKept
<1>3. DeliveryInv => AcknowledgedIsDone
  BY DEF DeliveryInv
<1>4. QED
  BY BindingTypeCorrect, <1>1, <1>2, <1>3, PTL DEF Spec
=============================================================================
