------------------------- MODULE SecuritySessionProofs -------------------------
(***************************************************************************)
(* Theorems about SecuritySession, for every wiring, policy and set of     *)
(* accounts the assumptions allow.  The safety invariants are proved from  *)
(* one inductive invariant, IInv, which adds to them what the code relies  *)
(* on without saying: where a call stands determines what its record may   *)
(* hold, the type of an identity tells its source, and the identities of   *)
(* one login share their realm, owner and service.                         *)
(***************************************************************************)
EXTENDS SecuritySession, TLAPS

CallShape ==
    /\ call.op = "none" <=> call.phase = "none"
    /\ call.phase = "check" => call.op = "request"
    /\ call.phase = "cached" => /\ call.op \in {"login", "cached"}
                                /\ call.todo \subseteq StoreServices
                                /\ call.cached # {} => call.service \in StoreServices
    /\ call.phase \in {"services", "prompt"} => call.op \in {"request", "login"}
    /\ call.phase = "prompt" => call.service \in StoreServices
    /\ call.phase = "returned" /\ call.value = "Allow" => call.op = "request"

TypesBySource == \A i \in active : IsLogin(i) <=> i.type \in {"user", "role"}

ReplayLeavesLogin == call.phase = "cached" /\ call.activated => \E i \in active : IsLogin(i)

\* The identities of one login.
OneLogin(ids) ==
    /\ ids \subseteq Identity
    /\ \A i \in ids : IsLogin(i) /\ i.type \in {"user", "role"} /\ HasKey(i.realm)
    /\ \A i, j \in ids : i.realm = j.realm /\ i.owner = j.owner /\ i.service = j.service

IInv ==
    /\ TypeOK
    /\ CallShape
    /\ TypesBySource
    /\ ReplayLeavesLogin
    /\ OneLogin(held)
    /\ SessionsDoNotMix
    /\ AllowIsCurrent

-------------------------------------------------------------------------------
(* Realms and lookups.                                                     *)

\* Which of two realms is asked about the other makes no difference.
LEMMA ScopedEqualSymmetric ==
    ASSUME NEW r \in Realm, NEW s \in Realm
    PROVE  ScopedEqual(r, s) <=> ScopedEqual(s, r)
BY DEF ScopedEqual, KeysAgree, BothHave, Realm

\* Every realm, the empty one included, answers to itself.
LEMMA ScopedEqualReflexive ==
    ASSUME NEW r \in Realm
    PROVE  ScopedEqual(r, r)
BY DEF ScopedEqual, KeysAgree, BothHave, Realm, IsEmpty, HasKey

\* A realm that falls back to a type has a key.
LEMMA WithTypeKeyed ==
    ASSUME NEW r \in Realm, NEW t \in RealmTypes
    PROVE  WithType(r, t) \in Realm /\ HasKey(WithType(r, t))
BY EmptyAssumption DEF WithType, Realm, HasKey

\* The empty realm is a realm.
LEMMA NoRealmType == NoRealm \in Realm
BY DEF NoRealm, Realm

\* The registry binds realm slots to services.
LEMMA BindingsType ==
    /\ DOMAIN Bindings \subseteq Slots
    /\ \A r \in DOMAIN Bindings : r \in Realm /\ Bindings[r] \in Services
BY SessionAssumption, SlotsAssumption DEF SessionAssumption, SlotsAssumption

\* resolveRealmHint returns a realm, whatever slots bear the hinted name.
LEMMA ResolveType ==
    ASSUME NEW h \in Realm
    PROVE  ResolveRealmHint(Bindings, h) \in Realm
<1> DEFINE named == {r \in DOMAIN Bindings : r.name = h.name}
           slot  == FirstSlot(named)
<1>1. CASE h.name = Empty \/ named = {}
  BY <1>1 DEF ResolveRealmHint
<1>2. CASE ~(h.name = Empty \/ named = {})
  <2>1. named \in SUBSET Slots /\ named # {}
    BY <1>2, BindingsType
  <2>2. \E r \in named : \A q \in named : Rank[r] <= Rank[q]
    BY <2>1, RankAssumption DEF RankAssumption
  <2>3. slot \in named
    BY <2>2 DEF FirstSlot
  <2>4. slot \in Realm
    BY <2>3, BindingsType
  <2> QED
    BY <1>2, <2>4 DEF ResolveRealmHint, Realm
<1> QED
  BY <1>1, <1>2

\* The registry lists services only.
LEMMA PoolType ==
    /\ Pool \subseteq Services
    /\ \A h \in Realm : FindByRealm(Bindings, Unbound, h) \subseteq Services
BY BindingsType, SessionAssumption
   DEF SessionAssumption, Pool, UniqueServices, FindByRealm, FirstOfEachId

\* The policy answers with one of three decisions.
LEMMA DecideType ==
    ASSUME NEW ids, NEW p
    PROVE  Decide(Grants, ids, p) \in {"Allow", "Deny", "Unknown"}
BY DEF Decide, Resolve

-------------------------------------------------------------------------------
(* What a login brings.                                                    *)

\* An auto-login brings no login identity.
LEMMA AnonymousSetType ==
    ASSUME NEW h \in Realm
    PROVE  /\ AnonymousSet(h) \subseteq Identity
           /\ \A i \in AnonymousSet(h) : ~IsLogin(i) /\ i.type \notin {"user", "role"}
BY WithTypeKeyed, SessionAssumption
   DEF SessionAssumption, AnonymousSet, Identity, IdentityTypes, IsLogin

\* The identities of one password login are one login of one realm.
LEMMA LoginSetOne ==
    ASSUME TypeOK, NEW s \in StoreServices, NEW c \in Credential,
           NEW n \in Users \cup {Empty}, NEW h \in Realm, Verified(s, c, n)
    PROVE  OneLogin(LoginSet(s, c, n, h)) /\ LoginSet(s, c, n, h) # {}
<1> DEFINE u == Subject(c, n)
           r == LoginRealm(c, h)
<1>1. u \in Users
  BY DEF Verified, Subject, Credential
<1>2. accounts[s][u] \in Account
  BY <1>1 DEF Verified, TypeOK, Accounts
<1>3. RolesOf(s, u) \subseteq Roles
  BY <1>2, SessionAssumption DEF SessionAssumption, RolesOf, Account
<1>4. r \in Realm /\ HasKey(r)
  BY WithTypeKeyed, SessionAssumption DEF SessionAssumption, LoginRealm, Credential
<1>5. \A t \in {"user", "role"}, m \in Users \cup Roles :
        LoginIdentity(t, m, s, u, r) \in Identity
  BY <1>1, <1>4, SessionAssumption
     DEF SessionAssumption, LoginIdentity, Identity, IdentityTypes, StoreServices
<1>6. \A i \in LoginSet(s, c, n, h) : \E t \in {"user", "role"}, m \in Users \cup Roles :
        i = LoginIdentity(t, m, s, u, r)
  BY <1>1, <1>3 DEF LoginSet
<1>7. LoginSet(s, c, n, h) # {}
  BY DEF LoginSet
<1> HIDE DEF u, r
<1>8. \A i \in LoginSet(s, c, n, h) :
        /\ i \in Identity /\ IsLogin(i) /\ i.type \in {"user", "role"}
        /\ i.realm = r /\ i.owner = u /\ i.service = s
  BY <1>5, <1>6 DEF LoginIdentity, IsLogin
<1> QED
  BY <1>4, <1>7, <1>8 DEF OneLogin

-------------------------------------------------------------------------------
(* activate().                                                             *)

\* What activate leaves was there before or is new.
LEMMA ActivatedMembers ==
    ASSUME NEW ids
    PROVE  /\ ids \subseteq Activated(ids)
           /\ Activated(ids) \subseteq active \cup ids
BY DEF Activated

\* activate leaves identities of known types.
LEMMA ActivatedType ==
    ASSUME active \subseteq Identity, NEW ids, ids \subseteq Identity
    PROVE  Activated(ids) \subseteq Identity
BY ActivatedMembers

\* Opening a login session never leaves two sessions in one realm slot.
LEMMA ActivatedLoginDoesNotMix ==
    ASSUME active \subseteq Identity, SessionsDoNotMix, NEW ids, OneLogin(ids)
    PROVE  \A i, j \in Activated(ids) :
             IsLogin(i) /\ IsLogin(j) /\ ScopedEqual(i.realm, j.realm) =>
                i.owner = j.owner /\ i.service = j.service
<1>1. \A i \in Activated(ids) \ ids, j \in ids :
        ~(IsLogin(i) /\ ScopedEqual(i.realm, j.realm))
  BY DEF Activated, LoginsIn, OneLogin
<1>2. \A i \in Activated(ids) : i.realm \in Realm
  BY ActivatedMembers DEF OneLogin, Identity
<1> SUFFICES ASSUME NEW i \in Activated(ids), NEW j \in Activated(ids),
                    IsLogin(i), IsLogin(j), ScopedEqual(i.realm, j.realm)
             PROVE  i.owner = j.owner /\ i.service = j.service
  OBVIOUS
<1>3. CASE i \in ids /\ j \in ids
  BY <1>3 DEF OneLogin
<1>4. CASE i \notin ids /\ j \notin ids
  BY <1>4, ActivatedMembers DEF SessionsDoNotMix
<1>5. CASE i \in ids /\ j \notin ids
  BY <1>1, <1>2, <1>5, ScopedEqualSymmetric
<1>6. CASE i \notin ids /\ j \in ids
  BY <1>1, <1>6
<1> QED
  BY <1>3, <1>4, <1>5, <1>6

\* An auto-login adds no login identity.
LEMMA ActivatedAutoDoesNotMix ==
    ASSUME SessionsDoNotMix, NEW h \in Realm
    PROVE  \A i, j \in Activated(AnonymousSet(h)) :
             IsLogin(i) /\ IsLogin(j) /\ ScopedEqual(i.realm, j.realm) =>
                i.owner = j.owner /\ i.service = j.service
BY ActivatedMembers, AnonymousSetType DEF SessionsDoNotMix

\* The three ways a step changes the session, and what each keeps.
ActiveStep ==
    \/ active' \subseteq active
    \/ \E h \in Realm : active' = Activated(AnonymousSet(h))
    \/ \E ids : OneLogin(ids) /\ active' = Activated(ids)

\* Each way a step may change the session keeps it free of mixed logins.
LEMMA ActiveStepKeeps ==
    ASSUME IInv, ActiveStep
    PROVE  active' \subseteq Identity /\ TypesBySource' /\ SessionsDoNotMix'
<1> USE DEF IInv
<1>1. CASE active' \subseteq active
  BY <1>1 DEF TypeOK, TypesBySource, SessionsDoNotMix
<1>2. ASSUME NEW h \in Realm, active' = Activated(AnonymousSet(h))
      PROVE  active' \subseteq Identity /\ TypesBySource' /\ SessionsDoNotMix'
  <2>1. active' \subseteq Identity
    BY <1>2, ActivatedType, AnonymousSetType DEF TypeOK
  <2>2. TypesBySource'
    BY <1>2, ActivatedMembers, AnonymousSetType DEF TypesBySource
  <2>3. SessionsDoNotMix'
    BY <1>2, ActivatedAutoDoesNotMix DEF SessionsDoNotMix
  <2> QED
    BY <2>1, <2>2, <2>3
<1>3. ASSUME NEW ids, OneLogin(ids), active' = Activated(ids)
      PROVE  active' \subseteq Identity /\ TypesBySource' /\ SessionsDoNotMix'
  <2>1. active' \subseteq Identity
    BY <1>3, ActivatedType DEF TypeOK, OneLogin
  <2>2. TypesBySource'
    BY <1>3, ActivatedMembers DEF TypesBySource, OneLogin
  <2>3. SessionsDoNotMix'
    BY <1>3, ActivatedLoginDoesNotMix DEF SessionsDoNotMix, TypeOK
  <2> QED
    BY <2>1, <2>2, <2>3
<1> QED
  BY <1>1, <1>2, <1>3 DEF ActiveStep

\* A step that leaves the session alone keeps what is known of it.
LEMMA UnchangedActive ==
    ASSUME UNCHANGED active
    PROVE  ActiveStep
BY DEF ActiveStep

-------------------------------------------------------------------------------
(* The inductive invariant.                                                *)

\* A new manager has no session.
LEMMA InitInv == Init => IInv
<1> SUFFICES ASSUME Init PROVE IInv
  OBVIOUS
<1> USE DEF Init
<1>1. NoCall \in Call
  BY NoRealmType DEF NoCall, Call
<1>2. TypeOK
  BY <1>1, SessionAssumption DEF SessionAssumption, TypeOK
<1>3. CallShape /\ ReplayLeavesLogin /\ AllowIsCurrent
  BY DEF CallShape, ReplayLeavesLogin, AllowIsCurrent, NoCall
<1>4. TypesBySource /\ SessionsDoNotMix /\ OneLogin(held)
  BY DEF TypesBySource, SessionsDoNotMix, OneLogin
<1> QED
  BY <1>2, <1>3, <1>4 DEF IInv

\* What a step outside any call needs for the invariant.
LEMMA IdleKeeps ==
    ASSUME IInv, Idle, UNCHANGED call, ActiveStep, suppress' \in BOOLEAN,
           creds' \subseteq Credential, accounts' \in Accounts, OneLogin(held)'
    PROVE  IInv'
<1> USE DEF IInv
<1>1. TypeOK'
  BY ActiveStepKeeps DEF TypeOK, OneLogin
<1>2. CallShape'
  BY DEF CallShape
<1>3. ReplayLeavesLogin' /\ AllowIsCurrent'
  BY DEF ReplayLeavesLogin, AllowIsCurrent, CallShape, Idle
<1> QED
  BY <1>1, <1>2, <1>3, ActiveStepKeeps

\* What a step of a call needs for the invariant.
LEMMA CallKeeps ==
    ASSUME IInv, ActiveStep, suppress' \in BOOLEAN, creds' \subseteq Credential,
           UNCHANGED <<accounts, held>>, call' \in Call, CallShape',
           ReplayLeavesLogin', AllowIsCurrent'
    PROVE  IInv'
<1> USE DEF IInv
<1>1. TypeOK'
  BY ActiveStepKeeps DEF TypeOK
<1>2. OneLogin(held)'
  BY DEF OneLogin
<1> QED
  BY <1>1, <1>2, ActiveStepKeeps

\* A logout takes identities away and adds none.
LEMMA LogoutKeeps ==
    ASSUME IInv, LogoutOne \/ LogoutType \/ LogoutAll \/ LogoutRealm
    PROVE  IInv'
<1>1. ActiveStep
  BY DEF ActiveStep, LogoutOne, LogoutType, LogoutAll, LogoutRealm
<1>2. suppress' \in BOOLEAN /\ Idle /\ UNCHANGED <<creds, accounts, held, call>>
  BY DEF LogoutOne, LogoutType, LogoutAll, LogoutRealm
<1>3. creds' \subseteq Credential /\ accounts' \in Accounts /\ OneLogin(held)'
  BY <1>2 DEF IInv, TypeOK, OneLogin
<1> QED
  BY <1>1, <1>2, <1>3, IdleKeeps

\* start() adds auto-login identities only.
LEMMA StartKeeps ==
    ASSUME IInv, Start
    PROVE  IInv'
<1>1. ActiveStep
  BY NoRealmType DEF ActiveStep, Start
<1>2. suppress' \in BOOLEAN /\ creds' \subseteq Credential /\ accounts' \in Accounts
  BY DEF Start, IInv, TypeOK
<1>3. OneLogin(held)'
  BY DEF Start, IInv, OneLogin
<1> QED
  BY <1>1, <1>2, <1>3, IdleKeeps DEF Start

\* authenticate() hands out one login and touches no session.
LEMMA AuthenticateKeeps ==
    ASSUME IInv, Authenticate
    PROVE  IInv'
<1>1. PICK c \in AppCredentials, o \in Logins :
        LET hint == ResolveRealmHint(Bindings, o.hint)
            pool == FindByRealm(Bindings, Unbound, hint) \ {Anonymous}
        IN  IF pool = {} THEN held' = {}
            ELSE \E s \in pool :
                    held' = IF Verified(s, c, o.name) THEN LoginSet(s, c, o.name, hint)
                            ELSE {}
  BY DEF Authenticate
<1> DEFINE hint == ResolveRealmHint(Bindings, o.hint)
           pool == FindByRealm(Bindings, Unbound, hint) \ {Anonymous}
<1>2. c \in Credential /\ o.hint \in Realm /\ o.name \in Users \cup {Empty}
  BY SessionAssumption DEF SessionAssumption
<1>3. hint \in Realm /\ pool \subseteq StoreServices
  BY <1>2, ResolveType, PoolType DEF StoreServices
<1>4. OneLogin({})
  BY DEF OneLogin
<1>5. OneLogin(held')
  <2>1. CASE held' = {}
    BY <2>1, <1>4
  <2>2. CASE held' # {}
    <3>1. PICK s \in pool : Verified(s, c, o.name) /\ held' = LoginSet(s, c, o.name, hint)
      BY <1>1, <2>2
    <3>2. s \in StoreServices
      BY <1>3
    <3> QED
      BY <1>2, <1>3, <3>1, <3>2, LoginSetOne DEF IInv
  <2> QED
    BY <2>1, <2>2
<1>6. UNCHANGED <<active, suppress, creds, accounts, call>> /\ Idle
  BY DEF Authenticate
<1>7. OneLogin(held)'
  BY <1>5 DEF OneLogin
<1>8. suppress' \in BOOLEAN /\ creds' \subseteq Credential /\ accounts' \in Accounts
  BY <1>6 DEF IInv, TypeOK
<1> QED
  BY <1>6, <1>7, <1>8, UnchangedActive, IdleKeeps

\* Activating what authenticate() returned opens one login.
LEMMA ActivateHeldKeeps ==
    ASSUME IInv, ActivateHeld
    PROVE  IInv'
<1>1. ActiveStep
  BY DEF ActiveStep, ActivateHeld, IInv
<1>2. suppress' \in BOOLEAN /\ creds' \subseteq Credential /\ accounts' \in Accounts
  BY DEF ActivateHeld, IInv, TypeOK
<1>3. OneLogin(held)'
  BY DEF ActivateHeld, OneLogin
<1> QED
  BY <1>1, <1>2, <1>3, IdleKeeps DEF ActivateHeld

\* The credential cache holds credentials.
LEMMA AdministrationKeeps ==
    ASSUME IInv, PutCredential \/ RemoveCredential
    PROVE  IInv'
<1>1. creds' \subseteq Credential
  BY SessionAssumption DEF SessionAssumption, PutCredential, RemoveCredential, IInv, TypeOK
<1>2. UNCHANGED <<active, suppress, accounts, held, call>> /\ Idle
  BY DEF PutCredential, RemoveCredential
<1>3. suppress' \in BOOLEAN /\ accounts' \in Accounts /\ OneLogin(held)'
  BY <1>2 DEF IInv, TypeOK, OneLogin
<1> QED
  BY <1>1, <1>2, <1>3, UnchangedActive, IdleKeeps

\* Administration touches the accounts only.
LEMMA ChangeAccountKeeps ==
    ASSUME IInv, ChangeAccount
    PROVE  IInv'
<1>1. accounts' \in Accounts
  <2>1. PICK change \in AccountChanges :
          accounts' = [accounts EXCEPT ![change[1]][change[2]] = change[3]]
    BY DEF ChangeAccount
  <2>2. change[3] \in Account
    BY SessionAssumption DEF SessionAssumption
  <2> QED
    BY <2>1, <2>2 DEF IInv, TypeOK, Accounts
<1>2. UNCHANGED <<active, suppress, creds, held, call>>
  BY DEF ChangeAccount
<1> QED
  BY <1>1, <1>2 DEF IInv, TypeOK, CallShape, TypesBySource, ReplayLeavesLogin,
                     OneLogin, SessionsDoNotMix, AllowIsCurrent

-------------------------------------------------------------------------------
(* The steps of a call.                                                    *)

USE DEF CallShape, ReplayLeavesLogin, AllowIsCurrent

\* A request starts without a decision.
LEMMA StartRequestKeeps ==
    ASSUME IInv, StartRequest
    PROVE  IInv'
<1>1. PICK o \in Requests :
        call' = [NoCall EXCEPT !.op = "request", !.phase = "check", !.perm = o.perm,
                               !.hint = o.hint, !.name = o.name,
                               !.interactive = o.interactive, !.auto = o.auto,
                               !.scope = ResolveRealmHint(Bindings, o.hint)]
  BY DEF StartRequest
<1>2. /\ o.perm \in Permissions /\ o.hint \in Realm /\ o.name \in Users \cup {Empty}
      /\ o.interactive \in BOOLEAN /\ o.auto \in BOOLEAN
  BY SessionAssumption DEF SessionAssumption
<1>3. call' \in Call
  BY <1>1, <1>2, ResolveType DEF Call, NoCall
<1>4. CallShape' /\ ReplayLeavesLogin' /\ AllowIsCurrent'
  BY <1>1 DEF NoCall
<1>5. UNCHANGED <<active, suppress, creds, accounts, held>>
  BY DEF StartRequest
<1> QED
  BY <1>3, <1>4, <1>5, UnchangedActive, CallKeeps DEF IInv, TypeOK

\* A replay starts without an activation.
LEMMA StartReplayKeeps ==
    ASSUME IInv, StartLogin \/ StartCached
    PROVE  IInv'
<1>1. PICK o \in Logins : \E h \in {o.hint, ResolveRealmHint(Bindings, o.hint)} :
        \/ call' = [NoCall EXCEPT !.op = "login", !.phase = "cached", !.hint = h,
                                  !.scope = h, !.name = o.name, !.interactive = TRUE,
                                  !.todo = Pool \ {Anonymous}]
        \/ call' = [NoCall EXCEPT !.op = "cached", !.phase = "cached", !.hint = h,
                                  !.todo = Pool \ {Anonymous}]
  BY DEF StartLogin, StartCached
<1> PICK h \in {o.hint, ResolveRealmHint(Bindings, o.hint)} :
        \/ call' = [NoCall EXCEPT !.op = "login", !.phase = "cached", !.hint = h,
                                  !.scope = h, !.name = o.name, !.interactive = TRUE,
                                  !.todo = Pool \ {Anonymous}]
        \/ call' = [NoCall EXCEPT !.op = "cached", !.phase = "cached", !.hint = h,
                                  !.todo = Pool \ {Anonymous}]
  BY <1>1
<1>2. h \in Realm /\ o.name \in Users \cup {Empty}
  BY SessionAssumption, ResolveType DEF SessionAssumption
<1>3. Pool \ {Anonymous} \subseteq StoreServices /\ StoreServices \subseteq Services
  BY PoolType DEF StoreServices
<1>4. /\ call' \in Call
      /\ call'.phase = "cached" /\ call'.op \in {"login", "cached"} /\ call'.cached = {}
      /\ call'.todo \subseteq StoreServices /\ ~call'.activated
  <2>1. CASE call' = [NoCall EXCEPT !.op = "login", !.phase = "cached", !.hint = h,
                                    !.scope = h, !.name = o.name, !.interactive = TRUE,
                                    !.todo = Pool \ {Anonymous}]
    BY <1>2, <1>3, <2>1 DEF Call, NoCall
  <2>2. CASE call' = [NoCall EXCEPT !.op = "cached", !.phase = "cached", !.hint = h,
                                    !.todo = Pool \ {Anonymous}]
    BY <1>2, <1>3, <2>2, NoRealmType DEF Call, NoCall
  <2> QED
    BY <2>1, <2>2
<1>5. CallShape' /\ ReplayLeavesLogin' /\ AllowIsCurrent'
  BY <1>4
<1>6. UNCHANGED <<active, suppress, creds, accounts, held>>
  BY DEF StartLogin, StartCached
<1> QED
  BY <1>4, <1>5, <1>6, UnchangedActive, CallKeeps DEF IInv, TypeOK

\* The first check decides on the session it leaves.
LEMMA RequestCheckKeeps ==
    ASSUME IInv, RequestCheck
    PROVE  IInv'
<1> DEFINE decision == Decide(Grants, InScope(active, call.scope), call.perm)
<1> USE DEF IInv
<1>1. call \in Call /\ call.phase = "check" /\ call.op = "request"
  BY DEF RequestCheck, TypeOK
<1>2. UNCHANGED <<suppress, creds, accounts, held>>
  BY DEF RequestCheck
<1>3. CASE decision # "Unknown"
  <2>1. Return(decision) /\ UNCHANGED active
    BY <1>3 DEF RequestCheck
  <2>2. decision \in {"Allow", "Deny"}
    BY <1>3, DecideType
  <2>3. call' = [call EXCEPT !.phase = "returned", !.value = decision]
    BY <2>1 DEF Return
  <2>4. call' \in Call /\ CallShape' /\ ReplayLeavesLogin'
    BY <1>1, <2>2, <2>3 DEF Call
  <2>5. AllowIsCurrent'
    <3>1. call'.scope = call.scope /\ call'.perm = call.perm /\ call'.value = decision
      BY <1>1, <2>3 DEF Call
    <3>2. Decide(Grants, InScope(active', call'.scope), call'.perm) = decision
      BY <2>1, <3>1 DEF InScope
    <3> QED
      BY <3>1, <3>2
  <2> QED
    BY <1>2, <2>1, <2>4, <2>5, UnchangedActive, CallKeeps DEF TypeOK
<1>4. CASE decision = "Unknown"
  <2>1. call' = [call EXCEPT !.phase = "services",
                             !.todo = FindByRealm(Bindings, Unbound, call.hint)]
    BY <1>4 DEF RequestCheck
  <2>2. active' = Activated(AnonymousSet(call.hint)) \/ active' = active
    BY <1>4 DEF RequestCheck
  <2>3. FindByRealm(Bindings, Unbound, call.hint) \subseteq Services
    BY <1>1, PoolType DEF Call
  <2>4. call' \in Call /\ CallShape' /\ ReplayLeavesLogin' /\ AllowIsCurrent'
    BY <1>1, <2>1, <2>3 DEF Call
  <2>5. ActiveStep
    BY <1>1, <2>2 DEF ActiveStep, Call
  <2> QED
    BY <1>2, <2>4, <2>5, CallKeeps DEF TypeOK
<1> QED
  BY <1>3, <1>4

\* A service that logs nobody in changes nothing but the loop.
LEMMA ContinueKeeps ==
    ASSUME IInv, NEW s, Continue(s), call.phase \in {"services", "prompt"},
           UNCHANGED <<accounts, held>>
    PROVE  IInv'
<1>1. call' = [call EXCEPT !.phase = "services", !.todo = @ \ {s}, !.service = NoService]
  BY DEF Continue
<1>2. call \in Call /\ CallShape
  BY DEF IInv, TypeOK
<1>3. call' \in Call
  BY <1>1, <1>2 DEF Call
<1>4. call'.phase = "services" /\ call'.op = call.op
  BY <1>1, <1>2 DEF Call
<1>5. CallShape' /\ ReplayLeavesLogin' /\ AllowIsCurrent'
  BY <1>2, <1>4
<1>6. UNCHANGED <<active, suppress, creds>>
  BY DEF Continue
<1> QED
  BY <1>3, <1>5, <1>6, UnchangedActive, CallKeeps DEF IInv, TypeOK

\* A login inside the loop: the decision a request then takes is on the new session.
LEMMA LoggedInKeeps ==
    ASSUME IInv, NEW s, NEW ids, LoggedIn(s, ids), call.phase \in {"services", "prompt"},
           OneLogin(ids) \/ \E h \in Realm : ids = AnonymousSet(h),
           suppress' \in BOOLEAN, creds' \subseteq Credential, UNCHANGED <<accounts, held>>,
           call.op = "login" \/ call.op = "request"
    PROVE  IInv'
<1> DEFINE decision == Decide(Grants, InScope(Activated(ids), call.scope), call.perm)
<1>1. active' = Activated(ids)
  BY DEF LoggedIn
<1>2. ActiveStep
  BY <1>1 DEF ActiveStep
<1>3. call \in Call /\ CallShape
  BY DEF IInv, TypeOK
<1>4. CASE call.op = "login"
  <2>1. call' = [call EXCEPT !.phase = "returned", !.value = "true"]
    BY <1>4 DEF LoggedIn, Return
  <2>2. call' \in Call /\ CallShape' /\ ReplayLeavesLogin' /\ AllowIsCurrent'
    BY <1>3, <1>4, <2>1 DEF Call
  <2> QED
    BY <1>2, <2>2, CallKeeps
<1>5. CASE call.op = "request" /\ decision # "Unknown"
  <2>1. call' = [call EXCEPT !.phase = "returned", !.value = decision]
    BY <1>5 DEF LoggedIn, Return
  <2>2. decision \in {"Allow", "Deny"}
    BY <1>5, DecideType
  <2>3. call' \in Call /\ CallShape' /\ ReplayLeavesLogin'
    BY <1>3, <1>5, <2>1, <2>2 DEF Call
  <2>4. call'.scope = call.scope /\ call'.perm = call.perm /\ call'.value = decision
    BY <1>3, <2>1 DEF Call
  <2>5. AllowIsCurrent'
    BY <1>1, <2>4 DEF InScope
  <2> QED
    BY <1>2, <2>3, <2>5, CallKeeps
<1>6. CASE call.op = "request" /\ decision = "Unknown"
  <2>1. call' = [call EXCEPT !.phase = "services", !.todo = @ \ {s}, !.service = NoService]
    BY <1>6 DEF LoggedIn
  <2>2. call' \in Call /\ CallShape' /\ ReplayLeavesLogin' /\ AllowIsCurrent'
    BY <1>3, <1>6, <2>1 DEF Call
  <2> QED
    BY <1>2, <2>2, CallKeeps
<1> QED
  BY <1>4, <1>5, <1>6

\* An auto-login in the loop keeps the invariant.
LEMMA TryAnonymousKeeps ==
    ASSUME IInv, TryAnonymous
    PROVE  IInv'
<1>1. call.phase = "services" /\ UNCHANGED <<accounts, held>>
  BY DEF TryAnonymous, NextService
<1>2. call.op \in {"request", "login"} /\ call.hint \in Realm
  BY <1>1 DEF IInv, TypeOK, Call
<1>3. CASE Continue(Anonymous)
  BY <1>1, <1>3, ContinueKeeps
<1>4. CASE LoggedIn(Anonymous, AnonymousSet(call.hint)) /\ UNCHANGED <<suppress, creds>>
  <2>1. suppress' \in BOOLEAN /\ creds' \subseteq Credential
    BY <1>4 DEF IInv, TypeOK
  <2> QED
    BY <1>1, <1>2, <1>4, <2>1, LoggedInKeeps
<1> QED
  BY <1>3, <1>4 DEF TryAnonymous

\* A cached credential opens one login or nothing.
LEMMA TryCachedKeeps ==
    ASSUME IInv, NEW s \in StoreServices, TryCached(s)
    PROVE  IInv'
<1>1. call.phase = "services" /\ UNCHANGED <<accounts, held>>
  BY DEF TryCached, NextService
<1>2. /\ call.op \in {"request", "login"}
      /\ call.hint \in Realm /\ call.name \in Users \cup {Empty}
  BY <1>1 DEF IInv, TypeOK, Call
<1>3. PICK c \in UsableCached(s) :
        IF Verified(s, c, call.name)
        THEN /\ LoggedIn(s, LoginSet(s, c, call.name, call.hint))
             /\ suppress' = IF call.op = "login" THEN FALSE ELSE suppress
             /\ UNCHANGED creds
        ELSE Continue(s)
  BY DEF TryCached
<1>4. CASE Verified(s, c, call.name)
  <2>1. c \in Credential
    BY DEF UsableCached, IInv, TypeOK
  <2>2. OneLogin(LoginSet(s, c, call.name, call.hint))
    BY <1>2, <1>4, <2>1, LoginSetOne DEF IInv
  <2>3. suppress' \in BOOLEAN /\ creds' \subseteq Credential
    BY <1>3, <1>4 DEF IInv, TypeOK
  <2> QED
    BY <1>1, <1>2, <1>3, <1>4, <2>2, <2>3, LoggedInKeeps
<1>5. CASE ~Verified(s, c, call.name)
  BY <1>1, <1>3, <1>5, ContinueKeeps
<1> QED
  BY <1>4, <1>5

\* Opening a form decides nothing.
LEMMA OpenPromptKeeps ==
    ASSUME IInv, NEW s \in StoreServices, OpenPrompt(s)
    PROVE  IInv'
<1>1. call.phase = "services" /\ UNCHANGED <<accounts, held>>
  BY DEF OpenPrompt, NextService
<1>2. CASE Continue(s)
  BY <1>1, <1>2, ContinueKeeps
<1>3. CASE call' = [call EXCEPT !.phase = "prompt", !.service = s]
           /\ UNCHANGED <<active, suppress, creds>>
  <2>1. call \in Call /\ CallShape
    BY DEF IInv, TypeOK
  <2>2. call' \in Call
    BY <1>3, <2>1 DEF Call, StoreServices
  <2>3. call'.phase = "prompt" /\ call'.op = call.op /\ call'.service = s
    BY <1>3, <2>1 DEF Call
  <2>4. CallShape' /\ ReplayLeavesLogin' /\ AllowIsCurrent'
    BY <1>1, <2>1, <2>3
  <2> QED
    BY <1>1, <1>3, <2>2, <2>4, UnchangedActive, CallKeeps DEF IInv, TypeOK
<1> QED
  BY <1>2, <1>3 DEF OpenPrompt

\* Cancelling a form is a service that logs nobody in.
LEMMA CancelPromptKeeps ==
    ASSUME IInv, CancelPrompt
    PROVE  IInv'
BY ContinueKeeps DEF CancelPrompt

\* What a form returns has a realm of its own, whatever was left blank.
LEMMA TypedRealmType ==
    ASSUME call.hint \in Realm, NEW typed \in Realm
    PROVE  TypedRealm(typed) \in Realm
<1> DEFINE filled == [f \in {"type", "uuid", "name"} |->
                        IF typed[f] # Empty THEN typed[f] ELSE call.hint[f]]
<1>1. filled \in Realm
  BY DEF Realm
<1>2. DeviceType \in RealmTypes
  BY SessionAssumption DEF SessionAssumption
<1> HIDE DEF filled
<1>3. WithType(filled, DeviceType) \in Realm
  BY <1>1, <1>2, WithTypeKeyed
<1> QED
  BY <1>3 DEF TypedRealm, filled

\* A form opens one login or nothing, and caches a credential.
LEMMA SubmitPromptKeeps ==
    ASSUME IInv, SubmitPrompt
    PROVE  IInv'
<1> DEFINE t == call.service
           Typed(u, x, typed) == [subject |-> u, realm |-> TypedRealm(typed), secret |-> x,
                                  serviceHint |-> ServiceId[t]]
           Ids(c) == LoginSet(t, c, call.name, call.hint)
<1>1. call.phase = "prompt" /\ UNCHANGED <<accounts, held>>
  BY DEF SubmitPrompt
<1>2. /\ call.op \in {"request", "login"} /\ t \in StoreServices
      /\ call.hint \in Realm /\ call.name \in Users \cup {Empty}
  BY <1>1 DEF IInv, TypeOK, Call
<1>3. PICK u \in Users, x \in Secrets, typed \in TypedRealms :
        IF Verified(t, Typed(u, x, typed), call.name)
        THEN /\ LoggedIn(t, Ids(Typed(u, x, typed)))
             /\ suppress' = FALSE
             /\ creds' = creds \cup {Typed(u, x, typed)}
             /\ Cardinality(creds') <= MaxCached
        ELSE Continue(t)
  BY DEF SubmitPrompt
<1>4. typed \in Realm
  BY SessionAssumption DEF SessionAssumption
<1>5. TypedRealm(typed) \in Realm
  BY <1>2, <1>4, TypedRealmType
<1>6. ServiceId[t] \in ServiceIds
  BY <1>2, ServicesAssumption DEF ServicesAssumption, StoreServices
<1>7. Typed(u, x, typed) \in Credential
  BY <1>5, <1>6 DEF Credential
<1> DEFINE c == Typed(u, x, typed)
<1>8. CASE Verified(t, c, call.name)
  <2>1. OneLogin(Ids(c))
    <3> HIDE DEF Typed, t
    <3> QED
      BY <1>2, <1>7, <1>8, LoginSetOne DEF IInv
  <2>2. LoggedIn(t, Ids(c)) /\ suppress' = FALSE /\ creds' = creds \cup {c}
    BY <1>3, <1>8
  <2>3. suppress' \in BOOLEAN /\ creds' \subseteq Credential
    BY <2>2, <1>7 DEF IInv, TypeOK
  <2> HIDE DEF Typed
  <2> QED
    BY <1>1, <1>2, <2>1, <2>2, <2>3, LoggedInKeeps
<1>9. CASE ~Verified(t, c, call.name)
  BY <1>1, <1>3, <1>9, ContinueKeeps
<1> QED
  BY <1>8, <1>9

\* A step that only moves the call on.
LEMMA MoveOnKeeps ==
    ASSUME IInv, UNCHANGED <<active, creds, accounts, held>>, suppress' \in BOOLEAN,
           call' \in Call, CallShape', ReplayLeavesLogin', AllowIsCurrent'
    PROVE  IInv'
BY UnchangedActive, CallKeeps DEF IInv, TypeOK

\* The end of the loop never allows.
LEMMA LoopEndKeeps ==
    ASSUME IInv, LoopEnd
    PROVE  IInv'
<1>1. call \in Call /\ CallShape
  BY DEF IInv, TypeOK
<1>2. \E v \in {"false", "Deny"} :
        call' = [call EXCEPT !.phase = "returned", !.value = v]
  BY DEF LoopEnd, Return
<1>3. PICK v \in {"false", "Deny"} :
        call' = [call EXCEPT !.phase = "returned", !.value = v]
  BY <1>2
<1>4. call' \in Call
  BY <1>1, <1>3 DEF Call
<1>5. call'.phase = "returned" /\ call'.op = call.op /\ call'.value # "Allow"
  BY <1>1, <1>3 DEF Call
<1>6. CallShape' /\ ReplayLeavesLogin' /\ AllowIsCurrent'
  BY <1>1, <1>5 DEF LoopEnd
<1>7. UNCHANGED <<active, suppress, creds, accounts, held>>
  BY DEF LoopEnd
<1> QED
  BY <1>4, <1>6, <1>7, MoveOnKeeps DEF IInv, TypeOK

\* The next service's credentials come from the cache.
LEMMA CachedServiceKeeps ==
    ASSUME IInv, CachedService
    PROVE  IInv'
<1>1. call \in Call /\ CallShape /\ ReplayLeavesLogin /\ creds \subseteq Credential
  BY DEF IInv, TypeOK
<1>2. call.phase = "cached" /\ UNCHANGED <<active, suppress, creds, accounts, held>>
  BY DEF CachedService
<1>3. PICK s \in call.todo :
        call' = [call EXCEPT !.service = s, !.todo = @ \ {s},
                             !.cached = {c \in creds : Usable(c, Empty, s, call.hint)}]
  BY DEF CachedService
<1>4. s \in StoreServices /\ s \in Services
  BY <1>1, <1>2 DEF StoreServices
<1>5. /\ call' \in Call
      /\ call'.phase = "cached" /\ call'.op = call.op /\ call'.service = s
      /\ call'.todo = call.todo \ {s} /\ call'.activated = call.activated
      /\ call'.value = call.value
  <2> DEFINE usable == {c \in creds : Usable(c, Empty, s, call.hint)}
  <2>1. usable \in SUBSET Credential
    BY <1>1
  <2>2. call' = [call EXCEPT !.service = s, !.todo = @ \ {s}, !.cached = usable]
    BY <1>3
  <2> HIDE DEF usable
  <2> QED
    BY <1>1, <1>2, <1>4, <2>1, <2>2 DEF Call
<1>6. CallShape' /\ ReplayLeavesLogin' /\ AllowIsCurrent'
  BY <1>1, <1>2, <1>4, <1>5
<1> QED
  BY <1>2, <1>5, <1>6, MoveOnKeeps DEF IInv, TypeOK

\* A replayed credential opens one login or nothing.
LEMMA CachedOneKeeps ==
    ASSUME IInv, CachedOne
    PROVE  IInv'
<1>1. call \in Call /\ CallShape /\ ReplayLeavesLogin /\ creds \subseteq Credential
  BY DEF IInv, TypeOK
<1>2. call.phase = "cached" /\ UNCHANGED <<suppress, accounts, held>>
  BY DEF CachedOne
<1> DEFINE t == call.service
           Ids(c) == LoginSet(t, c, Empty, NoRealm)
<1>3. PICK c \in call.cached :
        IF Verified(t, c, Empty)
        THEN /\ active' = Activated(Ids(c))
             /\ creds' = IF IsEmpty(c.realm)
                         THEN (creds \ {c}) \cup {[c EXCEPT !.realm = LoginRealm(c, NoRealm)]}
                         ELSE creds
             /\ call' = [call EXCEPT !.cached = @ \ {c}, !.activated = TRUE]
        ELSE /\ call' = [call EXCEPT !.cached = @ \ {c}]
             /\ UNCHANGED <<active, creds>>
  BY DEF CachedOne
<1>4. t \in StoreServices /\ c \in Credential
  BY <1>1, <1>2 DEF Call
<1>5. CASE Verified(t, c, Empty)
  <2>1. OneLogin(Ids(c)) /\ Ids(c) # {}
    BY <1>4, <1>5, NoRealmType, LoginSetOne DEF IInv
  <2>2. active' = Activated(Ids(c))
    BY <1>3, <1>5
  <2>3. ActiveStep
    BY <2>1, <2>2 DEF ActiveStep
  <2>4. \E i \in active' : IsLogin(i)
    BY <2>1, <2>2, ActivatedMembers DEF OneLogin
  <2>5. creds' \subseteq Credential
    <3>1. DeviceType \in RealmTypes /\ c.realm \in Realm
      BY <1>4, SessionAssumption DEF SessionAssumption, Credential
    <3>2. LoginRealm(c, NoRealm) \in Realm
      BY <3>1, NoRealmType, WithTypeKeyed DEF LoginRealm
    <3>3. [c EXCEPT !.realm = LoginRealm(c, NoRealm)] \in Credential
      BY <1>4, <3>2 DEF Credential
    <3> QED
      BY <1>1, <1>3, <1>5, <3>3
  <2>6. call' = [call EXCEPT !.cached = @ \ {c}, !.activated = TRUE]
    BY <1>3, <1>5
  <2>7. call' \in Call
    BY <1>1, <2>6 DEF Call
  <2>8. /\ call'.phase = call.phase /\ call'.op = call.op /\ call'.service = call.service
        /\ call'.todo = call.todo /\ call'.cached = call.cached \ {c}
    BY <1>1, <2>6 DEF Call
  <2>9. CallShape' /\ ReplayLeavesLogin' /\ AllowIsCurrent'
    BY <1>1, <1>2, <2>4, <2>8
  <2>10. suppress' \in BOOLEAN
    BY <1>2 DEF IInv, TypeOK
  <2> QED
    BY <1>2, <2>3, <2>5, <2>7, <2>9, <2>10, CallKeeps
<1>6. CASE ~Verified(t, c, Empty)
  <2>1. call' = [call EXCEPT !.cached = @ \ {c}] /\ UNCHANGED <<active, creds>>
    BY <1>3, <1>6
  <2>2. call' \in Call
    BY <1>1, <2>1 DEF Call
  <2>3. /\ call'.phase = call.phase /\ call'.op = call.op /\ call'.service = call.service
        /\ call'.todo = call.todo /\ call'.cached = call.cached \ {c}
        /\ call'.activated = call.activated
    BY <1>1, <2>1 DEF Call
  <2>4. CallShape' /\ ReplayLeavesLogin' /\ AllowIsCurrent'
    BY <1>1, <1>2, <2>1, <2>3
  <2> QED
    BY <1>2, <2>1, <2>2, <2>4, MoveOnKeeps DEF IInv, TypeOK
<1> QED
  BY <1>5, <1>6

\* A replay that activated something left a login behind.
LEMMA CachedEndKeeps ==
    ASSUME IInv, CachedEnd
    PROVE  IInv'
<1>1. call \in Call /\ CallShape
  BY DEF IInv, TypeOK
<1>2. call.phase = "cached" /\ call.cached = {} /\ UNCHANGED <<active, creds, accounts, held>>
  BY DEF CachedEnd
<1>3. suppress' \in BOOLEAN
  BY DEF CachedEnd, IInv, TypeOK
<1>4. CASE call.op = "cached" \/ call.activated
  <2>1. \E v \in {"true", "false"} : call' = [call EXCEPT !.phase = "returned", !.value = v]
    BY <1>4 DEF CachedEnd, Return
  <2>2. PICK v \in {"true", "false"} : call' = [call EXCEPT !.phase = "returned", !.value = v]
    BY <2>1
  <2>3. call' \in Call
    BY <1>1, <2>2 DEF Call
  <2>4. call'.phase = "returned" /\ call'.op = call.op /\ call'.value # "Allow"
    BY <1>1, <2>2 DEF Call
  <2>5. CallShape' /\ ReplayLeavesLogin' /\ AllowIsCurrent'
    BY <1>1, <1>2, <2>4
  <2> QED
    BY <1>2, <1>3, <2>3, <2>5, MoveOnKeeps
<1>5. CASE ~(call.op = "cached" \/ call.activated)
  <2> DEFINE found == FindByRealm(Bindings, Unbound, call.hint) \ {Anonymous}
  <2>1. call' = [call EXCEPT !.phase = "services", !.service = NoService, !.todo = found]
    BY <1>5 DEF CachedEnd
  <2>2. found \subseteq Services
    BY <1>1, PoolType DEF Call
  <2> HIDE DEF found
  <2>3. call' \in Call
    BY <1>1, <2>1, <2>2 DEF Call
  <2>4. call'.phase = "services" /\ call'.op = call.op
    BY <1>1, <2>1 DEF Call
  <2>5. CallShape' /\ ReplayLeavesLogin' /\ AllowIsCurrent'
    BY <1>1, <1>2, <1>5, <2>4
  <2> QED
    BY <1>2, <1>3, <2>3, <2>5, MoveOnKeeps
<1> QED
  BY <1>4, <1>5

\* Taking the result ends the call.
LEMMA DeliverKeeps ==
    ASSUME IInv, Deliver
    PROVE  IInv'
<1>1. call' = NoCall /\ UNCHANGED <<active, suppress, creds, accounts, held>>
  BY DEF Deliver
<1>2. call' \in Call
  BY <1>1, NoRealmType DEF NoCall, Call
<1>3. CallShape' /\ ReplayLeavesLogin' /\ AllowIsCurrent'
  BY <1>1 DEF NoCall
<1> QED
  BY <1>1, <1>2, <1>3, MoveOnKeeps DEF IInv, TypeOK

\* Every step of a call keeps the invariant.
LEMMA CallStepKeeps ==
    ASSUME IInv, CallStep
    PROVE  IInv'
BY RequestCheckKeeps, TryAnonymousKeeps, TryCachedKeeps, OpenPromptKeeps,
   CancelPromptKeeps, SubmitPromptKeeps, LoopEndKeeps, CachedServiceKeeps,
   CachedOneKeeps, CachedEndKeeps, DeliverKeeps
   DEF CallStep

\* Every step keeps the invariant.
LEMMA NextInv == IInv /\ [Next]_vars => IInv'
<1> SUFFICES ASSUME IInv, [Next]_vars
             PROVE  IInv'
  OBVIOUS
<1>1. CASE Next
  BY <1>1, StartKeeps, LogoutKeeps, AuthenticateKeeps, ActivateHeldKeeps,
     StartRequestKeeps, StartReplayKeeps, CallStepKeeps, AdministrationKeeps,
     ChangeAccountKeeps
     DEF Next
<1>2. CASE UNCHANGED vars
  BY <1>2 DEF vars, IInv, TypeOK, TypesBySource, OneLogin, SessionsDoNotMix
<1> QED
  BY <1>1, <1>2

-------------------------------------------------------------------------------
(* The theorems.                                                           *)

\* The inductive invariant holds of every state a manager can reach.
THEOREM Invariance == Spec => []IInv
BY InitInv, NextInv, PTL DEF Spec

\* Every state of the session is well typed.
THEOREM TypeCorrect == Spec => []TypeOK
<1>1. IInv => TypeOK
  BY DEF IInv
<1> QED
  BY <1>1, Invariance, PTL

\* One realm slot never holds the logins of two accounts or of two services.
THEOREM NoMixedSessions == Spec => []SessionsDoNotMix
<1>1. IInv => SessionsDoNotMix
  BY DEF IInv
<1> QED
  BY <1>1, Invariance, PTL

\* An Allow is the decision on the session at the moment it is returned.
THEOREM AllowOnCurrentSession == Spec => []AllowIsCurrent
<1>1. IInv => AllowIsCurrent
  BY DEF IInv
<1> QED
  BY <1>1, Invariance, PTL

-------------------------------------------------------------------------------
(* What a step may not do.                                                 *)

AutoKept == \A i \in active : ~IsLogin(i) => \E j \in active' : ~IsLogin(j) /\ RefEq(i, j)

\* An identity has the reference it has.
LEMMA RefEqReflexive ==
    ASSUME NEW i \in Identity
    PROVE  RefEq(i, i)
BY DEF Identity, RefEq, Same, KeysAgree, BothHave, Realm, IsEmpty, HasKey

\* A step that leaves the session alone keeps the anonymous principals.
LEMMA UnchangedKeepsAuto ==
    ASSUME IInv, \A i \in active : ~IsLogin(i) => i \in active'
    PROVE  AutoKept
BY RefEqReflexive DEF AutoKept, IInv, TypeOK

\* A login replaces login sessions only, an auto-login its own equals.
LEMMA ActivatedKeepsAuto ==
    ASSUME IInv, NEW ids, active' = Activated(ids),
           OneLogin(ids) \/ \E h \in Realm : ids = AnonymousSet(h)
    PROVE  AutoKept
<1> SUFFICES ASSUME NEW i \in active, ~IsLogin(i)
             PROVE  \E j \in active' : ~IsLogin(j) /\ RefEq(i, j)
  BY DEF AutoKept
<1>1. i \in Identity /\ i.type \notin {"user", "role"}
  BY DEF IInv, TypeOK, TypesBySource
<1>2. CASE \E j \in ids : RefEq(i, j)
  <2>1. PICK j \in ids : RefEq(i, j)
    BY <1>2
  <2>2. j \in active' /\ j.type = i.type
    BY <2>1, ActivatedMembers DEF RefEq
  <2>3. ~IsLogin(j)
    BY <1>1, <2>2, AnonymousSetType DEF OneLogin
  <2> QED
    BY <2>1, <2>2, <2>3
<1>3. CASE ~\E j \in ids : RefEq(i, j)
  <2>1. i \in active'
    BY <1>3 DEF Activated, LoginsIn
  <2> QED
    BY <1>1, <2>1, RefEqReflexive
<1> QED
  BY <1>2, <1>3

\* What a password login does to the session: it opens one login, or nothing.
Opens == \E ids : OneLogin(ids) /\ ids # {} /\ active' = Activated(ids)

\* A cached credential adds to the session only through activate.
LEMMA TryCachedOpens ==
    ASSUME IInv, NEW s \in StoreServices, TryCached(s)
    PROVE  Opens \/ UNCHANGED <<active, suppress>>
<1>1. PICK c \in UsableCached(s) :
        \/ Verified(s, c, call.name) /\ active' = Activated(LoginSet(s, c, call.name, call.hint))
        \/ UNCHANGED <<active, suppress>>
  BY DEF TryCached, Continue, LoggedIn
<1>2. c \in Credential /\ call.hint \in Realm /\ call.name \in Users \cup {Empty}
  BY DEF IInv, TypeOK, UsableCached, Call
<1> QED
  BY <1>1, <1>2, LoginSetOne DEF IInv, Opens

\* A form adds to the session only through activate.
LEMMA SubmitPromptOpens ==
    ASSUME IInv, SubmitPrompt
    PROVE  Opens \/ UNCHANGED <<active, suppress>>
<1>1. PICK u \in Users, x \in Secrets, typed \in TypedRealms :
        LET c == [subject |-> u, realm |-> TypedRealm(typed), secret |-> x,
                  serviceHint |-> ServiceId[call.service]]
        IN  \/ /\ Verified(call.service, c, call.name)
               /\ active' = Activated(LoginSet(call.service, c, call.name, call.hint))
            \/ UNCHANGED <<active, suppress>>
  BY DEF SubmitPrompt, Continue, LoggedIn
<1> DEFINE c == [subject |-> u, realm |-> TypedRealm(typed), secret |-> x,
                 serviceHint |-> ServiceId[call.service]]
<1>2. /\ call.hint \in Realm /\ call.name \in Users \cup {Empty}
      /\ call.service \in StoreServices
  BY DEF IInv, TypeOK, Call, SubmitPrompt
<1>3. TypedRealm(typed) \in Realm /\ ServiceId[call.service] \in ServiceIds
  BY <1>2, TypedRealmType, SessionAssumption, ServicesAssumption
     DEF SessionAssumption, ServicesAssumption, StoreServices
<1>4. c \in Credential
  BY <1>3 DEF Credential
<1>5. \/ /\ Verified(call.service, c, call.name)
         /\ active' = Activated(LoginSet(call.service, c, call.name, call.hint))
      \/ UNCHANGED <<active, suppress>>
  BY <1>1
<1> HIDE DEF c
<1> QED
  BY <1>2, <1>4, <1>5, LoginSetOne DEF IInv, Opens

\* A replay adds to the session only through activate.
LEMMA CachedOneOpens ==
    ASSUME IInv, CachedOne
    PROVE  Opens \/ UNCHANGED <<active, suppress>>
<1>1. PICK c \in call.cached :
        \/ /\ Verified(call.service, c, Empty)
           /\ active' = Activated(LoginSet(call.service, c, Empty, NoRealm))
        \/ UNCHANGED <<active, suppress>>
  BY DEF CachedOne
<1>2. c \in Credential /\ call.service \in StoreServices
  BY DEF IInv, TypeOK, Call, CachedOne
<1> QED
  BY <1>1, <1>2, NoRealmType, LoginSetOne DEF IInv, Opens

\* No step of a call loses an anonymous principal.
LEMMA CallKeepsAuto ==
    ASSUME IInv, CallStep
    PROVE  AutoKept
<1>1. call \in Call /\ CallShape /\ creds \subseteq Credential
  BY DEF IInv, TypeOK
<1>2. CASE RequestCheck
  <2>1. call.hint \in Realm
    BY <1>1 DEF Call
  <2>2. UNCHANGED active \/ active' = Activated(AnonymousSet(call.hint))
    BY <1>2 DEF RequestCheck
  <2> QED
    BY <2>1, <2>2, UnchangedKeepsAuto, ActivatedKeepsAuto
<1>3. CASE TryAnonymous
  <2>1. call.hint \in Realm
    BY <1>1 DEF Call
  <2>2. UNCHANGED active \/ active' = Activated(AnonymousSet(call.hint))
    BY <1>3 DEF TryAnonymous, Continue, LoggedIn
  <2> QED
    BY <2>1, <2>2, UnchangedKeepsAuto, ActivatedKeepsAuto
<1>4. CASE \/ \E s \in StoreServices : TryCached(s)
           \/ SubmitPrompt \/ CachedOne
  <2>1. Opens \/ UNCHANGED <<active, suppress>>
    BY <1>4, TryCachedOpens, SubmitPromptOpens, CachedOneOpens
  <2> QED
    BY <2>1, ActivatedKeepsAuto, UnchangedKeepsAuto DEF Opens
<1>5. CASE \/ \E s \in StoreServices : OpenPrompt(s)
           \/ CancelPrompt \/ LoopEnd \/ CachedService \/ CachedEnd \/ Deliver
  <2>1. UNCHANGED active
    BY <1>5 DEF OpenPrompt, CancelPrompt, LoopEnd, CachedService, CachedEnd, Deliver, Continue
  <2> QED
    BY <2>1, UnchangedKeepsAuto
<1> QED
  BY <1>2, <1>3, <1>4, <1>5 DEF CallStep

\* Only an explicit logout ends the session of an anonymous principal.
THEOREM AnonymousOutlivesLogins == Spec => AutoSurvivesLogin
<1>1. ASSUME IInv, [Next]_vars
      PROVE  [\/ LogoutOne \/ LogoutType \/ LogoutAll
              \/ \A i \in active : ~IsLogin(i) => \E j \in active' : ~IsLogin(j) /\ RefEq(i, j)]_vars
  <2>1. CASE CallStep
    BY <1>1, <2>1, CallKeepsAuto DEF AutoKept
  <2>2. CASE Start
    BY <1>1, <2>2, NoRealmType, ActivatedKeepsAuto DEF Start, AutoKept
  <2>3. CASE LogoutRealm
    <3>1. \A i \in active : ~IsLogin(i) => i \in active'
      BY <2>3 DEF LogoutRealm, LoginsIn
    <3> QED
      BY <1>1, <3>1, UnchangedKeepsAuto DEF AutoKept
  <2>4. CASE ActivateHeld
    BY <1>1, <2>4, ActivatedKeepsAuto DEF ActivateHeld, AutoKept, IInv
  <2>5. CASE \/ Authenticate \/ StartRequest \/ StartLogin \/ StartCached
             \/ PutCredential \/ RemoveCredential \/ ChangeAccount
    <3>1. UNCHANGED active
      BY <2>5 DEF Authenticate, StartRequest, StartLogin, StartCached, PutCredential,
                  RemoveCredential, ChangeAccount
    <3> QED
      BY <1>1, <3>1, UnchangedKeepsAuto DEF AutoKept
  <2> QED
    BY <1>1, <2>1, <2>2, <2>3, <2>4, <2>5 DEF Next
<1> QED
  BY <1>1, Invariance, PTL DEF Spec, AutoSurvivesLogin

\* The suppression of auto-login is lifted by nothing but a login that worked.
THEOREM LiftedOnlyByLogin == Spec => LiftedByLogin
<1> DEFINE Lifts == suppress /\ ~suppress'
           LeavesLogin == \E i \in active' : IsLogin(i)
<1>1. ASSUME IInv, [Next]_vars, Lifts
      PROVE  LeavesLogin
  <2> USE <1>1
  <2>1. call \in Call /\ CallShape /\ ReplayLeavesLogin /\ creds \subseteq Credential
    BY DEF IInv, TypeOK
  <2>2. Opens => LeavesLogin
    BY ActivatedMembers DEF OneLogin, Opens
  <2>3. CASE SubmitPrompt \/ \E s \in StoreServices : TryCached(s)
    BY <2>2, <2>3, TryCachedOpens, SubmitPromptOpens
  <2>4. CASE CachedEnd
    <3>1. call.op = "login" /\ call.activated /\ call.phase = "cached"
      BY <2>4 DEF CachedEnd
    <3> QED
      BY <2>1, <2>4, <3>1 DEF CachedEnd
  <2>5. \/ \E s \in StoreServices : TryCached(s)
        \/ SubmitPrompt \/ CachedEnd
    BY DEF Next, CallStep, vars, Start, LogoutOne, LogoutType, LogoutAll, LogoutRealm,
           Authenticate, ActivateHeld, StartRequest, StartLogin, StartCached, RequestCheck,
           TryAnonymous, Continue, OpenPrompt, CancelPrompt, LoopEnd, CachedService,
           CachedOne, Deliver, PutCredential, RemoveCredential, ChangeAccount
  <2> QED
    BY <2>3, <2>4, <2>5
<1>2. IInv /\ [Next]_vars => [Lifts => LeavesLogin]_vars
  BY <1>1
<1> QED
  BY <1>2, Invariance, PTL DEF Spec, LiftedByLogin

-------------------------------------------------------------------------------
(* A session is opened for an account that stands behind it.               *)

\* Every identity of a password login is of the account that was verified.
LEMMA LoginSetBacked ==
    ASSUME NEW s \in StoreServices, NEW c, NEW n, NEW h, Verified(s, c, n)
    PROVE  \A i \in LoginSet(s, c, n, h) : Backed(i)
<1> DEFINE u == Subject(c, n)
           r == LoginRealm(c, h)
<1>1. accounts[s][u] # NoAccount /\ accounts[s][u].enabled
  BY DEF Verified
<1>2. \A i \in LoginSet(s, c, n, h) :
        \/ i = LoginIdentity("user", u, s, u, r)
        \/ \E m \in RolesOf(s, u) : i = LoginIdentity("role", m, s, u, r)
  BY DEF LoginSet
<1> HIDE DEF u, r
<1>3. \A i \in LoginSet(s, c, n, h) :
        i.service = s /\ i.owner = u /\ (i.type = "role" => i.name \in RolesOf(s, u))
  BY <1>2 DEF LoginIdentity
<1> QED
  BY <1>1, <1>3 DEF Backed

\* The login identities a step brings are backed.
NewAreBacked == \A i \in active' \ active : IsLogin(i) => Backed(i)

LEMMA ActivatedBacked ==
    ASSUME NEW ids, active' = Activated(ids), \A i \in ids : IsLogin(i) => Backed(i)
    PROVE  NewAreBacked
BY ActivatedMembers DEF NewAreBacked

\* What a cached credential opens is backed.
LEMMA TryCachedBacked ==
    ASSUME NEW s \in StoreServices, TryCached(s)
    PROVE  NewAreBacked
<1>1. PICK c \in UsableCached(s) :
        \/ Verified(s, c, call.name) /\ active' = Activated(LoginSet(s, c, call.name, call.hint))
        \/ UNCHANGED active
  BY DEF TryCached, Continue, LoggedIn
<1>2. CASE UNCHANGED active
  BY <1>2 DEF NewAreBacked
<1>3. CASE Verified(s, c, call.name) /\ active' = Activated(LoginSet(s, c, call.name, call.hint))
  BY <1>3, LoginSetBacked, ActivatedBacked
<1> QED
  BY <1>1, <1>2, <1>3

\* What a form opens is backed by the account as it is when the form is submitted.
LEMMA SubmitPromptBacked ==
    ASSUME IInv, SubmitPrompt
    PROVE  NewAreBacked
<1>1. \E c : \/ /\ Verified(call.service, c, call.name)
                /\ active' = Activated(LoginSet(call.service, c, call.name, call.hint))
             \/ UNCHANGED active
  BY DEF SubmitPrompt, Continue, LoggedIn
<1>2. PICK c : \/ /\ Verified(call.service, c, call.name)
                  /\ active' = Activated(LoginSet(call.service, c, call.name, call.hint))
               \/ UNCHANGED active
  BY <1>1
<1>3. call.service \in StoreServices
  BY DEF IInv, CallShape, SubmitPrompt
<1>4. CASE UNCHANGED active
  BY <1>4 DEF NewAreBacked
<1>5. CASE ~UNCHANGED active
  <2> DEFINE ids == LoginSet(call.service, c, call.name, call.hint)
  <2>1. \A i \in ids : Backed(i)
    BY <1>2, <1>3, <1>5, LoginSetBacked
  <2> QED
    BY <1>2, <1>5, <2>1, ActivatedBacked
<1> QED
  BY <1>4, <1>5

\* What a replay opens is backed.
LEMMA CachedOneBacked ==
    ASSUME IInv, CachedOne
    PROVE  NewAreBacked
<1>1. PICK c \in call.cached :
        \/ /\ Verified(call.service, c, Empty)
           /\ active' = Activated(LoginSet(call.service, c, Empty, NoRealm))
        \/ UNCHANGED active
  BY DEF CachedOne
<1>2. call.service \in StoreServices
  BY DEF IInv, CallShape, CachedOne
<1>3. CASE UNCHANGED active
  BY <1>3 DEF NewAreBacked
<1>4. CASE ~UNCHANGED active
  <2> DEFINE ids == LoginSet(call.service, c, Empty, NoRealm)
  <2>1. \A i \in ids : Backed(i)
    BY <1>1, <1>2, <1>4, LoginSetBacked
  <2> QED
    BY <1>1, <1>4, <2>1, ActivatedBacked
<1> QED
  BY <1>3, <1>4

\* An auto-login brings no login identity.
LEMMA AutoBacked ==
    ASSUME IInv, RequestCheck \/ TryAnonymous
    PROVE  NewAreBacked
<1>1. call.hint \in Realm
  BY DEF IInv, TypeOK, Call
<1>2. UNCHANGED active \/ active' = Activated(AnonymousSet(call.hint))
  BY DEF RequestCheck, TryAnonymous, Continue, LoggedIn
<1>3. CASE UNCHANGED active
  BY <1>3 DEF NewAreBacked
<1>4. CASE active' = Activated(AnonymousSet(call.hint))
  BY <1>1, <1>4, AnonymousSetType, ActivatedBacked
<1> QED
  BY <1>2, <1>3, <1>4

\* A call opens a session only for an account that exists and is enabled, with the roles
\* it has, when the session is opened.
THEOREM SessionsAreBacked == Spec => LoginsAreBacked
<1>1. ASSUME IInv, [Next]_vars, call.op # "none"
      PROVE  NewAreBacked
  <2> USE <1>1
  <2>1. CASE RequestCheck \/ TryAnonymous \/ SubmitPrompt \/ CachedOne
             \/ \E s \in StoreServices : TryCached(s)
    BY <2>1, AutoBacked, SubmitPromptBacked, CachedOneBacked, TryCachedBacked
  <2>2. CASE UNCHANGED active
    BY <2>2 DEF NewAreBacked
  <2>3. \/ RequestCheck \/ TryAnonymous \/ SubmitPrompt \/ CachedOne
        \/ \E s \in StoreServices : TryCached(s)
        \/ UNCHANGED active
    BY DEF Next, CallStep, vars, Idle, Start, LogoutOne, LogoutType, LogoutAll, LogoutRealm,
           Authenticate, ActivateHeld, StartRequest, StartLogin, StartCached, Continue,
           OpenPrompt, CancelPrompt, LoopEnd, CachedService, CachedEnd, Deliver,
           PutCredential, RemoveCredential, ChangeAccount
  <2> QED
    BY <2>1, <2>2, <2>3
<1> DEFINE Opened == \A i \in active' \ active : IsLogin(i) => Backed(i)
<1>2. IInv /\ [Next]_vars => [call.op # "none" => Opened]_vars
  BY <1>1 DEF NewAreBacked
<1> QED
  BY <1>2, Invariance, PTL DEF Spec, LoginsAreBacked
===============================================================================
