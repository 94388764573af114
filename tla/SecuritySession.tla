---------------------------- MODULE SecuritySession ----------------------------
(***************************************************************************)
(* The session of bas::security::SecurityManager: who is logged in, where, *)
(* and what a permission request may do about it.  The manager is wired to *)
(* an identity registry (RegistryLookup), a policy (AccessPolicy), a cache *)
(* of client-held credentials and the user stores its services verify      *)
(* against.                                                                *)
(*                                                                         *)
(* login(), requestPermission() and activateCachedCredentials() loop over  *)
(* services and over cached credentials, and stop at a login prompt that   *)
(* waits for a person.  A call in progress is the record call: each step   *)
(* below is one iteration of such a loop, in the order the code has, and   *)
(* no other call of the manager starts before it returns.  While a prompt  *)
(* is open the user stores may change.                                     *)
(***************************************************************************)
EXTENDS RegistryLookup, AccessPolicy, FiniteSets

CONSTANTS
    Users, Roles,       \* user and role names
    DefaultRole,        \* "operator", the role of a user without roles
    DefaultName,        \* "default", the name of the anonymous principals
    Secrets,            \* passwords
    DeviceType,         \* the realm type a password login falls back to
    GlobalType,         \* the realm type an anonymous login falls back to
    Bindings,           \* the registry's realm slots, Slots -> Services
    Unbound,            \* the registry's services without a slot
    Anonymous,          \* the AnonymousIdentityService
    Grants,             \* the policy
    Requests,           \* the options requestPermission() is called with
    Logins,             \* the options of login() and of the other calls
    TypedRealms,        \* what a person fills into the realm fields of a form
    AppCredentials,     \* credentials an application puts into the cache
    AccountChanges,     \* administration: <<service, user, new record>>
    InitAccounts,
    MaxCached,          \* bound on the credential cache
    NoAccount, NoService, NoPermission

VARIABLES
    active,     \* m_activeIdentities
    suppress,   \* m_suppressAutoLogin
    creds,      \* the credential cache
    accounts,   \* the user stores behind the services
    held,       \* the identities authenticate() returned to the caller
    call        \* the call in progress, with what it returns at its end

vars == <<active, suppress, creds, accounts, held, call>>

StoreServices == Services \ {Anonymous}

Account == [secret : Secrets, enabled : BOOLEAN, roles : SUBSET Roles]

Accounts == [StoreServices -> [Users -> Account \cup {NoAccount}]]

Credential == [subject : Users \cup {Empty}, realm : Realm, secret : Secrets,
               serviceHint : ServiceIds \cup {Empty}]

\* owner and service record which account of which service object opened the
\* session an identity belongs to; the code keeps only the id of the service.
Identity == [type : IdentityTypes, name : IdentityNames, realm : Realm,
             source : {"Login", "Auto"}, owner : IdentityNames, service : Services]

\* An iteration over any slots reaches one slot first.
ASSUME RankAssumption ==
    /\ Rank \in [Slots -> Int]
    /\ \A r, q \in Slots : Rank[r] = Rank[q] => r = q
    /\ \A S \in SUBSET Slots : S # {} => \E r \in S : \A q \in S : Rank[r] <= Rank[q]

ASSUME SessionAssumption ==
    /\ Users \cup Roles \cup {DefaultName} \subseteq IdentityNames
    /\ Empty \notin Users
    /\ DefaultRole \in Roles
    /\ DeviceType \in RealmTypes /\ GlobalType \in RealmTypes
    /\ \E S \in SUBSET Slots : Bindings \in [S -> Services]
    /\ Unbound \subseteq Services
    /\ Anonymous \in Services /\ \A s \in StoreServices : ~SameService(s, Anonymous)
    /\ Grants \subseteq Grant
    /\ Requests \subseteq [perm : Permissions, hint : Realm, name : Users \cup {Empty},
                           interactive : BOOLEAN, auto : BOOLEAN]
    /\ Logins \subseteq [hint : Realm, name : Users \cup {Empty}]
    /\ TypedRealms \subseteq Realm
    /\ AppCredentials \subseteq Credential
    /\ AccountChanges \subseteq StoreServices \X Users \X Account
    /\ InitAccounts \in Accounts
    /\ NoAccount \notin Account
    /\ NoService \notin Services /\ NoPermission \notin Permissions

Call == [op          : {"none", "request", "login", "cached"},
         phase       : {"none", "check", "cached", "services", "prompt", "returned"},
         perm        : Permissions \cup {NoPermission},
         hint        : Realm,      \* options.realmHint
         scope       : Realm,      \* the resolved hint, NoRealm for none
         name        : Users \cup {Empty},   \* options.nameHint
         interactive : BOOLEAN,    \* options allow a prompt
         auto        : BOOLEAN,    \* options.allowAutoLogin
         todo        : SUBSET Services,      \* services still to try
         service     : Services \cup {NoService},
         cached      : SUBSET Credential,    \* cached credentials to replay
         activated   : BOOLEAN,              \* a replay succeeded
         value       : {"none", "Allow", "Deny", "true", "false"}]

NoCall == [op |-> "none", phase |-> "none", perm |-> NoPermission, hint |-> NoRealm,
           scope |-> NoRealm, name |-> Empty, interactive |-> FALSE, auto |-> FALSE,
           todo |-> {}, service |-> NoService, cached |-> {}, activated |-> FALSE,
           value |-> "none"]

TypeOK ==
    /\ active \subseteq Identity
    /\ suppress \in BOOLEAN
    /\ creds \subseteq Credential
    /\ accounts \in Accounts
    /\ held \subseteq Identity
    /\ call \in Call

-------------------------------------------------------------------------------
(* Identity services.                                                      *)

WithType(realm, type) == [realm EXCEPT !.type = IF @ = Empty THEN type ELSE @]

\* AnonymousIdentityService::login
AnonymousSet(hint) ==
    {[type |-> t, name |-> DefaultName, realm |-> WithType(hint, GlobalType),
      source |-> "Auto", owner |-> DefaultName, service |-> Anonymous] :
        t \in {"anonymous", "public"}}

\* StoreIdentityService::login verifies the account the credential names, or
\* the one the request names when the credential names none.
Subject(c, name) == IF c.subject = Empty THEN name ELSE c.subject

VerifiedIfDisabled(s, c, name) ==   \* mutant of Verified
    LET u == Subject(c, name)
    IN  u # Empty /\ accounts[s][u] # NoAccount /\ accounts[s][u].secret = c.secret

Verified(s, c, name) ==
    LET u == Subject(c, name)
    IN  /\ u # Empty
        /\ accounts[s][u] # NoAccount
        /\ accounts[s][u].secret = c.secret
        /\ accounts[s][u].enabled

LoginRealm(c, hint) == WithType(IF IsEmpty(c.realm) THEN hint ELSE c.realm, DeviceType)

RolesOf(s, u) == IF accounts[s][u].roles = {} THEN {DefaultRole} ELSE accounts[s][u].roles

LoginIdentity(t, n, s, u, realm) ==
    [type |-> t, name |-> n, realm |-> realm, source |-> "Login", owner |-> u, service |-> s]

\* The user and one identity per role, all in one realm.
LoginSet(s, c, name, hint) ==
    LET u == Subject(c, name)
        r == LoginRealm(c, hint)
    IN  {LoginIdentity("user", u, s, u, r)}
            \cup {LoginIdentity("role", n, s, u, r) : n \in RolesOf(s, u)}

\* CredentialManager::get and list: the filter on a cached credential.
Usable(c, name, s, hint) ==
    /\ name = Empty \/ c.subject = Empty \/ name = c.subject
    /\ c.serviceHint = Empty \/ c.serviceHint = ServiceId[s]
    /\ Match(c.realm, hint)

-------------------------------------------------------------------------------
(* The session.                                                            *)

IsLogin(i) == i.source = "Login"

LoginsIn(ids, realm) == {i \in ids : IsLogin(i) /\ ScopedEqual(i.realm, realm)}

ActivatedInExactRealm(ids) ==       \* mutant of Activated
    LET cleared  == {j \in active : IsLogin(j) /\ \E i \in ids : i.realm = j.realm}
        replaced == {j \in active : \E i \in ids : RefEq(j, i)}
    IN  (active \ (cleared \cup replaced)) \cup ids

ActivatedClearingAll(ids) ==        \* mutant of Activated
    {j \in active : \A i \in ids : ~ScopedEqual(j.realm, i.realm)} \cup ids

\* SecurityManager::activate on the identities of one login, all in one realm:
\* the login sessions of their realm go first, then each is put in the place
\* of whatever has an equal reference.
Activated(ids) ==
    LET cleared  == UNION {LoginsIn(active, i.realm) : i \in {j \in ids : IsLogin(j) /\ HasKey(j.realm)}}
        replaced == {j \in active : \E i \in ids : RefEq(j, i)}
    IN  (active \ (cleared \cup replaced)) \cup ids

InScope(ids, realm) == IF HasKey(realm) THEN {i \in ids : Match(i.realm, realm)} ELSE ids

\* SecurityManager::checkPermission
Check(perm, hint) == Normalize(Decide(Grants, InScope(active, hint), perm))

Init ==
    /\ active = {}
    /\ suppress = FALSE
    /\ creds = {}
    /\ accounts = InitAccounts
    /\ held = {}
    /\ call = NoCall

Idle == call.op = "none"

Pool == UniqueServices(Bindings, Unbound)

\* start(): every auto-login service, whatever m_suppressAutoLogin says.
Start ==
    /\ Idle
    /\ Anonymous \in Pool
    /\ active' = Activated(AnonymousSet(NoRealm))
    /\ UNCHANGED <<suppress, creds, accounts, held, call>>

LogoutOne ==
    /\ Idle
    /\ \E i \in active : active' = {j \in active : ~RefEq(j, i)}
    /\ suppress' = TRUE
    /\ UNCHANGED <<creds, accounts, held, call>>

LogoutType ==
    /\ Idle
    /\ \E t \in IdentityTypes : active' = {j \in active : j.type # t}
    /\ suppress' = TRUE
    /\ UNCHANGED <<creds, accounts, held, call>>

LogoutAll ==
    /\ Idle
    /\ active' = {}
    /\ suppress' = TRUE
    /\ UNCHANGED <<creds, accounts, held, call>>

LogoutRealm ==
    /\ Idle
    /\ \E o \in Logins : active' = active \ LoginsIn(active, o.hint)
    /\ suppress' = TRUE
    /\ UNCHANGED <<creds, accounts, held, call>>

-------------------------------------------------------------------------------
(* authenticate() verifies without a session; the caller holds the result  *)
(* and may activate it later.  The credential is moved into the request of *)
(* the first service, so that later services see an empty one and refuse.  *)

Authenticate ==
    /\ Idle
    /\ \E c \in AppCredentials, o \in Logins :
        LET hint == ResolveRealmHint(Bindings, o.hint)
            pool == FindByRealm(Bindings, Unbound, hint) \ {Anonymous}
        IN  IF pool = {} THEN held' = {}
            ELSE \E s \in pool :
                    held' = IF Verified(s, c, o.name) THEN LoginSet(s, c, o.name, hint)
                            ELSE {}
    /\ UNCHANGED <<active, suppress, creds, accounts, call>>

ActivateHeld ==
    /\ Idle
    /\ held # {}
    /\ active' = Activated(held)
    /\ held' = {}
    /\ UNCHANGED <<suppress, creds, accounts, call>>

-------------------------------------------------------------------------------
(* Calls that loop.                                                        *)

StartRequest ==
    /\ Idle
    /\ \E o \in Requests :
        call' = [NoCall EXCEPT !.op = "request", !.phase = "check", !.perm = o.perm,
                               !.hint = o.hint, !.name = o.name,
                               !.interactive = o.interactive, !.auto = o.auto,
                               !.scope = ResolveRealmHint(Bindings, o.hint)]
    /\ UNCHANGED <<active, suppress, creds, accounts, held>>

\* login() replaces the hint by the resolved one and always allows a prompt.
StartLogin ==
    /\ Idle
    /\ \E o \in Logins :
        LET hint == ResolveRealmHint(Bindings, o.hint)
        IN  call' = [NoCall EXCEPT !.op = "login", !.phase = "cached", !.hint = hint,
                                   !.scope = hint, !.name = o.name, !.interactive = TRUE,
                                   !.todo = Pool \ {Anonymous}]
    /\ UNCHANGED <<active, suppress, creds, accounts, held>>

StartCached ==
    /\ Idle
    /\ \E o \in Logins :
        call' = [NoCall EXCEPT !.op = "cached", !.phase = "cached", !.hint = o.hint,
                               !.todo = Pool \ {Anonymous}]
    /\ UNCHANGED <<active, suppress, creds, accounts, held>>

Return(value) == call' = [call EXCEPT !.phase = "returned", !.value = value]

\* The caller takes the result.
Deliver ==
    /\ call.phase = "returned"
    /\ call' = NoCall
    /\ UNCHANGED <<active, suppress, creds, accounts, held>>

\* requestPermission before its loop.  The identities it decides on are a
\* copy taken before the auto-login, and the second check looks at that same
\* copy, so it cannot decide what the first did not.
RequestCheck ==
    /\ call.phase = "check"
    /\ LET decision == Decide(Grants, InScope(active, call.scope), call.perm)
           auto == call.auto /\ ~suppress /\ Anonymous \in Pool
       IN  IF decision # "Unknown"
           THEN Return(decision) /\ UNCHANGED active
           ELSE /\ active' = IF auto THEN Activated(AnonymousSet(call.hint)) ELSE active
                /\ call' = [call EXCEPT !.phase = "services",
                                        !.todo = FindByRealm(Bindings, Unbound, call.hint)]
    /\ UNCHANGED <<suppress, creds, accounts, held>>

\* A service of the loop: the unbound ones are listed before the bound ones.
NextService(s) ==
    /\ call.phase = "services"
    /\ s \in call.todo
    /\ s \in Unbound \/ call.todo \cap Unbound = {}

\* The service did not log anybody in: the loop goes on.
Continue(s) ==
    /\ call' = [call EXCEPT !.phase = "services", !.todo = @ \ {s}, !.service = NoService]
    /\ UNCHANGED <<active, suppress, creds>>

LoggedInUnscoped(s, ids) ==         \* mutant of LoggedIn
    LET decision == Decide(Grants, Activated(ids), call.perm)
    IN  /\ active' = Activated(ids)
        /\ IF call.op = "login" THEN Return("true")
           ELSE IF decision # "Unknown" THEN Return(decision)
           ELSE call' = [call EXCEPT !.phase = "services", !.todo = @ \ {s},
                                     !.service = NoService]

\* The service logged ids in: login() returns, requestPermission() decides
\* again and goes on while the policy stays silent.
LoggedIn(s, ids) ==
    LET decision == Decide(Grants, InScope(Activated(ids), call.scope), call.perm)
    IN  /\ active' = Activated(ids)
        /\ IF call.op = "login" THEN Return("true")
           ELSE IF decision # "Unknown" THEN Return(decision)
           ELSE call' = [call EXCEPT !.phase = "services", !.todo = @ \ {s},
                                     !.service = NoService]

\* An auto-login service in the loop is skipped by a call that may prompt and
\* by login(), and logs in otherwise.
TryAnonymous ==
    /\ NextService(Anonymous)
    /\ IF call.interactive THEN Continue(Anonymous)
       ELSE /\ LoggedIn(Anonymous, AnonymousSet(call.hint))
            /\ UNCHANGED <<suppress, creds>>
    /\ UNCHANGED <<accounts, held>>

UsableCached(s) == {c \in creds : Usable(c, call.name, s, call.hint)}

\* A cached credential is tried without a prompt, whether it works or not.
TryCached(s) ==
    /\ NextService(s)
    /\ s # Anonymous
    /\ \E c \in UsableCached(s) :
        IF Verified(s, c, call.name)
        THEN /\ LoggedIn(s, LoginSet(s, c, call.name, call.hint))
             /\ suppress' = IF call.op = "login" THEN FALSE ELSE suppress
             /\ UNCHANGED creds
        ELSE Continue(s)
    /\ UNCHANGED <<accounts, held>>

\* No credential: the service asks for one, and only a call that may prompt
\* shows the form.
OpenPrompt(s) ==
    /\ NextService(s)
    /\ s # Anonymous
    /\ UsableCached(s) = {}
    /\ IF call.interactive
       THEN /\ call' = [call EXCEPT !.phase = "prompt", !.service = s]
            /\ UNCHANGED <<active, suppress, creds>>
       ELSE Continue(s)
    /\ UNCHANGED <<accounts, held>>

\* credentialFromLoginForm: what is left blank comes from the hint.
TypedRealm(typed) ==
    WithType([f \in {"type", "uuid", "name"} |->
                IF typed[f] # Empty THEN typed[f] ELSE call.hint[f]], DeviceType)

CancelPrompt ==
    /\ call.phase = "prompt"
    /\ Continue(call.service)
    /\ UNCHANGED <<accounts, held>>

\* The person submits the form: a login that succeeds lifts the suppression
\* of auto-login and is remembered in the cache.
SubmitPrompt ==
    /\ call.phase = "prompt"
    /\ \E u \in Users, x \in Secrets, typed \in TypedRealms :
        LET c == [subject |-> u, realm |-> TypedRealm(typed), secret |-> x,
                  serviceHint |-> ServiceId[call.service]]
        IN  IF Verified(call.service, c, call.name)
            THEN /\ LoggedIn(call.service, LoginSet(call.service, c, call.name, call.hint))
                 /\ suppress' = FALSE
                 /\ creds' = creds \cup {c}
                 /\ Cardinality(creds') <= MaxCached
            ELSE Continue(call.service)
    /\ UNCHANGED <<accounts, held>>

LoopEnd ==
    /\ call.phase = "services"
    /\ call.todo = {}
    /\ Return(IF call.op = "login" THEN "false" ELSE "Deny")
    /\ UNCHANGED <<active, suppress, creds, accounts, held>>

-------------------------------------------------------------------------------
(* activateCachedCredentials(): every usable credential of every service   *)
(* is replayed, one after the other.                                       *)

CachedService ==
    /\ call.phase = "cached"
    /\ call.cached = {}
    /\ \E s \in call.todo :
        call' = [call EXCEPT !.service = s, !.todo = @ \ {s},
                             !.cached = {c \in creds : Usable(c, Empty, s, call.hint)}]
    /\ UNCHANGED <<active, suppress, creds, accounts, held>>

CachedOneRetried ==                 \* mutant of CachedOne
    /\ call.phase = "cached"
    /\ \E c \in call.cached :
        IF Verified(call.service, c, Empty)
        THEN /\ active' = Activated(LoginSet(call.service, c, Empty, NoRealm))
             /\ call' = [call EXCEPT !.cached = @ \ {c}, !.activated = TRUE]
        ELSE UNCHANGED <<active, call>>
    /\ UNCHANGED <<suppress, creds, accounts, held>>

\* A credential stored without a realm gets the one it logged in to.
CachedOne ==
    /\ call.phase = "cached"
    /\ \E c \in call.cached :
        IF Verified(call.service, c, Empty)
        THEN /\ active' = Activated(LoginSet(call.service, c, Empty, NoRealm))
             /\ creds' = IF IsEmpty(c.realm)
                         THEN (creds \ {c}) \cup {[c EXCEPT !.realm = LoginRealm(c, NoRealm)]}
                         ELSE creds
             /\ call' = [call EXCEPT !.cached = @ \ {c}, !.activated = TRUE]
        ELSE /\ call' = [call EXCEPT !.cached = @ \ {c}]
             /\ UNCHANGED <<active, creds>>
    /\ UNCHANGED <<suppress, accounts, held>>

CachedEndLiftsEarly ==              \* mutant of CachedEnd
    /\ call.phase = "cached"
    /\ call.cached = {} /\ call.todo = {}
    /\ suppress' = IF call.op = "login" THEN FALSE ELSE suppress
    /\ IF call.op = "cached" \/ call.activated
       THEN Return(IF call.activated THEN "true" ELSE "false")
       ELSE call' = [call EXCEPT !.phase = "services", !.service = NoService,
                    !.todo = FindByRealm(Bindings, Unbound, call.hint) \ {Anonymous}]
    /\ UNCHANGED <<active, creds, accounts, held>>

\* login() is content with any replay; otherwise it tries the services of the
\* hint, those of the identity type "user".
CachedEnd ==
    /\ call.phase = "cached"
    /\ call.cached = {} /\ call.todo = {}
    /\ IF call.op = "cached" \/ call.activated
       THEN /\ Return(IF call.activated THEN "true" ELSE "false")
            /\ suppress' = IF call.op = "login" THEN FALSE ELSE suppress
       ELSE /\ call' = [call EXCEPT !.phase = "services", !.service = NoService,
                    !.todo = FindByRealm(Bindings, Unbound, call.hint) \ {Anonymous}]
            /\ UNCHANGED suppress
    /\ UNCHANGED <<active, creds, accounts, held>>

-------------------------------------------------------------------------------
(* The application and the administrator.                                  *)

PutCredential ==
    /\ Idle
    /\ \E c \in AppCredentials : creds' = creds \cup {c}
    /\ Cardinality(creds') <= MaxCached
    /\ UNCHANGED <<active, suppress, accounts, held, call>>

RemoveCredential ==
    /\ Idle
    /\ \E c \in creds : creds' = creds \ {c}
    /\ UNCHANGED <<active, suppress, accounts, held, call>>

ChangeAccount ==
    /\ Idle \/ call.phase = "prompt"
    /\ \E change \in AccountChanges :
        accounts' = [accounts EXCEPT ![change[1]][change[2]] = change[3]]
    /\ UNCHANGED <<active, suppress, creds, held, call>>

CallStep ==
    \/ RequestCheck
    \/ TryAnonymous
    \/ \E s \in StoreServices : TryCached(s) \/ OpenPrompt(s)
    \/ CancelPrompt
    \/ SubmitPrompt
    \/ LoopEnd
    \/ CachedService
    \/ CachedOne
    \/ CachedEnd
    \/ Deliver

Next ==
    \/ Start \/ LogoutOne \/ LogoutType \/ LogoutAll \/ LogoutRealm
    \/ Authenticate \/ ActivateHeld
    \/ StartRequest \/ StartLogin \/ StartCached
    \/ CallStep
    \/ PutCredential \/ RemoveCredential \/ ChangeAccount

Spec == Init /\ [][Next]_vars

FairSpec == Spec /\ WF_vars(CallStep)

-------------------------------------------------------------------------------
(* Properties.                                                             *)

\* No session mixes two logins: the login identities of one realm slot were all
\* opened by one account of one service object, so a user switch leaves no role
\* of the user before behind (activate, SecurityManager.cpp:108).
SessionsDoNotMix ==
    \A i, j \in active : IsLogin(i) /\ IsLogin(j) /\ ScopedEqual(i.realm, j.realm) =>
        i.owner = j.owner /\ i.service = j.service

\* The anonymous principals outlive every login, user switch and realm logout:
\* only an explicit logout of them takes them away, and a later auto-login
\* replaces them by their equals (SecurityArch.md, design invariant 1).
AutoSurvivesLogin ==
    [][\/ LogoutOne \/ LogoutType \/ LogoutAll
       \/ \A i \in active : ~IsLogin(i) => \E j \in active' : ~IsLogin(j) /\ RefEq(i, j)]_vars

\* What makes auto-login possible again after a logout is a password login that
\* worked: the step that lifts the suppression leaves a login session behind.
LiftedByLogin == [][suppress /\ ~suppress' => \E i \in active' : IsLogin(i)]_vars

\* A request that returns Allow decided on the session as it is at that moment,
\* after whatever logins it performed, and under the hint it was given.
AllowIsCurrent ==
    call.phase = "returned" /\ call.value = "Allow" =>
        Decide(Grants, InScope(active, call.scope), call.perm) = "Allow"

\* A call opens a session only for an account that exists and is enabled when
\* the session is opened, with the roles it has then, even when the account
\* changed while the person was typing.
Backed(i) ==
    /\ accounts[i.service][i.owner] # NoAccount
    /\ accounts[i.service][i.owner].enabled
    /\ i.type = "role" => i.name \in RolesOf(i.service, i.owner)

LoginsAreBacked ==
    [][call.op # "none" => \A i \in active' \ active : IsLogin(i) => Backed(i)]_vars

\* Every call returns, whatever the cache, the services and the person do.
CallReturns == call.op # "none" ~> call.op = "none"

===============================================================================
