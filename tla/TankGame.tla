------------------------------- MODULE TankGame -------------------------------
(***************************************************************************)
(* tanks_game: two devices with their own accounts and permissions, driven *)
(* from one keyboard.  A key that is not permitted to the device's session *)
(* opens a dialog that asks for somebody who is; what the dialogs do to    *)
(* the SecurityManager, to the tanks, to the event log and to the screen   *)
(* is the state below.  Each step is what the program does from one key to *)
(* the next time it waits for one, the redraw in between included.         *)
(*                                                                         *)
(* The manager's part is what this program can see of it.  Both devices    *)
(* register a StoreIdentityService, and every one of these has the same    *)
(* id, so that IdentityRegistry::list answers only the one it meets first: *)
(* the store of the device listed.  A session is the user whose identities *)
(* are active in the device's realm; at most one is, since activate clears *)
(* the login session of the realm first.                                   *)
(***************************************************************************)
EXTENDS TankLayout, Sequences, FiniteSets

CONSTANTS
    Devices,      \* the tanks
    FirstDevice,
    Users, Secrets,
    Accounts,     \* [Devices -> a function from its users to their passwords]
    Permits,      \* [Devices -> [Users -> SUBSET Ops]], what the policy allows
    NoUser,
    FirstMet,     \* the devices whose service a listing may meet first
    Keys,         \* the operations whose keys are pressed
    Typed,        \* what people type into the forms, <<user, password>>
    Terms,        \* terminal sizes <<rows, cols>>
    MaxLogins,    \* bound on the credentials the game puts into the manager
    MaxBatch,     \* and a batch
    MaxBullets,   \* bound on the bullets of a tank
    MaxOps        \* bound on the operations carried out

VARIABLES
    listed,       \* the device whose service IdentityRegistry::list answers
    session,      \* the user active in a device's realm
    creds,        \* the credential manager's list, oldest first
    term,         \* the terminal's size
    layout,       \* the layout in use
    screen,       \* what waits for a key
    active,       \* the device the keys go to
    op,           \* the operation a dialog is about
    sims,         \* the tanks
    log,          \* the number of lines in the event log
    ops,          \* the operations carried out so far
    proven        \* history: who has given a right password at which device

vars == <<listed, session, creds, term, layout, screen, active, op, sims, log, ops, proven>>

Moves == {"left", "right", "forward", "backward"}

Ops == {"start", "stop", "fire"} \cup Moves

NoOp == "none"

ASSUME TankAssumption ==
    /\ FirstDevice \in Devices
    /\ NoUser \notin Users
    /\ \A d \in Devices : DOMAIN Accounts[d] \subseteq Users
    /\ \A d \in Devices : \A u \in Users : Permits[d][u] \subseteq Ops
    /\ FirstMet \subseteq Devices /\ Keys \subseteq Ops
    /\ Typed \subseteq Users \X Secrets
    /\ \A t \in Terms : t[1] \in Nat /\ t[2] \in Nat
    /\ MaxLogins \in Nat /\ MaxBatch \in Nat /\ MaxBullets \in Nat /\ MaxOps \in Nat

-------------------------------------------------------------------------------
(* The tanks.                                                              *)

\* One step in the direction of a facing.
Dx(facing) == IF facing = 1 THEN 1 ELSE IF facing = 3 THEN -1 ELSE 0
Dy(facing) == IF facing = 0 THEN -1 ELSE IF facing = 2 THEN 1 ELSE 0

\* The cells a tank and its bullets may be on.
OnField(p, l) == p.x \in 1 .. l.fieldW - 2 /\ p.y \in 1 .. l.fieldH - 2

clampTankSim(sim, l) ==
    [sim EXCEPT !.x = ClampTo(@, 1, MostOf(1, l.fieldW - 2)),
                !.y = ClampTo(@, 1, MostOf(1, l.fieldH - 2))]

initTankSim(l) ==
    [x |-> l.fieldW \div 2, y |-> l.fieldH \div 2, facing |-> 0, running |-> FALSE,
     bullets |-> <<>>]

Driven(sim, sign, l) ==
    [sim EXCEPT !.x = ClampTo(@ + sign * Dx(sim.facing), 1, l.fieldW - 2),
                !.y = ClampTo(@ + sign * Dy(sim.facing), 1, l.fieldH - 2)]

\* An operation that was allowed.  The engine need not run for any of them.
applySim(sim, o, l) ==
    CASE o \in {"start", "stop"} -> [sim EXCEPT !.running = (o = "start")]
      [] o = "fire"  -> [sim EXCEPT !.bullets =
                            Append(@, [x |-> sim.x, y |-> sim.y, facing |-> sim.facing])]
      [] o = "left"  -> [sim EXCEPT !.facing = (@ + 3) % 4]
      [] o = "right" -> [sim EXCEPT !.facing = (@ + 1) % 4]
      [] o = "forward"  -> Driven(sim, 1, l)
      [] o = "backward" -> Driven(sim, -1, l)

\* Those of the elements of s, in their order, whose positions are in kept.
KeptOf(s, kept) ==
    [n \in 1 .. Cardinality(kept) |->
        s[CHOOSE i \in kept : Cardinality({j \in kept : j <= i}) = n]]

\* A redraw moves every bullet one cell and drops those that leave the field.
advanceBullets(sim, l) ==
    LET moved == [i \in DOMAIN sim.bullets |->
                    [sim.bullets[i] EXCEPT !.x = @ + Dx(sim.bullets[i].facing),
                                           !.y = @ + Dy(sim.bullets[i].facing)]]
    IN  [sim EXCEPT !.bullets = KeptOf(moved, {i \in DOMAIN moved : OnField(moved[i], l)})]

Redrawn(tanks, l) == [d \in Devices |-> advanceBullets(tanks[d], l)]

\* pushLog, n times.
Pushed(n, l) == LeastOf(log + n, l.logLines)

-------------------------------------------------------------------------------
(* The session.                                                            *)

VerifiedBy(d, c) == c.user \in DOMAIN Accounts[d] /\ Accounts[d][c.user] = c.secret

\* What of the list activateCachedCredentials tries for device d, from the oldest on:
\* whoever they name, the credentials for its realm that the listed store accepts.
Replayed(cs, d) == {i \in DOMAIN cs : cs[i].device = d /\ VerifiedBy(listed, cs[i])}

\* The one credential tryLoginWithService is given for user u, the oldest there is.
Offered(cs, d, u) ==
    LET theirs == {i \in DOMAIN cs : cs[i].device = d /\ cs[i].user = u}
    IN  cs[CHOOSE i \in theirs : \A j \in theirs : i <= j]

\* SecurityManager::login: who the device's session belongs to afterwards,
\* NoUser when nobody could be logged in.
LoggedIn(cs, d, u) ==
    IF Replayed(cs, d) # {}
    THEN cs[CHOOSE i \in Replayed(cs, d) : \A j \in Replayed(cs, d) : i >= j].user
    ELSE IF VerifiedBy(d, Offered(cs, d, u)) THEN u
    ELSE NoUser

\* SecurityManager::checkPermission in the device's realm.
MayCarryOut(d, o) == session[d] # NoUser /\ o \in Permits[d][session[d]]

Proven(d, c) ==
    IF \E s \in Devices : VerifiedBy(s, c) THEN [proven EXCEPT ![d] = @ \cup {c.user}]
    ELSE proven

\* On a terminal that is too small the program says so and ends.
Init ==
    /\ listed \in FirstMet
    /\ session = [d \in Devices |-> NoUser]
    /\ creds = <<>>
    /\ term \in Terms
    /\ layout = computeLayout(term[1], term[2])
    /\ layout # NoLayout
    /\ screen \in {"batch", "keys"}
    /\ active = FirstDevice
    /\ op = NoOp
    /\ sims = [d \in Devices |-> initTankSim(layout)]
    /\ log = LeastOf(4, layout.logLines)
    /\ ops = 0
    /\ proven = [d \in Devices |-> {}]

-------------------------------------------------------------------------------
(* Keys of the main loop.                                                  *)

manager == <<listed, session, creds, proven>>

\* Back to the main loop after n lines for the log: redraw and wait for a key.
BackToKeys(n) ==
    /\ screen' = "keys"
    /\ op' = NoOp
    /\ log' = Pushed(n, layout)

Refused ==
    /\ BackToKeys(1)
    /\ sims' = Redrawn(sims, layout)
    /\ UNCHANGED <<session, ops>>

Carried(o, lines) ==
    /\ ops < MaxOps
    /\ o = "fire" => Len(sims[active].bullets) < MaxBullets
    /\ BackToKeys(lines)
    /\ sims' = Redrawn([sims EXCEPT ![active] = applySim(@, o, layout)], layout)
    /\ ops' = ops + 1

Quit ==
    /\ screen = "keys"
    /\ screen' = "over"
    /\ UNCHANGED <<manager, term, layout, active, op, sims, log, ops>>

Switch ==
    /\ screen = "keys"
    /\ \E d \in Devices \ {active} : active' = d
    /\ BackToKeys(1)
    /\ sims' = Redrawn(sims, layout)
    /\ UNCHANGED <<manager, term, layout, ops>>

OtherKey ==
    /\ screen = "keys"
    /\ sims' = Redrawn(sims, layout)
    /\ UNCHANGED <<manager, term, layout, screen, active, op, log, ops>>

\* relayoutGame: the tanks are moved onto the new field and the log is cut.
RelaidOut(l) ==
    /\ layout' = l
    /\ sims' = Redrawn([d \in Devices |-> clampTankSim(sims[d], l)], l)
    /\ log' = LeastOf(log, l.logLines)
    /\ UNCHANGED screen

relayoutGame(l) ==
    IF l = NoLayout
    THEN screen' = "over" /\ UNCHANGED <<layout, sims, log>>
    ELSE RelaidOut(l)

Resize ==
    /\ screen = "keys"
    /\ \E t \in Terms \ {term} :
        /\ term' = t
        /\ relayoutGame(computeLayout(t[1], t[2]))
    /\ UNCHANGED <<manager, active, op, ops>>

-------------------------------------------------------------------------------
(* Dialogs.  A dialog is a window in the middle of the terminal; it cannot *)
(* be opened on one that has become too small for it.                      *)

NumAccounts(d) == Cardinality(DOMAIN Accounts[d])

LoginHeight(d) == 8 + NumAccounts(d)
ElevateHeight(d) == 10 + NumAccounts(d)
NoticeHeight == 7

Opens(height, t) == height <= t[1] /\ t[2] > 4

\* The user field and then the password field; Esc in either of them, or an
\* empty one, cancels the form.
Filled == {[user |-> p[1], secret |-> p[2]] : p \in Typed}

OpenLogin(t, screenIfShown) ==
    IF Opens(LoginHeight(active), t)
    THEN screen' = screenIfShown /\ UNCHANGED <<op, log, sims>>
    ELSE BackToKeys(1) /\ sims' = Redrawn(sims, layout)

LoginKey ==
    /\ screen = "keys"
    /\ OpenLogin(term, "login")
    /\ UNCHANGED <<manager, term, layout, active, ops>>

CancelLogin ==
    /\ screen = "login"
    /\ BackToKeys(1)
    /\ sims' = Redrawn(sims, layout)
    /\ UNCHANGED <<manager, term, layout, active, ops>>

\* loginUser puts what was typed into the credential manager, where it stays,
\* and then calls login() with the user's name as a hint.
SubmitLogin ==
    /\ screen = "login"
    /\ Len(creds) < MaxLogins
    /\ \E f \in Filled :
        LET c    == [device |-> active, user |-> f.user, secret |-> f.secret]
            cs   == Append(creds, c)
            who  == LoggedIn(cs, active, f.user)
        IN  /\ creds' = cs
            /\ proven' = Proven(active, c)
            /\ IF who # NoUser
               THEN /\ session' = [session EXCEPT ![active] = who]
                    /\ BackToKeys(1)
                    /\ sims' = Redrawn(sims, layout)
               ELSE /\ log' = Pushed(1, layout)
                    /\ UNCHANGED <<session, op>>
                    /\ IF Opens(NoticeHeight, term)
                       THEN screen' = "login failed" /\ UNCHANGED sims
                       ELSE screen' = "keys" /\ sims' = Redrawn(sims, layout)
    /\ UNCHANGED <<listed, term, layout, active, ops>>

\* Any key but Esc and q is a retry.
AfterFailedLogin ==
    /\ screen = "login failed"
    /\ \/ OpenLogin(term, "login")
       \/ BackToKeys(0) /\ sims' = Redrawn(sims, layout)
    /\ UNCHANGED <<manager, term, layout, active, ops>>

OpenElevate(o, t) ==
    IF Opens(ElevateHeight(active), t)
    THEN screen' = "elevate" /\ op' = o /\ UNCHANGED <<session, sims, log, ops>>
    ELSE Refused

\* performOp: requestOp, and on a refusal tryElevatedOp.
OpKeyUnchecked(o) ==                  \* mutant of OpKey
    /\ screen = "keys"
    /\ IF session[active] # NoUser THEN Carried(o, 1) /\ UNCHANGED session
       ELSE OpenElevate(o, term)
    /\ UNCHANGED <<listed, creds, proven, term, layout, active>>

OpKey(o) ==
    /\ screen = "keys"
    /\ IF MayCarryOut(active, o) THEN Carried(o, 1) /\ UNCHANGED session
       ELSE OpenElevate(o, term)
    /\ UNCHANGED <<listed, creds, proven, term, layout, active>>

CancelElevate ==
    /\ screen = "elevate"
    /\ Refused
    /\ UNCHANGED <<listed, creds, proven, term, layout, active>>

ElevatedAlways(u) ==                  \* mutant of Elevated
    /\ session' = [session EXCEPT ![active] = u]
    /\ Carried(op, IF session[active] = NoUser THEN 2 ELSE 1)

\* The operation is carried out for user u; the session becomes theirs only
\* when the device had none.
Elevated(u) ==
    IF session[active] = NoUser
    THEN session' = [session EXCEPT ![active] = u] /\ Carried(op, 2)
    ELSE Carried(op, 1) /\ UNCHANGED session

\* authenticate() asks the device's own service.
SubmitElevate ==
    /\ screen = "elevate"
    /\ \E f \in Filled :
        LET c == [device |-> active, user |-> f.user, secret |-> f.secret]
        IN  /\ proven' = Proven(active, c)
            /\ IF VerifiedBy(active, c) /\ op \in Permits[active][f.user] THEN Elevated(f.user)
               ELSE IF Opens(NoticeHeight, term)
               THEN screen' = "denied" /\ UNCHANGED <<session, op, sims, log, ops>>
               ELSE Refused
    /\ UNCHANGED <<listed, creds, term, layout, active>>

AfterDenied ==
    /\ screen = "denied"
    /\ \/ OpenElevate(op, term)
       \/ Refused
    /\ UNCHANGED <<listed, creds, proven, term, layout, active>>

\* A form ignores KEY_RESIZE, and an error notice takes it for a retry: the
\* main loop never hears of the new size.
ResizeInDialog ==
    /\ screen \in {"login", "login failed", "elevate", "denied"}
    /\ \E t \in Terms \ {term} :
        /\ term' = t
        /\ CASE screen = "login failed" -> OpenLogin(t, "login") /\ UNCHANGED <<session, ops>>
             [] screen = "denied" -> OpenElevate(op, t)
             [] OTHER -> UNCHANGED <<screen, op, session, sims, log, ops>>
    /\ UNCHANGED <<listed, creds, proven, layout, active>>

\* --batch: a line of input logs in on a device, or asks for an operation,
\* which is answered and changes nothing.
BatchLogin ==
    /\ screen = "batch"
    /\ Len(creds) < MaxBatch
    /\ \E d \in Devices, f \in Filled :
        LET c   == [device |-> d, user |-> f.user, secret |-> f.secret]
            cs  == Append(creds, c)
            who == LoggedIn(cs, d, f.user)
        IN  /\ creds' = cs
            /\ proven' = Proven(d, c)
            /\ session' = IF who = NoUser THEN session ELSE [session EXCEPT ![d] = who]
    /\ UNCHANGED <<listed, term, layout, screen, active, op, sims, log, ops>>

Next ==
    \/ Quit \/ Switch \/ OtherKey \/ Resize
    \/ LoginKey \/ CancelLogin \/ SubmitLogin \/ AfterFailedLogin
    \/ \E o \in Keys : OpKey(o)
    \/ CancelElevate \/ SubmitElevate \/ AfterDenied
    \/ ResizeInDialog
    \/ BatchLogin

Spec == Init /\ [][Next]_vars

-------------------------------------------------------------------------------
(* Properties.                                                             *)

\* However the terminal is resized, the windows are the tiling of some
\* terminal: inside it, below its title bar, and none over another
\* (computeLayout, createGameWindows).
WindowsTile ==
    \E t \in Terms : layout = computeLayout(t[1], t[2]) /\ Tiled(layout, t[1], t[2])

Pose(sim) == [x |-> sim.x, y |-> sim.y, facing |-> sim.facing, running |-> sim.running]

Relaid(sim, l) == IF l = layout THEN sim ELSE clampTankSim(sim, l)

MovedByRight ==
    ops' # ops =>
        \E u \in proven'[active] : \E o \in Permits[active][u] :
            Pose(sims'[active]) = Pose(applySim(sims[active], o, layout))

OthersStay ==
    \A d \in Devices : d # active \/ ops' = ops =>
        /\ Pose(sims'[d]) = Pose(Relaid(sims[d], layout'))
        /\ Len(sims'[d].bullets) <= Len(sims[d].bullets)

\* A tank moves, turns, fires or starts only by an operation the policy allows
\* to somebody who has given a right password at that very device, and every
\* other step, a login, a refusal or a resize, leaves it where it is, up to
\* the clamp of a smaller field (performOp, tryElevatedOp).
TanksObey == [][MovedByRight /\ OthersStay]_vars

\* The session of a device changes only by a login on that device, or by an
\* elevation when there is no session: lending a permission to one operation
\* never replaces who is logged in, and never touches the other device.
SessionsChangeByLogin ==
    [][\A d \in Devices : session'[d] # session[d] =>
        \/ screen = "batch"
        \/ d = active /\ screen = "login"
        \/ d = active /\ screen = "elevate" /\ session[d] = NoUser]_vars

===============================================================================
