---------------------------- MODULE TankGameProofs ----------------------------
(***************************************************************************)
(* The windows of tanks_game, for every size of the terminal; its tanks    *)
(* and sessions, for every set of devices, users and policies.             *)
(***************************************************************************)
EXTENDS TankGame, FiniteSetTheorems, WellFoundedInduction, TLAPS

\* A field is never wider than half of the room beside the panel.
LEMMA FieldWidthBounds ==
    ASSUME NEW cols \in Nat, cols >= kMinGameCols
    PROVE  /\ PanelShare(cols - 2) \in Nat
           /\ FieldWidth(cols - 2) \in kMinFieldW .. kMaxFieldW
           /\ 2 * (FieldWidth(cols - 2) + 2) + kTankGap <= cols - 2
  <1> DEFINE avail == cols - 2
             share == PanelShare(avail)
             area  == IF share = 0 THEN avail ELSE avail - share - 1
             half  == (area - kTankGap) \div 2
  <1>1. share \in Nat /\ area \in Int /\ area <= avail /\ area >= BothFieldsW
    <2> DEFINE third == avail \div 3
    <2>1. third \in Int
      BY DEF kMinGameCols
    <2> HIDE DEF third
    <2>2. PanelShare(avail) =
            (LET s == ClampTo(third, kMinAclW, kMaxAclW)
             IN  IF avail >= BothFieldsW + kMinAclW /\ avail - s - 1 >= BothFieldsW
                 THEN s ELSE 0)
      BY DEF PanelShare, third
    <2> QED
      BY <2>1, <2>2 DEF ClampTo, BothFieldsW, kMinFieldW, kMinAclW, kMaxAclW, kTankGap,
                        kMinGameCols
  <1>2. half \in Int /\ 2 * half <= area - kTankGap /\ half >= kMinFieldW + 2
    <2> HIDE DEF share
    <2> DEFINE a == area
    <2>1. a \in Int /\ a >= BothFieldsW
      BY <1>1
    <2> HIDE DEF a
    <2>2. /\ (a - kTankGap) \div 2 \in Int
          /\ 2 * ((a - kTankGap) \div 2) <= a - kTankGap
          /\ (a - kTankGap) \div 2 >= kMinFieldW + 2
      BY <2>1 DEF BothFieldsW, kMinFieldW, kTankGap
    <2> QED
      BY <2>2 DEF a
  <1>3. FieldWidth(avail) = ClampTo(half - 2, kMinFieldW, kMaxFieldW)
    BY DEF FieldWidth
  <1> HIDE DEF share, half, area
  <1>4. FieldWidth(avail) \in kMinFieldW .. kMaxFieldW /\ FieldWidth(avail) + 2 <= half
    BY <1>2, <1>3 DEF ClampTo, kMinFieldW, kMaxFieldW
  <1>5. 2 * (FieldWidth(avail) + 2) <= area - kTankGap
    BY <1>2, <1>4, <1>1 DEF kMinFieldW, kMaxFieldW, kTankGap
  <1> QED
    BY <1>1, <1>4, <1>5 DEF share, kMinFieldW, kMaxFieldW, kTankGap

\* What the log is given fills the terminal to its last row exactly.
LEMMA FieldHeightBounds ==
    ASSUME NEW leftover \in Nat
    PROVE  /\ FieldHeight(leftover) \in kMinFieldH .. kMaxFieldH
           /\ FieldHeight(leftover) - kMinFieldH <= leftover
  BY DEF FieldHeight, LeastOf, kMinFieldH, kMaxFieldH

\* Whatever the terminal's size, a layout that is computed for it is a tiling
\* of it (computeLayout, createGameWindows).
THEOREM LayoutTiles ==
    ASSUME NEW rows \in Nat, NEW cols \in Nat, computeLayout(rows, cols) # NoLayout
    PROVE  Tiled(computeLayout(rows, cols), rows, cols)
  <1> DEFINE l        == computeLayout(rows, cols)
             share    == PanelShare(cols - 2)
             fieldW   == FieldWidth(cols - 2)
             leftover == (rows - 1) - 19
             fieldH   == FieldHeight(leftover)
             aclX     == 2 * fieldW + 7
             aclW     == LeastOf(share, (cols - aclX) - 1)
  <1>1. rows >= kMinGameRows /\ cols >= kMinGameCols /\ leftover \in Nat
    BY DEF computeLayout, kMinFieldH, kSectionGap, kHudH, kMinLogH, kMinLogLines, kMinGameRows,
           kMinGameCols
  <1>2. share \in Nat /\ fieldW \in 12 .. 48 /\ 2 * fieldW + 7 <= cols
    BY <1>1, FieldWidthBounds DEF kMinFieldW, kMaxFieldW, kTankGap
  <1>3. fieldH \in 5 .. 24 /\ fieldH - 5 <= leftover
    BY <1>1, FieldHeightBounds DEF kMinFieldH, kMaxFieldH
  <1> HIDE DEF share, fieldW, fieldH
  <1>4. /\ l.fieldW = fieldW /\ l.fieldH = fieldH /\ l.rightX = fieldW + 4
        /\ l.mainW = 2 * fieldW + 5 /\ l.hudY = fieldH + 4 /\ l.logY = fieldH + 11
        /\ l.logH = rows - (fieldH + 11)
        /\ l.showAcl = (share # 0 /\ aclW >= kMinAclW)
        /\ l.aclX = aclX /\ l.aclW = aclW /\ l.aclH = rows - 1
    <2>1. l = [fieldW |-> fieldW, fieldH |-> fieldH, rightX |-> fieldW + 4,
               mainW |-> 2 * fieldW + 5, hudY |-> fieldH + 4, logY |-> fieldH + 11,
               logH |-> rows - (fieldH + 11), logLines |-> rows - (fieldH + 13),
               showAcl |-> share # 0 /\ aclW >= kMinAclW,
               aclX |-> aclX, aclW |-> aclW, aclH |-> rows - 1]
      <3>1. /\ kMargin + fieldW + 2 + kTankGap = fieldW + 4
            /\ (fieldW + 4) + fieldW + 2 - kMargin = 2 * fieldW + 5
            /\ kMargin + (2 * fieldW + 5) + 1 = aclX
            /\ cols - 2 * kMargin = cols - 2
            /\ kMinFieldH + 2 + kSectionGap + kHudH + kMinLogH = 19
            /\ 1 + fieldH + 2 + kSectionGap = fieldH + 4
            /\ (fieldH + 4) + kHudH = fieldH + 11
            /\ kMinLogLines + leftover - (fieldH - kMinFieldH) = rows - (fieldH + 13)
            /\ ~((fieldH + 11) + (rows - (fieldH + 13)) + 2 > rows)
            /\ (rows - (fieldH + 13)) + 2 = rows - (fieldH + 11)
            /\ LeastOf(fieldH + 2 + kSectionGap + kHudH + (rows - (fieldH + 11)), rows - 1) = rows - 1
            /\ ~(rows < kMinGameRows \/ cols < kMinGameCols \/ leftover < 0)
        BY <1>1, <1>2, <1>3 DEF kMargin, kTankGap, kMinFieldH, kSectionGap, kHudH, kMinLogH,
             kMinLogLines, LeastOf, kMinGameRows, kMinGameCols
      <3> QED
        BY <3>1, Zenon DEF computeLayout, fieldW, fieldH, share
    <2> QED
      BY <2>1
  <1>5. l.showAcl => aclW \in Nat /\ aclW >= 16 /\ aclX + aclW < cols
    <2>1. l.showAcl => aclW >= kMinAclW
      BY <1>4, Zenon
    <2>2. aclW \in Int /\ aclW <= (cols - aclX) - 1
      BY <1>2 DEF LeastOf
    <2> QED
      BY <1>2, <2>1, <2>2 DEF kMinAclW
  <1> HIDE DEF l, aclX, aclW, leftover
  <1>6. ASSUME NEW r \in createGameWindows(l) PROVE Within(r, rows, cols)
    <2>1. CASE r \in {LeftWindow(l), RightWindow(l), HudWindow(l), LogWindow(l)}
      BY <2>1, <1>1, <1>2, <1>3, <1>4 DEF LeftWindow, RightWindow, HudWindow, LogWindow, Rect,
           Within, kMargin, kHudH, leftover
    <2>2. CASE l.showAcl /\ r = PolicyWindow(l)
      BY <2>2, <1>1, <1>2, <1>3, <1>4, <1>5 DEF PolicyWindow, Rect, Within, aclX, kMinGameRows
    <2> QED
      BY <1>6, <2>1, <2>2 DEF createGameWindows
  <1>7. ASSUME NEW r \in createGameWindows(l), NEW s \in createGameWindows(l), r # s
        PROVE  Apart(r, s)
    <2>1. CASE r \in {LeftWindow(l), RightWindow(l), HudWindow(l), LogWindow(l)}
               /\ s \in {LeftWindow(l), RightWindow(l), HudWindow(l), LogWindow(l)}
      BY <2>1, <1>1, <1>2, <1>3, <1>4, <1>7 DEF LeftWindow, RightWindow, HudWindow, LogWindow,
           Rect, Apart, kMargin, kHudH
    <2>2. ASSUME l.showAcl, NEW q \in {LeftWindow(l), RightWindow(l), HudWindow(l), LogWindow(l)}
          PROVE  Apart(q, PolicyWindow(l)) /\ Apart(PolicyWindow(l), q)
      BY <2>2, <1>1, <1>2, <1>3, <1>4, <1>5 DEF LeftWindow, RightWindow, HudWindow, LogWindow,
           PolicyWindow, Rect, Apart, kMargin, kHudH, aclX
    <2> QED
      BY <1>7, <2>1, <2>2 DEF createGameWindows
  <1> QED
    BY <1>6, <1>7 DEF Tiled, l

\* Every resize the main loop hears of, and none else, changes the layout.
LEMMA LayoutStep ==
    ASSUME Next, UNCHANGED layout \/ Resize
    PROVE  \/ UNCHANGED layout
           \/ \E t \in Terms : layout' = computeLayout(t[1], t[2]) /\ layout' # NoLayout
  BY DEF Resize, relayoutGame, RelaidOut

LEMMA OnlyResizeLaysOut ==
    ASSUME Next PROVE UNCHANGED layout \/ Resize
  BY DEF Next, Quit, Switch, OtherKey, LoginKey, CancelLogin, SubmitLogin, AfterFailedLogin,
         OpKey, CancelElevate, SubmitElevate, AfterDenied, ResizeInDialog, BatchLogin

LayoutIsComputed ==
    \E t \in Terms : layout = computeLayout(t[1], t[2]) /\ layout # NoLayout

\* However the game goes, its windows tile the terminal they were laid out for.
THEOREM WindowsAlwaysTile == Spec => []WindowsTile
  <1>1. Init => LayoutIsComputed
    BY DEF Init, LayoutIsComputed
  <1>2. LayoutIsComputed /\ [Next]_vars => LayoutIsComputed'
    BY LayoutStep, OnlyResizeLaysOut DEF LayoutIsComputed, vars
  <1>3. LayoutIsComputed => WindowsTile
    BY LayoutTiles, TankAssumption DEF LayoutIsComputed, WindowsTile
  <1> QED
    BY <1>1, <1>2, <1>3, PTL DEF Spec

\* A session is a function on the devices, whoever it says is logged in.
SessionsOfDevices == session = [d \in Devices |-> session[d]]

SessionChange(d) ==
    \/ screen = "batch"
    \/ d = active /\ screen = "login"
    \/ d = active /\ screen = "elevate" /\ session[d] = NoUser

LEMMA SessionStep ==
    ASSUME SessionsOfDevices, Next
    PROVE  /\ SessionsOfDevices'
           /\ \A d \in Devices : session'[d] # session[d] => SessionChange(d)
  <1> DEFINE OneChanged(e) == \E u : session' = [session EXCEPT ![e] = u]
  <1>1. ASSUME NEW e, OneChanged(e)
        PROVE  /\ SessionsOfDevices'
               /\ \A d \in Devices : session'[d] # session[d] => d = e
    BY <1>1 DEF SessionsOfDevices
  <1>2. UNCHANGED session => SessionsOfDevices'
    BY DEF SessionsOfDevices
  <1>3. CASE SubmitLogin
    <2>1. screen = "login" /\ (UNCHANGED session \/ OneChanged(active))
      BY <1>3 DEF SubmitLogin
    <2> QED
      BY <1>1, <1>2, <2>1 DEF SessionChange
  <1>4. CASE SubmitElevate
    <2>1. screen = "elevate" /\ (UNCHANGED session \/ (OneChanged(active) /\ session[active] = NoUser))
      BY <1>4 DEF SubmitElevate, Elevated, Refused
    <2> QED
      BY <1>1, <1>2, <2>1 DEF SessionChange
  <1>5. CASE BatchLogin
    <2>1. screen = "batch" /\ (UNCHANGED session \/ \E e \in Devices : OneChanged(e))
      BY <1>5 DEF BatchLogin
    <2> QED
      BY <1>1, <1>2, <2>1 DEF SessionChange
  <1>6. CASE Quit \/ Switch \/ OtherKey \/ Resize \/ LoginKey \/ CancelLogin \/ AfterFailedLogin
    <2>1. UNCHANGED session
      BY <1>6 DEF Quit, Switch, OtherKey, Resize, LoginKey, CancelLogin, AfterFailedLogin, manager
    <2> QED
      BY <1>2, <2>1
  <1>7. CASE (\E o \in Keys : OpKey(o)) \/ CancelElevate \/ AfterDenied \/ ResizeInDialog
    <2>1. UNCHANGED session
      BY <1>7 DEF OpKey, OpenElevate, CancelElevate, AfterDenied, Refused, ResizeInDialog
    <2> QED
      BY <1>2, <2>1
  <1> QED
    BY <1>3, <1>4, <1>5, <1>6, <1>7 DEF Next

\* For every policy and every user store: an elevation lends a permission to
\* one operation and never replaces a session, and what is done on one device
\* leaves the session of the other alone.
THEOREM SessionsOnlyByLogin == Spec => SessionsChangeByLogin
  <1>1. Init => SessionsOfDevices
    BY DEF Init, SessionsOfDevices
  <1>2. SessionsOfDevices /\ [Next]_vars => SessionsOfDevices'
    BY SessionStep DEF SessionsOfDevices, vars
  <1>3. SessionsOfDevices /\ [Next]_vars =>
            [\A d \in Devices : session'[d] # session[d] =>
                \/ screen = "batch"
                \/ d = active /\ screen = "login"
                \/ d = active /\ screen = "elevate" /\ session[d] = NoUser]_vars
    BY SessionStep DEF SessionChange
  <1> QED
    BY <1>1, <1>2, <1>3, PTL DEF Spec, SessionsChangeByLogin

-------------------------------------------------------------------------------
(* The tanks: where they stand, and who has proven who they are.           *)

\* The field of a layout that is computed has the sizes of a field.
LEMMA FieldOfLayout ==
    ASSUME NEW rows \in Nat, NEW cols \in Nat, computeLayout(rows, cols) # NoLayout
    PROVE  /\ computeLayout(rows, cols).fieldW \in kMinFieldW .. kMaxFieldW
           /\ computeLayout(rows, cols).fieldH \in kMinFieldH .. kMaxFieldH
  <1> DEFINE leftover == (rows - 1) - 19
  <1>1. rows >= kMinGameRows /\ cols >= kMinGameCols /\ leftover \in Nat
    BY DEF computeLayout, kMinFieldH, kSectionGap, kHudH, kMinLogH, kMinLogLines, kMinGameRows,
           kMinGameCols
  <1>2. cols - 2 * kMargin = cols - 2 /\ (rows - 1) - (kMinFieldH + 2 + kSectionGap + kHudH + kMinLogH) = leftover
    BY DEF kMargin, kMinFieldH, kSectionGap, kHudH, kMinLogH, kMinLogLines
  <1> HIDE DEF leftover
  <1>3. /\ computeLayout(rows, cols).fieldW = FieldWidth(cols - 2)
        /\ computeLayout(rows, cols).fieldH = FieldHeight(leftover)
    BY <1>2, Zenon DEF computeLayout
  <1> QED
    BY <1>1, <1>3, FieldWidthBounds, FieldHeightBounds

IsList(s) == s = [i \in 1 .. Len(s) |-> s[i]] /\ Len(s) \in Nat

TankIn(sim, l) ==
    /\ sim = [x |-> sim.x, y |-> sim.y, facing |-> sim.facing, running |-> sim.running,
              bullets |-> sim.bullets]
    /\ sim.x \in 1 .. (l.fieldW - 2) /\ sim.y \in 1 .. (l.fieldH - 2)
    /\ IsList(sim.bullets)

\* What is kept of a list is a list that is no longer.
LEMMA KeptIsShorter ==
    ASSUME NEW s, NEW n \in Nat, NEW kept \in SUBSET (1 .. n)
    PROVE  IsList(KeptOf(s, kept)) /\ Len(KeptOf(s, kept)) <= n
  <1>1. IsFiniteSet(1 .. n) /\ Cardinality(1 .. n) = n
    BY FS_Interval
  <1>2. Cardinality(kept) \in Nat /\ Cardinality(kept) <= n
    BY <1>1, FS_Subset, FS_CardinalityType
  <1> DEFINE m == Cardinality(kept)
             e(k) == s[CHOOSE i \in kept : Cardinality({j \in kept : j <= i}) = k]
             r == [k \in 1 .. m |-> e(k)]
  <1>3. r = KeptOf(s, kept)
    BY DEF KeptOf
  <1>4. Len(r) = m /\ DOMAIN r = 1 .. m
    <2> HIDE DEF e, m
    <2>1. m \in Nat
      BY <1>2 DEF m
    <2> QED
      BY <2>1
  <1>5. IsList(r)
    <2> HIDE DEF e, m
    <2> QED
      BY <1>2, <1>4 DEF IsList, m
  <1> QED
    BY <1>2, <1>3, <1>4, <1>5

\* A redraw leaves a tank where it is and brings no bullet.
LEMMA RedrawKeeps ==
    ASSUME NEW sim, NEW l, TankIn(sim, l)
    PROVE  /\ TankIn(advanceBullets(sim, l), l)
           /\ Pose(advanceBullets(sim, l)) = Pose(sim)
           /\ Len(advanceBullets(sim, l).bullets) <= Len(sim.bullets)
  <1> DEFINE moved == [i \in DOMAIN sim.bullets |->
                        [sim.bullets[i] EXCEPT !.x = @ + Dx(sim.bullets[i].facing),
                                               !.y = @ + Dy(sim.bullets[i].facing)]]
             left  == KeptOf(moved, {i \in DOMAIN moved : OnField(moved[i], l)})
  <1>1. Len(sim.bullets) \in Nat /\ DOMAIN moved = 1 .. Len(sim.bullets)
    BY DEF TankIn, IsList
  <1>2. IsList(left) /\ Len(left) <= Len(sim.bullets)
    BY <1>1, KeptIsShorter
  <1>3. advanceBullets(sim, l) = [sim EXCEPT !.bullets = left]
    BY DEF advanceBullets
  <1> HIDE DEF left
  <1>4. /\ advanceBullets(sim, l) = [x |-> sim.x, y |-> sim.y, facing |-> sim.facing,
                                    running |-> sim.running, bullets |-> left]
    BY <1>3 DEF TankIn
  <1> QED
    BY <1>2, <1>4 DEF TankIn, Pose

LEMMA AppendedIsList ==
    ASSUME NEW s, NEW e, IsList(s)
    PROVE  IsList(Append(s, e))
  <1> DEFINE S == {s[i] : i \in 1 .. Len(s)} \cup {e}
  <1>1. s \in Seq(S)
    BY DEF IsList
  <1>2. e \in S
    OBVIOUS
  <1> HIDE DEF S
  <1>3. ASSUME NEW t \in Seq(S) PROVE IsList(t)
    BY DEF IsList
  <1>4. Append(s, e) \in Seq(S)
    BY <1>1, <1>2
  <1> QED
    BY <1>3, <1>4

FieldSized(l) ==
    l.fieldW \in kMinFieldW .. kMaxFieldW /\ l.fieldH \in kMinFieldH .. kMaxFieldH

\* An operation keeps the tank on its field.
LEMMA AppliedStaysIn ==
    ASSUME NEW sim, NEW l, NEW o \in Ops, TankIn(sim, l), FieldSized(l)
    PROVE  TankIn(applySim(sim, o, l), l)
  <1>1. l.fieldW - 2 \in Int /\ l.fieldH - 2 \in Int /\ 1 <= l.fieldW - 2 /\ 1 <= l.fieldH - 2
    BY DEF FieldSized, kMinFieldW, kMaxFieldW, kMinFieldH, kMaxFieldH
  <1>2. ASSUME NEW sign \in {1, -1}
        PROVE  TankIn(Driven(sim, sign, l), l)
    <2> DEFINE x == ClampTo(sim.x + sign * Dx(sim.facing), 1, l.fieldW - 2)
               y == ClampTo(sim.y + sign * Dy(sim.facing), 1, l.fieldH - 2)
    <2>1. sim.x + sign * Dx(sim.facing) \in Int /\ sim.y + sign * Dy(sim.facing) \in Int
      BY DEF TankIn, Dx, Dy
    <2>2. x \in 1 .. (l.fieldW - 2) /\ y \in 1 .. (l.fieldH - 2)
      <3>1. ASSUME NEW v \in Int, NEW hi \in Int, 1 <= hi PROVE ClampTo(v, 1, hi) \in 1 .. hi
        BY <3>1 DEF ClampTo
      <3> QED
        BY <1>1, <2>1, <3>1
    <2> HIDE DEF x, y
    <2>3. Driven(sim, sign, l) = [x |-> x, y |-> y, facing |-> sim.facing,
                                  running |-> sim.running, bullets |-> sim.bullets]
      <3>1. Driven(sim, sign, l) = [[sim EXCEPT !.x = x] EXCEPT !.y = y]
        BY DEF Driven, x, y, TankIn
      <3> QED
        BY <3>1 DEF TankIn
    <2> QED
      BY <2>2, <2>3 DEF TankIn
  <1>3. CASE o \in {"start", "stop"}
    <2>1. applySim(sim, o, l) = [x |-> sim.x, y |-> sim.y, facing |-> sim.facing,
                                 running |-> (o = "start"), bullets |-> sim.bullets]
      BY <1>3 DEF applySim, TankIn
    <2> QED
      BY <2>1 DEF TankIn
  <1>4. CASE o = "fire"
    <2> DEFINE fired == Append(sim.bullets, [x |-> sim.x, y |-> sim.y, facing |-> sim.facing])
    <2>1. applySim(sim, o, l) = [sim EXCEPT !.bullets = fired]
      BY <1>4 DEF applySim
    <2>2. IsList(fired)
      BY AppendedIsList DEF TankIn
    <2> HIDE DEF fired
    <2>3. applySim(sim, o, l) = [x |-> sim.x, y |-> sim.y, facing |-> sim.facing,
                                 running |-> sim.running, bullets |-> fired]
      BY <2>1 DEF TankIn
    <2> QED
      BY <2>2, <2>3 DEF TankIn
  <1>5. CASE o \in {"left", "right"}
    <2>1. PICK f : applySim(sim, o, l) = [sim EXCEPT !.facing = f]
      BY <1>5 DEF applySim
    <2>2. applySim(sim, o, l) = [x |-> sim.x, y |-> sim.y, facing |-> f,
                                 running |-> sim.running, bullets |-> sim.bullets]
      BY <2>1 DEF TankIn
    <2> QED
      BY <2>2 DEF TankIn
  <1>6. CASE o \in {"forward", "backward"}
    BY <1>2, <1>6 DEF applySim
  <1> QED
    BY <1>3, <1>4, <1>5, <1>6 DEF Ops, Moves

TanksIn(tanks, l) == tanks = [d \in Devices |-> tanks[d]] /\ \A d \in Devices : TankIn(tanks[d], l)

\* tanks after stands as tanks before, with no more bullets.
AsBefore(after, before) ==
    \A d \in Devices : Pose(after[d]) = Pose(before[d]) /\ Len(after[d].bullets) <= Len(before[d].bullets)

LEMMA RedrawnKeeps ==
    ASSUME NEW tanks, NEW l, TanksIn(tanks, l)
    PROVE  TanksIn(Redrawn(tanks, l), l) /\ AsBefore(Redrawn(tanks, l), tanks)
  BY RedrawKeeps DEF TanksIn, Redrawn, AsBefore

\* A relayout puts the tanks on the new field, and leaves them where they are on a field
\* that is as large.
LEMMA ClampedKeeps ==
    ASSUME NEW sim, NEW k, NEW l, TankIn(sim, k), FieldSized(k), FieldSized(l)
    PROVE  /\ TankIn(clampTankSim(sim, l), l)
           /\ clampTankSim(sim, l).bullets = sim.bullets
           /\ k = l => clampTankSim(sim, l) = sim
  <1> DEFINE x == ClampTo(sim.x, 1, MostOf(1, l.fieldW - 2))
             y == ClampTo(sim.y, 1, MostOf(1, l.fieldH - 2))
  <1>1. /\ l.fieldW - 2 \in Int /\ l.fieldH - 2 \in Int /\ 1 <= l.fieldW - 2 /\ 1 <= l.fieldH - 2
        /\ MostOf(1, l.fieldW - 2) = l.fieldW - 2 /\ MostOf(1, l.fieldH - 2) = l.fieldH - 2
    BY DEF FieldSized, kMinFieldW, kMaxFieldW, kMinFieldH, kMaxFieldH, MostOf
  <1>2. sim.x \in Int /\ sim.y \in Int
    BY DEF TankIn, FieldSized, kMinFieldW, kMaxFieldW, kMinFieldH, kMaxFieldH
  <1>3. /\ x \in 1 .. (l.fieldW - 2) /\ (sim.x \in 1 .. (l.fieldW - 2) => x = sim.x)
        /\ y \in 1 .. (l.fieldH - 2) /\ (sim.y \in 1 .. (l.fieldH - 2) => y = sim.y)
    <2>1. ASSUME NEW v \in Int, NEW hi \in Int, 1 <= hi
          PROVE  ClampTo(v, 1, hi) \in 1 .. hi /\ (v \in 1 .. hi => ClampTo(v, 1, hi) = v)
      BY <2>1 DEF ClampTo
    <2> QED
      BY <1>1, <1>2, <2>1
  <1> HIDE DEF x, y
  <1>4. clampTankSim(sim, l) = [x |-> x, y |-> y, facing |-> sim.facing,
                                running |-> sim.running, bullets |-> sim.bullets]
    <2>1. clampTankSim(sim, l) = [[sim EXCEPT !.x = x] EXCEPT !.y = y]
      BY DEF clampTankSim, x, y, TankIn
    <2> QED
      BY <2>1 DEF TankIn
  <1> QED
    BY <1>3, <1>4 DEF TankIn

-------------------------------------------------------------------------------
(* Who has proven who they are.                                            *)

Accepted(c) == \E s \in Devices : VerifiedBy(s, c)

\* Whoever a credential of the manager's list names, and some store accepts, has proven
\* who they are where it was given; so has whoever a session is of.
LoginsProven ==
    /\ IsList(creds) /\ proven = [d \in Devices |-> proven[d]] /\ SessionsOfDevices
    /\ \A i \in 1 .. Len(creds) :
          creds[i].device \in Devices /\ (Accepted(creds[i]) => creds[i].user \in proven[creds[i].device])
    /\ \A d \in Devices : session[d] # NoUser => session[d] \in proven[d]

\* Of some positions of a list there is a first and a last.
LEMMA FirstAndLast ==
    ASSUME NEW n \in Nat, NEW S \in SUBSET (1 .. n), S # {}
    PROVE  (\E i \in S : \A j \in S : i <= j) /\ (\E i \in S : \A j \in S : i >= j)
  <1> DEFINE R == OpToRel(<, Nat)
             D == {n - i : i \in S}
  <1>0. IsWellFoundedOn(R, Nat)
    BY NatLessThanWellFounded
  <1>1. \A p, q \in Nat : p < q => <<p, q>> \in R
    BY DEF OpToRel
  <1> HIDE DEF R
  <1>2. S \subseteq Nat /\ D \subseteq Nat /\ D # {}
    <2>1. PICK i \in S : TRUE
      OBVIOUS
    <2>2. n - i \in D
      OBVIOUS
    <2>3. \A j \in S : j \in Nat /\ n - j \in Nat
      OBVIOUS
    <2> QED
      BY <2>2, <2>3
  <1>3. ASSUME NEW T, T \subseteq Nat, T # {} PROVE \E d \in T : \A e \in T : d <= e
    <2>1. PICK d \in T : \A e \in T : ~ (<<e, d>> \in R)
      BY <1>0, <1>3, WFMin
    <2>2. ASSUME NEW e \in T PROVE d <= e
      <3>1. d \in Nat /\ e \in Nat /\ ~ (e < d)
        BY <1>1, <1>3, <2>1
      <3> QED
        BY <3>1
    <2> QED
      BY <2>2
  <1>4. PICK d \in D : \A e \in D : d <= e
    <2> HIDE DEF D
    <2> QED
      BY <1>2, <1>3
  <1>5. PICK i \in S : d = n - i
    OBVIOUS
  <1>6. \A j \in S : i >= j
    BY <1>4, <1>5
  <1> QED
    BY <1>2, <1>3, <1>6

\* What is known of the credentials cs when p are those who have proven who they are.
AllProven(cs, p) ==
    \A i \in 1 .. Len(cs) :
        cs[i].device \in Devices /\ (Accepted(cs[i]) => cs[i].user \in p[cs[i].device])

\* Whoever a login comes to has proven who they are.
LEMMA LoggedInIsProven ==
    ASSUME NEW cs, NEW p, IsList(cs), AllProven(cs, p), listed \in Devices,
           NEW d \in Devices, NEW u, LoggedIn(cs, d, u) # NoUser,
           \E i \in 1 .. Len(cs) : cs[i].device = d /\ cs[i].user = u
    PROVE  LoggedIn(cs, d, u) \in p[d]
  <1> DEFINE R == Replayed(cs, d)
             T == {i \in DOMAIN cs : cs[i].device = d /\ cs[i].user = u}
  <1>1. Len(cs) \in Nat /\ DOMAIN cs = 1 .. Len(cs)
    BY DEF IsList
  <1>2. CASE R # {}
    <2> DEFINE k == CHOOSE i \in R : \A j \in R : i >= j
    <2>1. R \in SUBSET (1 .. Len(cs))
      BY <1>1 DEF Replayed
    <2>2. k \in R
      <3> HIDE DEF R
      <3> QED
        BY <1>1, <1>2, <2>1, FirstAndLast
    <2> HIDE DEF k
    <2>3. cs[k].device = d /\ VerifiedBy(listed, cs[k]) /\ k \in 1 .. Len(cs)
      BY <1>1, <2>2 DEF Replayed
    <2>4. LoggedIn(cs, d, u) = cs[k].user
      BY <1>2 DEF LoggedIn, k
    <2> QED
      BY <2>3, <2>4 DEF AllProven, Accepted
  <1>3. CASE R = {}
    <2> DEFINE k == CHOOSE i \in T : \A j \in T : i <= j
    <2>1. T \in SUBSET (1 .. Len(cs)) /\ T # {}
      BY <1>1
    <2>2. k \in T
      <3> HIDE DEF T
      <3> QED
        BY <1>1, <2>1, FirstAndLast
    <2>3. cs[k].device = d /\ cs[k].user = u /\ k \in 1 .. Len(cs)
      <3> HIDE DEF k
      <3> QED
        BY <1>1, <2>2
    <2>4. Offered(cs, d, u) = cs[k]
      BY DEF Offered
    <2> HIDE DEF k
    <2>5. LoggedIn(cs, d, u) = u /\ VerifiedBy(d, cs[k])
      BY <1>3, <2>4 DEF LoggedIn
    <2> QED
      BY <2>3, <2>5 DEF AllProven, Accepted
  <1> QED
    BY <1>2, <1>3

\* What a credential that is given proves.
LEMMA GivenProves ==
    ASSUME NEW d \in Devices, NEW c, proven = [e \in Devices |-> proven[e]]
    PROVE  /\ Proven(d, c) = [e \in Devices |-> Proven(d, c)[e]]
           /\ \A e \in Devices : proven[e] \subseteq Proven(d, c)[e]
           /\ Accepted(c) => c.user \in Proven(d, c)[d]
  BY DEF Proven, Accepted

\* A form that was filled in adds a credential, and logs in whom it proves.
LEMMA SubmittedIsProven ==
    ASSUME LoginsProven, listed \in Devices, NEW d \in Devices, NEW c, c.device = d,
           NEW who, who = LoggedIn(Append(creds, c), d, c.user)
    PROVE  /\ IsList(Append(creds, c)) /\ AllProven(Append(creds, c), Proven(d, c))
           /\ who # NoUser => who \in Proven(d, c)[d]
  <1> DEFINE cs == Append(creds, c)
             S == {creds[i] : i \in 1 .. Len(creds)}
  <1>1. IsList(cs)
    BY AppendedIsList DEF LoginsProven
  <1>2. creds \in Seq(S)
    BY DEF LoginsProven, IsList
  <1>3. Len(cs) = Len(creds) + 1 /\ cs[Len(creds) + 1] = c /\ \A i \in 1 .. Len(creds) : cs[i] = creds[i]
    <2> HIDE DEF S
    <2> QED
      BY <1>2
  <1>4. Len(creds) \in Nat
    BY DEF LoginsProven, IsList
  <1> HIDE DEF cs
  <1>5. ASSUME NEW i \in 1 .. Len(cs)
        PROVE  cs[i].device \in Devices /\ (Accepted(cs[i]) => cs[i].user \in Proven(d, c)[cs[i].device])
    <2>1. CASE i \in 1 .. Len(creds)
      BY <1>3, <2>1, GivenProves DEF LoginsProven
    <2>2. CASE i = Len(creds) + 1
      BY <1>3, <2>2, GivenProves DEF LoginsProven
    <2> QED
      BY <1>3, <1>4, <2>1, <2>2
  <1>6. AllProven(cs, Proven(d, c))
    BY <1>5 DEF AllProven
  <1>7. \E i \in 1 .. Len(cs) : cs[i].device = d /\ cs[i].user = c.user
    BY <1>3, <1>4
  <1>8. who # NoUser => who \in Proven(d, c)[d]
    BY <1>1, <1>6, <1>7, LoggedInIsProven DEF cs
  <1> QED
    BY <1>1, <1>6, <1>8 DEF cs

-------------------------------------------------------------------------------
(* Each step.                                                              *)

GameInv ==
    /\ LayoutIsComputed /\ TanksIn(sims, layout) /\ LoginsProven
    /\ listed \in Devices /\ active \in Devices /\ ops \in Nat

Obeyed == MovedByRight /\ OthersStay

LEMMA LayoutIsSized ==
    ASSUME LayoutIsComputed PROVE FieldSized(layout)
  BY FieldOfLayout, TankAssumption DEF LayoutIsComputed, FieldSized

\* Nobody new has proven anything.
LEMMA LoginsStay ==
    ASSUME LoginsProven, UNCHANGED <<session, creds, proven>>
    PROVE  LoginsProven'
  BY DEF LoginsProven, IsList, SessionsOfDevices, Accepted, VerifiedBy

\* Who has proven who they are has done so for good.
LEMMA MoreProven ==
    ASSUME LoginsProven, UNCHANGED <<session, creds>>, NEW d \in Devices, NEW c, proven' = Proven(d, c)
    PROVE  LoginsProven'
  <1>1. /\ proven' = [e \in Devices |-> proven'[e]]
        /\ \A e \in Devices : proven[e] \subseteq proven'[e]
    BY GivenProves DEF LoginsProven
  <1>2. IsList(creds') /\ SessionsOfDevices'
    BY DEF LoginsProven, SessionsOfDevices
  <1>3. ASSUME NEW i \in 1 .. Len(creds')
        PROVE  creds'[i].device \in Devices
               /\ (Accepted(creds[i]) => creds'[i].user \in proven'[creds'[i].device])
    BY <1>1 DEF LoginsProven
  <1>4. \A e \in Devices : session'[e] # NoUser => session'[e] \in proven'[e]
    BY <1>1 DEF LoginsProven
  <1> QED
    BY <1>1, <1>2, <1>3, <1>4 DEF LoginsProven

\* A step that leaves the layout and carries nothing out, but for a redraw.
LEMMA StillStep ==
    ASSUME GameInv, UNCHANGED <<layout, ops>>, sims' = sims \/ sims' = Redrawn(sims, layout)
    PROVE  TanksIn(sims', layout') /\ LayoutIsComputed' /\ Obeyed
  <1>1. TanksIn(sims', layout) /\ AsBefore(sims', sims)
    <2>1. CASE sims' = sims
      <3>1. ASSUME NEW d \in Devices PROVE Len(sims[d].bullets) \in Nat
        BY DEF GameInv, TanksIn, TankIn, IsList
      <3> QED
        BY <2>1, <3>1 DEF GameInv, AsBefore
    <2>2. CASE sims' = Redrawn(sims, layout)
      BY <2>2, RedrawnKeeps DEF GameInv
    <2> QED
      BY <2>1, <2>2
  <1>2. LayoutIsComputed'
    BY DEF GameInv, LayoutIsComputed
  <1>3. OthersStay
    BY <1>1 DEF OthersStay, AsBefore, Relaid
  <1> QED
    BY <1>1, <1>2, <1>3 DEF Obeyed, MovedByRight

\* An operation is carried out, for somebody who has proven that they may.
LEMMA CarriedStep ==
    ASSUME GameInv, UNCHANGED layout, NEW o \in Ops, NEW n, Carried(o, n),
           NEW u \in proven'[active], o \in Permits[active][u]
    PROVE  TanksIn(sims', layout') /\ LayoutIsComputed' /\ Obeyed /\ ops' \in Nat
  <1> DEFINE driven == [sims EXCEPT ![active] = applySim(@, o, layout)]
  <1>1. TanksIn(driven, layout)
    BY AppliedStaysIn, LayoutIsSized DEF GameInv, TanksIn
  <1>2. /\ driven[active] = applySim(sims[active], o, layout)
        /\ \A d \in Devices : d # active => driven[d] = sims[d]
    BY DEF GameInv, TanksIn
  <1>3. sims' = Redrawn(driven, layout) /\ ops' = ops + 1
    BY DEF Carried
  <1> HIDE DEF driven
  <1>4. TanksIn(sims', layout) /\ AsBefore(sims', driven)
    BY <1>1, <1>3, RedrawnKeeps
  <1>5. ops' \in Nat /\ ops' # ops
    BY <1>3 DEF GameInv
  <1>6. LayoutIsComputed'
    BY DEF GameInv, LayoutIsComputed
  <1>7. MovedByRight
    BY <1>2, <1>4 DEF MovedByRight, AsBefore, GameInv
  <1>8. OthersStay
    BY <1>2, <1>4, <1>5 DEF OthersStay, AsBefore, Relaid
  <1> QED
    BY <1>4, <1>5, <1>6, <1>7, <1>8 DEF Obeyed

\* A resize the main loop hears of.
LEMMA ResizedStep ==
    ASSUME GameInv, Resize
    PROVE  TanksIn(sims', layout') /\ LayoutIsComputed' /\ Obeyed
  <1>1. PICK t \in Terms : relayoutGame(computeLayout(t[1], t[2])) /\ UNCHANGED ops
    BY DEF Resize
  <1> DEFINE l == computeLayout(t[1], t[2])
             clamped == [d \in Devices |-> clampTankSim(sims[d], l)]
  <1>2. CASE l = NoLayout
    BY <1>1, <1>2, StillStep DEF relayoutGame
  <1>3. CASE l # NoLayout
    <2>1. layout' = l /\ sims' = Redrawn(clamped, l)
      BY <1>1, <1>3 DEF relayoutGame, RelaidOut
    <2>2. LayoutIsComputed' /\ FieldSized(l)
      BY <1>3, <2>1, FieldOfLayout, TankAssumption DEF LayoutIsComputed, FieldSized
    <2> HIDE DEF l
    <2>3. ASSUME NEW d \in Devices
          PROVE  /\ TankIn(clampTankSim(sims[d], l), l)
                 /\ clampTankSim(sims[d], l).bullets = sims[d].bullets
                 /\ layout = l => clampTankSim(sims[d], l) = sims[d]
      BY <2>2, ClampedKeeps, LayoutIsSized DEF GameInv, TanksIn
    <2>4. TanksIn(clamped, l)
      BY <2>3 DEF TanksIn
    <2>5. TanksIn(sims', l) /\ AsBefore(sims', clamped)
      BY <2>1, <2>4, RedrawnKeeps
    <2>6. \A d \in Devices : clamped[d] = clampTankSim(sims[d], l)
      OBVIOUS
    <2> HIDE DEF clamped
    <2>7. OthersStay
      BY <2>1, <2>3, <2>5, <2>6 DEF OthersStay, AsBefore, Relaid
    <2> QED
      BY <1>1, <2>1, <2>2, <2>5, <2>7 DEF Obeyed, MovedByRight
  <1> QED
    BY <1>2, <1>3

LEMMA GameStep ==
    ASSUME GameInv, Next
    PROVE  GameInv' /\ Obeyed
  <1> DEFINE Redraws == sims' = sims \/ sims' = Redrawn(sims, layout)
             Kept == TanksIn(sims', layout') /\ LayoutIsComputed' /\ Obeyed
  <1> USE DEF manager
  <1>1. CASE Quit \/ Switch \/ OtherKey \/ LoginKey \/ CancelLogin \/ AfterFailedLogin
    <2>1. Redraws /\ UNCHANGED <<layout, ops, listed, session, creds, proven>> /\ active' \in Devices
      BY <1>1 DEF GameInv, Quit, Switch, OtherKey, LoginKey, CancelLogin, AfterFailedLogin, OpenLogin
    <2> QED
      BY <2>1, StillStep, LoginsStay DEF GameInv
  <1>2. CASE Resize
    <2>1. UNCHANGED <<ops, listed, session, creds, proven, active>>
      BY <1>2 DEF Resize
    <2> QED
      BY <1>2, <2>1, ResizedStep, LoginsStay DEF GameInv
  <1>3. CASE CancelElevate \/ AfterDenied \/ ResizeInDialog
    <2>1. Redraws /\ UNCHANGED <<layout, ops, listed, session, creds, proven, active>>
      BY <1>3 DEF CancelElevate, AfterDenied, ResizeInDialog, Refused, OpenElevate, OpenLogin
    <2> QED
      BY <2>1, StillStep, LoginsStay DEF GameInv
  <1>4. CASE \E o \in Keys : OpKey(o)
    <2>1. PICK o \in Keys : OpKey(o)
      BY <1>4
    <2>2. UNCHANGED <<layout, listed, session, creds, proven, active>>
      BY <2>1 DEF OpKey, OpenElevate, Refused
    <2>3. CASE MayCarryOut(active, o)
      <3>1. Carried(o, 1)
        BY <2>1, <2>3 DEF OpKey
      <3>2. session[active] \in proven'[active] /\ o \in Permits[active][session[active]]
        BY <2>2, <2>3 DEF MayCarryOut, GameInv, LoginsProven
      <3>3. Kept /\ ops' \in Nat
        BY <2>2, <3>1, <3>2, CarriedStep, TankAssumption
      <3> QED
        BY <2>2, <3>3, LoginsStay DEF GameInv
    <2>4. CASE ~ MayCarryOut(active, o)
      <3>1. Redraws /\ UNCHANGED ops
        BY <2>1, <2>4 DEF OpKey, OpenElevate, Refused
      <3> QED
        BY <2>2, <3>1, StillStep, LoginsStay DEF GameInv
    <2> QED
      BY <2>3, <2>4
  <1>5. CASE SubmitElevate
    <2>1. PICK f \in Filled :
            LET c == [device |-> active, user |-> f.user, secret |-> f.secret]
            IN  /\ proven' = Proven(active, c)
                /\ IF VerifiedBy(active, c) /\ op \in Permits[active][f.user] THEN Elevated(f.user)
                   ELSE Redraws /\ UNCHANGED <<session, ops>>
      BY <1>5 DEF SubmitElevate, Refused
    <2> DEFINE c == [device |-> active, user |-> f.user, secret |-> f.secret]
    <2>2. UNCHANGED <<layout, listed, creds, active>>
      BY <1>5 DEF SubmitElevate
    <2>3. /\ proven' = [e \in Devices |-> proven'[e]]
          /\ \A e \in Devices : proven[e] \subseteq proven'[e]
          /\ Accepted(c) => f.user \in proven'[active]
      BY <2>1, GivenProves DEF GameInv, LoginsProven
    <2>4. f.user \in Users
      BY TankAssumption DEF Filled
    <2>5. CASE VerifiedBy(active, c) /\ op \in Permits[active][f.user]
      <3>1. Elevated(f.user) /\ f.user \in proven'[active]
        BY <2>1, <2>3, <2>5 DEF Accepted, GameInv
      <3>2. op \in Ops
        BY <2>4, <2>5, TankAssumption DEF GameInv
      <3>3. \E n : Carried(op, n)
        BY <3>1 DEF Elevated
      <3>4. Kept /\ ops' \in Nat
        BY <2>2, <2>5, <3>1, <3>2, <3>3, CarriedStep
      <3>5. UNCHANGED session \/ session' = [session EXCEPT ![active] = f.user]
        BY <3>1 DEF Elevated
      <3>6. LoginsProven'
        <4>1. IsList(creds') /\ SessionsOfDevices'
          BY <2>2, <3>5 DEF GameInv, LoginsProven, SessionsOfDevices
        <4>2. \A i \in 1 .. Len(creds') :
                /\ creds'[i].device \in Devices
                /\ Accepted(creds'[i]) => creds'[i].user \in proven'[creds'[i].device]
          BY <2>2, <2>3 DEF GameInv, LoginsProven
        <4>3. \A d \in Devices : session'[d] # NoUser => session'[d] \in proven'[d]
          BY <2>3, <3>1, <3>5 DEF GameInv, LoginsProven, SessionsOfDevices
        <4> QED
          BY <2>3, <4>1, <4>2, <4>3 DEF LoginsProven
      <3> QED
        BY <2>2, <3>4, <3>6 DEF GameInv
    <2>6. CASE ~ (VerifiedBy(active, c) /\ op \in Permits[active][f.user])
      <3>1. Redraws /\ UNCHANGED <<session, ops>> /\ proven' = Proven(active, c)
        BY <2>1, <2>6
      <3> HIDE DEF c
      <3>2. LoginsProven'
        BY <2>2, <3>1, MoreProven DEF GameInv
      <3> QED
        BY <2>2, <3>1, <3>2, StillStep DEF GameInv
    <2> QED
      BY <2>5, <2>6
  <1>6. ASSUME NEW d \in Devices, NEW f \in Filled,
               LET c   == [device |-> d, user |-> f.user, secret |-> f.secret]
                   who == LoggedIn(Append(creds, c), d, f.user)
               IN  /\ creds' = Append(creds, c) /\ proven' = Proven(d, c)
                   /\ session' = IF who = NoUser THEN session ELSE [session EXCEPT ![d] = who],
               UNCHANGED <<layout, ops, listed, active>>, Redraws
        PROVE  GameInv' /\ Obeyed
    <2> DEFINE c   == [device |-> d, user |-> f.user, secret |-> f.secret]
               who == LoggedIn(Append(creds, c), d, f.user)
    <2>1. c.device = d /\ c.user = f.user
      OBVIOUS
    <2>2. /\ creds' = Append(creds, c) /\ proven' = Proven(d, c)
          /\ session' = IF who = NoUser THEN session ELSE [session EXCEPT ![d] = who]
          /\ who = LoggedIn(Append(creds, c), d, c.user)
      BY <1>6
    <2> HIDE DEF c, who
    <2>3. IsList(creds') /\ AllProven(creds', proven') /\ (who # NoUser => who \in proven'[d])
      BY <2>1, <2>2, SubmittedIsProven DEF GameInv
    <2>4. /\ proven' = [e \in Devices |-> proven'[e]]
          /\ \A e \in Devices : proven[e] \subseteq proven'[e]
      BY <2>2, GivenProves DEF GameInv, LoginsProven
    <2>5. /\ SessionsOfDevices'
          /\ \A e \in Devices : session'[e] # NoUser => session'[e] \in proven'[e]
      BY <2>2, <2>3, <2>4 DEF GameInv, LoginsProven, SessionsOfDevices
    <2>6. LoginsProven'
      BY <2>3, <2>4, <2>5 DEF LoginsProven, AllProven
    <2> QED
      BY <1>6, <2>6, StillStep DEF GameInv
  <1>7. CASE SubmitLogin
    <2>1. PICK f \in Filled :
            LET c   == [device |-> active, user |-> f.user, secret |-> f.secret]
                who == LoggedIn(Append(creds, c), active, f.user)
            IN  /\ creds' = Append(creds, c) /\ proven' = Proven(active, c)
                /\ session' = IF who = NoUser THEN session ELSE [session EXCEPT ![active] = who]
                /\ Redraws
      BY <1>7 DEF SubmitLogin, BackToKeys
    <2>2. UNCHANGED <<layout, ops, listed, active>> /\ active \in Devices
      BY <1>7 DEF SubmitLogin, GameInv
    <2> QED
      BY <1>6, <2>1, <2>2
  <1>8. CASE BatchLogin
    <2>1. PICK d \in Devices, f \in Filled :
            LET c   == [device |-> d, user |-> f.user, secret |-> f.secret]
                who == LoggedIn(Append(creds, c), d, f.user)
            IN  /\ creds' = Append(creds, c) /\ proven' = Proven(d, c)
                /\ session' = IF who = NoUser THEN session ELSE [session EXCEPT ![d] = who]
      BY <1>8 DEF BatchLogin
    <2>2. UNCHANGED <<layout, ops, listed, active, sims>>
      BY <1>8 DEF BatchLogin
    <2> QED
      BY <1>6, <2>1, <2>2
  <1> QED
    BY <1>1, <1>2, <1>3, <1>4, <1>5, <1>7, <1>8 DEF Next

\* At the start the tanks stand in the middle of their fields, and nobody is logged in.
LEMMA GameStarts ==
    ASSUME Init PROVE GameInv
  <1>1. LayoutIsComputed
    BY DEF Init, LayoutIsComputed
  <1>2. FieldSized(layout)
    BY <1>1, LayoutIsSized
  <1>3. ASSUME NEW d \in Devices PROVE TankIn(sims[d], layout)
    <2>1. sims[d] = initTankSim(layout)
      BY DEF Init
    <2>2. /\ layout.fieldW \div 2 \in 1 .. (layout.fieldW - 2)
          /\ layout.fieldH \div 2 \in 1 .. (layout.fieldH - 2)
      BY <1>2 DEF FieldSized, kMinFieldW, kMaxFieldW, kMinFieldH, kMaxFieldH
    <2>3. IsList(<< >>)
      BY DEF IsList
    <2> QED
      BY <2>1, <2>2, <2>3 DEF initTankSim, TankIn
  <1>4. TanksIn(sims, layout)
    BY <1>3 DEF Init, TanksIn
  <1>5. LoginsProven
    BY DEF Init, LoginsProven, IsList, SessionsOfDevices
  <1> QED
    BY <1>1, <1>4, <1>5, TankAssumption DEF Init, GameInv

\* For every policy, every user store and every course of the dialogs: a tank moves,
\* turns, fires or starts only by an operation that is permitted to somebody who has given
\* a right password at that device, and no other step moves it.
THEOREM TanksAreObeyed == Spec => TanksObey
  <1>1. Init => GameInv
    BY GameStarts
  <1>2. GameInv /\ [Next]_vars => GameInv'
    <2>1. ASSUME GameInv, UNCHANGED vars PROVE GameInv'
      BY <2>1, LoginsStay DEF GameInv, vars, LayoutIsComputed, TanksIn
    <2> QED
      BY <2>1, GameStep
  <1>3. GameInv /\ [Next]_vars => [MovedByRight /\ OthersStay]_vars
    BY GameStep DEF Obeyed
  <1> QED
    BY <1>1, <1>2, <1>3, PTL DEF Spec, TanksObey
===============================================================================
