------------------------------ MODULE TankLayout ------------------------------
(***************************************************************************)
(* How tanks_game places its windows on a terminal (computeLayout): two    *)
(* tank fields side by side, the controls and the event log below them,    *)
(* and the policy panel on the right when there is room for it.  Row 0 is  *)
(* the title bar.                                                          *)
(***************************************************************************)
EXTENDS Integers

kMinFieldW == 12
kMinFieldH == 5
kMaxFieldW == 48
kMaxFieldH == 24
kHudH == 7
kMinLogLines == 2
kMinAclW == 16
kMaxAclW == 44
kMinGameCols == 36
kMinGameRows == 20

kMargin == 1
kTankGap == 1
kSectionGap == 1
kMinLogH == kMinLogLines + 2

NoLayout == [fieldW |-> 0]

LeastOf(a, b) == IF a <= b THEN a ELSE b
MostOf(a, b) == IF a >= b THEN a ELSE b
ClampTo(v, lo, hi) == IF v < lo THEN lo ELSE IF v > hi THEN hi ELSE v

BothFieldsW == 2 * (kMinFieldW + 2) + kTankGap

\* The panel's share of the width, 0 when the fields would not fit beside it.
PanelShare(avail) ==
    LET share == ClampTo(avail \div 3, kMinAclW, kMaxAclW)
    IN  IF avail >= BothFieldsW + kMinAclW /\ avail - share - 1 >= BothFieldsW
        THEN share ELSE 0

FieldWidthUnframed(avail) ==          \* mutant of FieldWidth
    LET share == PanelShare(avail)
        area  == IF share = 0 THEN avail ELSE avail - share - 1
    IN  ClampTo((area - kTankGap) \div 2, kMinFieldW, kMaxFieldW)

FieldWidth(avail) ==
    LET share == PanelShare(avail)
        area  == IF share = 0 THEN avail ELSE avail - share - 1
    IN  ClampTo(((area - kTankGap) \div 2) - 2, kMinFieldW, kMaxFieldW)

\* What the minimal screen leaves over goes to the fields, then to the log.
FieldHeight(leftover) == kMinFieldH + LeastOf(leftover, kMaxFieldH - kMinFieldH)

computeLayout(rows, cols) ==
    LET avail    == cols - 2 * kMargin
        fieldW   == FieldWidth(avail)
        rightX   == kMargin + fieldW + 2 + kTankGap
        mainW    == rightX + fieldW + 2 - kMargin
        aclX     == kMargin + mainW + 1
        aclW     == LeastOf(PanelShare(avail), (cols - aclX) - 1)
        minTotal == kMinFieldH + 2 + kSectionGap + kHudH + kMinLogH
        leftover == (rows - 1) - minTotal
        fieldH   == FieldHeight(leftover)
        hudY     == 1 + fieldH + 2 + kSectionGap
        logY     == hudY + kHudH
        lines    == kMinLogLines + leftover - (fieldH - kMinFieldH)
        logH     == IF logY + lines + 2 > rows THEN MostOf(kMinLogH, rows - logY) ELSE lines + 2
        logLines == IF logY + lines + 2 > rows THEN MostOf(kMinLogLines, logH - 2) ELSE lines
    IN  IF rows < kMinGameRows \/ cols < kMinGameCols \/ leftover < 0 THEN NoLayout
        ELSE [fieldW |-> fieldW, fieldH |-> fieldH, rightX |-> rightX, mainW |-> mainW,
              hudY |-> hudY, logY |-> logY, logH |-> logH, logLines |-> logLines,
              showAcl |-> PanelShare(avail) # 0 /\ aclW >= kMinAclW, aclX |-> aclX, aclW |-> aclW,
              aclH |-> LeastOf(fieldH + 2 + kSectionGap + kHudH + logH, rows - 1)]

\* createGameWindows: the rectangles it gives to newwin.
Rect(y, x, h, w) == [y |-> y, x |-> x, h |-> h, w |-> w]

LeftWindow(l)   == Rect(1, kMargin, l.fieldH + 2, l.fieldW + 2)
RightWindow(l)  == Rect(1, l.rightX, l.fieldH + 2, l.fieldW + 2)
HudWindow(l)    == Rect(l.hudY, kMargin, kHudH, l.mainW)
LogWindow(l)    == Rect(l.logY, kMargin, l.logH, l.mainW)
PolicyWindow(l) == Rect(1, l.aclX, l.aclH, l.aclW)

createGameWindows(l) ==
    {LeftWindow(l), RightWindow(l), HudWindow(l), LogWindow(l)}
        \cup (IF l.showAcl THEN {PolicyWindow(l)} ELSE {})

-------------------------------------------------------------------------------

Within(r, rows, cols) ==
    /\ r.h > 0 /\ r.w > 0
    /\ r.y >= 1 /\ r.y + r.h <= rows
    /\ r.x >= 0 /\ r.x + r.w <= cols

Apart(r, s) ==
    \/ r.x + r.w <= s.x \/ s.x + s.w <= r.x
    \/ r.y + r.h <= s.y \/ s.y + s.h <= r.y

\* Every window lies on the terminal, below the title bar, and no two of them
\* share a cell.
Tiled(l, rows, cols) ==
    /\ \A r \in createGameWindows(l) : Within(r, rows, cols)
    /\ \A r, s \in createGameWindows(l) : r # s => Apart(r, s)
===============================================================================
