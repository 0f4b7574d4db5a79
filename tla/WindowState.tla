----------------------------- MODULE WindowState -----------------------------
(***************************************************************************)
(* The geometry kept by window_state.rs: what record writes down about a   *)
(* window on a monitor, and where remap puts the window on the monitors    *)
(* that are connected when it is created again.  Scales are in quarters    *)
(* (1 is a factor 0.25), so that the ratio of two scales is a fraction.    *)
(***************************************************************************)
EXTENDS Integers

CONSTANTS
    IntMin, IntMax,         \* the ends of i32
    MinVisible,             \* MIN_VISIBLE
    MinWidth, MinHeight     \* the smallest restored size

ASSUME GeometryAssumption ==
    /\ IntMin \in Int /\ IntMax \in Int /\ IntMin < IntMax
    /\ MinVisible \in Nat /\ MinWidth \in Nat /\ MinHeight \in Nat
    /\ MinVisible < MinWidth /\ MinVisible < MinHeight

AtLeast(a, b) == IF a < b THEN b ELSE a
AtMost(a, b) == IF a > b THEN b ELSE a

\* A monitor whose edges are i32 even with the smallest window beside it, and
\* that is wide enough to show MinVisible of one.
Fits(m) ==
    /\ m.x \in Int /\ m.y \in Int /\ m.w \in Nat /\ m.h \in Nat /\ m.scale \in Nat
    /\ MinVisible <= m.w /\ AtLeast(m.w, MinWidth) <= IntMax /\ m.h <= IntMax
    /\ IntMin <= m.x - AtLeast(m.w, MinWidth) /\ m.x + m.w <= IntMax
    /\ IntMin <= m.y /\ m.y + m.h <= IntMax

\* Ord::clamp
clamp(n, low, high) == AtMost(AtLeast(n, low), high)

\* saturating_add and saturating_sub of i32.
saturating(n) == clamp(n, IntMin, IntMax)

\* f64::round, half away from zero, of n * num / den.
rounded(n, num, den) ==
    IF n >= 0 THEN (2 * n * num + den) \div (2 * den)
              ELSE -((-2 * n * num + den) \div (2 * den))

\* What is kept of a window at x, y of size w, h on monitor m.
record(m, x, y, w, h) ==
    [monitor |-> m.name, x |-> saturating(x - m.x), y |-> saturating(y - m.y),
     w |-> w, h |-> h, scale |-> AtLeast(m.scale, 1)]

\* The ratio of the two scales, kept between 1/4 and 4.
Ratio(state, m) ==
    LET old == AtLeast(state.scale, 1)
    IN  CASE 4 * m.scale < old -> [num |-> 1, den |-> 4]
          [] m.scale > 4 * old -> [num |-> 4, den |-> 1]
          [] OTHER -> [num |-> m.scale, den |-> old]

remap_unclamped(state, m) ==
    [monitor |-> m.name, x |-> saturating(m.x + state.x), y |-> saturating(m.y + state.y),
     w |-> state.w, h |-> state.h]

\* The size between the smallest one and the monitor's, the place such that
\* some of the window is on the monitor.
remap(state, m) ==
    LET r == Ratio(state, m)
        width == clamp(rounded(state.w, r.num, r.den), MinWidth, AtLeast(m.w, MinWidth))
        height == clamp(rounded(state.h, r.num, r.den), MinHeight, AtLeast(m.h, MinHeight))
        minX == saturating(saturating(m.x - AtMost(width, IntMax)) + MinVisible)
        maxX == saturating(saturating(m.x + AtMost(m.w, IntMax)) - MinVisible)
        maxY == saturating(saturating(m.y + AtMost(m.h, IntMax)) - MinVisible)
        x == saturating(m.x + saturating(rounded(state.x, r.num, r.den)))
        y == saturating(m.y + saturating(rounded(state.y, r.num, r.den)))
    IN  [monitor |-> m.name, x |-> clamp(x, minX, AtLeast(maxX, minX)),
         y |-> clamp(y, m.y, AtLeast(maxY, m.y)), w |-> width, h |-> height]

\* restore: the monitor the window was on when it is remembered and still
\* connected, otherwise the primary one, the first of the list; nothing when
\* there is no monitor or nothing was recorded.
HomeMonitor(state, monitors, remember) ==
    LET same == {i \in DOMAIN monitors : monitors[i].name = state.monitor}
    IN  IF remember /\ same # {} THEN monitors[CHOOSE i \in same : \A j \in same : i <= j]
        ELSE monitors[1]

\* At least MinVisible of the window's width is on monitor m, with its upper
\* edge (where the title bar is) on the monitor as well.
InSight(g, m) ==
    /\ g.x + g.w >= m.x + MinVisible
    /\ g.x <= m.x + m.w - MinVisible
    /\ g.y >= m.y
    /\ g.y <= m.y + AtLeast(m.h - MinVisible, 0)

==============================================================================
