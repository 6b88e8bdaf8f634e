-------------------------- MODULE InputMailboxProofs --------------------------
(***************************************************************************)
(* No movement of the mouse is lost or counted twice, and a click is of    *)
(* one press, for any windows, any cursor positions and any number of      *)
(* presses.  The theorems are of MCThreads, where the mailbox runs with    *)
(* clicks and keys or with the motion of the mouse.                        *)
(***************************************************************************)
EXTENDS MCThreads, TLAPS

\* What the proofs use of the two: the cursor may go anywhere.
AnyNext == Next \/ \E w \in Windows, x \in Int : MoveCursor(w, x)

\* What a callback is about to add to a window's movement.
Adding(w) == IF callback.step = "add" /\ callback.win = w THEN callback.dx ELSE 0

Callbacks ==
    {None} \cup [step : {"add"}, win : Windows, dx : Int, current : Int]
           \cup [step : {"press"}, win : Windows, next : Nat]

DeltaType ==
    /\ mouse_dx \in [Windows -> Int] /\ last_mx \in [Windows -> Int]
    /\ origin \in [Windows -> Int] /\ taken \in [Windows -> Int]
    /\ first_mouse \in [Windows -> BOOLEAN]
    /\ callback \in Callbacks

\* A window the cursor was never in has nothing taken, pending or under way.
Untouched(w) == taken[w] = 0 /\ mouse_dx[w] = 0 /\ Adding(w) = 0

Conserved(w) ==
    IF first_mouse[w] THEN Untouched(w)
    ELSE taken[w] + mouse_dx[w] + Adding(w) = last_mx[w] - origin[w]

DeltaInv == DeltaType /\ \A w \in Windows : Conserved(w)

deltaVars == <<mouse_dx, last_mx, origin, taken, first_mouse, callback>>

-----------------------------------------------------------------------------
LEMMA CallbackType ==
    ASSUME DeltaType
    PROVE  /\ \A w \in Windows : Adding(w) \in Int
           /\ callback.step = "add" => /\ callback.win \in Windows
                                       /\ callback.dx \in Int
                                       /\ callback.current \in Int
           /\ Idle => callback.step = "none"
<1>1. CASE callback = None
  BY <1>1 DEF Adding, None, Idle
<1>2. CASE callback \in [step : {"add"}, win : Windows, dx : Int, current : Int]
  BY <1>2 DEF Adding, None, Idle
<1>3. CASE callback \in [step : {"press"}, win : Windows, next : Nat]
  BY <1>3 DEF Adding, None, Idle
<1>4. QED
  BY <1>1, <1>2, <1>3 DEF DeltaType, Callbacks

LEMMA DeltaInit == Init => DeltaInv
  BY DEF Init, DeltaInv, DeltaType, Callbacks, Conserved, Untouched, Adding, None

\* What leaves the six variables alone keeps the invariant.
LEMMA DeltaUnchanged == DeltaInv /\ UNCHANGED deltaVars => DeltaInv'
  BY DEF deltaVars, DeltaInv, DeltaType, Conserved, Untouched, Adding

\* A callback of the button adds nothing, so it may come and go.
LEMMA DeltaPress ==
    ASSUME DeltaInv, callback.step # "add", callback' \in Callbacks,
           callback'.step # "add",
           UNCHANGED <<mouse_dx, last_mx, origin, taken, first_mouse>>
    PROVE  DeltaInv'
  BY DEF DeltaInv, DeltaType, Conserved, Untouched, Adding

LEMMA DeltaMove ==
    ASSUME DeltaInv, NEW w \in Windows, NEW x \in Int, MoveCursor(w, x)
    PROVE  DeltaInv'
<1> DEFINE from == IF first_mouse[w] THEN x ELSE last_mx[w]
<1>1. /\ callback' = [step |-> "add", win |-> w, dx |-> x - from,
                      current |-> mouse_dx[w]]
      /\ origin' = IF first_mouse[w] THEN [origin EXCEPT ![w] = x] ELSE origin
      /\ first_mouse' = [first_mouse EXCEPT ![w] = FALSE]
      /\ last_mx' = [last_mx EXCEPT ![w] = x]
      /\ UNCHANGED <<mouse_dx, taken>>
  BY DEF MoveCursor, mailVars
<1>2. from \in Int
  BY <1>1 DEF DeltaInv, DeltaType
<1>3. DeltaType'
  <2>1. callback' \in [step : {"add"}, win : Windows, dx : Int, current : Int]
    BY <1>1, <1>2 DEF DeltaInv, DeltaType
  <2>2. QED
    BY <1>1, <2>1 DEF DeltaInv, DeltaType, Callbacks
<1>4. ASSUME NEW v \in Windows PROVE Conserved(v)'
  <2>1. Adding(v) = 0
    BY CallbackType DEF MoveCursor, DeltaInv, Adding
  <2>2. Adding(v)' = IF v = w THEN x - from ELSE 0
    BY <1>1 DEF Adding
  <2>3. CASE v # w
    BY <1>1, <2>1, <2>2, <2>3 DEF DeltaInv, DeltaType, Conserved, Untouched
  <2>4. CASE v = w /\ first_mouse[w]
    <3>1. taken[w] = 0 /\ mouse_dx[w] = 0
      BY <2>4 DEF DeltaInv, Conserved, Untouched
    <3>2. origin'[w] = x /\ last_mx'[w] = x /\ ~first_mouse'[w] /\ from = x
      BY <1>1, <2>4 DEF DeltaInv, DeltaType
    <3>3. QED
      BY <1>1, <2>2, <2>4, <3>1, <3>2 DEF Conserved
  <2>5. CASE v = w /\ ~first_mouse[w]
    <3>1. taken[w] + mouse_dx[w] = last_mx[w] - origin[w]
      BY <2>1, <2>5 DEF DeltaInv, DeltaType, Conserved
    <3>2. origin'[w] = origin[w] /\ last_mx'[w] = x /\ ~first_mouse'[w]
          /\ from = last_mx[w]
      BY <1>1, <2>5 DEF DeltaInv, DeltaType
    <3>3. QED
      BY <1>1, <2>2, <2>5, <3>1, <3>2 DEF Conserved, DeltaInv, DeltaType
  <2>6. QED
    BY <2>3, <2>4, <2>5
<1>5. QED
  BY <1>3, <1>4 DEF DeltaInv

LEMMA DeltaAdd == ASSUME DeltaInv, AddDelta PROVE DeltaInv'
<1> DEFINE w == callback.win
<1>1. /\ callback.step = "add" /\ w \in Windows
      /\ callback.dx \in Int /\ callback.current \in Int
  BY CallbackType DEF AddDelta, DeltaInv
<1>2. callback \in [step : {"add"}, win : Windows, dx : Int, current : Int]
  BY <1>1 DEF DeltaInv, DeltaType, Callbacks, None
<1>3. UNCHANGED <<last_mx, first_mouse, origin, taken>>
  BY DEF AddDelta
<1>4. CASE /\ Unchanged(w)
           /\ mouse_dx' = [mouse_dx EXCEPT ![w] = callback.current + callback.dx]
           /\ callback' = None
  <2>1. DeltaType'
    BY <1>1, <1>3, <1>4 DEF DeltaInv, DeltaType, Callbacks
  <2>2. ASSUME NEW v \in Windows PROVE Conserved(v)'
    <3>1. Adding(v)' = 0
      BY <1>4 DEF Adding, None
    <3>2. CASE v # w
      BY <1>1, <1>3, <1>4, <3>1, <3>2
         DEF DeltaInv, DeltaType, Conserved, Untouched, Adding
    <3>3. CASE v = w
      <4>1. mouse_dx'[w] = mouse_dx[w] + Adding(w) /\ Adding(w) = callback.dx
        BY <1>1, <1>4 DEF DeltaInv, DeltaType, Unchanged, Adding
      <4>2. QED
        BY <1>1, <1>3, <3>1, <3>3, <4>1 DEF DeltaInv, DeltaType, Conserved, Untouched
    <3>4. QED
      BY <3>2, <3>3
  <2>3. QED
    BY <2>1, <2>2 DEF DeltaInv
<1>5. CASE callback' = [callback EXCEPT !.current = mouse_dx[w]] /\ UNCHANGED mouse_dx
  <2>1. callback' \in [step : {"add"}, win : Windows, dx : Int, current : Int]
    BY <1>1, <1>2, <1>5 DEF DeltaInv, DeltaType
  <2>2. callback'.step = "add" /\ callback'.win = w /\ callback'.dx = callback.dx
    BY <1>1, <1>2, <1>5
  <2>3. \A v \in Windows : Adding(v)' = Adding(v)
    BY <1>1, <2>2 DEF Adding
  <2>4. DeltaType'
    BY <1>3, <1>5, <2>1 DEF DeltaInv, DeltaType, Callbacks
  <2>5. QED
    BY <1>3, <1>5, <2>3, <2>4 DEF DeltaInv, Conserved, Untouched
<1>6. QED
  BY <1>4, <1>5 DEF AddDelta

LEMMA DeltaTake ==
    ASSUME DeltaInv, NEW w \in Windows, TakeDelta(w)
    PROVE  DeltaInv'
<1>1. /\ taken' = [taken EXCEPT ![w] = @ + mouse_dx[w]]
      /\ mouse_dx' = [mouse_dx EXCEPT ![w] = 0]
      /\ UNCHANGED <<last_mx, first_mouse, origin, callback>>
  BY DEF TakeDelta, mainVars
<1>2. DeltaType'
  BY <1>1 DEF DeltaInv, DeltaType
<1>3. ASSUME NEW v \in Windows PROVE Conserved(v)'
  <2>1. Adding(v)' = Adding(v) /\ Adding(v) \in Int
    BY <1>1, CallbackType DEF Adding, DeltaInv
  <2>2. taken'[v] + mouse_dx'[v] = taken[v] + mouse_dx[v]
    BY <1>1 DEF DeltaInv, DeltaType
  <2>3. taken[v] = 0 /\ mouse_dx[v] = 0 => taken'[v] = 0 /\ mouse_dx'[v] = 0
    BY <1>1 DEF DeltaInv, DeltaType
  <2>4. QED
    BY <1>1, <1>2, <2>1, <2>2, <2>3 DEF DeltaInv, DeltaType, Conserved, Untouched
<1>4. QED
  BY <1>2, <1>3 DEF DeltaInv

LEMMA DeltaStep == DeltaInv /\ (AnyNext \/ UNCHANGED vars) => DeltaInv'
<1> SUFFICES ASSUME DeltaInv, AnyNext \/ UNCHANGED vars PROVE DeltaInv'
  OBVIOUS
<1>1. ASSUME NEW w \in Windows, NEW x \in Int, MoveCursor(w, x) PROVE DeltaInv'
  BY <1>1, DeltaMove
<1>2. ASSUME NEW w \in Windows, PressLeft(w) PROVE DeltaInv'
  <2>1. /\ callback = None /\ callback' = [step |-> "press", win |-> w, next |-> 1]
        /\ UNCHANGED <<mouse_dx, last_mx, origin, taken, first_mouse>>
    BY <1>2 DEF PressLeft, Idle
  <2>2. QED
    BY <2>1, DeltaPress DEF None, Callbacks
<1>3. CASE StorePress
  <2>1. /\ callback.step = "press"
        /\ callback' = IF callback.next = 3 THEN None
                       ELSE [callback EXCEPT !.next = @ + 1]
        /\ UNCHANGED <<mouse_dx, last_mx, origin, taken, first_mouse>>
    BY <1>3 DEF StorePress, userVars
  <2>2. callback \in [step : {"press"}, win : Windows, next : Nat]
    BY <2>1 DEF DeltaInv, DeltaType, Callbacks, None
  <2>3. callback' \in {None} \cup [step : {"press"}, win : Windows, next : Nat]
    BY <2>1, <2>2
  <2>4. callback'.step # "add" /\ callback' \in Callbacks
    BY <2>3 DEF None, Callbacks
  <2>5. QED
    BY <2>1, <2>4, DeltaPress
<1>4. CASE AddDelta
  BY <1>4, DeltaAdd
<1>5. ASSUME NEW w \in Windows, TakeDelta(w) PROVE DeltaInv'
  BY <1>5, DeltaTake
<1>6. ASSUME NEW w \in Windows, ReleaseLeft(w) \/ MoveFocus(w)
      PROVE  DeltaInv'
  BY <1>6, DeltaUnchanged DEF ReleaseLeft, MoveFocus, mailVars, mainVars, deltaVars
<1>7. ASSUME NEW w \in Windows, NEW k \in Keys, NEW pressed \in BOOLEAN,
             Key(w, k, pressed)
      PROVE  DeltaInv'
  BY <1>7, DeltaUnchanged DEF Key, mainVars, deltaVars
<1>8. CASE ReadActive \/ ReadButton \/ ReadClickX \/ ReadClickY \/ Inject \/ EndClick
  BY <1>8, DeltaUnchanged
     DEF ReadActive, ReadButton, ReadClickX, ReadClickY, Inject, EndClick,
         mailVars, mainVars, deltaVars
<1>9. CASE UNCHANGED vars
  BY <1>9, DeltaUnchanged DEF vars, mailVars, mainVars, deltaVars
<1>10. QED
  BY <1>1, <1>2, <1>3, <1>4, <1>5, <1>6, <1>7, <1>8, <1>9, InputAssumption
     DEF AnyNext, Next, Main, Lua

-----------------------------------------------------------------------------
(* A click is of one press.                                                 *)

\* The game thread has seen a press and not yet acted on it.
ClickUnderWay == lua_pc \in {"x", "y", "inject"}

ClickType ==
    /\ active_window \in Windows /\ focus \in Windows /\ win \in Windows
    /\ click_x \in [Windows -> Presses] /\ click_y \in [Windows -> Presses]
    /\ mouse_left \in [Windows -> Presses] /\ prev_mouse_left \in [Windows -> Presses]
    /\ presses \in Presses /\ seen \in Presses
    /\ click \in Presses \X Presses /\ injected \subseteq Presses
    /\ lua_pc \in {"active", "button", "x", "y", "inject", "end"}

\* Presses are numbered in the order they are made, and nothing is known of later ones.
NumbersAreKnown ==
    /\ \A w \in Windows : click_x[w] <= presses /\ click_y[w] <= presses
    /\ \A i \in injected : i <= presses
    /\ seen <= presses

\* A press under way is of the window in focus, which is the active one; no button is
\* down yet, nobody has seen it, and the stores made so far are its own.
PressUnderWay ==
    callback.step = "press" =>
        LET w == callback.win
        IN  /\ w \in Windows /\ focus = w /\ active_window = w
            /\ callback.next \in 1 .. 3 /\ presses # 0
            /\ \A v \in Windows : mouse_left[v] = 0
            /\ callback.next >= 2 => click_x[w] = presses
            /\ callback.next = 3 => click_y[w] = presses
            /\ presses \notin injected
            /\ seen # presses

\* A button that is down is the last press, of the window in focus, which is the active
\* one; and a press acted on is remembered as long as the button is down.
HeldIsLast ==
    \A w \in Windows : mouse_left[w] # 0 =>
        /\ focus = w /\ active_window = w /\ callback.step # "press"
        /\ mouse_left[w] = presses /\ click_x[w] = presses /\ click_y[w] = presses
        /\ presses \in injected =>
              IF lua_pc = "end" /\ win = w THEN seen # 0 ELSE prev_mouse_left[w] # 0
        /\ ClickUnderWay /\ seen = presses => win = w

\* What the game thread reads of a click is no older than the press it saw.
ClickIsFresh ==
    ClickUnderWay =>
        /\ seen # 0 /\ seen \notin injected
        /\ click_x[win] >= seen /\ click_y[win] >= seen
        /\ lua_pc \in {"y", "inject"} => click[1] >= seen
        /\ lua_pc = "inject" => click[2] >= seen

ClickInv == /\ ClickType /\ NumbersAreKnown /\ PressUnderWay /\ HeldIsLast /\ ClickIsFresh

clickVars == <<active_window, mouse_left, click_x, click_y, focus, presses, lua_pc, win,
               seen, click, prev_mouse_left, injected>>

LEMMA ClickInit == Init => ClickInv
  BY InputAssumption
     DEF Init, ClickInv, ClickType, NumbersAreKnown, PressUnderWay, HeldIsLast,
         ClickIsFresh, ClickUnderWay, Presses, None

\* What leaves its variables alone, and is no press, keeps the invariant.
LEMMA ClickUnchanged ==
    ASSUME ClickInv, UNCHANGED clickVars,
           callback'.step # "press" \/ UNCHANGED callback
    PROVE  ClickInv'
  BY DEF clickVars, ClickInv, ClickType, NumbersAreKnown, PressUnderWay, HeldIsLast,
         ClickIsFresh, ClickUnderWay

LEMMA ClickPress ==
    ASSUME ClickInv, NEW w \in Windows, PressLeft(w)
    PROVE  ClickInv'
<1>1. /\ callback = None /\ focus = w /\ mouse_left[w] = 0 /\ presses < MaxPresses
      /\ presses' = presses + 1 /\ active_window' = w
      /\ callback' = [step |-> "press", win |-> w, next |-> 1]
      /\ UNCHANGED <<mouse_left, click_x, click_y, focus, luaVars>>
  BY DEF PressLeft, Idle
<1>2. \A v \in Windows : mouse_left[v] = 0
  BY <1>1 DEF ClickInv, HeldIsLast
<1>3. presses \in Nat /\ presses' \in Presses /\ presses' # 0
  BY <1>1, InputAssumption DEF ClickInv, ClickType, Presses
<1>4. ClickType'
  BY <1>1, <1>3 DEF ClickInv, ClickType, luaVars
<1>5. NumbersAreKnown'
  BY <1>1, <1>3 DEF ClickInv, ClickType, NumbersAreKnown, luaVars, Presses
<1>6. PressUnderWay'
  BY <1>1, <1>2, <1>3 DEF ClickInv, NumbersAreKnown, PressUnderWay, luaVars
<1>7. HeldIsLast'
  BY <1>1, <1>2 DEF HeldIsLast
<1>8. ClickIsFresh'
  BY <1>1 DEF ClickInv, ClickIsFresh, ClickUnderWay, luaVars
<1> QED BY <1>4, <1>5, <1>6, <1>7, <1>8 DEF ClickInv

LEMMA ClickStore == ASSUME ClickInv, StorePress PROVE ClickInv'
<1> DEFINE w == callback.win
<1>1. /\ callback.step = "press" /\ w \in Windows /\ callback.next \in 1 .. 3
      /\ focus = w /\ active_window = w /\ presses # 0
      /\ \A v \in Windows : mouse_left[v] = 0
      /\ callback.next >= 2 => click_x[w] = presses
      /\ callback.next = 3 => click_y[w] = presses
      /\ presses \notin injected /\ seen # presses
  BY DEF StorePress, ClickInv, PressUnderWay
<1>2. UNCHANGED <<active_window, focus, presses, luaVars>>
  BY DEF StorePress, userVars
<1>3. click_x' = IF callback.next = 1 THEN [click_x EXCEPT ![w] = presses] ELSE click_x
  BY <1>1 DEF StorePress, PressStores
<1>4. click_y' = IF callback.next = 2 THEN [click_y EXCEPT ![w] = presses] ELSE click_y
  BY <1>1 DEF StorePress, PressStores
<1>5. mouse_left' = IF callback.next = 3 THEN [mouse_left EXCEPT ![w] = presses]
                    ELSE mouse_left
  BY <1>1 DEF StorePress, PressStores
<1>6. callback' = IF callback.next = 3 THEN None ELSE [callback EXCEPT !.next = @ + 1]
  BY DEF StorePress
<1>7. ClickType /\ NumbersAreKnown /\ ClickIsFresh
  BY DEF ClickInv
<1>8. ClickType'
  BY <1>1, <1>2, <1>3, <1>4, <1>5, <1>7 DEF ClickType, luaVars
<1>9. NumbersAreKnown'
  BY <1>1, <1>2, <1>3, <1>4, <1>7 DEF NumbersAreKnown, ClickType, luaVars, Presses
<1>10. ClickIsFresh'
  BY <1>1, <1>2, <1>3, <1>4, <1>7
     DEF ClickIsFresh, ClickUnderWay, NumbersAreKnown, ClickType, luaVars, Presses
<1>11. CASE callback.next = 3
  <2>1. callback'.step # "press"
    BY <1>6, <1>11 DEF None
  <2>2. \A v \in Windows : mouse_left'[v] # 0 => v = w /\ mouse_left'[v] = presses
    BY <1>1, <1>5, <1>7, <1>11 DEF ClickType
  <2>3. click_x'[w] = presses /\ click_y'[w] = presses
    BY <1>1, <1>3, <1>4, <1>11
  <2>4. HeldIsLast'
    BY <1>1, <1>2, <2>1, <2>2, <2>3 DEF HeldIsLast, ClickUnderWay, luaVars
  <2> QED BY <1>8, <1>9, <1>10, <2>1, <2>4 DEF ClickInv, PressUnderWay
<1>12. CASE callback.next # 3
  <2>1. mouse_left' = mouse_left
    BY <1>5, <1>12
  <2>2. HeldIsLast'
    BY <1>1, <2>1 DEF HeldIsLast
  <2>3. callback' = [callback EXCEPT !.next = @ + 1]
    BY <1>6, <1>12
  <2>4. callback'.win = w /\ (callback'.step = "press" => callback'.next = callback.next + 1)
    BY <1>1, <2>3
  <2>5. /\ callback.next = 1 => click_x'[w] = presses
        /\ callback.next = 2 => click_x'[w] = presses /\ click_y'[w] = presses
    BY <1>1, <1>3, <1>4, <1>7 DEF ClickType
  <2>6. PressUnderWay'
    BY <1>1, <1>2, <1>12, <2>1, <2>4, <2>5 DEF PressUnderWay, luaVars
  <2> QED BY <1>8, <1>9, <1>10, <2>2, <2>6 DEF ClickInv
<1> QED BY <1>11, <1>12

LEMMA ClickRelease ==
    ASSUME ClickInv, NEW w \in Windows, ReleaseLeft(w)
    PROVE  ClickInv'
<1>1. /\ callback = None /\ mouse_left' = [mouse_left EXCEPT ![w] = 0]
      /\ UNCHANGED <<active_window, click_x, click_y, focus, presses, callback, luaVars>>
  BY DEF ReleaseLeft, Idle, mainVars, userVars
<1>2. \A v \in Windows : mouse_left'[v] # 0 => mouse_left'[v] = mouse_left[v]
  BY <1>1 DEF ClickInv, ClickType
<1>3. HeldIsLast'
  BY <1>1, <1>2 DEF ClickInv, HeldIsLast, ClickUnderWay, luaVars
<1>4. ClickType' /\ PressUnderWay'
  BY <1>1, InputAssumption DEF ClickInv, ClickType, PressUnderWay, None, luaVars, Presses
<1> QED
  BY <1>1, <1>3, <1>4
     DEF ClickInv, NumbersAreKnown, ClickIsFresh, ClickUnderWay, luaVars

\* The focus, and with it the active window, moves only while no button is down.
LEMMA ClickFocus ==
    ASSUME ClickInv, callback = None, NEW w \in Windows,
           focus' = w \/ (UNCHANGED focus /\ focus = w),
           active_window' = w \/ UNCHANGED active_window,
           w # focus => mouse_left[focus] = 0,
           UNCHANGED <<mouse_left, click_x, click_y, presses, callback, luaVars>>
    PROVE  ClickInv'
<1>1. ClickType'
  BY DEF ClickInv, ClickType, luaVars
<1>2. HeldIsLast'
  BY DEF ClickInv, HeldIsLast, ClickUnderWay, luaVars
<1>3. PressUnderWay'
  BY DEF PressUnderWay, None
<1> QED
  BY <1>1, <1>2, <1>3 DEF ClickInv, NumbersAreKnown, ClickIsFresh, ClickUnderWay, luaVars

LEMMA ClickReadActive == ASSUME ClickInv, ReadActive PROVE ClickInv'
<1>1. /\ lua_pc = "active" /\ lua_pc' = "button" /\ win' = active_window
      /\ prev_mouse_left' = [w \in Windows |-> IF w = active_window
                                               THEN prev_mouse_left[w] ELSE 0]
      /\ UNCHANGED <<active_window, mouse_left, click_x, click_y, focus, presses,
                     callback, seen, click, injected>>
  BY DEF ReadActive, mailVars, mainVars, userVars
<1>2. ClickType'
  BY <1>1, InputAssumption DEF ClickInv, ClickType, Presses
<1>3. HeldIsLast'
  BY <1>1 DEF ClickInv, HeldIsLast, ClickUnderWay
<1> QED
  BY <1>1, <1>2, <1>3 DEF ClickInv, NumbersAreKnown, PressUnderWay, ClickIsFresh,
                              ClickUnderWay

LEMMA ClickReadButton == ASSUME ClickInv, ReadButton PROVE ClickInv'
<1>1. /\ lua_pc = "button" /\ seen' = mouse_left[win]
      /\ lua_pc' = IF seen' # 0 /\ prev_mouse_left[win] = 0 THEN "x" ELSE "end"
      /\ UNCHANGED <<active_window, mouse_left, click_x, click_y, focus, presses,
                     callback, win, click, prev_mouse_left, injected>>
  BY DEF ReadButton, mailVars, mainVars, userVars
<1>2. ClickType /\ NumbersAreKnown /\ PressUnderWay /\ HeldIsLast /\ win \in Windows
  BY DEF ClickInv, ClickType
<1>3. ClickType'
  BY <1>1, <1>2 DEF ClickType
<1>4. seen' # 0 => seen' = presses /\ focus = win
  BY <1>1, <1>2 DEF HeldIsLast
<1>5. NumbersAreKnown'
  BY <1>1, <1>2, <1>3, <1>4 DEF NumbersAreKnown, ClickType, Presses
<1>6. PressUnderWay'
  BY <1>1, <1>2 DEF PressUnderWay
<1>7. HeldIsLast'
  BY <1>1, <1>2, <1>4 DEF HeldIsLast, ClickUnderWay
<1>8. ClickIsFresh'
  BY <1>1, <1>2, <1>3, <1>4 DEF ClickIsFresh, HeldIsLast, ClickUnderWay, ClickType, Presses
<1> QED BY <1>3, <1>5, <1>6, <1>7, <1>8 DEF ClickInv

LEMMA ClickReadPlace == ASSUME ClickInv, ReadClickX \/ ReadClickY PROVE ClickInv'
<1>1. /\ UNCHANGED <<active_window, mouse_left, click_x, click_y, focus, presses,
                     callback, win, seen, prev_mouse_left, injected>>
      /\ \/ /\ lua_pc = "x" /\ lua_pc' = "y" /\ click' = [click EXCEPT ![1] = click_x[win]]
         \/ /\ lua_pc = "y" /\ lua_pc' = "inject"
            /\ click' = [click EXCEPT ![2] = click_y[win]]
  BY DEF ReadClickX, ReadClickY, mailVars, mainVars, userVars
<1>2. click \in Presses \X Presses /\ click_x[win] \in Presses /\ click_y[win] \in Presses
  BY DEF ClickInv, ClickType
<1>3. /\ click' \in Presses \X Presses
      /\ lua_pc = "x" => click'[1] = click_x[win]
      /\ lua_pc = "y" => click'[1] = click[1] /\ click'[2] = click_y[win]
  BY <1>1, <1>2
<1>4. ClickType'
  BY <1>1, <1>3 DEF ClickInv, ClickType
<1>5. ClickIsFresh'
  BY <1>1, <1>3 DEF ClickInv, ClickIsFresh, ClickUnderWay
<1>6. HeldIsLast'
  BY <1>1 DEF ClickInv, HeldIsLast, ClickUnderWay
<1> QED BY <1>1, <1>4, <1>5, <1>6 DEF ClickInv, NumbersAreKnown, PressUnderWay

LEMMA ClickInject == ASSUME ClickInv, Inject PROVE ClickInv'
<1>1. /\ lua_pc = "inject" /\ lua_pc' = "end" /\ injected' = injected \cup {seen}
      /\ UNCHANGED <<active_window, mouse_left, click_x, click_y, focus, presses,
                     callback, win, seen, click, prev_mouse_left>>
  BY DEF Inject, mailVars, mainVars, userVars
<1>2. ClickType'
  BY <1>1 DEF ClickInv, ClickType
<1>3. NumbersAreKnown' /\ PressUnderWay'
  BY <1>1 DEF ClickInv, NumbersAreKnown, PressUnderWay
<1>4. HeldIsLast'
  BY <1>1 DEF ClickInv, HeldIsLast, ClickIsFresh, ClickUnderWay
<1> QED BY <1>1, <1>2, <1>3, <1>4 DEF ClickInv, ClickIsFresh, ClickUnderWay

LEMMA ClickEnd == ASSUME ClickInv, EndClick PROVE ClickInv'
<1>1. /\ lua_pc = "end" /\ lua_pc' = "active"
      /\ prev_mouse_left' = [prev_mouse_left EXCEPT ![win] = seen]
      /\ UNCHANGED <<active_window, mouse_left, click_x, click_y, focus, presses,
                     callback, win, seen, click, injected>>
  BY DEF EndClick, PrevSeen, mailVars, mainVars, userVars
<1>2. ClickType'
  BY <1>1 DEF ClickInv, ClickType
<1>3. HeldIsLast'
  BY <1>1 DEF ClickInv, ClickType, HeldIsLast, ClickUnderWay
<1> QED
  BY <1>1, <1>2, <1>3 DEF ClickInv, NumbersAreKnown, PressUnderWay, ClickIsFresh,
                              ClickUnderWay

LEMMA ClickStep == DeltaInv /\ ClickInv /\ (AnyNext \/ UNCHANGED vars) => ClickInv'
<1> SUFFICES ASSUME DeltaInv, ClickInv, AnyNext \/ UNCHANGED vars PROVE ClickInv'
  OBVIOUS
<1>1. ASSUME NEW w \in Windows, NEW x \in Int, MoveCursor(w, x) PROVE ClickInv'
  <2>1. callback'.step # "press" /\ UNCHANGED clickVars
    BY <1>1 DEF MoveCursor, mailVars, userVars, luaVars, clickVars
  <2> QED BY <2>1, ClickUnchanged
<1>2. CASE AddDelta
  <2>1. callback.step = "add" /\ UNCHANGED clickVars
    BY <1>2 DEF AddDelta, userVars, luaVars, clickVars
  <2>2. callback'.step # "press"
    <3>1. callback' = None \/ callback' = [callback EXCEPT !.current = mouse_dx[callback.win]]
      BY <1>2 DEF AddDelta
    <3>2. callback \in [step : {"add"}, win : Windows, dx : Int, current : Int]
      BY <2>1 DEF DeltaInv, DeltaType, Callbacks, None
    <3> QED BY <3>1, <3>2 DEF None
  <2> QED BY <2>1, <2>2, ClickUnchanged
<1>3. ASSUME NEW w \in Windows, NEW k \in Keys, NEW pressed \in BOOLEAN,
             Key(w, k, pressed)
      PROVE  ClickInv'
  BY <1>3, ClickFocus DEF Key, Idle, mainVars, userVars
<1>4. ASSUME NEW w \in Windows, MoveFocus(w) PROVE ClickInv'
  BY <1>4, ClickFocus DEF MoveFocus, Idle, mailVars, mainVars
<1>5. ASSUME NEW w \in Windows, TakeDelta(w) PROVE ClickInv'
  BY <1>5, ClickUnchanged DEF TakeDelta, mainVars, userVars, luaVars, clickVars
<1>6. CASE UNCHANGED vars
  BY <1>6, ClickUnchanged DEF vars, mailVars, mainVars, userVars, luaVars, clickVars
<1>7. ASSUME NEW w \in Windows, PressLeft(w) \/ ReleaseLeft(w) PROVE ClickInv'
  BY <1>7, ClickPress, ClickRelease
<1> QED
  BY <1>1, <1>2, <1>3, <1>4, <1>5, <1>6, <1>7, ClickStore, ClickReadActive,
     ClickReadButton, ClickReadPlace, ClickInject, ClickEnd, InputAssumption
     DEF AnyNext, Next, Main, Lua

-----------------------------------------------------------------------------
(* Types, and the two parts of MCThreads.                                   *)

KeysType == wasd_mask \in [Windows -> SUBSET Keys]

LEMMA KeysStep == KeysType /\ (AnyNext \/ UNCHANGED vars) => KeysType'
<1> SUFFICES ASSUME KeysType, AnyNext \/ UNCHANGED vars PROVE KeysType'
  OBVIOUS
<1>1. CASE UNCHANGED wasd_mask
  BY <1>1 DEF KeysType
<1>2. ASSUME NEW w \in Windows, NEW k \in Keys, NEW pressed \in BOOLEAN,
             Key(w, k, pressed)
      PROVE  KeysType'
  BY <1>2 DEF Key, Mask, KeysType
<1> QED
  BY <1>1, <1>2
     DEF AnyNext, Next, Main, Lua, MoveCursor, PressLeft, ReleaseLeft, MoveFocus, AddDelta,
         StorePress, ReadActive, ReadButton, ReadClickX, ReadClickY, Inject, EndClick,
         TakeDelta, vars, mailVars

InputInv == DeltaInv /\ ClickInv /\ KeysType

LEMMA InputStep == InputInv /\ (AnyNext \/ UNCHANGED vars) => InputInv'
  BY DeltaStep, ClickStep, KeysStep DEF InputInv

\* Both parts begin alike, and TransferRing does so as well.
LEMMA InputInit == MCInit => InputInv
<1> SUFFICES ASSUME MCInit PROVE InputInv
  OBVIOUS
<1>1. Init
  BY DEF MCInit, Init, None, Moved!Init, Moved!None
<1>2. KeysType
  BY <1>1 DEF Init, KeysType
<1> QED
  BY <1>1, <1>2, DeltaInit, ClickInit DEF InputInv

\* The motion of the mouse is the motion of one of AnyNext: it has no keys and at most
\* one press.
LEMMA MovedIsAny == InputInv /\ Moved!Next => AnyNext
<1> SUFFICES ASSUME InputInv, Moved!Next PROVE AnyNext
  OBVIOUS
<1> USE DEF Moved!mailVars, Moved!mainVars, Moved!userVars, Moved!luaVars, Moved!None,
            Moved!Idle, mailVars, mainVars, userVars, luaVars, None, Idle
<1>1. ASSUME NEW w \in Windows, NEW x \in MovedPlaces, Moved!MoveCursor(w, x)
      PROVE  MoveCursor(w, x) /\ x \in Int
  BY <1>1, ThreadsAssumption DEF Moved!MoveCursor, MoveCursor
<1>2. ASSUME NEW w \in Windows, Moved!PressLeft(w) PROVE PressLeft(w)
  <2>1. presses \in Nat /\ MaxPresses \in Nat \ {0} /\ presses < 1
    BY <1>2, InputAssumption DEF InputInv, ClickInv, ClickType, Presses, Moved!PressLeft
  <2>2. presses < MaxPresses
    BY <2>1
  <2> QED BY <1>2, <2>2 DEF Moved!PressLeft, PressLeft
<1>3. ASSUME NEW w \in Windows, Moved!ReleaseLeft(w) PROVE ReleaseLeft(w)
  BY <1>3 DEF Moved!ReleaseLeft, ReleaseLeft
<1>4. ASSUME NEW w \in Windows, Moved!MoveFocus(w) PROVE MoveFocus(w)
  BY <1>4 DEF Moved!MoveFocus, MoveFocus
<1>5. ASSUME Moved!AddDelta PROVE AddDelta
  BY <1>5 DEF Moved!AddDelta, Moved!Unchanged, AddDelta, Unchanged
<1>6. ASSUME Moved!StorePress PROVE StorePress
  BY <1>6 DEF Moved!StorePress, Moved!PressStores, StorePress, PressStores
<1>7. ASSUME NEW w \in Windows, Moved!TakeDelta(w) PROVE TakeDelta(w)
  BY <1>7 DEF Moved!TakeDelta, TakeDelta
<1>8. ASSUME Moved!ReadActive \/ Moved!ReadButton \/ Moved!ReadClickX \/ Moved!ReadClickY
      PROVE  ReadActive \/ ReadButton \/ ReadClickX \/ ReadClickY
  BY <1>8 DEF Moved!ReadActive, Moved!ReadButton, Moved!ReadClickX, Moved!ReadClickY,
              ReadActive, ReadButton, ReadClickX, ReadClickY
<1>9. ASSUME Moved!Inject \/ Moved!EndClick PROVE Inject \/ EndClick
  BY <1>9 DEF Moved!Inject, Moved!EndClick, Moved!PrevSeen, Inject, EndClick, PrevSeen
<1> QED
  BY <1>1, <1>2, <1>3, <1>4, <1>5, <1>6, <1>7, <1>8, <1>9
     DEF Moved!Next, Moved!Main, Moved!Lua, AnyNext, Next, Main, Lua

LEMMA InputKept == InputInv /\ [MCNext]_allVars => InputInv'
<1> SUFFICES ASSUME InputInv, [MCNext]_allVars PROVE InputInv'
  OBVIOUS
<1>1. AnyNext \/ UNCHANGED vars
  BY MovedIsAny DEF MCNext, Clicking, Moving, Copying, AnyNext, allVars
<1> QED
  BY <1>1, InputStep

LEMMA InputIsTyped == InputInv => TypeOK
<1> SUFFICES ASSUME InputInv PROVE TypeOK
  OBVIOUS
<1>1. callback.step \in {"none", "add", "press"}
  BY DEF InputInv, DeltaInv, DeltaType, Callbacks, None
<1> QED
  BY <1>1 DEF InputInv, DeltaInv, DeltaType, ClickInv, ClickType, KeysType, TypeOK

-----------------------------------------------------------------------------
(* The theorems.                                                            *)

\* The movement handed out, pending and under way is always the way of the cursor:
\* the weak compare-exchange of the callback and the exchange of the game thread
\* lose nothing between them (tenant_callbacks_mouse.c:21-24, tenant_input.c:49-52).
THEOREM NothingIsLost == MCSpec => []DeltaConserved
<1>1. InputInv => DeltaConserved
  BY DEF InputInv, DeltaInv, DeltaConserved, Conserved, Adding
<1>2. QED
  BY InputInit, InputKept, <1>1, PTL DEF MCSpec

\* A click is acted on once, and is not placed where an earlier one was, however the
\* callbacks and the frame loop interleave and the active window changes
\* (tenant_callbacks_mouse.c:36-46, _key.c:7, main.lua:184-206).
THEOREM ClicksAreTrue == MCSpec => []ClickIsOfOnePress
<1>1. InputInv => ClickIsOfOnePress
  BY DEF InputInv, ClickInv, ClickIsFresh, ClickUnderWay, ClickIsOfOnePress,
         ClickIsNotStale, OneCommandPerPress
<1>2. QED
  BY InputInit, InputKept, <1>1, PTL DEF MCSpec
=============================================================================
