---------------------------- MODULE InputMailbox ----------------------------
(***************************************************************************)
(* The input of the windows on its way from GLFW's callbacks, which run on *)
(* the main thread (host/tenant/tenant_callbacks_mouse.c and _key.c), to   *)
(* the frame loop of the game thread (main.lua), which reads it through    *)
(* host/tenant/tenant_input.c.  There is no lock: each field is an atomic, *)
(* and what belongs together is read and written piece by piece.           *)
(*                                                                         *)
(* Presses of the left button are numbered, and a number stands for what   *)
(* the press stored: in click_x, click_y its position, in mouse_left the   *)
(* 1.  One axis of the mouse stands for both.  Fullscreen and capture only *)
(* toggle the window and are left out, as is last_key (TenantLifecycle).   *)
(***************************************************************************)
EXTENDS Integers

CONSTANTS
    Windows,
    Keys,           \* the keys with a bit in wasd_mask
    MaxPresses,     \* bound on presses of the button
    Places          \* cursor positions

ASSUME InputAssumption == /\ MaxPresses \in Nat \ {0}
                          /\ Places \subseteq Int /\ Places # {} /\ Windows # {}

VARIABLES
    active_window, mouse_left, click_x, click_y, wasd_mask, mouse_dx,  \* mailbox
    last_mx, first_mouse,   \* the callbacks' own state
    callback,               \* the callback under way, or None
    focus, presses,         \* the user: window in focus, presses made
    origin, taken,          \* first cursor position, deltas handed out so far
    lua_pc, win, seen,      \* game thread: its place, active_win_id, mouse_left read
    click,                  \* the position it read
    prev_mouse_left, injected   \* the press it saw last; those it has acted on

mailVars == <<active_window, mouse_left, click_x, click_y, wasd_mask, mouse_dx>>
mainVars == <<last_mx, first_mouse, callback>>
userVars == <<focus, presses>>
luaVars  == <<lua_pc, win, seen, click, prev_mouse_left, injected>>
vars == <<mailVars, mainVars, userVars, origin, taken, luaVars>>

None == [step |-> "none"]
Idle == callback = None

Init ==
    /\ active_window \in Windows
    /\ mouse_left = [w \in Windows |-> 0]
    /\ click_x = [w \in Windows |-> 0] /\ click_y = [w \in Windows |-> 0]
    /\ wasd_mask = [w \in Windows |-> {}]
    /\ mouse_dx = [w \in Windows |-> 0]
    /\ last_mx = [w \in Windows |-> 0] /\ first_mouse = [w \in Windows |-> TRUE]
    /\ callback = None
    /\ focus \in Windows
    /\ presses = 0
    /\ origin = [w \in Windows |-> 0] /\ taken = [w \in Windows |-> 0]
    /\ lua_pc = "active" /\ win = active_window /\ seen = 0 /\ click = <<0, 0>>
    /\ prev_mouse_left = [w \in Windows |-> 0] /\ injected = {}

-----------------------------------------------------------------------------
(* The main thread.                                                         *)

\* glfw_cursor_callback up to the first load of mouse_dx.
MoveCursor(w, x) ==
    LET from == IF first_mouse[w] THEN x ELSE last_mx[w]
    IN
    /\ Idle
    /\ x # last_mx[w] \/ first_mouse[w]
    /\ origin' = IF first_mouse[w] THEN [origin EXCEPT ![w] = x] ELSE origin
    /\ first_mouse' = [first_mouse EXCEPT ![w] = FALSE]
    /\ last_mx' = [last_mx EXCEPT ![w] = x]
    /\ callback' = [step |-> "add", win |-> w, dx |-> x - from, current |-> mouse_dx[w]]
    /\ UNCHANGED <<mailVars, userVars, taken, luaVars>>

ExchangedBlindly(w) == TRUE                 \* mutant: a store, not a compare
Unchanged(w) == mouse_dx[w] = callback.current

\* One compare-exchange of its loop; the weak one may also fail for nothing.
AddDelta ==
    LET w == callback.win
    IN
    /\ callback.step = "add"
    /\ \/ /\ Unchanged(w)
          /\ mouse_dx' = [mouse_dx EXCEPT ![w] = callback.current + callback.dx]
          /\ callback' = None
       \/ /\ callback' = [callback EXCEPT !.current = mouse_dx[w]]
          /\ UNCHANGED mouse_dx
    /\ UNCHANGED <<active_window, mouse_left, click_x, click_y, wasd_mask, last_mx,
                   first_mouse, userVars, origin, taken, luaVars>>

FlagFirst == <<"left", "click_x", "click_y">>       \* mutant
PressStores == <<"click_x", "click_y", "left">>

\* glfw_mouse_button_callback: a press first makes the window the active one.
PressLeft(w) ==
    /\ Idle
    /\ focus = w /\ mouse_left[w] = 0 /\ presses < MaxPresses
    /\ presses' = presses + 1
    /\ active_window' = w
    /\ callback' = [step |-> "press", win |-> w, next |-> 1]
    /\ UNCHANGED <<mouse_left, click_x, click_y, wasd_mask, mouse_dx, last_mx,
                   first_mouse, focus, origin, taken, luaVars>>

\* Its three stores, one by one.
StorePress ==
    LET w == callback.win
        field == PressStores[callback.next]
        Stored(f, name) == IF name = field THEN [f EXCEPT ![w] = presses] ELSE f
    IN
    /\ callback.step = "press"
    /\ click_x' = Stored(click_x, "click_x")
    /\ click_y' = Stored(click_y, "click_y")
    /\ mouse_left' = Stored(mouse_left, "left")
    /\ callback' = IF callback.next = 3 THEN None ELSE [callback EXCEPT !.next = @ + 1]
    /\ UNCHANGED <<active_window, wasd_mask, mouse_dx, last_mx, first_mouse, userVars,
                   origin, taken, luaVars>>

ReleaseLeft(w) ==
    /\ Idle
    /\ mouse_left[w] # 0
    /\ mouse_left' = [mouse_left EXCEPT ![w] = 0]
    /\ UNCHANGED <<active_window, click_x, click_y, wasd_mask, mouse_dx, mainVars,
                   userVars, origin, taken, luaVars>>

Mask(mask, k, pressed) == IF pressed THEN mask \cup {k} ELSE mask \ {k}

\* glfw_key_callback: a press or its repetition, or a release.
Key(w, k, pressed) ==
    /\ Idle
    /\ focus = w
    /\ active_window' = w
    /\ wasd_mask' = [wasd_mask EXCEPT ![w] = Mask(@, k, pressed)]
    /\ UNCHANGED <<mouse_left, click_x, click_y, mouse_dx, mainVars, userVars, origin,
                   taken, luaVars>>

\* A window that loses the focus gets, from GLFW, a release for everything held.
MoveFocus(w) ==
    /\ Idle
    /\ w # focus
    /\ mouse_left[focus] = 0 /\ wasd_mask[focus] = {}
    /\ focus' = w
    /\ UNCHANGED <<mailVars, mainVars, presses, origin, taken, luaVars>>

Main == \/ \E w \in Windows : \/ \E x \in Places : MoveCursor(w, x)
                              \/ PressLeft(w) \/ ReleaseLeft(w) \/ MoveFocus(w)
                              \/ \E k \in Keys, pressed \in BOOLEAN : Key(w, k, pressed)
        \/ AddDelta \/ StorePress

-----------------------------------------------------------------------------
(* The game thread.                                                         *)

PrevKept(f, w) == f                         \* mutant: no update of the old state
PrevCounted(f, w) == [f EXCEPT ![w] = @ + 1]    \* mutant: counts the frames
PrevSeen(f, w) == [f EXCEPT ![w] = seen]

\* The frame loop: which window is active; the others are taken as not pressed.
ReadActive ==
    /\ lua_pc = "active"
    /\ win' = active_window
    /\ prev_mouse_left' = [w \in Windows |-> IF w = active_window
                                             THEN prev_mouse_left[w] ELSE 0]
    /\ lua_pc' = "button"
    /\ UNCHANGED <<mailVars, mainVars, userVars, origin, taken, seen, click, injected>>

\* A button that is down and was not begins a click.
ReadButton ==
    /\ lua_pc = "button"
    /\ seen' = mouse_left[win]
    /\ lua_pc' = IF seen' # 0 /\ prev_mouse_left[win] = 0 THEN "x" ELSE "end"
    /\ UNCHANGED <<mailVars, mainVars, userVars, origin, taken, win, click,
                   prev_mouse_left, injected>>

\* vx_input_click_x, then vx_input_click_y.
ReadClickX ==
    /\ lua_pc = "x"
    /\ click' = [click EXCEPT ![1] = click_x[win]]
    /\ lua_pc' = "y"
    /\ UNCHANGED <<mailVars, mainVars, userVars, origin, taken, win, seen,
                   prev_mouse_left, injected>>

ReadClickY ==
    /\ lua_pc = "y"
    /\ click' = [click EXCEPT ![2] = click_y[win]]
    /\ lua_pc' = "inject"
    /\ UNCHANGED <<mailVars, mainVars, userVars, origin, taken, win, seen,
                   prev_mouse_left, injected>>

\* The picked tile goes to inject_local_command.
Inject ==
    /\ lua_pc = "inject"
    /\ injected' = injected \cup {seen}
    /\ lua_pc' = "end"
    /\ UNCHANGED <<mailVars, mainVars, userVars, origin, taken, win, seen, click,
                   prev_mouse_left>>

EndClick ==
    /\ lua_pc = "end"
    /\ prev_mouse_left' = PrevSeen(prev_mouse_left, win)
    /\ lua_pc' = "active"
    /\ UNCHANGED <<mailVars, mainVars, userVars, origin, taken, win, seen, click,
                   injected>>

\* vx_input_mouse_dx: the pending movement is taken in one exchange.
TakeDelta(w) ==
    /\ lua_pc = "active"
    /\ taken' = [taken EXCEPT ![w] = @ + mouse_dx[w]]
    /\ mouse_dx' = [mouse_dx EXCEPT ![w] = 0]
    /\ UNCHANGED <<active_window, mouse_left, click_x, click_y, wasd_mask, mainVars,
                   userVars, origin, luaVars>>

Lua == \/ ReadActive \/ ReadButton \/ ReadClickX \/ ReadClickY \/ Inject \/ EndClick
       \/ \E w \in Windows : TakeDelta(w)

Next == Main \/ Lua

Spec == Init /\ [][Next]_vars
-----------------------------------------------------------------------------
Presses == 0 .. MaxPresses

\* Types of the mailbox and of both sides.
TypeOK ==
    /\ active_window \in Windows /\ focus \in Windows /\ win \in Windows
    /\ {click_x, click_y, mouse_left, prev_mouse_left} \subseteq [Windows -> Presses]
    /\ wasd_mask \in [Windows -> SUBSET Keys]
    /\ {mouse_dx, last_mx, origin, taken} \subseteq [Windows -> Int]
    /\ first_mouse \in [Windows -> BOOLEAN]
    /\ callback.step \in {"none", "add", "press"}
    /\ {presses, seen} \subseteq Presses /\ click \in Presses \X Presses
    /\ injected \subseteq Presses
    /\ lua_pc \in {"active", "button", "x", "y", "inject", "end"}

\* No movement of the mouse is lost or counted twice, whenever the game thread
\* takes what is pending: what it took, what is pending and what a callback is
\* about to add make up the way of the cursor
\* (tenant_callbacks_mouse.c:21-24 against tenant_input.c:49-52).
DeltaConserved ==
    \A w \in Windows : ~first_mouse[w] =>
        LET adding == IF callback.step = "add" /\ callback.win = w THEN callback.dx ELSE 0
        IN  taken[w] + mouse_dx[w] + adding = last_mx[w] - origin[w]

\* A click is not placed where an earlier one was: both coordinates read are those
\* of the press whose flag was seen, or of a later one
\* (tenant_callbacks_mouse.c:44-46 against main.lua:189-192).
ClickIsNotStale == lua_pc = "inject" => click[1] >= seen /\ click[2] >= seen

\* A press makes at most one command, however the active window changes while
\* the button is down and however often prev_mouse_left is reset
\* (main.lua:184-206 against tenant_callbacks_mouse.c:36 and _key.c:7).
OneCommandPerPress == lua_pc = "inject" => seen \notin injected

\* A click is of one press: it is placed where the press was, or a later one, and makes
\* no second command.
ClickIsOfOnePress == ClickIsNotStale /\ OneCommandPerPress
=============================================================================
