-------------------------------- MODULE Input --------------------------------
(***************************************************************************)
(* The way of a key from the keyboard to the program with the focus: the   *)
(* rings of drivers/keyboard.c and mouse.c, the server's pump that empties *)
(* them (dx/server.c), the key buffer of a window (dx/window.c), the wait  *)
(* for input of kernel/sync.c, and the loop of a program around GxDevice:: *)
(* wait.                                                                   *)
(*                                                                         *)
(* The kernel's calls run with interrupts off and are one step each; the   *)
(* timer pumps between any two calls of a program. Windows do not overlap  *)
(* until one is dragged onto another, so a place of the pointer is a point *)
(* that windows lie on. The wheel, and frames that put presses off (see    *)
(* WindowServer), are left out.                                            *)
(***************************************************************************)
EXTENDS Integers, Sequences, FiniteSets

CONSTANTS
    Apps,           \* the windows
    Running,        \* those whose program is followed; any other pumps as the timer does
    NoApp,          \* -1
    Home,           \* window -> the point it lies on
    Desk,           \* a point no window lies on
    NoPoint,
    KBD_QSIZE, MOUSE_EVQ, WM_KEYBUF_SIZE,
    MaxInput        \* bound on what the user does, and on windows asked to the front

ASSUME InputAssumption ==
    /\ NoApp \notin Apps /\ Running \subseteq Apps /\ Home \in [Apps -> Nat] /\ Desk \in Nat /\ NoPoint \notin Nat
    /\ KBD_QSIZE \in Nat \ {0} /\ MOUSE_EVQ \in Nat \ {0, 1} /\ WM_KEYBUF_SIZE \in Nat \ {0}
    /\ MaxInput \in Nat

VARIABLES
    kbd,        \* keys in the keyboard's ring
    evq,        \* the mouse's events: [type, at, title]
    mouse,      \* [at, down]
    cursor,     \* the pointer at the last pump
    notified,   \* the pointer at the last notification
    wm,         \* [at, top, focus, drag, keys]: where windows are, the one in front, keybuf
    seq,        \* g_input_seq
    app,        \* window -> its program: [pc, seq, focus, drag], what it last read
    inputs,
    lostUp      \* a release of the button fell out of the mouse's ring

inputVars == <<kbd, evq, mouse, cursor, notified, wm, seq, app, inputs, lostUp>>

InputPoints == {Home[w] : w \in Apps} \cup {Desk}

InputInit ==
    /\ kbd = 0 /\ evq = <<>>
    /\ mouse \in [at : InputPoints, down : {FALSE}]
    /\ cursor = NoPoint /\ notified = NoPoint
    /\ wm = [at |-> Home, top |-> NoApp, focus |-> NoApp, drag |-> NoApp, keys |-> [w \in Apps |-> 0]]
    /\ seq = 1
    /\ app = [w \in Running |-> [pc |-> "wait", seq |-> 0, focus |-> FALSE, drag |-> FALSE]]
    /\ inputs = 0 /\ lostUp = FALSE

Hit(m, p) ==
    LET over == {w \in Apps : m.at[w] = p}
    IN  IF over = {} THEN NoApp ELSE IF m.top \in over THEN m.top ELSE CHOOSE w \in over : TRUE

\* -------------------------------------------------------- notification

\* All there is to change in a pump: the windows, the programs that sleep, the flags of the
\* events, and the last move that was not applied yet.
PumpState(flags) == [wm |-> wm, seq |-> seq, app |-> app, flags |-> flags, move |-> NoPoint]

Relevant(w, hit, focus, prev, own) == w \in {hit, prev, focus, own}

Notify(s, hit, focus, prev, own) ==
    [s EXCEPT !.seq = @ + 1,
              !.app = [w \in Running |->
                          IF s.app[w].pc = "blocked" /\ Relevant(w, hit, focus, prev, own)
                          THEN [s.app[w] EXCEPT !.pc = "state"] ELSE s.app[w]]]

FocusApp(s, w) == Notify([s EXCEPT !.wm.focus = w, !.wm.top = w], w, w, NoApp, w)

\* -------------------------------------------------------- the pump

ApplyMove(s) ==
    IF s.move = NoPoint \/ s.wm.drag = NoApp THEN [s EXCEPT !.move = NoPoint]
    ELSE [s EXCEPT !.wm.at[s.wm.drag] = s.move, !.move = NoPoint]

GrabIf(s, w, title) == IF title THEN [s EXCEPT !.wm.drag = w] ELSE s

PressAt(s, w, title) == IF w = NoApp THEN s ELSE GrabIf(FocusApp(s, w), w, title)

WithFlag(s, f) == [s EXCEPT !.flags = @ \cup {f}]

OnMouse(s, e) ==
    CASE e.type = "move" -> WithFlag([s EXCEPT !.move = e.at], "move")
      [] e.type = "down" -> WithFlag(PressAt(ApplyMove(s), Hit(ApplyMove(s).wm, e.at), e.title), "button")
      [] e.type = "up"   -> WithFlag([ApplyMove(s) EXCEPT !.wm.drag = NoApp], "button")

Drained(s) ==
    LET go[k \in 0 .. Len(evq)] == IF k = 0 THEN s ELSE OnMouse(go[k - 1], evq[k])
    IN  ApplyMove(go[Len(evq)])

\* end_drag_if_released: the button is up although its release was not in the ring.
Released(s) == IF mouse.down THEN s ELSE [s EXCEPT !.wm.drag = NoApp]

\* wm_push_key: a full buffer, or nobody with the focus, loses the key.
Typed(s) ==
    IF s.wm.focus = NoApp \/ kbd = 0 THEN s
    ELSE LET n == s.wm.keys[s.wm.focus] + kbd
         IN  [s EXCEPT !.wm.keys[s.wm.focus] = IF n < WM_KEYBUF_SIZE THEN n ELSE WM_KEYBUF_SIZE - 1]

KeyFlag(s) == IF kbd = 0 THEN s ELSE WithFlag(s, "key")

FocusFlag(s) ==
    IF Hit(s.wm, mouse.at) # Hit(wm, cursor) \/ s.wm.focus # wm.focus
    THEN WithFlag(WithFlag(s, "focus"), "move") ELSE s

MoveFlag(s) == IF mouse.at # cursor THEN WithFlag(s, "move") ELSE s

\* A move that was told before wakes nobody again.
Coalesce(s) ==
    IF s.flags = {"move"} /\ notified = mouse.at THEN [s EXCEPT !.flags = {}] ELSE s

Told(s) ==
    IF s.flags = {} THEN s ELSE Notify(s, Hit(s.wm, mouse.at), s.wm.focus, Hit(wm, cursor), NoApp)

Pumped == Coalesce(MoveFlag(FocusFlag(KeyFlag(Typed(Released(Drained(PumpState({}))))))))

Pump(s, t) ==
    /\ kbd' = 0 /\ evq' = <<>> /\ cursor' = mouse.at
    /\ notified' = IF s.flags # {} THEN mouse.at ELSE notified
    /\ wm' = t.wm /\ seq' = t.seq
    /\ UNCHANGED <<mouse, inputs, lostUp>>

\* The timer, do_yield, and idle_halt.
PumpInput ==
    LET s == Pumped
        t == Told(s)
    IN  /\ Pump(s, t)
        /\ app' = t.app

\* -------------------------------------------------------- the devices

\* ev_push: moves in a row are one; a full ring loses its oldest event.
Push(e) ==
    IF e.type = "move" /\ evq # <<>> /\ evq[Len(evq)].type = "move"
    THEN evq' = [evq EXCEPT ![Len(evq)] = e] /\ UNCHANGED lostUp
    ELSE IF Len(evq) = MOUSE_EVQ - 1
         THEN evq' = Append(Tail(evq), e) /\ lostUp' = (lostUp \/ evq[1].type = "up")
         ELSE evq' = Append(evq, e) /\ UNCHANGED lostUp

MouseMoves(p) ==
    /\ p # mouse.at
    /\ mouse' = [mouse EXCEPT !.at = p]
    /\ Push([type |-> "move", at |-> p, title |-> FALSE])
    /\ UNCHANGED <<kbd, cursor, notified, wm, seq, app>>

MouseButton(title) ==
    /\ mouse' = [mouse EXCEPT !.down = ~@]
    /\ mouse.down => ~title
    /\ Push([type |-> IF mouse.down THEN "up" ELSE "down", at |-> mouse.at, title |-> title])
    /\ UNCHANGED <<kbd, cursor, notified, wm, seq, app>>

\* q_push: a full ring loses the new key.
KeyPressed ==
    /\ kbd' = IF kbd + 1 < KBD_QSIZE THEN kbd + 1 ELSE kbd
    /\ UNCHANGED <<evq, mouse, cursor, notified, wm, seq, app, lostUp>>

\* -------------------------------------------------------- the programs

\* Another program asks for the window in front (the dock).
AskFocus(w) ==
    LET s == FocusApp(PumpState({}), w)
    IN  /\ wm' = s.wm /\ seq' = s.seq /\ app' = s.app
        /\ UNCHANGED <<kbd, evq, mouse, cursor, notified, lostUp>>

\* A mutant: the sequence number is not compared before the program sleeps.
WaitUnchecked(w) ==
    /\ app[w].pc = "wait"
    /\ app' = [app EXCEPT ![w].pc = "blocked"]
    /\ UNCHANGED <<kbd, evq, mouse, cursor, notified, wm, seq, inputs, lostUp>>

InputWait(w) ==
    /\ app[w].pc = "wait"
    /\ app' = [app EXCEPT ![w].pc = IF seq # app[w].seq THEN "state" ELSE "blocked"]
    /\ UNCHANGED <<kbd, evq, mouse, cursor, notified, wm, seq, inputs, lostUp>>

TimeOut(w) ==
    /\ app[w].pc = "blocked"
    /\ app' = [app EXCEPT ![w].pc = "state"]
    /\ UNCHANGED <<kbd, evq, mouse, cursor, notified, wm, seq, inputs, lostUp>>

\* SYS_INPUT_STATE pumps, then reads; its sequence number takes the place of the one the wait
\* returned.
InputState(w) ==
    LET s == Pumped
        t == Told(s)
    IN  /\ app[w].pc = "state"
        /\ Pump(s, t)
        /\ app' = [t.app EXCEPT ![w] = [pc |-> "keys", seq |-> t.seq, focus |-> t.wm.focus = w,
                                        drag |-> t.wm.drag = w]]

\* The program's keys, one call each, if it had the focus and was not dragged.
PopKey(w) ==
    /\ app[w].pc = "keys"
    /\ IF app[w].focus /\ ~app[w].drag /\ wm.keys[w] # 0
       THEN wm' = [wm EXCEPT !.keys[w] = @ - 1] /\ UNCHANGED app
       ELSE app' = [app EXCEPT ![w].pc = "wait"] /\ UNCHANGED wm
    /\ UNCHANGED <<kbd, evq, mouse, cursor, notified, seq, inputs, lostUp>>

InputNext ==
    \/ /\ inputs < MaxInput
       /\ inputs' = inputs + 1
       /\ \/ \E p \in InputPoints : MouseMoves(p)
          \/ \E title \in BOOLEAN : MouseButton(title)
          \/ KeyPressed
          \/ \E w \in Apps : AskFocus(w)
    \/ PumpInput
    \/ \E w \in Running : InputWait(w) \/ TimeOut(w) \/ InputState(w) \/ PopKey(w)

InputSpec == InputInit /\ [][InputNext]_inputVars

\* -------------------------------------------------------- properties

\* A program that sleeps in SYS_INPUT_WAIT, whose window has the focus and is not dragged, has
\* read that it has the focus and has taken every key: no key, click or change of focus that
\* comes between its reading of the state and its sleep is missed (sync.c:155-253, server.c:
\* 610-653, terminal/main.cpp:1512-1534). A release that fell out of the full mouse ring ends
\* a drag without waking anybody, and the keys typed meanwhile wait for the time-out.
KeysHeard ==
    ~lostUp => \A w \in Running :
        app[w].pc = "blocked" /\ wm.focus = w /\ wm.drag # w =>
            app[w].focus /\ wm.keys[w] = 0

=============================================================================
