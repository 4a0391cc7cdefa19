----------------------------- MODULE WindowServer -----------------------------
(***************************************************************************)
(* The window manager and the frame clock of DX (src/drivers/dx/window.c,  *)
(* server.c, and the layers of compositor.c). All calls run on CPU 0 with  *)
(* interrupts off, so each is one step; a frame is two, because input is   *)
(* drained while it is composed and what it asks for is put off till then. *)
(*                                                                         *)
(* The screen is a row of cells and a frame an interval of it. What a cell *)
(* shows is the stack of the windows over it, each with the content it has *)
(* published. The pointer's own picture is left out.                       *)
(***************************************************************************)
EXTENDS Integers, Sequences, FiniteSets, FiniteSetsExt

CONSTANTS
    WM_MAX_WINDOWS, \* the places of wm_t.windows
    Width,      \* cells of the screen
    Frames,     \* the intervals a window may take
    Kinds,      \* the windows programs create: [accept, topmost, bottom]
    MaxAsked    \* bound: how much programs and the mouse ask for

ASSUME ServerAssumption ==
    /\ WM_MAX_WINDOWS \in Nat \ {0}
    /\ Width \in Nat \ {0}
    /\ Frames \subseteq (0 .. Width - 1) \X (1 .. Width)

VARIABLES
    srv,        \* g_server: its windows, focus, drag and damage
    late,       \* the press and the move put off until the frame is done
    requested,  \* how much programs and the mouse have asked for
    stale       \* the cells of the back buffer that no longer show the windows

serverVars == <<srv, late, requested, stale>>

Slots == 1 .. WM_MAX_WINDOWS
Cells == 0 .. Width - 1
None == 0
NoRect == {}
NoWindow == [used |-> FALSE, visible |-> FALSE, focused |-> FALSE, frame |-> <<0, 0>>,
             z |-> 0, kind |-> [accept |-> FALSE, topmost |-> FALSE, bottom |-> FALSE]]
CleanDamage == [dirty |-> FALSE, full |-> FALSE, rect |-> NoRect,
                pending |-> FALSE, pendingFull |-> FALSE, pendingRect |-> NoRect,
                moved |-> FALSE, old |-> NoRect, new |-> NoRect, content |-> FALSE]

NoPress == <<>>
NothingLate == [press |-> NoPress, moved |-> FALSE]

ServerInit ==
    /\ srv = [win |-> [w \in Slots |-> NoWindow], focus |-> None, drag |-> None,
              busy |-> FALSE, dmg |-> [CleanDamage EXCEPT !.dirty = TRUE, !.full = TRUE]]
    /\ late = NothingLate
    /\ requested = 0
    /\ stale = Cells

-----------------------------------------------------------------------------
(* Rectangles, and the order the compositor paints layers in.              *)
Rect(f) == (f[1] .. f[1] + f[2] - 1) \cap Cells
Union(r, q) == IF r \cup q = {} THEN {} ELSE Min(r \cup q) .. Max(r \cup q)

Used(s) == {w \in Slots : s.win[w].used}
Visible(s) == {w \in Used(s) : s.win[w].visible}

(* sort_ids_by_z compares each place with all later ones and exchanges the *)
(* two; layers of the same z may end up in either order.                   *)
SwapIfLess(s, ids, i, j) ==
    IF s.win[ids[j]].z < s.win[ids[i]].z
    THEN [ids EXCEPT ![i] = ids[j], ![j] = ids[i]] ELSE ids

Pass(s, ids, i) ==
    LET upTo[j \in 0 .. Len(ids)] == IF j <= i THEN ids ELSE SwapIfLess(s, upTo[j - 1], i, j)
    IN  upTo[Len(ids)]

Exchanged(s, ids) ==
    LET upTo[i \in 0 .. Len(ids)] == IF i = 0 THEN ids ELSE Pass(s, upTo[i - 1], i)
    IN  upTo[Len(ids)]

InOrder(set) ==
    LET upTo[w \in 0 .. WM_MAX_WINDOWS] ==
            IF w = 0 THEN <<>> ELSE IF w \in set THEN Append(upTo[w - 1], w) ELSE upTo[w - 1]
    IN  upTo[WM_MAX_WINDOWS]

Painted(s) == Exchanged(s, InOrder(Visible(s)))

(* The windows' parts over a cell, each with those painted after it.       *)
Scene(s, layers, c) ==
    LET over == {i \in DOMAIN layers : c \in Rect(s.win[layers[i]].frame)}
        part(i) == <<layers[i], c - s.win[layers[i]].frame[1]>>
    IN  {<<part(p[1]), part(p[2])>> : p \in {q \in over \X over : q[1] <= q[2]}}

-----------------------------------------------------------------------------
If(s, cond, t) == IF cond THEN t ELSE s

(* Damage. While a window is dragged or a frame is composed, what others   *)
(* ask for waits as pending.                                               *)
MarkDirty(s) ==
    IF s.busy \/ s.drag # None
    THEN [s EXCEPT !.dmg.pending = TRUE, !.dmg.pendingFull = TRUE]
    ELSE [s EXCEPT !.dmg.dirty = TRUE, !.dmg.full = TRUE]

MarkPending(s, r) ==
    LET r0 == IF s.dmg.pending THEN s.dmg.pendingRect ELSE {}
    IN  [s EXCEPT !.dmg.pending = TRUE,
                  !.dmg.pendingRect = IF s.dmg.pendingFull THEN @ ELSE Union(r0, r)]

Damage(s, u) ==
    [s EXCEPT !.dmg.dirty = TRUE, !.dmg.rect = u, !.dmg.full = Cardinality(u) * 5 >= Width * 3]

MarkRect(s, r) ==
    IF s.busy \/ s.drag # None
    THEN If(s, s.dmg.pendingFull \/ r # {}, MarkPending(s, r))
    ELSE IF s.dmg.full THEN [s EXCEPT !.dmg.dirty = TRUE]
    ELSE If(s, r # {}, Damage(s, Union(IF s.dmg.dirty THEN s.dmg.rect ELSE {}, r)))

MarkMove(s, old, new) ==
    [s EXCEPT !.dmg.old = IF s.dmg.moved THEN @ ELSE old,
              !.dmg.new = new, !.dmg.moved = TRUE, !.dmg.dirty = TRUE]

Merged(t) == [t EXCEPT !.dmg.pending = FALSE, !.dmg.pendingFull = FALSE, !.dmg.pendingRect = NoRect]

MergePending(s) ==
    IF ~s.dmg.pending THEN s
    ELSE Merged(IF s.dmg.pendingFull THEN MarkDirty(s) ELSE MarkRect(s, s.dmg.pendingRect))

-----------------------------------------------------------------------------
(* The window manager's routines, as functions of the server's state.      *)
TopZ(s) == Max({0} \cup {s.win[w].z : w \in Used(s)})
Raise(s, w) == [s EXCEPT !.win[w].z = TopZ(s) + 1]

RaiseTopmost(s) ==
    LET topmost == {w \in Visible(s) : s.win[w].kind.topmost}
        upTo[w \in 0 .. WM_MAX_WINDOWS] ==
            IF w = 0 THEN s ELSE If(upTo[w - 1], w \in topmost, Raise(upTo[w - 1], w))
    IN  upTo[WM_MAX_WINDOWS]

RaiseAbove(s, w) == If(s, ~s.win[w].kind.bottom, Raise(s, w))

(* A mutant: a window that stops to take keys keeps them.                  *)
DropDrawnFocus(s, w) == [s EXCEPT !.win[w].focused = FALSE]

DropFocus(s, w) ==
    LET t == [s EXCEPT !.win[w].focused = FALSE]
    IN  If(t, s.focus = w, [t EXCEPT !.focus = None])

KeepFocus(s, w) == If(s, ~s.win[w].kind.accept \/ ~s.win[w].visible, DropFocus(s, w))
AfterTopmost(s, w) == If(s, s.win[w].kind.topmost, RaiseTopmost(s))
Placed(s, w, visible, frame) == [s EXCEPT !.win[w].frame = frame, !.win[w].visible = visible]

ApplyOpts(s, w, visible, frame) ==
    LET drawn == MarkRect(MarkRect(KeepFocus(Placed(s, w, visible, frame), w),
                                   Rect(s.win[w].frame)), Rect(frame))
        shown == MarkRect(RaiseTopmost(RaiseAbove(AfterTopmost(drawn, w), w)), Rect(frame))
    IN  IF visible /\ ~s.win[w].visible THEN shown ELSE AfterTopmost(drawn, w)

Shown(s, w) == If(s, ~s.win[w].visible, ApplyOpts(s, w, TRUE, s.win[w].frame))
DrawFocus(s, w) ==
    [s EXCEPT !.win = [v \in Slots |-> [@[v] EXCEPT !.focused = (v = w)]], !.focus = w]

FocusOn(s, w) ==
    If(s, s.win[w].kind.accept,
       MarkRect(RaiseTopmost(RaiseAbove(DrawFocus(Shown(s, w), w), w)), Rect(s.win[w].frame)))

(* A mutant: the place a window leaves is not repainted.                   *)
MoveMarksNew(s, w, frame) ==
    LET t == [s EXCEPT !.win[w].frame = frame]
    IN  IF s.drag = w THEN MarkMove(t, Rect(s.win[w].frame), Rect(frame))
        ELSE MarkRect(t, Rect(frame))

MoveTo(s, w, frame) ==
    LET old == s.win[w].frame
        t == [s EXCEPT !.win[w].frame = frame]
    IN  IF old = frame THEN s
        ELSE IF s.drag = w THEN MarkMove(t, Rect(old), Rect(frame))
        ELSE MarkRect(MarkRect(t, Rect(old)), Rect(frame))

Withdraw(s, w) ==
    MarkDirty([s EXCEPT !.win[w] = NoWindow,
                        !.focus = IF @ = w THEN None ELSE @,
                        !.drag = IF @ = w THEN None ELSE @])

Publish(s, w) ==
    IF s.drag = w THEN [s EXCEPT !.dmg.content = TRUE] ELSE MarkRect(s, Rect(s.win[w].frame))

(* The visible window over a cell that is highest; of two at one height    *)
(* the one that takes the focus, and then the later one.                   *)
Under(s, c) == {w \in Visible(s) : c \in Rect(s.win[w].frame)}
Fg(s, w) == IF s.win[w].kind.accept THEN 1 ELSE 0
Highest(s, ws) == {w \in ws : \A v \in ws : s.win[v].z <= s.win[w].z}
Takers(s, ws) == {w \in ws : \A v \in ws : Fg(s, v) <= Fg(s, w)}
HitTest(s, c) ==
    IF Under(s, c) = {} THEN None ELSE Max(Takers(s, Highest(s, Under(s, c))))

(* A press: title says whether it is on a title bar that can be dragged.   *)
PressOn(s, w, title) ==
    IF w = None \/ ~s.win[w].kind.accept THEN s
    ELSE IF title THEN [FocusOn(s, w) EXCEPT !.drag = w]
    ELSE FocusOn(s, w)
Press(s, c, title) == PressOn(s, HitTest(s, c), title)

LetGo(s) == IF s.drag = None THEN s ELSE MarkDirty([s EXCEPT !.drag = None])

(* end_drag_if_released: the button is up although no release was seen.    *)
EndDrag(s) ==
    If(s, s.drag # None,
       MarkRect(MergePending([s EXCEPT !.drag = None, !.dmg.moved = FALSE, !.dmg.content = FALSE]),
                Rect(s.win[s.drag].frame)))

Translations(s, w) == {f \in Frames : f[2] = s.win[w].frame[2]}

-----------------------------------------------------------------------------
(* What programs ask for.                                                  *)
(* Only the order of heights is kept, with room between any two.           *)
Ranked(s) ==
    LET zs == {s.win[w].z : w \in Used(s)} \ {0}
        rank(z) == 2 * Cardinality({y \in zs : y <= z})
    IN  [s EXCEPT !.win = [w \in Slots |-> [s.win[w] EXCEPT !.z = rank(s.win[w].z)]]]

(* The server goes to s; the cells whose windows that changes are stale.   *)
GoTo(s) ==
    /\ srv' = Ranked(s)
    /\ LET old == Painted(srv)
           new == Painted(s)
       IN  stale' = stale \cup {c \in Cells : Scene(s, new, c) # Scene(srv, old, c)}

Keep(s) ==
    /\ GoTo(s)
    /\ UNCHANGED late

(* A window's first height is its id, which may fall anywhere among those  *)
(* that raises have given out.                                             *)
Added(w, kind, visible, frame, z) ==
    [srv EXCEPT !.win[w] = [NoWindow EXCEPT !.used = TRUE, !.visible = visible, !.frame = frame,
                                            !.kind = kind, !.z = IF kind.bottom THEN 0 ELSE z]]
FirstFocus(s, w) == If(s, s.win[w].visible /\ s.win[w].kind.accept, FocusOn(s, w))
Entered(s, w) == FirstFocus(AfterTopmost(ApplyOpts(s, w, s.win[w].visible, s.win[w].frame), w), w)

Create(kind, visible, frame, z) ==
    LET w == Min(Slots \ Used(srv))
    IN  /\ ~srv.busy
        /\ Slots # Used(srv)
        /\ Keep(MarkDirty(Entered(Added(w, kind, visible, frame, z), w)))

Destroy(w) ==
    /\ ~srv.busy
    /\ Keep(Withdraw(srv, w))

SetOpts(w, visible, frame) ==
    /\ ~srv.busy
    /\ Keep(ApplyOpts(srv, w, visible, frame))

Focus(w) ==
    /\ ~srv.busy
    /\ Keep(FocusOn(srv, w))

MoveWindow(w, frame) ==
    /\ ~srv.busy
    /\ Keep(MoveTo(srv, w, frame))

PublishWindow(w) ==
    /\ ~srv.busy
    /\ srv' = Publish(srv, w)
    /\ stale' = stale \cup {c \in Cells : w \in Under(srv, c)}
    /\ UNCHANGED late

-----------------------------------------------------------------------------
(* The mouse. What arrives while a frame is composed is put off, all but   *)
(* the release, which takes back a press that was put off.                 *)
MouseDown(c, title) ==
    /\ srv.drag = None
    /\ IF srv.busy
       THEN /\ late' = [late EXCEPT !.press = <<c, title>>]
            /\ UNCHANGED <<srv, stale>>
       ELSE Keep(Press(srv, c, title))

MouseUp ==
    /\ srv.drag # None \/ late.press # NoPress
    /\ GoTo(LetGo(srv))
    /\ late' = [late EXCEPT !.press = NoPress]

MouseMove ==
    IF srv.busy
    THEN /\ late' = [late EXCEPT !.moved = TRUE]
         /\ UNCHANGED <<srv, stale>>
    ELSE /\ srv.drag # None
         /\ \E f \in Translations(srv, srv.drag) : Keep(MoveTo(srv, srv.drag, f))

-----------------------------------------------------------------------------
(* The frame clock. A frame of a drag puts the window at its new place and *)
(* restores what it has left; one of no drag paints the damage.            *)
Slide ==
    LET d == srv.dmg
        at == IF d.moved THEN d.old \cup d.new ELSE Rect(srv.win[srv.drag].frame)
        seed == IF ~d.pending THEN {} ELSE IF d.pendingFull THEN Cells ELSE d.pendingRect
    IN  /\ ~srv.busy /\ srv.drag # None
        /\ d.moved \/ d.content \/ d.pending
        /\ stale' = stale \cup Union(at, seed)
        /\ srv' = [srv EXCEPT !.dmg.moved = FALSE, !.dmg.content = FALSE, !.dmg.pending = FALSE,
                              !.dmg.pendingFull = FALSE, !.dmg.pendingRect = NoRect]
        /\ UNCHANGED late

FoldDrag(s) ==
    IF ~s.dmg.moved THEN s
    ELSE [MarkRect(MarkRect(s, s.dmg.old), s.dmg.new) EXCEPT !.dmg.moved = FALSE]

Region(s) == IF s.dmg.full \/ s.dmg.rect = {} THEN Cells ELSE s.dmg.rect

Compose ==
    LET folded == FoldDrag(srv)
        s == If(folded, ~folded.dmg.dirty, MergePending(folded))
    IN  /\ ~srv.busy /\ srv.drag = None
        /\ IF s.dmg.dirty
           THEN /\ stale' = stale \ Region(s)
                /\ srv' = [s EXCEPT !.busy = TRUE, !.dmg.dirty = FALSE, !.dmg.full = FALSE, !.dmg.rect = NoRect]
           ELSE /\ srv' = s
                /\ UNCHANGED stale
        /\ UNCHANGED late

(* The copy to the screen may read the mouse: the button is then already   *)
(* up, its release still in the queue, when what was put off is applied.   *)
Ended(s, released) == GoTo(MergePending(If(s, released, EndDrag(s))))

FlushMove(s, released) ==
    IF late.moved /\ s.drag # None
    THEN \E f \in Translations(s, s.drag) : Ended(MoveTo(s, s.drag, f), released)
    ELSE Ended(s, released)

FlushPress(s) == If(s, late.press # NoPress, Press(s, late.press[1], late.press[2]))

FinishFrame(released) ==
    /\ srv.busy
    /\ FlushMove(FlushPress([srv EXCEPT !.busy = FALSE]), released)
    /\ late' = NothingLate

ServerNext ==
    \/ /\ requested < MaxAsked
       /\ requested' = requested + 1
       /\ \/ \E k \in Kinds, v \in BOOLEAN, f \in Frames, z \in 1 .. TopZ(srv) + 1 : Create(k, v, f, z)
          \/ \E w \in Used(srv) : \/ Destroy(w)
                                  \/ Focus(w)
                                  \/ PublishWindow(w)
                                  \/ \E f \in Frames, v \in BOOLEAN : SetOpts(w, v, f)
                                  \/ \E f \in Translations(srv, w) : MoveWindow(w, f)
          \/ \E c \in Cells, t \in BOOLEAN : MouseDown(c, t)
          \/ MouseUp
          \/ MouseMove
    \/ /\ UNCHANGED requested
       /\ \/ Slide
          \/ Compose
          \/ \E released \in BOOLEAN : FinishFrame(released)

ServerSpec == ServerInit /\ [][ServerNext]_serverVars

-----------------------------------------------------------------------------
(* What the back buffer does not show as the windows now are is known to   *)
(* be damaged, so that the next frame mends it: every move, raise, publish *)
(* and restacking has told of each cell it changed, and nothing put off    *)
(* during a drag or a frame was forgotten. Kinds that are neither raised   *)
(* when shown nor at the bottom are restacked unmarked (window.c:179).     *)
Owed(s) ==
    LET d == s.dmg IN
    (IF d.dirty THEN Region(s) ELSE {})
    \cup (IF d.moved THEN d.old \cup d.new ELSE {})
    \cup (IF ~d.pending THEN {} ELSE IF d.pendingFull THEN Cells ELSE d.pendingRect)

Damaged ==
    (srv.drag = None /\ ~srv.busy) => stale \subseteq Owed(srv)

(* The keyboard's window is one that is there, is shown and takes keys,    *)
(* and it alone is drawn as focused; a window that is dragged exists.      *)
FocusSound ==
    /\ srv.drag # None => srv.drag \in Used(srv)
    /\ srv.focus # None =>
          /\ srv.focus \in Visible(srv)
          /\ srv.win[srv.focus].kind.accept
    /\ {w \in Used(srv) : srv.win[w].focused} = {srv.focus} \ {None}

(* The frame catches up with the windows, and the keyboard is with one that *)
(* can take it.                                                             *)
WindowsSound == Damaged /\ FocusSound
=============================================================================
