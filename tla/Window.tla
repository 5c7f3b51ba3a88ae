-------------------------------- MODULE Window --------------------------------
(***************************************************************************)
(* The frameless window (MainWindow.cpp): where the page lies in it, and   *)
(* which of its edges the mouse is at.  Windows asks only about points the *)
(* page does not cover; coordinates come as two 16-bit words.              *)
(***************************************************************************)
EXTENDS Integers

CONSTANTS
  Border,  \* SM_CXFRAME + SM_CXPADDEDBORDER, in pixels
  Frame,   \* the window's rectangle when it is neither maximized nor minimized
  Work     \* the work area of its monitor: the screen without the taskbar

Half == 32768  \* of the values of a 16-bit word
Coordinates == -Half..Half - 1
Rects == [left : Coordinates, top : Coordinates, right : Coordinates, bottom : Coordinates]

ASSUME WindowAssumption ==
  /\ Border \in Nat
  /\ Frame \in Rects /\ Work \in Rects
  /\ Frame.left + 2 * Border <= Frame.right   \* ensured by ptMinTrackSize
  /\ Frame.top + 2 * Border <= Frame.bottom

VARIABLES
  window,  \* "none", "hidden", "normal", "maximized", "minimized" or "destroyed"
  child    \* where the page is, relative to the client area

windowVars == <<window, child>>

Rect(left, top, right, bottom) ==
  [left |-> left, top |-> top, right |-> right, bottom |-> bottom]

\* WM_GETMINMAXINFO: a maximized window is as large as the work area.
Outline(state) == IF state = "maximized" THEN Work ELSE Frame

\* MUTANT: the border of a window that can be resized, whatever its state.
AlwaysBorder(state) == Border

ResizeBorder(state) == IF state = "maximized" THEN 0 ELSE Border

\* WM_NCCALCSIZE: all of the window is client area, except that a maximized one
\* is taken to reach beyond the screen and cut back.
Client(state) ==
  LET r == Outline(state)  cut == IF state = "maximized" THEN Border ELSE 0
  IN  Rect(r.left + cut, r.top + cut, r.right - cut, r.bottom - cut)

\* FitChild(): the page, relative to the client area.
FitChild(state) ==
  LET c == Client(state)  border == ResizeBorder(state)
  IN  Rect(border, 0, (c.right - c.left) - border, (c.bottom - c.top) - border)

\* A coordinate as a 16-bit word of the message.
Word(x) == x % (2 * Half)

\* MUTANT: the word is taken as it is.
Unsigned(w) == w

\* static_cast<short>
Short(w) == IF w < Half THEN w ELSE w - 2 * Half

\* WM_NCHITTEST for the point with these two words.
HitTest(state, wx, wy) ==
  LET r == Outline(state)  x == Short(wx)  y == Short(wy)
      left == x < r.left + ResizeBorder(state)
      right == x >= r.right - ResizeBorder(state)
      top == y < r.top + ResizeBorder(state)
      bottom == y >= r.bottom - ResizeBorder(state)
  IN  CASE state = "maximized" -> "client"
        [] state # "maximized" /\ top /\ (left \/ right) -> IF left THEN "topleft" ELSE "topright"
        [] state # "maximized" /\ ~top /\ bottom /\ (left \/ right) -> IF left THEN "bottomleft" ELSE "bottomright"
        [] state # "maximized" /\ ~(left \/ right) /\ (top \/ bottom) -> IF top THEN "top" ELSE "bottom"
        [] state # "maximized" /\ ~top /\ ~bottom /\ (left \/ right) -> IF left THEN "left" ELSE "right"
        [] OTHER -> "client"

\* WM_SIZE: the window gets this state, and the page is fitted in.
Sized(state) ==
  /\ window' = state
  /\ child' = FitChild(state)

-----------------------------------------------------------------------------
\* The point lies beyond this side of the page.
Beyond(side, x, y) ==
  LET c == Client(window) IN
  CASE side = "left" -> x < c.left + child.left
    [] side = "right" -> x >= c.left + child.right
    [] side = "top" -> y < c.top + child.top
    [] side = "bottom" -> y >= c.top + child.bottom

\* The edges and corners that move a side of the window.
Moving(side) ==
  CASE side = "left" -> {"left", "topleft", "bottomleft"}
    [] side = "right" -> {"right", "topright", "bottomright"}
    [] side = "top" -> {"top", "topleft", "topright"}
    [] side = "bottom" -> {"bottom", "bottomleft", "bottomright"}

\* A point of the visible window's client area that the page leaves free lets the
\* user resize the window on that side: there is no dead pixel and no wrong edge,
\* wherever on the screens the window is and however its state changed, although
\* the page is placed when the state changes and the edges are worked out when the
\* mouse moves.
EdgesResize ==
  window \in {"normal", "maximized"} =>
    LET c == Client(window) IN
    \A x \in c.left..c.right - 1, y \in c.top..c.bottom - 1 :
      \A side \in {"left", "right", "top", "bottom"} :
        Beyond(side, x, y) => HitTest(window, Word(x), Word(y)) \in Moving(side)
=============================================================================
