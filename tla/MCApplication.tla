---------------------------- MODULE MCApplication -----------------------------
(***************************************************************************)
(* Application on a small screen: the window lies partly to the left of    *)
(* the first monitor, where coordinates are negative.                      *)
(***************************************************************************)
EXTENDS Application

MCFrame == Rect(-3, 1, 3, 6)
MCWork == Rect(0, 0, 8, 7)
=============================================================================
