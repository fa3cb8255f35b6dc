--------------------------- MODULE MCReplayWindow ---------------------------
(* A 3-bit window over sequences 0 .. 5 (6 is the reserved top) and two key  *)
(* epochs: frames fall inside the window, exactly on its edge (shift = W)    *)
(* and beyond it, and the second epoch starts from a window that was in use. *)
EXTENDS ReplayWindow
==============================================================================
