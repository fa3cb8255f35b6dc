----------------------------- MODULE MCSendPath -----------------------------
(* Two coroutines, messages of up to two fragments, four sequences below the *)
(* sentinel and one rotation: the sentinel is reached both before and after  *)
(* the keys rotate.                                                          *)
EXTENDS SendPath
==============================================================================
