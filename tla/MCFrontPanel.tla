---------------------------- MODULE MCFrontPanel ----------------------------
(* Bounded instance of FrontPanel for TLC: a counter that wraps after a few *)
(* ticks, timeouts of never, one tick and two, a brightness out of range.   *)
EXTENDS FrontPanel

MCSecs == {0, 1, 2}
MCPcts == {0}
MCGestures == {"SingleTap", "LongPress"}
=============================================================================
