------------------------------- MODULE MCIkbd -------------------------------
(* Instances of IkbdBuffer for TLC: one axis, three pointer positions and   *)
(* movements of half a pixel and of one and a half, in packets of one pixel.*)
EXTENDS IkbdBuffer

MCPosition == [Axis -> 0 .. 2]
MCMovement == [Axis -> {1, 3}]
=============================================================================
