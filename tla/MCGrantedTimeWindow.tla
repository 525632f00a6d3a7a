------------------------ MODULE MCGrantedTimeWindow -------------------------
(***************************************************************************)
(* Small instances of GrantedTimeWindow: two ranks joined by one or by two *)
(* remote channels.                                                        *)
(***************************************************************************)
EXTENDS GrantedTimeWindow

CONSTANTS r1, r2

Channel(a, b, delay) == [ends |-> {a, b}, delay |-> delay]

Single == {Channel(r1, r2, 1)}
Parallel == {Channel(r1, r2, 2), Channel(r1, r2, 3)}

SomeBounds == {-1, 1}
=============================================================================
