---------------------------- MODULE MCNullMessage ----------------------------
(***************************************************************************)
(* Small instances of NullMessage: ranks joined in a line, and two ranks   *)
(* joined by two channels.                                                 *)
(***************************************************************************)
EXTENDS NullMessage

Channel(a, b, delay) == [ends |-> {a, b}, delay |-> delay]

Line == {Channel(0, 1, 2), Channel(1, 2, 2)}

(* Two channels between the same ranks: one RemoteChannelBundle. *)
Bundle == {Channel(0, 1, 3), Channel(0, 1, 4)}
=============================================================================
