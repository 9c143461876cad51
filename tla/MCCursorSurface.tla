--------------------------- MODULE MCCursorSurface ---------------------------
(***************************************************************************)
(* Two cursors of one connection.                                          *)
(***************************************************************************)
EXTENDS CursorSurface

CONSTANTS first, second

AnySize == {-2, -1, 0, 2, 7}

=============================================================================
