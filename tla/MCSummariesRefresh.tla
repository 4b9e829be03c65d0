------------------------- MODULE MCSummariesRefresh -------------------------
(***************************************************************************)
(* The chain of MCChain while its eras 2 and 3 end, one per tick.  The     *)
(* clock of the machine is right, or fast or slow by an era, and then at a *)
(* rollover whenever it is read; or so slow that it is before genesis when *)
(* the run begins, and later always between two rollovers.                 *)
(***************************************************************************)
EXTENDS SummariesRefresh, MCChain

MCSkews == {-9, -4, 0, 4}

=============================================================================
