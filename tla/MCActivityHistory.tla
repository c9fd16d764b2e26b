------------------------- MODULE MCActivityHistory -------------------------
(* A file that leaves two ids to give, by which the cap is exceeded, and one *)
(* that holds more entries than the cap.                                     *)
EXTENDS ActivityHistory

SmallDisk == {Snapshot(<<1>>, 2), Snapshot(<<1, 2, 3>>, 4)}
=============================================================================
