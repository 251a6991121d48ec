--------------------------- MODULE MCBulkBatches ---------------------------
(***************************************************************************)
(* Instances of BulkBatches for TLC.  Of two batches the first stops on   *)
(* an error and the second does not.                                       *)
(***************************************************************************)
EXTENDS BulkBatches, TLC

CONSTANTS b1, b2

OneBatch   == {b1}
TwoBatches == {b1, b2}
FirstBatch == {b1}
=============================================================================
