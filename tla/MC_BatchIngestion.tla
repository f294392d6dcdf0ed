-------------------------- MODULE MC_BatchIngestion ---------------------------
(* An instance of BatchIngestion for TLC.  b1 and b2 hold the same two ids   *)
(* in opposite order; b2 also has an invalid row.  b1 may be run twice.      *)
EXTENDS BatchIngestion, TLC

CONSTANTS b1, b2, w1, w2, w3, x, y

MCBatches == {b1, b2}
MCJobs == {w1, w2, w3}
MCBatchOf == w1 :> b1 @@ w2 :> b1 @@ w3 :> b2
MCIds == {x, y}
MCRowsOf == b1 :> <<x, y>> @@ b2 :> <<y, Invalid, x>>

\* One batch with one job.
OneBatch == {b1}
OneJob == {w1}
OneBatchOf == w1 :> b1
OneRowsOf == b1 :> <<x, y>>
=============================================================================
