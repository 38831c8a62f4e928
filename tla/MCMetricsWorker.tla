-------------------------- MODULE MCMetricsWorker ---------------------------
(***************************************************************************)
(* MetricsWorker for TLC.  A quick batch in each of two buckets, one whose *)
(* order is refused and whose latency is an outlier, and one without an    *)
(* accepted order in a crowded pool.                                       *)
(***************************************************************************)
EXTENDS MetricsWorker

SomeBatches == {<<1, 0, 4, FALSE>>, <<1, 0, 8, FALSE>>, <<0, 1, 11, FALSE>>, <<0, 0, 3, TRUE>>}
=============================================================================
