------------------------------- MODULE MCFeed -------------------------------
(* Two files of almost two lines, two renames or removals: a file renamed  *)
(* twice, one renamed and its successor removed, read buffers that cut a   *)
(* line in either place, and batches that leave events in the queue.       *)
EXTENDS Feed
=============================================================================
