----------------------------- MODULE MCHeatmap -----------------------------
(***************************************************************************)
(* Instances of Heatmap for TLC: a uint32_t of 7 bits and a float of 3, so *)
(* that lists of more than 8 blocks are longer than a float counts, and    *)
(* settings on both sides of every limit.                                  *)
(***************************************************************************)
EXTENDS Heatmap

MCNonces == <<0, 127, 1, 64, 63, 2, 30, 126, 5, 17, 100>>

MCLists == {SubSeq(MCNonces, 1, n) : n \in {0, 1, 2, 5, 7, 8, 9, 11}}

Limits == {<<0, 0>>, <<0, 63>>, <<30, 64>>, <<63, 63>>, <<127, 2>>}

MCJobs ==
  {[x |-> x, height |-> height, start |-> start, end |-> last,
    min_nonce |-> limits[1], max_nonce |-> limits[2]] :
      x \in 0..6, height \in {0, 1, 2, 3, 5, 7, 15, 31, 64, 127},
      start \in {-64, -4, 0, 3, 9}, last \in {-9, -2, 0, 4, 63},
      limits \in Limits}

=============================================================================
