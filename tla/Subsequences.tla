----------------------------- MODULE Subsequences -----------------------------
(***************************************************************************)
(* Subsequences, which compaction, filters and copies make.                *)
(***************************************************************************)
EXTENDS Naturals, Sequences

\* KeptUpto(kept, n)[k]: the positions that are kept among the first k of n.
KeptUpto(kept, n) ==
  LET upto[k \in 0..n] ==
        IF k = 0 THEN <<>>
        ELSE IF k \in kept THEN Append(upto[k - 1], k) ELSE upto[k - 1]
  IN upto

\* The positions that are kept among n, in their order.
KeptOf(kept, n) == KeptUpto(kept, n)[n]
===============================================================================
