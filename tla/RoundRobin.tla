------------------------------ MODULE RoundRobin ------------------------------
(***************************************************************************)
(* The selection rule of RoundRobinScheduler as pure operators on sets of  *)
(* process ids.  A cursor of 0 stands for has_last_selection_ = false:     *)
(* ids start at 1, so "after 0" is the whole sorted queue.                 *)
(***************************************************************************)
EXTENDS Integers

MinOf(S) == CHOOSE x \in S : \A y \in S : x <= y

\* Mutant: the queue is rotated to its other end.
MutLastAfter(cands, cursor) ==
    LET later == {p \in cands : p > cursor}
    IN CHOOSE x \in (IF later # {} THEN later ELSE cands) :
           \A y \in (IF later # {} THEN later ELSE cands) : y <= x

\* Mutant: the cursor is ignored.
MutLowest(cands, cursor) == MinOf(cands)

\* rotateAfterCursor: the first id above the cursor, or the wrap to the lowest.
FirstAfter(cands, cursor) ==
    LET later == {p \in cands : p > cursor}
    IN IF later # {} THEN MinOf(later) ELSE MinOf(cands)

\* How many ids a cyclic scan starting after the cursor visits up to p.
Distance(n, cursor, p) == IF p > cursor THEN p - cursor ELSE p - cursor + n
===============================================================================
