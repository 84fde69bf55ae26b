------------------------------ MODULE MCOutbox ------------------------------
(* Two clicks of one user, which exclude each other, two attempts each: late *)
(* writers, leases and retries of both rows interleave.  Row 1 is an episode *)
(* of a channel, which its subscribers can click away while it waits.        *)
EXTENDS Outbox

MCJobUser == [j \in Jobs |-> IF j = 1 THEN "c1" ELSE "u1"]
MCJobAction == [j \in Jobs |-> IF j = 1 THEN "circle" ELSE "rec"]

\* Bound: the circle pool has no slot, so the channel's row is not claimed.
NoCircleSlot == rows[1].attempts = 0
=============================================================================
