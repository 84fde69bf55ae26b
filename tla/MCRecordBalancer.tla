-------------------------- MODULE MCRecordBalancer --------------------------
(* Two episodes of one podcast channel and the two slots of the circle pool. *)
EXTENDS RecordBalancer, TLC

MCJobUser == [j \in Jobs |-> "c1"]
MCJobAction == [j \in Jobs |-> "circle"]
MCSlotPool == [s \in Slots |-> "circle"]

\* The slots of one pool are interchangeable.
SlotSymmetry == Permutations(Slots)
=============================================================================
