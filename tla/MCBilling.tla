----------------------------- MODULE MCBilling -----------------------------
(* ann, on her welcome trial, invited bob, who pays twice: for a plan, and a *)
(* top-up that may be refunded.  ann is a patron.                           *)
EXTENDS Billing, TLC

CONSTANTS ann, bob

MCInvitedBy == (ann :> Nobody) @@ (bob :> ann)
MCUninvited == [u \in Users |-> Nobody]
MCPrice == (1 :> 2) @@ (2 :> 4)
MCPayer == ("plan" :> bob) @@ ("top up" :> bob) @@ ("pledge" :> ann)
MCAmount == ("plan" :> 4) @@ ("top up" :> 1) @@ ("pledge" :> 3)
MCPlanSold == ("plan" :> 2) @@ ("top up" :> 0) @@ ("pledge" :> 0)

\* Threads are interchangeable.
ClerkSymmetry == Permutations(Clerks)
=============================================================================
