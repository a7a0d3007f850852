--------------------------- MODULE FrameDelivery ---------------------------
(***************************************************************************)
(* What the scheduler promises of one job: the frames on the user's        *)
(* computer, and the verdict shown for the job.  ChunkLedger implements    *)
(* it: see Delivery there.                                                 *)
(***************************************************************************)
CONSTANT Frame

VARIABLES
    delivered,   \* the frames on this computer
    verdict      \* "open" while any work is left

Verdicts == {"open", "complete", "partial", "failed", "cancelled"}

TypeOK ==
    /\ delivered \subseteq Frame
    /\ verdict \in Verdicts

Init ==
    /\ delivered = {}
    /\ verdict = "open"

\* Frames arrive only while the job is wanted, or while what ran when it failed is finishing.
Deliver ==
    /\ verdict \in {"open", "failed"}
    /\ delivered' \in SUBSET Frame
    /\ delivered \subseteq delivered'
    /\ UNCHANGED verdict

\* Complete means every frame is here; the job that stops short is missing some.
Finish ==
    /\ verdict = "open"
    /\ verdict' = IF delivered = Frame THEN "complete" ELSE "partial"
    /\ UNCHANGED delivered

\* No node can render the job as it stands.
Fail ==
    /\ verdict = "open"
    /\ verdict' = "failed"
    /\ UNCHANGED delivered

Cancel ==
    /\ verdict' = "cancelled"
    /\ UNCHANGED delivered

\* The user asks for what is missing.
Reopen ==
    /\ verdict \in {"partial", "cancelled"}
    /\ delivered # Frame
    /\ verdict' = "open"
    /\ UNCHANGED delivered

Next == Deliver \/ Finish \/ Fail \/ Cancel \/ Reopen

Spec == Init /\ [][Next]_<<delivered, verdict>>
=============================================================================
