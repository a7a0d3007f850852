----------------------------- MODULE HandoffSlips -----------------------------
(***************************************************************************)
(* What a render that nobody watches and nobody will stop takes.           *)
(*                                                                         *)
(* Not all of the hand-off (SpecHandoff) is guarded: a command may be lost *)
(* on its way and is not sent again, and the app counts on the agent being *)
(* quick at five places.  A history variable notes when one of these goes  *)
(* wrong, until the node is next made good, and restricts no step: every   *)
(* behaviour of SpecHandoff is one here.  The other failures (of the node  *)
(* prep, of a spec's write before or after it landed, of a read, of the    *)
(* agent's own write, its death) are no slips: the code answers for them.  *)
(***************************************************************************)
EXTENDS SpecHandoff

VARIABLE slipped    \* has one of the slips happened since the node was made good?

-----------------------------------------------------------------------------
(* The slips. *)

\* The chunk is sent again while an earlier dispatch still waits for an answer.
Overlaps == Dispatch /\ \E b \in Attempts : b <= sent /\ ~At(b, "over")

\* A withdrawal, a second kill or the clearing of the state never arrives.
LosesCommand ==
    \E a \in Attempts :
      \/ RetractLost(a)
      \/ Lost /\ (CancelCleans(a) \/ KillAgain(a) \/ (Clear(a) /\ ~Stopped(a)))

\* The state is cleared under a thread that is about to write it.
ClearsTooSoon ==
    /\ thread.at \notin {"none", "rendering", "encoding"}
    /\ \E a \in Attempts : Clear(a) /\ ~Stopped(a)

\* An earlier render's verdict comes once the next attempt has cleared the state.
VerdictTooLate ==
    /\ thread.at \in {"encoding", "failing"} /\ thread'.at \in {"done", "failed"}
    /\ \E a \in Attempts : At(a, "writing") /\ ~Stopped(a)

\* A kill finds a spec taken and its Blender not yet started.
KillsTooSoon == thread.at = "opened" /\ \E a \in Attempts : Retract(a) \/ CancelCleans(a)

\* A spec lands on a restarted agent, and its attempt is then forgotten.
LandsTooLate == service = "restarted" /\ \E a \in Attempts : SpecLands(a)

Slip ==
    \/ Overlaps \/ LosesCommand \/ ClearsTooSoon
    \/ VerdictTooLate \/ KillsTooSoon \/ LandsTooLate

\* A restart of the agent makes good whatever slipped before it, and so does a
\* withdrawal of the last attempt, when it arrives and is in time.
Withdrawn ==
    /\ service # "restarted" /\ thread.at # "opened" /\ UNCHANGED budget
    /\ \E a \in Attempts : a = sent /\ (Retract(a) \/ CancelCleans(a))
MakesGood ==
    /\ \A b \in Attempts : b < sent => run'[b].at = "over"
    /\ ReviveAgent \/ Reprovisioned \/ Withdrawn

Remember == slipped' = ((slipped \/ Slip) /\ ~MakesGood)

-----------------------------------------------------------------------------
SlipInit == Init /\ slipped = FALSE
SlipNext == Next /\ Remember
SlipSpec == SlipInit /\ [][SlipNext]_<<vars, slipped>>
FairSlipSpec == SlipSpec /\ Fairness

\* A Blender of the chunk that runs with no attempt to watch it has a clean-up,
\* a second kill, a retract or a restart of the agent coming, unless something
\* slipped since the node was last restarted or withdrawn from: through every
\* cancel, crash and failed request (retractSpec, cancelJob, stopRelaunch,
\* reviveAgent).
OnlySlipsLeaveUnwatched == Unwatched /\ ~StopComing => slipped

\* And it ends, though its Blender may hang, unless something slips: a withdrawn
\* spec may be claimed already, its Blender may die and be relaunched, its agent
\* may die and leave it (retractSpec, cancelJob, stopRelaunch, restart-agent).
UnwatchedEnds == Unwatched ~> ~Unwatched \/ slipped
=============================================================================
