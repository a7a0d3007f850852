---------------------------- MODULE FrameRanges ----------------------------
(***************************************************************************)
(* Ranges of frames, as the chunk rows and the chunker hold them: a first  *)
(* and a last frame, both included.  Frames stand for the positions of a   *)
(* job's frame grid, so consecutive frames are one frame_step apart.       *)
(***************************************************************************)
EXTENDS Integers

\* The frames a range covers.
Covered(rg) == rg.lo .. rg.hi

(***************************************************************************)
(* What missingRanges of scheduler/chunker.ts returns for the range        *)
(* [lo, hi] when the frames of `done' have landed: the maximal runs of     *)
(* consecutive frames that have not.                                       *)
(***************************************************************************)
MissingRuns(lo, hi, done) ==
    LET missing == (lo .. hi) \ done
    IN  { rg \in [lo : missing, hi : missing] :
            /\ Covered(rg) \subseteq missing
            /\ rg.lo <= rg.hi
            /\ rg.lo - 1 \notin missing
            /\ rg.hi + 1 \notin missing }

\* The run that comes first in the chunk: the one that keeps the chunk's id.
FirstRun(runs) == CHOOSE rg \in runs : \A other \in runs : rg.lo <= other.lo

\* Mutant: only the first run is queued again.
LaterRunsDropped(runs) == {}

\* The others: each becomes a chunk of its own.
LaterRuns(runs) == { rg \in runs : \E other \in runs : other.lo < rg.lo }
=============================================================================
