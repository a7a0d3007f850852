---------------------------- MODULE ChunkLedger ----------------------------
(***************************************************************************)
(* The scheduler's rows for one job (its chunks, frames and verdict) and   *)
(* the chunk runs that change them: scheduler/scheduler.ts with            *)
(* jobs/jobs.ts refreshJobState and jobs/revive.ts.                        *)
(*                                                                         *)
(* JavaScript runs a handler up to its next await without interruption, so *)
(* an action here is a handler, or the part of one between two awaits.     *)
(* What the node answers at an await is arbitrary: any read of the agent's *)
(* state, any failure, any frame of the run's range landing.  The node's   *)
(* own side is modelled in SpecHandoff.                                    *)
(*                                                                         *)
(* A chunk is named by the frame it was created to start at.  A re-split   *)
(* never reuses such a name (SplitIdsFree below), as the ids the code      *)
(* builds from the range's first and last frame must not be reused either. *)
(***************************************************************************)
EXTENDS FrameRanges, FiniteSets

CONSTANTS
    NumFrames,         \* the job's frames are 1 .. NumFrames
    ChunkSize,         \* frames per chunk at submission (splitFrames)
    Node,              \* the nodes of the fleet
    Run,               \* slots for chunk runs, stopped ones that have not returned included
    MaxRetries,        \* admission.ts MAX_RETRIES
    MaxInfraRetries,   \* admission.ts MAX_INFRA_RETRIES
    Failures,          \* the kinds of failure an attempt may end in
    MultiView,         \* whether the job saves each frame as one file per view
    None

Frame == 1 .. NumFrames

BREAKER_NODES == 2

\* The failures the retry policy tells apart (admission.ts budgetFor, chargeFor, breakerKey).
FailureKinds ==
    { "job",        \* the render failed, or failed for a machine's rule it had failed by before
      "machine",    \* a node or the network failed: charged to the infrastructure budget
      "setup",      \* installing the job's Blender, add-ons or Octane failed on the node
      "localRead",  \* this computer could not read what the job sends
      "sink",       \* this computer's disk would not take the frames: charged to nothing
      "signIn",     \* nobody signed in to Octane: charged to nothing
      "fatal" }     \* no node can render the job as it stands

ASSUME LedgerConstants ==
    /\ NumFrames \in Nat \ {0}
    /\ ChunkSize \in Nat \ {0}
    /\ MaxRetries \in Nat
    /\ MaxInfraRetries \in Nat
    /\ Failures \subseteq FailureKinds
    /\ MultiView \in BOOLEAN
    /\ None \notin Node
    /\ None \notin Run

InFlight == {"assigned", "rendering", "encoding", "downloading"}
Stopped  == {"failed", "cancelled"}
ChunkStates == {"absent", "pending", "complete"} \cup InFlight \cup Stopped

Chunk == [state : ChunkStates, lo : Frame, hi : 0 .. NumFrames,
          retries : 0 .. MaxRetries, infra : 0 .. MaxInfraRetries]

Absent == [state |-> "absent", lo |-> 1, hi |-> 0, retries |-> 0, infra |-> 0]

JobStates == {"queued", "running", "complete", "partial", "failed", "cancelled"}
Holds     == {"none", "breaker", "signIn", "fatal"}

\* Where a run's dispatch() stands: the await it is in.  "draining" is the download pass after
\* the agent's 'done', "failing" the one after a failure it reported or a stall.
Phases == {"free", "prep", "sending", "polling", "draining", "failing"}

RunRecord == [phase : Phases, chunk : 0 .. NumFrames, node : Node \cup {None},
              lo : Frame, hi : 0 .. NumFrames, stopped : BOOLEAN, gaveUp : BOOLEAN]

FreeRun == [phase |-> "free", chunk |-> 0, node |-> None, lo |-> 1, hi |-> 0,
            stopped |-> TRUE, gaveUp |-> FALSE]

VARIABLES
    chunk,       \* chunks, by the frame each was created to start at
    downloaded,  \* frames whose row says 'downloaded'
    jobState,    \* jobs.state
    hold,        \* jobs.attention, by kind
    run,         \* the ChunkRun in each slot
    owner,       \* Scheduler.runs: the run registered for a chunk
    byNode,      \* Scheduler.byNode
    breaker,     \* Scheduler.breaker: what it has seen since the job last rendered a chunk
    usable,      \* nodes that may be sent work
    app          \* the process: "up", or "down" between a crash and the restart

rows == <<chunk, downloaded, jobState, hold>>
mem  == <<run, owner, byNode, breaker>>
vars == <<chunk, downloaded, jobState, hold, run, owner, byNode, breaker, usable, app>>

NoStrikes == [job |-> {}, setup |-> {}, localRead |-> 0]

-----------------------------------------------------------------------------
\* Reading the rows.

\* Mutant: the range's last frame is left out.
UndownloadedShort(c, got) == (chunk[c].lo .. chunk[c].hi - 1) \ got

Undownloaded(c, got) == Covered(chunk[c]) \ got

\* Mutant: a failed job's state is computed afresh, as an open one's is.
RefreshedUnlessCancelled(js, ch, got) ==
    LET states == { ch[c].state : c \in Frame } \ {"absent"}
    IN  IF js = "cancelled" THEN js
        ELSE IF states \subseteq {"complete"} THEN "complete"
        ELSE IF states \subseteq {"complete"} \cup Stopped THEN "partial"
        ELSE "running"

\* The state refreshJobState derives from chunks `ch' and landed frames `got' for a job in `js'.
Refreshed(js, ch, got) ==
    LET states  == { ch[c].state : c \in Frame } \ {"absent"}
    IN  IF js \in {"cancelled", "failed"} THEN js
        ELSE IF states \subseteq {"complete"}
             THEN IF Frame \subseteq got THEN "complete" ELSE "partial"
        ELSE IF states \subseteq {"complete"} \cup Stopped THEN "partial"
        ELSE IF states \subseteq {"pending"} THEN "queued"
        ELSE "running"

\* Mutant: a held job's chunks are left out, as they are of those to send.
SettledUnlessHeld ==
    [c \in Frame |->
        IF hold = "none" /\ chunk[c].state = "pending" /\ Undownloaded(c, downloaded) = {}
        THEN [chunk[c] EXCEPT !.state = "complete"]
        ELSE chunk[c]]

\* Every pending chunk whose frames have all landed, complete (settleDownloadedPending).
Settled ==
    [c \in Frame |->
        IF /\ jobState \in {"queued", "running"}
           /\ chunk[c].state = "pending"
           /\ Undownloaded(c, downloaded) = {}
        THEN [chunk[c] EXCEPT !.state = "complete"]
        ELSE chunk[c]]

-----------------------------------------------------------------------------
\* Re-splitting around the landed frames `got': what becomes of the chunks in S, charged to
\* `budget'.

Runs(c, got) == MissingRuns(chunk[c].lo, chunk[c].hi, got)

\* Mutant: one attempt too few.
SpentEarly(c, budget) ==
    \/ budget = "render" /\ chunk[c].retries + 1 >= MaxRetries
    \/ budget = "infra"  /\ chunk[c].infra + 1 >= MaxInfraRetries

Spent(c, budget) ==
    \/ budget = "render" /\ chunk[c].retries >= MaxRetries
    \/ budget = "infra"  /\ chunk[c].infra >= MaxInfraRetries

\* Mutants: the infrastructure count starts again at an attempt that is not charged to it; and
\* it is not charged at all.
ChargedAfresh(c, budget) ==
    [chunk[c] EXCEPT !.state   = "pending",
                     !.retries = IF budget = "render" THEN @ + 1 ELSE @,
                     !.infra   = IF budget = "infra" THEN @ + 1 ELSE 0]

ChargedRenderOnly(c, budget) ==
    [chunk[c] EXCEPT !.state   = "pending",
                     !.retries = IF budget = "render" THEN @ + 1 ELSE @]

Charged(c, budget) ==
    [chunk[c] EXCEPT !.state   = "pending",
                     !.retries = IF budget = "render" THEN @ + 1 ELSE @,
                     !.infra   = IF budget = "infra" THEN @ + 1 ELSE @]

On(rg, row) == [row EXCEPT !.lo = rg.lo, !.hi = rg.hi]

\* The frames at which re-splitting chunk c starts new chunks.
NewStarts(c, got) == { rg.lo : rg \in LaterRuns(Runs(c, got)) }

Resplit(S, budget, got) ==
    [f \in Frame |->
        LET parent == { c \in S : ~Spent(c, budget) /\ f \in NewStarts(c, got) }
        IN  IF f \in S
            THEN IF Runs(f, got) = {} THEN [chunk[f] EXCEPT !.state = "complete"]
                 ELSE IF Spent(f, budget) THEN [chunk[f] EXCEPT !.state = "failed"]
                 ELSE On(FirstRun(Runs(f, got)), Charged(f, budget))
            ELSE IF parent # {}
            THEN LET c == CHOOSE c \in parent : TRUE
                 IN  On(CHOOSE rg \in Runs(c, got) : rg.lo = f, Charged(c, budget))
            ELSE chunk[f]]

-----------------------------------------------------------------------------
\* Settling a failed attempt: requeue, failJob, holdJob, holdForSignIn.

Budget(failure) ==
    CASE failure = "job"                               -> "render"
      [] failure \in {"machine", "setup", "localRead"} -> "infra"
      [] OTHER                                         -> "none"

\* JobBreaker.record, for the failures that have a key.
Struck(failure, n) ==
    CASE failure \in {"job", "setup"} -> [breaker EXCEPT ![failure] = @ \cup {n}]
      [] failure = "localRead" /\ breaker.localRead < BREAKER_NODES
                               -> [breaker EXCEPT !.localRead = @ + 1]
      [] OTHER -> breaker

Tripped(b, failure) ==
    CASE failure \in {"job", "setup"} -> Cardinality(b[failure]) >= BREAKER_NODES
      [] failure = "localRead"        -> b.localRead >= BREAKER_NODES
      [] OTHER                        -> FALSE

\* The chunks failJob fails: c, and every one still waiting.
FailedWith(c) ==
    [d \in Frame |-> IF chunk[d].state = "pending" \/ (d = c /\ chunk[d].state # "complete")
                     THEN [chunk[d] EXCEPT !.state = "failed"]
                     ELSE chunk[d]]

\* The failure of chunk c's attempt on node n, the frames of `got' landed.
Requeue(c, n, failure, got) ==
    IF jobState = "cancelled"
    THEN UNCHANGED <<chunk, jobState, hold, breaker>>
    ELSE IF jobState = "failed"
    THEN /\ chunk' = [chunk EXCEPT ![c].state = IF @ = "complete" THEN @ ELSE "failed"]
         /\ UNCHANGED <<jobState, hold, breaker>>
    ELSE IF failure = "fatal"
    THEN /\ chunk' = FailedWith(c)
         /\ jobState' = "failed"
         /\ hold' = "fatal"
         /\ breaker' = NoStrikes
    ELSE LET counts == hold = "none"
             b      == IF counts THEN Struck(failure, n) ELSE breaker
         IN  /\ chunk' = Resplit({c}, Budget(failure), got)
             /\ jobState' = Refreshed(jobState, chunk', got)
             /\ breaker' = b
             /\ hold' = IF counts /\ failure = "signIn" THEN "signIn"
                        ELSE IF counts /\ Tripped(b, failure) /\ ~Tripped(breaker, failure)
                             THEN "breaker"
                        ELSE hold

-----------------------------------------------------------------------------
\* Runs, and the two registers that know them.

Live(r) == run[r].phase # "free" /\ ~run[r].stopped

\* Mutant: the chunk's entry goes whichever run it names.
DroppedByChunk(r) ==
    /\ owner' = [owner EXCEPT ![run[r].chunk] = None]
    /\ byNode' = [n \in Node |-> byNode[n] \ {r}]

\* dropRun: the chunk's entry goes only if it is still this run's.
Dropped(r) ==
    /\ owner' = [c \in Frame |-> IF owner[c] = r THEN None ELSE owner[c]]
    /\ byNode' = [n \in Node |-> byNode[n] \ {r}]

\* The run's dispatch() has returned.
Returns(r) == run' = [run EXCEPT ![r] = FreeRun]

\* abort() on every run of R: each is stopped and dropped, and returns at its next await.
Aborted(R) ==
    /\ run' = [r \in Run |-> IF r \in R THEN [run[r] EXCEPT !.stopped = TRUE] ELSE run[r]]
    /\ owner' = [c \in Frame |-> IF owner[c] \in R THEN None ELSE owner[c]]
    /\ byNode' = [n \in Node |-> byNode[n] \ R]

\* The frames a download pass may mark as it ends: settleViewFrames marks those of which every
\* view has landed, unless the run was stopped before the pass gave up.  A frame that is one
\* file is marked as it lands.
Marks(r) ==
    IF MultiView /\ run[r].phase \in {"draining", "failing"} /\ (Live(r) \/ run[r].gaveUp)
    THEN SUBSET ((run[r].lo .. run[r].hi) \ downloaded)
    ELSE {{}}

\* finish('failed'), onChunkFinished and the requeue after it, once F is marked.
FinishFailed(r, failure, F) ==
    /\ Returns(r)
    /\ Dropped(r)
    /\ downloaded' = downloaded \cup F
    /\ Requeue(run[r].chunk, run[r].node, failure, downloaded \cup F)
    /\ UNCHANGED <<usable, app>>

\* Mutant: the job's state is not refreshed.
FinishCompleteStale(r, rendered, F) ==
    /\ Undownloaded(run[r].chunk, downloaded \cup F) = {}
    /\ Returns(r)
    /\ Dropped(r)
    /\ downloaded' = downloaded \cup F
    /\ chunk' = [chunk EXCEPT ![run[r].chunk].state = "complete"]
    /\ UNCHANGED <<jobState, breaker, hold, usable, app>>

\* The run's chunk is complete: finish('complete') after a render, or nothingLeft.
FinishComplete(r, rendered, F) ==
    /\ Undownloaded(run[r].chunk, downloaded \cup F) = {}
    /\ Returns(r)
    /\ Dropped(r)
    /\ downloaded' = downloaded \cup F
    /\ chunk' = [chunk EXCEPT ![run[r].chunk].state = IF jobState = "cancelled" THEN @ ELSE "complete"]
    /\ jobState' = Refreshed(jobState, chunk', downloaded \cup F)
    /\ breaker' = IF rendered /\ jobState # "cancelled" THEN NoStrikes ELSE breaker
    /\ UNCHANGED <<hold, usable, app>>

-----------------------------------------------------------------------------
\* The scheduler's tick.

\* settleDownloadedPending, with nothing sent out after it.
TickSettles ==
    /\ app = "up"
    /\ Settled # chunk
    /\ chunk' = Settled
    /\ jobState' = Refreshed(jobState, chunk', downloaded)
    /\ UNCHANGED <<downloaded, hold, usable, app>>
    /\ UNCHANGED mem

\* A tick that sends chunk c to node n, and dispatch() up to its first await.
Dispatch(c, n, r) ==
    LET js == Refreshed(jobState, Settled, downloaded)
    IN  /\ app = "up"
        /\ Settled[c].state = "pending"
        /\ js \in {"queued", "running"}
        /\ hold = "none"
        /\ n \in usable
        /\ run[r] = FreeRun
        /\ chunk' = [Settled EXCEPT ![c].state = "assigned"]
        /\ jobState' = Refreshed(js, chunk', downloaded)
        /\ run' = [run EXCEPT ![r] = [phase |-> "prep", chunk |-> c, node |-> n,
                                      lo |-> chunk[c].lo, hi |-> chunk[c].hi,
                                      stopped |-> FALSE, gaveUp |-> FALSE]]
        /\ owner' = [owner EXCEPT ![c] = r]
        /\ byNode' = [byNode EXCEPT ![n] = @ \cup {r}]
        /\ UNCHANGED <<downloaded, hold, breaker, usable, app>>

-----------------------------------------------------------------------------
\* A run, await by await.

\* Node prep is done and frames are still missing: the spec is sent next.
PrepDone(r) ==
    /\ run[r].phase = "prep" /\ Live(r)
    /\ Undownloaded(run[r].chunk, downloaded) # {}
    /\ run' = [run EXCEPT ![r].phase = "sending"]
    /\ UNCHANGED rows
    /\ UNCHANGED <<owner, byNode, breaker, usable, app>>

\* nothingLeft: the last frames landed during the prep, and nothing is sent.
NothingLeft(r) ==
    /\ run[r].phase = "prep" /\ Live(r)
    /\ FinishComplete(r, FALSE, {})

\* dispatch() throws while the run still owns its chunk: the tick's catch requeues it.
DispatchFails(r, failure) ==
    /\ run[r].phase \in {"prep", "sending"} /\ Live(r)
    /\ failure # "sink"
    /\ FinishFailed(r, failure, {})

\* Mutant: whether the run was stopped during the write is not looked at.
SpecSentUnchecked(r) ==
    /\ run[r].phase = "sending"
    /\ run' = [run EXCEPT ![r].phase = "polling"]
    /\ chunk' = [chunk EXCEPT ![run[r].chunk].state = "rendering"]
    /\ jobState' = Refreshed(jobState, chunk', downloaded)
    /\ UNCHANGED <<downloaded, hold, owner, byNode, breaker, usable, app>>

\* The spec is on the node: polling and downloading begin.
SpecSent(r) ==
    /\ run[r].phase = "sending" /\ Live(r)
    /\ run' = [run EXCEPT ![r].phase = "polling"]
    /\ chunk' = [chunk EXCEPT ![run[r].chunk].state = "rendering"]
    /\ jobState' = Refreshed(jobState, chunk', downloaded)
    /\ UNCHANGED <<downloaded, hold, owner, byNode, breaker, usable, app>>

\* A frame of the range the run was sent with lands (ChunkDownloader.download).
FrameLands(r, f) ==
    /\ run[r].phase \in {"polling", "draining", "failing"} /\ Live(r)
    /\ ~run[r].gaveUp
    /\ ~MultiView
    /\ f \in (run[r].lo .. run[r].hi) \ downloaded
    /\ downloaded' = downloaded \cup {f}
    /\ UNCHANGED <<chunk, jobState, hold, usable, app>>
    /\ UNCHANGED mem

\* The agent's state reads 'encoding'.
SeesEncoding(r) ==
    /\ run[r].phase = "polling" /\ Live(r)
    /\ chunk[run[r].chunk].state = "rendering"
    /\ chunk' = [chunk EXCEPT ![run[r].chunk].state = "encoding"]
    /\ UNCHANGED <<downloaded, jobState, hold, usable, app>>
    /\ UNCHANGED mem

\* The agent's state reads 'done': the final download pass begins.
SeesDone(r) ==
    /\ run[r].phase = "polling" /\ Live(r)
    /\ run' = [run EXCEPT ![r].phase = "draining"]
    /\ chunk' = [chunk EXCEPT ![run[r].chunk].state = "downloading"]
    /\ jobState' = Refreshed(jobState, chunk', downloaded)
    /\ UNCHANGED <<downloaded, hold, owner, byNode, breaker, usable, app>>

\* A poll finds the attempt failed by the agent's word, stalled or hung: the frames it has
\* saved are downloaded first.
SeesFailure(r) ==
    /\ run[r].phase = "polling" /\ Live(r)
    /\ run' = [run EXCEPT ![r].phase = "failing"]
    /\ UNCHANGED rows
    /\ UNCHANGED <<owner, byNode, breaker, usable, app>>

\* The download pass gives up on what is left, and waits for its transfers to wind down.
GivesUp(r) ==
    /\ run[r].phase \in {"draining", "failing"} /\ Live(r)
    /\ ~run[r].gaveUp
    /\ run' = [run EXCEPT ![r].gaveUp = TRUE]
    /\ UNCHANGED rows
    /\ UNCHANGED <<owner, byNode, breaker, usable, app>>

\* The attempt ends in a failure: with no download pass when the agent is silent, or renders
\* with another engine or without the spec; otherwise once the pass is over.
PollFails(r, failure, F) ==
    /\ run[r].phase \in {"polling", "failing"} /\ Live(r)
    /\ failure \in {"job", "machine", "fatal"}
    /\ FinishFailed(r, failure, F)

\* The final pass is over and every frame of the chunk is on this computer.
DrainCompletes(r, F) ==
    /\ run[r].phase = "draining" /\ Live(r)
    /\ FinishComplete(r, TRUE, F)

\* The final pass could not read the manifest, lost frames, was held up by the disk, or
\* ended with frames the agent never listed.
DrainFails(r, failure, F) ==
    /\ run[r].phase = "draining" /\ Live(r)
    /\ \/ failure = "machine"
       \/ failure = "sink" /\ run[r].gaveUp
       \/ failure = "job" /\ Undownloaded(run[r].chunk, downloaded \cup F) # {}
    /\ FinishFailed(r, failure, F)

\* A stopped run comes back from its await, or the await throws: it only lets go, except that
\* a pass that had given up before the run was stopped still marks its frames.
StoppedReturns(r, F) ==
    /\ run[r].phase # "free" /\ run[r].stopped
    /\ Returns(r)
    /\ Dropped(r)
    /\ downloaded' = downloaded \cup F
    /\ UNCHANGED <<chunk, jobState, hold, breaker, usable, app>>

-----------------------------------------------------------------------------
\* The fleet.

\* forgetNode: the node's runs are aborted and their chunks requeued, one infrastructure
\* retry each.
NodeGone(n) ==
    LET orphans == { run[r].chunk : r \in byNode[n] }
    IN  /\ app = "up"
        /\ n \in usable
        /\ usable' = usable \ {n}
        /\ Aborted(byNode[n])
        /\ chunk' = IF orphans = {} \/ jobState = "cancelled" THEN chunk
                    ELSE IF jobState = "failed"
                    THEN [c \in Frame |-> IF c \in orphans /\ chunk[c].state # "complete"
                                          THEN [chunk[c] EXCEPT !.state = "failed"]
                                          ELSE chunk[c]]
                    ELSE Resplit(orphans, "infra", downloaded)
        /\ jobState' = IF orphans = {} THEN jobState ELSE Refreshed(jobState, chunk', downloaded)
        /\ UNCHANGED <<downloaded, hold, breaker, app>>

\* A node becomes usable: rented, back in reach, or restarted.
NodeUsable(n) ==
    /\ app = "up"
    /\ n \notin usable
    /\ usable' = usable \cup {n}
    /\ UNCHANGED rows
    /\ UNCHANGED mem
    /\ UNCHANGED app

-----------------------------------------------------------------------------
\* The user.

\* The chunks a cancel leaves as they are.
Closed == {"absent", "complete"} \cup Stopped

\* cancelJob, up to its first await: the rows, then the runs.
Cancel ==
    LET runs == { owner[c] : c \in Frame } \ {None}
    IN  /\ app = "up"
        /\ jobState' = "cancelled"
        /\ chunk' = [c \in Frame |->
                        IF chunk[c].state \in Closed THEN chunk[c]
                        ELSE [chunk[c] EXCEPT !.state = "cancelled"]]
        /\ Aborted(runs)
        /\ breaker' = NoStrikes
        /\ UNCHANGED <<downloaded, hold, usable, app>>

\* resumeJob, and releaseSignInHolds for a hold waiting on a sign-in.
Resume ==
    /\ app = "up"
    /\ hold # "none"
    /\ jobState \in {"queued", "running"}
    /\ hold' = "none"
    /\ \/ breaker' = NoStrikes
       \/ hold = "signIn" /\ breaker' = breaker
    /\ UNCHANGED <<chunk, downloaded, jobState, run, owner, byNode, usable, app>>

\* A chunk queued again by the user: both budgets start afresh.
Fresh(row) == [row EXCEPT !.state = "pending", !.retries = 0, !.infra = 0]

\* reviveFailedChunks: the chunks of S, each narrowed to its missing frames.
Revived(S) ==
    [f \in Frame |->
        LET parent == { c \in S : f \in NewStarts(c, downloaded) }
        IN  IF f \in S
            THEN IF Runs(f, downloaded) = {} THEN [chunk[f] EXCEPT !.state = "complete"]
                 ELSE On(FirstRun(Runs(f, downloaded)), Fresh(chunk[f]))
            ELSE IF parent # {}
            THEN LET c == CHOOSE c \in parent : TRUE
                 IN  On(CHOOSE rg \in Runs(c, downloaded) : rg.lo = f, Fresh(chunk[c]))
            ELSE chunk[f]]

\* job:retryMissing: the chunks that stopped short are revived, and a held job is resumed.
RetryMissing ==
    LET stopped == { c \in Frame : chunk[c].state \in Stopped }
        queued  == \E c \in stopped : Runs(c, downloaded) # {}
        js      == IF queued /\ jobState = "cancelled" THEN "queued" ELSE jobState
        resumed == queued /\ jobState' \in {"queued", "running"} /\ hold # "none"
    IN  /\ app = "up"
        /\ jobState # "failed"
        /\ stopped # {}
        /\ chunk' = Revived(stopped)
        /\ jobState' = Refreshed(js, chunk', downloaded)
        /\ hold' = IF resumed THEN "none" ELSE hold
        /\ breaker' = IF resumed THEN NoStrikes ELSE breaker
        /\ UNCHANGED <<downloaded, run, owner, byNode, usable, app>>

-----------------------------------------------------------------------------
\* The process ends, and starts again.

\* Everything held in memory goes, and no node is connected.
Dies ==
    /\ app = "up"
    /\ app' = "down"
    /\ run' = [r \in Run |-> FreeRun]
    /\ owner' = [c \in Frame |-> None]
    /\ byNode' = [n \in Node |-> {}]
    /\ breaker' = NoStrikes
    /\ usable' = {}

\* Between two handlers.
Crash == Dies /\ UNCHANGED rows

\* Inside a handler that settles a chunk: its first write has committed, and neither the
\* requeue nor refreshJobState that follows it has.
CrashSettling(r, verdict, F) ==
    /\ Live(r)
    /\ jobState # "cancelled"
    /\ \/ /\ verdict = "complete" /\ run[r].phase = "draining"
          /\ Undownloaded(run[r].chunk, downloaded \cup F) = {}
       \/ verdict = "failed" /\ run[r].phase \in {"polling", "draining", "failing"}
    /\ Dies
    /\ chunk' = [chunk EXCEPT ![run[r].chunk].state = verdict]
    /\ downloaded' = downloaded \cup F
    /\ UNCHANGED <<jobState, hold>>

\* recoverAtStart: chunks left in flight go back to the queue, at no charge.
Restart ==
    LET stranded == { c \in Frame : chunk[c].state \in InFlight }
        resent   == Resplit(stranded, "none", downloaded)
        js       == IF stranded = {} THEN jobState ELSE Refreshed(jobState, resent, downloaded)
        settled  == [c \in Frame |->
                        IF /\ js \in {"queued", "running"}
                           /\ resent[c].state = "pending"
                           /\ Covered(resent[c]) \subseteq downloaded
                        THEN [resent[c] EXCEPT !.state = "complete"]
                        ELSE resent[c]]
    IN  /\ app = "down"
        /\ app' = "up"
        /\ chunk' = settled
        /\ jobState' = IF settled = resent THEN js ELSE Refreshed(js, settled, downloaded)
        /\ UNCHANGED <<downloaded, hold, run, owner, byNode, breaker, usable>>

-----------------------------------------------------------------------------
\* createJob: the frames split into chunks of ChunkSize.
Init ==
    /\ chunk = [c \in Frame |->
                  IF (c - 1) % ChunkSize = 0
                  THEN [state |-> "pending", lo |-> c,
                        hi |-> IF c + ChunkSize - 1 <= NumFrames THEN c + ChunkSize - 1
                               ELSE NumFrames,
                        retries |-> 0, infra |-> 0]
                  ELSE Absent]
    /\ downloaded = {}
    /\ jobState = "queued"
    /\ hold = "none"
    /\ run = [r \in Run |-> FreeRun]
    /\ owner = [c \in Frame |-> None]
    /\ byNode = [n \in Node |-> {}]
    /\ breaker = NoStrikes
    /\ usable = {}
    /\ app = "up"

\* What the application does of itself, as answers and timers come in.
Proceed(r) ==
    \/ PrepDone(r)
    \/ NothingLeft(r)
    \/ SpecSent(r)
    \/ SeesDone(r)
    \/ SeesFailure(r)
    \/ GivesUp(r)
    \/ \E failure \in Failures : DispatchFails(r, failure)
    \/ \E F \in Marks(r) :
          \/ DrainCompletes(r, F)
          \/ StoppedReturns(r, F)
          \/ \E failure \in Failures : PollFails(r, failure, F) \/ DrainFails(r, failure, F)

Lands(r) == \E f \in Frame : FrameLands(r, f)

Sends == \E c \in Frame, n \in Node, r \in Run : Dispatch(c, n, r)

\* One job with no user and no crash: the runs, the tick and the fleet.
Work ==
    \/ TickSettles
    \/ Sends
    \/ \E r \in Run : Proceed(r)
    \/ \E r \in Run : Lands(r)
    \/ \E r \in Run : SeesEncoding(r)
    \/ \E n \in Node : NodeGone(n)
    \/ \E n \in Node : NodeUsable(n)

\* With the user, and a process that may end between two handlers.
Next ==
    \/ Work
    \/ Cancel
    \/ Resume
    \/ RetryMissing
    \/ Crash
    \/ Restart

\* With a process that may end inside the handler that settles a chunk, too.
TornNext ==
    \/ Next
    \/ \E r \in Run, verdict \in {"complete", "failed"} :
          \E F \in Marks(r) : CrashSettling(r, verdict, F)

Spec == Init /\ [][Next]_vars

TornSpec == Init /\ [][TornNext]_vars

-----------------------------------------------------------------------------
\* The rows, the runs and the registers have their types; budgets and ranges are in bounds.
TypeOK ==
    /\ chunk \in [Frame -> Chunk]
    /\ downloaded \subseteq Frame
    /\ jobState \in JobStates
    /\ hold \in Holds
    /\ run \in [Run -> RunRecord]
    /\ owner \in [Frame -> Run \cup {None}]
    /\ byNode \in [Node -> SUBSET Run]
    /\ breaker \in [job : SUBSET Node, setup : SUBSET Node, localRead : 0 .. BREAKER_NODES]
    /\ usable \subseteq Node
    /\ app \in {"up", "down"}

\* A chunk reads complete only with every frame of its range on this computer: the rows are
\* checked, not the agent's word, and no requeue, restart or revive gets round it.
CompleteIsDelivered ==
    \A c \in Frame : chunk[c].state = "complete" => Covered(chunk[c]) \subseteq downloaded

\* No frame is lost and none is queued twice: through every re-split, one still to come is in
\* the range of exactly one chunk.
EachFrameHasOneChunk ==
    \A f \in Frame \ downloaded :
        Cardinality({ c \in Frame : chunk[c].state # "absent" /\ f \in Covered(chunk[c]) }) = 1

\* A chunk in flight is driven by one run that has not been stopped, registered under both the
\* chunk and the node, so a cancel and a lost node both find it; no other chunk is.  The run
\* renders the range its chunk has now: what it was sent with is never re-split under it.
OneLiveRunPerChunk ==
    /\ \A c \in Frame : app = "up" =>
         (chunk[c].state \in InFlight <=> \E r \in Run : Live(r) /\ run[r].chunk = c)
    /\ \A r \in Run : Live(r) =>
         /\ owner[run[r].chunk] = r /\ r \in byNode[run[r].node]
         /\ run[r].lo = chunk[run[r].chunk].lo /\ run[r].hi = chunk[run[r].chunk].hi

\* A re-split inserts no chunk under an id in use: the row's PRIMARY KEY would refuse it, and
\* the chunk would be failed with its frames never rendered.
SplitIdsFree ==
    \A c \in Frame : chunk[c].state \notin {"absent", "complete"} =>
        \A f \in NewStarts(c, downloaded) : chunk[f].state = "absent"

\* A cancelled job has nothing left that could be sent or that runs.
CancelledIsQuiet ==
    jobState = "cancelled" =>
        /\ \A c \in Frame : chunk[c].state \in {"absent", "complete"} \cup Stopped
        /\ \A r \in Run : ~Live(r)

\* The job's state is the one its chunks give: no handler forgets to refresh it.
JobStateIsFresh == app = "up" => jobState = Refreshed(jobState, chunk, downloaded)

\* A chunk of a job still wanted is failed only once a budget is spent.
FailedOnlyWhenSpent ==
    \A c \in Frame : chunk[c].state = "failed" /\ jobState \in {"queued", "running", "partial"} =>
        chunk[c].retries = MaxRetries \/ chunk[c].infra = MaxInfraRetries

\* Frame by frame, the attempts spent on a frame still to come are never forgotten: whatever
\* chunk a re-split puts it in has spent at least as much.  Only the user's re-render starts
\* afresh, and only for chunks that had stopped.
FrameBudgetKept ==
    [][\A c, d \in Frame :
         /\ chunk[c].state \notin {"absent"} \cup Stopped
         /\ chunk'[d].state # "absent"
         /\ (Covered(chunk[c]) \cap Covered(chunk'[d])) \ downloaded' # {}
         => /\ chunk'[d].retries >= chunk[c].retries
            /\ chunk'[d].infra >= chunk[c].infra]_chunk

\* Frames are marked downloaded by a run that still owns the chunk covering them.
OnlyOwnerMarks ==
    [][\A f \in downloaded' \ downloaded :
         \E r \in Run : Live(r) /\ f \in run[r].lo .. run[r].hi]_downloaded

\* A job that failed outright (its attention says why no node can render it) is not queued
\* again.
FailedOutrightIsNotRevived ==
    [][hold = "fatal" => jobState' \notin {"queued", "running"}]_<<jobState, hold>>

-----------------------------------------------------------------------------
(***************************************************************************)
(* Fairness, for a job nobody touches in a process that goes on running.   *)
(* Every await of a run ends (each is bounded by a timeout, a watchdog or  *)
(* the agent's own end), the tick comes every few seconds, and the         *)
(* supervisor brings nodes back.  Nothing says frames land.  A node that   *)
(* goes away is charged, so it may do so at any time.                      *)
(***************************************************************************)
Fairness ==
    /\ \A r \in Run : WF_vars(Proceed(r))
    /\ \A n \in Node : WF_vars(NodeUsable(n))
    /\ SF_vars(Sends)
    /\ WF_vars(TickSettles)

WorkSpec == Init /\ [][Work]_vars /\ Fairness

\* The job ends, or stops at a hold that waits for the user: the budgets bound its retries.
JobEnds == <>[](jobState \in {"complete", "partial", "failed"} \/ hold # "none")

\* A chunk whose frames have all landed is settled as complete, held job or not: nothing is
\* left for the user to resume or a node to be rented for.
LandedChunksSettle ==
    \A c \in Frame : chunk[c].state = "pending" /\ Covered(chunk[c]) \subseteq downloaded
                        ~> chunk[c].state = "complete"

-----------------------------------------------------------------------------
\* What the user is promised of the job, and what the rows say of it.
Verdict == IF jobState \in {"queued", "running"} THEN "open" ELSE jobState

Delivery == INSTANCE FrameDelivery WITH delivered <- downloaded, verdict <- Verdict

\* The ledger implements that promise, whatever fails: no verdict before its frames, no frame
\* lost again, and nothing reopens a job but the user's asking for what is missing.
DeliveryKept == Delivery!Spec
=============================================================================
