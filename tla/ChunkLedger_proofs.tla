------------------------- MODULE ChunkLedger_proofs -------------------------
(***************************************************************************)
(* Theorems about ChunkLedger, for any number of frames, nodes and runs,   *)
(* any retry budgets and any kinds of failure, with crashes inside         *)
(* handlers (TornSpec).                                                    *)
(***************************************************************************)
EXTENDS ChunkLedger, WellFoundedInduction, TLAPS

-----------------------------------------------------------------------------
(***************************************************************************)
(* What MissingRuns computes, proved for every range and every set of      *)
(* landed frames: its runs are the missing frames, each in one run.        *)
(***************************************************************************)

\* A non-empty set of naturals has a least member.
LEMMA LeastOfNat ==
    ASSUME NEW T, T \subseteq Nat, T # {}
    PROVE  \E m \in T : \A k \in T : m <= k
<1>1. IsWellFoundedOn(OpToRel(<, Nat), Nat)
  BY NatLessThanWellFounded
<1>2. PICK m \in T : \A k \in T : ~ (<<k, m>> \in OpToRel(<, Nat))
  BY <1>1, WFMin
<1>3. \A k \in T : ~ (k < m)
  BY <1>2 DEF OpToRel
<1>. QED
  BY <1>3

\* A run lies in the range, and none of its frames has landed.
LEMMA RunInRange ==
    ASSUME NEW lo \in Nat, NEW hi \in Nat, NEW done,
           NEW rg \in MissingRuns(lo, hi, done)
    PROVE  /\ rg = [lo |-> rg.lo, hi |-> rg.hi]
           /\ rg.lo \in lo .. hi
           /\ rg.hi \in lo .. hi
           /\ rg.lo <= rg.hi
           /\ Covered(rg) \subseteq (lo .. hi) \ done
  BY DEF MissingRuns, Covered

\* Every missing frame of the range is in a run.
THEOREM MissingIsInRun ==
    ASSUME NEW lo \in Nat, NEW hi \in Nat, NEW done,
           NEW f \in (lo .. hi) \ done
    PROVE  \E rg \in MissingRuns(lo, hi, done) : f \in Covered(rg)
<1>. DEFINE missing == (lo .. hi) \ done
            Before == { g \in lo .. f : g .. f \subseteq missing }
            After  == { d \in 0 .. hi - f : f .. hi - d \subseteq missing }
<1>1. PICK first \in Before : \A g \in Before : first <= g
  <2>1. f \in Before
    OBVIOUS
  <2>2. Before \subseteq Nat
    OBVIOUS
  <2>. QED
    BY <2>1, <2>2, LeastOfNat
<1>2. first - 1 \notin missing
  <2>. SUFFICES ASSUME first - 1 \in missing PROVE FALSE
    OBVIOUS
  <2>1. (first - 1) .. f \subseteq missing
    BY <1>1
  <2>2. first - 1 \in Before
    BY <1>1, <2>1
  <2>. QED
    BY <1>1, <2>2
<1>3. PICK d \in After : \A e \in After : d <= e
  <2>1. hi - f \in After
    <3>1. hi - (hi - f) = f
      OBVIOUS
    <3>. QED
      BY <3>1
  <2>2. After \subseteq Nat
    OBVIOUS
  <2>. QED
    BY <2>1, <2>2, LeastOfNat
<1>. DEFINE last == hi - d
<1>4. last + 1 \notin missing
  <2>. SUFFICES ASSUME last + 1 \in missing PROVE FALSE
    OBVIOUS
  <2>1. f .. last + 1 \subseteq missing
    BY <1>3
  <2>2. d - 1 \in 0 .. hi - f
    BY <1>3
  <2>3. hi - (d - 1) = last + 1
    BY <1>3
  <2>4. d - 1 \in After
    BY <2>1, <2>2, <2>3
  <2>. QED
    BY <1>3, <2>4
<1>. DEFINE rg == [lo |-> first, hi |-> last]
<1>5. first .. last \subseteq missing /\ f \in first .. last
  BY <1>1, <1>3
<1>6. rg \in [lo : missing, hi : missing]
  BY <1>1, <1>3
<1>7. rg \in MissingRuns(lo, hi, done)
  BY <1>2, <1>4, <1>5, <1>6 DEF MissingRuns, Covered
<1>. QED
  BY <1>5, <1>7 DEF Covered

\* No run means nothing is missing.
LEMMA NoRunNothingMissing ==
    ASSUME NEW lo \in Nat, NEW hi \in Nat, NEW done,
           MissingRuns(lo, hi, done) = {}
    PROVE  lo .. hi \subseteq done
  BY MissingIsInRun

\* The first run is one of the runs.
LEMMA FirstRunIsRun ==
    ASSUME NEW lo \in Nat, NEW hi \in Nat, NEW done,
           MissingRuns(lo, hi, done) # {}
    PROVE  /\ FirstRun(MissingRuns(lo, hi, done)) \in MissingRuns(lo, hi, done)
           /\ \A rg \in MissingRuns(lo, hi, done) :
                 FirstRun(MissingRuns(lo, hi, done)).lo <= rg.lo
<1>. DEFINE runs == MissingRuns(lo, hi, done)
            starts == { rg.lo : rg \in runs }
<1>1. starts \subseteq Nat /\ starts # {}
  BY RunInRange
<1>2. PICK m \in starts : \A k \in starts : m <= k
  BY <1>1, LeastOfNat
<1>3. \E rg \in runs : \A other \in runs : rg.lo <= other.lo
  BY <1>2
<1>. QED
  BY <1>3 DEF FirstRun

\* Two runs that share a frame are one.
THEOREM RunsAreDisjoint ==
    ASSUME NEW lo \in Nat, NEW hi \in Nat, NEW done,
           NEW a \in MissingRuns(lo, hi, done), NEW b \in MissingRuns(lo, hi, done),
           NEW f \in Covered(a) \cap Covered(b)
    PROVE  a = b
<1>1. \A x, y \in MissingRuns(lo, hi, done) :
         f \in Covered(x) /\ f \in Covered(y) => ~(x.lo < y.lo) /\ ~(x.hi > y.hi)
  <2>. SUFFICES ASSUME NEW x \in MissingRuns(lo, hi, done), NEW y \in MissingRuns(lo, hi, done),
                       f \in Covered(x), f \in Covered(y)
                PROVE  ~(x.lo < y.lo) /\ ~(x.hi > y.hi)
    OBVIOUS
  <2>1. /\ x.lo \in Int /\ x.hi \in Int /\ y.lo \in Int /\ y.hi \in Int
        /\ f \in Int /\ x.lo <= f /\ f <= x.hi /\ y.lo <= f /\ f <= y.hi
    BY RunInRange DEF Covered
  <2>2. Covered(x) \subseteq (lo .. hi) \ done
    BY RunInRange
  <2>3. y.lo - 1 \notin (lo .. hi) \ done /\ y.hi + 1 \notin (lo .. hi) \ done
    BY DEF MissingRuns
  <2>4. ~(x.lo < y.lo)
    <3>. SUFFICES ASSUME x.lo < y.lo PROVE y.lo - 1 \in Covered(x)
      BY <2>2, <2>3
    <3>. QED
      BY <2>1 DEF Covered
  <2>5. ~(x.hi > y.hi)
    <3>. SUFFICES ASSUME x.hi > y.hi PROVE y.hi + 1 \in Covered(x)
      BY <2>2, <2>3
    <3>. QED
      BY <2>1 DEF Covered
  <2>. QED
    BY <2>4, <2>5
<1>2. /\ a.lo \in Int /\ a.hi \in Int /\ b.lo \in Int /\ b.hi \in Int
      /\ a = [lo |-> a.lo, hi |-> a.hi] /\ b = [lo |-> b.lo, hi |-> b.hi]
  BY RunInRange
<1>3. a.lo = b.lo /\ a.hi = b.hi
  BY <1>1, <1>2
<1>. QED
  BY <1>2, <1>3

-----------------------------------------------------------------------------
\* Chunk rows that are well formed and complete only with their frames in `got'.
Sound(ch, got) ==
    /\ ch \in [Frame -> Chunk]
    /\ \A c \in Frame : ch[c].state = "complete" => Covered(ch[c]) \subseteq got

\* A run that is in some await has a chunk and a node.
BusyRunsHaveWork ==
    \A r \in Run : run[r].phase # "free" => run[r].chunk \in Frame /\ run[r].node \in Node

\* A run registered under a node has not returned.
RegisteredRunsAreBusy ==
    \A n \in Node : \A r \in byNode[n] : run[r].phase # "free"

Breaker == [job : SUBSET Node, setup : SUBSET Node, localRead : 0 .. BREAKER_NODES]

RowsOK ==
    /\ Sound(chunk, downloaded)
    /\ downloaded \subseteq Frame
    /\ jobState \in JobStates
    /\ hold \in Holds

RunsOK ==
    /\ run \in [Run -> RunRecord]
    /\ owner \in [Frame -> Run \cup {None}]
    /\ byNode \in [Node -> SUBSET Run]
    /\ BusyRunsHaveWork
    /\ RegisteredRunsAreBusy

RestOK ==
    /\ breaker \in Breaker
    /\ usable \subseteq Node
    /\ app \in {"up", "down"}

\* The inductive invariant.
LedgerInv == RowsOK /\ RunsOK /\ RestOK

\* What the inductive invariant gives: the type invariant and CompleteIsDelivered.
LEMMA LedgerInvImplies == LedgerInv => TypeOK /\ CompleteIsDelivered
  BY DEF LedgerInv, RowsOK, RunsOK, RestOK, Sound, Breaker, TypeOK, CompleteIsDelivered

-----------------------------------------------------------------------------
\* What the operators on rows return.

\* refreshJobState (jobs.ts) gives a job state.
LEMMA RefreshedType ==
    ASSUME NEW js \in JobStates, NEW ch, NEW got
    PROVE  Refreshed(js, ch, got) \in JobStates
  BY DEF Refreshed, JobStates

\* A row set to another state keeps its range.
LEMMA RowSet ==
    ASSUME NEW row \in Chunk, NEW s \in ChunkStates
    PROVE  /\ [row EXCEPT !.state = s] \in Chunk
           /\ [row EXCEPT !.state = s].state = s
           /\ Covered([row EXCEPT !.state = s]) = Covered(row)
  BY DEF Chunk, Covered

\* The states chunks are set to are chunk states.
LEMMA StatesExist ==
    /\ InFlight \subseteq ChunkStates
    /\ Stopped \subseteq ChunkStates
    /\ "complete" \in ChunkStates /\ "pending" \in ChunkStates /\ "absent" \in ChunkStates
    /\ "failed" \in ChunkStates /\ "cancelled" \in ChunkStates
    /\ "assigned" \in ChunkStates /\ "rendering" \in ChunkStates
    /\ "encoding" \in ChunkStates /\ "downloading" \in ChunkStates
  BY DEF ChunkStates, InFlight, Stopped

\* Rows stay sound as more frames land.
LEMMA SoundMono ==
    ASSUME NEW ch, NEW got, NEW more, Sound(ch, got), got \subseteq more
    PROVE  Sound(ch, more)
  BY DEF Sound

\* One chunk set to a state: complete only with its frames landed.
LEMMA SoundSet ==
    ASSUME NEW ch, NEW got, Sound(ch, got), NEW c \in Frame, NEW s \in ChunkStates,
           s = "complete" => Covered(ch[c]) \subseteq got
    PROVE  Sound([ch EXCEPT ![c].state = s], got)
<1>. DEFINE new == [ch EXCEPT ![c].state = s]
<1>1. ch \in [Frame -> Chunk]
  BY DEF Sound
<1>2. new \in [Frame -> Chunk]
  <2>1. [ch[c] EXCEPT !.state = s] \in Chunk
    BY <1>1, RowSet
  <2>2. new = [ch EXCEPT ![c] = [ch[c] EXCEPT !.state = s]]
    OBVIOUS
  <2>. QED
    BY <1>1, <2>1, <2>2
<1>3. ASSUME NEW d \in Frame, new[d].state = "complete"
      PROVE  Covered(new[d]) \subseteq got
  <2>1. CASE d = c
    <3>1. new[d] = [ch[c] EXCEPT !.state = s]
      BY <1>1, <2>1
    <3>2. ch[c] \in Chunk
      BY <1>1
    <3>3. new[d].state = s /\ Covered(new[d]) = Covered(ch[c])
      BY <3>1, <3>2, RowSet
    <3>. QED
      BY <1>3, <3>3
  <2>2. CASE d # c
    BY <1>1, <1>3, <2>2 DEF Sound
  <2>. QED
    BY <2>1, <2>2
<1>. QED
  BY <1>2, <1>3 DEF Sound

-----------------------------------------------------------------------------
\* Re-splitting.

\* A chunk's missing runs are ranges of the job's frames; none is left only when every frame
\* of the chunk has landed.
LEMMA RunsOfChunk ==
    ASSUME chunk \in [Frame -> Chunk], NEW c \in Frame, NEW got
    PROVE  /\ \A rg \in Runs(c, got) : /\ rg.lo \in Frame
                                       /\ rg.hi \in 0 .. NumFrames
                                       /\ rg = [lo |-> rg.lo, hi |-> rg.hi]
           /\ Runs(c, got) = {} => Covered(chunk[c]) \subseteq got
           /\ Runs(c, got) # {} => FirstRun(Runs(c, got)) \in Runs(c, got)
<1>1. chunk[c].lo \in 1 .. NumFrames /\ chunk[c].hi \in 0 .. NumFrames
  BY DEF Chunk, Frame
<1>2. chunk[c].lo \in Nat /\ chunk[c].hi \in Nat
  BY <1>1, LedgerConstants
<1>3. ASSUME NEW rg \in Runs(c, got)
      PROVE  /\ rg.lo \in chunk[c].lo .. chunk[c].hi
             /\ rg.hi \in chunk[c].lo .. chunk[c].hi
             /\ rg = [lo |-> rg.lo, hi |-> rg.hi]
  BY <1>2, <1>3, RunInRange DEF Runs
<1>4. \A i \in chunk[c].lo .. chunk[c].hi : i \in Frame /\ i \in 0 .. NumFrames
  BY <1>1, LedgerConstants DEF Frame
<1>5. Runs(c, got) = {} => Covered(chunk[c]) \subseteq got
  BY <1>2, NoRunNothingMissing DEF Runs, Covered
<1>6. Runs(c, got) # {} => FirstRun(Runs(c, got)) \in Runs(c, got)
  BY <1>2, FirstRunIsRun DEF Runs
<1>. QED
  BY <1>3, <1>4, <1>5, <1>6

\* A start of a new chunk is the start of one of its parent's runs.
LEMMA NewStartHasRun ==
    ASSUME NEW c \in Frame, NEW got, NEW f \in NewStarts(c, got)
    PROVE  LET rg == CHOOSE rg \in Runs(c, got) : rg.lo = f
           IN  rg \in Runs(c, got) /\ rg.lo = f
  BY DEF NewStarts, LaterRuns

\* A row charged within its budget is well formed and pending.
LEMMA ChargedType ==
    ASSUME chunk \in [Frame -> Chunk], NEW c \in Frame, NEW budget, ~Spent(c, budget)
    PROVE  /\ Charged(c, budget) \in Chunk
           /\ Charged(c, budget).state = "pending"
<1>1. chunk[c] \in Chunk
  OBVIOUS
<1>2. /\ chunk[c].retries \in 0 .. MaxRetries
      /\ chunk[c].infra \in 0 .. MaxInfraRetries
  BY <1>1 DEF Chunk
<1>3. budget = "render" => chunk[c].retries + 1 \in 0 .. MaxRetries
  BY <1>2, LedgerConstants DEF Spent
<1>4. budget = "infra" => chunk[c].infra + 1 \in 0 .. MaxInfraRetries
  BY <1>2, LedgerConstants DEF Spent
<1>. QED
  BY <1>1, <1>2, <1>3, <1>4 DEF Charged, Chunk, ChunkStates

\* A row put on a run is well formed and keeps its state.
LEMMA OnRun ==
    ASSUME chunk \in [Frame -> Chunk], NEW c \in Frame, NEW got,
           NEW rg \in Runs(c, got), NEW row \in Chunk
    PROVE  On(rg, row) \in Chunk /\ On(rg, row).state = row.state
<1>1. rg.lo \in Frame /\ rg.hi \in 0 .. NumFrames
  BY RunsOfChunk
<1>. QED
  BY <1>1 DEF On, Chunk

\* resplitAroundDownloaded leaves sound rows: complete only with nothing missing.
LEMMA ResplitSound ==
    ASSUME Sound(chunk, downloaded), NEW got, downloaded \subseteq got,
           NEW S \in SUBSET Frame, NEW budget
    PROVE  Sound(Resplit(S, budget, got), got)
<1>. DEFINE new == Resplit(S, budget, got)
<1>1. chunk \in [Frame -> Chunk]
  BY DEF Sound
<1>2. ASSUME NEW f \in Frame
      PROVE  new[f] \in Chunk /\ (new[f].state = "complete" => Covered(new[f]) \subseteq got)
  <2>. DEFINE parent == { c \in S : ~Spent(c, budget) /\ f \in NewStarts(c, got) }
  <2>1. CASE f \in S /\ Runs(f, got) = {}
    <3>1. new[f] = [chunk[f] EXCEPT !.state = "complete"]
      BY <2>1 DEF Resplit
    <3>. QED
      BY <1>1, <2>1, <3>1, RowSet, StatesExist, RunsOfChunk
  <2>2. CASE f \in S /\ Runs(f, got) # {} /\ Spent(f, budget)
    <3>1. new[f] = [chunk[f] EXCEPT !.state = "failed"]
      BY <2>2 DEF Resplit
    <3>. QED
      BY <1>1, <3>1, RowSet, StatesExist
  <2>3. CASE f \in S /\ Runs(f, got) # {} /\ ~Spent(f, budget)
    <3>1. new[f] = On(FirstRun(Runs(f, got)), Charged(f, budget))
      BY <2>3 DEF Resplit
    <3>. QED
      BY <1>1, <2>3, <3>1, RunsOfChunk, ChargedType, OnRun
  <2>4. CASE f \notin S /\ parent # {}
    <3>. DEFINE c == CHOOSE c \in parent : TRUE
    <3>1. c \in parent
      BY <2>4
    <3>2. new[f] = On(CHOOSE rg \in Runs(c, got) : rg.lo = f, Charged(c, budget))
      BY <2>4 DEF Resplit
    <3>3. (CHOOSE rg \in Runs(c, got) : rg.lo = f) \in Runs(c, got)
      BY <3>1, NewStartHasRun
    <3>. QED
      BY <1>1, <3>1, <3>2, <3>3, ChargedType, OnRun
  <2>5. CASE f \notin S /\ parent = {}
    <3>1. new[f] = chunk[f]
      BY <2>5 DEF Resplit
    <3>. QED
      BY <1>1, <3>1 DEF Sound
  <2>. QED
    BY <2>1, <2>2, <2>3, <2>4, <2>5
<1>3. new = [f \in Frame |-> new[f]]
  BY DEF Resplit
<1>. QED
  BY <1>2, <1>3 DEF Sound

\* A row with both budgets fresh is well formed and pending.
LEMMA FreshRow ==
    ASSUME NEW row \in Chunk
    PROVE  Fresh(row) \in Chunk /\ Fresh(row).state = "pending"
<1>1. 0 \in 0 .. MaxRetries /\ 0 \in 0 .. MaxInfraRetries
  BY LedgerConstants
<1>. QED
  BY <1>1, StatesExist DEF Fresh, Chunk

\* reviveFailedChunks leaves sound rows.
LEMMA RevivedSound ==
    ASSUME Sound(chunk, downloaded), NEW S \in SUBSET Frame
    PROVE  Sound(Revived(S), downloaded)
<1>. DEFINE new == Revived(S)
<1>1. chunk \in [Frame -> Chunk]
  BY DEF Sound
<1>2. \A c \in Frame : Fresh(chunk[c]) \in Chunk /\ Fresh(chunk[c]).state = "pending"
  BY <1>1, FreshRow
<1>3. ASSUME NEW f \in Frame
      PROVE  new[f] \in Chunk /\ (new[f].state = "complete" => Covered(new[f]) \subseteq downloaded)
  <2>. DEFINE parent == { c \in S : f \in NewStarts(c, downloaded) }
  <2>1. CASE f \in S /\ Runs(f, downloaded) = {}
    <3>1. new[f] = [chunk[f] EXCEPT !.state = "complete"]
      BY <2>1 DEF Revived
    <3>. QED
      BY <1>1, <2>1, <3>1, RowSet, StatesExist, RunsOfChunk
  <2>2. CASE f \in S /\ Runs(f, downloaded) # {}
    <3>1. new[f] = On(FirstRun(Runs(f, downloaded)), Fresh(chunk[f]))
      BY <2>2 DEF Revived
    <3>2. FirstRun(Runs(f, downloaded)) \in Runs(f, downloaded)
      BY <1>1, <2>2, RunsOfChunk
    <3>. QED
      BY <1>1, <1>2, <3>1, <3>2, OnRun
  <2>3. CASE f \notin S /\ parent # {}
    <3>. DEFINE c == CHOOSE c \in parent : TRUE
    <3>1. c \in parent
      BY <2>3
    <3>2. new[f] = On(CHOOSE rg \in Runs(c, downloaded) : rg.lo = f, Fresh(chunk[c]))
      BY <2>3, <3>1 DEF Revived
    <3>3. (CHOOSE rg \in Runs(c, downloaded) : rg.lo = f) \in Runs(c, downloaded)
      BY <3>1, NewStartHasRun
    <3>. QED
      BY <1>1, <1>2, <3>1, <3>2, <3>3, OnRun
  <2>4. CASE f \notin S /\ parent = {}
    <3>1. new[f] = chunk[f]
      BY <2>4 DEF Revived
    <3>. QED
      BY <1>1, <3>1 DEF Sound
  <2>. QED
    BY <2>1, <2>2, <2>3, <2>4
<1>4. new = [f \in Frame |-> new[f]]
  BY DEF Revived
<1>. QED
  BY <1>3, <1>4 DEF Sound

\* settleDownloadedPending leaves sound rows.
LEMMA SettledSound ==
    ASSUME Sound(chunk, downloaded)
    PROVE  Sound(Settled, downloaded)
<1>1. ASSUME NEW c \in Frame
      PROVE  /\ Settled[c] \in Chunk
             /\ Settled[c].state = "complete" => Covered(Settled[c]) \subseteq downloaded
  <2>1. chunk[c] \in Chunk
    BY DEF Sound
  <2>2. CASE Settled[c] = chunk[c]
    BY <2>1, <2>2 DEF Sound
  <2>3. CASE Settled[c] # chunk[c]
    <3>1. Undownloaded(c, downloaded) = {} /\ Settled[c] = [chunk[c] EXCEPT !.state = "complete"]
      BY <2>3 DEF Settled
    <3>. QED
      BY <2>1, <3>1, RowSet, StatesExist DEF Undownloaded
  <2>. QED
    BY <2>2, <2>3
<1>2. Settled = [c \in Frame |-> Settled[c]]
  BY DEF Settled
<1>. QED
  BY <1>1, <1>2 DEF Sound

\* A set of chunks moved to a state other than complete: failJob, cancelJob, forgetNode.
LEMMA StoppedRowsSound ==
    ASSUME NEW ch, NEW got, Sound(ch, got), NEW s \in Stopped, NEW new,
           new \in [Frame -> Chunk],
           \A c \in Frame : new[c] = ch[c] \/ new[c].state = s
    PROVE  Sound(new, got)
  BY DEF Sound, Stopped

-----------------------------------------------------------------------------
\* The runs and their registers.

\* A slot whose run has returned is well formed.
LEMMA FreeRunType == FreeRun \in RunRecord
  BY LedgerConstants DEF FreeRun, RunRecord, Phases, Frame

\* A run that returns and is dropped (dropRun) leaves the registers consistent.
LEMMA ReturnsRunsOK ==
    ASSUME RunsOK, NEW r \in Run, Returns(r), Dropped(r)
    PROVE  RunsOK'
<1>1. FreeRun \in RunRecord
  BY FreeRunType
<1>2. run' \in [Run -> RunRecord]
  BY <1>1 DEF RunsOK, Returns
<1>3. owner' \in [Frame -> Run \cup {None}] /\ byNode' \in [Node -> SUBSET Run]
  BY DEF RunsOK, Dropped
<1>4. BusyRunsHaveWork'
  BY DEF RunsOK, Returns, BusyRunsHaveWork, FreeRun
<1>5. RegisteredRunsAreBusy'
  BY DEF RunsOK, Returns, Dropped, RegisteredRunsAreBusy
<1>. QED
  BY <1>2, <1>3, <1>4, <1>5 DEF RunsOK

\* A run that goes on to its next await leaves the registers consistent.
LEMMA PhaseRunsOK ==
    ASSUME RunsOK, NEW r \in Run, run[r].phase # "free", NEW p \in Phases \ {"free"},
           run' = [run EXCEPT ![r].phase = p], UNCHANGED <<owner, byNode>>
    PROVE  RunsOK'
<1>1. [run[r] EXCEPT !.phase = p] \in RunRecord
  BY DEF RunsOK, RunRecord
<1>2. run' \in [Run -> RunRecord]
  BY <1>1 DEF RunsOK
<1>3. \A s \in Run : /\ run'[s].chunk = run[s].chunk /\ run'[s].node = run[s].node
                      /\ run'[s].phase # "free" <=> run[s].phase # "free"
  BY DEF RunsOK, RunRecord
<1>. QED
  BY <1>2, <1>3 DEF RunsOK, BusyRunsHaveWork, RegisteredRunsAreBusy

\* A download pass that gives up leaves the registers consistent.
LEMMA GaveUpRunsOK ==
    ASSUME RunsOK, NEW r \in Run, run' = [run EXCEPT ![r].gaveUp = TRUE],
           UNCHANGED <<owner, byNode>>
    PROVE  RunsOK'
<1>1. [run[r] EXCEPT !.gaveUp = TRUE] \in RunRecord
  BY DEF RunsOK, RunRecord
<1>2. run' \in [Run -> RunRecord]
  BY <1>1 DEF RunsOK
<1>3. \A s \in Run : /\ run'[s].chunk = run[s].chunk /\ run'[s].node = run[s].node
                      /\ run'[s].phase = run[s].phase
  BY DEF RunsOK, RunRecord
<1>. QED
  BY <1>2, <1>3 DEF RunsOK, BusyRunsHaveWork, RegisteredRunsAreBusy

\* abort() on a set of runs leaves the registers consistent.
LEMMA AbortedRunsOK ==
    ASSUME RunsOK, NEW R \in SUBSET Run, Aborted(R)
    PROVE  RunsOK'
<1>1. \A s \in Run : [run[s] EXCEPT !.stopped = TRUE] \in RunRecord
  BY DEF RunsOK, RunRecord
<1>2. run' \in [Run -> RunRecord]
  BY <1>1 DEF RunsOK, Aborted
<1>3. \A s \in Run : /\ run'[s].chunk = run[s].chunk /\ run'[s].node = run[s].node
                      /\ run'[s].phase = run[s].phase
  BY DEF RunsOK, RunRecord, Aborted
<1>4. owner' \in [Frame -> Run \cup {None}] /\ byNode' \in [Node -> SUBSET Run]
  BY DEF RunsOK, Aborted
<1>5. \A n \in Node : byNode'[n] \subseteq byNode[n]
  BY DEF Aborted
<1>. QED
  BY <1>2, <1>3, <1>4, <1>5 DEF RunsOK, BusyRunsHaveWork, RegisteredRunsAreBusy

\* The end of the process empties the registers.
LEMMA DiesRunsOK ==
    ASSUME RunsOK, Dies
    PROVE  RunsOK'
<1>1. FreeRun \in RunRecord
  BY FreeRunType
<1>. QED
  BY <1>1 DEF RunsOK, Dies, BusyRunsHaveWork, RegisteredRunsAreBusy, FreeRun

-----------------------------------------------------------------------------
\* Settling a failed attempt.

\* JobBreaker.record counts failures within its bounds.
LEMMA StruckType ==
    ASSUME breaker \in Breaker, NEW n \in Node, NEW failure
    PROVE  Struck(failure, n) \in Breaker
<1>1. CASE failure = "job"
  BY <1>1 DEF Struck, Breaker
<1>2. CASE failure = "setup"
  BY <1>2 DEF Struck, Breaker
<1>3. CASE failure = "localRead" /\ breaker.localRead < BREAKER_NODES
  BY <1>3 DEF Struck, Breaker, BREAKER_NODES
<1>4. CASE failure \notin {"job", "setup"} /\ ~(failure = "localRead" /\ breaker.localRead < BREAKER_NODES)
  BY <1>4 DEF Struck
<1>. QED
  BY <1>1, <1>2, <1>3, <1>4

\* JobBreaker.reset gives a breaker.
LEMMA NoStrikesType == NoStrikes \in Breaker
  BY DEF NoStrikes, Breaker, BREAKER_NODES

\* failJob leaves sound rows.
LEMMA FailedWithSound ==
    ASSUME Sound(chunk, downloaded), NEW c \in Frame
    PROVE  Sound(FailedWith(c), downloaded)
<1>1. \A d \in Frame : [chunk[d] EXCEPT !.state = "failed"] \in Chunk
                       /\ [chunk[d] EXCEPT !.state = "failed"].state = "failed"
  BY RowSet, StatesExist DEF Sound
<1>2. FailedWith(c) \in [Frame -> Chunk]
  BY <1>1 DEF FailedWith, Sound
<1>3. \A d \in Frame : FailedWith(c)[d] = chunk[d] \/ FailedWith(c)[d].state = "failed"
  BY <1>1 DEF FailedWith
<1>. QED
  BY <1>2, <1>3, StoppedRowsSound DEF Stopped

\* requeue leaves sound rows, whatever the failure is charged to.
LEMMA RequeueOK ==
    ASSUME RowsOK, breaker \in Breaker, NEW c \in Frame, NEW n \in Node, NEW failure,
           NEW got \in SUBSET Frame, downloaded \subseteq got, Requeue(c, n, failure, got)
    PROVE  /\ Sound(chunk', got)
           /\ jobState' \in JobStates
           /\ hold' \in Holds
           /\ breaker' \in Breaker
<1>1. Sound(chunk, got)
  BY SoundMono DEF RowsOK
<1>2. CASE jobState = "cancelled"
  BY <1>1, <1>2 DEF Requeue, RowsOK
<1>3. CASE jobState = "failed"
  <2>1. chunk' = [chunk EXCEPT ![c].state = IF @ = "complete" THEN @ ELSE "failed"]
    BY <1>3 DEF Requeue
  <2>2. CASE chunk[c].state = "complete"
    <3>1. chunk' = [chunk EXCEPT ![c].state = "complete"]
      BY <2>1, <2>2
    <3>2. Covered(chunk[c]) \subseteq got
      BY <1>1, <2>2 DEF Sound
    <3>3. Sound(chunk', got)
      BY <1>1, <3>1, <3>2, SoundSet, StatesExist
    <3>. QED
      BY <1>3, <3>3 DEF Requeue, RowsOK
  <2>3. CASE chunk[c].state # "complete"
    <3>1. chunk' = [chunk EXCEPT ![c].state = "failed"]
      BY <2>1, <2>3
    <3>. QED
      BY <1>1, <1>3, <3>1, SoundSet, StatesExist DEF Requeue, RowsOK
  <2>. QED
    BY <2>2, <2>3
<1>4. CASE jobState \notin {"cancelled", "failed"} /\ failure = "fatal"
  <2>1. /\ chunk' = FailedWith(c) /\ jobState' = "failed" /\ hold' = "fatal"
        /\ breaker' = NoStrikes
    BY <1>4 DEF Requeue
  <2>2. Sound(chunk', downloaded)
    BY <2>1, FailedWithSound DEF RowsOK
  <2>. QED
    BY <2>1, <2>2, SoundMono, NoStrikesType DEF JobStates, Holds
<1>5. CASE jobState \notin {"cancelled", "failed"} /\ failure # "fatal"
  <2>1. /\ chunk' = Resplit({c}, Budget(failure), got)
        /\ jobState' = Refreshed(jobState, chunk', got)
        /\ breaker' = breaker \/ breaker' = Struck(failure, n)
        /\ hold' \in {"signIn", "breaker", hold}
    BY <1>5 DEF Requeue
  <2>2. Sound(chunk', got)
    BY <2>1, ResplitSound DEF RowsOK
  <2>. QED
    BY <2>1, <2>2, RefreshedType, StruckType DEF RowsOK, Holds
<1>. QED
  BY <1>2, <1>3, <1>4, <1>5

-----------------------------------------------------------------------------
\* The settling handlers.

\* A download pass marks frames of the job only.
LEMMA MarksAreFrames ==
    ASSUME RunsOK, NEW r \in Run, NEW F \in Marks(r)
    PROVE  F \in SUBSET Frame
<1>1. run[r].lo \in 1 .. NumFrames /\ run[r].hi \in 0 .. NumFrames
  BY DEF RunsOK, RunRecord, Frame
<1>2. run[r].lo .. run[r].hi \subseteq Frame
  BY <1>1, LedgerConstants DEF Frame
<1>. QED
  BY <1>2 DEF Marks

\* An attempt that ends in a failure keeps the invariant.
LEMMA FinishFailedKeeps ==
    ASSUME LedgerInv, NEW r \in Run, run[r].phase # "free", NEW failure,
           NEW F \in SUBSET Frame, FinishFailed(r, failure, F)
    PROVE  LedgerInv'
<1>. DEFINE got == downloaded \cup F
<1>1. RunsOK'
  BY ReturnsRunsOK DEF LedgerInv, FinishFailed
<1>2. run[r].chunk \in Frame /\ run[r].node \in Node
  BY DEF LedgerInv, RunsOK, BusyRunsHaveWork
<1>3. got \in SUBSET Frame /\ downloaded \subseteq got
  BY DEF LedgerInv, RowsOK
<1>4. /\ Sound(chunk', got)
      /\ jobState' \in JobStates
      /\ hold' \in Holds
      /\ breaker' \in Breaker
  <2>1. RowsOK /\ breaker \in Breaker /\ Requeue(run[r].chunk, run[r].node, failure, got)
    BY DEF LedgerInv, RestOK, FinishFailed
  <2>. HIDE DEF got
  <2>. QED
    BY <1>2, <1>3, <2>1, RequeueOK
<1>5. downloaded' = got /\ UNCHANGED <<usable, app>>
  BY DEF FinishFailed
<1>. QED
  BY <1>1, <1>3, <1>4, <1>5 DEF LedgerInv, RowsOK, RestOK, Sound

\* An attempt that ends with its chunk complete keeps the invariant.
LEMMA FinishCompleteKeeps ==
    ASSUME LedgerInv, NEW r \in Run, run[r].phase # "free", NEW rendered,
           NEW F \in SUBSET Frame, FinishComplete(r, rendered, F)
    PROVE  LedgerInv'
<1>. DEFINE got == downloaded \cup F
            c   == run[r].chunk
<1>1. RunsOK'
  BY ReturnsRunsOK DEF LedgerInv, FinishComplete
<1>2. c \in Frame
  BY DEF LedgerInv, RunsOK, BusyRunsHaveWork
<1>3. got \in SUBSET Frame /\ downloaded \subseteq got
  BY DEF LedgerInv, RowsOK
<1>4. Sound(chunk, got)
  BY <1>3, SoundMono DEF LedgerInv, RowsOK
<1>5. Sound(chunk', got)
  <2>1. CASE jobState = "cancelled"
    <3>1. chunk' = [chunk EXCEPT ![c].state = chunk[c].state]
      BY <2>1 DEF FinishComplete
    <3>2. chunk[c].state \in ChunkStates
      BY <1>2, <1>4 DEF Sound, Chunk
    <3>3. chunk[c].state = "complete" => Covered(chunk[c]) \subseteq got
      BY <1>2, <1>4 DEF Sound
    <3>. QED
      BY <1>2, <1>4, <3>1, <3>2, <3>3, SoundSet
  <2>2. CASE jobState # "cancelled"
    <3>1. chunk' = [chunk EXCEPT ![c].state = "complete"]
      BY <2>2 DEF FinishComplete
    <3>2. Covered(chunk[c]) \subseteq got
      BY DEF FinishComplete, Undownloaded
    <3>. QED
      BY <1>2, <1>4, <3>1, <3>2, SoundSet, StatesExist
  <2>. QED
    BY <2>1, <2>2
<1>6. jobState' \in JobStates
  BY RefreshedType DEF FinishComplete, LedgerInv, RowsOK
<1>7. breaker' \in Breaker
  BY NoStrikesType DEF FinishComplete, LedgerInv, RestOK
<1>8. downloaded' = got /\ UNCHANGED <<hold, usable, app>>
  BY DEF FinishComplete
<1>. QED
  BY <1>1, <1>3, <1>5, <1>6, <1>7, <1>8 DEF LedgerInv, RowsOK, RestOK, Sound

\* A step of a live run that moves its chunk's row and nothing else of the rows.
LEMMA RowMoves ==
    ASSUME LedgerInv, NEW c \in Frame, NEW s \in ChunkStates, s # "complete",
           chunk' = [chunk EXCEPT ![c].state = s],
           jobState' \in JobStates, UNCHANGED <<downloaded, hold>>
    PROVE  RowsOK'
<1>1. Sound(chunk', downloaded)
  BY SoundSet DEF LedgerInv, RowsOK
<1>. QED
  BY <1>1 DEF LedgerInv, RowsOK, Sound

-----------------------------------------------------------------------------
\* Every step keeps the invariant.

\* A tick that sends a chunk out keeps the invariant.
LEMMA DispatchKeeps ==
    ASSUME LedgerInv, NEW c \in Frame, NEW n \in Node, NEW r \in Run, Dispatch(c, n, r)
    PROVE  LedgerInv'
<1>1. Sound(Settled, downloaded)
  BY SettledSound DEF LedgerInv, RowsOK
<1>2. Sound(chunk', downloaded)
  BY <1>1, SoundSet, StatesExist DEF Dispatch
<1>3. jobState' \in JobStates
  BY RefreshedType DEF Dispatch, LedgerInv, RowsOK
<1>4. RowsOK'
  BY <1>2, <1>3 DEF Dispatch, LedgerInv, RowsOK, Sound
<1>5. RunsOK'
  <2>. DEFINE new == [phase |-> "prep", chunk |-> c, node |-> n, lo |-> chunk[c].lo,
                      hi |-> chunk[c].hi, stopped |-> FALSE, gaveUp |-> FALSE]
  <2>1. chunk[c].lo \in Frame /\ chunk[c].hi \in 0 .. NumFrames
    BY DEF LedgerInv, RowsOK, Sound, Chunk
  <2>2. c \in 0 .. NumFrames
    BY LedgerConstants DEF Frame
  <2>3. new \in RunRecord
    BY <2>1, <2>2 DEF RunRecord, Phases
  <2>4. run' = [run EXCEPT ![r] = new]
    BY DEF Dispatch
  <2>5. run' \in [Run -> RunRecord]
    BY <2>3, <2>4 DEF LedgerInv, RunsOK
  <2>6. owner' \in [Frame -> Run \cup {None}] /\ byNode' \in [Node -> SUBSET Run]
    BY DEF Dispatch, LedgerInv, RunsOK
  <2>7. run'[r] = new /\ \A s \in Run \ {r} : run'[s] = run[s]
    BY <2>4 DEF LedgerInv, RunsOK
  <2>8. new.phase # "free" /\ new.chunk \in Frame /\ new.node \in Node
    OBVIOUS
  <2>9. BusyRunsHaveWork'
    BY <2>7, <2>8 DEF LedgerInv, RunsOK, BusyRunsHaveWork
  <2>10. RegisteredRunsAreBusy'
    <3>1. \A m \in Node : byNode'[m] \subseteq byNode[m] \cup {r}
      BY DEF Dispatch, LedgerInv, RunsOK
    <3>2. \A s \in Run : run[s].phase # "free" => run'[s].phase # "free"
      BY <2>7, <2>8
    <3>3. \A m \in Node : \A s \in byNode[m] : s \in Run /\ run[s].phase # "free"
      BY DEF LedgerInv, RunsOK, RegisteredRunsAreBusy
    <3>. QED
      BY <2>7, <2>8, <3>1, <3>2, <3>3 DEF RegisteredRunsAreBusy
  <2>. QED
    BY <2>5, <2>6, <2>9, <2>10 DEF RunsOK
<1>6. RestOK'
  BY DEF Dispatch, LedgerInv, RestOK
<1>. QED
  BY <1>4, <1>5, <1>6 DEF LedgerInv

\* The steps of a run between its dispatch and its end.
LEMMA RunStepsKeep ==
    ASSUME LedgerInv, NEW r \in Run,
           \/ PrepDone(r) \/ SpecSent(r) \/ SeesEncoding(r) \/ SeesDone(r)
           \/ SeesFailure(r) \/ GivesUp(r) \/ \E f \in Frame : FrameLands(r, f)
    PROVE  LedgerInv'
<1>. DEFINE c == run[r].chunk
<1>1. run[r].phase # "free" => c \in Frame
  BY DEF LedgerInv, RunsOK, BusyRunsHaveWork
<1>2. RestOK'
  BY DEF LedgerInv, RestOK, PrepDone, SpecSent, SeesEncoding, SeesDone, SeesFailure, GivesUp,
         FrameLands, mem
<1>3. CASE PrepDone(r)
  <2>1. RunsOK'
    BY <1>3, PhaseRunsOK DEF LedgerInv, PrepDone, Phases
  <2>. QED
    BY <1>2, <1>3, <2>1 DEF LedgerInv, PrepDone, RowsOK, rows
<1>4. CASE SpecSent(r)
  <2>1. RunsOK'
    BY <1>4, PhaseRunsOK DEF LedgerInv, SpecSent, Phases
  <2>2. jobState' \in JobStates
    BY <1>4, RefreshedType DEF LedgerInv, RowsOK, SpecSent
  <2>3. RowsOK'
    BY <1>1, <1>4, <2>2, RowMoves, StatesExist DEF SpecSent
  <2>. QED
    BY <1>2, <2>1, <2>3 DEF LedgerInv
<1>5. CASE SeesEncoding(r)
  <2>1. RunsOK'
    BY <1>5 DEF LedgerInv, SeesEncoding, RunsOK, BusyRunsHaveWork, RegisteredRunsAreBusy, mem
  <2>2. RowsOK'
    BY <1>1, <1>5, RowMoves, StatesExist DEF SeesEncoding, LedgerInv, RowsOK
  <2>. QED
    BY <1>2, <2>1, <2>2 DEF LedgerInv
<1>6. CASE SeesDone(r)
  <2>1. RunsOK'
    BY <1>6, PhaseRunsOK DEF LedgerInv, SeesDone, Phases
  <2>2. jobState' \in JobStates
    BY <1>6, RefreshedType DEF LedgerInv, RowsOK, SeesDone
  <2>3. RowsOK'
    BY <1>1, <1>6, <2>2, RowMoves, StatesExist DEF SeesDone
  <2>. QED
    BY <1>2, <2>1, <2>3 DEF LedgerInv
<1>7. CASE SeesFailure(r)
  <2>1. RunsOK'
    BY <1>7, PhaseRunsOK DEF LedgerInv, SeesFailure, Phases
  <2>. QED
    BY <1>2, <1>7, <2>1 DEF LedgerInv, SeesFailure, RowsOK, rows
<1>8. CASE GivesUp(r)
  <2>1. RunsOK'
    BY <1>8, GaveUpRunsOK DEF LedgerInv, GivesUp
  <2>. QED
    BY <1>2, <1>8, <2>1 DEF LedgerInv, GivesUp, RowsOK, rows
<1>9. ASSUME NEW f \in Frame, FrameLands(r, f)
      PROVE  LedgerInv'
  <2>1. RunsOK'
    BY <1>9 DEF LedgerInv, FrameLands, RunsOK, BusyRunsHaveWork, RegisteredRunsAreBusy, mem
  <2>2. downloaded' \subseteq Frame /\ downloaded \subseteq downloaded'
    BY <1>9 DEF LedgerInv, RowsOK, FrameLands
  <2>3. RowsOK'
    BY <1>9, <2>2, SoundMono DEF LedgerInv, RowsOK, FrameLands, Sound
  <2>. QED
    BY <1>2, <2>1, <2>3 DEF LedgerInv
<1>. QED
  BY <1>3, <1>4, <1>5, <1>6, <1>7, <1>8, <1>9

\* A stopped run's return keeps the invariant, late marks included.
LEMMA StoppedReturnsKeeps ==
    ASSUME LedgerInv, NEW r \in Run, NEW F \in SUBSET Frame, StoppedReturns(r, F)
    PROVE  LedgerInv'
<1>1. RunsOK'
  BY ReturnsRunsOK DEF LedgerInv, StoppedReturns
<1>2. downloaded' \subseteq Frame /\ downloaded \subseteq downloaded'
  BY DEF LedgerInv, RowsOK, StoppedReturns
<1>3. RowsOK'
  BY <1>2, SoundMono DEF LedgerInv, RowsOK, StoppedReturns, Sound
<1>. QED
  BY <1>1, <1>3 DEF LedgerInv, RestOK, StoppedReturns

\* forgetNode keeps the invariant.
LEMMA NodeGoneKeeps ==
    ASSUME LedgerInv, NEW n \in Node, NodeGone(n)
    PROVE  LedgerInv'
<1>. DEFINE orphans == { run[r].chunk : r \in byNode[n] }
<1>1. byNode[n] \in SUBSET Run
  BY DEF LedgerInv, RunsOK
<1>2. RunsOK'
  BY <1>1, AbortedRunsOK DEF LedgerInv, NodeGone
<1>3. orphans \in SUBSET Frame
  BY <1>1 DEF LedgerInv, RunsOK, BusyRunsHaveWork, RegisteredRunsAreBusy
<1>4. Sound(chunk, downloaded)
  BY DEF LedgerInv, RowsOK
<1>5. Sound(chunk', downloaded)
  <2>1. CASE orphans = {} \/ jobState = "cancelled"
    BY <1>4, <2>1 DEF NodeGone
  <2>2. CASE ~(orphans = {} \/ jobState = "cancelled") /\ jobState = "failed"
    <3>1. chunk' = [c \in Frame |-> IF c \in orphans /\ chunk[c].state # "complete"
                                     THEN [chunk[c] EXCEPT !.state = "failed"]
                                     ELSE chunk[c]]
      BY <2>2 DEF NodeGone
    <3>2. \A c \in Frame : [chunk[c] EXCEPT !.state = "failed"] \in Chunk
                            /\ [chunk[c] EXCEPT !.state = "failed"].state = "failed"
      BY <1>4, RowSet, StatesExist DEF Sound
    <3>3. /\ chunk' \in [Frame -> Chunk]
          /\ \A c \in Frame : chunk'[c] = chunk[c] \/ chunk'[c].state = "failed"
      BY <1>4, <3>1, <3>2 DEF Sound
    <3>. QED
      BY <1>4, <3>3, StoppedRowsSound DEF Stopped
  <2>3. CASE ~(orphans = {} \/ jobState = "cancelled") /\ jobState # "failed"
    <3>1. chunk' = Resplit(orphans, "infra", downloaded)
      BY <2>3 DEF NodeGone
    <3>. QED
      BY <1>3, <1>4, <3>1, ResplitSound
  <2>. QED
    BY <2>1, <2>2, <2>3
<1>6. jobState' \in JobStates
  BY RefreshedType DEF NodeGone, LedgerInv, RowsOK
<1>7. RowsOK' /\ RestOK'
  BY <1>5, <1>6 DEF NodeGone, LedgerInv, RowsOK, RestOK, Sound
<1>. QED
  BY <1>2, <1>7 DEF LedgerInv

\* cancelJob keeps the invariant.
LEMMA CancelKeeps ==
    ASSUME LedgerInv, Cancel
    PROVE  LedgerInv'
<1>1. { owner[c] : c \in Frame } \ {None} \in SUBSET Run
  BY DEF LedgerInv, RunsOK
<1>2. RunsOK'
  BY <1>1, AbortedRunsOK DEF LedgerInv, Cancel
<1>3. Sound(chunk, downloaded)
  BY DEF LedgerInv, RowsOK
<1>4. \A c \in Frame : [chunk[c] EXCEPT !.state = "cancelled"] \in Chunk
                        /\ [chunk[c] EXCEPT !.state = "cancelled"].state = "cancelled"
  BY <1>3, RowSet, StatesExist DEF Sound
<1>5. /\ chunk' \in [Frame -> Chunk]
      /\ \A c \in Frame : chunk'[c] = chunk[c] \/ chunk'[c].state = "cancelled"
  BY <1>3, <1>4 DEF Cancel, Sound
<1>6. Sound(chunk', downloaded)
  BY <1>3, <1>5, StoppedRowsSound DEF Stopped
<1>7. RowsOK' /\ RestOK'
  BY <1>6, NoStrikesType DEF Cancel, LedgerInv, RowsOK, RestOK, JobStates, Sound
<1>. QED
  BY <1>2, <1>7 DEF LedgerInv

\* job:retryMissing keeps the invariant.
LEMMA RetryMissingKeeps ==
    ASSUME LedgerInv, RetryMissing
    PROVE  LedgerInv'
<1>. DEFINE stopped == { c \in Frame : chunk[c].state \in Stopped }
<1>1. chunk' = Revived(stopped)
  BY DEF RetryMissing
<1>2. Sound(chunk', downloaded)
  BY <1>1, RevivedSound DEF LedgerInv, RowsOK
<1>3. jobState' \in JobStates
  <2>1. "queued" \in JobStates /\ jobState \in JobStates
    BY DEF JobStates, LedgerInv, RowsOK
  <2>. QED
    BY <2>1, RefreshedType DEF RetryMissing
<1>4. hold' \in Holds /\ breaker' \in Breaker
  BY NoStrikesType DEF RetryMissing, LedgerInv, RowsOK, RestOK, Holds
<1>5. UNCHANGED <<downloaded, run, owner, byNode, usable, app>>
  BY DEF RetryMissing
<1>6. RunsOK'
  BY <1>5 DEF LedgerInv, RunsOK, BusyRunsHaveWork, RegisteredRunsAreBusy
<1>. QED
  BY <1>2, <1>3, <1>4, <1>5, <1>6 DEF LedgerInv, RowsOK, RestOK, Sound

\* A process that ends inside a settling handler keeps the invariant.
LEMMA CrashSettlingKeeps ==
    ASSUME LedgerInv, NEW r \in Run, NEW verdict \in {"complete", "failed"},
           NEW F \in SUBSET Frame, CrashSettling(r, verdict, F)
    PROVE  LedgerInv'
<1>. DEFINE c   == run[r].chunk
            got == downloaded \cup F
<1>1. RunsOK'
  BY DiesRunsOK DEF LedgerInv, CrashSettling
<1>2. c \in Frame
  BY DEF LedgerInv, RunsOK, BusyRunsHaveWork, CrashSettling, Live
<1>3. got \in SUBSET Frame /\ downloaded \subseteq got
  BY DEF LedgerInv, RowsOK
<1>4. Sound(chunk, got)
  BY <1>3, SoundMono DEF LedgerInv, RowsOK
<1>5. verdict = "complete" => Covered(chunk[c]) \subseteq got
  BY DEF CrashSettling, Undownloaded
<1>6. Sound(chunk', got)
  <2>1. chunk' = [chunk EXCEPT ![c].state = verdict]
    BY DEF CrashSettling
  <2>2. verdict \in ChunkStates
    BY StatesExist
  <2>. QED
    BY <1>2, <1>4, <1>5, <2>1, <2>2, SoundSet
<1>7. RowsOK'
  BY <1>3, <1>6 DEF CrashSettling, LedgerInv, RowsOK, Sound
<1>8. RestOK'
  BY NoStrikesType DEF CrashSettling, Dies, RestOK
<1>. QED
  BY <1>1, <1>7, <1>8 DEF LedgerInv

\* recoverAtStart keeps the invariant.
LEMMA RestartKeeps ==
    ASSUME LedgerInv, Restart
    PROVE  LedgerInv'
<1>. DEFINE stranded == { c \in Frame : chunk[c].state \in InFlight }
            resent   == Resplit(stranded, "none", downloaded)
            js       == IF stranded = {} THEN jobState ELSE Refreshed(jobState, resent, downloaded)
<1>1. Sound(resent, downloaded)
  BY ResplitSound DEF LedgerInv, RowsOK
<1>2. /\ chunk' = [c \in Frame |->
                     IF /\ js \in {"queued", "running"}
                        /\ resent[c].state = "pending"
                        /\ Covered(resent[c]) \subseteq downloaded
                     THEN [resent[c] EXCEPT !.state = "complete"]
                     ELSE resent[c]]
      /\ jobState' = IF chunk' = resent THEN js ELSE Refreshed(js, chunk', downloaded)
      /\ app' = "up"
      /\ UNCHANGED <<downloaded, hold, run, owner, byNode, breaker, usable>>
  BY DEF Restart
<1>3. Sound(chunk', downloaded)
  <2>. HIDE DEF resent, js
  <2>1. ASSUME NEW c \in Frame
        PROVE  chunk'[c] \in Chunk /\ (chunk'[c].state = "complete" => Covered(chunk'[c]) \subseteq downloaded)
    <3>1. /\ resent[c] \in Chunk
          /\ resent[c].state = "complete" => Covered(resent[c]) \subseteq downloaded
      BY <1>1 DEF Sound
    <3>2. CASE chunk'[c] = resent[c]
      BY <3>1, <3>2
    <3>3. CASE /\ chunk'[c] = [resent[c] EXCEPT !.state = "complete"]
               /\ Covered(resent[c]) \subseteq downloaded
      BY <3>1, <3>3, RowSet, StatesExist
    <3>. QED
      BY <1>2, <3>2, <3>3
  <2>2. chunk' = [c \in Frame |-> chunk'[c]]
    BY <1>2
  <2>. QED
    BY <2>1, <2>2 DEF Sound
<1>4. jobState' \in JobStates
  <2>1. js \in JobStates
    BY RefreshedType DEF LedgerInv, RowsOK
  <2>. QED
    BY <1>2, <2>1, RefreshedType
<1>5. RowsOK'
  BY <1>2, <1>3, <1>4 DEF LedgerInv, RowsOK, Sound
<1>6. RunsOK'
  BY <1>2 DEF LedgerInv, RunsOK, BusyRunsHaveWork, RegisteredRunsAreBusy
<1>7. RestOK'
  BY <1>2 DEF LedgerInv, RestOK
<1>. QED
  BY <1>5, <1>6, <1>7 DEF LedgerInv

\* createJob establishes the invariant.
LEMMA LedgerInit ==
    ASSUME Init
    PROVE  LedgerInv
<1>1. chunk \in [Frame -> Chunk]
  <2>1. ASSUME NEW c \in Frame
        PROVE  chunk[c] \in Chunk
    <3>1. c \in 1 .. NumFrames /\ NumFrames \in Nat /\ ChunkSize \in Nat \ {0}
      BY LedgerConstants DEF Frame
    <3>2. 0 \in 0 .. MaxRetries /\ 0 \in 0 .. MaxInfraRetries
      BY LedgerConstants
    <3>3. 1 \in Frame /\ 0 \in 0 .. NumFrames /\ NumFrames \in 0 .. NumFrames
      BY <3>1 DEF Frame
    <3>4. Absent \in Chunk
      BY <3>2, <3>3, StatesExist DEF Absent, Chunk
    <3>5. c + ChunkSize - 1 <= NumFrames => c + ChunkSize - 1 \in 0 .. NumFrames
      BY <3>1
    <3>6. \A hi \in 0 .. NumFrames :
            [state |-> "pending", lo |-> c, hi |-> hi, retries |-> 0, infra |-> 0] \in Chunk
      BY <3>2, StatesExist DEF Chunk
    <3>. QED
      BY <3>3, <3>4, <3>5, <3>6 DEF Init
  <2>2. chunk = [c \in Frame |-> chunk[c]]
    BY DEF Init
  <2>. QED
    BY <2>1, <2>2
<1>2. \A c \in Frame : chunk[c].state # "complete"
  BY DEF Init, Absent
<1>3. RowsOK
  BY <1>1, <1>2 DEF RowsOK, Init, Sound, JobStates, Holds
<1>4. RunsOK
  BY FreeRunType DEF RunsOK, Init, BusyRunsHaveWork, RegisteredRunsAreBusy, FreeRun
<1>5. RestOK
  BY NoStrikesType DEF RestOK, Init
<1>. QED
  BY <1>3, <1>4, <1>5 DEF LedgerInv

\* Every step of the ledger keeps the invariant.
LEMMA LedgerStep ==
    ASSUME LedgerInv, [TornNext]_vars
    PROVE  LedgerInv'
<1>1. CASE UNCHANGED vars
  BY <1>1 DEF vars, LedgerInv, RowsOK, RunsOK, RestOK, Sound, BusyRunsHaveWork,
              RegisteredRunsAreBusy
<1>2. CASE TickSettles
  <2>1. Sound(chunk', downloaded) /\ jobState' \in JobStates
    BY <1>2, SettledSound, RefreshedType DEF TickSettles, LedgerInv, RowsOK
  <2>2. RowsOK'
    BY <1>2, <2>1 DEF TickSettles, LedgerInv, RowsOK, Sound
  <2>. QED
    BY <1>2, <2>2 DEF TickSettles, mem, LedgerInv, RunsOK, RestOK, BusyRunsHaveWork,
                      RegisteredRunsAreBusy
<1>3. CASE Sends
  BY <1>3, DispatchKeeps DEF Sends
<1>4. ASSUME NEW r \in Run, Proceed(r)
      PROVE  LedgerInv'
  <2>1. \A F \in Marks(r) : F \in SUBSET Frame
    BY MarksAreFrames DEF LedgerInv
  <2>2. CASE PrepDone(r) \/ SpecSent(r) \/ SeesDone(r) \/ SeesFailure(r) \/ GivesUp(r)
    BY <2>2, RunStepsKeep
  <2>3. CASE NothingLeft(r)
    BY <2>3, FinishCompleteKeeps DEF NothingLeft
  <2>4. ASSUME NEW failure \in Failures, DispatchFails(r, failure)
        PROVE  LedgerInv'
    BY <2>4, FinishFailedKeeps DEF DispatchFails
  <2>5. ASSUME NEW F \in Marks(r), DrainCompletes(r, F)
        PROVE  LedgerInv'
    BY <2>1, <2>5, FinishCompleteKeeps DEF DrainCompletes
  <2>6. ASSUME NEW F \in Marks(r), StoppedReturns(r, F)
        PROVE  LedgerInv'
    BY <2>1, <2>6, StoppedReturnsKeeps
  <2>7. ASSUME NEW F \in Marks(r), NEW failure \in Failures,
               PollFails(r, failure, F) \/ DrainFails(r, failure, F)
        PROVE  LedgerInv'
    BY <2>1, <2>7, FinishFailedKeeps DEF PollFails, DrainFails
  <2>. QED
    BY <1>4, <2>2, <2>3, <2>4, <2>5, <2>6, <2>7 DEF Proceed
<1>5. ASSUME NEW r \in Run, Lands(r) \/ SeesEncoding(r)
      PROVE  LedgerInv'
  BY <1>5, RunStepsKeep DEF Lands
<1>6. ASSUME NEW n \in Node, NodeGone(n)
      PROVE  LedgerInv'
  BY <1>6, NodeGoneKeeps
<1>7. ASSUME NEW n \in Node, NodeUsable(n)
      PROVE  LedgerInv'
  BY <1>7 DEF NodeUsable, rows, mem, LedgerInv, RowsOK, RunsOK, RestOK, Sound,
              BusyRunsHaveWork, RegisteredRunsAreBusy
<1>8. CASE Cancel
  BY <1>8, CancelKeeps
<1>9. CASE Resume
  <2>1. breaker' \in Breaker /\ hold' \in Holds
    BY <1>9, NoStrikesType DEF Resume, Holds, LedgerInv, RestOK
  <2>. QED
    BY <1>9, <2>1 DEF Resume, LedgerInv, RowsOK, RunsOK, RestOK, Sound, BusyRunsHaveWork,
                      RegisteredRunsAreBusy
<1>10. CASE RetryMissing
  BY <1>10, RetryMissingKeeps
<1>11. CASE Crash
  <2>1. RunsOK'
    BY <1>11, DiesRunsOK DEF Crash, LedgerInv
  <2>. QED
    BY <1>11, <2>1, NoStrikesType DEF Crash, Dies, rows, LedgerInv, RowsOK, RestOK, Sound
<1>12. CASE Restart
  BY <1>12, RestartKeeps
<1>13. ASSUME NEW r \in Run, NEW verdict \in {"complete", "failed"}, NEW F \in Marks(r),
              CrashSettling(r, verdict, F)
       PROVE  LedgerInv'
  <2>1. F \in SUBSET Frame
    BY MarksAreFrames DEF LedgerInv
  <2>. QED
    BY <1>13, <2>1, CrashSettlingKeeps
<1>. QED
  BY <1>1, <1>2, <1>3, <1>4, <1>5, <1>6, <1>7, <1>8, <1>9, <1>10, <1>11, <1>12, <1>13
  DEF TornNext, Next, Work

\* The inductive invariant holds in every state.
LEMMA LedgerInvariant == TornSpec => []LedgerInv
  BY LedgerInit, LedgerStep, PTL DEF TornSpec

-----------------------------------------------------------------------------
\* The rows, the runs and the registers keep their shape, whatever the fleet, the user and
\* the crashes do: a re-split puts chunks only on the job's frames and never charges past a
\* budget (scheduler.ts resplitAroundDownloaded), and a run that has not returned has a chunk.
THEOREM TypeCorrect == TornSpec => []TypeOK
  BY LedgerInvariant, LedgerInvImplies, PTL

\* No chunk of any job ever reads complete with a frame of its range missing from this
\* computer, with the process ending inside the handlers that settle chunks (scheduler.ts
\* finish, nothingLeft, settleDownloadedPending, resplitAroundDownloaded, recoverAtStart).
THEOREM CompleteDelivered == TornSpec => []CompleteIsDelivered
  BY LedgerInvariant, LedgerInvImplies, PTL
=============================================================================
