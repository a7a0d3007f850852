------------------------ MODULE ChunkLedgerRuns_proofs ------------------------
(***************************************************************************)
(* Which run drives which chunk, and what a job's state says of its        *)
(* chunks: theorems about ChunkLedger for any number of frames, nodes and  *)
(* runs, any budgets and any kinds of failure.                             *)
(***************************************************************************)
EXTENDS ChunkLedgerFrames_proofs

\* A live run is the one registered for its chunk, and renders the range the row has.
OwnersLive ==
    \A r \in Run : Live(r) =>
        /\ owner[run[r].chunk] = r
        /\ r \in byNode[run[r].node]
        /\ chunk[run[r].chunk].state \in InFlight
        /\ run[r].lo = chunk[run[r].chunk].lo
        /\ run[r].hi = chunk[run[r].chunk].hi

\* While the process is up, a chunk in flight has a live run.
InFlightDriven ==
    app = "up" => \A c \in Frame : chunk[c].state \in InFlight =>
                      \E r \in Run : Live(r) /\ run[r].chunk = c

\* A run registered under a node is live, and on that node.
RegisteredLive == \A n \in Node : \A r \in byNode[n] : Live(r) /\ run[r].node = n

\* A process that is down has no runs.
DownIdle == app = "down" => \A r \in Run : ~Live(r)

\* A cancelled job has closed rows and no run.
Quiet ==
    jobState = "cancelled" =>
        /\ \A c \in Frame : chunk[c].state \in Closed
        /\ \A r \in Run : ~Live(r)

\* The inductive invariant, on top of LedgerInv and FramesInv.
RunsInv == OwnersLive /\ InFlightDriven /\ RegisteredLive /\ DownIdle /\ Quiet

\* The invariants of the ledger together.
AllInv == LedgerInv /\ FramesInv /\ RunsInv

-----------------------------------------------------------------------------
\* Facts about rows.

\* The kinds of state exclude each other.
LEMMA StatesDiffer ==
    /\ "pending" \notin InFlight /\ "complete" \notin InFlight /\ "failed" \notin InFlight
    /\ "absent" \notin InFlight /\ "cancelled" \notin InFlight
    /\ "assigned" \in InFlight /\ "rendering" \in InFlight
    /\ "encoding" \in InFlight /\ "downloading" \in InFlight
    /\ \A s \in Closed : s \notin InFlight
    /\ "complete" \in Closed /\ "failed" \in Closed /\ "cancelled" \in Closed /\ "absent" \in Closed
    /\ "pending" \notin Closed
  BY DEF InFlight, Closed, Stopped

\* refreshJobState neither cancels a job nor takes a cancel back, nor a failure.
LEMMA RefreshedStops ==
    ASSUME NEW js \in JobStates, NEW ch, NEW got
    PROVE  /\ Refreshed(js, ch, got) = "cancelled" <=> js = "cancelled"
           /\ Refreshed(js, ch, got) = "failed" <=> js = "failed"
  BY DEF Refreshed

\* A chunk that resplitAroundDownloaded settles is complete, queued again or failed, and failed
\* only with the budget spent.
LEMMA ResplitSettles ==
    ASSUME chunk \in [Frame -> Chunk], Divided(chunk, downloaded),
           NEW got, downloaded \subseteq got, NEW budget,
           NEW S \in SUBSET Frame, NEW c \in S
    PROVE  /\ Resplit(S, budget, got)[c].state \in {"complete", "failed", "pending"}
           /\ Resplit(S, budget, got)[c].state = "complete" <=> Runs(c, got) = {}
           /\ Resplit(S, budget, got)[c].state = "failed" =>
                /\ Spent(c, budget)
                /\ Resplit(S, budget, got)[c].retries = chunk[c].retries
                /\ Resplit(S, budget, got)[c].infra = chunk[c].infra
<1>. DEFINE new == Resplit(S, budget, got)
<1>1. CASE Runs(c, got) = {}
  <2>1. new[c] = [chunk[c] EXCEPT !.state = "complete"]
    BY <1>1 DEF Resplit
  <2>2. new[c].state = "complete"
    BY <2>1, RowSet, StatesExist
  <2>. QED
    BY <1>1, <2>2
<1>2. CASE Runs(c, got) # {} /\ Spent(c, budget)
  <2>1. new[c] = [chunk[c] EXCEPT !.state = "failed"]
    BY <1>2 DEF Resplit
  <2>. HIDE DEF new
  <2>2. chunk[c] \in Chunk
    OBVIOUS
  <2>3. new[c].state = "failed" /\ new[c].retries = chunk[c].retries /\ new[c].infra = chunk[c].infra
    BY <2>1, <2>2 DEF Chunk
  <2>. QED
    BY <1>2, <2>3 DEF new
<1>3. CASE Runs(c, got) # {} /\ ~Spent(c, budget)
  <2>1. new[c] = On(FirstRun(Runs(c, got)), Charged(c, budget))
    BY <1>3 DEF Resplit
  <2>2. FirstRun(Runs(c, got)) \in Runs(c, got)
    BY <1>3, RunsOfChunk
  <2>3. new[c].state = "pending"
    BY <1>3, <2>1, <2>2, ChargedType, OnRun
  <2>. QED
    BY <1>3, <2>3
<1>. QED
  BY <1>1, <1>2, <1>3

\* Every other row it leaves, but for the new ones it queues.
LEMMA ResplitLeaves ==
    ASSUME chunk \in [Frame -> Chunk], Divided(chunk, downloaded),
           NEW got, downloaded \subseteq got, NEW budget,
           NEW S \in SUBSET Frame, \A c \in S : Exists(chunk, c),
           NEW d \in Frame \ S
    PROVE  \/ Resplit(S, budget, got)[d] = chunk[d]
           \/ chunk[d].state = "absent" /\ Resplit(S, budget, got)[d].state = "pending"
<1>. DEFINE new == Resplit(S, budget, got)
<1>. DEFINE parent == { c \in S : ~Spent(c, budget) /\ d \in NewStarts(c, got) }
            c      == CHOOSE c \in parent : TRUE
            rg     == CHOOSE rg \in Runs(c, got) : rg.lo = d
<1>1. CASE parent = {}
  BY <1>1 DEF Resplit
<1>2. CASE parent # {}
  <2>1. c \in parent
    BY <1>2
  <2>2. new[d] = On(rg, Charged(c, budget))
    BY <1>2 DEF Resplit
  <2>. HIDE DEF new
  <2>3. c \in S /\ ~Spent(c, budget) /\ d \in NewStarts(c, got)
    BY <2>1
  <2>. HIDE DEF c, parent
  <2>4. rg \in Runs(c, got)
    BY <2>3, NewStartHasRun
  <2>. HIDE DEF rg
  <2>5. new[d].state = "pending"
    BY <2>2, <2>3, <2>4, ChargedType, OnRun
  <2>6. chunk[d].state = "absent"
    BY <2>3, DividedMono, NewNamesFree DEF Exists
  <2>. QED
    BY <2>5, <2>6 DEF new
<1>. QED
  BY <1>1, <1>2

\* A chunk that reviveFailedChunks takes is complete or queued again.
LEMMA RevivedSettles ==
    ASSUME chunk \in [Frame -> Chunk], NEW S \in SUBSET Frame, NEW c \in S
    PROVE  /\ Revived(S)[c].state \in {"complete", "pending"}
           /\ Revived(S)[c].state = "complete" <=> Runs(c, downloaded) = {}
<1>. DEFINE new == Revived(S)
<1>0. Fresh(chunk[c]) \in Chunk /\ Fresh(chunk[c]).state = "pending"
  BY FreshRow
<1>1. CASE Runs(c, downloaded) = {}
  <2>1. new[c] = [chunk[c] EXCEPT !.state = "complete"]
    BY <1>1 DEF Revived
  <2>2. new[c].state = "complete"
    BY <2>1, RowSet, StatesExist
  <2>. QED
    BY <1>1, <2>2
<1>2. CASE Runs(c, downloaded) # {}
  <2>1. new[c] = On(FirstRun(Runs(c, downloaded)), Fresh(chunk[c]))
    BY <1>2 DEF Revived
  <2>2. FirstRun(Runs(c, downloaded)) \in Runs(c, downloaded)
    BY <1>2, RunsOfChunk
  <2>3. new[c].state = "pending"
    BY <1>0, <2>1, <2>2, OnRun
  <2>. QED
    BY <1>2, <2>3
<1>. QED
  BY <1>1, <1>2

\* Every other row it leaves, but for the new ones it queues.
LEMMA RevivedLeaves ==
    ASSUME chunk \in [Frame -> Chunk], Divided(chunk, downloaded),
           NEW S \in SUBSET Frame, \A c \in S : Exists(chunk, c), NEW d \in Frame \ S
    PROVE  \/ Revived(S)[d] = chunk[d]
           \/ /\ chunk[d].state = "absent" /\ Revived(S)[d].state = "pending"
              /\ \E c \in S : Runs(c, downloaded) # {}
<1>. DEFINE new == Revived(S)
<1>0. \A c \in Frame : Fresh(chunk[c]) \in Chunk /\ Fresh(chunk[c]).state = "pending"
  BY FreshRow
<1>. DEFINE parent == { c \in S : d \in NewStarts(c, downloaded) }
            c      == CHOOSE c \in parent : TRUE
            rg     == CHOOSE rg \in Runs(c, downloaded) : rg.lo = d
<1>1. CASE parent = {}
  BY <1>1 DEF Revived
<1>2. CASE parent # {}
  <2>1. c \in parent
    BY <1>2
  <2>2. new[d] = On(rg, Fresh(chunk[c]))
    BY <1>2 DEF Revived
  <2>. HIDE DEF new
  <2>3. c \in S /\ d \in NewStarts(c, downloaded)
    BY <2>1
  <2>. HIDE DEF c, parent
  <2>4. rg \in Runs(c, downloaded)
    BY <2>3, NewStartHasRun
  <2>. HIDE DEF rg
  <2>5. new[d].state = "pending"
    BY <1>0, <2>2, <2>3, <2>4, OnRun
  <2>6. chunk[d].state = "absent"
    BY <2>3, NewNamesFree DEF Exists
  <2>. QED
    BY <2>3, <2>4, <2>5, <2>6 DEF new
<1>. QED
  BY <1>1, <1>2

-----------------------------------------------------------------------------
\* The runs, by what a step does to them.

\* A step that leaves the runs and their registers, and the chunks in flight.
LEMMA RunsStay ==
    ASSUME LedgerInv, RunsInv, UNCHANGED <<owner, byNode, app>>,
           \A s \in Run : /\ run'[s].chunk = run[s].chunk /\ run'[s].node = run[s].node
                          /\ run'[s].lo = run[s].lo /\ run'[s].hi = run[s].hi
                          /\ run'[s].stopped = run[s].stopped
                          /\ run'[s].phase # "free" <=> run[s].phase # "free",
           \A d \in Frame : chunk[d].state \in InFlight \/ chunk'[d].state \in InFlight =>
                /\ chunk[d].state \in InFlight /\ chunk'[d].state \in InFlight
                /\ chunk'[d].lo = chunk[d].lo /\ chunk'[d].hi = chunk[d].hi,
           jobState' = "cancelled" =>
                jobState = "cancelled" /\ \A c \in Frame : chunk'[c].state \in Closed
    PROVE  RunsInv'
<1>1. \A s \in Run : Live(s)' <=> Live(s)
  BY DEF Live
<1>2. \A s \in Run : Live(s) => run[s].chunk \in Frame
  BY DEF Live, LedgerInv, RunsOK, BusyRunsHaveWork
<1>3. OwnersLive'
  BY <1>1, <1>2 DEF RunsInv, OwnersLive
<1>4. InFlightDriven'
  BY <1>1 DEF RunsInv, InFlightDriven
<1>5. RegisteredLive'
  BY <1>1 DEF RunsInv, RegisteredLive, LedgerInv, RunsOK
<1>6. DownIdle' /\ Quiet'
  BY <1>1 DEF RunsInv, DownIdle, Quiet
<1>. QED
  BY <1>3, <1>4, <1>5, <1>6 DEF RunsInv

\* A run that returns: its chunk, if the run still owned it, is in flight no more.
LEMMA RunReturns ==
    ASSUME LedgerInv, RunsInv, NEW r \in Run, Returns(r), Dropped(r), app' = app,
           \A d \in Frame : \/ chunk'[d] = chunk[d]
                            \/ chunk[d].state \notin InFlight /\ chunk'[d].state \notin InFlight
                            \/ d = run[r].chunk /\ Live(r),
           Live(r) => chunk'[run[r].chunk].state \notin InFlight,
           jobState' = "cancelled" =>
                jobState = "cancelled" /\ \A c \in Frame : chunk'[c].state \in Closed
    PROVE  RunsInv'
<1>1. run \in [Run -> RunRecord] /\ run' = [run EXCEPT ![r] = FreeRun]
  BY DEF LedgerInv, RunsOK, Returns
<1>2. \A s \in Run : Live(s)' <=> s # r /\ Live(s)
  BY <1>1 DEF Live, FreeRun
<1>3. \A s \in Run : s # r => run'[s] = run[s]
  BY <1>1
<1>4. \A s \in Run : Live(s) => run[s].chunk \in Frame /\ run[s].node \in Node
  BY DEF Live, LedgerInv, RunsOK, BusyRunsHaveWork
<1>5. ASSUME NEW s \in Run, s # r, Live(s)
      PROVE  chunk'[run[s].chunk] = chunk[run[s].chunk]
  BY <1>4, <1>5 DEF RunsInv, OwnersLive
<1>6. OwnersLive'
  <2>. SUFFICES ASSUME NEW s \in Run, Live(s)'
                PROVE  /\ owner'[run[s].chunk] = s /\ s \in byNode'[run[s].node]
                       /\ chunk'[run[s].chunk].state \in InFlight
                       /\ run[s].lo = chunk'[run[s].chunk].lo
                       /\ run[s].hi = chunk'[run[s].chunk].hi
    BY <1>2, <1>3 DEF OwnersLive
  <2>1. s # r /\ Live(s)
    BY <1>2
  <2>2. owner'[run[s].chunk] = s /\ s \in byNode'[run[s].node]
    BY <1>4, <2>1 DEF Dropped, RunsInv, OwnersLive
  <2>. QED
    BY <1>5, <2>1, <2>2 DEF RunsInv, OwnersLive
<1>7. InFlightDriven'
  <2>. SUFFICES ASSUME app = "up", NEW d \in Frame, chunk'[d].state \in InFlight
                PROVE  \E s \in Run : s # r /\ Live(s) /\ run[s].chunk = d
    BY <1>2, <1>3 DEF InFlightDriven
  <2>1. ~(d = run[r].chunk /\ Live(r))
    OBVIOUS
  <2>2. chunk[d].state \in InFlight
    BY <2>1
  <2>. QED
    BY <2>1, <2>2 DEF RunsInv, InFlightDriven
<1>8. RegisteredLive'
  BY <1>2, <1>3 DEF Dropped, RunsInv, RegisteredLive, LedgerInv, RunsOK
<1>9. DownIdle' /\ Quiet'
  BY <1>2 DEF RunsInv, DownIdle, Quiet
<1>. QED
  BY <1>6, <1>7, <1>8, <1>9 DEF RunsInv

\* abort() on a set of runs: the chunks of those that were live are in flight no more.
LEMMA RunsAborted ==
    ASSUME LedgerInv, RunsInv, NEW R \in SUBSET Run, Aborted(R), app' = app,
           \A d \in Frame : chunk[d].state \in InFlight \/ chunk'[d].state \in InFlight =>
                \/ chunk'[d] = chunk[d] /\ ~\E s \in R : Live(s) /\ run[s].chunk = d
                \/ chunk'[d].state \notin InFlight /\ \E s \in R : Live(s) /\ run[s].chunk = d,
           jobState' = "cancelled" =>
                /\ \A c \in Frame : chunk'[c].state \in Closed
                /\ \A s \in Run : Live(s) => s \in R
    PROVE  RunsInv'
<1>1. run \in [Run -> RunRecord]
  BY DEF LedgerInv, RunsOK
<1>2. \A s \in Run : /\ run'[s].chunk = run[s].chunk /\ run'[s].node = run[s].node
                     /\ run'[s].lo = run[s].lo /\ run'[s].hi = run[s].hi
                     /\ run'[s].phase = run[s].phase
                     /\ run'[s].stopped <=> s \in R \/ run[s].stopped
  <2>. SUFFICES ASSUME NEW s \in Run
                PROVE  /\ run'[s].chunk = run[s].chunk /\ run'[s].node = run[s].node
                       /\ run'[s].lo = run[s].lo /\ run'[s].hi = run[s].hi
                       /\ run'[s].phase = run[s].phase
                       /\ run'[s].stopped <=> s \in R \/ run[s].stopped
    OBVIOUS
  <2>1. run[s] \in RunRecord
    BY <1>1
  <2>2. run'[s] = IF s \in R THEN [run[s] EXCEPT !.stopped = TRUE] ELSE run[s]
    BY DEF Aborted
  <2>. QED
    BY <2>1, <2>2 DEF RunRecord
<1>3. \A s \in Run : Live(s)' <=> s \notin R /\ Live(s)
  BY <1>2 DEF Live
<1>4. \A s \in Run : Live(s) => run[s].chunk \in Frame /\ run[s].node \in Node
  BY DEF Live, LedgerInv, RunsOK, BusyRunsHaveWork
<1>5. ASSUME NEW s \in Run, s \notin R, Live(s)
      PROVE  chunk'[run[s].chunk] = chunk[run[s].chunk]
  <2>1. chunk[run[s].chunk].state \in InFlight /\ owner[run[s].chunk] = s
    BY <1>5 DEF RunsInv, OwnersLive
  <2>2. ASSUME NEW q \in R, Live(q), run[q].chunk = run[s].chunk
        PROVE  FALSE
    BY <1>5, <2>1, <2>2 DEF RunsInv, OwnersLive
  <2>. QED
    BY <1>4, <1>5, <2>1, <2>2
<1>6. OwnersLive'
  <2>. SUFFICES ASSUME NEW s \in Run, Live(s)'
                PROVE  /\ owner'[run[s].chunk] = s /\ s \in byNode'[run[s].node]
                       /\ chunk'[run[s].chunk].state \in InFlight
                       /\ run[s].lo = chunk'[run[s].chunk].lo
                       /\ run[s].hi = chunk'[run[s].chunk].hi
    BY <1>2 DEF OwnersLive
  <2>1. s \notin R /\ Live(s)
    BY <1>3
  <2>2. owner'[run[s].chunk] = s /\ s \in byNode'[run[s].node]
    BY <1>4, <2>1 DEF Aborted, RunsInv, OwnersLive
  <2>. QED
    BY <1>5, <2>1, <2>2 DEF RunsInv, OwnersLive
<1>7. InFlightDriven'
  <2>. SUFFICES ASSUME app = "up", NEW d \in Frame, chunk'[d].state \in InFlight
                PROVE  \E s \in Run : s \notin R /\ Live(s) /\ run[s].chunk = d
    BY <1>2, <1>3 DEF InFlightDriven
  <2>1. chunk[d].state \in InFlight /\ ~\E s \in R : Live(s) /\ run[s].chunk = d
    OBVIOUS
  <2>. QED
    BY <2>1 DEF RunsInv, InFlightDriven
<1>8. RegisteredLive'
  BY <1>2, <1>3 DEF Aborted, RunsInv, RegisteredLive, LedgerInv, RunsOK
<1>9. DownIdle' /\ Quiet'
  BY <1>3 DEF RunsInv, DownIdle, Quiet
<1>. QED
  BY <1>6, <1>7, <1>8, <1>9 DEF RunsInv

\* The end of the process leaves no run.
LEMMA RunsDie ==
    ASSUME LedgerInv, RunsInv, Dies,
           jobState' = "cancelled" =>
                jobState = "cancelled" /\ \A c \in Frame : chunk'[c].state \in Closed
    PROVE  RunsInv'
<1>1. \A s \in Run : ~Live(s)'
  BY DEF Dies, Live, FreeRun
<1>2. RegisteredLive' /\ app' = "down"
  BY DEF Dies, RegisteredLive
<1>. QED
  BY <1>1, <1>2 DEF RunsInv, OwnersLive, InFlightDriven, DownIdle, Quiet

-----------------------------------------------------------------------------
\* The steps.

\* The chunk of a live run is in flight, and its job is not cancelled.
LEMMA LiveChunk ==
    ASSUME LedgerInv, FramesInv, RunsInv, NEW r \in Run, Live(r)
    PROVE  /\ run[r].chunk \in Frame /\ run[r].node \in Node
           /\ Exists(chunk, run[r].chunk)
           /\ chunk[run[r].chunk].state \in InFlight
           /\ jobState # "cancelled"
  BY BusyChunkExists DEF Live, LedgerInv, RunsOK, BusyRunsHaveWork, RunsInv, OwnersLive, Quiet

\* requeue leaves the failed attempt's chunk in flight no more, and no other's flight changed.
LEMMA RequeueRows ==
    ASSUME LedgerInv, FramesInv, NEW c \in Frame, Exists(chunk, c), NEW n, NEW failure,
           NEW got, downloaded \subseteq got, jobState # "cancelled", Requeue(c, n, failure, got)
    PROVE  /\ chunk'[c].state \notin InFlight
           /\ \A d \in Frame \ {c} :
                \/ chunk'[d] = chunk[d]
                \/ chunk[d].state \notin InFlight /\ chunk'[d].state \notin InFlight
           /\ jobState' # "cancelled"
<1>1. chunk \in [Frame -> Chunk] /\ Divided(chunk, downloaded) /\ jobState \in JobStates
  BY DEF LedgerInv, RowsOK, Sound, FramesInv
<1>2. \A d \in Frame : [chunk[d] EXCEPT !.state = "failed"].state = "failed"
  BY <1>1, RowSet, StatesExist
<1>3. CASE jobState = "failed"
  <2>1. chunk' = [chunk EXCEPT ![c].state = IF @ = "complete" THEN @ ELSE "failed"]
    BY <1>3 DEF Requeue
  <2>2. \A d \in Frame \ {c} : chunk'[d] = chunk[d]
    BY <2>1
  <2>3. chunk'[c].state \in {"complete", "failed"}
    <3>1. CASE chunk[c].state = "complete"
      <4>1. chunk' = [chunk EXCEPT ![c].state = "complete"]
        BY <2>1, <3>1
      <4>2. chunk'[c] = [chunk[c] EXCEPT !.state = "complete"]
        BY <1>1, <4>1
      <4>. QED
        BY <1>1, <4>2, RowSet, StatesExist
    <3>2. CASE chunk[c].state # "complete"
      <4>1. chunk' = [chunk EXCEPT ![c].state = "failed"]
        BY <2>1, <3>2
      <4>2. chunk'[c] = [chunk[c] EXCEPT !.state = "failed"]
        BY <1>1, <4>1
      <4>. QED
        BY <1>2, <4>2
    <3>. QED
      BY <3>1, <3>2
  <2>. QED
    BY <1>3, <2>2, <2>3, StatesDiffer DEF Requeue
<1>4. CASE jobState # "failed" /\ failure = "fatal"
  <2>1. chunk' = FailedWith(c) /\ jobState' = "failed"
    BY <1>4 DEF Requeue
  <2>2. ASSUME NEW d \in Frame
        PROVE  chunk'[d] = IF chunk[d].state = "pending" \/ (d = c /\ chunk[d].state # "complete")
                           THEN [chunk[d] EXCEPT !.state = "failed"] ELSE chunk[d]
    BY <2>1 DEF FailedWith
  <2>3. chunk'[c].state \in {"complete", "failed"}
    BY <1>2, <2>2
  <2>4. ASSUME NEW d \in Frame \ {c}
        PROVE  \/ chunk'[d] = chunk[d]
               \/ chunk[d].state = "pending" /\ chunk'[d].state = "failed"
    <3>1. CASE chunk[d].state = "pending"
      <4>1. chunk'[d] = [chunk[d] EXCEPT !.state = "failed"]
        BY <2>2, <3>1
      <4>. QED
        BY <1>2, <3>1, <4>1
    <3>2. CASE chunk[d].state # "pending"
      BY <2>2, <3>2
    <3>. QED
      BY <3>1, <3>2
  <2>. QED
    BY <2>1, <2>3, <2>4, StatesDiffer
<1>5. CASE jobState # "failed" /\ failure # "fatal"
  <2>1. chunk' = Resplit({c}, Budget(failure), got) /\ jobState' = Refreshed(jobState, chunk', got)
    BY <1>5 DEF Requeue
  <2>2. /\ chunk'[c].state \in {"complete", "failed", "pending"}
        /\ \A d \in Frame \ {c} : \/ chunk'[d] = chunk[d]
                                  \/ chunk[d].state = "absent" /\ chunk'[d].state = "pending"
    <3>. DEFINE S == {c}
                b == Budget(failure)
    <3>1. S \in SUBSET Frame /\ (\A e \in S : Exists(chunk, e)) /\ \A e : e \in S <=> e = c
      OBVIOUS
    <3>2. chunk' = Resplit(S, b, got)
      BY <2>1
    <3>. HIDE DEF S, b
    <3>3. Resplit(S, b, got)[c].state \in {"complete", "failed", "pending"}
      BY <1>1, <3>1, ResplitSettles
    <3>4. ASSUME NEW d \in Frame \ S
          PROVE  \/ Resplit(S, b, got)[d] = chunk[d]
                 \/ chunk[d].state = "absent" /\ Resplit(S, b, got)[d].state = "pending"
      BY <1>1, <3>1, ResplitLeaves
    <3>. QED
      BY <3>1, <3>2, <3>3, <3>4
  <2>3. jobState' # "cancelled"
    BY <1>1, <2>1, RefreshedStops
  <2>. QED
    BY <2>2, <2>3, StatesDiffer DEF Exists
<1>. QED
  BY <1>3, <1>4, <1>5

\* finish('failed') with the requeue after it.
LEMMA FinishFailedRuns ==
    ASSUME LedgerInv, FramesInv, RunsInv, NEW r \in Run, Live(r), NEW failure, NEW F,
           FinishFailed(r, failure, F)
    PROVE  RunsInv'
<1>. DEFINE c == run[r].chunk
<1>1. /\ c \in Frame /\ Exists(chunk, c)
      /\ jobState # "cancelled"
  BY LiveChunk
<1>2. /\ chunk'[c].state \notin InFlight
      /\ \A d \in Frame \ {c} : \/ chunk'[d] = chunk[d]
                                \/ chunk[d].state \notin InFlight /\ chunk'[d].state \notin InFlight
      /\ jobState' # "cancelled"
  BY <1>1, RequeueRows DEF FinishFailed
<1>3. Returns(r) /\ Dropped(r) /\ app' = app
  BY DEF FinishFailed
<1>. QED
  BY <1>2, <1>3, RunReturns

\* finish('complete'), and nothingLeft.
LEMMA FinishCompleteRuns ==
    ASSUME LedgerInv, FramesInv, RunsInv, NEW r \in Run, Live(r), NEW rendered, NEW F,
           FinishComplete(r, rendered, F)
    PROVE  RunsInv'
<1>. DEFINE c == run[r].chunk
<1>1. c \in Frame /\ jobState # "cancelled" /\ jobState \in JobStates
  BY LiveChunk DEF LedgerInv, RowsOK
<1>2. chunk \in [Frame -> Chunk]
  BY DEF LedgerInv, RowsOK, Sound
<1>3. chunk' = [chunk EXCEPT ![c].state = "complete"]
  BY <1>1 DEF FinishComplete
<1>4. chunk'[c].state = "complete" /\ \A d \in Frame : d # c => chunk'[d] = chunk[d]
  BY <1>1, <1>2, <1>3, RowSet, StatesExist
<1>5. jobState' # "cancelled"
  BY <1>1, RefreshedStops DEF FinishComplete
<1>6. Returns(r) /\ Dropped(r) /\ app' = app
  BY DEF FinishComplete
<1>. QED
  BY <1>4, <1>5, <1>6, RunReturns, StatesDiffer

\* A step of a live run that only moves its chunk from one state of flight to another.
LEMMA FlightMoves ==
    ASSUME LedgerInv, FramesInv, RunsInv, NEW r \in Run, Live(r), NEW p \in Phases \ {"free"},
           NEW s \in InFlight,
           run' = run \/ run' = [run EXCEPT ![r].phase = p],
           chunk' = [chunk EXCEPT ![run[r].chunk].state = s],
           jobState' = jobState \/ jobState' = Refreshed(jobState, chunk', downloaded),
           UNCHANGED <<owner, byNode, app>>
    PROVE  RunsInv'
<1>. DEFINE c == run[r].chunk
<1>1. c \in Frame /\ chunk[c].state \in InFlight /\ jobState # "cancelled"
      /\ jobState \in JobStates
  BY LiveChunk DEF LedgerInv, RowsOK
<1>2. chunk \in [Frame -> Chunk] /\ run \in [Run -> RunRecord]
  BY DEF LedgerInv, RowsOK, RunsOK, Sound
<1>3. jobState' # "cancelled"
  BY <1>1, RefreshedStops
<1>4. /\ \A d \in Frame : d # c => chunk'[d] = chunk[d]
      /\ chunk'[c] = [chunk[c] EXCEPT !.state = s]
  BY <1>1, <1>2
<1>5. chunk'[c].state = s /\ chunk'[c].lo = chunk[c].lo /\ chunk'[c].hi = chunk[c].hi
  BY <1>1, <1>2, <1>4, SetKeepsRange
<1>6. ASSUME NEW q \in Run
      PROVE  /\ run'[q].chunk = run[q].chunk /\ run'[q].node = run[q].node
             /\ run'[q].lo = run[q].lo /\ run'[q].hi = run[q].hi
             /\ run'[q].stopped = run[q].stopped
             /\ run'[q].phase # "free" <=> run[q].phase # "free"
  <2>1. run[q] \in RunRecord /\ run[r].phase # "free"
    BY <1>2 DEF Live
  <2>2. run'[q] = run[q] \/ (q = r /\ run'[q] = [run[q] EXCEPT !.phase = p])
    BY <1>2
  <2>. QED
    BY <2>1, <2>2 DEF RunRecord
<1>. QED
  BY <1>1, <1>3, <1>4, <1>5, <1>6, RunsStay

\* A step of a run that leaves the rows.
LEMMA RunMoves ==
    ASSUME LedgerInv, RunsInv, NEW r \in Run, run[r].phase # "free",
           \/ run' = run
           \/ \E p \in Phases \ {"free"} : run' = [run EXCEPT ![r].phase = p]
           \/ run' = [run EXCEPT ![r].gaveUp = TRUE],
           UNCHANGED <<chunk, jobState, owner, byNode, app>>
    PROVE  RunsInv'
<1>1. run \in [Run -> RunRecord]
  BY DEF LedgerInv, RunsOK
<1>2. ASSUME NEW q \in Run
      PROVE  /\ run'[q].chunk = run[q].chunk /\ run'[q].node = run[q].node
             /\ run'[q].lo = run[q].lo /\ run'[q].hi = run[q].hi
             /\ run'[q].stopped = run[q].stopped
             /\ run'[q].phase # "free" <=> run[q].phase # "free"
  <2>1. run[q] \in RunRecord
    BY <1>1
  <2>2. CASE run' = run
    BY <2>2
  <2>3. CASE \E p \in Phases \ {"free"} : run' = [run EXCEPT ![r].phase = p]
    BY <1>1, <2>1, <2>3 DEF RunRecord
  <2>4. CASE run' = [run EXCEPT ![r].gaveUp = TRUE]
    BY <1>1, <2>1, <2>4 DEF RunRecord
  <2>. QED
    BY <2>2, <2>3, <2>4
<1>3. jobState' = "cancelled" => jobState = "cancelled" /\ \A c \in Frame : chunk'[c].state \in Closed
  BY DEF RunsInv, Quiet
<1>. QED
  BY <1>2, <1>3, RunsStay

\* settleDownloadedPending takes pending chunks only.
LEMMA SettledFlight ==
    ASSUME chunk \in [Frame -> Chunk], NEW d \in Frame
    PROVE  \/ Settled[d] = chunk[d]
           \/ /\ chunk[d].state = "pending" /\ Settled[d].state = "complete"
              /\ jobState \in {"queued", "running"} /\ Covered(chunk[d]) \subseteq downloaded
<1>1. CASE Settled[d] = chunk[d]
  BY <1>1
<1>2. CASE Settled[d] # chunk[d]
  <2>1. /\ chunk[d].state = "pending" /\ jobState \in {"queued", "running"}
        /\ Undownloaded(d, downloaded) = {}
        /\ Settled[d] = [chunk[d] EXCEPT !.state = "complete"]
    BY <1>2 DEF Settled
  <2>2. Settled[d].state = "complete"
    BY <2>1, RowSet, StatesExist
  <2>. QED
    BY <2>1, <2>2 DEF Undownloaded
<1>. QED
  BY <1>1, <1>2

\* A tick that only settles.
LEMMA TickSettlesRuns ==
    ASSUME LedgerInv, RunsInv, TickSettles
    PROVE  RunsInv'
<1>1. chunk \in [Frame -> Chunk] /\ jobState \in JobStates
  BY DEF LedgerInv, RowsOK, Sound
<1>2. /\ chunk' = Settled /\ jobState' = Refreshed(jobState, chunk', downloaded)
      /\ UNCHANGED <<run, owner, byNode, app>>
  BY DEF TickSettles, mem
<1>3. \A d \in Frame : chunk'[d] = chunk[d]
                       \/ (chunk[d].state = "pending" /\ chunk'[d].state = "complete")
  BY <1>1, <1>2, SettledFlight
<1>4. jobState' = "cancelled" => jobState = "cancelled"
  BY <1>1, <1>2, RefreshedStops
<1>5. jobState' = "cancelled" => \A d \in Frame : chunk'[d].state \in Closed
  BY <1>3, <1>4, StatesDiffer DEF RunsInv, Quiet
<1>. QED
  BY <1>2, <1>3, <1>4, <1>5, RunsStay, StatesDiffer

\* A tick that sends a chunk out.
LEMMA DispatchRuns ==
    ASSUME LedgerInv, RunsInv, NEW c \in Frame, NEW n \in Node, NEW r \in Run, Dispatch(c, n, r)
    PROVE  RunsInv'
<1>. DEFINE js  == Refreshed(jobState, Settled, downloaded)
            new == [phase |-> "prep", chunk |-> c, node |-> n, lo |-> chunk[c].lo,
                    hi |-> chunk[c].hi, stopped |-> FALSE, gaveUp |-> FALSE]
<1>1. /\ chunk \in [Frame -> Chunk] /\ jobState \in JobStates
      /\ run \in [Run -> RunRecord] /\ owner \in [Frame -> Run \cup {None}]
      /\ byNode \in [Node -> SUBSET Run]
  BY DEF LedgerInv, RowsOK, RunsOK, Sound
<1>2. Settled \in [Frame -> Chunk]
  BY SettledSound DEF LedgerInv, RowsOK, Sound
<1>3. /\ app = "up" /\ app' = "up"
      /\ Settled[c].state = "pending" /\ js \in {"queued", "running"}
      /\ run[r] = FreeRun
      /\ chunk' = [Settled EXCEPT ![c].state = "assigned"]
      /\ jobState' = Refreshed(js, chunk', downloaded)
      /\ run' = [run EXCEPT ![r] = new]
      /\ owner' = [owner EXCEPT ![c] = r]
      /\ byNode' = [byNode EXCEPT ![n] = @ \cup {r}]
  BY DEF Dispatch
<1>4. jobState' # "cancelled"
  BY <1>3, RefreshedStops DEF JobStates
<1>5. chunk[c].state = "pending" /\ Settled[c] = chunk[c]
  BY <1>1, <1>3, SettledFlight
<1>6. chunk'[c].state = "assigned" /\ chunk'[c].lo = chunk[c].lo /\ chunk'[c].hi = chunk[c].hi
  <2>1. chunk'[c] = [Settled[c] EXCEPT !.state = "assigned"]
    BY <1>2, <1>3
  <2>. QED
    BY <1>1, <1>5, <2>1, SetKeepsRange
<1>7. ASSUME NEW d \in Frame, d # c
      PROVE  \/ chunk'[d] = chunk[d]
             \/ chunk[d].state \notin InFlight /\ chunk'[d].state \notin InFlight
  <2>1. chunk'[d] = Settled[d]
    BY <1>2, <1>3, <1>7
  <2>. QED
    BY <1>1, <2>1, SettledFlight, StatesDiffer
<1>8. ~Live(r) /\ Live(r)' /\ run'[r] = new
  BY <1>1, <1>3 DEF Live, FreeRun
<1>9. \A s \in Run : s # r => run'[s] = run[s] /\ (Live(s)' <=> Live(s))
  BY <1>1, <1>3 DEF Live
<1>10. ASSUME NEW s \in Run, s # r, Live(s)
       PROVE  /\ run[s].chunk \in Frame /\ run[s].node \in Node /\ run[s].chunk # c
              /\ chunk'[run[s].chunk] = chunk[run[s].chunk]
  <2>1. run[s].chunk \in Frame /\ run[s].node \in Node
    BY <1>10 DEF Live, LedgerInv, RunsOK, BusyRunsHaveWork
  <2>2. chunk[run[s].chunk].state \in InFlight
    BY <1>10 DEF RunsInv, OwnersLive
  <2>. QED
    BY <1>5, <1>7, <2>1, <2>2, StatesDiffer
<1>11. OwnersLive'
  <2>. SUFFICES ASSUME NEW s \in Run, Live(s)'
                PROVE  /\ owner'[run'[s].chunk] = s /\ s \in byNode'[run'[s].node]
                       /\ chunk'[run'[s].chunk].state \in InFlight
                       /\ run'[s].lo = chunk'[run'[s].chunk].lo
                       /\ run'[s].hi = chunk'[run'[s].chunk].hi
    BY DEF OwnersLive
  <2>1. CASE s = r
    BY <1>1, <1>3, <1>6, <1>8, <2>1, StatesDiffer
  <2>2. CASE s # r
    <3>1. Live(s) /\ run'[s] = run[s]
      BY <1>9, <2>2
    <3>2. owner'[run[s].chunk] = s /\ s \in byNode'[run[s].node]
      BY <1>1, <1>3, <1>10, <2>2, <3>1 DEF RunsInv, OwnersLive
    <3>. QED
      BY <1>10, <2>2, <3>1, <3>2 DEF RunsInv, OwnersLive
  <2>. QED
    BY <2>1, <2>2
<1>12. InFlightDriven'
  <2>. SUFFICES ASSUME NEW d \in Frame, chunk'[d].state \in InFlight
                PROVE  \E s \in Run : Live(s)' /\ run'[s].chunk = d
    BY DEF InFlightDriven
  <2>1. CASE d = c
    BY <1>8, <2>1
  <2>2. CASE d # c
    <3>1. chunk[d].state \in InFlight
      BY <1>7, <2>2
    <3>2. PICK s \in Run : Live(s) /\ run[s].chunk = d
      BY <1>3, <3>1 DEF RunsInv, InFlightDriven
    <3>. QED
      BY <1>8, <1>9, <3>2
  <2>. QED
    BY <2>1, <2>2
<1>13. RegisteredLive'
  <2>. SUFFICES ASSUME NEW m \in Node, NEW s \in byNode'[m]
                PROVE  Live(s)' /\ run'[s].node = m
    BY DEF RegisteredLive
  <2>1. (s = r /\ m = n) \/ s \in byNode[m]
    BY <1>1, <1>3
  <2>2. CASE s = r /\ m = n
    BY <1>8, <2>2
  <2>3. CASE s \in byNode[m]
    <3>1. Live(s) /\ run[s].node = m /\ s \in Run
      BY <1>1, <2>3 DEF RunsInv, RegisteredLive
    <3>. QED
      BY <1>8, <1>9, <3>1
  <2>. QED
    BY <2>1, <2>2, <2>3
<1>14. DownIdle' /\ Quiet'
  BY <1>3, <1>4 DEF DownIdle, Quiet
<1>. QED
  BY <1>11, <1>12, <1>13, <1>14 DEF RunsInv

\* forgetNode: every run registered under the node was live, and its chunk is settled.
LEMMA NodeGoneRuns ==
    ASSUME LedgerInv, FramesInv, RunsInv, NEW n \in Node, NodeGone(n)
    PROVE  RunsInv'
<1>. DEFINE orphans == { run[r].chunk : r \in byNode[n] }
            R       == byNode[n]
<1>1. /\ R \in SUBSET Run /\ chunk \in [Frame -> Chunk] /\ Divided(chunk, downloaded)
      /\ jobState \in JobStates
  BY DEF LedgerInv, RunsOK, RowsOK, Sound, FramesInv
<1>2. \A r \in R : Live(r)
  BY DEF RunsInv, RegisteredLive
<1>3. orphans \in SUBSET Frame /\ \A c \in orphans : Exists(chunk, c)
  BY <1>1, <1>2, LiveChunk
<1>4. \A d \in Frame : d \in orphans <=> \E r \in R : Live(r) /\ run[r].chunk = d
  BY <1>2
<1>5. Aborted(R) /\ app' = app
  BY DEF NodeGone
<1>6. jobState' = "cancelled" => jobState = "cancelled"
  <2>1. jobState' = jobState \/ jobState' = Refreshed(jobState, chunk', downloaded)
    BY DEF NodeGone
  <2>. QED
    BY <1>1, <2>1, RefreshedStops
<1>7. jobState = "cancelled" => chunk' = chunk
  BY DEF NodeGone
<1>8. ASSUME NEW d \in Frame, chunk[d].state \in InFlight \/ chunk'[d].state \in InFlight
      PROVE  \/ chunk'[d] = chunk[d] /\ d \notin orphans
             \/ chunk'[d].state \notin InFlight /\ d \in orphans
  <2>1. CASE orphans = {} \/ jobState = "cancelled"
    <3>1. chunk' = chunk
      BY <2>1 DEF NodeGone
    <3>2. orphans = {}
      BY <1>1, <1>2, <2>1 DEF RunsInv, Quiet
    <3>. QED
      BY <3>1, <3>2
  <2>2. CASE ~(orphans = {} \/ jobState = "cancelled") /\ jobState = "failed"
    <3>1. chunk' = [c \in Frame |-> IF c \in orphans /\ chunk[c].state # "complete"
                                     THEN [chunk[c] EXCEPT !.state = "failed"]
                                     ELSE chunk[c]]
      BY <2>2 DEF NodeGone
    <3>2. [chunk[d] EXCEPT !.state = "failed"].state = "failed"
      BY <1>1, RowSet, StatesExist
    <3>. HIDE DEF orphans
    <3>3. CASE d \in orphans /\ chunk[d].state # "complete"
      <4>1. chunk'[d] = [chunk[d] EXCEPT !.state = "failed"]
        BY <3>1, <3>3
      <4>. QED
        BY <3>2, <3>3, <4>1, StatesDiffer
    <3>4. CASE ~(d \in orphans /\ chunk[d].state # "complete")
      <4>1. chunk'[d] = chunk[d]
        BY <3>1, <3>4
      <4>. QED
        BY <3>4, <4>1, StatesDiffer
    <3>. QED
      BY <3>3, <3>4
  <2>3. CASE ~(orphans = {} \/ jobState = "cancelled") /\ jobState # "failed"
    <3>1. chunk' = Resplit(orphans, "infra", downloaded)
      BY <2>3 DEF NodeGone
    <3>. HIDE DEF orphans
    <3>2. CASE d \in orphans
      <4>1. Resplit(orphans, "infra", downloaded)[d].state \in {"complete", "failed", "pending"}
        BY <1>1, <1>3, <3>2, ResplitSettles
      <4>. QED
        BY <3>1, <3>2, <4>1, StatesDiffer
    <3>3. CASE d \notin orphans
      BY <1>1, <1>3, <1>8, <3>1, <3>3, ResplitLeaves, StatesDiffer
    <3>. QED
      BY <3>2, <3>3
  <2>. QED
    BY <2>1, <2>2, <2>3
<1>9. jobState' = "cancelled" =>
         /\ \A c \in Frame : chunk'[c].state \in Closed
         /\ \A s \in Run : Live(s) => s \in R
  BY <1>6, <1>7 DEF RunsInv, Quiet
<1>. QED
  BY <1>1, <1>4, <1>5, <1>8, <1>9, RunsAborted

\* cancelJob: every live run is registered under its chunk, so all are aborted.
LEMMA CancelRuns ==
    ASSUME LedgerInv, RunsInv, Cancel
    PROVE  RunsInv'
<1>. DEFINE R == { owner[c] : c \in Frame } \ {None}
<1>1. R \in SUBSET Run /\ chunk \in [Frame -> Chunk]
  BY DEF LedgerInv, RunsOK, RowsOK, Sound
<1>2. ASSUME NEW s \in Run, Live(s)
      PROVE  s \in R /\ run[s].chunk \in Frame
  <2>1. run[s].chunk \in Frame /\ owner[run[s].chunk] = s
    BY <1>2 DEF Live, LedgerInv, RunsOK, BusyRunsHaveWork, RunsInv, OwnersLive
  <2>2. s # None
    BY LedgerConstants
  <2>. QED
    BY <2>1, <2>2
<1>3. Aborted(R) /\ app' = app /\ app = "up"
  BY DEF Cancel
<1>4. ASSUME NEW d \in Frame
      PROVE  /\ chunk'[d].state \in Closed
             /\ chunk[d].state \notin Closed => chunk'[d].state = "cancelled"
             /\ chunk[d].state \in Closed => chunk'[d] = chunk[d]
  <2>1. chunk'[d] = IF chunk[d].state \in Closed THEN chunk[d]
                    ELSE [chunk[d] EXCEPT !.state = "cancelled"]
    BY DEF Cancel
  <2>2. [chunk[d] EXCEPT !.state = "cancelled"].state = "cancelled"
    BY <1>1, RowSet, StatesExist
  <2>. QED
    BY <2>1, <2>2, StatesDiffer
<1>5. ASSUME NEW d \in Frame, chunk[d].state \in InFlight \/ chunk'[d].state \in InFlight
      PROVE  chunk'[d].state \notin InFlight /\ \E s \in R : Live(s) /\ run[s].chunk = d
  <2>1. chunk'[d].state \notin InFlight /\ chunk[d].state \in InFlight
    BY <1>4, <1>5, StatesDiffer
  <2>2. PICK s \in Run : Live(s) /\ run[s].chunk = d
    BY <1>3, <2>1 DEF RunsInv, InFlightDriven
  <2>. QED
    BY <1>2, <2>1, <2>2
<1>. HIDE DEF R
<1>. QED
  BY <1>1, <1>2, <1>3, <1>4, <1>5, RunsAborted

\* job:retryMissing takes chunks that stopped, and adds pending ones.
LEMMA RetryMissingRuns ==
    ASSUME LedgerInv, FramesInv, RunsInv, RetryMissing
    PROVE  RunsInv'
<1>. DEFINE S      == { c \in Frame : chunk[c].state \in Stopped }
            queued == \E c \in S : Runs(c, downloaded) # {}
            js     == IF queued /\ jobState = "cancelled" THEN "queued" ELSE jobState
<1>1. /\ chunk \in [Frame -> Chunk] /\ Divided(chunk, downloaded) /\ jobState \in JobStates
      /\ S \in SUBSET Frame /\ \A c \in S : Exists(chunk, c)
  BY DEF LedgerInv, RowsOK, Sound, FramesInv, Stopped, Exists
<1>2. /\ chunk' = Revived(S) /\ jobState' = Refreshed(js, chunk', downloaded)
      /\ UNCHANGED <<run, owner, byNode, app>>
  BY DEF RetryMissing
<1>3. ASSUME NEW d \in S
      PROVE  /\ chunk'[d].state \in {"complete", "pending"}
             /\ ~queued => chunk'[d].state = "complete"
             /\ chunk[d].state \notin InFlight
  <2>1. chunk[d].state \notin InFlight
    BY DEF Stopped, InFlight
  <2>2. /\ Revived(S)[d].state \in {"complete", "pending"}
        /\ Revived(S)[d].state = "complete" <=> Runs(d, downloaded) = {}
    <3>. HIDE DEF S
    <3>. QED
      BY <1>1, RevivedSettles
  <2>. QED
    BY <1>2, <2>1, <2>2
<1>4. ASSUME NEW d \in Frame \ S
      PROVE  \/ chunk'[d] = chunk[d]
             \/ /\ chunk[d].state = "absent" /\ chunk'[d].state = "pending"
                /\ queued
  <2>. HIDE DEF S
  <2>. QED
    BY <1>1, <1>2, RevivedLeaves
<1>5. jobState' = "cancelled" => jobState = "cancelled" /\ ~queued
  <2>1. js \in JobStates
    BY <1>1 DEF JobStates
  <2>. HIDE DEF js, S
  <2>2. jobState' = "cancelled" => js = "cancelled"
    BY <1>2, <2>1, RefreshedStops
  <2>. QED
    BY <2>2 DEF js
<1>6. jobState' = "cancelled" => \A c \in Frame : chunk'[c].state \in Closed
  <2>. HIDE DEF S
  <2>. QED
    BY <1>3, <1>4, <1>5, StatesDiffer DEF RunsInv, Quiet
<1>. HIDE DEF S
<1>. QED
  BY <1>2, <1>3, <1>4, <1>5, <1>6, RunsStay, StatesDiffer

\* recoverAtStart: no run, and no chunk left in flight.
LEMMA RestartRuns ==
    ASSUME LedgerInv, FramesInv, RunsInv, Restart
    PROVE  RunsInv'
<1>. DEFINE S      == { c \in Frame : chunk[c].state \in InFlight }
            resent == Resplit(S, "none", downloaded)
            js     == IF S = {} THEN jobState ELSE Refreshed(jobState, resent, downloaded)
<1>1. /\ chunk \in [Frame -> Chunk] /\ Divided(chunk, downloaded) /\ jobState \in JobStates
      /\ S \in SUBSET Frame /\ \A c \in S : Exists(chunk, c)
      /\ byNode \in [Node -> SUBSET Run]
  BY StatesDiffer DEF LedgerInv, RowsOK, RunsOK, Sound, FramesInv, Exists
<1>2. /\ app = "down" /\ app' = "up" /\ UNCHANGED <<downloaded, run, owner, byNode>>
      /\ chunk' = [c \in Frame |->
                     IF /\ js \in {"queued", "running"}
                        /\ resent[c].state = "pending"
                        /\ Covered(resent[c]) \subseteq downloaded
                     THEN [resent[c] EXCEPT !.state = "complete"]
                     ELSE resent[c]]
      /\ jobState' = IF chunk' = resent THEN js ELSE Refreshed(js, chunk', downloaded)
  BY DEF Restart
<1>3. resent \in [Frame -> Chunk]
  BY <1>1, ResplitSound DEF LedgerInv, RowsOK, Sound
<1>4. \A r \in Run : ~Live(r) /\ ~Live(r)'
  BY <1>2 DEF RunsInv, DownIdle, Live
<1>5. ASSUME NEW d \in Frame
      PROVE  /\ resent[d].state \notin InFlight
             /\ d \notin S => resent[d] = chunk[d] \/ chunk[d].state = "absent"
  <2>1. d \notin S => chunk[d].state \notin InFlight
    OBVIOUS
  <2>. HIDE DEF S
  <2>2. CASE d \in S
    BY <1>1, <2>2, ResplitSettles, StatesDiffer
  <2>3. CASE d \notin S
    BY <1>1, <2>1, <2>3, ResplitLeaves, StatesDiffer
  <2>. QED
    BY <2>2, <2>3
<1>6. ASSUME NEW d \in Frame
      PROVE  chunk'[d] = resent[d]
             \/ (chunk'[d].state = "complete" /\ js \in {"queued", "running"})
  <2>. HIDE DEF resent, js
  <2>1. [resent[d] EXCEPT !.state = "complete"].state = "complete"
    BY <1>3, RowSet, StatesExist
  <2>. QED
    BY <1>2, <2>1
<1>7. \A d \in Frame : chunk'[d].state \notin InFlight
  <2>. HIDE DEF resent, js, S
  <2>. QED
    BY <1>5, <1>6, StatesDiffer
<1>8. js \in JobStates /\ (js = "cancelled" <=> jobState = "cancelled")
  BY <1>1, RefreshedStops, RefreshedType
<1>9. jobState' = "cancelled" => jobState = "cancelled" /\ js = "cancelled"
  <2>. HIDE DEF resent, js, S
  <2>. QED
    BY <1>2, <1>8, RefreshedStops
<1>10. jobState = "cancelled" => resent = chunk
  <2>1. jobState = "cancelled" => S = {}
    BY StatesDiffer DEF RunsInv, Quiet
  <2>2. S = {} => \A f \in Frame : resent[f] = chunk[f]
    BY DEF Resplit
  <2>. HIDE DEF resent, S
  <2>. QED
    BY <1>1, <1>3, <2>1, <2>2
<1>11. Quiet'
  <2>. HIDE DEF resent, js, S
  <2>. QED
    BY <1>4, <1>6, <1>9, <1>10 DEF RunsInv, Quiet
<1>12. RegisteredLive'
  BY <1>1, <1>2, <1>4 DEF RunsInv, RegisteredLive
<1>. QED
  BY <1>2, <1>4, <1>7, <1>11, <1>12 DEF RunsInv, OwnersLive, InFlightDriven, DownIdle

-----------------------------------------------------------------------------
\* Every step keeps the runs with their chunks.
LEMMA RunsStep ==
    ASSUME LedgerInv, FramesInv, RunsInv, [TornNext]_vars
    PROVE  RunsInv'
<1>0. /\ chunk \in [Frame -> Chunk] /\ jobState \in JobStates
      /\ jobState = "cancelled" => \A c \in Frame : chunk[c].state \in Closed
  BY DEF LedgerInv, RowsOK, Sound, RunsInv, Quiet
<1>1. CASE UNCHANGED vars
  BY <1>0, <1>1, RunsStay DEF vars
<1>2. CASE TickSettles
  BY <1>2, TickSettlesRuns
<1>3. CASE Sends
  BY <1>3, DispatchRuns DEF Sends
<1>4. ASSUME NEW r \in Run, Proceed(r)
      PROVE  RunsInv'
  <2>1. CASE PrepDone(r)
    BY <2>1, RunMoves DEF PrepDone, rows, Phases
  <2>2. CASE NothingLeft(r)
    BY <2>2, FinishCompleteRuns DEF NothingLeft
  <2>3. CASE SpecSent(r)
    BY <2>3, FlightMoves, StatesDiffer DEF SpecSent, Phases
  <2>4. CASE SeesDone(r)
    BY <2>4, FlightMoves, StatesDiffer DEF SeesDone, Phases
  <2>5. CASE SeesFailure(r)
    BY <2>5, RunMoves DEF SeesFailure, rows, Phases
  <2>6. CASE GivesUp(r)
    BY <2>6, RunMoves DEF GivesUp, rows, Live
  <2>7. ASSUME NEW failure \in Failures, DispatchFails(r, failure)
        PROVE  RunsInv'
    BY <2>7, FinishFailedRuns DEF DispatchFails
  <2>8. ASSUME NEW F \in Marks(r), DrainCompletes(r, F)
        PROVE  RunsInv'
    BY <2>8, FinishCompleteRuns DEF DrainCompletes
  <2>9. ASSUME NEW F \in Marks(r), StoppedReturns(r, F)
        PROVE  RunsInv'
    <3>1. ~Live(r)
      BY <2>9 DEF StoppedReturns, Live
    <3>. QED
      BY <1>0, <2>9, <3>1, RunReturns DEF StoppedReturns
  <2>10. ASSUME NEW F \in Marks(r), NEW failure \in Failures,
                PollFails(r, failure, F) \/ DrainFails(r, failure, F)
         PROVE  RunsInv'
    BY <2>10, FinishFailedRuns DEF PollFails, DrainFails
  <2>. QED
    BY <1>4, <2>1, <2>2, <2>3, <2>4, <2>5, <2>6, <2>7, <2>8, <2>9, <2>10 DEF Proceed
<1>5. ASSUME NEW r \in Run, NEW f \in Frame, FrameLands(r, f)
      PROVE  RunsInv'
  BY <1>5, RunMoves DEF FrameLands, mem, Live
<1>6. ASSUME NEW r \in Run, SeesEncoding(r)
      PROVE  RunsInv'
  BY <1>6, FlightMoves, StatesDiffer DEF SeesEncoding, mem, Phases
<1>7. ASSUME NEW n \in Node, NodeGone(n)
      PROVE  RunsInv'
  BY <1>7, NodeGoneRuns
<1>8. ASSUME NEW n \in Node, NodeUsable(n)
      PROVE  RunsInv'
  BY <1>0, <1>8, RunsStay DEF NodeUsable, rows, mem
<1>9. CASE Cancel
  BY <1>9, CancelRuns
<1>10. CASE Resume
  BY <1>0, <1>10, RunsStay DEF Resume
<1>11. CASE RetryMissing
  BY <1>11, RetryMissingRuns
<1>12. CASE Crash
  BY <1>0, <1>12, RunsDie DEF Crash, rows
<1>13. CASE Restart
  BY <1>13, RestartRuns
<1>14. ASSUME NEW r \in Run, NEW verdict \in {"complete", "failed"}, NEW F \in Marks(r),
              CrashSettling(r, verdict, F)
       PROVE  RunsInv'
  BY <1>14, RunsDie DEF CrashSettling
<1>. QED
  BY <1>1, <1>2, <1>3, <1>4, <1>5, <1>6, <1>7, <1>8, <1>9, <1>10, <1>11, <1>12, <1>13, <1>14
  DEF TornNext, Next, Work, Lands

\* A new job has no runs, and no chunk in flight.
LEMMA RunsInit ==
    ASSUME Init
    PROVE  RunsInv
<1>1. \A r \in Run : ~Live(r)
  BY DEF Init, Live, FreeRun
<1>2. \A c \in Frame : chunk[c].state \notin InFlight
  BY StatesDiffer DEF Init, Absent
<1>. QED
  BY <1>1, <1>2 DEF Init, RunsInv, OwnersLive, InFlightDriven, RegisteredLive, DownIdle, Quiet

\* The three invariants hold in every state.
LEMMA AllInvariant == TornSpec => []AllInv
<1>1. TornSpec => []LedgerInv /\ []FramesInv
  BY LedgerInvariant, FramesInvariant
<1>2. TornSpec => []RunsInv
  BY <1>1, RunsInit, RunsStep, PTL DEF TornSpec
<1>. QED
  BY <1>1, <1>2, PTL DEF AllInv

-----------------------------------------------------------------------------
\* A chunk in flight is driven by one live run, which a cancel finds under its chunk and a lost
\* node under the node, and which renders the range the row has: no re-split of any requeue,
\* restart or lost node changes a range under a run (scheduler.ts tick, dropRun, forgetNode).
THEOREM OneRunDrives == TornSpec => []OneLiveRunPerChunk
<1>1. ASSUME LedgerInv, RunsInv
      PROVE  OneLiveRunPerChunk
  BY <1>1 DEF RunsInv, OwnersLive, InFlightDriven, OneLiveRunPerChunk, Live, LedgerInv, RunsOK,
              BusyRunsHaveWork
<1>. QED
  BY <1>1, AllInvariant, PTL DEF AllInv

\* Once a job is cancelled, nothing of it is left to send and no run goes on with it, whatever
\* dispatch, answer or recovery was under way (scheduler.ts cancelJob).
THEOREM CancelledStaysQuiet == TornSpec => []CancelledIsQuiet
<1>1. RunsInv => CancelledIsQuiet
  BY DEF RunsInv, Quiet, CancelledIsQuiet, Closed
<1>. QED
  BY <1>1, AllInvariant, PTL DEF AllInv

-----------------------------------------------------------------------------
\* The job's state and its chunks, under Spec: with no process ending inside a handler that
\* settles a chunk.

\* The job's state is what refreshJobState would make of it.
FreshAlways == jobState = Refreshed(jobState, chunk, downloaded)

\* A failed chunk of a job that neither failed nor was cancelled has spent a budget.
FailedHaveSpent ==
    jobState \notin {"cancelled", "failed"} =>
        \A c \in Frame : chunk[c].state = "failed" =>
            chunk[c].retries = MaxRetries \/ chunk[c].infra = MaxInfraRetries

\* The inductive invariant, on top of AllInv.
PolicyInv == FreshAlways /\ FailedHaveSpent

\* refreshJobState changes nothing the second time.
LEMMA RefreshedTwice ==
    ASSUME NEW js, NEW ch, NEW got
    PROVE  Refreshed(Refreshed(js, ch, got), ch, got) = Refreshed(js, ch, got)
  BY DEF Refreshed

\* A job that failed or was cancelled stays so.
LEMMA RefreshedEnds ==
    ASSUME NEW ch, NEW got
    PROVE  Refreshed("cancelled", ch, got) = "cancelled" /\ Refreshed("failed", ch, got) = "failed"
  BY DEF Refreshed

\* Among chunks of which one is in flight, a job that neither failed nor was cancelled runs.
LEMMA RefreshedFlight ==
    ASSUME NEW js, js \notin {"cancelled", "failed"}, NEW ch, NEW got,
           NEW c \in Frame, ch[c].state \in InFlight
    PROVE  Refreshed(js, ch, got) = "running"
<1>. DEFINE states == { ch[d].state : d \in Frame } \ {"absent"}
<1>1. ch[c].state \in states
  BY StatesDiffer
<1>2. ch[c].state \notin {"complete"} \cup Stopped /\ ch[c].state \notin {"pending"}
  BY DEF InFlight, Stopped
<1>. HIDE DEF states
<1>3. ~(states \subseteq {"complete"}) /\ ~(states \subseteq {"complete"} \cup Stopped)
      /\ ~(states \subseteq {"pending"})
  BY <1>1, <1>2
<1>. QED
  BY <1>3 DEF Refreshed, states

\* A job whose chunks are all complete misses no frame, so frames that land change nothing.
LEMMA RefreshedMore ==
    ASSUME NEW js, NEW ch, NEW got, NEW more, Sound(ch, got), Whole(ch, got), got \subseteq more
    PROVE  Refreshed(js, ch, more) = Refreshed(js, ch, got)
<1>. DEFINE states == { ch[d].state : d \in Frame } \ {"absent"}
<1>1. ASSUME states \subseteq {"complete"}
      PROVE  Frame \subseteq got
  <2>. SUFFICES ASSUME NEW f \in Frame, f \notin got
                PROVE  FALSE
    OBVIOUS
  <2>1. PICK c \in Frame : Exists(ch, c) /\ f \in Covered(ch[c])
    BY DEF Whole
  <2>2. ch[c].state = "complete"
    BY <1>1, <2>1 DEF Exists
  <2>. QED
    BY <2>1, <2>2 DEF Sound
<1>2. states \subseteq {"complete"} => Frame \subseteq more /\ Frame \subseteq got
  BY <1>1
<1>. QED
  BY <1>2 DEF Refreshed

\* Rows and landed frames that are as they were keep the policy.
LEMMA PolicyStays ==
    ASSUME PolicyInv, UNCHANGED <<chunk, downloaded, jobState>>
    PROVE  PolicyInv'
  BY DEF PolicyInv, FreshAlways, FailedHaveSpent

\* A step that refreshes the job and fails no chunk keeps the policy.
LEMMA PolicyRefreshed ==
    ASSUME LedgerInv, PolicyInv, NEW js \in JobStates,
           jobState' = Refreshed(js, chunk', downloaded'),
           js \in {"cancelled", "failed"} <=> jobState \in {"cancelled", "failed"},
           \A d \in Frame : chunk'[d].state = "failed" => chunk'[d] = chunk[d]
    PROVE  PolicyInv'
<1>1. FreshAlways'
  BY RefreshedTwice DEF FreshAlways
<1>2. jobState' \in {"cancelled", "failed"} <=> jobState \in {"cancelled", "failed"}
  BY RefreshedStops
<1>3. FailedHaveSpent'
  BY <1>2 DEF PolicyInv, FailedHaveSpent
<1>. QED
  BY <1>1, <1>3 DEF PolicyInv

\* Frames that land change neither the job's state nor a chunk.
LEMMA PolicyLands ==
    ASSUME LedgerInv, FramesInv, PolicyInv, UNCHANGED <<chunk, jobState>>,
           downloaded \subseteq downloaded'
    PROVE  PolicyInv'
<1>1. Refreshed(jobState, chunk, downloaded') = Refreshed(jobState, chunk, downloaded)
  BY RefreshedMore DEF LedgerInv, RowsOK, FramesInv, Divided
<1>2. FreshAlways'
  BY <1>1 DEF PolicyInv, FreshAlways
<1>. QED
  BY <1>2 DEF PolicyInv, FailedHaveSpent

\* A re-split fails only chunks that have spent a budget.
LEMMA ResplitSpent ==
    ASSUME chunk \in [Frame -> Chunk], Divided(chunk, downloaded),
           NEW got, downloaded \subseteq got, NEW budget,
           NEW S \in SUBSET Frame, \A c \in S : Exists(chunk, c),
           NEW d \in Frame, Resplit(S, budget, got)[d].state = "failed"
    PROVE  \/ Resplit(S, budget, got)[d] = chunk[d]
           \/ Resplit(S, budget, got)[d].retries = MaxRetries
           \/ Resplit(S, budget, got)[d].infra = MaxInfraRetries
<1>. DEFINE new == Resplit(S, budget, got)
<1>1. CASE d \in S
  <2>1. Spent(d, budget) /\ new[d].retries = chunk[d].retries /\ new[d].infra = chunk[d].infra
    BY <1>1, ResplitSettles
  <2>2. chunk[d].retries \in 0 .. MaxRetries /\ chunk[d].infra \in 0 .. MaxInfraRetries
    BY DEF Chunk
  <2>. HIDE DEF new
  <2>3. chunk[d].retries = MaxRetries \/ chunk[d].infra = MaxInfraRetries
    BY <2>1, <2>2, LedgerConstants DEF Spent
  <2>. QED
    BY <2>1, <2>3 DEF new
<1>2. CASE d \notin S
  BY <1>2, ResplitLeaves
<1>. QED
  BY <1>1, <1>2

\* A re-split of chunks keeps the policy once the job is refreshed.
LEMMA PolicyResplit ==
    ASSUME LedgerInv, FramesInv, PolicyInv, jobState \notin {"cancelled", "failed"},
           NEW budget, NEW S \in SUBSET Frame, \A c \in S : Exists(chunk, c),
           downloaded \subseteq downloaded',
           chunk' = Resplit(S, budget, downloaded'),
           jobState' = Refreshed(jobState, chunk', downloaded')
    PROVE  PolicyInv'
<1>1. chunk \in [Frame -> Chunk] /\ Divided(chunk, downloaded)
  BY DEF LedgerInv, RowsOK, Sound, FramesInv
<1>2. FreshAlways'
  BY RefreshedTwice DEF FreshAlways
<1>3. ASSUME NEW d \in Frame, chunk'[d].state = "failed"
      PROVE  chunk'[d].retries = MaxRetries \/ chunk'[d].infra = MaxInfraRetries
  <2>. DEFINE new == Resplit(S, budget, downloaded')
  <2>1. \/ new[d] = chunk[d]
        \/ new[d].retries = MaxRetries
        \/ new[d].infra = MaxInfraRetries
    BY <1>1, <1>3, ResplitSpent
  <2>. QED
    BY <1>3, <2>1 DEF PolicyInv, FailedHaveSpent
<1>. QED
  BY <1>2, <1>3 DEF PolicyInv, FailedHaveSpent

\* A job that has failed or was cancelled keeps the policy as long as it stays so.
LEMMA PolicyOver ==
    ASSUME jobState' \in {"cancelled", "failed"}
    PROVE  PolicyInv'
  BY RefreshedEnds DEF PolicyInv, FreshAlways, FailedHaveSpent

\* requeue, once the frames of its last pass are marked.
LEMMA RequeuePolicy ==
    ASSUME LedgerInv, FramesInv, PolicyInv, NEW c \in Frame, Exists(chunk, c), NEW n,
           NEW failure, downloaded \subseteq downloaded', Requeue(c, n, failure, downloaded')
    PROVE  PolicyInv'
<1>1. CASE jobState \in {"cancelled", "failed"}
  <2>1. jobState' = jobState
    BY <1>1 DEF Requeue
  <2>. QED
    BY <1>1, <2>1, PolicyOver
<1>2. CASE jobState \notin {"cancelled", "failed"} /\ failure = "fatal"
  <2>1. jobState' = "failed"
    BY <1>2 DEF Requeue
  <2>. QED
    BY <2>1, PolicyOver
<1>3. CASE jobState \notin {"cancelled", "failed"} /\ failure # "fatal"
  <2>. DEFINE S == {c}
              b == Budget(failure)
  <2>1. chunk' = Resplit(S, b, downloaded') /\ jobState' = Refreshed(jobState, chunk', downloaded')
    BY <1>3 DEF Requeue
  <2>2. S \in SUBSET Frame /\ \A e \in S : Exists(chunk, e)
    OBVIOUS
  <2>. HIDE DEF S, b
  <2>. QED
    BY <1>3, <2>1, <2>2, PolicyResplit
<1>. QED
  BY <1>1, <1>2, <1>3

\* finish('failed') with the requeue after it.
LEMMA FinishFailedPolicy ==
    ASSUME AllInv, PolicyInv, NEW r \in Run, Live(r), NEW failure, NEW F,
           FinishFailed(r, failure, F)
    PROVE  PolicyInv'
<1>1. LedgerInv /\ FramesInv /\ RunsInv
  BY DEF AllInv
<1>2. run[r].chunk \in Frame /\ Exists(chunk, run[r].chunk)
  BY <1>1, LiveChunk
<1>3. /\ downloaded' = downloaded \cup F
      /\ Requeue(run[r].chunk, run[r].node, failure, downloaded \cup F)
  BY DEF FinishFailed
<1>4. downloaded \subseteq downloaded' /\ Requeue(run[r].chunk, run[r].node, failure, downloaded')
  BY <1>3
<1>. QED
  BY <1>1, <1>2, <1>4, RequeuePolicy

\* finish('complete'), and nothingLeft.
LEMMA FinishCompletePolicy ==
    ASSUME AllInv, PolicyInv, NEW r \in Run, Live(r), NEW rendered, NEW F,
           FinishComplete(r, rendered, F)
    PROVE  PolicyInv'
<1>. DEFINE c == run[r].chunk
<1>1. LedgerInv /\ FramesInv /\ RunsInv
  BY DEF AllInv
<1>2. c \in Frame /\ jobState # "cancelled" /\ jobState \in JobStates /\ chunk \in [Frame -> Chunk]
  BY <1>1, LiveChunk DEF LedgerInv, RowsOK, Sound
<1>3. /\ chunk' = [chunk EXCEPT ![c].state = "complete"]
      /\ jobState' = Refreshed(jobState, chunk', downloaded')
  BY <1>2 DEF FinishComplete
<1>4. chunk'[c].state = "complete" /\ \A d \in Frame : d # c => chunk'[d] = chunk[d]
  BY <1>2, <1>3, RowSet, StatesExist
<1>. QED
  BY <1>1, <1>2, <1>3, <1>4, PolicyRefreshed

\* A live run that moves its chunk from one state of flight to another.
LEMMA FlightPolicy ==
    ASSUME AllInv, PolicyInv, NEW r \in Run, Live(r), NEW s \in InFlight,
           chunk' = [chunk EXCEPT ![run[r].chunk].state = s], downloaded' = downloaded,
           jobState' = jobState \/ jobState' = Refreshed(jobState, chunk', downloaded)
    PROVE  PolicyInv'
<1>. DEFINE c == run[r].chunk
<1>1. LedgerInv /\ FramesInv /\ RunsInv
  BY DEF AllInv
<1>2. /\ c \in Frame /\ chunk[c].state \in InFlight /\ jobState \in JobStates
      /\ chunk \in [Frame -> Chunk]
  BY <1>1, LiveChunk DEF LedgerInv, RowsOK, Sound
<1>3. chunk'[c].state = s /\ \A d \in Frame : d # c => chunk'[d] = chunk[d]
  <2>1. chunk'[c] = [chunk[c] EXCEPT !.state = s] /\ \A d \in Frame : d # c => chunk'[d] = chunk[d]
    BY <1>2
  <2>. QED
    BY <1>2, <2>1, RowSet, StatesExist
<1>4. jobState' = Refreshed(jobState, chunk', downloaded')
  <2>1. CASE jobState' = Refreshed(jobState, chunk', downloaded)
    BY <2>1
  <2>2. CASE jobState' = jobState /\ jobState \in {"cancelled", "failed"}
    BY <2>2, RefreshedEnds
  <2>3. CASE jobState' = jobState /\ jobState \notin {"cancelled", "failed"}
    <3>1. Refreshed(jobState, chunk, downloaded) = "running"
      BY <1>2, <2>3, RefreshedFlight
    <3>. DEFINE new == chunk'
                got == downloaded'
    <3>2. new[c].state \in InFlight
      BY <1>3
    <3>. HIDE DEF new, got
    <3>3. Refreshed(jobState, new, got) = "running"
      BY <1>2, <2>3, <3>2, RefreshedFlight
    <3>. QED
      BY <2>3, <3>1, <3>3 DEF PolicyInv, FreshAlways, new, got
  <2>. QED
    BY <2>1, <2>2, <2>3
<1>5. \A d \in Frame : chunk'[d].state = "failed" => chunk'[d] = chunk[d]
  BY <1>3, StatesDiffer
<1>. QED
  BY <1>1, <1>2, <1>4, <1>5, PolicyRefreshed

\* A tick that settles, and one that sends a chunk out.
LEMMA TickPolicy ==
    ASSUME AllInv, PolicyInv,
           TickSettles \/ \E c \in Frame, n \in Node, r \in Run : Dispatch(c, n, r)
    PROVE  PolicyInv'
<1>1. LedgerInv /\ jobState \in JobStates /\ chunk \in [Frame -> Chunk]
      /\ Settled \in [Frame -> Chunk]
  BY SettledSound DEF AllInv, LedgerInv, RowsOK, Sound
<1>2. \A d \in Frame : Settled[d].state = "failed" => Settled[d] = chunk[d]
  BY <1>1, SettledFlight
<1>3. CASE TickSettles
  <2>1. /\ chunk' = Settled /\ downloaded' = downloaded
        /\ jobState' = Refreshed(jobState, chunk', downloaded)
    BY <1>3 DEF TickSettles
  <2>. QED
    BY <1>1, <1>2, <2>1, PolicyRefreshed
<1>4. ASSUME NEW c \in Frame, NEW n \in Node, NEW r \in Run, Dispatch(c, n, r)
      PROVE  PolicyInv'
  <2>. DEFINE js == Refreshed(jobState, Settled, downloaded)
  <2>1. /\ chunk' = [Settled EXCEPT ![c].state = "assigned"] /\ downloaded' = downloaded
        /\ jobState' = Refreshed(js, chunk', downloaded) /\ js \in {"queued", "running"}
    BY <1>4 DEF Dispatch
  <2>2. js \in {"cancelled", "failed"} <=> jobState \in {"cancelled", "failed"}
    BY <1>1, RefreshedStops
  <2>. HIDE DEF js
  <2>3. chunk'[c].state = "assigned"
    <3>1. chunk'[c] = [Settled[c] EXCEPT !.state = "assigned"]
      BY <1>1, <2>1
    <3>. QED
      BY <1>1, <3>1, RowSet, StatesExist
  <2>4. \A d \in Frame : d # c => chunk'[d] = Settled[d]
    BY <1>1, <2>1
  <2>5. \A d \in Frame : chunk'[d].state = "failed" => chunk'[d] = chunk[d]
    BY <1>2, <2>3, <2>4
  <2>. QED
    BY <1>1, <2>1, <2>2, <2>5, PolicyRefreshed DEF JobStates
<1>. QED
  BY <1>3, <1>4

\* forgetNode.
LEMMA NodeGonePolicy ==
    ASSUME AllInv, PolicyInv, NEW n \in Node, NodeGone(n)
    PROVE  PolicyInv'
<1>. DEFINE orphans == { run[r].chunk : r \in byNode[n] }
<1>1. LedgerInv /\ FramesInv /\ RunsInv /\ jobState \in JobStates /\ byNode[n] \in SUBSET Run
  BY DEF AllInv, LedgerInv, RowsOK, RunsOK
<1>2. downloaded' = downloaded
  BY DEF NodeGone
<1>3. CASE orphans = {}
  <2>1. chunk' = chunk /\ jobState' = jobState
    BY <1>3 DEF NodeGone
  <2>. QED
    BY <1>2, <2>1, PolicyStays
<1>4. CASE orphans # {} /\ jobState \in {"cancelled", "failed"}
  <2>1. jobState' = Refreshed(jobState, chunk', downloaded)
    BY <1>4 DEF NodeGone
  <2>2. jobState' = jobState
    BY <1>4, <2>1, RefreshedEnds
  <2>. QED
    BY <1>4, <2>2, PolicyOver
<1>5. CASE orphans # {} /\ jobState \notin {"cancelled", "failed"}
  <2>1. /\ chunk' = Resplit(orphans, "infra", downloaded)
        /\ jobState' = Refreshed(jobState, chunk', downloaded)
    BY <1>5 DEF NodeGone
  <2>2. orphans \in SUBSET Frame /\ \A c \in orphans : Exists(chunk, c)
    BY <1>1, LiveChunk DEF RunsInv, RegisteredLive
  <2>. HIDE DEF orphans
  <2>. QED
    BY <1>1, <1>2, <1>5, <2>1, <2>2, PolicyResplit
<1>. QED
  BY <1>3, <1>4, <1>5

\* job:retryMissing leaves no failed chunk.
LEMMA RetryMissingPolicy ==
    ASSUME AllInv, PolicyInv, RetryMissing
    PROVE  PolicyInv'
<1>. DEFINE S  == { c \in Frame : chunk[c].state \in Stopped }
            js == IF (\E c \in S : Runs(c, downloaded) # {}) /\ jobState = "cancelled"
                  THEN "queued" ELSE jobState
<1>1. /\ chunk \in [Frame -> Chunk] /\ Divided(chunk, downloaded)
      /\ S \in SUBSET Frame /\ \A c \in S : Exists(chunk, c)
  BY DEF AllInv, LedgerInv, RowsOK, Sound, FramesInv, Stopped, Exists
<1>2. /\ chunk' = Revived(S) /\ jobState' = Refreshed(js, chunk', downloaded)
      /\ downloaded' = downloaded
  BY DEF RetryMissing
<1>3. FreshAlways'
  BY <1>2, RefreshedTwice DEF FreshAlways
<1>4. ASSUME NEW d \in Frame
      PROVE  chunk'[d].state # "failed"
  <2>1. d \notin S => chunk[d].state # "failed"
    BY DEF Stopped
  <2>. HIDE DEF S
  <2>2. CASE d \in S
    BY <1>1, <1>2, <2>2, RevivedSettles
  <2>3. CASE d \notin S
    BY <1>1, <1>2, <2>1, <2>3, RevivedLeaves
  <2>. QED
    BY <2>2, <2>3
<1>. QED
  BY <1>3, <1>4 DEF PolicyInv, FailedHaveSpent

\* recoverAtStart.
LEMMA RestartPolicy ==
    ASSUME AllInv, PolicyInv, Restart
    PROVE  PolicyInv'
<1>. DEFINE S      == { c \in Frame : chunk[c].state \in InFlight }
            resent == Resplit(S, "none", downloaded)
            js     == IF S = {} THEN jobState ELSE Refreshed(jobState, resent, downloaded)
<1>1. /\ chunk \in [Frame -> Chunk] /\ Divided(chunk, downloaded) /\ jobState \in JobStates
      /\ S \in SUBSET Frame /\ \A c \in S : Exists(chunk, c)
  BY StatesDiffer DEF AllInv, LedgerInv, RowsOK, Sound, FramesInv, Exists
<1>2. /\ downloaded' = downloaded
      /\ chunk' = [c \in Frame |->
                     IF /\ js \in {"queued", "running"}
                        /\ resent[c].state = "pending"
                        /\ Covered(resent[c]) \subseteq downloaded
                     THEN [resent[c] EXCEPT !.state = "complete"]
                     ELSE resent[c]]
      /\ jobState' = IF chunk' = resent THEN js ELSE Refreshed(js, chunk', downloaded)
  BY DEF Restart
<1>3. resent \in [Frame -> Chunk]
  BY <1>1, ResplitSound DEF AllInv, LedgerInv, RowsOK, Sound
<1>4. S = {} => resent = chunk
  <2>1. S = {} => \A f \in Frame : resent[f] = chunk[f]
    BY DEF Resplit
  <2>. HIDE DEF S, resent
  <2>. QED
    BY <1>1, <1>3, <2>1
<1>5. js = Refreshed(js, resent, downloaded) /\ js \in JobStates
      /\ (js \in {"cancelled", "failed"} <=> jobState \in {"cancelled", "failed"})
  <2>. HIDE DEF S, resent
  <2>. QED
    BY <1>1, <1>4, RefreshedTwice, RefreshedStops, RefreshedType DEF PolicyInv, FreshAlways, S
<1>6. FreshAlways'
  <2>. HIDE DEF S, resent, js
  <2>. QED
    BY <1>2, <1>5, RefreshedTwice DEF FreshAlways
<1>7. jobState' \in {"cancelled", "failed"} <=> jobState \in {"cancelled", "failed"}
  <2>. HIDE DEF S, resent, js
  <2>. QED
    BY <1>2, <1>5, RefreshedStops
<1>8. ASSUME NEW d \in Frame, chunk'[d].state = "failed", jobState \notin {"cancelled", "failed"}
      PROVE  chunk'[d].retries = MaxRetries \/ chunk'[d].infra = MaxInfraRetries
  <2>1. resent[d].state = "failed" =>
          \/ resent[d] = chunk[d]
          \/ resent[d].retries = MaxRetries
          \/ resent[d].infra = MaxInfraRetries
    <3>. HIDE DEF S
    <3>. QED
      BY <1>1, ResplitSpent
  <2>. HIDE DEF S, resent, js
  <2>2. [resent[d] EXCEPT !.state = "complete"].state = "complete"
    BY <1>3, RowSet, StatesExist
  <2>3. chunk'[d] = resent[d]
    BY <1>2, <1>8, <2>2
  <2>. QED
    BY <1>8, <2>1, <2>3 DEF PolicyInv, FailedHaveSpent
<1>. QED
  BY <1>6, <1>7, <1>8 DEF PolicyInv, FailedHaveSpent

\* Every step between two handlers keeps the policy.
LEMMA PolicyStep ==
    ASSUME AllInv, PolicyInv, [Next]_vars
    PROVE  PolicyInv'
<1>0. LedgerInv /\ FramesInv
  BY DEF AllInv
<1>1. CASE UNCHANGED vars
  BY <1>1, PolicyStays DEF vars
<1>2. CASE TickSettles \/ Sends
  BY <1>2, TickPolicy DEF Sends
<1>3. ASSUME NEW r \in Run, Proceed(r)
      PROVE  PolicyInv'
  <2>1. CASE PrepDone(r)
    BY <2>1, PolicyStays DEF PrepDone, rows
  <2>2. CASE NothingLeft(r)
    BY <2>2, FinishCompletePolicy DEF NothingLeft
  <2>3. CASE SpecSent(r)
    BY <2>3, FlightPolicy, StatesDiffer DEF SpecSent
  <2>4. CASE SeesDone(r)
    BY <2>4, FlightPolicy, StatesDiffer DEF SeesDone
  <2>5. CASE SeesFailure(r)
    BY <2>5, PolicyStays DEF SeesFailure, rows
  <2>6. CASE GivesUp(r)
    BY <2>6, PolicyStays DEF GivesUp, rows
  <2>7. ASSUME NEW failure \in Failures, DispatchFails(r, failure)
        PROVE  PolicyInv'
    BY <2>7, FinishFailedPolicy DEF DispatchFails
  <2>8. ASSUME NEW F \in Marks(r), DrainCompletes(r, F)
        PROVE  PolicyInv'
    BY <2>8, FinishCompletePolicy DEF DrainCompletes
  <2>9. ASSUME NEW F \in Marks(r), StoppedReturns(r, F)
        PROVE  PolicyInv'
    BY <1>0, <2>9, PolicyLands DEF StoppedReturns
  <2>10. ASSUME NEW F \in Marks(r), NEW failure \in Failures,
                PollFails(r, failure, F) \/ DrainFails(r, failure, F)
         PROVE  PolicyInv'
    BY <2>10, FinishFailedPolicy DEF PollFails, DrainFails
  <2>. QED
    BY <1>3, <2>1, <2>2, <2>3, <2>4, <2>5, <2>6, <2>7, <2>8, <2>9, <2>10 DEF Proceed
<1>4. ASSUME NEW r \in Run, NEW f \in Frame, FrameLands(r, f)
      PROVE  PolicyInv'
  BY <1>0, <1>4, PolicyLands DEF FrameLands
<1>5. ASSUME NEW r \in Run, SeesEncoding(r)
      PROVE  PolicyInv'
  BY <1>5, FlightPolicy, StatesDiffer DEF SeesEncoding
<1>6. ASSUME NEW n \in Node, NodeGone(n)
      PROVE  PolicyInv'
  BY <1>6, NodeGonePolicy
<1>7. ASSUME NEW n \in Node, NodeUsable(n)
      PROVE  PolicyInv'
  BY <1>7, PolicyStays DEF NodeUsable, rows
<1>8. CASE Cancel
  BY <1>8, PolicyOver DEF Cancel
<1>9. CASE Resume
  BY <1>9, PolicyStays DEF Resume
<1>10. CASE RetryMissing
  BY <1>10, RetryMissingPolicy
<1>11. CASE Crash
  BY <1>11, PolicyStays DEF Crash, rows
<1>12. CASE Restart
  BY <1>12, RestartPolicy
<1>. QED
  BY <1>1, <1>2, <1>3, <1>4, <1>5, <1>6, <1>7, <1>8, <1>9, <1>10, <1>11, <1>12
  DEF Next, Work, Lands

\* createJob makes a queued job.
LEMMA PolicyInit ==
    ASSUME Init
    PROVE  PolicyInv
<1>. DEFINE states == { chunk[d].state : d \in Frame } \ {"absent"}
<1>1. 1 \in Frame /\ (1 - 1) % ChunkSize = 0
  BY LedgerConstants DEF Frame
<1>2. chunk[1].state = "pending"
  BY <1>1 DEF Init
<1>3. "pending" \in states
  BY <1>1, <1>2
<1>4. \A c \in Frame : chunk[c].state \in {"pending", "absent"}
  BY DEF Init, Absent
<1>5. states \subseteq {"pending"}
  BY <1>4
<1>6. jobState = "queued"
  BY DEF Init
<1>7. FreshAlways
  <2>. HIDE DEF states
  <2>1. ~(states \subseteq {"complete"}) /\ ~(states \subseteq {"complete"} \cup Stopped)
    BY <1>3 DEF Stopped
  <2>. QED
    BY <1>5, <1>6, <2>1 DEF FreshAlways, Refreshed, states
<1>. QED
  BY <1>4, <1>7 DEF PolicyInv, FailedHaveSpent

\* A behaviour with no crash inside a handler is one of those with them.
LEMMA SpecIsTorn == Spec => TornSpec
<1>1. [Next]_vars => [TornNext]_vars
  BY DEF TornNext
<1>. QED
  BY <1>1, PTL DEF Spec, TornSpec

LEMMA PolicyInvariant == Spec => []AllInv /\ []PolicyInv
<1>1. Spec => []AllInv
  BY SpecIsTorn, AllInvariant, PTL
<1>. QED
  BY <1>1, PolicyInit, PolicyStep, PTL DEF Spec

\* The job's state is always the one its chunks and frames give: no handler forgets to refresh
\* it, however settling, sends, restarts and the user's calls interleave (jobs.ts
\* refreshJobState).
THEOREM JobStateFresh == Spec => []JobStateIsFresh
<1>1. PolicyInv => JobStateIsFresh
  BY DEF PolicyInv, FreshAlways, JobStateIsFresh
<1>. QED
  BY <1>1, PolicyInvariant, PTL

\* A chunk of a job still wanted is failed only once a budget is spent, through every re-split
\* (admission.ts MAX_RETRIES and MAX_INFRA_RETRIES).
THEOREM FailedSpent == Spec => []FailedOnlyWhenSpent
<1>1. PolicyInv => FailedOnlyWhenSpent
  BY DEF PolicyInv, FailedHaveSpent, FailedOnlyWhenSpent
<1>. QED
  BY <1>1, PolicyInvariant, PTL

-----------------------------------------------------------------------------
\* The attempts a frame has had, under TornSpec.

\* Every row of `new' comes from a row there is: it has a part of that row's frames, and counts
\* at least the attempts that one counts, unless that one had stopped.
Descends(new) ==
    \A d \in Frame : Exists(new, d) =>
        \E e \in Frame :
            /\ Exists(chunk, e)
            /\ Covered(new[d]) \subseteq Covered(chunk[e])
            /\ \/ chunk[e].state \in Stopped
               \/ new[d].retries >= chunk[e].retries /\ new[d].infra >= chunk[e].infra

\* A row's counts are naturals.
LEMMA CountTypes ==
    ASSUME NEW row \in Chunk
    PROVE  row.retries \in Nat /\ row.infra \in Nat
<1>1. row.retries \in 0 .. MaxRetries /\ row.infra \in 0 .. MaxInfraRetries
  BY DEF Chunk
<1>. QED
  BY <1>1, LedgerConstants

\* Setting a row's state leaves its frames and its counts.
LEMMA SetKeepsWork ==
    ASSUME NEW row \in Chunk, NEW s
    PROVE  LET new == [row EXCEPT !.state = s]
           IN  /\ Covered(new) = Covered(row)
               /\ new.retries = row.retries /\ new.infra = row.infra
  BY DEF Chunk, Covered

\* Rows whose states alone are set descend from themselves.
LEMMA StatesDescend ==
    ASSUME chunk \in [Frame -> Chunk], NEW new,
           \A d \in Frame : \/ new[d] = chunk[d]
                            \/ Exists(chunk, d) /\ \E s : new[d] = [chunk[d] EXCEPT !.state = s]
    PROVE  Descends(new)
<1>. SUFFICES ASSUME NEW d \in Frame, Exists(new, d)
              PROVE  /\ Exists(chunk, d)
                     /\ Covered(new[d]) \subseteq Covered(chunk[d])
                     /\ new[d].retries >= chunk[d].retries /\ new[d].infra >= chunk[d].infra
  BY DEF Descends
<1>1. chunk[d] \in Chunk /\ chunk[d].retries \in Nat /\ chunk[d].infra \in Nat
  BY CountTypes
<1>2. CASE new[d] = chunk[d]
  BY <1>1, <1>2 DEF Exists
<1>3. CASE Exists(chunk, d) /\ \E s : new[d] = [chunk[d] EXCEPT !.state = s]
  <2>1. /\ Covered(new[d]) = Covered(chunk[d])
        /\ new[d].retries = chunk[d].retries /\ new[d].infra = chunk[d].infra
    BY <1>1, <1>3, SetKeepsWork
  <2>. QED
    BY <1>1, <1>3, <2>1
<1>. QED
  BY <1>2, <1>3

\* A row charged and put on one of its runs counts at least what it did.
LEMMA ChargedDescends ==
    ASSUME chunk \in [Frame -> Chunk], NEW c \in Frame, NEW budget, NEW got, NEW rg \in Runs(c, got)
    PROVE  LET new == On(rg, Charged(c, budget))
           IN  /\ Covered(new) \subseteq Covered(chunk[c])
               /\ new.retries >= chunk[c].retries /\ new.infra >= chunk[c].infra
<1>. DEFINE row == chunk[c]
            new == On(rg, Charged(c, budget))
<1>1. row \in Chunk /\ row.retries \in Nat /\ row.infra \in Nat
  BY CountTypes
<1>2. Covered(rg) \subseteq Covered(chunk[c])
  BY RunOfChunk
<1>3. /\ new.lo = rg.lo /\ new.hi = rg.hi
      /\ new.retries \in {row.retries, row.retries + 1}
      /\ new.infra \in {row.infra, row.infra + 1}
  BY <1>1 DEF On, Charged, Chunk
<1>4. Covered(new) = Covered(rg)
  BY <1>3 DEF Covered
<1>. HIDE DEF new, row
<1>5. new.retries >= row.retries /\ new.infra >= row.infra
  BY <1>1, <1>3
<1>. QED
  BY <1>2, <1>4, <1>5 DEF new, row

\* resplitAroundDownloaded never forgets an attempt.
LEMMA ResplitDescends ==
    ASSUME chunk \in [Frame -> Chunk], Divided(chunk, downloaded),
           NEW got, downloaded \subseteq got, NEW budget,
           NEW S \in SUBSET Frame, \A c \in S : Exists(chunk, c)
    PROVE  Descends(Resplit(S, budget, got))
<1>. DEFINE new == Resplit(S, budget, got)
<1>. SUFFICES ASSUME NEW d \in Frame, Exists(new, d)
              PROVE  \E e \in Frame :
                        /\ Exists(chunk, e)
                        /\ Covered(new[d]) \subseteq Covered(chunk[e])
                        /\ \/ chunk[e].state \in Stopped
                           \/ /\ new[d].retries >= chunk[e].retries
                              /\ new[d].infra >= chunk[e].infra
  BY DEF Descends
<1>. DEFINE parent == { c \in S : ~Spent(c, budget) /\ d \in NewStarts(c, got) }
            c      == CHOOSE c \in parent : TRUE
            rg     == CHOOSE rg \in Runs(c, got) : rg.lo = d
<1>0. chunk[d] \in Chunk /\ chunk[d].retries \in Nat /\ chunk[d].infra \in Nat
  BY CountTypes
<1>1. CASE d \in S /\ (Runs(d, got) = {} \/ Spent(d, budget))
  <2>1. \E s : new[d] = [chunk[d] EXCEPT !.state = s]
    BY <1>1 DEF Resplit
  <2>. HIDE DEF new
  <2>2. /\ Covered(new[d]) = Covered(chunk[d])
        /\ new[d].retries = chunk[d].retries /\ new[d].infra = chunk[d].infra
    BY <1>0, <2>1, SetKeepsWork
  <2>. QED
    BY <1>0, <1>1, <2>2
<1>2. CASE d \in S /\ Runs(d, got) # {} /\ ~Spent(d, budget)
  <2>1. new[d] = On(FirstRun(Runs(d, got)), Charged(d, budget))
    BY <1>2 DEF Resplit
  <2>2. FirstRun(Runs(d, got)) \in Runs(d, got)
    BY <1>2, RunsOfChunk
  <2>. HIDE DEF new
  <2>3. /\ Covered(new[d]) \subseteq Covered(chunk[d])
        /\ new[d].retries >= chunk[d].retries /\ new[d].infra >= chunk[d].infra
    BY <2>1, <2>2, ChargedDescends
  <2>. QED
    BY <1>2, <2>3
<1>3. CASE d \notin S /\ parent # {}
  <2>1. c \in S /\ d \in NewStarts(c, got)
    <3>1. c \in parent
      BY <1>3
    <3>. HIDE DEF c
    <3>. QED
      BY <3>1
  <2>2. new[d] = On(rg, Charged(c, budget))
    BY <1>3 DEF Resplit
  <2>. HIDE DEF new, c, parent
  <2>3. rg \in Runs(c, got)
    BY <2>1, NewStartHasRun
  <2>. HIDE DEF rg
  <2>4. /\ Covered(new[d]) \subseteq Covered(chunk[c])
        /\ new[d].retries >= chunk[c].retries /\ new[d].infra >= chunk[c].infra
    BY <2>1, <2>2, <2>3, ChargedDescends
  <2>. QED
    BY <2>1, <2>4
<1>4. CASE d \notin S /\ parent = {}
  <2>1. new[d] = chunk[d]
    BY <1>4 DEF Resplit
  <2>. HIDE DEF new
  <2>. QED
    BY <1>0, <2>1 DEF Exists
<1>. QED
  BY <1>1, <1>2, <1>3, <1>4

\* reviveFailedChunks starts afresh the rows that had stopped, and those alone.
LEMMA RevivedDescends ==
    ASSUME chunk \in [Frame -> Chunk], NEW S \in SUBSET Frame,
           \A c \in S : chunk[c].state \in Stopped
    PROVE  Descends(Revived(S))
<1>. DEFINE new == Revived(S)
<1>. SUFFICES ASSUME NEW d \in Frame, Exists(new, d)
              PROVE  \E e \in Frame :
                        /\ Exists(chunk, e)
                        /\ Covered(new[d]) \subseteq Covered(chunk[e])
                        /\ \/ chunk[e].state \in Stopped
                           \/ /\ new[d].retries >= chunk[e].retries
                              /\ new[d].infra >= chunk[e].infra
  BY DEF Descends
<1>. DEFINE parent == { c \in S : d \in NewStarts(c, downloaded) }
            c      == CHOOSE c \in parent : TRUE
            rg     == CHOOSE rg \in Runs(c, downloaded) : rg.lo = d
<1>0. chunk[d] \in Chunk /\ chunk[d].retries \in Nat /\ chunk[d].infra \in Nat
  BY CountTypes
<1>00. \A e \in S : Exists(chunk, e)
  BY DEF Stopped, Exists
<1>9. ASSUME NEW e \in Frame, NEW run1 \in Runs(e, downloaded)
      PROVE  Covered(On(run1, Fresh(chunk[e]))) \subseteq Covered(chunk[e])
  <2>1. Covered(run1) \subseteq Covered(chunk[e])
    BY RunOfChunk
  <2>2. Fresh(chunk[e]) \in Chunk
    BY FreshRow
  <2>3. On(run1, Fresh(chunk[e])).lo = run1.lo /\ On(run1, Fresh(chunk[e])).hi = run1.hi
    BY <2>2 DEF On, Chunk
  <2>. QED
    BY <2>1, <2>3 DEF Covered
<1>1. CASE d \in S /\ Runs(d, downloaded) = {}
  <2>1. new[d] = [chunk[d] EXCEPT !.state = "complete"]
    BY <1>1 DEF Revived
  <2>. HIDE DEF new
  <2>2. Covered(new[d]) = Covered(chunk[d])
    BY <1>0, <2>1, SetKeepsWork
  <2>. QED
    BY <1>00, <1>1, <2>2
<1>2. CASE d \in S /\ Runs(d, downloaded) # {}
  <2>1. new[d] = On(FirstRun(Runs(d, downloaded)), Fresh(chunk[d]))
    BY <1>2 DEF Revived
  <2>2. FirstRun(Runs(d, downloaded)) \in Runs(d, downloaded)
    BY <1>2, RunsOfChunk
  <2>. HIDE DEF new
  <2>. QED
    BY <1>00, <1>2, <1>9, <2>1, <2>2
<1>3. CASE d \notin S /\ parent # {}
  <2>1. c \in S /\ d \in NewStarts(c, downloaded)
    <3>1. c \in parent
      BY <1>3
    <3>. HIDE DEF c
    <3>. QED
      BY <3>1
  <2>2. new[d] = On(rg, Fresh(chunk[c]))
    BY <1>3, <2>1 DEF Revived
  <2>. HIDE DEF new, c, parent
  <2>3. rg \in Runs(c, downloaded)
    BY <2>1, NewStartHasRun
  <2>. HIDE DEF rg
  <2>. QED
    BY <1>00, <1>9, <2>1, <2>2, <2>3
<1>4. CASE d \notin S /\ parent = {}
  <2>1. new[d] = chunk[d]
    BY <1>4 DEF Revived
  <2>. HIDE DEF new
  <2>. QED
    BY <1>0, <2>1 DEF Exists
<1>. QED
  BY <1>1, <1>2, <1>3, <1>4

\* Setting states once more changes no frames and no counts.
LEMMA SetAfterDescends ==
    ASSUME NEW mid \in [Frame -> Chunk], Descends(mid), NEW new,
           \A d \in Frame : \/ new[d] = mid[d]
                            \/ Exists(mid, d) /\ \E s : new[d] = [mid[d] EXCEPT !.state = s]
    PROVE  Descends(new)
<1>. SUFFICES ASSUME NEW d \in Frame, Exists(new, d)
              PROVE  /\ Exists(mid, d)
                     /\ Covered(new[d]) = Covered(mid[d])
                     /\ new[d].retries = mid[d].retries /\ new[d].infra = mid[d].infra
  BY DEF Descends
<1>1. CASE new[d] = mid[d]
  BY <1>1 DEF Exists
<1>2. CASE Exists(mid, d) /\ \E s : new[d] = [mid[d] EXCEPT !.state = s]
  BY <1>2, SetKeepsWork
<1>. QED
  BY <1>1, <1>2

\* A step that sets one chunk's state.
LEMMA SetDescends ==
    ASSUME chunk \in [Frame -> Chunk], NEW c \in Frame, Exists(chunk, c), NEW s,
           chunk' = [chunk EXCEPT ![c].state = s]
    PROVE  Descends(chunk')
<1>1. \A d \in Frame : \/ chunk'[d] = chunk[d]
                       \/ Exists(chunk, d) /\ chunk'[d] = [chunk[d] EXCEPT !.state = s]
  OBVIOUS
<1>. DEFINE new == chunk'
<1>2. \A d \in Frame : \/ new[d] = chunk[d]
                       \/ Exists(chunk, d) /\ \E t : new[d] = [chunk[d] EXCEPT !.state = t]
  BY <1>1
<1>. HIDE DEF new
<1>3. Descends(new)
  BY <1>2, StatesDescend
<1>. QED
  BY <1>3 DEF new

\* requeue and failJob.
LEMMA RequeueDescends ==
    ASSUME LedgerInv, FramesInv, NEW c \in Frame, Exists(chunk, c), NEW n, NEW failure,
           NEW got, downloaded \subseteq got, Requeue(c, n, failure, got)
    PROVE  Descends(chunk')
<1>1. chunk \in [Frame -> Chunk] /\ Divided(chunk, downloaded)
  BY DEF LedgerInv, RowsOK, Sound, FramesInv
<1>. DEFINE new == chunk'
<1>2. CASE jobState \in {"cancelled", "failed"} \/ failure = "fatal"
  <2>1. \A d \in Frame : \/ new[d] = chunk[d]
                         \/ Exists(chunk, d) /\ \E s : new[d] = [chunk[d] EXCEPT !.state = s]
    <3>1. CASE jobState = "cancelled"
      BY <3>1 DEF Requeue
    <3>2. CASE jobState = "failed"
      <4>1. chunk' = [chunk EXCEPT ![c].state = IF @ = "complete" THEN @ ELSE "failed"]
        BY <3>2 DEF Requeue
      <4>. QED
        BY <1>1, <4>1
    <3>3. CASE jobState \notin {"cancelled", "failed"} /\ failure = "fatal"
      <4>1. chunk' = FailedWith(c)
        BY <3>3 DEF Requeue
      <4>. QED
        BY <1>1, <4>1 DEF FailedWith, Exists
    <3>. QED
      BY <1>2, <3>1, <3>2, <3>3
  <2>. HIDE DEF new
  <2>2. Descends(new)
    BY <1>1, <2>1, StatesDescend
  <2>. QED
    BY <2>2 DEF new
<1>3. CASE jobState \notin {"cancelled", "failed"} /\ failure # "fatal"
  <2>. DEFINE S == {c}
              b == Budget(failure)
  <2>1. chunk' = Resplit(S, b, got)
    BY <1>3 DEF Requeue
  <2>2. S \in SUBSET Frame /\ \A e \in S : Exists(chunk, e)
    OBVIOUS
  <2>. HIDE DEF S, b
  <2>3. Descends(Resplit(S, b, got))
    BY <1>1, <2>2, ResplitDescends
  <2>. QED
    BY <2>1, <2>3
<1>. QED
  BY <1>2, <1>3

\* The rows a step leaves as they are descend from themselves.
LEMMA SameDescends ==
    ASSUME chunk \in [Frame -> Chunk], chunk' = chunk
    PROVE  Descends(chunk')
<1>1. Descends(chunk)
  BY StatesDescend
<1>. QED
  BY <1>1

\* settleDownloadedPending.
LEMMA SettledDescends ==
    ASSUME chunk \in [Frame -> Chunk]
    PROVE  Descends(Settled)
<1>1. \A d \in Frame : \/ Settled[d] = chunk[d]
                       \/ Exists(chunk, d) /\ Settled[d] = [chunk[d] EXCEPT !.state = "complete"]
  BY DEF Settled, Exists
<1>. HIDE DEF Settled
<1>. QED
  BY <1>1, StatesDescend

\* A tick that sends a chunk out.
LEMMA DispatchDescends ==
    ASSUME LedgerInv, NEW c \in Frame, NEW n \in Node, NEW r \in Run, Dispatch(c, n, r)
    PROVE  Descends(chunk')
<1>1. chunk \in [Frame -> Chunk] /\ Settled \in [Frame -> Chunk]
  BY SettledSound DEF LedgerInv, RowsOK, Sound
<1>2. chunk' = [Settled EXCEPT ![c].state = "assigned"] /\ Settled[c].state = "pending"
  BY DEF Dispatch
<1>3. Descends(Settled)
  BY <1>1, SettledDescends
<1>. DEFINE mid == Settled
            new == chunk'
<1>4. mid \in [Frame -> Chunk] /\ Descends(mid)
  BY <1>1, <1>3
<1>5. \A d \in Frame : \/ new[d] = mid[d]
                       \/ Exists(mid, d) /\ \E s : new[d] = [mid[d] EXCEPT !.state = s]
  <2>1. new = [mid EXCEPT ![c].state = "assigned"] /\ Exists(mid, c)
    BY <1>2 DEF Exists
  <2>. HIDE DEF mid, new
  <2>. QED
    BY <1>4, <2>1
<1>. HIDE DEF mid, new
<1>6. Descends(new)
  BY <1>4, <1>5, SetAfterDescends
<1>. QED
  BY <1>6 DEF new

\* forgetNode.
LEMMA NodeGoneDescends ==
    ASSUME LedgerInv, FramesInv, RunsInv, NEW n \in Node, NodeGone(n)
    PROVE  Descends(chunk')
<1>. DEFINE orphans == { run[r].chunk : r \in byNode[n] }
            new     == chunk'
<1>1. chunk \in [Frame -> Chunk] /\ Divided(chunk, downloaded) /\ byNode[n] \in SUBSET Run
  BY DEF LedgerInv, RowsOK, RunsOK, Sound, FramesInv
<1>2. orphans \in SUBSET Frame /\ \A c \in orphans : Exists(chunk, c)
  BY <1>1, LiveChunk DEF RunsInv, RegisteredLive
<1>3. CASE orphans = {} \/ jobState = "cancelled"
  <2>1. chunk' = chunk
    BY <1>3 DEF NodeGone
  <2>. QED
    BY <1>1, <2>1, SameDescends
<1>4. CASE orphans # {} /\ jobState = "failed"
  <2>1. new = [c \in Frame |-> IF c \in orphans /\ chunk[c].state # "complete"
                               THEN [chunk[c] EXCEPT !.state = "failed"] ELSE chunk[c]]
    BY <1>4 DEF NodeGone
  <2>. HIDE DEF orphans, new
  <2>2. \A d \in Frame : \/ new[d] = chunk[d]
                         \/ Exists(chunk, d) /\ \E s : new[d] = [chunk[d] EXCEPT !.state = s]
    BY <1>2, <2>1
  <2>3. Descends(new)
    BY <1>1, <2>2, StatesDescend
  <2>. QED
    BY <2>3 DEF new
<1>5. CASE orphans # {} /\ jobState \notin {"cancelled", "failed"}
  <2>1. chunk' = Resplit(orphans, "infra", downloaded)
    BY <1>5 DEF NodeGone
  <2>. HIDE DEF orphans
  <2>2. Descends(Resplit(orphans, "infra", downloaded))
    BY <1>1, <1>2, ResplitDescends
  <2>. QED
    BY <2>1, <2>2
<1>. QED
  BY <1>3, <1>4, <1>5

\* recoverAtStart, and the tick that follows it.
LEMMA RestartDescends ==
    ASSUME LedgerInv, FramesInv, Restart
    PROVE  Descends(chunk')
<1>. DEFINE S      == { c \in Frame : chunk[c].state \in InFlight }
            resent == Resplit(S, "none", downloaded)
            js     == IF S = {} THEN jobState ELSE Refreshed(jobState, resent, downloaded)
            new    == chunk'
<1>1. /\ chunk \in [Frame -> Chunk] /\ Divided(chunk, downloaded)
      /\ S \in SUBSET Frame /\ \A c \in S : Exists(chunk, c)
  BY StatesDiffer DEF LedgerInv, RowsOK, Sound, FramesInv, Exists
<1>2. resent \in [Frame -> Chunk]
  BY <1>1, ResplitSound DEF LedgerInv, RowsOK, Sound
<1>3. Descends(resent)
  <2>. HIDE DEF S
  <2>. QED
    BY <1>1, ResplitDescends
<1>4. new = [c \in Frame |->
                     IF /\ js \in {"queued", "running"}
                        /\ resent[c].state = "pending"
                        /\ Covered(resent[c]) \subseteq downloaded
                     THEN [resent[c] EXCEPT !.state = "complete"]
                     ELSE resent[c]]
  BY DEF Restart
<1>. HIDE DEF resent, js, new
<1>5. \A d \in Frame : \/ new[d] = resent[d]
                       \/ Exists(resent, d) /\ \E s : new[d] = [resent[d] EXCEPT !.state = s]
  BY <1>4 DEF Exists
<1>6. Descends(new)
  BY <1>2, <1>3, <1>5, SetAfterDescends
<1>. QED
  BY <1>6 DEF new

\* finish('complete'), and nothingLeft.
LEMMA FinishCompleteDescends ==
    ASSUME LedgerInv, FramesInv, RunsInv, NEW r \in Run, Live(r), NEW rendered, NEW F,
           FinishComplete(r, rendered, F)
    PROVE  Descends(chunk')
<1>. DEFINE c == run[r].chunk
<1>1. c \in Frame /\ Exists(chunk, c) /\ chunk \in [Frame -> Chunk]
  BY LiveChunk DEF LedgerInv, RowsOK, Sound
<1>2. chunk' = [chunk EXCEPT ![c].state = IF jobState = "cancelled" THEN @ ELSE "complete"]
  BY DEF FinishComplete
<1>. QED
  BY <1>1, <1>2, SetDescends

\* finish('failed') with the requeue after it.
LEMMA FinishFailedDescends ==
    ASSUME LedgerInv, FramesInv, RunsInv, NEW r \in Run, Live(r), NEW failure, NEW F,
           FinishFailed(r, failure, F)
    PROVE  Descends(chunk')
<1>1. run[r].chunk \in Frame /\ Exists(chunk, run[r].chunk)
  BY LiveChunk
<1>2. Requeue(run[r].chunk, run[r].node, failure, downloaded \cup F)
  BY DEF FinishFailed
<1>. QED
  BY <1>1, <1>2, RequeueDescends

\* Every step's rows descend from those before it, and no frame is lost again.
LEMMA DescendsStep ==
    ASSUME AllInv, TornNext
    PROVE  Descends(chunk') /\ downloaded \subseteq downloaded'
<1>0. LedgerInv /\ FramesInv /\ RunsInv /\ chunk \in [Frame -> Chunk]
  BY DEF AllInv, LedgerInv, RowsOK, Sound
<1>. DEFINE Goal == Descends(chunk') /\ downloaded \subseteq downloaded'
<1>1. CASE TickSettles
  <2>1. chunk' = Settled /\ downloaded' = downloaded
    BY <1>1 DEF TickSettles
  <2>2. Descends(Settled)
    BY <1>0, SettledDescends
  <2>. QED
    BY <2>1, <2>2
<1>2. CASE Sends
  <2>1. PICK c \in Frame, n \in Node, r \in Run : Dispatch(c, n, r)
    BY <1>2 DEF Sends
  <2>2. Descends(chunk')
    BY <1>0, <2>1, DispatchDescends
  <2>3. downloaded' = downloaded
    BY <2>1 DEF Dispatch
  <2>. QED
    BY <2>2, <2>3
<1>3. ASSUME NEW r \in Run, Proceed(r)
      PROVE  Goal
  <2>0. Live(r) => run[r].chunk \in Frame /\ Exists(chunk, run[r].chunk)
    BY <1>0, LiveChunk
  <2>1. CASE PrepDone(r)
    BY <1>0, <2>1, SameDescends DEF PrepDone, rows
  <2>2. CASE NothingLeft(r)
    BY <1>0, <2>2, FinishCompleteDescends DEF NothingLeft, FinishComplete
  <2>3. CASE SpecSent(r)
    BY <1>0, <2>0, <2>3, SetDescends DEF SpecSent
  <2>4. CASE SeesDone(r)
    BY <1>0, <2>0, <2>4, SetDescends DEF SeesDone
  <2>5. CASE SeesFailure(r)
    BY <1>0, <2>5, SameDescends DEF SeesFailure, rows
  <2>6. CASE GivesUp(r)
    BY <1>0, <2>6, SameDescends DEF GivesUp, rows
  <2>7. ASSUME NEW failure \in Failures, DispatchFails(r, failure)
        PROVE  Goal
    BY <1>0, <2>7, FinishFailedDescends DEF DispatchFails, FinishFailed
  <2>8. ASSUME NEW F \in Marks(r), DrainCompletes(r, F)
        PROVE  Goal
    BY <1>0, <2>8, FinishCompleteDescends DEF DrainCompletes, FinishComplete
  <2>9. ASSUME NEW F \in Marks(r), StoppedReturns(r, F)
        PROVE  Goal
    BY <1>0, <2>9, SameDescends DEF StoppedReturns
  <2>10. ASSUME NEW F \in Marks(r), NEW failure \in Failures,
                PollFails(r, failure, F) \/ DrainFails(r, failure, F)
         PROVE  Goal
    BY <1>0, <2>10, FinishFailedDescends DEF PollFails, DrainFails, FinishFailed
  <2>. HIDE DEF Goal
  <2>. QED
    BY <1>3, <2>1, <2>2, <2>3, <2>4, <2>5, <2>6, <2>7, <2>8, <2>9, <2>10 DEF Proceed
<1>4. ASSUME NEW r \in Run, NEW f \in Frame, FrameLands(r, f)
      PROVE  Goal
  BY <1>0, <1>4, SameDescends DEF FrameLands
<1>5. ASSUME NEW r \in Run, SeesEncoding(r)
      PROVE  Goal
  BY <1>0, <1>5, LiveChunk, SetDescends DEF SeesEncoding
<1>6. ASSUME NEW n \in Node, NodeGone(n)
      PROVE  Goal
  BY <1>0, <1>6, NodeGoneDescends DEF NodeGone
<1>7. ASSUME NEW n \in Node, NodeUsable(n)
      PROVE  Goal
  BY <1>0, <1>7, SameDescends DEF NodeUsable, rows
<1>8. CASE Cancel
  <2>1. \A d \in Frame : \/ chunk'[d] = chunk[d]
                         \/ Exists(chunk, d) /\ chunk'[d] = [chunk[d] EXCEPT !.state = "cancelled"]
    BY <1>8 DEF Cancel, Closed, Exists
  <2>. DEFINE new == chunk'
  <2>2. \A d \in Frame : \/ new[d] = chunk[d]
                         \/ Exists(chunk, d) /\ \E s : new[d] = [chunk[d] EXCEPT !.state = s]
    BY <2>1
  <2>. HIDE DEF new
  <2>3. Descends(new)
    BY <1>0, <2>2, StatesDescend
  <2>. QED
    BY <1>8, <2>3 DEF new, Cancel
<1>9. CASE Resume
  BY <1>0, <1>9, SameDescends DEF Resume
<1>10. CASE RetryMissing
  <2>. DEFINE S == { c \in Frame : chunk[c].state \in Stopped }
  <2>1. chunk' = Revived(S) /\ downloaded' = downloaded
    BY <1>10 DEF RetryMissing
  <2>2. S \in SUBSET Frame /\ \A c \in S : chunk[c].state \in Stopped
    OBVIOUS
  <2>. HIDE DEF S
  <2>3. Descends(Revived(S))
    BY <1>0, <2>2, RevivedDescends
  <2>. QED
    BY <2>1, <2>3
<1>11. CASE Crash
  BY <1>0, <1>11, SameDescends DEF Crash, rows
<1>12. CASE Restart
  BY <1>0, <1>12, RestartDescends DEF Restart
<1>13. ASSUME NEW r \in Run, NEW verdict \in {"complete", "failed"}, NEW F \in Marks(r),
              CrashSettling(r, verdict, F)
       PROVE  Goal
  BY <1>0, <1>13, LiveChunk, SetDescends DEF CrashSettling
<1>. HIDE DEF Goal
<1>. QED
  BY <1>1, <1>2, <1>3, <1>4, <1>5, <1>6, <1>7, <1>8, <1>9, <1>10, <1>11, <1>12, <1>13
  DEF TornNext, Next, Work, Lands, Goal

\* Whatever chunk a re-split puts a frame still to come in, that chunk counts at least the
\* attempts already spent on the frame, through failures, lost nodes, restarts and torn
\* handlers (scheduler.ts resplitAroundDownloaded).  It needs the division of the frames: the
\* row that a new one comes from is the only one that had the frame.
THEOREM BudgetKept == TornSpec => FrameBudgetKept
<1>. DEFINE Kept ==
              \A c, d \in Frame :
                /\ chunk[c].state \notin {"absent"} \cup Stopped
                /\ chunk'[d].state # "absent"
                /\ (Covered(chunk[c]) \cap Covered(chunk'[d])) \ downloaded' # {}
                => /\ chunk'[d].retries >= chunk[c].retries
                   /\ chunk'[d].infra >= chunk[c].infra
<1>1. ASSUME AllInv, TornNext
      PROVE  Kept
  <2>. SUFFICES ASSUME NEW c \in Frame, NEW d \in Frame,
                       chunk[c].state \notin {"absent"} \cup Stopped,
                       chunk'[d].state # "absent",
                       NEW f \in (Covered(chunk[c]) \cap Covered(chunk'[d])) \ downloaded'
                PROVE  /\ chunk'[d].retries >= chunk[c].retries
                       /\ chunk'[d].infra >= chunk[c].infra
    OBVIOUS
  <2>1. Descends(chunk') /\ downloaded \subseteq downloaded'
    BY <1>1, DescendsStep
  <2>. DEFINE new == chunk'
  <2>2. Exists(new, d) /\ Descends(new) /\ f \in Covered(new[d])
    BY <2>1 DEF Exists
  <2>. HIDE DEF new
  <2>3. PICK e \in Frame :
            /\ Exists(chunk, e)
            /\ Covered(new[d]) \subseteq Covered(chunk[e])
            /\ \/ chunk[e].state \in Stopped
               \/ new[d].retries >= chunk[e].retries /\ new[d].infra >= chunk[e].infra
    BY <2>2 DEF Descends
  <2>4. f \in Covered(chunk[e]) /\ f \in Covered(chunk[c]) /\ f \notin downloaded
        /\ Exists(chunk, c)
    BY <2>1, <2>2, <2>3 DEF Exists
  <2>5. Disjoint(chunk, downloaded) /\ chunk \in [Frame -> Chunk]
    BY <1>1 DEF AllInv, FramesInv, Divided, LedgerInv, RowsOK, Sound
  <2>6. e = c
    BY <2>3, <2>4, <2>5 DEF Disjoint
  <2>. QED
    BY <2>3, <2>6 DEF new
<1>2. AllInv /\ [TornNext]_vars => [Kept]_chunk
  BY <1>1 DEF vars
<1>3. []AllInv /\ [][TornNext]_vars => [][Kept]_chunk
  BY <1>2, PTL
<1>. QED
  BY <1>3, AllInvariant, PTL DEF TornSpec, FrameBudgetKept

-----------------------------------------------------------------------------
\* What the job promises its user, under Spec and for a job of one file per frame.

\* A chunk that stopped short, of a job that neither failed nor was cancelled, misses a frame.
StoppedMiss ==
    jobState \notin {"cancelled", "failed"} =>
        \A c \in Frame : chunk[c].state \in Stopped => \E f \in Covered(chunk[c]) : f \notin downloaded

\* Rows in which no chunk newly stopped, with no frame landing.
LEMMA MissStays ==
    ASSUME StoppedMiss, downloaded' = downloaded,
           jobState \in {"cancelled", "failed"} => jobState' \in {"cancelled", "failed"},
           \A d \in Frame : chunk'[d].state \in Stopped => chunk'[d] = chunk[d]
    PROVE  StoppedMiss'
  BY DEF StoppedMiss

\* A re-split fails only chunks that miss a frame.
LEMMA ResplitMisses ==
    ASSUME chunk \in [Frame -> Chunk], Divided(chunk, downloaded),
           NEW budget, NEW S \in SUBSET Frame, \A c \in S : Exists(chunk, c),
           NEW d \in Frame, Resplit(S, budget, downloaded)[d].state \in Stopped
    PROVE  \/ Resplit(S, budget, downloaded)[d] = chunk[d]
           \/ \E f \in Covered(Resplit(S, budget, downloaded)[d]) : f \notin downloaded
<1>. DEFINE new == Resplit(S, budget, downloaded)
<1>1. CASE d \in S
  <2>1. new[d].state = "failed"
    BY <1>1, ResplitSettles DEF Stopped
  <2>2. Runs(d, downloaded) # {} /\ Spent(d, budget)
    BY <1>1, <2>1, ResplitSettles
  <2>3. new[d] = [chunk[d] EXCEPT !.state = "failed"]
    BY <1>1, <2>2 DEF Resplit
  <2>. HIDE DEF new
  <2>4. Covered(new[d]) = Covered(chunk[d])
    BY <2>3, SetKeepsWork
  <2>5. PICK rg \in Runs(d, downloaded) : TRUE
    BY <2>2
  <2>6. rg.lo \in Covered(rg) /\ Covered(rg) \subseteq Covered(chunk[d]) \ downloaded
    BY <2>5, RunOfChunk
  <2>. QED
    BY <2>4, <2>6 DEF new
<1>2. CASE d \notin S
  BY <1>2, ResplitLeaves DEF Stopped
<1>. QED
  BY <1>1, <1>2

\* requeue, with no frame marked.
LEMMA RequeueMisses ==
    ASSUME LedgerInv, FramesInv, StoppedMiss, NEW c \in Frame, Exists(chunk, c), NEW n,
           NEW failure, downloaded' = downloaded, Requeue(c, n, failure, downloaded)
    PROVE  StoppedMiss'
<1>1. chunk \in [Frame -> Chunk] /\ Divided(chunk, downloaded)
  BY DEF LedgerInv, RowsOK, Sound, FramesInv
<1>2. CASE jobState \in {"cancelled", "failed"} \/ failure = "fatal"
  <2>1. jobState' \in {"cancelled", "failed"}
    BY <1>2 DEF Requeue
  <2>. QED
    BY <2>1 DEF StoppedMiss
<1>3. CASE jobState \notin {"cancelled", "failed"} /\ failure # "fatal"
  <2>. DEFINE S == {c}
              b == Budget(failure)
  <2>1. chunk' = Resplit(S, b, downloaded)
    BY <1>3 DEF Requeue
  <2>2. S \in SUBSET Frame /\ \A e \in S : Exists(chunk, e)
    OBVIOUS
  <2>. HIDE DEF S, b
  <2>3. ASSUME NEW d \in Frame, Resplit(S, b, downloaded)[d].state \in Stopped
        PROVE  \/ Resplit(S, b, downloaded)[d] = chunk[d]
               \/ \E f \in Covered(Resplit(S, b, downloaded)[d]) : f \notin downloaded
    BY <1>1, <2>2, <2>3, ResplitMisses
  <2>. QED
    BY <1>3, <2>1, <2>3 DEF StoppedMiss
<1>. QED
  BY <1>2, <1>3

\* A frame lands in the range of a live run, whose chunk is in flight: no stopped chunk has it.
LEMMA LandsMisses ==
    ASSUME AllInv, StoppedMiss, NEW r \in Run, NEW f \in Frame, FrameLands(r, f)
    PROVE  StoppedMiss'
<1>. DEFINE c == run[r].chunk
<1>1. /\ Live(r) /\ f \in (run[r].lo .. run[r].hi) \ downloaded
      /\ downloaded' = downloaded \cup {f} /\ chunk' = chunk /\ jobState' = jobState
  BY DEF FrameLands
<1>2. c \in Frame /\ Exists(chunk, c) /\ chunk[c].state \in InFlight
  BY <1>1, LiveChunk DEF AllInv
<1>3. f \in Covered(chunk[c])
  BY <1>1 DEF AllInv, RunsInv, OwnersLive, Covered
<1>4. Disjoint(chunk, downloaded)
  BY DEF AllInv, FramesInv, Divided
<1>5. ASSUME NEW d \in Frame, chunk[d].state \in Stopped
      PROVE  f \notin Covered(chunk[d])
  <2>1. d # c /\ Exists(chunk, d)
    BY <1>2, <1>5 DEF Stopped, InFlight, Exists
  <2>. QED
    BY <1>1, <1>2, <1>3, <1>4, <2>1 DEF Disjoint
<1>. QED
  BY <1>1, <1>5 DEF StoppedMiss

\* recoverAtStart.
LEMMA RestartMisses ==
    ASSUME AllInv, StoppedMiss, Restart
    PROVE  StoppedMiss'
<1>. DEFINE S      == { c \in Frame : chunk[c].state \in InFlight }
            resent == Resplit(S, "none", downloaded)
            js     == IF S = {} THEN jobState ELSE Refreshed(jobState, resent, downloaded)
<1>1. /\ chunk \in [Frame -> Chunk] /\ Divided(chunk, downloaded) /\ jobState \in JobStates
      /\ S \in SUBSET Frame /\ \A c \in S : Exists(chunk, c)
  BY StatesDiffer DEF AllInv, LedgerInv, RowsOK, Sound, FramesInv, Exists
<1>2. /\ downloaded' = downloaded
      /\ chunk' = [c \in Frame |->
                     IF /\ js \in {"queued", "running"}
                        /\ resent[c].state = "pending"
                        /\ Covered(resent[c]) \subseteq downloaded
                     THEN [resent[c] EXCEPT !.state = "complete"]
                     ELSE resent[c]]
      /\ jobState' = IF chunk' = resent THEN js ELSE Refreshed(js, chunk', downloaded)
  BY DEF Restart
<1>3. resent \in [Frame -> Chunk]
  BY <1>1, ResplitSound DEF AllInv, LedgerInv, RowsOK, Sound
<1>4. js \in JobStates
      /\ (js \in {"cancelled", "failed"} <=> jobState \in {"cancelled", "failed"})
  <2>. HIDE DEF S, resent
  <2>. QED
    BY <1>1, RefreshedStops, RefreshedType
<1>5. jobState' \in {"cancelled", "failed"} <=> jobState \in {"cancelled", "failed"}
  <2>. HIDE DEF S, resent, js
  <2>. QED
    BY <1>2, <1>4, RefreshedStops
<1>6. ASSUME NEW d \in Frame, chunk'[d].state \in Stopped
      PROVE  chunk'[d] = chunk[d] \/ \E f \in Covered(chunk'[d]) : f \notin downloaded
  <2>1. resent[d].state \in Stopped =>
          resent[d] = chunk[d] \/ \E f \in Covered(resent[d]) : f \notin downloaded
    <3>. HIDE DEF S
    <3>. QED
      BY <1>1, ResplitMisses
  <2>. HIDE DEF S, resent, js
  <2>2. [resent[d] EXCEPT !.state = "complete"].state = "complete"
    BY <1>3, RowSet, StatesExist
  <2>3. chunk'[d] = resent[d]
    BY <1>2, <1>6, <2>2 DEF Stopped
  <2>. QED
    BY <1>6, <2>1, <2>3
<1>. QED
  BY <1>2, <1>5, <1>6 DEF StoppedMiss

\* A run of a job of one file per frame marks nothing as its pass ends.
LEMMA NothingMarked ==
    ASSUME ~MultiView, NEW r \in Run, NEW F \in Marks(r)
    PROVE  downloaded \cup F = downloaded
  BY DEF Marks

\* A live run's job is queued, running, or has failed.
LEMMA LiveJob ==
    ASSUME AllInv, PolicyInv, NEW r \in Run, Live(r)
    PROVE  jobState \in {"running", "failed"}
<1>1. /\ run[r].chunk \in Frame /\ chunk[run[r].chunk].state \in InFlight
      /\ jobState # "cancelled"
  BY LiveChunk DEF AllInv
<1>. QED
  BY <1>1, RefreshedFlight DEF PolicyInv, FreshAlways

\* job:retryMissing leaves no chunk stopped.
LEMMA RetryMissingRows ==
    ASSUME AllInv, RetryMissing
    PROVE  /\ \A d \in Frame : chunk'[d].state \notin Stopped
           /\ \A d \in Frame : chunk[d].state \in Stopped /\ Runs(d, downloaded) # {} =>
                                   chunk'[d].state = "pending"
<1>. DEFINE S == { c \in Frame : chunk[c].state \in Stopped }
<1>1. /\ chunk \in [Frame -> Chunk] /\ Divided(chunk, downloaded)
      /\ S \in SUBSET Frame /\ \A c \in S : Exists(chunk, c)
  BY DEF AllInv, LedgerInv, RowsOK, Sound, FramesInv, Stopped, Exists
<1>2. chunk' = Revived(S)
  BY DEF RetryMissing
<1>3. "complete" \notin Stopped /\ "pending" \notin Stopped
  BY DEF Stopped
<1>4. ASSUME NEW d \in Frame
      PROVE  /\ chunk'[d].state \notin Stopped
             /\ d \in S /\ Runs(d, downloaded) # {} => chunk'[d].state = "pending"
  <2>1. d \notin S => chunk[d].state \notin Stopped
    OBVIOUS
  <2>. HIDE DEF S
  <2>2. CASE d \in S
    BY <1>1, <1>2, <1>3, <2>2, RevivedSettles
  <2>3. CASE d \notin S
    BY <1>1, <1>2, <1>3, <2>1, <2>3, RevivedLeaves
  <2>. QED
    BY <2>2, <2>3
<1>. QED
  BY <1>4

\* Every step keeps a stopped chunk short of a frame.
LEMMA MissStep ==
    ASSUME ~MultiView, AllInv, PolicyInv, StoppedMiss, [Next]_vars
    PROVE  StoppedMiss'
<1>0. /\ LedgerInv /\ FramesInv /\ RunsInv /\ chunk \in [Frame -> Chunk] /\ jobState \in JobStates
      /\ Settled \in [Frame -> Chunk]
  BY SettledSound DEF AllInv, LedgerInv, RowsOK, Sound
<1>00. InFlight \cap Stopped = {} /\ "complete" \notin Stopped /\ "pending" \notin Stopped
  BY DEF InFlight, Stopped
<1>01. \A d \in Frame : Settled[d].state \in Stopped => Settled[d] = chunk[d]
  BY <1>0, <1>00, SettledFlight
<1>02. ASSUME NEW c \in Frame, NEW s \in ChunkStates \ Stopped, downloaded' = downloaded,
              chunk' = [chunk EXCEPT ![c].state = s],
              jobState' = jobState \/ jobState' = Refreshed(jobState, chunk', downloaded)
       PROVE  StoppedMiss'
  <2>1. chunk'[c] = [chunk[c] EXCEPT !.state = s] /\ \A d \in Frame : d # c => chunk'[d] = chunk[d]
    BY <1>0, <1>02
  <2>2. chunk'[c].state = s
    BY <1>0, <2>1, RowSet
  <2>3. \A d \in Frame : chunk'[d].state \in Stopped => chunk'[d] = chunk[d]
    BY <2>1, <2>2
  <2>4. jobState \in {"cancelled", "failed"} => jobState' \in {"cancelled", "failed"}
    BY <1>0, <1>02, RefreshedStops
  <2>. QED
    BY <1>02, <2>3, <2>4, MissStays
<1>03. ASSUME NEW r \in Run, Live(r), NEW failure, NEW F \in {{}} \cup Marks(r),
              FinishFailed(r, failure, F)
       PROVE  StoppedMiss'
  <2>1. downloaded \cup F = downloaded
    BY NothingMarked
  <2>2. downloaded' = downloaded /\ Requeue(run[r].chunk, run[r].node, failure, downloaded)
    BY <1>03, <2>1 DEF FinishFailed
  <2>3. run[r].chunk \in Frame /\ Exists(chunk, run[r].chunk)
    BY <1>0, <1>03, LiveChunk
  <2>. QED
    BY <1>0, <2>2, <2>3, RequeueMisses
<1>04. ASSUME NEW r \in Run, Live(r), NEW rendered, NEW F \in {{}} \cup Marks(r),
              FinishComplete(r, rendered, F)
       PROVE  StoppedMiss'
  <2>1. downloaded \cup F = downloaded
    BY NothingMarked
  <2>2. run[r].chunk \in Frame /\ jobState # "cancelled"
    BY <1>0, <1>04, LiveChunk
  <2>3. /\ downloaded' = downloaded
        /\ chunk' = [chunk EXCEPT ![run[r].chunk].state = "complete"]
        /\ jobState' = Refreshed(jobState, chunk', downloaded)
    BY <1>04, <2>1, <2>2 DEF FinishComplete
  <2>. QED
    BY <1>00, <1>02, <2>2, <2>3, StatesExist
<1>1. CASE UNCHANGED vars
  BY <1>1, MissStays DEF vars
<1>2. CASE TickSettles
  <2>1. /\ chunk' = Settled /\ downloaded' = downloaded
        /\ jobState' = Refreshed(jobState, chunk', downloaded)
    BY <1>2 DEF TickSettles
  <2>. QED
    BY <1>0, <1>01, <2>1, RefreshedStops, MissStays
<1>3. ASSUME NEW c \in Frame, NEW n \in Node, NEW r \in Run, Dispatch(c, n, r)
      PROVE  StoppedMiss'
  <2>. DEFINE js == Refreshed(jobState, Settled, downloaded)
  <2>1. /\ chunk' = [Settled EXCEPT ![c].state = "assigned"] /\ downloaded' = downloaded
        /\ js \in {"queued", "running"}
    BY <1>3 DEF Dispatch
  <2>2. jobState \notin {"cancelled", "failed"}
    BY <1>0, <2>1, RefreshedStops
  <2>3. chunk'[c].state = "assigned" /\ \A d \in Frame : d # c => chunk'[d] = Settled[d]
    <3>1. chunk'[c] = [Settled[c] EXCEPT !.state = "assigned"]
          /\ \A d \in Frame : d # c => chunk'[d] = Settled[d]
      BY <1>0, <2>1
    <3>. QED
      BY <1>0, <3>1, RowSet, StatesExist
  <2>4. \A d \in Frame : chunk'[d].state \in Stopped => chunk'[d] = chunk[d]
    BY <1>00, <1>01, <2>3, StatesDiffer
  <2>. QED
    BY <2>1, <2>2, <2>4, MissStays
<1>4. ASSUME NEW r \in Run, Proceed(r)
      PROVE  StoppedMiss'
  <2>0. /\ Live(r) => run[r].chunk \in Frame
        /\ "rendering" \in ChunkStates \ Stopped /\ "downloading" \in ChunkStates \ Stopped
    BY <1>0, LiveChunk, StatesExist DEF Stopped
  <2>1. CASE PrepDone(r)
    BY <2>1, MissStays DEF PrepDone, rows
  <2>2. CASE NothingLeft(r)
    BY <1>04, <2>2 DEF NothingLeft
  <2>3. CASE SpecSent(r)
    BY <1>02, <2>0, <2>3 DEF SpecSent
  <2>4. CASE SeesDone(r)
    BY <1>02, <2>0, <2>4 DEF SeesDone
  <2>5. CASE SeesFailure(r)
    BY <2>5, MissStays DEF SeesFailure, rows
  <2>6. CASE GivesUp(r)
    BY <2>6, MissStays DEF GivesUp, rows
  <2>7. ASSUME NEW failure \in Failures, DispatchFails(r, failure)
        PROVE  StoppedMiss'
    BY <1>03, <2>7 DEF DispatchFails
  <2>8. ASSUME NEW F \in Marks(r), DrainCompletes(r, F)
        PROVE  StoppedMiss'
    BY <1>04, <2>8 DEF DrainCompletes
  <2>9. ASSUME NEW F \in Marks(r), StoppedReturns(r, F)
        PROVE  StoppedMiss'
    BY <2>9, NothingMarked, MissStays DEF StoppedReturns
  <2>10. ASSUME NEW F \in Marks(r), NEW failure \in Failures,
                PollFails(r, failure, F) \/ DrainFails(r, failure, F)
         PROVE  StoppedMiss'
    BY <1>03, <2>10 DEF PollFails, DrainFails
  <2>. QED
    BY <1>4, <2>1, <2>2, <2>3, <2>4, <2>5, <2>6, <2>7, <2>8, <2>9, <2>10 DEF Proceed
<1>5. ASSUME NEW r \in Run, NEW f \in Frame, FrameLands(r, f)
      PROVE  StoppedMiss'
  BY <1>5, LandsMisses
<1>6. ASSUME NEW r \in Run, SeesEncoding(r)
      PROVE  StoppedMiss'
  <2>1. run[r].chunk \in Frame /\ "encoding" \in ChunkStates \ Stopped
    BY <1>0, <1>6, LiveChunk, StatesExist DEF SeesEncoding, Stopped
  <2>. QED
    BY <1>02, <1>6, <2>1 DEF SeesEncoding
<1>7. ASSUME NEW n \in Node, NodeGone(n)
      PROVE  StoppedMiss'
  <2>. DEFINE orphans == { run[r].chunk : r \in byNode[n] }
  <2>1. orphans \in SUBSET Frame /\ \A c \in orphans : Exists(chunk, c)
    BY <1>0, LiveChunk DEF RunsInv, RegisteredLive, LedgerInv, RunsOK
  <2>2. downloaded' = downloaded
    BY <1>7 DEF NodeGone
  <2>3. CASE orphans = {}
    BY <1>7, <2>2, <2>3, MissStays DEF NodeGone
  <2>4. CASE orphans # {} /\ jobState \in {"cancelled", "failed"}
    <3>1. jobState' = jobState
      BY <1>7, <2>4, RefreshedEnds DEF NodeGone
    <3>. QED
      BY <2>4, <3>1 DEF StoppedMiss
  <2>5. CASE orphans # {} /\ jobState \notin {"cancelled", "failed"}
    <3>1. chunk' = Resplit(orphans, "infra", downloaded)
      BY <1>7, <2>5 DEF NodeGone
    <3>2. Divided(chunk, downloaded)
      BY <1>0 DEF FramesInv
    <3>. HIDE DEF orphans
    <3>3. ASSUME NEW d \in Frame, Resplit(orphans, "infra", downloaded)[d].state \in Stopped
          PROVE  \/ Resplit(orphans, "infra", downloaded)[d] = chunk[d]
                 \/ \E f \in Covered(Resplit(orphans, "infra", downloaded)[d]) : f \notin downloaded
      BY <1>0, <2>1, <3>2, <3>3, ResplitMisses
    <3>. QED
      BY <2>2, <2>5, <3>1, <3>3 DEF StoppedMiss
  <2>. QED
    BY <2>3, <2>4, <2>5
<1>8. ASSUME NEW n \in Node, NodeUsable(n)
      PROVE  StoppedMiss'
  BY <1>8, MissStays DEF NodeUsable, rows
<1>9. CASE Cancel
  BY <1>9 DEF Cancel, StoppedMiss
<1>10. CASE Resume
  BY <1>10, MissStays DEF Resume
<1>11. CASE RetryMissing
  BY <1>11, RetryMissingRows DEF StoppedMiss
<1>12. CASE Crash
  BY <1>12, MissStays DEF Crash, rows
<1>13. CASE Restart
  BY <1>13, RestartMisses
<1>. QED
  BY <1>1, <1>2, <1>3, <1>4, <1>5, <1>6, <1>7, <1>8, <1>9, <1>10, <1>11, <1>12, <1>13
  DEF Next, Work, Lands, Sends

\* A verdict is what the frames say: complete with every frame here, short with one missing.
VerdictTrue ==
    /\ jobState = "complete" => downloaded = Frame
    /\ jobState = "partial" => downloaded # Frame

LEMMA VerdictMeans ==
    ASSUME AllInv, PolicyInv, StoppedMiss
    PROVE  VerdictTrue
<1>. DEFINE states == { chunk[c].state : c \in Frame } \ {"absent"}
<1>1. /\ downloaded \subseteq Frame /\ jobState = Refreshed(jobState, chunk, downloaded)
      /\ chunk \in [Frame -> Chunk]
  BY DEF AllInv, LedgerInv, RowsOK, Sound, PolicyInv, FreshAlways
<1>2. jobState = "complete" => Frame \subseteq downloaded
  BY <1>1 DEF Refreshed
<1>3. ASSUME jobState = "partial", downloaded = Frame
      PROVE  FALSE
  <2>1. states \subseteq {"complete"} \cup Stopped /\ ~(states \subseteq {"complete"})
    BY <1>1, <1>3 DEF Refreshed
  <2>2. PICK c \in Frame : chunk[c].state \in Stopped
    BY <2>1
  <2>3. PICK f \in Covered(chunk[c]) : f \notin downloaded
    BY <1>3, <2>2 DEF StoppedMiss
  <2>4. f \in Frame
    <3>1. chunk[c] \in Chunk
      BY <1>1
    <3>2. chunk[c].lo \in 1 .. NumFrames /\ chunk[c].hi \in 0 .. NumFrames
      BY <3>1 DEF Chunk, Frame
    <3>. QED
      BY <2>3, <3>2, LedgerConstants DEF Covered, Frame
  <2>. QED
    BY <1>3, <2>3, <2>4
<1>. QED
  BY <1>1, <1>2, <1>3 DEF VerdictTrue

\* The chunks of a job that is over are closed, and no run goes on with them.
LEMMA OverIsIdle ==
    ASSUME AllInv, PolicyInv, jobState \in {"complete", "partial", "cancelled"}
    PROVE  /\ \A c \in Frame : chunk[c].state \in Closed
           /\ \A r \in Run : ~Live(r)
<1>. DEFINE states == { chunk[c].state : c \in Frame } \ {"absent"}
<1>1. \A r \in Run : ~Live(r)
  BY LiveJob
<1>2. CASE jobState = "cancelled"
  BY <1>1, <1>2 DEF AllInv, RunsInv, Quiet
<1>3. CASE jobState \in {"complete", "partial"}
  <2>1. states \subseteq {"complete"} \cup Stopped
    BY <1>3 DEF PolicyInv, FreshAlways, Refreshed
  <2>2. \A c \in Frame : chunk[c].state \in {"absent", "complete"} \cup Stopped
    BY <2>1
  <2>. QED
    BY <1>1, <2>2 DEF Closed
<1>. QED
  BY <1>2, <1>3

\* What a step may do to the frames and the verdict: nothing; land frames while the job is open
\* or has failed; move an open job; cancel; or queue again a job that is short of a frame.
Unmoved  == downloaded' = downloaded /\ jobState' = jobState
Landing  == /\ jobState \in {"queued", "running", "failed"} /\ jobState' = jobState
            /\ downloaded \subseteq downloaded'
Working  == /\ jobState \in {"queued", "running"} /\ jobState' # "cancelled"
            /\ downloaded' = downloaded
Calling  == jobState' = "cancelled" /\ downloaded' = downloaded
Queueing == /\ jobState \in {"partial", "cancelled"} /\ jobState' \in {"queued", "running"}
            /\ downloaded' = downloaded /\ downloaded # Frame

VerdictMoves == Unmoved \/ Landing \/ Working \/ Calling \/ Queueing

\* A job that is not over moves as its chunks do.
LEMMA RefreshedMoves ==
    ASSUME jobState \in {"queued", "running", "failed"}, downloaded' = downloaded,
           NEW ch, NEW got, jobState' = Refreshed(jobState, ch, got)
    PROVE  VerdictMoves
<1>1. CASE jobState = "failed"
  BY <1>1, RefreshedEnds DEF VerdictMoves, Unmoved
<1>2. CASE jobState # "failed"
  <2>1. jobState \in JobStates
    BY DEF JobStates
  <2>2. jobState' # "cancelled"
    BY <1>2, <2>1, RefreshedStops
  <2>. QED
    BY <1>2, <2>2 DEF VerdictMoves, Working
<1>. QED
  BY <1>1, <1>2

\* recoverAtStart leaves a job that is over as it is.
LEMMA RestartMoves ==
    ASSUME AllInv, PolicyInv, Restart
    PROVE  VerdictMoves
<1>. DEFINE S      == { c \in Frame : chunk[c].state \in InFlight }
            resent == Resplit(S, "none", downloaded)
            js     == IF S = {} THEN jobState ELSE Refreshed(jobState, resent, downloaded)
<1>1. jobState \in JobStates /\ chunk \in [Frame -> Chunk] /\ resent \in [Frame -> Chunk]
  BY ResplitSound DEF AllInv, LedgerInv, RowsOK, Sound
<1>2. /\ downloaded' = downloaded
      /\ chunk' = [c \in Frame |->
                     IF /\ js \in {"queued", "running"}
                        /\ resent[c].state = "pending"
                        /\ Covered(resent[c]) \subseteq downloaded
                     THEN [resent[c] EXCEPT !.state = "complete"]
                     ELSE resent[c]]
      /\ jobState' = IF chunk' = resent THEN js ELSE Refreshed(js, chunk', downloaded)
  BY DEF Restart
<1>3. CASE jobState \in {"complete", "partial", "cancelled"}
  <2>1. S = {}
    BY <1>3, OverIsIdle, StatesDiffer
  <2>2. js = jobState
    BY <2>1
  <2>. HIDE DEF resent, js, S
  <2>3. \A c \in Frame : chunk'[c] = resent[c]
    BY <1>2, <1>3, <2>2
  <2>4. chunk' = resent
    BY <1>1, <1>2, <2>3
  <2>. QED
    BY <1>2, <2>2, <2>4 DEF VerdictMoves, Unmoved
<1>4. CASE jobState = "failed"
  <2>1. js = "failed"
    BY <1>4, RefreshedEnds
  <2>. HIDE DEF resent, js, S
  <2>2. jobState' = "failed"
    BY <1>2, <2>1, RefreshedEnds
  <2>. QED
    BY <1>2, <1>4, <2>2 DEF VerdictMoves, Unmoved
<1>5. CASE jobState \in {"queued", "running"}
  <2>1. js \in JobStates /\ js # "cancelled"
    <3>. HIDE DEF resent, S
    <3>. QED
      BY <1>1, <1>5, RefreshedStops, RefreshedType
  <2>. HIDE DEF resent, js, S
  <2>2. jobState' # "cancelled"
    BY <1>2, <2>1, RefreshedStops
  <2>. QED
    BY <1>2, <1>5, <2>2 DEF VerdictMoves, Working
<1>. QED
  BY <1>1, <1>3, <1>4, <1>5 DEF JobStates

\* job:retryMissing queues a job again only for frames that are missing.
LEMMA RetryMissingMoves ==
    ASSUME AllInv, PolicyInv, StoppedMiss, RetryMissing
    PROVE  VerdictMoves
<1>. DEFINE S  == { c \in Frame : chunk[c].state \in Stopped }
            js == IF (\E c \in S : Runs(c, downloaded) # {}) /\ jobState = "cancelled"
                  THEN "queued" ELSE jobState
<1>0. chunk \in [Frame -> Chunk] /\ downloaded \subseteq Frame /\ jobState \in JobStates
  BY DEF AllInv, LedgerInv, RowsOK, Sound
<1>1. /\ jobState' = Refreshed(js, chunk', downloaded) /\ downloaded' = downloaded
      /\ S # {} /\ jobState # "failed"
  BY DEF RetryMissing
<1>2. ASSUME NEW c \in S, Runs(c, downloaded) # {}, js \notin {"cancelled", "failed"}
      PROVE  jobState' \in {"queued", "running"} /\ downloaded # Frame
  <2>1. PICK rg \in Runs(c, downloaded) : TRUE
    BY <1>2
  <2>2. rg.lo \in Frame /\ rg.lo \notin downloaded
    BY <1>0, <1>2, <2>1, RunOfChunk
  <2>3. c \in Frame /\ chunk'[c].state = "pending"
    BY <1>2, RetryMissingRows
  <2>. DEFINE new    == chunk'
              states == { new[d].state : d \in Frame } \ {"absent"}
  <2>4. "pending" \in states
    BY <2>3
  <2>5. ~(states \subseteq {"complete"}) /\ ~(states \subseteq {"complete"} \cup Stopped)
    <3>. HIDE DEF states
    <3>. QED
      BY <2>4 DEF Stopped
  <2>6. Refreshed(js, new, downloaded) \in {"queued", "running"}
    <3>. HIDE DEF new, js, S
    <3>. QED
      BY <1>2, <2>5 DEF Refreshed
  <2>. QED
    BY <1>1, <2>2, <2>6
<1>3. CASE jobState = "cancelled" /\ \E c \in S : Runs(c, downloaded) # {}
  <2>1. PICK c \in S : Runs(c, downloaded) # {}
    BY <1>3
  <2>2. js = "queued"
    BY <1>3
  <2>. HIDE DEF S, js
  <2>3. jobState' \in {"queued", "running"} /\ downloaded # Frame
    BY <1>2, <2>1, <2>2
  <2>. QED
    BY <1>1, <1>3, <2>3 DEF VerdictMoves, Queueing
<1>4. CASE jobState = "cancelled" /\ ~ \E c \in S : Runs(c, downloaded) # {}
  <2>1. js = "cancelled"
    BY <1>4
  <2>. HIDE DEF S, js
  <2>. QED
    BY <1>1, <1>4, <2>1, RefreshedEnds DEF VerdictMoves, Unmoved
<1>5. CASE jobState = "partial"
  <2>1. PICK c \in S : TRUE
    BY <1>1
  <2>2. PICK f \in Covered(chunk[c]) : f \notin downloaded
    BY <1>5, <2>1 DEF StoppedMiss
  <2>3. Runs(c, downloaded) # {}
    BY <1>0, <2>1, <2>2, RunsOfChunk
  <2>4. js = "partial"
    BY <1>5
  <2>. HIDE DEF S, js
  <2>5. jobState' \in {"queued", "running"} /\ downloaded # Frame
    BY <1>2, <2>1, <2>3, <2>4
  <2>. QED
    BY <1>1, <1>5, <2>5 DEF VerdictMoves, Queueing
<1>6. CASE jobState = "complete"
  <2>. DEFINE states == { chunk[d].state : d \in Frame } \ {"absent"}
  <2>1. states \subseteq {"complete"}
    BY <1>6 DEF PolicyInv, FreshAlways, Refreshed
  <2>2. PICK c \in Frame : chunk[c].state \in Stopped
    BY <1>1
  <2>3. chunk[c].state \in states
    BY <2>2 DEF Stopped
  <2>. HIDE DEF states
  <2>. QED
    BY <2>1, <2>2, <2>3 DEF Stopped
<1>7. CASE jobState \in {"queued", "running"}
  <2>1. js = jobState
    BY <1>7
  <2>2. jobState' # "cancelled"
    <3>. HIDE DEF S, js
    <3>. QED
      BY <1>0, <1>1, <1>7, <2>1, RefreshedStops
  <2>. QED
    BY <1>1, <1>7, <2>2 DEF VerdictMoves, Working
<1>. QED
  BY <1>0, <1>1, <1>3, <1>4, <1>5, <1>6, <1>7 DEF JobStates

\* Every step moves the frames and the verdict in one of these ways.
LEMMA VerdictSteps ==
    ASSUME ~MultiView, AllInv, PolicyInv, StoppedMiss, [Next]_vars
    PROVE  VerdictMoves
<1>0. /\ LedgerInv /\ FramesInv /\ RunsInv /\ jobState \in JobStates /\ chunk \in [Frame -> Chunk]
      /\ \A r \in Run : Live(r) => jobState \in {"running", "failed"}
  BY LiveJob DEF AllInv, LedgerInv, RowsOK, Sound
<1>01. ASSUME jobState \notin {"queued", "running"}
       PROVE  Settled = chunk
  <2>1. \A c \in Frame : Settled[c] = chunk[c]
    BY <1>01 DEF Settled
  <2>2. Settled = [c \in Frame |-> Settled[c]]
    BY DEF Settled
  <2>. HIDE DEF Settled
  <2>3. [c \in Frame |-> Settled[c]] = [c \in Frame |-> chunk[c]]
    BY <2>1
  <2>4. chunk = [c \in Frame |-> chunk[c]]
    BY <1>0
  <2>. QED
    BY <2>2, <2>3, <2>4
<1>02. ASSUME NEW r \in Run, Live(r), NEW failure, NEW F \in {{}} \cup Marks(r),
              FinishFailed(r, failure, F)
       PROVE  VerdictMoves
  <2>1. downloaded \cup F = downloaded
    BY NothingMarked
  <2>2. downloaded' = downloaded /\ Requeue(run[r].chunk, run[r].node, failure, downloaded)
    BY <1>02, <2>1 DEF FinishFailed
  <2>3. jobState \in {"queued", "running", "failed"}
    BY <1>0, <1>02
  <2>4. CASE jobState = "failed"
    BY <2>2, <2>4 DEF Requeue, VerdictMoves, Unmoved
  <2>5. CASE jobState # "failed" /\ failure = "fatal"
    <3>1. jobState' = "failed"
      BY <2>2, <2>3, <2>5 DEF Requeue
    <3>. QED
      BY <2>2, <2>3, <2>5, <3>1 DEF VerdictMoves, Working
  <2>6. CASE jobState # "failed" /\ failure # "fatal"
    <3>1. jobState' = Refreshed(jobState, chunk', downloaded)
      BY <2>2, <2>3, <2>6 DEF Requeue
    <3>. QED
      BY <2>2, <2>3, <3>1, RefreshedMoves
  <2>. QED
    BY <2>4, <2>5, <2>6
<1>03. ASSUME NEW r \in Run, Live(r), NEW rendered, NEW F \in {{}} \cup Marks(r),
              FinishComplete(r, rendered, F)
       PROVE  VerdictMoves
  <2>1. downloaded \cup F = downloaded
    BY NothingMarked
  <2>2. downloaded' = downloaded /\ jobState' = Refreshed(jobState, chunk', downloaded)
    BY <1>03, <2>1 DEF FinishComplete
  <2>. QED
    BY <1>0, <1>03, <2>2, RefreshedMoves
<1>1. CASE UNCHANGED vars
  BY <1>1 DEF vars, VerdictMoves, Unmoved
<1>2. CASE TickSettles
  <2>1. /\ jobState \in {"queued", "running"} /\ downloaded' = downloaded
        /\ jobState' = Refreshed(jobState, chunk', downloaded)
    BY <1>01, <1>2 DEF TickSettles
  <2>. QED
    BY <2>1, RefreshedMoves
<1>3. ASSUME NEW c \in Frame, NEW n \in Node, NEW r \in Run, Dispatch(c, n, r)
      PROVE  VerdictMoves
  <2>. DEFINE js == Refreshed(jobState, Settled, downloaded)
  <2>1. /\ downloaded' = downloaded /\ js \in {"queued", "running"}
        /\ jobState' = Refreshed(js, chunk', downloaded)
    BY <1>3 DEF Dispatch
  <2>2. jobState \in {"queued", "running"}
    <3>1. jobState \notin {"queued", "running"} => js = jobState
      BY <1>01 DEF PolicyInv, FreshAlways
    <3>. HIDE DEF js
    <3>. QED
      BY <2>1, <3>1
  <2>. HIDE DEF js
  <2>3. jobState' # "cancelled"
    BY <2>1, RefreshedStops DEF JobStates
  <2>. QED
    BY <2>1, <2>2, <2>3 DEF VerdictMoves, Working
<1>4. ASSUME NEW r \in Run, Proceed(r)
      PROVE  VerdictMoves
  <2>1. CASE PrepDone(r) \/ SeesFailure(r) \/ GivesUp(r)
    BY <2>1 DEF PrepDone, SeesFailure, GivesUp, rows, VerdictMoves, Unmoved
  <2>2. CASE NothingLeft(r)
    BY <1>03, <2>2 DEF NothingLeft
  <2>3. CASE SpecSent(r)
    BY <1>0, <2>3, RefreshedMoves DEF SpecSent
  <2>4. CASE SeesDone(r)
    BY <1>0, <2>4, RefreshedMoves DEF SeesDone
  <2>7. ASSUME NEW failure \in Failures, DispatchFails(r, failure)
        PROVE  VerdictMoves
    BY <1>02, <2>7 DEF DispatchFails
  <2>8. ASSUME NEW F \in Marks(r), DrainCompletes(r, F)
        PROVE  VerdictMoves
    BY <1>03, <2>8 DEF DrainCompletes
  <2>9. ASSUME NEW F \in Marks(r), StoppedReturns(r, F)
        PROVE  VerdictMoves
    BY <2>9, NothingMarked DEF StoppedReturns, VerdictMoves, Unmoved
  <2>10. ASSUME NEW F \in Marks(r), NEW failure \in Failures,
                PollFails(r, failure, F) \/ DrainFails(r, failure, F)
         PROVE  VerdictMoves
    BY <1>02, <2>10 DEF PollFails, DrainFails
  <2>. QED
    BY <1>4, <2>1, <2>2, <2>3, <2>4, <2>7, <2>8, <2>9, <2>10 DEF Proceed
<1>5. ASSUME NEW r \in Run, NEW f \in Frame, FrameLands(r, f)
      PROVE  VerdictMoves
  BY <1>0, <1>5 DEF FrameLands, VerdictMoves, Landing
<1>6. ASSUME NEW r \in Run, SeesEncoding(r)
      PROVE  VerdictMoves
  BY <1>6 DEF SeesEncoding, VerdictMoves, Unmoved
<1>7. ASSUME NEW n \in Node, NodeGone(n)
      PROVE  VerdictMoves
  <2>. DEFINE orphans == { run[r].chunk : r \in byNode[n] }
  <2>1. downloaded' = downloaded
    BY <1>7 DEF NodeGone
  <2>2. CASE orphans = {}
    BY <1>7, <2>1, <2>2 DEF NodeGone, VerdictMoves, Unmoved
  <2>3. CASE orphans # {}
    <3>1. PICK r \in byNode[n] : TRUE
      BY <2>3
    <3>2. r \in Run /\ Live(r)
      BY <1>0, <3>1 DEF RunsInv, RegisteredLive, LedgerInv, RunsOK
    <3>3. jobState' = Refreshed(jobState, chunk', downloaded)
      BY <1>7, <2>3 DEF NodeGone
    <3>. QED
      BY <1>0, <2>1, <3>2, <3>3, RefreshedMoves
  <2>. QED
    BY <2>2, <2>3
<1>8. ASSUME NEW n \in Node, NodeUsable(n)
      PROVE  VerdictMoves
  BY <1>8 DEF NodeUsable, rows, VerdictMoves, Unmoved
<1>9. CASE Cancel
  BY <1>9 DEF Cancel, VerdictMoves, Calling
<1>10. CASE Resume
  BY <1>10 DEF Resume, VerdictMoves, Unmoved
<1>11. CASE RetryMissing
  BY <1>11, RetryMissingMoves
<1>12. CASE Crash
  BY <1>12 DEF Crash, rows, VerdictMoves, Unmoved
<1>13. CASE Restart
  BY <1>13, RestartMoves
<1>. QED
  BY <1>1, <1>2, <1>3, <1>4, <1>5, <1>6, <1>7, <1>8, <1>9, <1>10, <1>11, <1>12, <1>13
  DEF Next, Work, Lands, Sends

\* The frames and the verdict of a job of one file per frame move as FrameDelivery says: no
\* verdict before its frames, no frame lost again, no frame once the job is cancelled, and
\* nothing but the user's asking reopens a job, and then only for a frame that is missing
\* (jobs.ts refreshJobState, revive.ts, scheduler.ts).  Every verdict a step leaves behind has
\* to be the one its frames give, which takes all of the invariants above.
THEOREM DeliveryRefined ==
    ASSUME ~MultiView
    PROVE  Spec => DeliveryKept
<1>1. Init => Delivery!Init
  BY DEF Init, Delivery!Init, Verdict
<1>2. Init => StoppedMiss
  BY DEF Init, StoppedMiss, Stopped, Absent
<1>3. ASSUME AllInv, PolicyInv, StoppedMiss, AllInv', VerdictTrue', [Next]_vars
      PROVE  [Delivery!Next]_<<downloaded, Verdict>>
  <2>1. VerdictMoves
    BY <1>3, VerdictSteps
  <2>2. /\ jobState \in JobStates /\ jobState' \in JobStates /\ downloaded' \subseteq Frame
        /\ jobState' = "complete" => downloaded' = Frame
        /\ jobState' = "partial" => downloaded' # Frame
    BY <1>3 DEF AllInv, LedgerInv, RowsOK, Sound, VerdictTrue
  <2>3. CASE Unmoved
    BY <2>3 DEF Unmoved, Verdict
  <2>4. CASE Landing
    BY <2>2, <2>4 DEF Landing, Verdict, Delivery!Next, Delivery!Deliver
  <2>5. CASE Working
    BY <2>2, <2>5 DEF Working, Verdict, JobStates, Delivery!Next, Delivery!Finish, Delivery!Fail
  <2>6. CASE Calling
    BY <2>6 DEF Calling, Verdict, Delivery!Next, Delivery!Cancel
  <2>7. CASE Queueing
    BY <2>7 DEF Queueing, Verdict, Delivery!Next, Delivery!Reopen
  <2>. QED
    BY <2>1, <2>3, <2>4, <2>5, <2>6, <2>7 DEF VerdictMoves
<1>4. Spec => []AllInv /\ []PolicyInv
  BY PolicyInvariant
<1>5. Spec => []StoppedMiss
  BY <1>2, <1>4, MissStep, PTL DEF Spec
<1>6. Spec => []VerdictTrue
  BY <1>4, <1>5, VerdictMeans, PTL
<1>. QED
  BY <1>1, <1>3, <1>4, <1>5, <1>6, PTL DEF Spec, DeliveryKept, Delivery!Spec
=============================================================================
