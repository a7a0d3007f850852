------------------------- MODULE SpecHandoff_proofs -------------------------
(***************************************************************************)
(* Theorems about SpecHandoff and HandoffSlips, for any number of          *)
(* attempts, cancels, crashes, reprovisions and faults, and any lanes.     *)
(***************************************************************************)
EXTENDS HandoffSlips, TLAPS

-----------------------------------------------------------------------------
(* Types. *)

LEMMA NewRunTyped == NewRun \in Runs /\ Over \in Runs
  BY DEF NewRun, Over, Runs, Phases, Thens, Sights

\* What the steps of a run and of a thread make of their records.
LEMMA RunAt == ASSUME NEW r \in Runs, NEW p \in Phases PROVE [r EXCEPT !.at = p] \in Runs
  BY DEF Runs
LEMMA RunStopped == ASSUME NEW r \in Runs PROVE [r EXCEPT !.stopped = TRUE] \in Runs
  BY DEF Runs
LEMMA RunQueueing ==
  ASSUME NEW r \in Runs, NEW p \in Phases, NEW q \in BOOLEAN
  PROVE  [r EXCEPT !.at = p, !.queueing = q] \in Runs
  BY DEF Runs
LEMMA RunSaw ==
  ASSUME NEW r \in Runs, NEW p \in Phases, NEW x \in Sights
  PROVE  [r EXCEPT !.at = p, !.saw = x] \in Runs
  BY DEF Runs
LEMMA RunChecked ==
  ASSUME NEW r \in Runs, NEW p \in Phases, NEW x \in Sights, NEW q \in BOOLEAN, NEW b \in BOOLEAN
  PROVE  [r EXCEPT !.at = p, !.saw = x, !.queued = q, !.alive = b] \in Runs
  BY DEF Runs
LEMMA RunGoesOn ==
  ASSUME NEW p \in Phases, NEW w \in Thens, NEW q \in BOOLEAN
  PROVE  [NewRun EXCEPT !.at = p, !.then = w, !.queueing = TRUE, !.stopped = q] \in Runs
  BY DEF Runs, NewRun, Sights
LEMMA RunPolls == Polling \in Runs
  BY DEF Polling, Runs, NewRun, Sights, Thens, Phases

LEMMA ThreadAt ==
  ASSUME NEW t \in Threads, NEW p \in ThreadPhases PROVE [t EXCEPT !.at = p] \in Threads
  BY DEF Threads
LEMMA ThreadBeat ==
  ASSUME NEW t \in Threads, NEW b \in BOOLEAN PROVE [t EXCEPT !.beat = b] \in Threads
  BY DEF Threads
LEMMA ThreadRetry ==
  ASSUME NEW t \in Threads, NEW b \in BOOLEAN PROVE [t EXCEPT !.retry = b] \in Threads
  BY DEF Threads
LEMMA ThreadHung ==
  ASSUME NEW t \in Threads, NEW b \in BOOLEAN PROVE [t EXCEPT !.hung = b] \in Threads
  BY DEF Threads
LEMMA ThreadAtRetry ==
  ASSUME NEW t \in Threads, NEW p \in ThreadPhases, NEW b \in BOOLEAN
  PROVE  [t EXCEPT !.at = p, !.retry = b] \in Threads
  BY DEF Threads
LEMMA ThreadOpens ==
  ASSUME NEW t \in Threads, NEW p \in ThreadPhases, NEW s \in Someone, NEW b \in BOOLEAN
  PROVE  [t EXCEPT !.at = p, !.spec = s, !.retry = b] \in Threads
  BY DEF Threads
LEMMA ThreadExits ==
  ASSUME NEW t \in Threads, NEW p \in ThreadPhases, NEW b \in BOOLEAN, NEW c \in BOOLEAN
  PROVE  [t EXCEPT !.at = p, !.hung = FALSE, !.beat = b, !.retry = c] \in Threads
  BY DEF Threads

LEMMA NoThreadTyped == NoThread \in Threads /\ NoFile \in Files
  BY HandoffAssumption DEF NoThread, Threads, ThreadPhases, Files, NoFile, Someone, None

LEMMA ExitTyped ==
  ASSUME thread \in Threads, NEW clean \in BOOLEAN, Exit(clean)
  PROVE  thread' \in Threads
<1>1. PICK beat \in BOOLEAN :
        thread' = [thread EXCEPT !.at = IF clean THEN "rendered" ELSE "settling",
                                 !.hung = FALSE, !.beat = beat, !.retry = @ /\ ~clean]
  BY DEF Exit
<1> DEFINE c == thread.retry /\ ~clean
           p == IF clean THEN "rendered" ELSE "settling"
<1>2. c \in BOOLEAN /\ p \in ThreadPhases  BY DEF ThreadPhases
<1>3. thread' = [thread EXCEPT !.at = p, !.hung = FALSE, !.beat = beat, !.retry = c]
  BY <1>1
<1> HIDE DEF c, p
<1> QED BY <1>2, <1>3, ThreadExits

LEMMA KillTyped ==
  ASSUME TypeOK, Kill
  PROVE  thread' \in Threads /\ orphan' \in BOOLEAN /\ UNCHANGED <<file, agent, opened, lane>>
<1>1. thread \in Threads  BY DEF TypeOK
<1>2. CASE thread.at = "rendering" /\ Exit(FALSE)  BY <1>1, <1>2, ExitTyped DEF Kill
<1>3. CASE thread.at = "encoding" /\ thread' = [thread EXCEPT !.at = "failing"]
  BY <1>1, <1>3, ThreadAt DEF Kill, ThreadPhases
<1>4. CASE UNCHANGED thread  BY <1>1, <1>4 DEF Kill
<1> QED BY <1>2, <1>3, <1>4 DEF Kill

LEMMA SpendTyped ==
  ASSUME TypeOK, NEW kind \in {"cancel", "crash", "reprovision", "fault"}, Spend(kind)
  PROVE  budget' \in [{"cancel", "crash", "reprovision", "fault"} -> Nat]
  BY DEF TypeOK, Spend

LEMMA WriteTyped ==
  ASSUME TypeOK, NEW p \in {"rendering", "settling", "rendered", "encoding", "failing", "done", "failed"},
         NEW idle \in BOOLEAN, Write(p, idle)
  PROVE  file' \in Files
  BY DEF TypeOK, Write, StatusAt, Files, Threads

\* The steps of a run leave a run in every slot.
LEMMA GoTyped ==
  ASSUME TypeOK, NEW a \in Attempts, NEW p \in Phases, Go(a, p) PROVE run' \in [Attempts -> Runs]
<1>1. run[a] \in Runs  BY DEF TypeOK
<1>2. run' = [run EXCEPT ![a] = [run[a] EXCEPT !.at = p]]  BY DEF Go
<1> QED BY <1>1, <1>2, RunAt DEF TypeOK
LEMMA EndTyped ==
  ASSUME TypeOK, NEW a \in Attempts, End(a) PROVE run' \in [Attempts -> Runs]
  BY NewRunTyped DEF End, TypeOK
LEMMA GoOnTyped ==
  ASSUME TypeOK, NEW a \in Attempts, NEW p \in Phases, NEW w \in Thens, GoOn(a, p, w)
  PROVE  run' \in [Attempts -> Runs]
<1>1. run[a].stopped \in BOOLEAN  BY DEF TypeOK, Runs
<1> DEFINE q == run[a].stopped
<1>2. [NewRun EXCEPT !.at = p, !.then = w, !.queueing = TRUE, !.stopped = q] \in Runs
  BY <1>1, RunGoesOn
<1> QED BY <1>2 DEF GoOn, Stopped, TypeOK
LEMMA StartRetractTyped ==
  ASSUME TypeOK, NEW a \in Attempts, NEW w \in Thens, StartRetract(a, w) \/ StartDrain(a, w)
  PROVE  run' \in [Attempts -> Runs]
  BY GoOnTyped DEF StartRetract, StartDrain, Phases
LEMMA StopTyped ==
  ASSUME TypeOK, NEW a \in Attempts, run' = [run EXCEPT ![a].stopped = TRUE]
  PROVE  run' \in [Attempts -> Runs]
<1>1. run[a] \in Runs  BY DEF TypeOK
<1>2. run' = [run EXCEPT ![a] = [run[a] EXCEPT !.stopped = TRUE]]  OBVIOUS
<1> QED BY <1>1, <1>2, RunStopped DEF TypeOK

LEMMA NoneTyped == None \in Someone /\ Attempts \subseteq Someone /\ Someone \ {None} = Attempts
  BY HandoffAssumption DEF None, Someone, Attempts

LEMMA AfterRetractTyped ==
  ASSUME TypeOK, NEW a \in Attempts, AfterRetract(a)
  PROVE  /\ run' \in [Attempts -> Runs]
         /\ row' \in {"pending", "live", "cancelled", "complete"} /\ owner' \in Someone
         /\ armed' \in SUBSET Attempts /\ UNCHANGED <<sent, cleaning, service, fit>>
<1>1. CASE End(a) /\ UNCHANGED <<owner, row>>  BY <1>1, EndTyped DEF AfterRetract, TypeOK
<1>2. CASE FinishFailed(a)  BY <1>2, EndTyped, NoneTyped DEF AfterRetract, FinishFailed, TypeOK
<1>3. CASE /\ run' = [run EXCEPT ![a].at = "draining", ![a].queueing = FALSE]
           /\ UNCHANGED <<owner, row>>
  <2>1. run[a] \in Runs  BY DEF TypeOK
  <2>2. run' = [run EXCEPT ![a] = [run[a] EXCEPT !.at = "draining", !.queueing = FALSE]]  BY <1>3
  <2>3. [run[a] EXCEPT !.at = "draining", !.queueing = FALSE] \in Runs  BY <2>1, RunQueueing DEF Phases
  <2> QED BY <1>3, <2>2, <2>3 DEF AfterRetract, TypeOK
<1> QED BY <1>1, <1>2, <1>3 DEF AfterRetract

LEMMA ForgetTyped ==
  ASSUME TypeOK, Forget
  PROVE  /\ run' \in [Attempts -> Runs]
         /\ row' \in {"pending", "live", "cancelled", "complete"} /\ owner' \in Someone
         /\ fit' \in {"fit", "suspect", "down"} /\ UNCHANGED <<sent, cleaning, armed>>
<1>1. CASE owner = None  BY <1>1, NoneTyped DEF Forget, TypeOK
<1>2. CASE owner # None
  <2>1. owner \in Attempts  BY <1>2, NoneTyped DEF TypeOK
  <2> QED BY <1>2, <2>1, StopTyped, NoneTyped DEF Forget, TypeOK
<1> QED BY <1>1, <1>2

LEMMA AgentTyped ==
  ASSUME TypeOK, AgentOnly,
         thread' \in Threads, inbox' \in Someone, file' \in Files, opened' \in SUBSET Attempts,
         budget' \in [{"cancel", "crash", "reprovision", "fault"} -> Nat]
  PROVE  TypeOK'
  BY DEF TypeOK, AgentOnly, appVars

LEMMA AppStepTyped ==
  ASSUME TypeOK, NEW a \in Attempts, AppStep(a) \/ AppFault(a)
  PROVE  TypeOK'
<1>1. CASE Prepared(a)
  <2>1. CASE Stopped(a)  BY <1>1, <2>1, EndTyped DEF Prepared, TypeOK, nodeVars
  <2>2. CASE ~Stopped(a)
    <3>1. run[a] \in Runs  BY DEF TypeOK
    <3>2. run' = [run EXCEPT ![a] = [run[a] EXCEPT !.at = "clearing", !.queueing = TRUE]]
      BY <1>1, <2>2 DEF Prepared
    <3>3. [run[a] EXCEPT !.at = "clearing", !.queueing = TRUE] \in Runs
      BY <3>1, RunQueueing DEF Phases
    <3> QED BY <1>1, <3>2, <3>3 DEF Prepared, TypeOK, nodeVars
  <2> QED BY <2>1, <2>2
<1>2. CASE PrepFails(a)
  <2>1. budget' \in [{"cancel", "crash", "reprovision", "fault"} -> Nat]
    BY <1>2, SpendTyped DEF PrepFails
  <2>2. run' \in [Attempts -> Runs]  BY <1>2, EndTyped DEF PrepFails, FinishFailed
  <2> QED BY <1>2, <2>1, <2>2, NoneTyped DEF PrepFails, FinishFailed, TypeOK, nodeVars
<1>3. CASE Clear(a)
  <2>1. run' \in [Attempts -> Runs]  BY <1>3, EndTyped, GoTyped DEF Clear, Phases
  <2>2. CASE file' = NoFile /\ UNCHANGED <<inbox, agent, thread, opened, orphan, lane, budget>>
    BY <1>3, <2>1, <2>2, NoThreadTyped DEF Clear, TypeOK
  <2>3. CASE Lost
    <3>1. budget' \in [{"cancel", "crash", "reprovision", "fault"} -> Nat]
      BY <2>3, SpendTyped DEF Lost
    <3> QED BY <1>3, <2>1, <2>3, <3>1 DEF Clear, Lost, TypeOK, nodeVars
  <2> QED BY <1>3, <2>2, <2>3 DEF Clear
<1>4. CASE SpecLands(a)
  <2>1. run' \in [Attempts -> Runs]  BY <1>4, GoTyped DEF SpecLands, Phases
  <2> QED BY <1>4, <2>1, NoneTyped DEF SpecLands, TypeOK
<1>5. CASE SpecAnswered(a)
  <2>1. run' \in [Attempts -> Runs]
    BY <1>5, GoTyped, StartRetractTyped DEF SpecAnswered, Phases, Thens
  <2> QED BY <1>5, <2>1 DEF SpecAnswered, TypeOK, nodeVars
<1>6. CASE SpecFails(a)
  <2>1. run' \in [Attempts -> Runs]  BY <1>6, StartRetractTyped DEF SpecFails, Thens
  <2>2. budget' \in [{"cancel", "crash", "reprovision", "fault"} -> Nat]
    BY <1>6, SpendTyped DEF SpecFails
  <2> QED BY <1>6, <2>1, <2>2 DEF SpecFails, TypeOK, nodeVars
<1>7. CASE Started(a)
  <2>1. run' \in [Attempts -> Runs]
    BY <1>7, GoTyped, StartRetractTyped DEF Started, Phases, Thens
  <2> QED BY <1>7, <2>1 DEF Started, TypeOK, nodeVars
<1>8. ASSUME NEW what \in Sights, Read(a, what) PROVE TypeOK'
  <2>1. run[a] \in Runs  BY DEF TypeOK
  <2>2. run' = [run EXCEPT ![a] = [run[a] EXCEPT !.at = "read", !.saw = what]]
    BY <1>8 DEF Read
  <2>3. [run[a] EXCEPT !.at = "read", !.saw = what] \in Runs  BY <2>1, RunSaw DEF Phases
  <2>4. budget' \in [{"cancel", "crash", "reprovision", "fault"} -> Nat]
    BY <1>8, SpendTyped DEF Read, TypeOK
  <2> QED BY <1>8, <2>2, <2>3, <2>4 DEF Read, TypeOK, nodeVars
<1>9. CASE PollStops(a)
  <2>1. run' \in [Attempts -> Runs]  BY <1>9, EndTyped DEF PollStops
  <2> QED BY <1>9, <2>1 DEF PollStops, TypeOK, nodeVars
<1>10. CASE Act(a)
  <2>1. run' \in [Attempts -> Runs]
    <3>1. run[a] \in Runs  BY DEF TypeOK
    <3> DEFINE q == inbox # None
    <3>3. CASE run[a].saw = "missing"
      <4>1. run' = [run EXCEPT ![a] = [run[a] EXCEPT !.at = "checked", !.saw = "nothing",
                                                     !.queued = q, !.alive = agent]]
        BY <1>10, <3>3 DEF Act
      <4>2. q \in BOOLEAN /\ agent \in BOOLEAN  BY DEF TypeOK
      <4> HIDE DEF q
      <4>3. [run[a] EXCEPT !.at = "checked", !.saw = "nothing", !.queued = q, !.alive = agent] \in Runs
        BY <3>1, <4>2, RunChecked DEF Phases, Sights
      <4> QED BY <4>1, <4>3 DEF TypeOK
    <3>4. CASE run[a].saw = "done"  BY <1>10, <3>4, StartRetractTyped DEF Act, Thens
    <3>5. CASE run[a].saw \in {"failed", "stalled"}
      BY <1>10, <3>5, StartRetractTyped DEF Act, Thens
    <3>6. CASE run[a].saw = "hung"  BY <1>10, <3>6, StartRetractTyped DEF Act, Thens
    <3>7. CASE run[a].saw \notin {"missing", "done", "failed", "stalled", "hung"}
      BY <1>10, <3>7, StartRetractTyped DEF Act, Thens
    <3> QED BY <3>3, <3>4, <3>5, <3>6, <3>7
  <2> QED BY <1>10, <2>1 DEF Act, TypeOK, nodeVars
<1>11. CASE ActChecked(a)
  <2>1. run' \in [Attempts -> Runs]
    <3>1. CASE run' = [run EXCEPT ![a] = Polling]  BY <3>1, RunPolls DEF TypeOK
    <3>2. CASE StartRetract(a, "drainUnclaimed") \/ StartRetract(a, "drainDown") \/ StartDrain(a, "fail")
      BY <3>2, StartRetractTyped DEF Thens
    <3> QED BY <1>11, <3>1, <3>2 DEF ActChecked
  <2> QED BY <1>11, <2>1 DEF ActChecked, TypeOK, nodeVars
<1>12. CASE Retract(a)
  <2>1. Kill /\ inbox' = None /\ AfterRetract(a) /\ budget' = budget
    BY <1>12 DEF Retract, Withdraw
  <2> QED BY <2>1, KillTyped, AfterRetractTyped, NoneTyped DEF TypeOK
<1>13. CASE RetractLost(a)
  <2>1. budget' \in [{"cancel", "crash", "reprovision", "fault"} -> Nat]
    BY <1>13, SpendTyped DEF RetractLost, Lost
  <2>2. AfterRetract(a) /\ UNCHANGED nodeVars  BY <1>13 DEF RetractLost, Lost
  <2> QED BY <2>1, <2>2, AfterRetractTyped DEF TypeOK, nodeVars
<1>14. CASE Drained(a)
  <2>1. run' \in [Attempts -> Runs]  BY <1>14, EndTyped DEF Drained, FinishFailed
  <2>2. fit' \in {"fit", "suspect", "down"}  BY <1>14 DEF Drained, TypeOK
  <2> QED BY <1>14, <2>1, <2>2, NoneTyped DEF Drained, FinishFailed, TypeOK, nodeVars
<1> QED BY <1>1, <1>2, <1>3, <1>4, <1>5, <1>6, <1>7, <1>8, <1>9, <1>10, <1>11, <1>12, <1>13, <1>14
        DEF AppStep, AppFault, Sights

LEMMA EnvironmentTyped ==
  ASSUME TypeOK,
         \/ Dispatch \/ Cancel \/ Revive \/ Reprovision \/ Supervise
         \/ \E a \in Attempts : CancelCleans(a) \/ KillAgain(a)
  PROVE  TypeOK'
<1>1. CASE Dispatch
  <2>1. sent + 1 \in Attempts
    BY <1>1, HandoffAssumption DEF Dispatch, TypeOK, Someone, Attempts
  <2>2. run[sent + 1] \in Runs  BY <2>1 DEF TypeOK
  <2>3. run' = [run EXCEPT ![sent + 1] = [run[sent + 1] EXCEPT !.at = "preparing"]]
    BY <1>1 DEF Dispatch
  <2>4. [run[sent + 1] EXCEPT !.at = "preparing"] \in Runs  BY <2>2, RunAt DEF Phases
  <2> QED BY <1>1, <2>1, <2>3, <2>4, NoneTyped DEF Dispatch, TypeOK, nodeVars
<1>2. CASE Cancel
  <2>1. budget' \in [{"cancel", "crash", "reprovision", "fault"} -> Nat]
    BY <1>2, SpendTyped DEF Cancel
  <2>2. CASE owner = None  BY <1>2, <2>1, <2>2, NoneTyped DEF Cancel, TypeOK, nodeVars
  <2>3. CASE owner # None
    <3>1. owner \in Attempts  BY <2>3, NoneTyped DEF TypeOK
    <3>2. run' \in [Attempts -> Runs]  BY <1>2, <2>3, <3>1, StopTyped DEF Cancel
    <3> QED BY <1>2, <2>1, <2>3, <3>1, <3>2, NoneTyped DEF Cancel, TypeOK, nodeVars
  <2> QED BY <2>2, <2>3
<1>3. CASE Revive  BY <1>3 DEF Revive, TypeOK, nodeVars
<1>4. CASE Reprovision
  <2>1. budget' \in [{"cancel", "crash", "reprovision", "fault"} -> Nat]
    BY <1>4, SpendTyped DEF Reprovision
  <2>2. Forget /\ service' = "reprovisioning" /\ UNCHANGED nodeVars  BY <1>4 DEF Reprovision
  <2> QED BY <2>1, <2>2, ForgetTyped DEF TypeOK, nodeVars
<1>5. CASE Hold  BY <1>5 DEF Hold, TypeOK, nodeVars
<1>6. CASE ReviveAgent
  BY <1>6, NoneTyped, NoThreadTyped DEF ReviveAgent, Restart, TypeOK
<1>7. CASE ForgetRestarted
  <2>1. Forget /\ service' = "in" /\ UNCHANGED <<nodeVars, budget>>  BY <1>7 DEF ForgetRestarted
  <2> QED BY <2>1, ForgetTyped DEF TypeOK, nodeVars
<1>8. CASE Reprovisioned
  BY <1>8, NoneTyped, NoThreadTyped DEF Reprovisioned, Restart, TypeOK
<1>9. CASE SecondLook  BY <1>9 DEF SecondLook, TypeOK, nodeVars
<1>10. ASSUME NEW a \in Attempts, CancelCleans(a) PROVE TypeOK'
  <2>1. CASE Withdraw /\ UNCHANGED budget
    <3>1. Kill /\ inbox' = None  BY <2>1 DEF Withdraw
    <3> QED BY <1>10, <2>1, <3>1, KillTyped, NoneTyped DEF CancelCleans, TypeOK
  <2>2. CASE Lost
    <3>1. budget' \in [{"cancel", "crash", "reprovision", "fault"} -> Nat]
      BY <2>2, SpendTyped DEF Lost
    <3> QED BY <1>10, <2>2, <3>1 DEF CancelCleans, Lost, TypeOK, nodeVars
  <2> QED BY <1>10, <2>1, <2>2 DEF CancelCleans
<1>11. ASSUME NEW a \in Attempts, KillAgain(a) PROVE TypeOK'
  <2>1. CASE UNCHANGED <<nodeVars, budget>>  BY <1>11, <2>1 DEF KillAgain, TypeOK, nodeVars
  <2>2. CASE Kill /\ UNCHANGED <<inbox, budget>>
    BY <1>11, <2>2, KillTyped DEF KillAgain, TypeOK
  <2>3. CASE Lost
    <3>1. budget' \in [{"cancel", "crash", "reprovision", "fault"} -> Nat]
      BY <2>3, SpendTyped DEF Lost
    <3> QED BY <1>11, <2>3, <3>1 DEF KillAgain, Lost, TypeOK, nodeVars
  <2> QED BY <1>11, <2>1, <2>2, <2>3 DEF KillAgain
<1> QED BY <1>1, <1>2, <1>3, <1>4, <1>5, <1>6, <1>7, <1>8, <1>9, <1>10, <1>11 DEF Supervise

AgentActs ==
    \/ AgentStep \/ LateBeat \/ Beat \/ BlenderEnds \/ Hang \/ Save \/ LaneFrees
    \/ AgentDies \/ OrphanEnds

LEMMA AgentActsTyped ==
  ASSUME TypeOK, AgentActs
  PROVE  TypeOK'
<1>1. thread \in Threads /\ thread.at \in ThreadPhases /\ thread.spec \in Someone /\ thread.hung \in BOOLEAN
  BY DEF TypeOK, Threads
<1>2. CASE Claim
  <2>1. thread' \in Threads  BY <1>1, <1>2, ThreadAt DEF Claim, Thread, ThreadPhases
  <2> QED BY <1>2, <2>1, AgentTyped DEF Claim, TypeOK
<1>3. CASE Open
  <2>1. CASE inbox = None
    <3>1. thread' \in Threads  BY <1>1, <1>3, <2>1, ThreadAt DEF Open, Thread, ThreadPhases
    <3> QED BY <1>3, <2>1, <3>1, AgentTyped DEF Open, TypeOK
  <2>2. CASE inbox # None
    <3>1. thread' = [thread EXCEPT !.at = "opened", !.spec = inbox, !.retry = TRUE]
      BY <1>3, <2>2 DEF Open
    <3>2. thread' \in Threads  BY <1>1, <3>1, ThreadOpens DEF ThreadPhases, TypeOK
    <3>3. inbox \in Attempts  BY <2>2, NoneTyped DEF TypeOK
    <3> QED BY <1>3, <2>2, <3>2, <3>3, AgentTyped DEF Open, TypeOK
  <2> QED BY <2>1, <2>2
<1>4. CASE Launch
  <2>1. thread' \in Threads  BY <1>1, <1>4, ThreadAt DEF Launch, Thread, ThreadPhases
  <2>2. file' \in Files  BY <1>4, WriteTyped DEF Launch
  <2> QED BY <1>4, <2>1, <2>2, AgentTyped DEF Launch, TypeOK
<1>5. CASE LaunchFails
  <2>1. thread' \in Threads  BY <1>1, <1>5, ThreadAtRetry DEF LaunchFails, ThreadPhases
  <2> QED BY <1>5, <2>1, AgentTyped DEF LaunchFails, TypeOK
<1>6. CASE Relaunch
  <2>1. thread' \in Threads  BY <1>1, <1>6, ThreadAtRetry DEF Relaunch, ThreadPhases
  <2> QED BY <1>6, <2>1, AgentTyped DEF Relaunch, TypeOK
<1>7. CASE RenderFails
  <2>1. thread' \in Threads  BY <1>1, <1>7, ThreadAtRetry DEF RenderFails, ThreadPhases
  <2> QED BY <1>7, <2>1, AgentTyped DEF RenderFails, TypeOK
<1>8. CASE Encode
  <2>1. thread' \in Threads  BY <1>1, <1>8, ThreadAt DEF Encode, Thread, ThreadPhases
  <2>2. file' \in Files  BY <1>8, WriteTyped DEF Encode
  <2> QED BY <1>8, <2>1, <2>2, AgentTyped DEF Encode, TypeOK
<1>9. CASE Done
  <2>1. thread' \in Threads  BY <1>1, <1>9, ThreadAt DEF Done, Thread, ThreadPhases
  <2>2. file' \in Files  BY <1>9, WriteTyped DEF Done
  <2> QED BY <1>9, <2>1, <2>2, AgentTyped DEF Done, TypeOK
<1>10. CASE EncodeFails
  <2>1. thread' \in Threads  BY <1>1, <1>10, ThreadAt DEF EncodeFails, Thread, ThreadPhases
  <2> QED BY <1>10, <2>1, AgentTyped DEF EncodeFails, TypeOK
<1>11. CASE Fail
  <2>1. thread' \in Threads  BY <1>1, <1>11, ThreadAt DEF Fail, Thread, ThreadPhases
  <2>2. CASE Write("failed", FALSE) /\ UNCHANGED budget
    <3>1. file' \in Files  BY <2>2, WriteTyped
    <3> QED BY <1>11, <2>1, <2>2, <3>1, AgentTyped DEF Fail, TypeOK
  <2>3. CASE Spend("fault") /\ UNCHANGED file
    <3>1. budget' \in [{"cancel", "crash", "reprovision", "fault"} -> Nat]
      BY <2>3, SpendTyped
    <3> QED BY <1>11, <2>1, <2>3, <3>1, AgentTyped DEF Fail, TypeOK
  <2> QED BY <1>11, <2>2, <2>3 DEF Fail
<1>12. CASE Retire
  BY <1>12, NoThreadTyped, NoneTyped, AgentTyped DEF Retire, TypeOK
<1>13. CASE LateBeat
  <2>1. thread' \in Threads  BY <1>1, <1>13, ThreadBeat DEF LateBeat
  <2>2. StatusAt(thread.at) \in {"rendering", "encoding", "done", "failed"}
    BY DEF StatusAt
  <2>3. file' = [by |-> thread.spec, status |-> StatusAt(thread.at), idle |-> FALSE]
    BY <1>13 DEF LateBeat, Write
  <2>4. file' \in Files  BY <1>1, <2>2, <2>3 DEF Files
  <2> QED BY <1>13, <2>1, <2>4, AgentTyped DEF LateBeat, TypeOK
<1>14. CASE Beat
  <2>1. file' \in Files  BY <1>1, <1>14, WriteTyped DEF Beat
  <2> QED BY <1>14, <2>1, AgentTyped DEF Beat, TypeOK
<1>15. CASE BlenderEnds
  <2>1. thread' \in Threads  BY <1>1, <1>15, ExitTyped DEF BlenderEnds
  <2> QED BY <1>15, <2>1, AgentTyped DEF BlenderEnds, TypeOK
<1>16. CASE Hang
  <2>1. thread' \in Threads  BY <1>1, <1>16, ThreadHung DEF Hang
  <2> QED BY <1>16, <2>1, AgentTyped DEF Hang, TypeOK
<1>17. CASE Save
  <2>1. thread' \in Threads  BY <1>1, <1>17, ThreadRetry DEF Save
  <2> QED BY <1>17, <2>1, AgentTyped DEF Save, TypeOK
<1>18. CASE LaneFrees  BY <1>18 DEF LaneFrees, TypeOK, appVars
<1>19. CASE AgentDies
  <2>1. budget' \in [{"cancel", "crash", "reprovision", "fault"} -> Nat]
    BY <1>19, SpendTyped DEF AgentDies
  <2>2. PICK survives \in BOOLEAN : orphan' = (survives /\ thread.at = "rendering")
    BY <1>19 DEF AgentDies
  <2>3. orphan' \in BOOLEAN  BY <2>2
  <2> QED BY <1>19, <2>1, <2>3, NoThreadTyped DEF AgentDies, TypeOK, appVars
<1>20. CASE OrphanEnds  BY <1>20 DEF OrphanEnds, TypeOK, appVars
<1> QED BY <1>2, <1>3, <1>4, <1>5, <1>6, <1>7, <1>8, <1>9, <1>10, <1>11, <1>12, <1>13, <1>14,
           <1>15, <1>16, <1>17, <1>18, <1>19, <1>20 DEF AgentActs, AgentStep

LEMMA TypeKept == ASSUME TypeOK, [Next]_vars PROVE TypeOK'
<1>1. CASE UNCHANGED vars  BY <1>1 DEF vars, appVars, nodeVars, TypeOK
<1>2. CASE Next  BY <1>2, AppStepTyped, EnvironmentTyped, AgentActsTyped DEF Next, AgentActs
<1> QED BY <1>1, <1>2

LEMMA TypeInit == Init => TypeOK
<1> SUFFICES ASSUME Init PROVE TypeOK  OBVIOUS
<1>1. budget \in [{"cancel", "crash", "reprovision", "fault"} -> Nat]
  BY HandoffAssumption DEF Init
<1>2. lane \in {"free", "ours", "unwatched"}  BY HandoffAssumption DEF Init
<1>3. sent \in Someone  BY NoneTyped DEF Init, None
<1>4. run \in [Attempts -> Runs]  BY NewRunTyped DEF Init
<1>5. thread \in Threads /\ file \in Files  BY NoThreadTyped DEF Init
<1> QED BY <1>1, <1>2, <1>3, <1>4, <1>5, NoneTyped DEF Init, TypeOK

\* The app's record of its attempts, the node's files and the agent's thread keep
\* their types, through every cancel, restart, crash and lost command.
THEOREM HandoffTypes == Spec => []TypeOK
  BY TypeInit, TypeKept, PTL DEF Spec

-----------------------------------------------------------------------------
(* Whose run, whose spec. *)

\* An attempt that is under way and not stopped is the one the app holds for the
\* chunk; a retract that was to end in a return is a stopped run's.
RunKnown(a) ==
    /\ At(a, "unsent") <=> a > sent
    /\ At(a, "unsent") => ~Stopped(a)
    /\ ~Stopped(a) /\ ~At(a, "unsent") => owner = a
    /\ At(a, "retracting") /\ run[a].then = "return" => Stopped(a)

\* A cancel's clean-up is of the last attempt, and nothing is sent while it goes on.
OwnerKnown ==
    /\ owner # None => owner = sent /\ ~Stopped(owner) /\ row = "live"
    /\ row = "live" => owner # None
    /\ cleaning # {} => row = "cancelled" /\ cleaning \subseteq {sent}

OneAtATime == Overlap \/ \A a \in Attempts : a < sent => At(a, "over")

RunsKnown == (\A a \in Attempts : RunKnown(a)) /\ OwnerKnown /\ OneAtATime

\* Nothing on the node is of an attempt yet to be sent.
NodeKnown == inbox <= sent /\ thread.spec <= sent

\* A run goes on, or ends because it was stopped.
LEMMA RunMoves ==
  ASSUME TypeOK, RunsKnown, NEW a \in Attempts, NEW r \in Runs,
         ~At(a, "unsent"), ~At(a, "over"), run' = [run EXCEPT ![a] = r],
         r.at # "unsent", r.stopped = Stopped(a),
         r.at = "retracting" /\ r.then = "return" => r.stopped,
         UNCHANGED <<row, owner, sent, cleaning>>
  PROVE  RunsKnown'
<1>1. \A b \in Attempts : b # a => run'[b] = run[b]  BY DEF TypeOK
<1>2. run'[a] = r  BY DEF TypeOK
<1>3. a <= sent  BY HandoffAssumption DEF RunsKnown, RunKnown, TypeOK, Attempts, Someone
<1>4. ASSUME NEW b \in Attempts PROVE RunKnown(b)'
  <2>1. CASE b = a
    BY <1>2, <1>3, <2>1, HandoffAssumption
       DEF RunsKnown, RunKnown, At, Stopped, TypeOK, Attempts, Someone
  <2>2. CASE b # a  BY <1>1, <2>2 DEF RunsKnown, RunKnown, At, Stopped
  <2> QED BY <2>1, <2>2
<1>5. OwnerKnown'
  <2>1. owner # None => owner \in Attempts  BY NoneTyped DEF TypeOK
  <2> QED BY <1>1, <1>2, <2>1 DEF RunsKnown, OwnerKnown, Stopped
<1>6. OneAtATime'  BY <1>1, <1>3 DEF RunsKnown, OneAtATime, At
<1> QED BY <1>4, <1>5, <1>6 DEF RunsKnown

\* A run that was not stopped is let go of, and its chunk with it.
LEMMA RunFinishes ==
  ASSUME TypeOK, RunsKnown, NEW a \in Attempts, ~At(a, "unsent"), ~Stopped(a),
         End(a), owner' = None, row' # "live", UNCHANGED <<sent, cleaning>>
  PROVE  RunsKnown'
<1>1. run' = [run EXCEPT ![a] = Over] /\ Over.at = "over" /\ Over.stopped = TRUE
  BY DEF End, Over, NewRun
<1>2. owner = a /\ cleaning = {}
  BY NoneTyped DEF RunsKnown, RunKnown, OwnerKnown
<1>3. \A b \in Attempts : b # a => run'[b] = run[b]  BY <1>1 DEF TypeOK
<1>4. run'[a] = Over  BY <1>1 DEF TypeOK
<1>5. ASSUME NEW b \in Attempts PROVE RunKnown(b)'
  <2>1. CASE b = a  BY <1>1, <1>4, <2>1 DEF RunsKnown, RunKnown, At, Stopped
  <2>2. CASE b # a  BY <1>2, <1>3, <2>2 DEF RunsKnown, RunKnown, At, Stopped
  <2> QED BY <2>1, <2>2
<1>6. OwnerKnown'  BY <1>2 DEF OwnerKnown
<1>7. OneAtATime'  BY <1>1, <1>3, <1>4 DEF RunsKnown, OneAtATime, At
<1> QED BY <1>5, <1>6, <1>7 DEF RunsKnown

LEMMA RunGoes ==
  ASSUME TypeOK, RunsKnown, NEW a \in Attempts, ~At(a, "unsent"), ~At(a, "over"),
         UNCHANGED <<row, owner, sent, cleaning>>,
         \/ \E p \in Phases \ {"unsent", "retracting"} : Go(a, p)
         \/ \E w \in Thens : StartRetract(a, w) /\ (w = "return" => Stopped(a))
         \/ \E w \in Thens : StartDrain(a, w)
         \/ Stopped(a) /\ End(a)
  PROVE  RunsKnown'
<1>1. run[a] \in Runs /\ run[a].stopped \in BOOLEAN  BY DEF TypeOK, Runs
<1>2. ASSUME NEW p \in Phases \ {"unsent", "retracting"}, Go(a, p) PROVE RunsKnown'
  <2>1. run' = [run EXCEPT ![a] = [run[a] EXCEPT !.at = p]]  BY <1>2 DEF Go
  <2>2. [run[a] EXCEPT !.at = p] \in Runs  BY <1>1, RunAt
  <2>3. [run[a] EXCEPT !.at = p].at = p /\ [run[a] EXCEPT !.at = p].stopped = Stopped(a)
    BY <1>1 DEF Runs, Stopped
  <2> QED BY <1>2, <2>1, <2>2, <2>3, RunMoves
<1>3. ASSUME NEW p \in {"retracting", "draining"}, NEW w \in Thens, GoOn(a, p, w),
             p = "retracting" /\ w = "return" => Stopped(a)
      PROVE  RunsKnown'
  <2> DEFINE q == Stopped(a)
             r == [NewRun EXCEPT !.at = p, !.then = w, !.queueing = TRUE, !.stopped = q]
  <2>1. run' = [run EXCEPT ![a] = r]  BY <1>3 DEF GoOn
  <2>2. q \in BOOLEAN  BY <1>1 DEF Stopped
  <2>3. r \in Runs /\ r.at = p /\ r.stopped = q /\ r.then = w
    BY <2>2, RunGoesOn DEF Phases, NewRun
  <2> QED BY <1>3, <2>1, <2>3, RunMoves
<1>4. CASE Stopped(a) /\ End(a)
  BY <1>4, RunMoves, NewRunTyped DEF End, Over, NewRun, Stopped
<1> QED BY <1>2, <1>3, <1>4 DEF StartRetract, StartDrain

LEMMA RetractKnown ==
  ASSUME TypeOK, RunsKnown, NEW a \in Attempts, At(a, "retracting"), AfterRetract(a)
  PROVE  RunsKnown'
<1>1. UNCHANGED <<sent, cleaning>>  BY DEF AfterRetract
<1>2. CASE (Stopped(a) \/ run[a].then = "return") /\ End(a) /\ UNCHANGED <<owner, row>>
  <2>1. Stopped(a)  BY <1>2 DEF RunsKnown, RunKnown
  <2> QED BY <1>1, <1>2, <2>1, RunGoes DEF At
<1>3. CASE ~Stopped(a) /\ FinishFailed(a)
  BY <1>1, <1>3, RunFinishes DEF FinishFailed, At
<1>4. CASE /\ run' = [run EXCEPT ![a].at = "draining", ![a].queueing = FALSE]
           /\ UNCHANGED <<owner, row>>
  <2> DEFINE r == [run[a] EXCEPT !.at = "draining", !.queueing = FALSE]
  <2>1. run[a] \in Runs  BY DEF TypeOK
  <2>2. run' = [run EXCEPT ![a] = r]  BY <1>4
  <2>3. r \in Runs  BY <2>1, RunQueueing DEF Phases
  <2>4. r.at = "draining" /\ r.stopped = Stopped(a)  BY <2>1 DEF Runs, Stopped
  <2> HIDE DEF r
  <2> QED BY <1>1, <1>4, <2>2, <2>3, <2>4, RunMoves DEF At
<1> QED BY <1>2, <1>3, <1>4 DEF AfterRetract

LEMMA AppStepKnown ==
  ASSUME TypeOK, RunsKnown, NEW a \in Attempts, AppStep(a) \/ AppFault(a)
  PROVE  RunsKnown'
<1>0. run[a] \in Runs  BY DEF TypeOK
<1>1. CASE Prepared(a)
  <2>1. CASE Stopped(a)  BY <1>1, <2>1, RunGoes DEF Prepared, At
  <2>2. CASE ~Stopped(a)
    <3> DEFINE r == [run[a] EXCEPT !.at = "clearing", !.queueing = TRUE]
    <3>1. run' = [run EXCEPT ![a] = r]  BY <1>1, <2>2 DEF Prepared
    <3>2. r \in Runs  BY <1>0, RunQueueing DEF Phases
    <3>3. r.at = "clearing" /\ r.stopped = Stopped(a)  BY <1>0 DEF Runs, Stopped
    <3> HIDE DEF r
    <3> QED BY <1>1, <3>1, <3>2, <3>3, RunMoves DEF Prepared, At
  <2> QED BY <2>1, <2>2
<1>2. CASE PrepFails(a)
  <2>1. CASE Stopped(a)  BY <1>2, <2>1, RunGoes DEF PrepFails, At
  <2>2. CASE ~Stopped(a)  BY <1>2, <2>2, RunFinishes DEF PrepFails, FinishFailed, At
  <2> QED BY <2>1, <2>2
<1>3. CASE Clear(a)  BY <1>3, RunGoes DEF Clear, At, Phases
<1>4. CASE SpecLands(a)  BY <1>4, RunGoes DEF SpecLands, At, Phases
<1>5. CASE SpecAnswered(a)  BY <1>5, RunGoes DEF SpecAnswered, At, Phases, Thens
<1>6. CASE SpecFails(a)  BY <1>6, RunGoes DEF SpecFails, At, Thens
<1>7. CASE Started(a)  BY <1>7, RunGoes DEF Started, At, Phases, Thens
<1>8. ASSUME NEW what \in Sights, Read(a, what) PROVE RunsKnown'
  <2> DEFINE r == [run[a] EXCEPT !.at = "read", !.saw = what]
  <2>1. run' = [run EXCEPT ![a] = r]  BY <1>8 DEF Read
  <2>2. r \in Runs  BY <1>0, RunSaw DEF Phases
  <2>3. r.at = "read" /\ r.stopped = Stopped(a)  BY <1>0 DEF Runs, Stopped
  <2> HIDE DEF r
  <2> QED BY <1>8, <2>1, <2>2, <2>3, RunMoves DEF Read, At
<1>9. CASE PollStops(a)  BY <1>9, RunGoes DEF PollStops, At
<1>10. CASE Act(a)
  <2>0. At(a, "read") /\ UNCHANGED <<row, owner, sent, cleaning>>  BY <1>10 DEF Act
  <2>1. CASE run[a].saw = "missing"
    <3> DEFINE q == inbox # None
               r == [run[a] EXCEPT !.at = "checked", !.saw = "nothing",
                                   !.queued = q, !.alive = agent]
    <3>1. run' = [run EXCEPT ![a] = r]  BY <1>10, <2>1 DEF Act
    <3>2. q \in BOOLEAN /\ agent \in BOOLEAN  BY DEF TypeOK
    <3> HIDE DEF q
    <3>3. r \in Runs  BY <1>0, <3>2, RunChecked DEF Phases, Sights
    <3>4. r.at = "checked" /\ r.stopped = Stopped(a)  BY <1>0 DEF Runs, Stopped
    <3> HIDE DEF r
    <3> QED BY <2>0, <3>1, <3>3, <3>4, RunMoves DEF At
  <2>2. CASE run[a].saw = "done"  BY <1>10, <2>0, <2>2, RunGoes DEF Act, At, Thens
  <2>3. CASE run[a].saw \in {"failed", "stalled"}
    BY <1>10, <2>0, <2>3, RunGoes DEF Act, At, Thens
  <2>4. CASE run[a].saw = "hung"  BY <1>10, <2>0, <2>4, RunGoes DEF Act, At, Thens
  <2>5. CASE run[a].saw \notin {"missing", "done", "failed", "stalled", "hung"}
    BY <1>10, <2>0, <2>5, RunGoes DEF Act, At, Thens
  <2> QED BY <2>1, <2>2, <2>3, <2>4, <2>5
<1>11. CASE ActChecked(a)
  <2>0. At(a, "checked") /\ ~Stopped(a) /\ UNCHANGED <<row, owner, sent, cleaning>>
    BY <1>11 DEF ActChecked
  <2>1. CASE run' = [run EXCEPT ![a] = Polling]
    <3>1. Polling \in Runs /\ Polling.at = "polling" /\ Polling.stopped = FALSE
      BY RunPolls DEF Polling, NewRun
    <3>2. Stopped(a) = FALSE  BY <1>0, <2>0 DEF Stopped, Runs
    <3> QED BY <2>0, <2>1, <3>1, <3>2, RunMoves DEF At
  <2>2. CASE StartRetract(a, "drainUnclaimed") \/ StartRetract(a, "drainDown") \/ StartDrain(a, "fail")
    BY <2>0, <2>2, RunGoes DEF At, Thens
  <2> QED BY <1>11, <2>1, <2>2 DEF ActChecked
<1>12. CASE Retract(a)  BY <1>12, RetractKnown DEF Retract
<1>13. CASE RetractLost(a)  BY <1>13, RetractKnown DEF RetractLost
<1>14. CASE Drained(a)
  <2>1. End(a) /\ owner' = None /\ row' # "live"  BY <1>14 DEF Drained, FinishFailed
  <2> QED BY <1>14, <2>1, RunFinishes DEF Drained, At
<1> QED BY <1>1, <1>2, <1>3, <1>4, <1>5, <1>6, <1>7, <1>8, <1>9, <1>10, <1>11, <1>12, <1>13, <1>14
        DEF AppStep, AppFault, Sights

\* The last run is stopped, and the app lets go of it.
LEMMA RunStops ==
  ASSUME TypeOK, RunsKnown, owner # None, run' = [run EXCEPT ![owner].stopped = TRUE],
         owner' = None, row' # "live", UNCHANGED sent,
         cleaning' # {} => row' = "cancelled" /\ cleaning' \subseteq {owner}
  PROVE  RunsKnown'
<1>1. owner \in Attempts /\ owner = sent  BY NoneTyped DEF TypeOK, RunsKnown, OwnerKnown
<1>2. run[owner] \in Runs  BY <1>1 DEF TypeOK
<1>3. run' = [run EXCEPT ![owner] = [run[owner] EXCEPT !.stopped = TRUE]]  OBVIOUS
<1>4. run'[owner].at = run[owner].at /\ run'[owner].stopped = TRUE
  BY <1>1, <1>2, <1>3 DEF TypeOK, Runs
<1>5. \A b \in Attempts : b # owner => run'[b] = run[b]  BY <1>3 DEF TypeOK
<1>6. ASSUME NEW b \in Attempts PROVE RunKnown(b)'
  <2>1. CASE b = owner
    <3>1. ~At(owner, "unsent")
      BY <1>1, HandoffAssumption DEF RunsKnown, RunKnown, Attempts
    <3> QED BY <1>4, <2>1, <3>1 DEF RunsKnown, RunKnown, At, Stopped
  <2>2. CASE b # owner  BY <1>5, <2>2 DEF RunsKnown, RunKnown, At, Stopped
  <2> QED BY <2>1, <2>2
<1>7. OwnerKnown'  BY <1>1 DEF OwnerKnown
<1>8. OneAtATime'  BY <1>1, <1>4, <1>5 DEF RunsKnown, OneAtATime, At
<1> QED BY <1>6, <1>7, <1>8 DEF RunsKnown

LEMMA ForgetKnown == ASSUME TypeOK, RunsKnown, Forget PROVE RunsKnown'
<1>1. CASE owner = None
  BY <1>1 DEF Forget, RunsKnown, RunKnown, OwnerKnown, OneAtATime, At, Stopped
<1>2. CASE owner # None
  <2>1. cleaning' = {}  BY <1>2 DEF Forget, RunsKnown, OwnerKnown
  <2> QED BY <1>2, <2>1, RunStops DEF Forget
<1> QED BY <1>1, <1>2

LEMMA EnvironmentKnown ==
  ASSUME TypeOK, RunsKnown,
         \/ Dispatch \/ Cancel \/ Revive \/ Reprovision \/ Supervise
         \/ \E a \in Attempts : CancelCleans(a) \/ KillAgain(a)
  PROVE  RunsKnown'
<1>1. CASE Dispatch
  <2> DEFINE a == sent + 1
  <2>1. a \in Attempts /\ sent \in Nat
    BY <1>1, HandoffAssumption DEF Dispatch, TypeOK, Someone, Attempts
  <2>2. At(a, "unsent") /\ ~Stopped(a)
    BY <2>1, HandoffAssumption DEF RunsKnown, RunKnown, Attempts
  <2>3. run[a] \in Runs  BY <2>1 DEF TypeOK
  <2>4. run' = [run EXCEPT ![a] = [run[a] EXCEPT !.at = "preparing"]]  BY <1>1 DEF Dispatch
  <2>5. run'[a].at = "preparing" /\ ~run'[a].stopped
    BY <2>1, <2>2, <2>3, <2>4 DEF TypeOK, Runs, Stopped
  <2>6. \A b \in Attempts : b # a => run'[b] = run[b]  BY <2>4 DEF TypeOK
  <2>7. sent' = a /\ owner' = a /\ row' = "live" /\ UNCHANGED cleaning /\ cleaning = {}
    BY <1>1 DEF Dispatch, RunsKnown, OwnerKnown
  <2>8. ASSUME NEW b \in Attempts PROVE RunKnown(b)'
    <3>0. b \in Nat  BY HandoffAssumption DEF Attempts
    <3>1. CASE b = a  BY <2>1, <2>5, <2>7, <3>1 DEF RunKnown, At, Stopped
    <3>2. CASE b # a
      <4>1. owner = None /\ RunKnown(b) /\ run'[b] = run[b]
        BY <1>1, <2>6, <3>2 DEF Dispatch, RunsKnown
      <4>2. b > sent' <=> b > sent  BY <2>1, <2>7, <3>0, <3>2
      <4>3. b # None  BY HandoffAssumption DEF Attempts, None
      <4> QED BY <4>1, <4>2, <4>3 DEF RunKnown, At, Stopped
    <3> QED BY <3>1, <3>2
  <2>9. OwnerKnown'  BY <2>1, <2>5, <2>7, NoneTyped DEF OwnerKnown, Stopped, None, Attempts
  <2>10. OneAtATime'
    <3>1. \A b \in Attempts : b < sent' => b <= sent /\ b # a
      BY <2>1, <2>7, HandoffAssumption DEF Attempts
    <3> QED BY <1>1, <2>6, <3>1 DEF Dispatch, OneAtATime, At
  <2> QED BY <2>8, <2>9, <2>10 DEF RunsKnown
<1>2. CASE Cancel
  <2>1. CASE owner = None
    BY <1>2, <2>1 DEF Cancel, RunsKnown, RunKnown, OwnerKnown, OneAtATime, At, Stopped
  <2>2. CASE owner # None
    <3>1. cleaning' = {owner} /\ row' = "cancelled"
      BY <1>2, <2>2 DEF Cancel, RunsKnown, OwnerKnown
    <3> QED BY <1>2, <2>2, <3>1, RunStops DEF Cancel
  <2> QED BY <2>1, <2>2
<1>3. CASE Revive
  BY <1>3 DEF Revive, RunsKnown, RunKnown, OwnerKnown, OneAtATime, At, Stopped
<1>4. CASE Reprovision  BY <1>4, ForgetKnown DEF Reprovision
<1>5. CASE ForgetRestarted  BY <1>5, ForgetKnown DEF ForgetRestarted
<1>6. CASE Hold \/ ReviveAgent \/ Reprovisioned \/ SecondLook
  <2>1. UNCHANGED <<row, owner, sent, run, cleaning>>
    BY <1>6 DEF Hold, ReviveAgent, Reprovisioned, SecondLook
  <2> QED BY <2>1 DEF RunsKnown, RunKnown, OwnerKnown, OneAtATime, At, Stopped
<1>7. ASSUME NEW a \in Attempts, CancelCleans(a) \/ KillAgain(a) PROVE RunsKnown'
  <2>1. UNCHANGED <<row, owner, sent, run>> /\ cleaning' \subseteq cleaning
    BY <1>7 DEF CancelCleans, KillAgain
  <2> QED BY <2>1 DEF RunsKnown, RunKnown, OwnerKnown, OneAtATime, At, Stopped
<1> QED BY <1>1, <1>2, <1>3, <1>4, <1>5, <1>6, <1>7 DEF Supervise

LEMMA KnownKept == ASSUME TypeOK, RunsKnown, [Next]_vars PROVE RunsKnown'
<1>1. CASE UNCHANGED appVars
  BY <1>1 DEF appVars, RunsKnown, RunKnown, OwnerKnown, OneAtATime, At, Stopped
<1>2. CASE AgentActs
  <2>1. UNCHANGED appVars
    BY <1>2 DEF AgentActs, AgentStep, Claim, Open, Launch, LaunchFails, Relaunch, RenderFails,
       Encode, Done, EncodeFails, Fail, Retire, LateBeat, Beat, BlenderEnds, Hang, Save,
       LaneFrees, AgentDies, OrphanEnds, AgentOnly
  <2> QED BY <1>1, <2>1
<1> QED BY <1>1, <1>2, AppStepKnown, EnvironmentKnown DEF Next, AgentActs, vars

\* A kill ends what the thread does, and leaves the thread its spec.
LEMMA KillSpec ==
  ASSUME TypeOK, Kill
  PROVE  /\ thread'.spec = thread.spec /\ thread'.hung \in BOOLEAN
         /\ thread' = thread \/ thread'.at \in {"settling", "failing"}
         /\ thread' = thread \/ thread.at \in {"rendering", "encoding"}
         /\ thread'.at = "failing" => thread'.beat = thread.beat
         /\ UNCHANGED <<file, agent, opened>>
<1>1. thread \in Threads  BY DEF TypeOK
<1>2. CASE thread.at = "rendering" /\ Exit(FALSE)
  <2>1. PICK beat \in BOOLEAN :
          thread' = [thread EXCEPT !.at = "settling", !.hung = FALSE, !.beat = beat,
                                   !.retry = @ /\ ~FALSE]
    BY <1>2 DEF Exit
  <2> QED BY <1>1, <1>2, <2>1 DEF Threads, Kill
<1>3. CASE thread.at = "encoding" /\ thread' = [thread EXCEPT !.at = "failing"]
  BY <1>1, <1>3 DEF Threads, Kill
<1>4. CASE UNCHANGED thread  BY <1>1, <1>4 DEF Threads, Kill
<1> QED BY <1>2, <1>3, <1>4 DEF Kill

\* What the app's steps do on the node: nothing, or clear the state, or put a
\* spec in place, or withdraw it, or kill.
LEMMA AppOnNode ==
  ASSUME NEW a \in Attempts, AppStep(a) \/ AppFault(a) \/ CancelCleans(a) \/ KillAgain(a)
  PROVE  /\ \/ UNCHANGED nodeVars
            \/ file' = NoFile /\ UNCHANGED <<inbox, agent, thread, opened>>
            \/ SpecLands(a)
            \/ Kill /\ inbox' \in {inbox, None}
         /\ sent' = sent
<1>1. CASE CancelCleans(a)  BY <1>1 DEF CancelCleans, Withdraw, Lost
<1>2. CASE KillAgain(a)  BY <1>2 DEF KillAgain, Lost, nodeVars
<1>3. CASE Clear(a)  BY <1>3 DEF Clear, Lost
<1>4. CASE Retract(a) \/ RetractLost(a)
  BY <1>4 DEF Retract, RetractLost, AfterRetract, Withdraw, Lost
<1>5. CASE SpecLands(a)  BY <1>5 DEF SpecLands
<1>6. CASE \/ Prepared(a) \/ SpecAnswered(a) \/ Started(a) \/ PollStops(a) \/ Act(a)
           \/ ActChecked(a)
  <2>1. UNCHANGED nodeVars /\ sent' = sent
    BY <1>6 DEF Prepared, SpecAnswered, Started, PollStops, Act, ActChecked
  <2> QED BY <2>1
<1>7. CASE Drained(a) \/ PrepFails(a) \/ SpecFails(a)
  <2>1. UNCHANGED nodeVars /\ sent' = sent  BY <1>7 DEF Drained, PrepFails, SpecFails
  <2> QED BY <2>1
<1>8. CASE \E what \in Sights : Read(a, what)  BY <1>8 DEF Read
<1> QED BY <1>1, <1>2, <1>3, <1>4, <1>5, <1>6, <1>7, <1>8 DEF AppStep, AppFault, Sights

LEMMA NodeKnownKept == ASSUME TypeOK, RunsKnown, NodeKnown, [Next]_vars PROVE NodeKnown'
<1>1. sent \in Nat /\ inbox \in Nat /\ thread.spec \in Nat /\ thread \in Threads
  BY HandoffAssumption DEF TypeOK, Someone, Threads
<1>2. CASE /\ inbox' \in {inbox, None} /\ thread'.spec \in {thread.spec, inbox, None}
           /\ sent' \in {sent, sent + 1}
  BY <1>1, <1>2 DEF NodeKnown, None
<1>3. CASE UNCHANGED vars  BY <1>2, <1>3 DEF vars, appVars, nodeVars
<1>4. CASE \/ Dispatch \/ Cancel \/ Revive \/ Reprovision \/ Hold \/ ForgetRestarted \/ SecondLook
  BY <1>2, <1>4 DEF Dispatch, Cancel, Revive, Reprovision, Hold, ForgetRestarted, Forget,
                    SecondLook, nodeVars
<1>5. CASE ReviveAgent \/ Reprovisioned
  BY <1>2, <1>5 DEF ReviveAgent, Reprovisioned, Restart, NoThread
<1>6. ASSUME NEW a \in Attempts, AppStep(a) \/ AppFault(a) \/ CancelCleans(a) \/ KillAgain(a)
      PROVE  NodeKnown'
  <2>1. CASE SpecLands(a)
    <3>1. ~At(a, "unsent") /\ inbox' = a /\ UNCHANGED <<thread, sent>>
      BY <2>1 DEF SpecLands, At
    <3>2. a <= sent  BY <1>1, <3>1, HandoffAssumption DEF RunsKnown, RunKnown, Attempts
    <3> QED BY <3>1, <3>2 DEF NodeKnown
  <2>2. CASE Kill /\ inbox' \in {inbox, None}
    <3>1. sent' = sent  BY <1>6, AppOnNode
    <3>2. thread'.spec = thread.spec  BY <2>2, KillSpec
    <3> QED BY <1>2, <2>2, <3>1, <3>2
  <2>3. CASE UNCHANGED <<inbox, thread>>
    <3>1. sent' = sent  BY <1>6, AppOnNode
    <3> QED BY <1>2, <2>3, <3>1
  <2> QED BY <1>6, <2>1, <2>2, <2>3, AppOnNode DEF nodeVars
<1>7. CASE AgentActs
  <2>1. sent' = sent
    BY <1>7 DEF AgentActs, AgentStep, Claim, Open, Launch, LaunchFails, Relaunch, RenderFails,
       Encode, Done, EncodeFails, Fail, Retire, LateBeat, Beat, BlenderEnds, Hang, Save,
       LaneFrees, AgentDies, OrphanEnds, AgentOnly, appVars
  <2>2. inbox' \in {inbox, None}
    BY <1>7 DEF AgentActs, AgentStep, Claim, Open, Launch, LaunchFails, Relaunch, RenderFails,
       Encode, Done, EncodeFails, Fail, Retire, LateBeat, Beat, BlenderEnds, Hang, Save,
       LaneFrees, AgentDies, OrphanEnds
  <2>3. thread'.spec \in {thread.spec, inbox, None}
    <3>1. CASE Open
      BY <1>1, <3>1 DEF Open, Thread, Threads
    <3>2. CASE BlenderEnds  BY <1>1, <3>2 DEF BlenderEnds, Exit, Threads
    <3>3. CASE Retire \/ AgentDies  BY <3>3 DEF Retire, AgentDies, NoThread
    <3> QED
      BY <1>1, <1>7, <3>1, <3>2, <3>3 DEF AgentActs, AgentStep, Claim, Launch, LaunchFails,
         Relaunch, RenderFails, Encode, Done, EncodeFails, Fail, LateBeat, Beat, Hang, Save,
         LaneFrees, OrphanEnds, Thread, Threads
  <2> QED BY <1>2, <2>1, <2>2, <2>3
<1> QED BY <1>3, <1>4, <1>5, <1>6, <1>7 DEF Next, AgentActs, Supervise

RunsInv == TypeOK /\ RunsKnown /\ NodeKnown

LEMMA RunsInit == Init => RunsInv
<1> SUFFICES ASSUME Init PROVE RunsInv  OBVIOUS
<1>1. TypeOK  BY TypeInit
<1>2. ASSUME NEW a \in Attempts PROVE RunKnown(a)
  BY HandoffAssumption DEF Init, RunKnown, At, Stopped, NewRun, Attempts
<1>3. OwnerKnown /\ NodeKnown  BY DEF Init, OwnerKnown, NodeKnown, NoThread, None
<1>4. OneAtATime  BY HandoffAssumption DEF Init, OneAtATime, Attempts
<1> QED BY <1>1, <1>2, <1>3, <1>4 DEF RunsInv, RunsKnown

LEMMA RunsKept == RunsInv /\ [Next]_vars => RunsInv'
  BY TypeKept, KnownKept, NodeKnownKept DEF RunsInv

\* Whatever is lost, late or cancelled: a run under way is the one the app holds,
\* or was stopped; and the node holds nothing of an attempt not yet sent.
THEOREM HandoffRuns == Spec => []RunsInv
  BY RunsInit, RunsKept, PTL DEF Spec

LEMMA SuccessorSpared ==
  ASSUME RunsInv, ~Overlap, NEW a \in Attempts, At(a, "retracting") \/ a \in cleaning
  PROVE  NoLaterThan(a)
<1>1. a \in Nat /\ sent \in Nat  BY HandoffAssumption DEF Attempts, RunsInv, TypeOK, Someone
<1>2. CASE At(a, "retracting")
  <2>1. ~At(a, "unsent") /\ ~At(a, "over")  BY <1>2 DEF At
  <2>2. a = sent  BY <1>1, <2>1 DEF RunsInv, RunsKnown, RunKnown, OneAtATime
  <2> QED BY <2>2 DEF RunsInv, NodeKnown, NoLaterThan
<1>3. CASE a \in cleaning
  <2>1. a = sent  BY <1>3 DEF RunsInv, RunsKnown, OwnerKnown
  <2> QED BY <2>1 DEF RunsInv, NodeKnown, NoLaterThan
<1> QED BY <1>2, <1>3

\* Where no abandoned dispatch still waits for an answer when its chunk is sent
\* again, a clean-up finds nothing of a later attempt, for any number of attempts,
\* cancels, crashes and lost commands.
THEOREM SuccessorsSpared == ~Overlap => (Spec => KillsSpareSuccessors)
<1> SUFFICES ASSUME ~Overlap PROVE Spec => KillsSpareSuccessors  OBVIOUS
<1>1. RunsInv => [\A a \in Attempts : Retract(a) \/ CancelCleans(a) => NoLaterThan(a)]_vars
  BY SuccessorSpared DEF Retract, CancelCleans
<1> QED BY <1>1, HandoffRuns, PTL DEF KillsSpareSuccessors

-----------------------------------------------------------------------------
(* Whose state. *)

\* A spec not yet written is neither in the inbox nor opened.
Unwritten(a) ==
    run[a].at \in {"unsent", "preparing", "clearing", "writing"} => a \notin opened /\ a # inbox

\* A spec that was opened is in the inbox only as long as its thread lives, or its
\* agent does not.
OpenedOnce == inbox \in opened => ~agent \/ thread.at \notin {"none", "claimed"}

\* A thread has a spec from its opening on; one without can only fail.
ThreadKnown ==
    /\ thread.spec # None => thread.spec \in opened
    /\ thread.at \in {"none", "claimed"} => thread.spec = None
    /\ thread.spec = None => thread.at \in {"none", "claimed", "failing", "failed"} /\ ~thread.beat

\* A verdict on a living thread's spec is that thread's last word.
FileKnown ==
    /\ file.by # None => file.by \in opened
    /\ file.by = None => file = NoFile \/ file.status = "failed"
    /\ file.status \in {"done", "failed"} => ~file.idle
    /\ file.status \in {"done", "failed"} /\ thread.spec # None /\ file.by = thread.spec
         => thread.at = file.status

SpecsInv == (\A a \in Attempts : Unwritten(a)) /\ OpenedOnce /\ ThreadKnown /\ FileKnown

LEMMA SpecsInit == Init => SpecsInv
  BY HandoffAssumption DEF Init, SpecsInv, Unwritten, OpenedOnce, ThreadKnown, FileKnown, NoThread,
     NoFile, None, Attempts

\* A step that leaves the node alone, and no attempt's spec unwritten again.
LEMMA SpecsAside ==
  ASSUME TypeOK, SpecsInv, UNCHANGED <<inbox, file, agent, thread, opened>>,
         \A b \in Attempts :
           run'[b].at \in {"unsent", "preparing", "clearing", "writing"}
             => run[b].at \in {"unsent", "preparing", "clearing", "writing"}
  PROVE  SpecsInv'
  BY DEF SpecsInv, Unwritten, OpenedOnce, ThreadKnown, FileKnown

\* No step of the app takes a run back to before its spec was written.
LEMMA NeverUnwritten ==
  ASSUME TypeOK, RunsKnown, NEW b \in Attempts,
         \/ Dispatch \/ Cancel \/ Revive \/ Reprovision \/ Supervise
         \/ \E a \in Attempts : AppStep(a) \/ AppFault(a) \/ CancelCleans(a) \/ KillAgain(a)
  PROVE  run'[b].at \in {"unsent", "preparing", "clearing", "writing"}
           => run[b].at \in {"unsent", "preparing", "clearing", "writing"}
<1> DEFINE Early == {"unsent", "preparing", "clearing", "writing"}
           Kept == run'[b].at \in Early => run[b].at \in Early
<1> SUFFICES Kept  OBVIOUS
<1>1. run \in [Attempts -> Runs] /\ \A a \in Attempts : run[a] \in Runs
  BY DEF TypeOK
<1>2. CASE UNCHANGED run  BY <1>2
<1>3. ASSUME NEW a \in Attempts, End(a) PROVE Kept
  BY <1>1, <1>3 DEF End, Over, NewRun
<1>4. ASSUME NEW a \in Attempts, NEW p \in Phases, NEW w \in Thens, p \notin Early, GoOn(a, p, w)
      PROVE  Kept
  BY <1>1, <1>4 DEF GoOn, NewRun
<1>5. ASSUME NEW a \in Attempts, NEW p \in Phases \ Early, Go(a, p) PROVE Kept
  BY <1>1, <1>5 DEF Go
<1>6. ASSUME NEW a \in Attempts, NEW w \in Thens, StartRetract(a, w) \/ StartDrain(a, w) PROVE Kept
  BY <1>4, <1>6 DEF StartRetract, StartDrain, Phases
<1>7. ASSUME NEW a \in Attempts, Prepared(a) \/ Clear(a) PROVE Kept
  <2>1. run[a].at \in Early  BY <1>7 DEF Prepared, Clear, At
  <2>2. \A c \in Attempts : c # a => run'[c] = run[c]
    BY <1>1, <1>7 DEF Prepared, Clear, Go, End
  <2> QED BY <2>1, <2>2
<1>8. ASSUME NEW a \in Attempts, PrepFails(a) \/ PollStops(a) \/ Drained(a) PROVE Kept
  BY <1>3, <1>8 DEF PrepFails, PollStops, Drained, FinishFailed
<1>9. ASSUME NEW a \in Attempts, SpecLands(a) \/ SpecAnswered(a) \/ Started(a) \/ SpecFails(a)
       PROVE  Kept
  BY <1>5, <1>6, <1>9 DEF SpecLands, SpecAnswered, Started, SpecFails, Phases, Thens
<1>10. ASSUME NEW a \in Attempts, NEW what \in Sights, Read(a, what) PROVE Kept
  BY <1>1, <1>10 DEF Read
<1>11. ASSUME NEW a \in Attempts, Act(a) PROVE Kept
  <2>1. CASE run[a].saw = "missing"
    <3> DEFINE q == inbox # None
    <3>1. run' = [run EXCEPT ![a] = [run[a] EXCEPT !.at = "checked", !.saw = "nothing",
                                                   !.queued = q, !.alive = agent]]
      BY <1>11, <2>1 DEF Act
    <3> HIDE DEF q
    <3> QED BY <1>1, <3>1 DEF Runs
  <2>2. CASE run[a].saw # "missing"
    <3>1. \E w \in Thens : StartRetract(a, w) \/ StartDrain(a, w)
      BY <1>11, <2>2 DEF Act, Thens
    <3> QED BY <1>6, <3>1
  <2> QED BY <2>1, <2>2
<1>12. ASSUME NEW a \in Attempts, ActChecked(a) PROVE Kept
  <2>1. CASE run' = [run EXCEPT ![a] = Polling]  BY <1>1, <2>1 DEF Polling, NewRun
  <2>2. CASE run' # [run EXCEPT ![a] = Polling]
    <3>1. \E w \in Thens : StartRetract(a, w) \/ StartDrain(a, w)
      BY <1>12, <2>2 DEF ActChecked, Thens
    <3> QED BY <1>6, <3>1
  <2> QED BY <2>1, <2>2
<1>13. ASSUME NEW a \in Attempts, Retract(a) \/ RetractLost(a) PROVE Kept
  <2>1. CASE End(a)  BY <1>3, <2>1
  <2>2. CASE run' = [run EXCEPT ![a].at = "draining", ![a].queueing = FALSE]  BY <1>1, <2>2
  <2> QED BY <1>13, <2>1, <2>2 DEF Retract, RetractLost, AfterRetract, FinishFailed
<1>14. CASE Dispatch
  <2>1. \A c \in Attempts : c # sent + 1 => run'[c] = run[c]  BY <1>1, <1>14 DEF Dispatch
  <2>2. sent + 1 \in Attempts => run[sent + 1].at = "unsent"
    BY HandoffAssumption DEF TypeOK, Someone, RunsKnown, RunKnown, At
  <2> QED BY <2>1, <2>2
<1>15. CASE Cancel \/ ForgetRestarted \/ Reprovision
  <2>1. \A c \in Attempts : run'[c].at = run[c].at
    <3>1. CASE owner = None
      BY <1>1, <1>15, <3>1 DEF Cancel, ForgetRestarted, Reprovision, Forget
    <3>2. CASE owner # None
      <4>1. run' = [run EXCEPT ![owner].stopped = TRUE]
        BY <1>15, <3>2 DEF Cancel, ForgetRestarted, Reprovision, Forget
      <4> QED BY <1>1, <4>1 DEF Runs
    <3> QED BY <3>1, <3>2
  <2> QED BY <2>1
<1>16. CASE Revive \/ Hold \/ ReviveAgent \/ Reprovisioned \/ SecondLook
  BY <1>2, <1>16 DEF Revive, Hold, ReviveAgent, Reprovisioned, SecondLook
<1>17. ASSUME NEW a \in Attempts, CancelCleans(a) \/ KillAgain(a) PROVE Kept
  BY <1>2, <1>17 DEF CancelCleans, KillAgain
<1> QED BY <1>7, <1>8, <1>9, <1>10, <1>11, <1>12, <1>13, <1>14, <1>15, <1>16, <1>17
        DEF AppStep, AppFault, Supervise, Sights

LEMMA AppSpecs ==
  ASSUME TypeOK, RunsKnown, SpecsInv,
         NEW a \in Attempts, AppStep(a) \/ AppFault(a) \/ CancelCleans(a) \/ KillAgain(a)
  PROVE  SpecsInv'
<1>1. \A b \in Attempts :
         run'[b].at \in {"unsent", "preparing", "clearing", "writing"}
           => run[b].at \in {"unsent", "preparing", "clearing", "writing"}
  BY NeverUnwritten
<1>2. opened \in SUBSET Attempts /\ \A b \in Attempts : b # None
  BY HandoffAssumption DEF TypeOK, Attempts, None
<1>3. CASE UNCHANGED nodeVars  BY <1>1, <1>3, SpecsAside DEF nodeVars
<1>4. CASE file' = NoFile /\ UNCHANGED <<inbox, agent, thread, opened>>
  BY <1>1, <1>4 DEF SpecsInv, Unwritten, OpenedOnce, ThreadKnown, FileKnown, NoFile, None
<1>5. CASE SpecLands(a)
  <2>1. At(a, "writing") /\ inbox' = a /\ UNCHANGED <<file, agent, thread, opened>>
    BY <1>5 DEF SpecLands
  <2>2. a \notin opened  BY <2>1 DEF SpecsInv, Unwritten, At
  <2>3. run'[a].at = "written"  BY <1>5 DEF SpecLands, Go, TypeOK
  <2>4. \A b \in Attempts : Unwritten(b)'  BY <1>1, <2>1, <2>3 DEF SpecsInv, Unwritten
  <2> QED BY <2>1, <2>2, <2>4 DEF SpecsInv, OpenedOnce, ThreadKnown, FileKnown
<1>6. CASE Kill /\ inbox' \in {inbox, None}
  <2>1. UNCHANGED <<file, agent, opened>> /\ thread'.spec = thread.spec  BY <1>6, KillSpec
  <2>2. thread' = thread \/ thread.at \in {"rendering", "encoding"}  BY <1>6, KillSpec
  <2>3. thread' = thread \/ thread'.at \in {"settling", "failing"}  BY <1>6, KillSpec
  <2>4. \A b \in Attempts : Unwritten(b)'  BY <1>1, <1>2, <1>6, <2>1 DEF SpecsInv, Unwritten
  <2>5. OpenedOnce'  BY <1>2, <1>6, <2>1, <2>2, <2>3 DEF SpecsInv, OpenedOnce
  <2>6. ThreadKnown'  BY <2>1, <2>2, <2>3 DEF SpecsInv, ThreadKnown
  <2>7. FileKnown'  BY <2>1, <2>2, <2>3 DEF SpecsInv, FileKnown
  <2> QED BY <2>4, <2>5, <2>6, <2>7 DEF SpecsInv
<1> QED BY <1>3, <1>4, <1>5, <1>6, AppOnNode

LEMMA EnvironmentSpecs ==
  ASSUME TypeOK, RunsKnown, SpecsInv, Dispatch \/ Cancel \/ Revive \/ Reprovision \/ Supervise
  PROVE  SpecsInv'
<1>1. \A b \in Attempts :
         run'[b].at \in {"unsent", "preparing", "clearing", "writing"}
           => run[b].at \in {"unsent", "preparing", "clearing", "writing"}
  BY NeverUnwritten
<1>2. CASE ReviveAgent \/ Reprovisioned
  <2>1. inbox' = None /\ thread' = NoThread /\ UNCHANGED <<file, opened>>
    BY <1>2 DEF ReviveAgent, Reprovisioned, Restart
  <2>2. opened \in SUBSET Attempts /\ \A b \in Attempts : b # None
    BY HandoffAssumption DEF TypeOK, Attempts, None
  <2> QED BY <1>1, <2>1, <2>2
          DEF SpecsInv, Unwritten, OpenedOnce, ThreadKnown, FileKnown, NoThread, None
<1>3. CASE UNCHANGED nodeVars  BY <1>1, <1>3, SpecsAside DEF nodeVars
<1> QED BY <1>2, <1>3
        DEF Dispatch, Cancel, Revive, Reprovision, Supervise, Hold, ForgetRestarted, SecondLook

\* The thread goes on with the spec it has, before any verdict or after a failure.
LEMMA ThreadGoes ==
  ASSUME TypeOK, SpecsInv, UNCHANGED <<run, inbox, agent, opened>>,
         thread'.spec = thread.spec, thread.at \notin {"none", "claimed", "done", "failed"},
         thread'.at \notin {"none", "claimed"},
         thread.spec = None => thread'.at \in {"failing", "failed"} /\ ~thread'.beat,
         \/ UNCHANGED file
         \/ /\ thread'.at \in {"done", "failed"}
            /\ file' = [by |-> thread.spec, status |-> thread'.at, idle |-> FALSE]
         \/ /\ file'.by = thread.spec /\ file'.status \in {"rendering", "encoding"}
            /\ thread.spec # None
  PROVE  SpecsInv'
<1>1. (\A b \in Attempts : Unwritten(b)') /\ OpenedOnce' /\ ThreadKnown'
  BY DEF SpecsInv, Unwritten, OpenedOnce, ThreadKnown
<1>2. FileKnown'
  <2>1. CASE UNCHANGED file  BY <2>1 DEF SpecsInv, FileKnown
  <2>2. CASE /\ thread'.at \in {"done", "failed"}
             /\ file' = [by |-> thread.spec, status |-> thread'.at, idle |-> FALSE]
    <3>1. file'.by = thread.spec /\ file'.status = thread'.at /\ ~file'.idle  BY <2>2
    <3>2. thread.spec # None => thread.spec \in opened  BY DEF SpecsInv, ThreadKnown
    <3> QED BY <2>2, <3>1, <3>2 DEF FileKnown
  <2>3. CASE /\ file'.by = thread.spec /\ file'.status \in {"rendering", "encoding"}
             /\ thread.spec # None
    BY <2>3 DEF SpecsInv, ThreadKnown, FileKnown
  <2> QED BY <2>1, <2>2, <2>3
<1> QED BY <1>1, <1>2 DEF SpecsInv

LEMMA AgentSpecs ==
  ASSUME TypeOK, SpecsInv, AgentActs
  PROVE  SpecsInv'
<1>1. thread \in Threads /\ file \in Files  BY DEF TypeOK
<1>2. opened \in SUBSET Attempts /\ \A b \in Attempts : b # None
  BY HandoffAssumption DEF TypeOK, Attempts, None
<1>3. thread.at \notin {"none", "claimed", "failing", "failed"} => thread.spec # None
  BY DEF SpecsInv, ThreadKnown
<1>4. UNCHANGED run  BY DEF AgentActs, AgentStep, Claim, Open, Launch, LaunchFails, Relaunch,
  RenderFails, Encode, Done, EncodeFails, Fail, Retire, LateBeat, Beat, BlenderEnds, Hang, Save,
  LaneFrees, AgentDies, OrphanEnds, AgentOnly, appVars
<1>5. CASE Claim
  <2>1. thread' = [thread EXCEPT !.at = "claimed"] /\ thread.at = "none"  BY <1>5 DEF Claim, Thread
  <2>2. UNCHANGED <<inbox, file, agent, opened>> /\ agent  BY <1>5 DEF Claim, AgentOnly
  <2>3. thread'.at = "claimed" /\ thread'.spec = thread.spec /\ thread'.beat = thread.beat
    BY <1>1, <2>1 DEF Threads
  <2> QED BY <1>4, <2>1, <2>2, <2>3
          DEF SpecsInv, Unwritten, OpenedOnce, ThreadKnown, FileKnown
<1>6. CASE Open
  <2>1. UNCHANGED <<inbox, file, agent>> /\ agent /\ thread.at = "claimed"
    BY <1>6 DEF Open, AgentOnly
  <2>2. thread.spec = None /\ ~thread.beat  BY <2>1 DEF SpecsInv, ThreadKnown
  <2>3. CASE inbox = None
    <3>1. thread' = [thread EXCEPT !.at = "failing"] /\ UNCHANGED opened
      BY <1>6, <2>3 DEF Open, Thread
    <3>2. thread'.at = "failing" /\ thread'.spec = thread.spec /\ thread'.beat = thread.beat
      BY <1>1, <3>1 DEF Threads
    <3> QED BY <1>2, <1>4, <2>1, <2>2, <2>3, <3>1, <3>2
            DEF SpecsInv, Unwritten, OpenedOnce, ThreadKnown, FileKnown
  <2>4. CASE inbox # None
    <3>1. /\ thread' = [thread EXCEPT !.at = "opened", !.spec = inbox, !.retry = TRUE]
          /\ opened' = opened \cup {inbox}
      BY <1>6, <2>4 DEF Open
    <3>2. thread'.at = "opened" /\ thread'.spec = inbox  BY <1>1, <3>1 DEF Threads
    <3>3. inbox \notin opened  BY <2>1 DEF SpecsInv, OpenedOnce
    <3>4. file.by # inbox  BY <2>4, <3>3 DEF SpecsInv, FileKnown
    <3>5. \A b \in Attempts : Unwritten(b)'  BY <1>4, <2>1, <3>1 DEF SpecsInv, Unwritten
    <3>6. OpenedOnce' /\ ThreadKnown'  BY <2>4, <3>1, <3>2 DEF OpenedOnce, ThreadKnown
    <3>7. FileKnown'  BY <2>1, <3>1, <3>2, <3>4 DEF SpecsInv, FileKnown
    <3> QED BY <3>5, <3>6, <3>7 DEF SpecsInv
  <2> QED BY <2>3, <2>4
<1>7. CASE Retire \/ AgentDies
  <2>1. /\ thread' = NoThread /\ UNCHANGED <<file, opened>>
        /\ inbox' = None \/ ~agent'
        /\ inbox' \in {inbox, None}
    BY <1>7 DEF Retire, AgentDies, AgentOnly
  <2>2. thread'.spec = None /\ thread'.at = "none" /\ ~thread'.beat  BY <2>1 DEF NoThread
  <2>3. \A b \in Attempts : Unwritten(b)'  BY <1>2, <1>4, <2>1 DEF SpecsInv, Unwritten
  <2>4. OpenedOnce'  BY <1>2, <2>1 DEF OpenedOnce
  <2>5. ThreadKnown' /\ FileKnown'  BY <2>1, <2>2 DEF SpecsInv, ThreadKnown, FileKnown
  <2> QED BY <2>3, <2>4, <2>5 DEF SpecsInv
<1>8. CASE LateBeat
  <2>1. /\ UNCHANGED <<inbox, agent, opened>> /\ thread.beat
        /\ thread' = [thread EXCEPT !.beat = FALSE]
        /\ file' = [by |-> thread.spec, status |-> StatusAt(thread.at), idle |-> FALSE]
    BY <1>8 DEF LateBeat, AgentOnly, Write
  <2>2. thread'.at = thread.at /\ thread'.spec = thread.spec /\ ~thread'.beat
    BY <1>1, <2>1 DEF Threads
  <2>3. thread.spec # None /\ thread.spec \in opened  BY <2>1 DEF SpecsInv, ThreadKnown
  <2>4. file'.by = thread.spec /\ ~file'.idle
        /\ (file'.status \in {"done", "failed"} => thread.at = file'.status)
    BY <2>1 DEF StatusAt
  <2>5. (\A b \in Attempts : Unwritten(b)') /\ OpenedOnce' /\ ThreadKnown'
    BY <1>4, <2>1, <2>2 DEF SpecsInv, Unwritten, OpenedOnce, ThreadKnown
  <2>6. FileKnown'  BY <2>1, <2>2, <2>3, <2>4 DEF FileKnown
  <2> QED BY <2>5, <2>6 DEF SpecsInv
<1>9. CASE Launch \/ Encode \/ Beat
  <2>1. UNCHANGED <<inbox, agent, opened>>  BY <1>9 DEF Launch, Encode, Beat, AgentOnly
  <2>2. /\ thread.at \in {"opened", "rendering", "rendered"}
        /\ thread' = thread \/ thread' = [thread EXCEPT !.at = "rendering"]
           \/ thread' = [thread EXCEPT !.at = "encoding"]
        /\ file'.by = thread.spec /\ file'.status \in {"rendering", "encoding"}
    BY <1>9 DEF Launch, Encode, Beat, Thread, Write, StatusAt
  <2>3. thread'.spec = thread.spec /\ thread'.at \in {"opened", "rendering", "rendered", "encoding"}
    BY <1>1, <2>2 DEF Threads
  <2> QED BY <1>3, <1>4, <2>1, <2>2, <2>3, ThreadGoes
<1>10. CASE Done
  <2>1. /\ UNCHANGED <<inbox, agent, opened>> /\ thread.at = "encoding"
        /\ thread' = [thread EXCEPT !.at = "done"]
        /\ file' = [by |-> thread.spec, status |-> "done", idle |-> FALSE]
    BY <1>10 DEF Done, AgentOnly, Thread, Write, StatusAt
  <2>2. thread'.spec = thread.spec /\ thread'.at = "done"  BY <1>1, <2>1 DEF Threads
  <2> QED BY <1>3, <1>4, <2>1, <2>2, ThreadGoes
<1>11. CASE Fail
  <2>1. /\ UNCHANGED <<inbox, agent, opened>> /\ thread.at = "failing"
        /\ thread' = [thread EXCEPT !.at = "failed"]
        /\ UNCHANGED file \/ file' = [by |-> thread.spec, status |-> "failed", idle |-> FALSE]
    BY <1>11 DEF Fail, AgentOnly, Thread, Write, StatusAt
  <2>2. thread'.spec = thread.spec /\ thread'.at = "failed" /\ thread'.beat = thread.beat
    BY <1>1, <2>1 DEF Threads
  <2>3. thread.spec = None => ~thread.beat  BY DEF SpecsInv, ThreadKnown
  <2> QED BY <1>4, <2>1, <2>2, <2>3, ThreadGoes
<1>12. CASE LaunchFails \/ Relaunch \/ RenderFails \/ EncodeFails
  <2>1. /\ UNCHANGED <<inbox, file, agent, opened>>
        /\ thread.at \in {"opened", "settling", "encoding"}
        /\ \/ thread' = [thread EXCEPT !.at = "failing"]
           \/ \E p \in {"failing", "rendering"} : thread' = [thread EXCEPT !.at = p, !.retry = FALSE]
    BY <1>12 DEF LaunchFails, Relaunch, RenderFails, EncodeFails, AgentOnly, Thread
  <2>2. thread'.spec = thread.spec /\ thread'.at \in {"failing", "rendering"}
    BY <1>1, <2>1 DEF Threads
  <2> QED BY <1>3, <1>4, <2>1, <2>2, ThreadGoes
<1>13. CASE BlenderEnds \/ Hang \/ Save
  <2>1. UNCHANGED <<inbox, file, agent, opened>> /\ thread.at = "rendering"
    BY <1>13 DEF BlenderEnds, Hang, Save, AgentOnly
  <2>2. thread'.spec = thread.spec /\ thread'.at \in {"rendering", "rendered", "settling"}
    <3>1. CASE BlenderEnds  BY <1>1, <3>1 DEF BlenderEnds, Exit, Threads
    <3>2. CASE Hang \/ Save  BY <1>1, <2>1, <3>2 DEF Hang, Save, Threads
    <3> QED BY <1>13, <3>1, <3>2
  <2> QED BY <1>3, <1>4, <2>1, <2>2, ThreadGoes
<1>14. CASE LaneFrees \/ OrphanEnds
  BY <1>4, <1>14, SpecsAside DEF LaneFrees, OrphanEnds
<1> QED BY <1>5, <1>6, <1>7, <1>8, <1>9, <1>10, <1>11, <1>12, <1>13, <1>14 DEF AgentActs, AgentStep

SpecsKnown == RunsInv /\ SpecsInv

LEMMA SpecsKept == SpecsKnown /\ [Next]_vars => SpecsKnown'
<1> SUFFICES ASSUME SpecsKnown, [Next]_vars PROVE SpecsInv'  BY RunsKept DEF SpecsKnown
<1>1. CASE UNCHANGED vars
  BY <1>1, SpecsAside DEF vars, appVars, nodeVars, SpecsKnown, RunsInv
<1>2. CASE Next
  BY <1>2, AppSpecs, EnvironmentSpecs, AgentSpecs DEF Next, AgentActs, SpecsKnown, RunsInv
<1> QED BY <1>1, <1>2

\* A spec is opened once, a thread's state is of the spec it opened, and a verdict
\* on it is that thread's last word, through every crash, restart and lost command.
THEOREM HandoffSpecs == Spec => []SpecsKnown
<1>1. Init => SpecsKnown  BY RunsInit, SpecsInit DEF SpecsKnown
<1> QED BY <1>1, SpecsKept, PTL DEF Spec

\* What the app and the supervisor leave on the node: no thread that opens a spec,
\* and the state as it was, or none.
LEMMA ElsewhereOnNode ==
  ASSUME TypeOK,
         \/ Dispatch \/ Cancel \/ Revive \/ Reprovision \/ Supervise
         \/ \E a \in Attempts : AppStep(a) \/ AppFault(a) \/ CancelCleans(a) \/ KillAgain(a)
  PROVE  /\ thread' = thread \/ thread'.at # "opened"
         /\ file' \in {file, NoFile}
<1>1. CASE ReviveAgent \/ Reprovisioned
  BY <1>1 DEF ReviveAgent, Reprovisioned, Restart, NoThread
<1>2. CASE \/ Dispatch \/ Cancel \/ Revive \/ Reprovision \/ Hold \/ ForgetRestarted \/ SecondLook
  BY <1>2 DEF Dispatch, Cancel, Revive, Reprovision, Hold, ForgetRestarted, SecondLook, nodeVars
<1>3. ASSUME NEW a \in Attempts, AppStep(a) \/ AppFault(a) \/ CancelCleans(a) \/ KillAgain(a)
      PROVE  /\ thread' = thread \/ thread'.at # "opened"
             /\ file' \in {file, NoFile}
  <2>1. CASE Kill  BY <2>1, KillSpec
  <2>2. CASE UNCHANGED <<thread, file>>  BY <2>2
  <2> QED BY <1>3, <2>1, <2>2, AppOnNode DEF nodeVars, SpecLands
<1> QED BY <1>1, <1>2, <1>3 DEF Supervise

\* The agent renders a spec once, for every interleaving of restarts, withdrawals
\* and new attempts.
THEOREM RendersOnce == Spec => RenderedOnce
<1>1. SpecsKnown /\ [Next]_vars =>
        [thread.at = "claimed" /\ thread'.at = "opened" => inbox \notin opened]_vars
  <2> SUFFICES ASSUME SpecsKnown, Next, thread.at = "claimed", thread'.at = "opened"
               PROVE  inbox \notin opened
    OBVIOUS
  <2>1. thread \in Threads  BY DEF SpecsKnown, RunsInv, TypeOK
  <2>2. AgentActs
    BY ElsewhereOnNode DEF Next, AgentActs, SpecsKnown, RunsInv
  <2>3. agent
    BY <2>2 DEF AgentActs, AgentStep, Claim, Open, Launch, LaunchFails, Relaunch, RenderFails,
       Encode, Done, EncodeFails, Fail, Retire, LateBeat, Beat, BlenderEnds, Hang, Save,
       LaneFrees, AgentDies, OrphanEnds, AgentOnly
  <2> QED BY <2>3 DEF SpecsKnown, SpecsInv, OpenedOnce
<1> QED BY <1>1, HandoffSpecs, PTL DEF Spec, RenderedOnce

LEMMA VerdictKept ==
  ASSUME SpecsKnown, AgentActs, file.status \in {"done", "failed"}, file'.by = file.by
  PROVE  file' = file
<1>1. file \in Files /\ thread \in Threads  BY DEF SpecsKnown, RunsInv, TypeOK
<1>2. file = [by |-> file.by, status |-> file.status, idle |-> FALSE]
  BY <1>1 DEF Files, NoFile, SpecsKnown, SpecsInv, FileKnown
<1>3. CASE UNCHANGED file  BY <1>3
<1>4. CASE LateBeat
  <2>1. file' = [by |-> thread.spec, status |-> StatusAt(thread.at), idle |-> FALSE] /\ thread.beat
    BY <1>4 DEF LateBeat, Write
  <2>2. thread.spec # None  BY <2>1 DEF SpecsKnown, SpecsInv, ThreadKnown
  <2>3. thread.at = file.status
    BY <2>1, <2>2 DEF SpecsKnown, SpecsInv, FileKnown
  <2> QED BY <1>2, <2>1, <2>3 DEF StatusAt
<1>5. CASE Launch \/ Beat \/ Encode \/ Done
  <2>1. thread.at \in {"opened", "rendering", "rendered", "encoding"} /\ file'.by = thread.spec
    BY <1>5 DEF Launch, Beat, Encode, Done, Thread, Write
  <2>2. thread.spec # None  BY <2>1 DEF SpecsKnown, SpecsInv, ThreadKnown
  <2> QED BY <2>1, <2>2 DEF SpecsKnown, SpecsInv, FileKnown
<1>6. CASE Fail
  <2>1. thread.at = "failing" /\ (UNCHANGED file \/ file' = [by |-> thread.spec, status |-> "failed", idle |-> FALSE])
    BY <1>6 DEF Fail, Thread, Write, StatusAt
  <2>2. CASE file' = [by |-> thread.spec, status |-> "failed", idle |-> FALSE]
    <3>1. thread.spec = None  BY <2>1, <2>2 DEF SpecsKnown, SpecsInv, FileKnown
    <3>2. file.status = "failed"
      BY <2>2, <3>1 DEF SpecsKnown, SpecsInv, FileKnown, NoFile
    <3> QED BY <1>2, <2>2, <3>2
  <2> QED BY <2>1, <2>2
<1> QED BY <1>3, <1>4, <1>5, <1>6 DEF AgentActs, AgentStep, Claim, Open, LaunchFails, Relaunch,
  RenderFails, EncodeFails, Retire, BlenderEnds, Hang, Save, LaneFrees, AgentDies, OrphanEnds

\* The verdict of a render stands until the next attempt clears it, whichever
\* heartbeat of its thread was still to write.
THEOREM VerdictsStand == Spec => VerdictStands
<1>1. SpecsKnown /\ [Next]_vars =>
        [file.status \in {"done", "failed"} /\ file' # NoFile /\ file'.by = file.by
          => file' = file]_vars
  BY ElsewhereOnNode, VerdictKept DEF Next, AgentActs, SpecsKnown, RunsInv
<1> QED BY <1>1, HandoffSpecs, PTL DEF Spec, VerdictStands

-----------------------------------------------------------------------------
(* Who may yet stop a render.  Unless something slipped, the node is at every *)
(* moment in one of three conditions: it renders nothing more of what it      *)
(* holds, or no more than an armed second kill ends; or a withdrawal or a     *)
(* restart is on its way; or an attempt still to act is polling.              *)

Verdict == file.status \in {"done", "failed"}

\* The agent renders nothing more: what is in the inbox is retired with its thread.
Ended ==
    \/ ~agent
    \/ thread.at \in {"none", "claimed"} /\ inbox = None
    \/ thread.at \in {"rendered", "encoding", "failing", "done", "failed"}

\* Or its Blender was killed: it may be relaunched once.
Killed == Ended \/ thread.at = "settling" \/ (thread.at = "rendering" /\ ~thread.retry)

\* And then a second kill is to come.
KilledTwice ==
    /\ Killed
    /\ thread.at = "rendering" \/ (thread.at = "settling" /\ thread.retry) => armed # {}

\* A withdrawal or a restart is on its way.
Withdraws(a) == At(a, "retracting") \/ (Stopped(a) /\ run[a].at \in {"written", "starting"})
WithdrawalComing ==
    cleaning # {} \/ service = "reprovisioning" \/ \E a \in Attempts : Withdraws(a)

Waiting == {"written", "starting", "polling", "read", "checked"}
Driving(a) == ~Stopped(a) /\ run[a].at \in {"clearing", "writing"} \cup Waiting

SomeoneStops == KilledTwice \/ WithdrawalComing \/ \E a \in Attempts : Driving(a)

\* What an attempt knows when it ends without a withdrawal of its own.
Informed(a) ==
    ~Stopped(a) =>
        /\ run[a].at \in {"clearing", "writing"} => Killed
        /\ At(a, "read") /\ run[a].saw \in {"done", "failed", "stalled"} => Ended
        /\ At(a, "read") /\ run[a].saw = "missing" /\ inbox = None => Ended
        /\ At(a, "checked") /\ run[a].alive /\ ~run[a].queued => Ended
        /\ At(a, "draining") /\ run[a].queueing => Ended

\* A spec nobody took has no state to be taken for one's own.
Untaken(a) ==
    ~Stopped(a) /\ agent /\ thread.at \in {"none", "claimed"} =>
        /\ At(a, "writing") => file = NoFile \/ service = "restarted"
        /\ run[a].at \in Waiting => file = NoFile \/ inbox = None

\* A verdict is none of an earlier render, and is the agent's last word.
LastWord(a) ==
    ~Stopped(a) =>
        /\ At(a, "writing") =>
             service = "restarted" \/ (~Verdict /\ thread.at \notin {"done", "failed"})
        /\ run[a].at \in Waiting => (Verdict => Ended)

Knows(a) == Informed(a) /\ Untaken(a) /\ LastWord(a)

\* One attempt at a time; a restart has emptied the node.
Alone == \A a \in Attempts : a < sent => At(a, "over")
Emptied == service = "restarted" => Ended

Timely == Alone /\ (\A a \in Attempts : Knows(a)) /\ Emptied /\ SomeoneStops

\* Whatever slips, an attempt not yet on its way is not queueing, one that is over
\* was stopped, and only a dead agent's Blender is without a thread.
Placed(a) ==
    /\ run[a].at \in {"unsent", "preparing"} => ~run[a].queueing
    /\ At(a, "over") => Stopped(a)
Shape ==
    /\ \A a \in Attempts : Placed(a)
    /\ service = "reprovisioning" => owner = None
    /\ orphan => ~agent
    /\ thread.at # "none" => agent

StopInv == Shape /\ Timely
SlipInv == Shape /\ (~slipped => Timely)

-----------------------------------------------------------------------------
(* The agent's steps. *)

\* What a step of the agent does to a render, its spec and its state.
Noted == file' = file \/ file'.status \in {"rendering", "encoding"}
SameFile == file' = file /\ inbox' = inbox
ThreadMove ==
    \/ thread.at = "none" /\ inbox # None /\ thread'.at = "claimed" /\ SameFile
    \/ thread.at = "claimed" /\ inbox = None /\ thread'.at = "failing" /\ SameFile
    \/ thread.at = "claimed" /\ inbox # None /\ thread'.at = "opened" /\ SameFile
    \/ thread.at = "opened" /\ thread'.at \in {"rendering", "failing"} /\ Noted /\ inbox' = inbox
    \/ /\ thread.at = "rendering" /\ thread'.at \in {"rendering", "rendered", "settling"}
       /\ Noted /\ inbox' = inbox
    \/ thread.at = "settling" /\ thread.retry /\ thread'.at = "rendering" /\ SameFile
    \/ thread.at = "settling" /\ thread'.at = "failing" /\ SameFile
    \/ thread.at = "rendered" /\ thread'.at = "encoding" /\ Noted /\ inbox' = inbox
    \/ thread.at = "encoding" /\ thread'.at = "failing" /\ SameFile
    \/ /\ thread.at \in {"encoding", "failing"} /\ thread'.at \in {"done", "failed"}
       /\ inbox' = inbox
    \/ /\ thread.at \notin {"none", "claimed", "done", "failed"} /\ thread'.at = thread.at
       /\ Noted /\ inbox' = inbox
    \/ thread.at \in {"done", "failed"} /\ thread'.at = thread.at /\ inbox' = inbox
    \/ thread.at \in {"done", "failed"} /\ thread'.at = "none" /\ inbox' = None /\ file' = file
RetryMove ==
    /\ thread'.retry => thread.retry \/ thread'.at = "opened"
    /\ thread.at = "settling" /\ thread'.at = "rendering" => ~thread'.retry
AgentMove ==
    \/ UNCHANGED <<inbox, file, agent, thread>> /\ (orphan' => orphan)
    \/ agent /\ agent' /\ orphan' = orphan /\ ThreadMove /\ RetryMove
    \/ agent /\ ~agent' /\ thread'.at = "none" /\ UNCHANGED <<inbox, file>>

LEMMA AgentMoves ==
  ASSUME TypeOK, SpecsInv, AgentActs
  PROVE  AgentMove /\ UNCHANGED appVars
<1>1. thread \in Threads /\ thread.retry \in BOOLEAN  BY DEF TypeOK, Threads
<1>2. thread.beat => thread.at \notin {"none", "claimed"}  BY DEF SpecsInv, ThreadKnown
<1>3. CASE LaneFrees
  BY <1>3 DEF LaneFrees, AgentMove
<1>4. CASE OrphanEnds
  BY <1>4 DEF OrphanEnds, AgentMove
<1>5. CASE AgentDies
  BY <1>5 DEF AgentDies, AgentMove, NoThread
<1>6. ASSUME AgentOnly, ThreadMove, RetryMove PROVE AgentMove /\ UNCHANGED appVars
  BY <1>6 DEF AgentOnly, AgentMove
<1>7. CASE Claim
  <2>1. thread' = [thread EXCEPT !.at = "claimed"]  BY <1>7 DEF Claim, Thread
  <2>2. thread'.at = "claimed" /\ thread'.retry = thread.retry  BY <1>1, <2>1 DEF Threads
  <2>3. ThreadMove /\ RetryMove  BY <1>7, <2>2 DEF Claim, Thread, ThreadMove, RetryMove, SameFile
  <2> QED BY <1>6, <1>7, <2>3 DEF Claim
<1>8. CASE Open
  <2>1. CASE inbox = None
    <3>1. thread' = [thread EXCEPT !.at = "failing"]  BY <1>8, <2>1 DEF Open, Thread
    <3>2. thread'.at = "failing" /\ thread'.retry = thread.retry  BY <1>1, <3>1 DEF Threads
    <3>3. ThreadMove /\ RetryMove
      BY <1>8, <2>1, <3>2 DEF Open, ThreadMove, RetryMove, SameFile
    <3> QED BY <1>6, <1>8, <3>3 DEF Open
  <2>2. CASE inbox # None
    <3>1. thread' = [thread EXCEPT !.at = "opened", !.spec = inbox, !.retry = TRUE]
      BY <1>8, <2>2 DEF Open
    <3>2. thread'.at = "opened"  BY <1>1, <3>1 DEF Threads
    <3>3. ThreadMove /\ RetryMove
      BY <1>8, <2>2, <3>2 DEF Open, ThreadMove, RetryMove, SameFile
    <3> QED BY <1>6, <1>8, <3>3 DEF Open
  <2> QED BY <2>1, <2>2
<1>9. CASE Launch
  <2>1. thread' = [thread EXCEPT !.at = "rendering"] /\ thread.at = "opened"
    BY <1>9 DEF Launch, Thread
  <2>2. thread'.at = "rendering" /\ thread'.retry = thread.retry  BY <1>1, <2>1 DEF Threads
  <2>3. file'.status = "rendering" /\ inbox' = inbox  BY <1>9 DEF Launch, Write, StatusAt
  <2>4. ThreadMove /\ RetryMove  BY <2>1, <2>2, <2>3 DEF ThreadMove, RetryMove, Noted
  <2> QED BY <1>6, <1>9, <2>4 DEF Launch
<1>10. CASE LaunchFails
  <2>1. thread' = [thread EXCEPT !.at = "failing", !.retry = FALSE] /\ thread.at = "opened"
    BY <1>10 DEF LaunchFails
  <2>2. thread'.at = "failing" /\ thread'.retry = FALSE  BY <1>1, <2>1 DEF Threads
  <2>3. ThreadMove /\ RetryMove
    BY <1>10, <2>1, <2>2 DEF LaunchFails, ThreadMove, RetryMove, Noted
  <2> QED BY <1>6, <1>10, <2>3 DEF LaunchFails
<1>11. CASE Beat
  <2>1. thread.at = "rendering" /\ thread' = thread /\ inbox' = inbox /\ file'.status = "rendering"
    BY <1>11 DEF Beat, Write, StatusAt
  <2>2. ThreadMove /\ RetryMove  BY <2>1 DEF ThreadMove, RetryMove, Noted
  <2> QED BY <1>6, <1>11, <2>2 DEF Beat
<1>12. CASE Save \/ Hang
  <2>1. \/ thread' = [thread EXCEPT !.retry = FALSE]
        \/ thread' = [thread EXCEPT !.hung = TRUE]
    BY <1>12 DEF Save, Hang
  <2>2. thread'.at = thread.at /\ thread'.retry \in {FALSE, thread.retry}
    BY <1>1, <2>1 DEF Threads
  <2>3. thread.at = "rendering" /\ SameFile  BY <1>12 DEF Save, Hang, SameFile
  <2>4. ThreadMove /\ RetryMove  BY <1>1, <2>2, <2>3 DEF ThreadMove, RetryMove, Noted, SameFile
  <2> QED BY <1>6, <1>12, <2>4 DEF Save, Hang
<1>13. CASE BlenderEnds
  <2>1. PICK clean \in BOOLEAN : Exit(clean)  BY <1>13 DEF BlenderEnds
  <2>2. PICK beat \in BOOLEAN :
          thread' = [thread EXCEPT !.at = IF clean THEN "rendered" ELSE "settling",
                                   !.hung = FALSE, !.beat = beat, !.retry = @ /\ ~clean]
    BY <2>1 DEF Exit
  <2>3. thread'.at \in {"rendered", "settling"}
    BY <1>1, <2>2 DEF Threads
  <2>4. thread'.retry => thread.retry
    BY <1>1, <2>2 DEF Threads
  <2>5. thread.at = "rendering" /\ SameFile  BY <1>13 DEF BlenderEnds, SameFile
  <2>6. ThreadMove /\ RetryMove
    BY <2>3, <2>4, <2>5 DEF ThreadMove, RetryMove, Noted, SameFile
  <2> QED BY <1>6, <1>13, <2>6 DEF BlenderEnds
<1>14. CASE Relaunch \/ RenderFails
  <2>1. \/ thread' = [thread EXCEPT !.at = "rendering", !.retry = FALSE] /\ thread.retry
        \/ thread' = [thread EXCEPT !.at = "failing", !.retry = FALSE]
    BY <1>14 DEF Relaunch, RenderFails
  <2>2. /\ (thread'.at = "rendering" /\ thread.retry) \/ thread'.at = "failing"
        /\ thread'.retry = FALSE
    BY <1>1, <2>1 DEF Threads
  <2>3. thread.at = "settling" /\ SameFile  BY <1>14 DEF Relaunch, RenderFails, SameFile
  <2>4. ThreadMove /\ RetryMove  BY <2>2, <2>3 DEF ThreadMove, RetryMove
  <2> QED BY <1>6, <1>14, <2>4 DEF Relaunch, RenderFails
<1>15. CASE Encode
  <2>1. thread' = [thread EXCEPT !.at = "encoding"] /\ thread.at = "rendered"
    BY <1>15 DEF Encode, Thread
  <2>2. thread'.at = "encoding" /\ thread'.retry = thread.retry  BY <1>1, <2>1 DEF Threads
  <2>3. file'.status = "encoding" /\ inbox' = inbox  BY <1>15 DEF Encode, Write, StatusAt
  <2>4. ThreadMove /\ RetryMove  BY <2>1, <2>2, <2>3 DEF ThreadMove, RetryMove, Noted
  <2> QED BY <1>6, <1>15, <2>4 DEF Encode
<1>16. CASE EncodeFails
  <2>1. thread' = [thread EXCEPT !.at = "failing"] /\ thread.at = "encoding"
    BY <1>16 DEF EncodeFails, Thread
  <2>2. thread'.at = "failing" /\ thread'.retry = thread.retry  BY <1>1, <2>1 DEF Threads
  <2>3. ThreadMove /\ RetryMove
    BY <1>16, <2>1, <2>2 DEF EncodeFails, ThreadMove, RetryMove, SameFile
  <2> QED BY <1>6, <1>16, <2>3 DEF EncodeFails
<1>17. CASE Done \/ Fail
  <2>1. \/ thread' = [thread EXCEPT !.at = "done"] /\ thread.at = "encoding"
        \/ thread' = [thread EXCEPT !.at = "failed"] /\ thread.at = "failing"
    BY <1>17 DEF Done, Fail, Thread
  <2>2. thread'.at \in {"done", "failed"} /\ thread'.retry = thread.retry
    BY <1>1, <2>1 DEF Threads
  <2>3. ThreadMove /\ RetryMove
    BY <1>17, <2>1, <2>2 DEF Done, Fail, ThreadMove, RetryMove
  <2> QED BY <1>6, <1>17, <2>3 DEF Done, Fail
<1>18. CASE Retire
  <2>1. thread'.at = "none" /\ thread'.retry = FALSE  BY <1>18 DEF Retire, NoThread
  <2>2. ThreadMove /\ RetryMove  BY <1>18, <2>1 DEF Retire, ThreadMove, RetryMove
  <2> QED BY <1>6, <1>18, <2>2 DEF Retire
<1>19. CASE LateBeat
  <2>1. thread' = [thread EXCEPT !.beat = FALSE]  BY <1>19 DEF LateBeat
  <2>2. thread'.at = thread.at /\ thread'.retry = thread.retry  BY <1>1, <2>1 DEF Threads
  <2>3. thread.at \notin {"none", "claimed"} /\ inbox' = inbox  BY <1>2, <1>19 DEF LateBeat
  <2>4. file'.status = StatusAt(thread.at)  BY <1>19 DEF LateBeat, Write
  <2>5. thread.at \notin {"done", "failed"} => Noted  BY <2>4 DEF StatusAt, Noted
  <2>6. ThreadMove /\ RetryMove  BY <2>2, <2>3, <2>5 DEF ThreadMove, RetryMove
  <2> QED BY <1>6, <1>19, <2>6 DEF LateBeat
<1> QED BY <1>3, <1>4, <1>5, <1>7, <1>8, <1>9, <1>10, <1>11, <1>12, <1>13, <1>14, <1>15, <1>16,
           <1>17, <1>18, <1>19 DEF AgentActs, AgentStep

\* What is over stays over, and what was killed gets no further.
LEMMA AgentEnds ==
  ASSUME TypeOK, AgentMove, UNCHANGED armed, thread.at # "none" => agent
  PROVE  /\ Ended => Ended'
         /\ Killed => Killed'
         /\ KilledTwice => KilledTwice'
<1>1. CASE UNCHANGED <<inbox, agent, thread>>
  BY <1>1 DEF Ended, Killed, KilledTwice
<1>2. CASE agent /\ agent' /\ ThreadMove /\ RetryMove
  <2>1. Ended => Ended'  BY <1>2 DEF ThreadMove, SameFile, Ended
  <2>2. Killed => Killed'  BY <1>2, <2>1 DEF ThreadMove, RetryMove, SameFile, Ended, Killed
  <2>3. KilledTwice => KilledTwice'
    BY <1>2, <2>2 DEF ThreadMove, RetryMove, SameFile, Ended, Killed, KilledTwice
  <2> QED BY <2>1, <2>2, <2>3
<1>3. CASE ~agent' /\ thread'.at = "none"
  BY <1>3 DEF Ended, Killed, KilledTwice
<1> QED BY <1>1, <1>2, <1>3 DEF AgentMove

LEMMA AgentShapes ==
  ASSUME TypeOK, SpecsInv, Shape, AgentActs
  PROVE  Shape'
<1>1. AgentMove /\ UNCHANGED <<owner, run, service>>  BY AgentMoves DEF appVars
<1>2. (orphan' => ~agent') /\ (thread'.at # "none" => agent')  BY <1>1 DEF Shape, AgentMove
<1> QED BY <1>1, <1>2 DEF Shape, Placed, At, Stopped

LEMMA AgentStops ==
  ASSUME TypeOK, SpecsInv, StopInv, AgentActs, ~VerdictTooLate
  PROVE  Timely'
<1>1. AgentMove /\ UNCHANGED <<owner, sent, run, cleaning, armed, service>>
  BY AgentMoves DEF appVars
<1>2. (Ended => Ended') /\ (Killed => Killed') /\ (KilledTwice => KilledTwice')
  BY <1>1, AgentEnds DEF StopInv, Shape
<1>3. inbox' = None => inbox = None \/ Ended'
  BY <1>1 DEF AgentMove, ThreadMove, SameFile, Ended
<1>4. ASSUME NEW a \in Attempts PROVE Knows(a)'
  <2>1. Informed(a) /\ Untaken(a) /\ LastWord(a)  BY DEF StopInv, Timely, Knows
  <2>2. Informed(a)'  BY <1>1, <1>2, <1>3, <2>1 DEF Informed, At, Stopped
  <2>3. ASSUME ~Stopped(a), At(a, "writing"), service # "restarted"
        PROVE  /\ ~Verdict /\ thread.at \notin {"done", "failed"}
               /\ thread'.at \in {"done", "failed"} => thread.at \notin {"encoding", "failing"}
    BY <2>1, <2>3 DEF LastWord, VerdictTooLate
  <2>4. Untaken(a)'
    <3> SUFFICES ASSUME ~Stopped(a), agent', thread'.at \in {"none", "claimed"}
                 PROVE  /\ At(a, "writing") => file' = NoFile \/ service = "restarted"
                        /\ run[a].at \in Waiting => file' = NoFile \/ inbox' = None
      BY <1>1 DEF Untaken, At, Stopped, Waiting
    <3>1. \/ agent /\ thread.at \in {"none", "claimed"} /\ file' = file /\ inbox' = inbox
          \/ inbox' = None /\ thread.at \in {"done", "failed"}
      BY <1>1 DEF AgentMove, ThreadMove, SameFile, StopInv, Shape
    <3> QED BY <2>1, <2>3, <3>1 DEF Untaken
  <2>5. LastWord(a)'
    <3>1. ASSUME ~Stopped(a), At(a, "writing"), service # "restarted"
          PROVE  ~Verdict' /\ thread'.at \notin {"done", "failed"}
      BY <1>1, <2>3, <3>1 DEF AgentMove, ThreadMove, SameFile, Noted, Verdict
    <3>2. ASSUME ~Stopped(a), run[a].at \in Waiting, Verdict' PROVE Ended'
      <4>1. CASE file' = file  BY <1>2, <2>1, <3>2, <4>1 DEF LastWord, Verdict
      <4>2. CASE file' # file
        BY <1>1, <3>2, <4>2 DEF AgentMove, ThreadMove, SameFile, Noted, Verdict, Ended
      <4> QED BY <4>1, <4>2
    <3> QED BY <1>1, <3>1, <3>2 DEF LastWord, At, Stopped, Waiting
  <2> QED BY <2>2, <2>4, <2>5 DEF Knows
<1>5. Alone' /\ Emptied'  BY <1>1, <1>2 DEF StopInv, Timely, Alone, Emptied, At
<1>6. SomeoneStops'
  BY <1>1, <1>2 DEF StopInv, Timely, SomeoneStops, WithdrawalComing, Withdraws, Driving, At, Stopped
<1> QED BY <1>4, <1>5, <1>6 DEF Timely

-----------------------------------------------------------------------------
(* The app's steps.  At most one attempt is under way at a time. *)

\* An attempt that is not under way: yet to be sent, or over.
Idle(b) == At(b, "unsent") \/ (At(b, "over") /\ Stopped(b))

LEMMA IdleKnows ==
  ASSUME NEW b \in Attempts, Idle(b), run'[b] = run[b]
  PROVE  Knows(b)'
  BY DEF Idle, Knows, Informed, Untaken, LastWord, At, Stopped, Waiting

LEMMA IdleRests == ASSUME NEW b \in Attempts, Idle(b) PROVE ~Withdraws(b) /\ ~Driving(b)
  BY DEF Idle, Withdraws, Driving, At, Stopped, Waiting

LEMMA Sole ==
  ASSUME TypeOK, RunsKnown, StopInv, NEW a \in Attempts, ~At(a, "unsent"), ~At(a, "over")
  PROVE  /\ a = sent /\ \A b \in Attempts : b # a => Idle(b)
         /\ \A b \in Attempts : b < a => At(b, "over")
<1>1. a <= sent /\ ~(a < sent)
  BY HandoffAssumption DEF RunsKnown, RunKnown, StopInv, Timely, Alone, TypeOK, Attempts, Someone
<1>2. a = sent  BY <1>1, HandoffAssumption DEF TypeOK, Attempts, Someone
<1>3. ASSUME NEW b \in Attempts, b # a PROVE Idle(b)
  <2>1. CASE b < sent
    BY <2>1 DEF StopInv, Timely, Alone, Shape, Placed, Idle
  <2>2. CASE b > sent  BY <2>2 DEF RunsKnown, RunKnown, Idle
  <2> QED BY <1>2, <1>3, <2>1, <2>2, HandoffAssumption DEF TypeOK, Attempts, Someone
<1> QED BY <1>2, <1>3 DEF StopInv, Timely, Alone

\* What is left to show when one attempt alone is under way.
LEMMA SoleStops ==
  ASSUME NEW a \in Attempts, sent' = a, \A b \in Attempts : b < a => At(b, "over"),
         \A b \in Attempts : b # a => Idle(b) /\ run'[b] = run[b],
         Knows(a)', Emptied', SomeoneStops'
  PROVE  Timely'
<1>1. \A b \in Attempts : Knows(b)'  BY IdleKnows
<1>2. ASSUME NEW b \in Attempts, b < a PROVE run'[b].at = "over"
  <2>1. b # a  BY <1>2, HandoffAssumption DEF Attempts
  <2> QED BY <1>2, <2>1 DEF At
<1>3. Alone'  BY <1>2 DEF Alone, At
<1> QED BY <1>1, <1>3 DEF Timely

\* A step of an attempt that leaves the node alone.
LEMMA RunTurns ==
  ASSUME TypeOK, RunsKnown, StopInv,
         NEW a \in Attempts, ~At(a, "unsent"), ~At(a, "over"),
         \A b \in Attempts : b # a => run'[b] = run[b],
         UNCHANGED <<sent, cleaning, armed, service, nodeVars>>, Knows(a)',
         Withdraws(a) \/ Driving(a) => (Withdraws(a) \/ Driving(a) \/ KilledTwice)'
  PROVE  Timely'
<1>1. UNCHANGED <<inbox, file, agent, thread, orphan>>  BY DEF nodeVars
<1>2. (Ended' <=> Ended) /\ (KilledTwice' <=> KilledTwice)
  BY <1>1 DEF Ended, Killed, KilledTwice
<1>3. /\ \A b \in Attempts : b # a => Idle(b)
      /\ sent' = a /\ \A b \in Attempts : b < a => At(b, "over")
  BY Sole
<1>4. Emptied'  BY <1>2 DEF StopInv, Timely, Emptied
<1>5. \A b \in Attempts : b # a => ~Withdraws(b) /\ ~Driving(b)  BY <1>3, IdleRests
<1>6. SomeoneStops'
  BY <1>2, <1>5 DEF StopInv, Timely, SomeoneStops, WithdrawalComing
<1> QED BY <1>3, <1>4, <1>6, SoleStops

\* What a step makes of a run.
LEMMA RunOver ==
  ASSUME TypeOK, NEW a \in Attempts, End(a)
  PROVE  run'[a].at = "over" /\ run'[a].stopped /\ \A b \in Attempts : b # a => run'[b] = run[b]
  BY DEF End, Over, NewRun, TypeOK
LEMMA RunGo ==
  ASSUME TypeOK, NEW a \in Attempts, NEW p \in Phases, Go(a, p)
  PROVE  /\ run'[a].at = p /\ run'[a].stopped = run[a].stopped /\ run'[a].queueing = run[a].queueing
         /\ \A b \in Attempts : b # a => run'[b] = run[b]
<1>1. run[a] \in Runs  BY DEF TypeOK
<1> QED BY <1>1 DEF Go, TypeOK, Runs
LEMMA RunGoOn ==
  ASSUME TypeOK, NEW a \in Attempts, NEW p \in Phases, NEW w \in Thens, GoOn(a, p, w)
  PROVE  /\ run'[a].at = p /\ run'[a].stopped = run[a].stopped
         /\ \A b \in Attempts : b # a => run'[b] = run[b]
  BY DEF GoOn, NewRun, Stopped, TypeOK
LEMMA RunStop ==
  ASSUME TypeOK, NEW a \in Attempts, run' = [run EXCEPT ![a].stopped = TRUE]
  PROVE  /\ run'[a].at = run[a].at /\ run'[a].stopped /\ run'[a].queueing = run[a].queueing
         /\ \A b \in Attempts : b # a => run'[b] = run[b]
<1>1. run[a] \in Runs  BY DEF TypeOK
<1> QED BY <1>1 DEF TypeOK, Runs

\* A run that ends where no one counted on it, or that goes on to withdraw.
LEMMA EndsQuietly ==
  ASSUME TypeOK, RunsKnown, StopInv, NEW a \in Attempts, End(a),
         ~At(a, "unsent"), ~At(a, "over"), Stopped(a) \/ run[a].at \in {"draining", "preparing"},
         run[a].at \notin {"written", "starting", "retracting"},
         UNCHANGED <<sent, cleaning, armed, service, nodeVars>>
  PROVE  Timely'
<1>1. run'[a].at = "over" /\ run'[a].stopped /\ \A b \in Attempts : b # a => run'[b] = run[b]
  BY RunOver
<1>2. Knows(a)'  BY <1>1 DEF Knows, Informed, Untaken, LastWord, Stopped
<1>3. ~Withdraws(a) /\ ~Driving(a)  BY DEF Withdraws, Driving, At, Waiting
<1> QED BY <1>1, <1>2, <1>3, RunTurns

LEMMA GoesToWithdraw ==
  ASSUME TypeOK, RunsKnown, StopInv, NEW a \in Attempts, NEW w \in Thens, StartRetract(a, w),
         ~At(a, "unsent"), ~At(a, "over"),
         UNCHANGED <<sent, cleaning, armed, service, nodeVars>>
  PROVE  Timely'
<1>1. run'[a].at = "retracting" /\ \A b \in Attempts : b # a => run'[b] = run[b]
  BY RunGoOn DEF StartRetract, Phases
<1>2. Knows(a)'  BY <1>1 DEF Knows, Informed, Untaken, LastWord, At, Waiting
<1>3. Withdraws(a)'  BY <1>1 DEF Withdraws, At
<1> QED BY <1>1, <1>2, <1>3, RunTurns

\* A render that is over needs no withdrawal.
LEMMA EndedIsQuiet == Shape /\ Ended => KilledTwice
  BY DEF Shape, Ended, Killed, KilledTwice
LEMMA GoesToDrain ==
  ASSUME TypeOK, RunsKnown, StopInv, NEW a \in Attempts, NEW w \in Thens, StartDrain(a, w),
         ~At(a, "unsent"), ~At(a, "over"), Ended,
         UNCHANGED <<sent, cleaning, armed, service, nodeVars>>
  PROVE  Timely'
<1>1. run'[a].at = "draining" /\ \A b \in Attempts : b # a => run'[b] = run[b]
  BY RunGoOn DEF StartDrain, Phases
<1>2. KilledTwice  BY EndedIsQuiet DEF StopInv
<1>3. Ended' /\ KilledTwice'  BY <1>2 DEF nodeVars, Ended, Killed, KilledTwice
<1>4. Knows(a)'  BY <1>1, <1>3 DEF Knows, Informed, Untaken, LastWord, At, Waiting
<1> QED BY <1>1, <1>3, <1>4, RunTurns

LEMMA PreparedStops ==
  ASSUME TypeOK, RunsKnown, StopInv, NEW a \in Attempts, Prepared(a)
  PROVE  Timely'
<1>1. At(a, "preparing") /\ UNCHANGED <<sent, cleaning, armed, service, nodeVars>>
  BY DEF Prepared
<1>2. ~At(a, "unsent") /\ ~At(a, "over")  BY <1>1 DEF At
<1>3. CASE Stopped(a)
  <2>1. End(a)  BY <1>3 DEF Prepared
  <2> QED BY <1>1, <1>3, <2>1, EndsQuietly DEF At
<1>4. CASE ~Stopped(a)
  <2>1. run[a] \in Runs  BY DEF TypeOK
  <2>2. run' = [run EXCEPT ![a] = [run[a] EXCEPT !.at = "clearing", !.queueing = TRUE]]
    BY <1>4 DEF Prepared
  <2>3. /\ run'[a].at = "clearing" /\ run'[a].stopped = run[a].stopped
        /\ \A b \in Attempts : b # a => run'[b] = run[b]
    BY <2>1, <2>2 DEF TypeOK, Runs
  <2>4. owner = a /\ owner # None /\ cleaning = {}
    BY <1>1, <1>4, NoneTyped DEF RunsKnown, RunKnown, OwnerKnown, At
  <2>5. service # "reprovisioning"  BY <2>4 DEF StopInv, Shape
  <2>6. \A b \in Attempts : b # a => Idle(b)  BY <1>2, Sole
  <2>7. ~Withdraws(a) /\ ~Driving(a)  BY <1>1 DEF Withdraws, Driving, At, Waiting
  <2>8. \A b \in Attempts : ~Withdraws(b) /\ ~Driving(b)  BY <2>6, <2>7, IdleRests
  <2>9. Killed
    BY <2>4, <2>5, <2>8 DEF StopInv, Timely, SomeoneStops, WithdrawalComing, KilledTwice
  <2>10. Killed'  BY <1>1, <2>9 DEF nodeVars, Killed, Ended
  <2>11. Knows(a)'  BY <2>3, <2>10 DEF Knows, Informed, Untaken, LastWord, At, Waiting
  <2> QED BY <1>1, <1>2, <2>3, <2>7, <2>11, RunTurns
<1> QED BY <1>3, <1>4

\* The state is cleared: no verdict is left of the attempts before.
LEMMA ClearStops ==
  ASSUME TypeOK, RunsKnown, StopInv, NEW a \in Attempts, Clear(a), ~LosesCommand, ~ClearsTooSoon
  PROVE  Timely'
<1>1. /\ At(a, "clearing") /\ UNCHANGED <<sent, cleaning, armed, service, inbox, agent, thread>>
      /\ file' = NoFile \/ Stopped(a)
      /\ thread.at \in {"none", "rendering", "encoding"} \/ Stopped(a)
  BY DEF Clear, Lost, LosesCommand, ClearsTooSoon, nodeVars
<1>2. ~At(a, "unsent") /\ ~At(a, "over")  BY <1>1 DEF At
<1>3. /\ \A b \in Attempts : b # a => Idle(b)
      /\ sent' = a /\ \A b \in Attempts : b < a => At(b, "over")
  BY <1>1, <1>2, Sole
<1>4. (Ended' <=> Ended) /\ (Killed' <=> Killed) /\ (KilledTwice' <=> KilledTwice)
  BY <1>1 DEF Ended, Killed, KilledTwice
<1>5. Emptied'  BY <1>1, <1>4 DEF StopInv, Timely, Emptied
<1>6. CASE Stopped(a)
  <2>1. run'[a].at = "over" /\ run'[a].stopped /\ \A b \in Attempts : b # a => run'[b] = run[b]
    BY <1>6, RunOver DEF Clear
  <2>2. Knows(a)'  BY <2>1 DEF Knows, Informed, Untaken, LastWord, Stopped
  <2>3. ~Withdraws(a) /\ ~Driving(a)  BY <1>1, <1>6 DEF Withdraws, Driving, At
  <2>4. \A b \in Attempts : ~Withdraws(b) /\ ~Driving(b)  BY <1>3, <2>3, IdleRests
  <2>5. SomeoneStops'
    BY <1>1, <1>4, <2>4 DEF StopInv, Timely, SomeoneStops, WithdrawalComing
  <2> QED BY <1>3, <1>5, <2>1, <2>2, <2>5, SoleStops
<1>7. CASE ~Stopped(a)
  <2>1. /\ run'[a].at = "writing" /\ run'[a].stopped = run[a].stopped
        /\ \A b \in Attempts : b # a => run'[b] = run[b]
    BY <1>7, RunGo DEF Clear, Phases
  <2>2. Killed'  BY <1>1, <1>4, <1>7 DEF StopInv, Timely, Knows, Informed, At
  <2>3. file' = NoFile /\ ~Verdict' /\ thread'.at \notin {"done", "failed"}
    BY <1>1, <1>7 DEF Verdict, NoFile
  <2>4. Knows(a)'  BY <2>1, <2>2, <2>3 DEF Knows, Informed, Untaken, LastWord, At, Waiting
  <2>5. SomeoneStops'  BY <1>7, <2>1 DEF SomeoneStops, Driving, Stopped
  <2> QED BY <1>3, <1>5, <2>1, <2>4, <2>5, SoleStops
<1> QED BY <1>6, <1>7

\* The spec is in place: its attempt will poll for it, or withdraw it.
LEMMA LandingStops ==
  ASSUME TypeOK, RunsKnown, StopInv, NEW a \in Attempts, SpecLands(a), ~LandsTooLate
  PROVE  Timely'
<1>1. /\ At(a, "writing") /\ service # "restarted" /\ inbox' = a
      /\ UNCHANGED <<sent, cleaning, armed, service, file, agent, thread>>
  BY DEF SpecLands, LandsTooLate
<1>2. ~At(a, "unsent") /\ ~At(a, "over")  BY <1>1 DEF At
<1>3. /\ \A b \in Attempts : b # a => Idle(b)
      /\ sent' = a /\ \A b \in Attempts : b < a => At(b, "over")
  BY <1>1, <1>2, Sole
<1>4. /\ run'[a].at = "written" /\ run'[a].stopped = run[a].stopped
      /\ \A b \in Attempts : b # a => run'[b] = run[b]
  BY RunGo DEF SpecLands, Phases
<1>5. Untaken(a) /\ LastWord(a)  BY DEF StopInv, Timely, Knows
<1>6. Knows(a)'
  BY <1>1, <1>4, <1>5 DEF Knows, Informed, Untaken, LastWord, Verdict, At, Stopped, Waiting
<1>7. Emptied'  BY <1>1 DEF Emptied
<1>8. Withdraws(a)' \/ Driving(a)'  BY <1>4 DEF Withdraws, Driving, Stopped, Waiting
<1>9. SomeoneStops'  BY <1>8 DEF SomeoneStops, WithdrawalComing
<1> QED BY <1>3, <1>4, <1>6, <1>7, <1>9, SoleStops

\* An attempt that goes on towards its next look at the state.
LEMMA WaitsOn ==
  ASSUME TypeOK, RunsKnown, StopInv, NEW a \in Attempts, ~Stopped(a),
         run[a].at \in Waiting, run'[a].at \in Waiting, run'[a].stopped = run[a].stopped,
         \A b \in Attempts : b # a => run'[b] = run[b],
         UNCHANGED <<sent, cleaning, armed, service, nodeVars>>, Informed(a)'
  PROVE  Timely'
<1>1. Untaken(a) /\ LastWord(a)  BY DEF StopInv, Timely, Knows
<1>2. Knows(a)'
  BY <1>1 DEF Knows, Untaken, LastWord, Verdict, Ended, At, Stopped, Waiting, nodeVars
<1>3. Driving(a)'  BY DEF Driving, Stopped
<1>4. ~At(a, "unsent") /\ ~At(a, "over")  BY DEF Waiting, At
<1> QED BY <1>2, <1>3, <1>4, RunTurns

LEMMA WaitingStops ==
  ASSUME TypeOK, RunsKnown, StopInv, NEW a \in Attempts, SpecAnswered(a) \/ Started(a)
  PROVE  Timely'
<1>1. /\ run[a].at \in {"written", "starting"}
      /\ UNCHANGED <<sent, cleaning, armed, service, nodeVars>>
  BY DEF SpecAnswered, Started, At
<1>2. ~At(a, "unsent") /\ ~At(a, "over")  BY <1>1 DEF At
<1>3. CASE Stopped(a)
  <2>1. StartRetract(a, "return") /\ "return" \in Thens
    BY <1>3 DEF SpecAnswered, Started, Thens
  <2> QED BY <1>1, <1>2, <2>1, GoesToWithdraw
<1>4. CASE ~Stopped(a)
  <2>1. PICK p \in {"starting", "polling"} : Go(a, p)  BY <1>4 DEF SpecAnswered, Started
  <2>2. /\ run'[a].at = p /\ run'[a].stopped = run[a].stopped
        /\ \A b \in Attempts : b # a => run'[b] = run[b]
    BY <2>1, RunGo DEF Phases
  <2>3. Informed(a)'  BY <2>2 DEF Informed, At
  <2> QED BY <1>1, <1>4, <2>2, <2>3, WaitsOn DEF Waiting
<1> QED BY <1>3, <1>4

\* A verdict, of whichever attempt, is the end of all the agent renders of the chunk;
\* so is a state that nobody writes any more, or none with the spec gone.
LEMMA ReadStops ==
  ASSUME TypeOK, RunsKnown, StopInv, NEW a \in Attempts, NEW what \in Sights, Read(a, what)
  PROVE  Timely'
<1>1. /\ At(a, "polling") /\ ~Stopped(a) /\ (Sees(what) \/ what = "unread")
      /\ UNCHANGED <<sent, cleaning, armed, service, nodeVars>>
  BY DEF Read
<1>2. run' = [run EXCEPT ![a] = [run[a] EXCEPT !.at = "read", !.saw = what]]  BY DEF Read
<1>3. run[a] \in Runs  BY DEF TypeOK
<1>4. /\ run'[a].at = "read" /\ run'[a].saw = what /\ run'[a].stopped = run[a].stopped
      /\ \A b \in Attempts : b # a => run'[b] = run[b]
  BY <1>2, <1>3 DEF TypeOK, Runs
<1>5. thread.at \in ThreadPhases  BY DEF TypeOK, Threads
<1>6. Untaken(a) /\ LastWord(a) /\ run[a].at \in Waiting
  BY <1>1 DEF StopInv, Timely, Knows, At, Waiting
<1>7. what \in {"done", "failed"} => Ended
  BY <1>1, <1>6 DEF Sees, LastWord, Verdict
<1>8. agent /\ thread.at \in {"none", "claimed"} => file = NoFile \/ inbox = None
  BY <1>1, <1>6 DEF Untaken
<1>9. what \in {"stalled", "missing"} => ~agent \/ thread.at \in {"none", "encoding"}
  BY <1>1, <1>5 DEF Sees, Quiet, Busy, ThreadPhases
<1>10. what = "stalled" => Ended
  <2> SUFFICES ASSUME what = "stalled" PROVE Ended  OBVIOUS
  <2>1. file # NoFile  BY <1>1 DEF Sees, NoFile
  <2> QED BY <1>8, <1>9, <2>1 DEF Ended
<1>11. what = "missing" /\ inbox = None => Ended  BY <1>9 DEF Ended
<1>12. (Ended => Ended') /\ inbox' = inbox  BY <1>1 DEF nodeVars, Ended
<1>13. Informed(a)'  BY <1>4, <1>7, <1>10, <1>11, <1>12 DEF Informed, At
<1>14. run'[a].at \in Waiting  BY <1>4 DEF Waiting
<1> QED BY <1>1, <1>4, <1>6, <1>13, <1>14, WaitsOn

LEMMA ActingStops ==
  ASSUME TypeOK, RunsKnown, StopInv, NEW a \in Attempts, Act(a) \/ ActChecked(a)
  PROVE  Timely'
<1>1. /\ run[a].at \in {"read", "checked"} /\ ~Stopped(a)
      /\ UNCHANGED <<sent, cleaning, armed, service, nodeVars>>
  BY DEF Act, ActChecked, At
<1>2. ~At(a, "unsent") /\ ~At(a, "over")  BY <1>1 DEF At
<1>3. Informed(a)  BY DEF StopInv, Timely, Knows
<1>4. ASSUME NEW w \in Thens, StartRetract(a, w) PROVE Timely'
  BY <1>1, <1>2, <1>4, GoesToWithdraw
<1>5. ASSUME NEW w \in Thens, StartDrain(a, w), Ended PROVE Timely'
  BY <1>1, <1>2, <1>5, GoesToDrain
<1>6. CASE Act(a) /\ run[a].saw = "missing"
  <2>1. run[a] \in Runs  BY DEF TypeOK
  <2> DEFINE q == inbox # None
  <2>2. run' = [run EXCEPT ![a] = [run[a] EXCEPT !.at = "checked", !.saw = "nothing",
                                                 !.queued = q, !.alive = agent]]
    BY <1>6 DEF Act
  <2> HIDE DEF q
  <2>3. /\ run'[a].at = "checked" /\ run'[a].queued = q /\ run'[a].stopped = run[a].stopped
        /\ \A b \in Attempts : b # a => run'[b] = run[b]
    BY <2>1, <2>2 DEF TypeOK, Runs
  <2>4. ~q => Ended  BY <1>1, <1>3, <1>6 DEF Informed, At, Act, q
  <2>5. Ended => Ended'  BY <1>1 DEF nodeVars, Ended
  <2>6. Informed(a)'  BY <2>3, <2>4, <2>5 DEF Informed, At
  <2>7. run[a].at \in Waiting /\ run'[a].at \in Waiting  BY <1>1, <2>3 DEF Waiting
  <2> QED BY <1>1, <2>3, <2>6, <2>7, WaitsOn
<1>7. CASE Act(a) /\ run[a].saw \in {"done", "failed", "stalled"}
  <2>1. Ended  BY <1>1, <1>3, <1>7 DEF Informed, Act
  <2>2. StartDrain(a, "complete") \/ StartDrain(a, "fail")  BY <1>7 DEF Act
  <2> QED BY <1>5, <2>1, <2>2 DEF Thens
<1>8. CASE Act(a) /\ run[a].saw \notin {"missing", "done", "failed", "stalled"}
  <2>1. StartRetract(a, "drain") \/ StartRetract(a, "fail")  BY <1>8 DEF Act
  <2> QED BY <1>4, <2>1 DEF Thens
<1>9. CASE ActChecked(a) /\ run' = [run EXCEPT ![a] = Polling]
  <2>1. run'[a] = Polling /\ \A b \in Attempts : b # a => run'[b] = run[b]
    BY <1>9 DEF TypeOK
  <2>2. run[a].stopped = FALSE  BY <1>1 DEF Stopped, TypeOK, Runs
  <2>3. run'[a].at = "polling" /\ run'[a].stopped = run[a].stopped
    BY <2>1, <2>2 DEF Polling, NewRun
  <2>4. Informed(a)'  BY <2>3 DEF Informed, At
  <2>5. run[a].at \in Waiting /\ run'[a].at \in Waiting  BY <1>1, <2>3 DEF Waiting
  <2> QED BY <1>1, <2>1, <2>3, <2>4, <2>5, WaitsOn
<1>10. CASE ActChecked(a) /\ (StartRetract(a, "drainUnclaimed") \/ StartRetract(a, "drainDown"))
  BY <1>4, <1>10 DEF Thens
<1>11. CASE ActChecked(a) /\ run[a].alive /\ ~run[a].queued /\ StartDrain(a, "fail")
  <2>1. Ended  BY <1>1, <1>3, <1>11 DEF Informed, ActChecked
  <2> QED BY <1>5, <1>11, <2>1 DEF Thens
<1>12. ASSUME ActChecked(a)
       PROVE  \/ run' = [run EXCEPT ![a] = Polling]
              \/ StartRetract(a, "drainUnclaimed") \/ StartRetract(a, "drainDown")
              \/ run[a].alive /\ ~run[a].queued /\ StartDrain(a, "fail")
  BY <1>12 DEF ActChecked
<1> QED BY <1>6, <1>7, <1>8, <1>9, <1>10, <1>11, <1>12

-----------------------------------------------------------------------------
(* The app's kills. *)

\* A kill ends a Blender, which may be relaunched once, and takes back nothing.
LEMMA KillEnds ==
  ASSUME TypeOK, Kill, inbox' \in {inbox, None}
  PROVE  /\ Ended => Ended'
         /\ Killed => Killed'
         /\ thread'.at \in {"none", "claimed"} => thread' = thread
         /\ thread'.at \in {"done", "failed"} => thread' = thread
         /\ thread'.at # "none" => thread.at # "none"
         /\ ~orphan' /\ UNCHANGED <<file, agent>>
<1>1. /\ thread' = thread \/ thread'.at \in {"settling", "failing"}
      /\ thread' = thread \/ thread.at \in {"rendering", "encoding"}
      /\ UNCHANGED <<file, agent>> /\ ~orphan'
  BY KillSpec DEF Kill
<1>2. thread.at = "encoding" => thread'.at = "failing"
  <2> SUFFICES ASSUME thread.at = "encoding" PROVE thread'.at = "failing"  OBVIOUS
  <2>1. thread \in Threads /\ thread' = [thread EXCEPT !.at = "failing"]  BY DEF TypeOK, Kill
  <2> QED BY <2>1 DEF Threads
<1>3. Ended => Ended'  BY <1>1, <1>2 DEF Ended
<1>4. Killed => Killed'  BY <1>1, <1>2, <1>3 DEF Killed, Ended
<1> QED BY <1>1, <1>3, <1>4

\* A withdrawal in time, and the timer it sets.
LEMMA WithdrawEnds ==
  ASSUME TypeOK, Withdraw, thread.at # "opened", armed' # {}
  PROVE  KilledTwice'
<1>1. Kill /\ inbox' = None  BY DEF Withdraw
<1>2. thread.at \in ThreadPhases /\ thread'.at \in ThreadPhases
  BY <1>1, KillTyped DEF TypeOK, Threads
<1>3. thread.at = "rendering" => thread'.at = "settling"
  <2> SUFFICES ASSUME thread.at = "rendering" PROVE thread'.at = "settling"  OBVIOUS
  <2>1. Exit(FALSE)  BY <1>1 DEF Kill
  <2>2. PICK beat \in BOOLEAN :
          thread' = [thread EXCEPT !.at = "settling", !.hung = FALSE, !.beat = beat,
                                   !.retry = @ /\ ~FALSE]
    BY <2>1 DEF Exit
  <2> QED BY <2>2 DEF TypeOK, Threads
<1>4. thread.at # "rendering" => thread' = thread \/ thread'.at \in {"settling", "failing"}
  BY <1>1, KillSpec
<1>5. thread'.at \notin {"opened", "rendering"}  BY <1>3, <1>4
<1>6. Killed'  BY <1>1, <1>2, <1>5 DEF Killed, Ended, ThreadPhases
<1> QED BY <1>6 DEF KilledTwice

\* The second kill, which waits for no relaunch.
LEMMA SecondKillEnds ==
  ASSUME TypeOK, Shape, KilledTwice, Kill, UNCHANGED inbox, thread.at # "settling"
  PROVE  KilledTwice'
<1>1. Killed'  BY KillEnds DEF KilledTwice
<1>2. CASE thread.at = "rendering"
  <2>1. ~thread.retry  BY <1>2 DEF KilledTwice, Killed, Ended, Shape
  <2>2. Exit(FALSE)  BY <1>2 DEF Kill
  <2>3. PICK beat \in BOOLEAN :
          thread' = [thread EXCEPT !.at = "settling", !.hung = FALSE, !.beat = beat,
                                   !.retry = @ /\ ~FALSE]
    BY <2>2 DEF Exit
  <2>4. thread'.at = "settling" /\ ~thread'.retry  BY <2>1, <2>3 DEF TypeOK, Threads
  <2> QED BY <1>1, <2>4 DEF KilledTwice
<1>3. CASE thread.at = "encoding"
  <2>1. thread' = [thread EXCEPT !.at = "failing"]  BY <1>3 DEF Kill
  <2>2. thread'.at = "failing"  BY <2>1 DEF TypeOK, Threads
  <2> QED BY <1>1, <2>2 DEF KilledTwice
<1>4. CASE thread.at \notin {"rendering", "encoding"}
  <2>1. thread' = thread  BY <1>4 DEF Kill
  <2> QED BY <1>1, <1>4, <2>1 DEF KilledTwice
<1> QED BY <1>2, <1>3, <1>4

\* Only the attempt the app holds may be under way and not stopped.
LEMMA NooneDrives ==
  ASSUME TypeOK, RunsKnown, owner = None
  PROVE  \A b \in Attempts : (Stopped(b) \/ At(b, "unsent")) /\ ~Driving(b)
  BY NoneTyped DEF RunsKnown, RunKnown, Driving, At, Waiting

LEMMA NoneLost == ASSUME TypeOK, UNCHANGED budget PROVE ~Lost
<1>1. budget.fault \in Nat  BY DEF TypeOK
<1> QED BY <1>1 DEF Lost, Spend, TypeOK

\* A withdrawal of the last attempt, in time, with no other under way: whatever
\* slipped before, no Blender goes on but to a second kill.
LEMMA WithdrawnStops ==
  ASSUME TypeOK, RunsKnown, Shape, Emptied, ~Lost, thread.at # "opened",
         NEW a \in Attempts, a = sent, Retract(a) \/ CancelCleans(a),
         \A b \in Attempts : b < sent => run'[b].at = "over"
  PROVE  Timely'
<1>1. /\ Withdraw /\ Kill /\ inbox' = None /\ armed' # {}
      /\ sent' = sent /\ service' = service
  BY DEF Retract, AfterRetract, CancelCleans, Withdraw
<1>2. Ended => Ended'  BY <1>1, KillEnds
<1>3. KilledTwice'  BY <1>1, WithdrawEnds
<1>4. Alone' /\ Emptied'  BY <1>1, <1>2 DEF Alone, Emptied, At
<1>5. ASSUME NEW b \in Attempts PROVE Knows(b)'
  <2>1. CASE Retract(a) /\ b = a
    <3>1. run'[a].stopped \/ (run'[a].at = "draining" /\ ~run'[a].queueing)
      <4>1. CASE End(a)  BY <4>1, RunOver
      <4>2. CASE run' = [run EXCEPT ![a].at = "draining", ![a].queueing = FALSE]
        <5>1. run[a] \in Runs  BY DEF TypeOK
        <5>2. run' = [run EXCEPT ![a] = [run[a] EXCEPT !.at = "draining", !.queueing = FALSE]]
          BY <4>2
        <5> QED BY <5>1, <5>2 DEF TypeOK, Runs
      <4> QED BY <2>1, <4>1, <4>2 DEF Retract, AfterRetract, FinishFailed
    <3> QED BY <2>1, <3>1 DEF Knows, Informed, Untaken, LastWord, At, Stopped, Waiting
  <2>2. CASE Retract(a) /\ b # a
    <3>1. run'[b] = run[b]
      <4>1. End(a) \/ run' = [run EXCEPT ![a].at = "draining", ![a].queueing = FALSE]
        BY <2>2 DEF Retract, AfterRetract, FinishFailed
      <4> QED BY <2>2, <4>1 DEF End, TypeOK
    <3>2. Idle(b)
      <4>1. CASE b < sent  BY <3>1, <4>1 DEF Shape, Placed, Idle, At
      <4>2. CASE b > sent  BY <4>2 DEF RunsKnown, RunKnown, Idle
      <4> QED BY <2>2, <4>1, <4>2, HandoffAssumption DEF TypeOK, Attempts, Someone
    <3> QED BY <3>1, <3>2, IdleKnows
  <2>3. CASE CancelCleans(a)
    <3>1. owner = None /\ UNCHANGED run  BY <2>3 DEF CancelCleans, RunsKnown, OwnerKnown
    <3>2. Stopped(b) \/ At(b, "unsent")  BY <3>1, NooneDrives
    <3> QED BY <3>1, <3>2 DEF Knows, Informed, Untaken, LastWord, At, Stopped, Waiting
  <2> QED BY <2>1, <2>2, <2>3
<1> QED BY <1>3, <1>4, <1>5 DEF Timely, SomeoneStops

\* The second kill spares a chunk that is being sent again: then someone else
\* will stop what is rendering.
LEMMA SecondKillStops ==
  ASSUME TypeOK, RunsKnown, StopInv, NEW a \in Attempts, KillAgain(a), ~LosesCommand
  PROVE  Timely'
<1>1. /\ thread.at # "settling" /\ inbox' = inbox
      /\ UNCHANGED <<owner, sent, run, cleaning, service>>
  BY DEF KillAgain, LosesCommand, nodeVars
<1>2. /\ WithdrawalComing' = WithdrawalComing /\ Alone' = Alone
      /\ \A b \in Attempts : Driving(b)' = Driving(b)
  BY <1>1 DEF WithdrawalComing, Withdraws, Driving, Alone, At, Stopped, Waiting
<1>3. CASE SendingAgain
  <2>1. UNCHANGED <<inbox, file, agent, thread>>  BY <1>3 DEF KillAgain, nodeVars
  <2>2. (Ended' <=> Ended) /\ (Killed' <=> Killed) /\ (Verdict' <=> Verdict)
    BY <2>1 DEF Ended, Killed, Verdict
  <2>3. Emptied' /\ \A b \in Attempts : Knows(b)'
    BY <1>1, <2>1, <2>2
       DEF StopInv, Timely, Emptied, Knows, Informed, Untaken, LastWord, At, Stopped, Waiting
  <2>4. owner \in Attempts /\ owner # None /\ run[owner].queueing
    BY <1>3, NoneTyped DEF SendingAgain, TypeOK
  <2>5. ~Stopped(owner)  BY <2>4 DEF RunsKnown, OwnerKnown
  <2>6. ~At(owner, "over") /\ run[owner].at \notin {"unsent", "preparing"}
    BY <2>4, <2>5 DEF StopInv, Shape, Placed
  <2>7. run[owner].at \in Phases  BY <2>4 DEF TypeOK, Runs
  <2>8. Driving(owner) \/ Withdraws(owner) \/ At(owner, "draining")
    BY <2>5, <2>6, <2>7 DEF Driving, Withdraws, At, Waiting, Phases
  <2>9. SomeoneStops'
    <3>1. CASE Driving(owner) \/ Withdraws(owner)
      BY <1>2, <2>4, <3>1 DEF SomeoneStops, WithdrawalComing
    <3>2. CASE At(owner, "draining")
      <4>1. Ended  BY <2>4, <2>5, <3>2 DEF StopInv, Timely, Knows, Informed
      <4>2. KilledTwice'
        BY <2>1, <2>2, <4>1 DEF StopInv, Shape, Killed, KilledTwice, Ended
      <4> QED BY <4>2 DEF SomeoneStops
    <3> QED BY <2>8, <3>1, <3>2
  <2> QED BY <1>2, <2>3, <2>9 DEF StopInv, Timely
<1>4. CASE ~SendingAgain
  <2>1. Kill  BY <1>4 DEF KillAgain, LosesCommand
  <2>2. /\ (Ended => Ended') /\ (Killed => Killed') /\ UNCHANGED <<file, agent>>
        /\ thread'.at \in {"none", "claimed"} => thread' = thread
        /\ thread'.at \in {"done", "failed"} => thread' = thread
    BY <1>1, <2>1, KillEnds
  <2>3. ASSUME NEW b \in Attempts PROVE Knows(b)'
    <3>1. Knows(b)  BY DEF StopInv, Timely
    <3> QED BY <1>1, <2>2, <3>1
            DEF Knows, Informed, Untaken, LastWord, Verdict, At, Stopped, Waiting
  <2>4. Emptied'  BY <1>1, <2>2 DEF StopInv, Timely, Emptied
  <2>5. KilledTwice => KilledTwice'  BY <1>1, <2>1, SecondKillEnds DEF StopInv
  <2>6. SomeoneStops'  BY <1>2, <2>5 DEF StopInv, Timely, SomeoneStops
  <2> QED BY <1>2, <2>3, <2>4, <2>6 DEF StopInv, Timely
<1> QED BY <1>3, <1>4

LEMMA AppStops ==
  ASSUME TypeOK, RunsKnown, StopInv, ~Slip,
         NEW a \in Attempts, AppStep(a) \/ AppFault(a) \/ CancelCleans(a) \/ KillAgain(a)
  PROVE  Timely'
<1>1. ~LosesCommand /\ ~ClearsTooSoon /\ ~KillsTooSoon /\ ~LandsTooLate  BY DEF Slip
<1>2. ASSUME NEW what \in Sights, Read(a, what) PROVE Timely'  BY <1>2, ReadStops
<1>3. CASE PollStops(a) \/ Drained(a) \/ PrepFails(a)
  <2>1. /\ End(a) /\ run[a].at \in {"polling", "read", "checked", "draining", "preparing"}
        /\ Stopped(a) \/ run[a].at \in {"draining", "preparing"}
        /\ UNCHANGED <<sent, cleaning, armed, service, nodeVars>>
    BY <1>3 DEF PollStops, Drained, PrepFails, FinishFailed, At
  <2>2. ~At(a, "unsent") /\ ~At(a, "over")  BY <2>1 DEF At
  <2> QED BY <2>1, <2>2, EndsQuietly
<1>4. CASE SpecFails(a)
  <2>1. /\ run[a].at \in {"writing", "written"} /\ StartRetract(a, "throw")
        /\ UNCHANGED <<sent, cleaning, armed, service, nodeVars>>
    BY <1>4 DEF SpecFails, At
  <2>2. ~At(a, "unsent") /\ ~At(a, "over") /\ "throw" \in Thens  BY <2>1 DEF At, Thens
  <2> QED BY <2>1, <2>2, GoesToWithdraw
<1>5. CASE Retract(a) \/ CancelCleans(a)
  <2>1. thread.at # "opened" /\ ~Lost
    BY <1>1, <1>5, NoneLost DEF KillsTooSoon, LosesCommand, Retract
  <2>2. a = sent
    <3>1. CASE Retract(a)  BY <3>1, Sole DEF Retract, At
    <3>2. CASE CancelCleans(a)  BY <3>2 DEF CancelCleans, RunsKnown, OwnerKnown
    <3> QED BY <1>5, <3>1, <3>2
  <2>3. \A b \in Attempts : b # a => run'[b] = run[b]
    <3>1. CASE CancelCleans(a)  BY <3>1 DEF CancelCleans
    <3>2. CASE Retract(a)
      <4>1. End(a) \/ run' = [run EXCEPT ![a].at = "draining", ![a].queueing = FALSE]
        BY <3>2 DEF Retract, AfterRetract, FinishFailed
      <4> QED BY <4>1 DEF End, TypeOK
    <3> QED BY <1>5, <3>1, <3>2
  <2>4. ASSUME NEW b \in Attempts, b < sent PROVE run'[b].at = "over"
    <3>1. b # a  BY <2>2, <2>4, HandoffAssumption DEF Attempts
    <3> QED BY <2>3, <2>4, <3>1 DEF StopInv, Timely, Alone, At
  <2> QED BY <1>5, <2>1, <2>2, <2>4, WithdrawnStops DEF StopInv, Timely
<1> QED BY <1>1, <1>2, <1>3, <1>4, <1>5, PreparedStops, ClearStops, LandingStops, WaitingStops,
           ActingStops, SecondKillStops
        DEF AppStep, AppFault, Sights, LosesCommand

-----------------------------------------------------------------------------
(* Sending, cancelling, restarting. *)

\* A step that stops whoever is under way, or leaves the runs as they are.
LEMMA StoppedRuns ==
  ASSUME TypeOK, RunsKnown,
         \/ owner = None /\ UNCHANGED run
         \/ owner # None /\ run' = [run EXCEPT ![owner].stopped = TRUE],
         NEW b \in Attempts
  PROVE  /\ run'[b].at = run[b].at /\ run'[b].queueing = run[b].queueing
         /\ run[b].stopped => run'[b].stopped
         /\ run'[b].stopped \/ At(b, "unsent")
<1>1. CASE owner = None  BY <1>1, NooneDrives DEF Stopped
<1>2. CASE owner # None
  <2>1. owner \in Attempts  BY <1>2, NoneTyped DEF TypeOK
  <2>2. CASE b = owner  BY <1>2, <2>1, <2>2, RunStop
  <2>3. CASE b # owner
    <3>1. run'[b] = run[b]  BY <1>2, <2>1, <2>3, RunStop
    <3>2. Stopped(b) \/ At(b, "unsent")  BY <2>3 DEF RunsKnown, RunKnown
    <3> QED BY <3>1, <3>2 DEF Stopped
  <2> QED BY <2>2, <2>3
<1> QED BY <1>1, <1>2

LEMMA StoppedStops ==
  ASSUME TypeOK, RunsKnown, StopInv,
         \/ owner = None /\ UNCHANGED run
         \/ owner # None /\ run' = [run EXCEPT ![owner].stopped = TRUE],
         UNCHANGED <<nodeVars, sent>>, SomeoneStops', service' = "restarted" => service = "restarted"
  PROVE  Timely'
<1>1. ASSUME NEW b \in Attempts PROVE Knows(b)'
  <2>1. run'[b].at = run[b].at /\ (run'[b].stopped \/ At(b, "unsent"))  BY StoppedRuns
  <2> QED BY <2>1 DEF Knows, Informed, Untaken, LastWord, At, Stopped, Waiting
<1>2. \A b \in Attempts : run'[b].at = run[b].at  BY StoppedRuns
<1>3. Alone'  BY <1>2 DEF StopInv, Timely, Alone, At
<1>4. Emptied'  BY DEF StopInv, Timely, Emptied, Ended, nodeVars
<1> QED BY <1>1, <1>3, <1>4 DEF Timely

LEMMA CancelStops ==
  ASSUME TypeOK, RunsKnown, StopInv, Cancel
  PROVE  Timely'
<1>1. /\ \/ owner = None /\ UNCHANGED <<run, cleaning>>
         \/ owner # None /\ run' = [run EXCEPT ![owner].stopped = TRUE] /\ cleaning' # {}
      /\ UNCHANGED <<nodeVars, sent, armed, service>>
  BY DEF Cancel
<1>2. CASE owner = None
  <2>1. KilledTwice' = KilledTwice  BY <1>1 DEF nodeVars, KilledTwice, Killed, Ended
  <2>2. SomeoneStops'
    BY <1>1, <1>2, <2>1
       DEF StopInv, Timely, SomeoneStops, WithdrawalComing, Withdraws, Driving, At, Stopped, Waiting
  <2> QED BY <1>1, <1>2, <2>2, StoppedStops
<1>3. CASE owner # None
  <2>1. SomeoneStops'  BY <1>1, <1>3 DEF SomeoneStops, WithdrawalComing
  <2> QED BY <1>1, <1>3, <2>1, StoppedStops
<1> QED BY <1>2, <1>3

\* A restart ends whatever the agent had, and empties the inbox, whatever slipped
\* before it.
LEMMA RestartStops ==
  ASSUME TypeOK, RunsKnown, Shape, ReviveAgent \/ Reprovisioned,
         \A b \in Attempts : b < sent => run'[b].at = "over"
  PROVE  Timely'
<1>1. /\ Restart /\ UNCHANGED <<owner, sent, run, cleaning, armed>>
      /\ service' = "restarted" \/ owner = None
  BY DEF ReviveAgent, Reprovisioned, Shape
<1>2. inbox' = None /\ thread'.at = "none"  BY <1>1 DEF Restart, NoThread
<1>3. Ended' /\ Killed' /\ KilledTwice'  BY <1>2 DEF Ended, Killed, KilledTwice
<1>4. ASSUME NEW b \in Attempts PROVE Knows(b)'
  <2>1. Informed(b)'  BY <1>3 DEF Informed
  <2>2. CASE service' = "restarted"
    BY <1>2, <1>3, <2>1, <2>2 DEF Knows, Untaken, LastWord
  <2>3. CASE owner = None
    <3>1. Stopped(b) \/ At(b, "unsent")  BY <2>3, NooneDrives
    <3> QED BY <1>1, <3>1 DEF Knows, Informed, Untaken, LastWord, At, Stopped, Waiting
  <2> QED BY <1>1, <2>2, <2>3
<1>5. Alone' /\ Emptied'  BY <1>1, <1>3 DEF Alone, Emptied, At
<1> QED BY <1>3, <1>4, <1>5 DEF Timely, SomeoneStops

LEMMA MadeGood == ASSUME TypeOK, RunsKnown, Shape, MakesGood PROVE Timely'
<1>1. CASE ReviveAgent \/ Reprovisioned  BY <1>1, RestartStops DEF MakesGood
<1>2. CASE Withdrawn
  <2>1. PICK a \in Attempts : a = sent /\ (Retract(a) \/ CancelCleans(a))
    BY <1>2 DEF Withdrawn
  <2>2. ~Lost /\ thread.at # "opened" /\ Emptied  BY <1>2, NoneLost DEF Withdrawn, Emptied
  <2> QED BY <2>1, <2>2, WithdrawnStops DEF MakesGood
<1> QED BY <1>1, <1>2 DEF MakesGood

\* A chunk is sent once no attempt of it is under way.
LEMMA DispatchStops ==
  ASSUME TypeOK, RunsKnown, StopInv, Dispatch, ~Overlaps
  PROVE  Timely'
<1>0. sent + 1 \in Attempts /\ ~(sent + 1 <= sent)
  BY HandoffAssumption DEF Dispatch, TypeOK, Someone, Attempts
<1> PICK a \in Attempts : a = sent + 1  BY <1>0
<1>1. /\ owner = None /\ service = "in" /\ sent' = a
      /\ \A b \in Attempts : b <= sent => At(b, "over")
      /\ run' = [run EXCEPT ![a].at = "preparing"]
      /\ UNCHANGED <<cleaning, armed, service, nodeVars>>
  BY DEF Dispatch, Overlaps
<1>2. At(a, "unsent")
  BY <1>1, HandoffAssumption DEF RunsKnown, RunKnown, TypeOK, Someone, Attempts
<1>3. run[a] \in Runs  BY <1>1 DEF TypeOK
<1>4. run'[a].at = "preparing" /\ \A b \in Attempts : b # a => run'[b] = run[b]
  BY <1>1, <1>3 DEF TypeOK, Runs
<1>5. ASSUME NEW b \in Attempts, b # a PROVE Idle(b)
  <2>1. CASE b <= sent  BY <1>1, <2>1 DEF StopInv, Shape, Placed, Idle
  <2>2. CASE b > sent  BY <2>2 DEF RunsKnown, RunKnown, Idle
  <2> QED BY <2>1, <2>2, HandoffAssumption DEF TypeOK, Someone, Attempts
<1>6. ASSUME NEW b \in Attempts, b < a PROVE At(b, "over")
  <2>1. b <= sent  BY <1>6, HandoffAssumption DEF TypeOK, Someone, Attempts
  <2> QED BY <1>1, <2>1
<1>7. Knows(a)'  BY <1>4 DEF Knows, Informed, Untaken, LastWord, At, Waiting
<1>8. (Ended' <=> Ended) /\ (KilledTwice' <=> KilledTwice)
  BY <1>1 DEF nodeVars, Ended, Killed, KilledTwice
<1>9. Emptied'  BY <1>1 DEF Emptied
<1>10. ~Withdraws(a) /\ ~Driving(a)  BY <1>2 DEF Withdraws, Driving, At, Waiting
<1>11. \A b \in Attempts : ~Withdraws(b) /\ ~Driving(b)  BY <1>5, <1>10, IdleRests
<1>12. SomeoneStops'
  BY <1>1, <1>8, <1>11 DEF StopInv, Timely, SomeoneStops, WithdrawalComing
<1> QED BY <1>1, <1>4, <1>5, <1>6, <1>7, <1>9, <1>12, SoleStops

LEMMA EnvironmentStops ==
  ASSUME TypeOK, RunsKnown, StopInv, ~Overlaps, ~MakesGood,
         Dispatch \/ Cancel \/ Revive \/ Reprovision \/ Supervise
  PROVE  Timely'
<1>1. CASE Reprovision \/ ForgetRestarted
  <2>1. Forget /\ UNCHANGED nodeVars /\ service' # "restarted"
    BY <1>1 DEF Reprovision, ForgetRestarted
  <2>2. /\ \/ owner = None /\ UNCHANGED run
           \/ owner # None /\ run' = [run EXCEPT ![owner].stopped = TRUE]
        /\ UNCHANGED <<sent, armed>>
    BY <2>1 DEF Forget
  <2>3. SomeoneStops'
    <3>1. CASE Reprovision  BY <3>1 DEF Reprovision, SomeoneStops, WithdrawalComing
    <3>2. CASE ForgetRestarted
      <4>1. KilledTwice
        BY <3>2, EndedIsQuiet DEF ForgetRestarted, StopInv, Timely, Emptied
      <4>2. KilledTwice'  BY <2>1, <2>2, <4>1 DEF nodeVars, KilledTwice, Killed, Ended
      <4> QED BY <4>2 DEF SomeoneStops
    <3> QED BY <1>1, <3>1, <3>2
  <2> QED BY <2>1, <2>2, <2>3, StoppedStops
<1>2. CASE ReviveAgent \/ Reprovisioned
  <2>1. UNCHANGED run  BY <1>2 DEF ReviveAgent, Reprovisioned
  <2>2. \A b \in Attempts : b < sent => run'[b].at = "over"
    BY <2>1 DEF StopInv, Timely, Alone, At
  <2> QED BY <1>2, <2>2 DEF MakesGood
<1>3. CASE Revive \/ Hold \/ SecondLook
  <2>1. /\ UNCHANGED <<sent, run, cleaning, armed, inbox, file, agent, thread>>
        /\ service' = service \/ (service = "in" /\ service' = "held")
    BY <1>3 DEF Revive, Hold, SecondLook, nodeVars
  <2>2. (Verdict' <=> Verdict) /\ (Ended' <=> Ended) /\ (Killed' <=> Killed) /\ (KilledTwice' <=> KilledTwice)
    BY <2>1 DEF Verdict, Ended, Killed, KilledTwice
  <2>3. \A b \in Attempts : Knows(b)'
    BY <2>1, <2>2
       DEF StopInv, Timely, Knows, Informed, Untaken, LastWord, At, Stopped, Waiting
  <2>4. Alone' /\ Emptied'  BY <2>1, <2>2 DEF StopInv, Timely, Alone, Emptied, At
  <2>5. SomeoneStops'
    BY <2>1, <2>2
       DEF StopInv, Timely, SomeoneStops, WithdrawalComing, Withdraws, Driving, At, Stopped, Waiting
  <2> QED BY <2>3, <2>4, <2>5 DEF Timely
<1> QED BY <1>1, <1>2, <1>3, DispatchStops, CancelStops DEF Supervise

-----------------------------------------------------------------------------
(* What holds whatever slips. *)

\* A step of an attempt leaves it on its way, or over and stopped.
LEMMA AppPlaces ==
  ASSUME TypeOK, NEW a \in Attempts, AppStep(a) \/ AppFault(a), \A b \in Attempts : Placed(b)
  PROVE  \A b \in Attempts : Placed(b)'
<1> SUFFICES ASSUME run'[a].at \notin {"unsent", "preparing"},
                    run'[a].at = "over" => run'[a].stopped,
                    \A b \in Attempts : b # a => run'[b] = run[b]
             PROVE  \A b \in Attempts : Placed(b)'
  <2>1. ASSUME NEW r \in Runs, run' = [run EXCEPT ![a] = r], r.at \notin {"unsent", "preparing", "over"}
        PROVE  /\ run'[a].at \notin {"unsent", "preparing", "over"}
               /\ \A b \in Attempts : b # a => run'[b] = run[b]
    BY <2>1 DEF TypeOK
  <2>2. run[a] \in Runs  BY DEF TypeOK
  <2>3. CASE Prepared(a) /\ ~Stopped(a)
    <3> DEFINE r == [run[a] EXCEPT !.at = "clearing", !.queueing = TRUE]
    <3>1. r \in Runs /\ r.at = "clearing"
      <4>1. r \in Runs  BY <2>2, RunQueueing DEF Phases
      <4>2. r.at = "clearing"  BY <2>2 DEF Runs
      <4> QED BY <4>1, <4>2
    <3>2. run' = [run EXCEPT ![a] = r]  BY <2>3 DEF Prepared
    <3> HIDE DEF r
    <3> QED BY <2>1, <3>1, <3>2
  <2>4. ASSUME NEW what \in Sights, Read(a, what)
        PROVE  run'[a].at = "read" /\ \A b \in Attempts : b # a => run'[b] = run[b]
    <3>1. run' = [run EXCEPT ![a] = [run[a] EXCEPT !.at = "read", !.saw = what]]
      BY <2>4 DEF Read
    <3> QED BY <2>2, <3>1 DEF TypeOK, Runs
  <2>5. CASE Act(a) /\ run[a].saw = "missing"
    <3> DEFINE q == inbox # None
    <3>1. run' = [run EXCEPT ![a] = [run[a] EXCEPT !.at = "checked", !.saw = "nothing",
                                                   !.queued = q, !.alive = agent]]
      BY <2>5 DEF Act
    <3> HIDE DEF q
    <3>2. run'[a].at = "checked" /\ \A b \in Attempts : b # a => run'[b] = run[b]
      BY <2>2, <3>1 DEF TypeOK, Runs
    <3> QED BY <3>2
  <2>6. CASE run' = [run EXCEPT ![a] = Polling]
    <3>1. Polling \in Runs /\ Polling.at = "polling"  BY RunPolls DEF Polling, NewRun
    <3> QED BY <2>1, <2>6, <3>1
  <2>7. CASE run' = [run EXCEPT ![a].at = "draining", ![a].queueing = FALSE]
    <3>1. run' = [run EXCEPT ![a] = [run[a] EXCEPT !.at = "draining", !.queueing = FALSE]]
      BY <2>7
    <3>2. run'[a].at = "draining" /\ \A b \in Attempts : b # a => run'[b] = run[b]
      BY <2>2, <3>1 DEF TypeOK, Runs
    <3> QED BY <3>2
  <2>8. CASE End(a)  BY <2>8, RunOver
  <2>9. CASE \E p \in {"writing", "written", "starting", "polling"} : Go(a, p)
    <3>1. PICK p \in {"writing", "written", "starting", "polling"} : Go(a, p)  BY <2>9
    <3> QED BY <3>1, RunGo DEF Phases
  <2>10. CASE \E w \in Thens : StartRetract(a, w) \/ StartDrain(a, w)
    <3>1. PICK w \in Thens, p \in {"retracting", "draining"} : GoOn(a, p, w)
      BY <2>10 DEF StartRetract, StartDrain
    <3> QED BY <3>1, RunGoOn DEF Phases
  <2>11. CASE PrepFails(a) \/ PollStops(a) \/ Drained(a) \/ (Prepared(a) /\ Stopped(a))
    <3>1. End(a)  BY <2>11 DEF PrepFails, PollStops, Drained, FinishFailed, Prepared
    <3> QED BY <2>8, <3>1
  <2>12. CASE Clear(a) \/ SpecLands(a) \/ SpecAnswered(a) \/ Started(a) \/ SpecFails(a)
    BY <2>8, <2>9, <2>10, <2>12 DEF Clear, SpecLands, SpecAnswered, Started, SpecFails, Thens
  <2>13. CASE Retract(a) \/ RetractLost(a)
    BY <2>7, <2>8, <2>13 DEF Retract, RetractLost, AfterRetract, FinishFailed
  <2>14. CASE (Act(a) /\ run[a].saw # "missing") \/ ActChecked(a)
    BY <2>6, <2>10, <2>14 DEF Act, ActChecked, Thens
  <2> QED BY <2>3, <2>4, <2>5, <2>11, <2>12, <2>13, <2>14 DEF AppStep, AppFault, Sights
<1> QED BY DEF Placed, At, Stopped

\* The app starts no Blender, and takes its attempt back only to let go of it.
LEMMA AppShapes ==
  ASSUME TypeOK, Shape,
         NEW a \in Attempts, AppStep(a) \/ AppFault(a) \/ CancelCleans(a) \/ KillAgain(a)
  PROVE  Shape'
<1>1. owner' \in {owner, None} /\ service' = service
  <2>1. CASE \E what \in Sights : Read(a, what)  BY <2>1 DEF Read
  <2>2. CASE ~\E what \in Sights : Read(a, what)
    BY <2>2 DEF AppStep, AppFault, Sights, Prepared, PrepFails, Clear, SpecLands, SpecAnswered,
       SpecFails, Started, PollStops, Act, ActChecked, Retract, RetractLost, AfterRetract, Drained,
       FinishFailed, CancelCleans, KillAgain
  <2> QED BY <2>1, <2>2
<1>2. /\ agent' = agent /\ (orphan' => orphan)
      /\ thread'.at # "none" => thread.at # "none"
  <2>1. CASE Kill /\ inbox' \in {inbox, None}  BY <2>1, KillEnds
  <2>2. CASE UNCHANGED <<agent, thread, orphan>>  BY <2>2
  <2>3. CASE Clear(a) \/ SpecLands(a)  BY <2>2, <2>3 DEF Clear, SpecLands, Lost, nodeVars
  <2>4. CASE ~Clear(a) /\ ~SpecLands(a)
    <3>1. UNCHANGED nodeVars \/ (Kill /\ inbox' \in {inbox, None})
      <4>1. CASE CancelCleans(a) \/ KillAgain(a) \/ Retract(a) \/ RetractLost(a)
        BY <4>1 DEF CancelCleans, KillAgain, Retract, RetractLost, Withdraw, Lost, nodeVars
      <4>2. CASE \E what \in Sights : Read(a, what)  BY <4>2 DEF Read
      <4>3. CASE \/ Prepared(a) \/ PrepFails(a) \/ SpecAnswered(a) \/ SpecFails(a) \/ Started(a)
                 \/ PollStops(a) \/ Act(a) \/ ActChecked(a) \/ Drained(a)
        BY <4>3 DEF Prepared, PrepFails, SpecAnswered, SpecFails, Started, PollStops, Act,
           ActChecked, Drained
      <4> QED BY <2>4, <4>1, <4>2, <4>3 DEF AppStep, AppFault, Sights
    <3> QED BY <2>1, <2>2, <3>1 DEF nodeVars
  <2> QED BY <2>3, <2>4
<1>3. \A b \in Attempts : Placed(b)'
  <2>1. CASE CancelCleans(a) \/ KillAgain(a)
    BY <2>1 DEF CancelCleans, KillAgain, Shape, Placed, At, Stopped
  <2>2. CASE AppStep(a) \/ AppFault(a)  BY <2>2, AppPlaces DEF Shape
  <2> QED BY <2>1, <2>2
<1> QED BY <1>1, <1>2, <1>3 DEF Shape

LEMMA EnvironmentShapes ==
  ASSUME TypeOK, RunsKnown, Shape, Dispatch \/ Cancel \/ Revive \/ Reprovision \/ Supervise
  PROVE  Shape'
<1>1. CASE Dispatch
  <2>0. sent + 1 \in Attempts
    BY <1>1, HandoffAssumption DEF Dispatch, TypeOK, Someone, Attempts
  <2> PICK a \in Attempts : a = sent + 1  BY <2>0
  <2>1. run[a] \in Runs  BY DEF TypeOK
  <2>2. At(a, "unsent")
    BY HandoffAssumption DEF RunsKnown, RunKnown, TypeOK, Someone, Attempts
  <2>3. run' = [run EXCEPT ![a] = [run[a] EXCEPT !.at = "preparing"]]  BY <1>1 DEF Dispatch
  <2>4. /\ run'[a].at = "preparing" /\ run'[a].queueing = run[a].queueing
        /\ \A b \in Attempts : b # a => run'[b] = run[b]
    BY <2>1, <2>3 DEF TypeOK, Runs
  <2>5. \A b \in Attempts : Placed(b)'  BY <2>2, <2>4 DEF Shape, Placed, At, Stopped
  <2> QED BY <1>1, <2>5 DEF Dispatch, Shape, nodeVars
<1>2. CASE Cancel \/ Reprovision \/ ForgetRestarted
  <2>1. /\ \/ owner = None /\ UNCHANGED run
           \/ owner # None /\ run' = [run EXCEPT ![owner].stopped = TRUE]
        /\ owner' = None /\ UNCHANGED nodeVars
    BY <1>2 DEF Cancel, Reprovision, ForgetRestarted, Forget
  <2>2. ASSUME NEW b \in Attempts PROVE Placed(b)'
    <3>1. /\ run'[b].at = run[b].at /\ run'[b].queueing = run[b].queueing
          /\ run[b].stopped => run'[b].stopped
      BY <2>1, StoppedRuns
    <3> QED BY <3>1 DEF Shape, Placed, At, Stopped
  <2> QED BY <2>1, <2>2 DEF Shape, nodeVars
<1>3. CASE ReviveAgent \/ Reprovisioned
  <2>1. /\ UNCHANGED <<owner, run>> /\ service' # "reprovisioning"
        /\ ~orphan' /\ thread'.at = "none"
    BY <1>3 DEF ReviveAgent, Reprovisioned, Restart, NoThread
  <2> QED BY <2>1 DEF Shape, Placed, At, Stopped
<1>4. CASE Revive \/ Hold \/ SecondLook
  <2>1. /\ UNCHANGED <<owner, run, agent, thread, orphan>>
        /\ service' = service \/ service' = "held"
    BY <1>4 DEF Revive, Hold, SecondLook, nodeVars
  <2> QED BY <2>1 DEF Shape, Placed, At, Stopped
<1> QED BY <1>1, <1>2, <1>3, <1>4 DEF Supervise

-----------------------------------------------------------------------------
StopKnown == SpecsKnown /\ SlipInv

LEMMA StopInit == SlipInit => SlipInv
<1> SUFFICES ASSUME SlipInit PROVE SlipInv  OBVIOUS
<1>1. \A a \in Attempts : run[a].at = "unsent" /\ ~run[a].queueing /\ ~run[a].stopped
  BY DEF SlipInit, Init, NewRun
<1>2. agent /\ inbox = None /\ thread.at = "none" /\ service = "in" /\ ~orphan /\ sent = 0
  BY DEF SlipInit, Init, NoThread
<1>3. KilledTwice  BY <1>2 DEF KilledTwice, Killed, Ended
<1>4. \A a \in Attempts : Knows(a)
  BY <1>1, <1>2 DEF Knows, Informed, Untaken, LastWord, At, Waiting
<1>5. Alone /\ Emptied  BY <1>2, HandoffAssumption DEF Alone, Emptied, Attempts
<1>6. Shape  BY <1>1, <1>2 DEF Shape, Placed, At
<1> QED BY <1>3, <1>4, <1>5, <1>6 DEF SlipInv, Timely, SomeoneStops

LEMMA ShapeKept == ASSUME TypeOK, RunsKnown, SpecsInv, Shape, Next PROVE Shape'
  BY AppShapes, EnvironmentShapes, AgentShapes DEF Next, AgentActs

LEMMA TimelyKept ==
  ASSUME TypeOK, RunsKnown, SpecsInv, StopInv, Next, ~Slip, ~MakesGood
  PROVE  Timely'
  BY AppStops, EnvironmentStops, AgentStops DEF Next, AgentActs, Slip

LEMMA StopKept == StopKnown /\ [SlipNext]_<<vars, slipped>> => StopKnown'
<1> SUFFICES ASSUME StopKnown, [SlipNext]_<<vars, slipped>> PROVE SlipInv'
  BY SpecsKept DEF StopKnown, SlipNext
<1>1. TypeOK /\ RunsKnown /\ SpecsInv /\ SlipInv  BY DEF StopKnown, SpecsKnown, RunsInv
<1>2. CASE SlipNext
  <2>1. Next /\ (~slipped' <=> MakesGood \/ ~(slipped \/ Slip))  BY <1>2 DEF SlipNext, Remember
  <2>2. Shape'  BY <1>1, <2>1, ShapeKept DEF SlipInv
  <2>3. ASSUME ~slipped' PROVE Timely'
    <3>1. CASE MakesGood  BY <1>1, <3>1, MadeGood DEF SlipInv
    <3>2. CASE ~MakesGood
      <4>1. StopInv /\ ~Slip  BY <1>1, <2>1, <2>3, <3>2 DEF SlipInv, StopInv
      <4> QED BY <1>1, <2>1, <3>2, <4>1, TimelyKept
    <3> QED BY <3>1, <3>2
  <2> QED BY <2>2, <2>3 DEF SlipInv
<1>3. CASE UNCHANGED <<vars, slipped>>
  <2>1. UNCHANGED <<owner, sent, run, cleaning, armed, service, inbox, file, agent, thread, orphan, slipped>>
    BY <1>3 DEF vars, appVars, nodeVars
  <2>2. (Verdict' <=> Verdict) /\ (Ended' <=> Ended) /\ (Killed' <=> Killed) /\ (KilledTwice' <=> KilledTwice)
    BY <2>1 DEF Verdict, Ended, Killed, KilledTwice
  <2>3. Shape'  BY <1>1, <2>1 DEF SlipInv, Shape, Placed, At, Stopped
  <2>4. Alone' = Alone /\ Emptied' = Emptied /\ \A b \in Attempts : Knows(b)' = Knows(b)
    BY <2>1, <2>2 DEF Alone, Emptied, Knows, Informed, Untaken, LastWord, At, Stopped, Waiting
  <2>5. SomeoneStops' = SomeoneStops
    BY <2>1, <2>2 DEF SomeoneStops, WithdrawalComing, Withdraws, Driving, At, Stopped, Waiting
  <2> QED BY <1>1, <2>1, <2>3, <2>4, <2>5 DEF SlipInv, Timely
<1> QED BY <1>2, <1>3

\* A Blender of the chunk that runs with no attempt to watch it has a clean-up, a
\* second kill, a retract or a restart of the agent to come, unless one of six
\* slips happened since the node was last restarted or withdrawn from: through
\* every cancel, revival, crash of the agent, reprovision and failed request
\* (retractSpec, cancelJob, stopRelaunch, reviveAgent).
THEOREM UnwatchedStops == SlipSpec => []OnlySlipsLeaveUnwatched
<1>1. SlipInit => StopKnown
  BY StopInit, RunsInit, SpecsInit DEF SlipInit, StopKnown, SpecsKnown
<1>2. StopKnown /\ [SlipNext]_<<vars, slipped>> => StopKnown'  BY StopKept
<1>3. StopKnown => OnlySlipsLeaveUnwatched
  <2> SUFFICES ASSUME StopKnown, Rendering, owner = None, ~slipped PROVE StopComing
    BY DEF OnlySlipsLeaveUnwatched, Unwatched
  <2>1. TypeOK /\ RunsKnown /\ Shape /\ SomeoneStops
    BY DEF StopKnown, SpecsKnown, RunsInv, SlipInv, Timely
  <2>2. orphan => ~agent  BY <2>1 DEF Shape
  <2>3. \A a \in Attempts : ~Driving(a)  BY <2>1, NooneDrives
  <2>4. thread.at = "rendering" /\ KilledTwice => armed # {}  BY DEF KilledTwice
  <2>5. WithdrawalComing => StopComing  BY DEF WithdrawalComing, Withdraws, StopComing
  <2> QED BY <2>1, <2>2, <2>3, <2>4, <2>5 DEF SomeoneStops, Rendering, StopComing
<1> QED BY <1>1, <1>2, <1>3, PTL DEF SlipSpec
=============================================================================
