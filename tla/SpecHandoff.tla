----------------------------- MODULE SpecHandoff -----------------------------
(***************************************************************************)
(* One chunk on one node: the app's successive attempts at it (ChunkRun,   *)
(* scheduler.ts) and the node's agent (noderunner.py), which meet in two   *)
(* files and one signal:                                                   *)
(*   the spec, jobs/inbox/<chunk>.json, written by the app;                *)
(*   the state, state/<chunk>.json, written by the agent;                  *)
(*   `pkill -f <chunk>`, by which the app stops a render.                  *)
(* All three are named after the CHUNK and not after the attempt, so what  *)
(* one attempt leaves behind is met by the next.                           *)
(*                                                                         *)
(* An attempt is a number; 0 is none.  Frames, retries and holds are       *)
(* ChunkLedger's: here the chunk is pending, live, cancelled or complete.  *)
(* The node's destruction ends everything at once and is NodeRental's.     *)
(***************************************************************************)
EXTENDS Naturals

CONSTANTS
    MaxAttempts,    \* bound: times the chunk is sent to this node
    MaxCancels,     \* bound: cancels of its job
    MaxCrashes,     \* bound: deaths of the agent
    MaxReprovisions,\* bound: restarts of the agent the user asks for
    MaxFaults,      \* bound: requests that fail, and state writes that do
    Overlap,        \* may an abandoned dispatch still wait for an answer when
                    \* the chunk is sent again?
    SlowAgent,      \* may the agent be between two steps of an earlier render
                    \* when the next attempt clears the state, or write that
                    \* render's verdict before the next spec is in place?
    LaunchGap,      \* may a kill come between the agent's opening a spec and
                    \* its Blender's start?
    LateForget,     \* may a spec land between a restart's emptying the inbox
                    \* and the app's forgetting the node's runs?
    Lanes           \* what may hold the agent's lanes besides this chunk

ASSUME HandoffAssumption ==
    /\ MaxAttempts \in Nat /\ MaxCancels \in Nat /\ MaxCrashes \in Nat
    /\ MaxReprovisions \in Nat /\ MaxFaults \in Nat
    /\ {Overlap, SlowAgent, LaunchGap, LateForget} \subseteq BOOLEAN
    /\ Lanes \subseteq {"free", "ours", "unwatched"}

Attempts == 1..MaxAttempts
None == 0
Someone == 0..MaxAttempts

VARIABLES
    row,        \* the chunk's row
    owner,      \* the attempt Scheduler.runs holds for the chunk
    sent,       \* attempts sent so far
    run,        \* each attempt's ChunkRun
    cleaning,   \* attempts cancelJob has yet to clean up after
    armed,      \* attempts with a stopRelaunch timer set
    service,    \* the node's place in the fleet
    fit,        \* does the scheduler take the node's agent for alive?
    inbox,      \* the attempt whose spec is in the inbox
    file,       \* the state file
    agent,      \* is the agent alive?
    thread,     \* the agent's thread for the chunk
    opened,     \* the attempts whose spec a thread has opened
    orphan,     \* did a Blender of the chunk outlive its agent?
    lane,       \* what else holds the agent's lanes
    budget      \* what is left of each bounded kind of event

appVars  == <<row, owner, sent, run, cleaning, armed, service, fit>>
nodeVars == <<inbox, file, agent, thread, opened, orphan, lane>>
vars == <<appVars, nodeVars, budget>>

-----------------------------------------------------------------------------
(* State. *)

NoFile == [by |-> None, status |-> "missing", idle |-> FALSE]
Files == [by : Someone, status : {"rendering", "encoding", "done", "failed"},
          idle : BOOLEAN] \cup {NoFile}

Phases == {"unsent", "preparing", "clearing", "writing", "written", "starting",
           "polling", "read", "checked", "retracting", "draining", "over"}
\* What a run does next, once its retract or its drain is over.
Thens == {"return", "throw", "fail", "drain", "drainUnclaimed", "drainDown", "complete"}
Sights == {"nothing", "missing", "unread", "done", "failed", "stalled", "hung", "engine"}
Runs == [at : Phases, stopped : BOOLEAN, queueing : BOOLEAN,
         saw : Sights, queued : BOOLEAN, alive : BOOLEAN, then : Thens]
NewRun == [at |-> "unsent", stopped |-> FALSE, queueing |-> FALSE,
           saw |-> "nothing", queued |-> FALSE, alive |-> FALSE, then |-> "return"]

ThreadPhases == {"none", "claimed", "opened", "rendering", "settling", "rendered",
                 "encoding", "failing", "done", "failed"}
\* retry: would an EEVEE Blender that dies now be relaunched on OpenGL?  hung:
\* it makes no progress.  beat: its heartbeat thread is about to write.
Threads == [at : ThreadPhases, spec : Someone, retry : BOOLEAN, hung : BOOLEAN,
            beat : BOOLEAN]
NoThread == [at |-> "none", spec |-> None, retry |-> FALSE, hung |-> FALSE, beat |-> FALSE]

TypeOK ==
    /\ row \in {"pending", "live", "cancelled", "complete"}
    /\ owner \in Someone /\ sent \in Someone
    /\ run \in [Attempts -> Runs]
    /\ cleaning \in SUBSET Attempts /\ armed \in SUBSET Attempts
    /\ service \in {"in", "held", "restarted", "reprovisioning"}
    /\ fit \in {"fit", "suspect", "down"}
    /\ inbox \in Someone /\ file \in Files
    /\ agent \in BOOLEAN /\ thread \in Threads
    /\ opened \in SUBSET Attempts /\ orphan \in BOOLEAN
    /\ lane \in {"free", "ours", "unwatched"}
    /\ budget \in [{"cancel", "crash", "reprovision", "fault"} -> Nat]

Init ==
    /\ row = "pending" /\ owner = None /\ sent = 0
    /\ run = [a \in Attempts |-> NewRun]
    /\ cleaning = {} /\ armed = {} /\ service = "in" /\ fit = "fit"
    /\ inbox = None /\ file = NoFile /\ agent = TRUE /\ thread = NoThread
    /\ opened = {} /\ orphan = FALSE /\ lane \in Lanes
    /\ budget = [cancel |-> MaxCancels, crash |-> MaxCrashes,
                 reprovision |-> MaxReprovisions, fault |-> MaxFaults]

At(a, p) == run[a].at = p
Stopped(a) == run[a].stopped
Go(a, p) == run' = [run EXCEPT ![a].at = p]
Over == [NewRun EXCEPT !.at = "over", !.stopped = TRUE]
End(a) == run' = [run EXCEPT ![a] = Over]
Spend(kind) == budget[kind] > 0 /\ budget' = [budget EXCEPT ![kind] = @ - 1]

\* A Blender of the chunk runs on the node, under the agent or without it.
Rendering == thread.at = "rendering" \/ orphan

-----------------------------------------------------------------------------
(* Stopping a render from afar. *)

\* Blender's exit, whatever ended it: `clean` is a zero exit code.  A heartbeat
\* that had just seen it alive may still write.
Exit(clean) ==
    \E beat \in BOOLEAN :
        thread' = [thread EXCEPT !.at = IF clean THEN "rendered" ELSE "settling",
                                 !.hung = FALSE, !.beat = beat, !.retry = @ /\ ~clean]

\* pkill -f <chunk>: a Blender or an encode of the chunk ends; a thread that
\* has neither yet, or no longer, is not touched.
Kill ==
    /\ LaunchGap \/ thread.at # "opened"
    /\ orphan' = FALSE
    /\ \/ thread.at = "rendering" /\ Exit(FALSE)
       \/ thread.at = "encoding" /\ thread' = [thread EXCEPT !.at = "failing"]
       \/ thread.at \notin {"rendering", "encoding"} /\ UNCHANGED thread
    /\ UNCHANGED <<file, agent, opened, lane>>

\* rm -f <spec>; pkill -f <chunk> (retractSpec, cancelJob).
Withdraw == inbox' = None /\ Kill

\* The command never reached the node; the app goes on as if it had.
Lost == Spend("fault") /\ UNCHANGED nodeVars

\* finish('failed'), or the tick's catch: the run is let go of and its chunk
\* goes back in the queue.  Only a run not stopped gets here, and it is owner.
FinishFailed(a) == End(a) /\ owner' = None /\ row' = "pending"

\* What a run does when its retract is over.
AfterRetract(a) ==
    /\ armed' = armed \cup {a}
    /\ \/ /\ Stopped(a) \/ run[a].then = "return"
          /\ End(a)
          /\ UNCHANGED <<owner, row>>
       \/ ~Stopped(a) /\ run[a].then \in {"throw", "fail"} /\ FinishFailed(a)
       \/ /\ ~Stopped(a) /\ run[a].then \in {"drain", "drainUnclaimed", "drainDown"}
          /\ run' = [run EXCEPT ![a].at = "draining", ![a].queueing = FALSE]
          /\ UNCHANGED <<owner, row>>
    /\ UNCHANGED <<sent, cleaning, service, fit>>

Retract(a) ==
    /\ At(a, "retracting")
    /\ Withdraw
    /\ AfterRetract(a)
    /\ UNCHANGED budget

RetractLost(a) == At(a, "retracting") /\ Lost /\ AfterRetract(a)

GoOn(a, p, then) ==
    run' = [run EXCEPT ![a] = [NewRun EXCEPT !.at = p, !.then = then, !.queueing = TRUE,
                                             !.stopped = Stopped(a)]]
StartRetract(a, then) == GoOn(a, "retracting", then)
StartDrain(a, then) == GoOn(a, "draining", then)

\* Mutant: any run of the chunk's is one that may be sending it.
SendingIfRun == owner # None

\* isQueueing of the chunk's current run: a render of it is then that run's.
SendingAgain == owner # None /\ run[owner].queueing

\* stopRelaunch's timer.  AGENT_RELAUNCH_MS is past the agent's pause between
\* a Blender's exit and its OpenGL retry, so the thread is not between them.
KillAgain(a) ==
    /\ a \in armed /\ armed' = armed \ {a}
    /\ thread.at \notin {"claimed", "opened", "settling"}
    /\ IF SendingAgain
       THEN UNCHANGED <<nodeVars, budget>>
       ELSE (Kill /\ UNCHANGED <<inbox, budget>>) \/ Lost
    /\ UNCHANGED <<row, owner, sent, run, cleaning, service, fit>>

-----------------------------------------------------------------------------
(* An attempt, from its dispatch to its first poll (ChunkRun.dispatch). *)

Dispatch ==
    LET a == sent + 1 IN
    /\ row = "pending" /\ owner = None /\ sent < MaxAttempts
    /\ service = "in" /\ fit = "fit"
    /\ Overlap \/ \A b \in Attempts : b <= sent => At(b, "over")
    /\ sent' = a /\ owner' = a /\ row' = "live"
    /\ run' = [run EXCEPT ![a].at = "preparing"]
    /\ UNCHANGED <<cleaning, armed, service, fit, nodeVars, budget>>

\* Node prep is over: the spec is on its way from here (queueing).
Prepared(a) ==
    /\ At(a, "preparing")
    /\ IF Stopped(a) THEN End(a)
       ELSE run' = [run EXCEPT ![a].at = "clearing", ![a].queueing = TRUE]
    /\ UNCHANGED <<row, owner, sent, cleaning, armed, service, fit, nodeVars, budget>>

\* Prep threw: the tick's catch requeues the chunk of a run not stopped.
PrepFails(a) ==
    /\ At(a, "preparing") /\ Spend("fault")
    /\ IF Stopped(a) THEN End(a) /\ UNCHANGED <<row, owner>> ELSE FinishFailed(a)
    /\ UNCHANGED <<sent, cleaning, armed, service, fit, nodeVars>>

\* rm -f of the state file, whose failure is ignored.
Clear(a) ==
    /\ At(a, "clearing")
    /\ SlowAgent \/ thread.at \in {"none", "rendering", "encoding"}
    /\ \/ file' = NoFile /\ UNCHANGED <<inbox, agent, thread, opened, orphan, lane, budget>>
       \/ Lost
    /\ IF Stopped(a) THEN End(a) ELSE Go(a, "writing")
    /\ UNCHANGED <<row, owner, sent, cleaning, armed, service, fit>>

\* writeRemoteFileAtomic: the rename lands, then its answer comes, or is lost.
SpecLands(a) ==
    /\ At(a, "writing")
    /\ LateForget \/ service # "restarted"
    /\ inbox' = a
    /\ Go(a, "written")
    /\ UNCHANGED <<row, owner, sent, cleaning, armed, service, fit,
                   file, agent, thread, opened, orphan, lane, budget>>

SpecAnswered(a) ==
    /\ At(a, "written")
    /\ IF Stopped(a) THEN StartRetract(a, "return") ELSE Go(a, "starting")
    /\ UNCHANGED <<row, owner, sent, cleaning, armed, service, fit, nodeVars, budget>>

\* Mutant: an answer that does not come ends the attempt, and what it sent stays.
SpecFailsQuietly(a) ==
    /\ At(a, "writing") \/ At(a, "written")
    /\ Spend("fault")
    /\ IF Stopped(a) THEN End(a) /\ UNCHANGED <<row, owner>> ELSE FinishFailed(a)
    /\ UNCHANGED <<sent, cleaning, armed, service, fit, nodeVars>>

SpecFails(a) ==
    /\ At(a, "writing") \/ At(a, "written")
    /\ Spend("fault")
    /\ StartRetract(a, "throw")
    /\ UNCHANGED <<row, owner, sent, cleaning, armed, service, fit, nodeVars>>

\* reassertPreviewSubscription answered.
Started(a) ==
    /\ At(a, "starting")
    /\ IF Stopped(a) THEN StartRetract(a, "return") ELSE Go(a, "polling")
    /\ UNCHANGED <<row, owner, sent, cleaning, armed, service, fit, nodeVars, budget>>

-----------------------------------------------------------------------------
(* Polling (pollUntilDone).  A read that brings nothing to act on changes    *)
(* nothing; only the others are steps.  Time is not counted: a bound of the  *)
(* code (STATE_MISSING_MS, STATE_STALL_MS, HUNG_*, STATE_UNREADABLE_MS) may  *)
(* be over whenever what it waits for has not come.                          *)

\* A state is on its way: the agent takes a spec and starts a render within
\* seconds, a Blender's heartbeat writes every 60 s and an ending thread is
\* quick.  An encode writes nothing until it ends.
Busy ==
    \/ thread.at \notin {"none", "encoding"}
    \/ thread.at = "none" /\ inbox # None /\ lane = "free"

\* Mutant: a spec is waited for as long as the agent lives.
QuietIfDead == ~agent

Quiet == ~(agent /\ Busy)

Sees(what) ==
    CASE what = "missing" -> file = NoFile /\ Quiet
      [] what = "done"    -> file.status = "done"
      [] what = "failed"  -> file.status = "failed"
      [] what = "stalled" -> file.status \in {"rendering", "encoding"} /\ Quiet
      [] what = "hung"    -> file.status = "rendering" /\ file.idle
      [] what = "engine"  -> file.status = "rendering"
      [] OTHER            -> FALSE

Polling == [NewRun EXCEPT !.at = "polling", !.queueing = TRUE]

\* The read: its answer is acted on later (PollStops, Act*).
Read(a, what) ==
    /\ At(a, "polling") /\ ~Stopped(a)
    /\ \/ Sees(what) /\ UNCHANGED budget
       \/ what = "unread" /\ Spend("fault")
    /\ run' = [run EXCEPT ![a].at = "read", ![a].saw = what]
    /\ UNCHANGED <<row, owner, sent, cleaning, armed, service, fit, nodeVars>>

\* Every await of the loop is followed by `if (this.stopped) return`.
PollStops(a) ==
    /\ Stopped(a) /\ run[a].at \in {"polling", "read", "checked", "draining"}
    /\ End(a)
    /\ UNCHANGED <<row, owner, sent, cleaning, armed, service, fit, nodeVars, budget>>

Act(a) ==
    /\ At(a, "read") /\ ~Stopped(a)
    /\ CASE run[a].saw = "missing" ->
              run' = [run EXCEPT ![a].at = "checked", ![a].saw = "nothing",
                                 ![a].queued = (inbox # None), ![a].alive = agent]
         [] run[a].saw = "done" -> StartDrain(a, "complete")
         [] run[a].saw \in {"failed", "stalled"} -> StartDrain(a, "fail")
         [] run[a].saw = "hung" -> StartRetract(a, "drain")
         [] OTHER -> StartRetract(a, "fail")   \* unread, engine
    /\ UNCHANGED <<row, owner, sent, cleaning, armed, service, fit, nodeVars, budget>>

\* checkMissingState's verdict.  A spec behind a render of ours waits on.
ActChecked(a) ==
    /\ At(a, "checked") /\ ~Stopped(a)
    /\ CASE run[a].queued /\ run[a].alive ->
              IF lane = "ours" THEN run' = [run EXCEPT ![a] = Polling] ELSE StartRetract(a, "drainUnclaimed")
         [] ~run[a].alive -> StartRetract(a, "drainDown")
         [] OTHER -> StartDrain(a, "fail")
    /\ UNCHANGED <<row, owner, sent, cleaning, armed, service, fit, nodeVars, budget>>

\* The drain is over: the chunk is complete, or goes back in the queue, and a
\* node whose agent does not take its specs is sent nothing more.
Drained(a) ==
    /\ At(a, "draining") /\ ~Stopped(a)
    /\ \/ /\ run[a].then = "complete"
          /\ End(a)
          /\ owner' = None /\ row' = "complete"
       \/ FinishFailed(a)
    /\ fit' = CASE run[a].then = "drainUnclaimed" -> "down"
                [] run[a].then = "drainDown" /\ fit = "fit" -> "suspect"
                [] OTHER -> fit
    /\ UNCHANGED <<sent, cleaning, armed, service, nodeVars, budget>>

\* suspectAgentDown's second look.
SecondLook ==
    /\ fit = "suspect" /\ fit' = IF agent THEN "fit" ELSE "down"
    /\ UNCHANGED <<row, owner, sent, run, cleaning, armed, service, nodeVars, budget>>

-----------------------------------------------------------------------------
(* What stops an attempt from outside. *)

\* cancelJob up to its first await, and the clean-up it goes on with.
Cancel ==
    /\ row \in {"pending", "live"} /\ Spend("cancel")
    /\ row' = "cancelled" /\ owner' = None
    /\ IF owner = None THEN UNCHANGED <<run, cleaning>>
       ELSE /\ run' = [run EXCEPT ![owner].stopped = TRUE]
            /\ cleaning' = cleaning \cup {owner}
    /\ UNCHANGED <<sent, armed, service, fit, nodeVars>>

CancelCleans(a) ==
    /\ a \in cleaning
    /\ (Withdraw /\ UNCHANGED budget) \/ Lost
    /\ cleaning' = cleaning \ {a} /\ armed' = armed \cup {a}
    /\ UNCHANGED <<row, owner, sent, run, service, fit>>

\* Mutant: without waiting for the clean-up.
ReviveAtOnce ==
    /\ row = "cancelled" /\ row' = "pending"
    /\ UNCHANGED <<owner, sent, run, cleaning, armed, service, fit, nodeVars, budget>>

\* retryMissing, which waits for the clean-up.
Revive ==
    /\ row = "cancelled" /\ cleaning = {} /\ row' = "pending"
    /\ UNCHANGED <<owner, sent, run, cleaning, armed, service, fit, nodeVars, budget>>

\* forgetNode: the node's run is aborted, its chunk goes back.
Forget ==
    /\ owner' = None /\ fit' = "fit"
    /\ IF owner = None THEN UNCHANGED <<row, run>>
       ELSE row' = "pending" /\ run' = [run EXCEPT ![owner].stopped = TRUE]
    /\ UNCHANGED <<sent, cleaning, armed>>

\* Mutant: only the agent's own Blender dies with it.
RestartSparesOrphan ==
    /\ inbox' = None /\ thread' = NoThread /\ agent' = TRUE
    /\ UNCHANGED <<orphan, file, opened, lane>>

\* restart-agent: every Blender killed, the inbox emptied, a new agent.
Restart ==
    /\ inbox' = None /\ thread' = NoThread /\ orphan' = FALSE /\ agent' = TRUE
    /\ UNCHANGED <<file, opened, lane>>

\* restoreAgent: a node whose agent's heartbeat is stale leaves the fleet, the
\* agent is restarted, and then the node's runs are forgotten (reviveAgent).
Hold ==
    /\ service = "in" /\ ~agent /\ service' = "held"
    /\ UNCHANGED <<row, owner, sent, run, cleaning, armed, fit, nodeVars, budget>>

ReviveAgent ==
    /\ service = "held" /\ Restart /\ service' = "restarted"
    /\ UNCHANGED <<row, owner, sent, run, cleaning, armed, fit, budget>>

ForgetRestarted ==
    /\ service = "restarted" /\ Forget /\ service' = "in"
    /\ UNCHANGED <<nodeVars, budget>>

\* reprovisionNode: its runs are forgotten first.
Reprovision ==
    /\ service = "in" /\ Spend("reprovision") /\ Forget /\ service' = "reprovisioning"
    /\ UNCHANGED nodeVars

Reprovisioned ==
    /\ service = "reprovisioning" /\ Restart /\ service' = "in"
    /\ UNCHANGED <<row, owner, sent, run, cleaning, armed, fit, budget>>

-----------------------------------------------------------------------------
(* The agent (noderunner.py). *)

AgentOnly == agent /\ UNCHANGED <<appVars, agent, orphan, lane>>
Thread(p, q) == thread.at = p /\ thread' = [thread EXCEPT !.at = q]

\* write_state: the status in the dict the chunk's threads share.
StatusAt(p) ==
    CASE p \in {"encoding", "done", "failed"} -> p
      [] OTHER -> "rendering"
Write(p, idle) == file' = [by |-> thread.spec, status |-> StatusAt(p), idle |-> idle]

\* A verdict is written within seconds of its cause; an attempt's spec, behind
\* two more commands over SSH, is not in place sooner.
InTime == SlowAgent \/ \A a \in Attempts : ~At(a, "writing")

\* main: a spec whose name no thread has, on a lane that is free.
Claim ==
    /\ inbox # None /\ lane = "free" /\ Thread("none", "claimed")
    /\ AgentOnly /\ UNCHANGED <<inbox, file, opened, budget>>

\* process opens the file: gone meanwhile, it fails without a spec.
Open ==
    /\ thread.at = "claimed"
    /\ IF inbox = None THEN Thread("claimed", "failing") /\ UNCHANGED opened
       ELSE /\ thread' = [thread EXCEPT !.at = "opened", !.spec = inbox, !.retry = TRUE]
            /\ opened' = opened \cup {inbox}
    /\ AgentOnly /\ UNCHANGED <<inbox, file, budget>>

\* run_render: the first state, and Blender; or a scene that is not there.
Launch ==
    /\ Thread("opened", "rendering") /\ Write("rendering", FALSE)
    /\ AgentOnly /\ UNCHANGED <<inbox, opened, budget>>
LaunchFails ==
    /\ thread.at = "opened" /\ thread' = [thread EXCEPT !.at = "failing", !.retry = FALSE]
    /\ AgentOnly /\ UNCHANGED <<inbox, file, opened, budget>>

\* The state of a render going on, from its loop and from its heartbeat.
Beat ==
    /\ thread.at = "rendering" /\ Write("rendering", thread.hung)
    /\ AgentOnly /\ UNCHANGED <<inbox, thread, opened, budget>>

\* Mutant: and writes what it saw.
LateBeatBlind ==
    /\ thread.beat /\ thread' = [thread EXCEPT !.beat = FALSE]
    /\ Write("rendering", FALSE)
    /\ AgentOnly /\ UNCHANGED <<inbox, opened, budget>>

\* A heartbeat that saw Blender alive, and writes after its end.
LateBeat ==
    /\ thread.beat /\ thread' = [thread EXCEPT !.beat = FALSE]
    /\ Write(thread.at, FALSE)
    /\ AgentOnly /\ UNCHANGED <<inbox, opened, budget>>

\* A frame is saved: a Blender that dies from here on is not relaunched.
Save ==
    /\ thread.at = "rendering" /\ ~thread.hung /\ thread' = [thread EXCEPT !.retry = FALSE]
    /\ AgentOnly /\ UNCHANGED <<inbox, file, opened, budget>>

\* Blender makes no progress from here (or none the app would wait for).
Hang ==
    /\ thread.at = "rendering" /\ thread' = [thread EXCEPT !.hung = TRUE]
    /\ AgentOnly /\ UNCHANGED <<inbox, file, opened, budget>>

BlenderEnds ==
    /\ thread.at = "rendering" /\ \E clean \in BOOLEAN : Exit(clean)
    /\ AgentOnly /\ UNCHANGED <<inbox, file, opened, budget>>

\* After settle(): the OpenGL retry of an EEVEE render that saved nothing, the
\* failure of any other that did not end clean, or the encode.
Relaunch ==
    /\ thread.retry /\ thread.at = "settling"
    /\ thread' = [thread EXCEPT !.at = "rendering", !.retry = FALSE]
    /\ AgentOnly /\ UNCHANGED <<inbox, file, opened, budget>>
RenderFails ==
    /\ thread.at = "settling" /\ thread' = [thread EXCEPT !.at = "failing", !.retry = FALSE]
    /\ AgentOnly /\ UNCHANGED <<inbox, file, opened, budget>>
Encode ==
    /\ Thread("rendered", "encoding") /\ Write("encoding", FALSE)
    /\ AgentOnly /\ UNCHANGED <<inbox, opened, budget>>

Done ==
    /\ InTime /\ Thread("encoding", "done") /\ Write("done", FALSE)
    /\ AgentOnly /\ UNCHANGED <<inbox, opened, budget>>
EncodeFails ==
    /\ Thread("encoding", "failing")
    /\ AgentOnly /\ UNCHANGED <<inbox, file, opened, budget>>

\* record_failure, whose write may fail and is then only logged.
Fail ==
    /\ InTime /\ Thread("failing", "failed")
    /\ (Write("failed", FALSE) /\ UNCHANGED budget) \/ (Spend("fault") /\ UNCHANGED file)
    /\ AgentOnly /\ UNCHANGED <<inbox, opened>>

\* Mutant: a spec that is done with stays where it is.
RetireInPlace ==
    /\ thread.at \in {"done", "failed"} /\ ~thread.beat
    /\ thread' = NoThread
    /\ AgentOnly /\ UNCHANGED <<inbox, file, opened, budget>>

\* retire_spec moves whatever has the spec's name.  The heartbeat that had
\* already seen its Blender alive has written by then.
Retire ==
    /\ thread.at \in {"done", "failed"} /\ ~thread.beat
    /\ thread' = NoThread /\ inbox' = None
    /\ AgentOnly /\ UNCHANGED <<file, opened, budget>>

LaneFrees ==
    /\ lane = "ours" /\ lane' = "free"
    /\ UNCHANGED <<appVars, inbox, file, agent, thread, opened, orphan, budget>>

\* The agent's process dies, or its container; in the first case a Blender of
\* the chunk lives on, in a session of its own.
AgentDies ==
    /\ agent /\ Spend("crash") /\ agent' = FALSE /\ thread' = NoThread
    /\ \E survives \in BOOLEAN : orphan' = (survives /\ thread.at = "rendering")
    /\ UNCHANGED <<appVars, inbox, file, opened, lane>>

OrphanEnds ==
    /\ orphan /\ orphan' = FALSE
    /\ UNCHANGED <<appVars, inbox, file, agent, thread, opened, lane, budget>>

-----------------------------------------------------------------------------
AppStep(a) ==
    \/ Prepared(a) \/ Clear(a) \/ SpecLands(a) \/ SpecAnswered(a) \/ Started(a)
    \/ \E what \in Sights \ {"engine", "unread"} : Read(a, what)
    \/ PollStops(a) \/ Act(a) \/ ActChecked(a) \/ Retract(a) \/ Drained(a)
AppFault(a) ==
    \/ PrepFails(a) \/ SpecFails(a) \/ RetractLost(a)
    \/ \E what \in {"engine", "unread"} : Read(a, what)
Supervise == Hold \/ ReviveAgent \/ ForgetRestarted \/ Reprovisioned \/ SecondLook
AgentStep ==
    \/ Claim \/ Open \/ Launch \/ LaunchFails \/ Relaunch \/ Encode \/ RenderFails
    \/ Done \/ EncodeFails \/ Fail \/ Retire
BlenderStep == ~thread.hung /\ (BlenderEnds \/ Hang)

Next ==
    \/ Dispatch \/ Cancel \/ Revive \/ Reprovision \/ Supervise
    \/ \E a \in Attempts : AppStep(a) \/ AppFault(a) \/ CancelCleans(a) \/ KillAgain(a)
    \/ AgentStep \/ LateBeat \/ Beat \/ BlenderEnds \/ Hang \/ Save \/ LaneFrees
    \/ AgentDies \/ OrphanEnds

Spec == Init /\ [][Next]_vars

(* Every promise of the app is settled (its requests have deadlines), its    *)
(* timers fire, the supervisor's probes run, and the agent's loop, its       *)
(* threads and its heartbeats run.  Nothing says a Blender ends: it ends or  *)
(* it hangs.  A lane held by a render of ours is let go (that run's own      *)
(* bounds); one held by anything else need never be.                         *)
Fairness ==
    /\ \A a \in Attempts : WF_vars(AppStep(a)) /\ WF_vars(CancelCleans(a)) /\ WF_vars(KillAgain(a))
    /\ WF_vars(Supervise) /\ WF_vars(AgentStep) /\ WF_vars(BlenderStep)
    /\ WF_vars(LateBeat) /\ WF_vars(Beat) /\ WF_vars(LaneFrees)

FairSpec == Spec /\ Fairness

-----------------------------------------------------------------------------
(* Properties. *)

\* Every attempt that is sent comes to an end, whatever becomes of its spec, of
\* the agent and of its Blender: an unclaimed spec, an agent that is gone, a
\* render that hangs and a state nobody writes any more each have a bound in
\* pollUntilDone, and none of them waits for another.
RunsEnd == \A a \in Attempts : At(a, "preparing") ~> At(a, "over")

\* A Blender of the chunk runs, and no attempt watches it.
Unwatched == Rendering /\ owner = None

\* Whoever will stop it is on its way: a clean-up, a second kill, a retract, or a
\* restart of the agent.
StopComing ==
    \/ cleaning # {} \/ armed # {} \/ ~agent \/ service # "in"
    \/ \E a \in Attempts :
         At(a, "retracting") \/ (Stopped(a) /\ run[a].at \in {"written", "starting"})
\* It always is, if nothing slips (HandoffSlips); the code promises no more.
UnwatchedIsStopped == Unwatched => StopComing

\* The agent renders a spec once: whatever it died or was restarted in the
\* middle of, it never opens one it opened before (#81; retire_spec, main).
RenderedOnce ==
    [][thread.at = "claimed" /\ thread'.at = "opened" => inbox \notin opened]_vars

\* The verdict of an attempt's render stands until the next attempt clears it:
\* no heartbeat that was already writing takes it back (write_state).
VerdictStands ==
    [][file.status \in {"done", "failed"} /\ file' # NoFile /\ file'.by = file.by
        => file' = file]_vars

\* A clean-up sent for one attempt finds no spec and no render of a later one:
\* a chunk is sent again only once those of the attempt before are done
\* (retractSpec, cancelJob, and the wait for it in retryMissing).
NoLaterThan(a) ==
    inbox <= a /\ (thread.at \in {"opened", "rendering", "encoding"} => thread.spec <= a)
KillsSpareSuccessors ==
    [][\A a \in Attempts : Retract(a) \/ CancelCleans(a) => NoLaterThan(a)]_vars
=============================================================================
