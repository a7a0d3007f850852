---------------------------- MODULE AppLifecycle ----------------------------
(* Quit, signals and session end while rented machines bill:
   src/src/main/app/lifecycle.ts, against the fleet as its FleetPort shows it.

   A stop is one chain of awaits: perhaps a dialog, then passes over the fleet
   (destroyFleet), each in rounds, each round settling the billing nodes it has
   not tried. Meanwhile the fleet changes under it, and further quits, signals
   and session ends arrive. Of time only two things are kept: that a node's
   budget may be over (BudgetEnds), and whether SECOND_SIGNAL_MS have passed
   since a signal armed the early exit (Elapse). *)
EXTENDS Naturals, FiniteSets

CONSTANTS
    Nodes,        \* rows of the fleet, rented or still to rent
    FleetStates,  \* the fleets to start from: functions from Nodes to states
    Attempts,     \* HEADLESS_ATTEMPTS
    MaxRounds,    \* destroyFleet's rounds
    MaxPresses    \* bound: how often a signal is really sent

ASSUME LifecycleAssumption ==
    /\ IsFiniteSet(Nodes) /\ {Attempts, MaxRounds} \subseteq Nat \ {0}
    /\ MaxPresses \in Nat

VARIABLES
    setup,    \* what runs: a headless run, with its policy, or a person's app
    node,     \* the row and the instance of each node
    halted,   \* stopScheduling has been called
    phase,    \* idle, asking, destroying, exiting
    dialog,   \* the box on screen: none, quit, failure
    stop,     \* the stop under way: whose, passes made and allowed, exit status, await
    settle,   \* settle[n] in this pass: none, turn, create, destroy, done
    signals,  \* the early exit armed by which signal, and whether lately
    sent,     \* signals sent, and second deliveries of them still to come
    told,     \* the answers given to leave nodes billing, while they counted
    doneBefore \* the last campaign check found it done

vars == <<setup, node, halted, phase, dialog, stop, settle, signals, sent, told, doneBefore>>
rest == <<setup, sent, doneBefore>>

(* ---- the fleet, as nodeManager drives it (external to this module) ----
   none       not rented
   requested  its create is out, and wanted
   unwanted   its create is out, and what it rents is to be destroyed
   lost       'failed', its create's outcome never known (an older build's row)
   up         an instance, wanted
   dying      an instance whose destroy was begun and goes on being retried
   stray      an instance no row names yet
   gone       confirmed not billing *)
States == {"none", "requested", "unwanted", "lost", "up", "dying", "stray", "gone"}

ASSUME FleetAssumption == FleetStates \subseteq [Nodes -> States]

Holds(n) == node[n] \in {"requested", "unwanted", "lost", "up", "dying"}
Billing == {n \in Nodes : Holds(n)}
CreateOpen(n) == node[n] \in {"requested", "unwanted"}
Becomes(n, s) == node' = [node EXCEPT ![n] = s]
Alive == phase # "exiting"
FleetOnly == UNCHANGED <<setup, halted, phase, dialog, stop, settle, signals, sent, told, doneBefore>>

(* requestNodes' next rental: tick and the caps must allow it. *)
Rent(n) == Alive /\ ~halted /\ node[n] = "none" /\ Becomes(n, "requested") /\ FleetOnly

(* The create's answer, or the lookup's after a lost reply. *)
CreateSettles(n) ==
    /\ Alive /\ CreateOpen(n)
    /\ \/ node[n] = "requested" /\ Becomes(n, "up")
       \/ node[n] = "unwanted" /\ Becomes(n, "dying")
       \/ Becomes(n, "gone")
    /\ FleetOnly

(* The idle scale-down or the Fleet's button destroys a node; a reconcile
   finds an instance no row names, takes it in and destroys it. *)
DestroyedElsewhere(n) ==
    /\ Alive
    /\ \/ node[n] \in {"up", "stray"} /\ Becomes(n, "dying")
       \/ node[n] = "requested" /\ Becomes(n, "unwanted")
    /\ FleetOnly

(* ensureInstanceGone, or a round of retryDestroys, confirms it. *)
Confirmed(n) == Alive /\ node[n] = "dying" /\ Becomes(n, "gone") /\ FleetOnly

(* ---- leaving ---- *)

NoStop == [who |-> "nobody", passes |-> 0, allowed |-> 0, code |-> 0, at |-> "nowhere", round |-> 0]
Fresh == [n \in Nodes |-> "none"]

(* finish(): in the same synchronous run as the caller's last look. *)
Finish(code) ==
    /\ phase' = "exiting" /\ halted' = TRUE
    /\ stop' = [stop EXCEPT !.code = code, !.at = "exited", !.round = 0]
    /\ settle' = Fresh

BeginPass(s) ==
    /\ phase' = "destroying" /\ halted' = TRUE /\ settle' = Fresh
    /\ stop' = [s EXCEPT !.passes = IF s.who = "person" THEN @ ELSE @ + 1,
                         !.at = "rounds", !.round = 0]

(* stopUnattended, to its first await. *)
StopUnattended(policy, allowed, code) ==
    \/ Billing = {} /\ Finish(code)
    \/ Billing # {} /\ policy = "leave" /\ Finish(3)
    \/ Billing # {} /\ policy = "destroy"
       /\ BeginPass([NoStop EXCEPT !.who = "unattended", !.allowed = allowed, !.code = code])

(* askAndQuit, to its first await. *)
AskAndQuit ==
    \/ Billing = {} /\ Finish(0) /\ UNCHANGED dialog
    \/ /\ Billing # {} /\ phase' = "asking" /\ dialog' = "quit"
       /\ UNCHANGED <<halted, stop, settle>>

Headless == setup.headless
SessionPolicy == IF Headless THEN setup.policy ELSE "destroy"

(* before-quit; in a person's app also a signal, or the last window closing on
   Windows (holdWindowClose). *)
Quit ==
    /\ phase = "idle"
    /\ \/ Headless /\ StopUnattended(setup.policy, Attempts, 0) /\ UNCHANGED dialog
       \/ ~Headless /\ AskAndQuit
    /\ UNCHANGED <<node, signals, told, rest>>

(* Mutant: an answer acted on whoever has taken over meanwhile. *)
AnswerQuitLate ==
    /\ dialog = "quit" /\ Alive
    /\ dialog' = "none"
    /\ \E c \in {"destroy", "leave", "cancel"} :
         /\ told' = IF phase = "asking" /\ c = "leave" THEN told \cup {c} ELSE told
         /\ \/ c = "cancel" /\ phase' = "idle" /\ UNCHANGED <<halted, stop, settle>>
            \/ c = "leave" /\ Finish(0)
            \/ c = "destroy" /\ BeginPass([NoStop EXCEPT !.who = "person"])
    /\ UNCHANGED <<node, signals, rest>>

(* The quit dialog is answered; ignored once a session end has taken over. *)
AnswerQuit ==
    /\ dialog = "quit" /\ Alive
    /\ dialog' = "none"
    /\ \E c \in {"destroy", "leave", "cancel"} :
         /\ told' = IF phase = "asking" /\ c = "leave" THEN told \cup {c} ELSE told
         /\ \/ phase # "asking" /\ UNCHANGED <<phase, halted, stop, settle>>
            \/ /\ phase = "asking" /\ c = "cancel"
               /\ phase' = "idle" /\ UNCHANGED <<halted, stop, settle>>
            \/ phase = "asking" /\ c = "leave" /\ Finish(0)
            \/ phase = "asking" /\ c = "destroy" /\ BeginPass([NoStop EXCEPT !.who = "person"])
    /\ UNCHANGED <<node, signals, rest>>

(* The list of what could not be confirmed: try again, or quit knowing. (The
   console's button brings the box back.) *)
AnswerFailure ==
    /\ dialog = "failure" /\ Alive
    /\ dialog' = "none"
    /\ \E c \in {"retry", "quitAnyway"} :
         /\ told' = told \cup ({c} \ {"retry"})
         /\ IF c = "retry" THEN BeginPass(stop) ELSE Finish(0)
    /\ UNCHANGED <<node, signals, rest>>

(* ---- one pass: destroyFleet, in rounds ---- *)

Settling == {n \in Nodes : settle[n] \in {"turn", "create", "destroy"}}

Round ==
    /\ phase = "destroying" /\ stop.at = "rounds" /\ Settling = {}
    /\ LET untried == {n \in Billing : settle[n] = "none"}
       IN IF stop.round < MaxRounds /\ untried # {}
          THEN /\ settle' = [n \in Nodes |-> IF n \in untried THEN "turn" ELSE settle[n]]
               /\ stop' = [stop EXCEPT !.round = @ + 1]
          ELSE stop' = [stop EXCEPT !.at = "returned"] /\ UNCHANGED settle
    /\ UNCHANGED <<node, halted, phase, dialog, signals, told, rest>>

(* Mutant: a create still out is left to answer as it will. *)
SettlesPatient(n) ==
    \/ ~Holds(n) /\ settle' = [settle EXCEPT ![n] = "done"] /\ UNCHANGED node
    \/ node[n] \in {"requested", "lost", "unwanted"} /\ settle' = [settle EXCEPT ![n] = "done"] /\ UNCHANGED node
    \/ node[n] \in {"up", "dying"} /\ settle' = [settle EXCEPT ![n] = "destroy"] /\ Becomes(n, "dying")

(* settleNode from the end of its wait for a create: a create still out is
   destroyed on the row, so that what it rents goes too; an instance is
   destroyed, joining a destroy under way. *)
Settles(n) ==
    \/ ~Holds(n) /\ settle' = [settle EXCEPT ![n] = "done"] /\ UNCHANGED node
    \/ /\ node[n] \in {"requested", "lost", "unwanted"}
       /\ settle' = [settle EXCEPT ![n] = "done"]
       /\ IF node[n] = "requested" THEN Becomes(n, "unwanted") ELSE UNCHANGED node
    \/ node[n] \in {"up", "dying"} /\ settle' = [settle EXCEPT ![n] = "destroy"] /\ Becomes(n, "dying")

(* A node's turn, DESTROY_STAGGER_MS after the one before it. *)
Turn(n) ==
    /\ phase = "destroying" /\ settle[n] = "turn"
    /\ IF CreateOpen(n) THEN settle' = [settle EXCEPT ![n] = "create"] /\ UNCHANGED node
       ELSE Settles(n)
    /\ UNCHANGED <<halted, phase, dialog, stop, signals, told, rest>>

(* The create answered, or the node's budget is over. *)
CreateWaited(n) ==
    /\ phase = "destroying" /\ settle[n] = "create" /\ Settles(n)
    /\ UNCHANGED <<halted, phase, dialog, stop, signals, told, rest>>

(* The destroy settled, or its budget is over. *)
BudgetEnds(n) ==
    /\ phase = "destroying" /\ settle[n] = "destroy"
    /\ settle' = [settle EXCEPT ![n] = "done"]
    /\ UNCHANGED <<node, halted, phase, dialog, stop, signals, told, rest>>

(* Mutant: the pass's own list, a node taken in meanwhile not on it. *)
LastLookTried ==
    LET still == {n \in Billing : settle[n] # "none"}
    IN /\ phase = "destroying" /\ stop.at = "returned"
       /\ \/ still = {} /\ Finish(stop.code) /\ UNCHANGED dialog
          \/ /\ still # {} /\ stop.who = "unattended" /\ stop.passes >= stop.allowed
             /\ Finish(3) /\ UNCHANGED dialog
          \/ /\ still # {} /\ stop.who = "unattended" /\ stop.passes < stop.allowed
             /\ stop' = [stop EXCEPT !.at = "pause"]
             /\ UNCHANGED <<halted, phase, dialog, settle>>
          \/ /\ still # {} /\ stop.who = "person"
             /\ stop' = [stop EXCEPT !.at = "failure"] /\ dialog' = "failure"
             /\ UNCHANGED <<halted, phase, settle>>
       /\ UNCHANGED <<node, signals, told, rest>>

(* Mutant: an unattended stop that tries until nothing bills. *)
LastLookForever ==
    /\ phase = "destroying" /\ stop.at = "returned"
    /\ \/ Billing = {} /\ Finish(stop.code) /\ UNCHANGED dialog
       \/ /\ Billing # {} /\ stop.who = "unattended"
          /\ stop' = [stop EXCEPT !.at = "pause", !.passes = 0]
          /\ UNCHANGED <<halted, phase, dialog, settle>>
       \/ /\ Billing # {} /\ stop.who = "person"
          /\ stop' = [stop EXCEPT !.at = "failure"] /\ dialog' = "failure"
          /\ UNCHANGED <<halted, phase, settle>>
    /\ UNCHANGED <<node, signals, told, rest>>

(* The last look, in one run with the exit: nothing billing, or passes used
   up, or the person is shown what is left. *)
LastLook ==
    /\ phase = "destroying" /\ stop.at = "returned"
    /\ \/ Billing = {} /\ Finish(stop.code) /\ UNCHANGED dialog
       \/ /\ Billing # {} /\ stop.who = "unattended" /\ stop.passes >= stop.allowed
          /\ Finish(3) /\ UNCHANGED dialog
       \/ /\ Billing # {} /\ stop.who = "unattended" /\ stop.passes < stop.allowed
          /\ stop' = [stop EXCEPT !.at = "pause"]
          /\ UNCHANGED <<halted, phase, dialog, settle>>
       \/ /\ Billing # {} /\ stop.who = "person"
          /\ stop' = [stop EXCEPT !.at = "failure"] /\ dialog' = "failure"
          /\ UNCHANGED <<halted, phase, settle>>
    /\ UNCHANGED <<node, signals, told, rest>>

(* HEADLESS_RETRY_PAUSE_MS later. *)
NextPass ==
    /\ phase = "destroying" /\ stop.at = "pause" /\ BeginPass(stop)
    /\ UNCHANGED <<node, dialog, signals, told, rest>>

(* ---- sessions, signals, campaigns ---- *)

(* Windows asks whether the session may end; it is told no while anything
   bills, and the fleet is destroyed, whatever dialog is up. *)
SessionQuery ==
    /\ phase \in {"idle", "asking"}
    /\ SessionPolicy = "destroy" /\ Billing # {}
    /\ StopUnattended("destroy", Attempts, 0)
    /\ UNCHANGED <<node, dialog, signals, told, rest>>

(* The session ends now (never asked about, or it goes ahead anyway), or the
   console a person's app was started in closes: one pass. *)
SessionEnds ==
    /\ phase \in {"idle", "asking"}
    /\ StopUnattended(SessionPolicy, 1, 0)
    /\ UNCHANGED <<node, dialog, signals, told, rest>>

Armed(s) == signals' = [by |-> {s}, lately |-> TRUE]

(* onSignal in a headless run: the first starts the stop; only the same one
   again, SECOND_SIGNAL_MS or more after it, ends it early. *)
Heard(s) ==
    \/ /\ phase = "idle" /\ StopUnattended(setup.policy, Attempts, 0)
       /\ IF phase' = "destroying" THEN Armed(s) ELSE UNCHANGED signals
    \/ /\ phase = "destroying" /\ s \notin signals.by
       /\ Armed(s) /\ UNCHANGED <<halted, phase, stop, settle>>
    \/ /\ phase = "destroying" /\ s \in signals.by /\ signals.lately
       /\ UNCHANGED <<halted, phase, stop, settle, signals>>
    \/ /\ phase = "destroying" /\ s \in signals.by /\ ~signals.lately
       /\ Finish(IF Billing = {} THEN 0 ELSE 3) /\ UNCHANGED signals

(* A headless run is sent a signal, delivered once or (a Ctrl+C forwarded by a
   parent) twice at once. *)
Signal(s) ==
    /\ Headless /\ Alive /\ sent[s].times < MaxPresses
    /\ \E twice \in BOOLEAN : sent' = [sent EXCEPT ![s] = [times |-> @.times + 1, again |-> twice]]
    /\ Heard(s)
    /\ UNCHANGED <<setup, node, dialog, told, doneBefore>>

SecondDelivery(s) ==
    /\ Alive /\ sent[s].again
    /\ sent' = [sent EXCEPT ![s].again = FALSE]
    /\ Heard(s)
    /\ UNCHANGED <<setup, node, dialog, told, doneBefore>>

(* The terminal goes away (SIGHUP): it starts a stop, arms nothing, and during
   one does nothing. *)
Hangup ==
    /\ Headless /\ phase = "idle" /\ StopUnattended(setup.policy, Attempts, 0)
    /\ UNCHANGED <<node, dialog, signals, told, rest>>

Elapse ==
    /\ Alive /\ signals.lately /\ \A s \in DOMAIN sent : ~sent[s].again
    /\ signals' = [signals EXCEPT !.lately = FALSE]
    /\ UNCHANGED <<node, halted, phase, dialog, stop, settle, told, rest>>

(* watchCampaign's check: done twice in a row ends the run. *)
CampaignCheck ==
    /\ Headless /\ setup.policy = "destroy" /\ phase = "idle"
    /\ \E done \in BOOLEAN, code \in {0, 1} :
         /\ doneBefore' = done
         /\ IF done /\ doneBefore THEN StopUnattended("destroy", Attempts, code)
            ELSE UNCHANGED <<halted, phase, stop, settle>>
    /\ UNCHANGED <<setup, node, dialog, signals, sent, told>>

(* endCampaign: nothing of it could be submitted. *)
CampaignRefused ==
    /\ Headless /\ phase = "idle" /\ StopUnattended(setup.policy, Attempts, 1)
    /\ UNCHANGED <<node, dialog, signals, told, rest>>

(* ---- the specification ---- *)

Init ==
    /\ setup \in [headless : BOOLEAN, policy : {"destroy", "leave"}]
    /\ setup.headless \/ setup.policy = "destroy"
    /\ node \in FleetStates
    /\ halted = FALSE /\ phase = "idle" /\ dialog = "none"
    /\ stop = NoStop /\ settle = Fresh
    /\ signals = [by |-> {}, lately |-> FALSE]
    /\ sent = [s \in {"SIGINT", "SIGTERM"} |-> [times |-> 0, again |-> FALSE]]
    /\ told = {} /\ doneBefore = FALSE

Pass == Round \/ LastLook \/ NextPass \/ \E n \in Nodes : Turn(n) \/ CreateWaited(n) \/ BudgetEnds(n)

Next ==
    \/ \E n \in Nodes : Rent(n) \/ CreateSettles(n) \/ DestroyedElsewhere(n) \/ Confirmed(n)
    \/ Quit \/ AnswerQuit \/ AnswerFailure \/ Pass
    \/ SessionQuery \/ SessionEnds \/ CampaignCheck \/ CampaignRefused \/ Hangup
    \/ \E s \in DOMAIN sent : Signal(s) \/ SecondDelivery(s)
    \/ Elapse

Spec == Init /\ [][Next]_vars

(* ---- what a quit promises ---- *)

(* Every variable stays within its type. *)
TypeOK ==
    /\ node \in [Nodes -> States] /\ halted \in BOOLEAN
    /\ phase \in {"idle", "asking", "destroying", "exiting"}
    /\ dialog \in {"none", "quit", "failure"}
    /\ stop.passes \in Nat /\ stop.round \in 0..MaxRounds /\ stop.code \in {0, 1, 3}
    /\ settle \in [Nodes -> {"none", "turn", "create", "destroy", "done"}]

(* A headless run's exit status, and that of any stop nobody was asked about,
   says 3 exactly if something it knows of may be left billing. *)
ExitCodeIsTrue ==
    phase = "exiting" /\ (Headless \/ stop.who = "unattended") =>
        (stop.code = 3 <=> Billing # {})

(* The app leaves something billing only if it was told to: by the policy, by
   an answer given while it was still the user's to give, or by the same signal
   sent twice; or after every pass allowed it over the fleet. One signal
   delivered twice, a hangup, an escalation or a dialog answered after the
   session's end took over never cut the destroy short. *)
NothingLeftUnasked ==
    phase = "exiting" /\ Billing # {} =>
        \/ Headless /\ setup.policy = "leave"
        \/ told # {}
        \/ \E s \in DOMAIN sent : sent[s].times >= 2
        \/ stop.who = "unattended" /\ stop.passes >= stop.allowed

(* Once a pass is over nothing in the fleet is still wanted: whatever a create
   still out rents, whatever is taken in meanwhile, is on its way to being
   destroyed, and nothing is driven to ready behind the list of failures. *)
NoneComesUpBehind ==
    stop.at \in {"returned", "pause", "failure"} =>
        \A n \in Nodes : node[n] \notin {"requested", "up"}

(* A stop nobody was asked about ends, whatever Vast told and however the
   fleet changes under it. *)
UnattendedEnds == stop.who = "unattended" ~> phase = "exiting"

(* Timers fire: turns, budgets, pauses. Nothing is assumed of Vast. *)
Fairness ==
    /\ WF_vars(Round) /\ WF_vars(LastLook) /\ WF_vars(NextPass)
    /\ \A n \in Nodes : WF_vars(Turn(n)) /\ WF_vars(CreateWaited(n)) /\ WF_vars(BudgetEnds(n))

LiveSpec == Spec /\ Fairness
====
