----------------------------- MODULE NodeRental -----------------------------
(***************************************************************************)
(* Renting, driving, losing and destroying the nodes of one profile:       *)
(* nodes/nodeManager.ts, with shared/nodeState.ts and the reprovision of   *)
(* app/recovery.ts.                                                        *)
(*                                                                         *)
(* A row is written before its create is sent and the create is sent once, *)
(* so a row has at most one instance and Node names both.  An action is a  *)
(* handler, or the part of one between two awaits.  Of the agent, the SSH  *)
(* link and Vast's answers only what the code does next is kept: at each   *)
(* await any of the outcomes it tells apart may come.  The chunks a node   *)
(* gives back are ChunkLedger's.                                           *)
(***************************************************************************)
EXTENDS Naturals, FiniteSets

CONSTANTS
    Node,              \* the rows the profile may ever write
    MaxActiveNodes,    \* settings.maxActiveNodes
    MaxRestarts,       \* bound on the times the app is ended and started again
    LateCreates,       \* whether Vast may carry a create out after the app has ruled it out
    None

ASSUME RentalConstants ==
    /\ IsFiniteSet(Node)
    /\ MaxActiveNodes \in Nat
    /\ MaxRestarts \in Nat
    /\ LateCreates \in BOOLEAN
    /\ None \notin Node

VARIABLES
    row,           \* the nodes table
    vast,          \* what Vast did of the row's create, and of its instance
    creating,      \* nodes whose PUT /asks is in flight
    look,          \* findLostCreate, per node
    step,          \* the lifecycle step holding the node: driveToReady, resumeNode, ...
    check,         \* the destroy of the node's instance under way (goneChecks)
    retrying,      \* the node retryDestroys is waiting on
    pass,          \* reconcileOrphans
    unknownAtBoot, \* rows the last run left with a create of unknown outcome
    goneAt,        \* instances confirmed gone in this session
    ssh,           \* nodes with a connection (ManagedNode.ssh)
    provisioned,   \* nodes onReady has run to the end on in this session
    restarts

memory == <<creating, look, step, check, retrying, pass, unknownAtBoot, goneAt, ssh, provisioned>>
vars == <<row, vast, memory, restarts>>

Destroying == {"destroying", "destroyed"}             \* ManagedNode.gone
DestroyStates == Destroying \cup {"failed"}           \* DESTROY_STATES
Supervised == {"ready", "idle", "rendering"}          \* SUPERVISED; nothing sets 'encoding'
NodeStates == {"absent", "requested", "provisioning", "unreachable"} \cup Supervised \cup DestroyStates

Row == [state : NodeStates,
        inst : BOOLEAN,        \* instance_id is set
        unknown : BOOLEAN,     \* create_unknown_since is set
        gone : {"no", "recent", "yes"}]  \* destroyed_at: null, within RECONCILE_MIN_AGE_MS, older

Absent == [state |-> "absent", inst |-> FALSE, unknown |-> FALSE, gone |-> "no"]

NoStep == [pc |-> "none", held |-> "absent"]
NoLook == [pc |-> "none", over |-> FALSE, late |-> FALSE]
NoPass == [pc |-> "none", heldBefore |-> {}, young |-> {}, todo |-> {}, found |-> {}, at |-> None]

StepPc == {"none", "polling", "booting", "asking", "resuming",
           "recovering", "restoring", "reprovisioning"}

TypeOK ==
    /\ row \in [Node -> Row]
    /\ vast \in [Node -> {"none", "asked", "refused", "young", "up", "gone"}]
    /\ look \in [Node -> [pc : {"none", "asleep", "out", "hit", "miss"},
                          over : BOOLEAN, late : BOOLEAN]]
    /\ step \in [Node -> [pc : StepPc, held : NodeStates]]
    /\ check \in [Node -> {"none", "deleting", "confirming"}]
    /\ retrying \in Node \cup {None}
    /\ pass \in [pc : {"none", "asking", "listed", "waiting"}, heldBefore : SUBSET Node,
                 young : SUBSET Node, todo : SUBSET Node, found : SUBSET Node,
                 at : Node \cup {None}]
    /\ creating \subseteq Node
    /\ unknownAtBoot \subseteq Node
    /\ goneAt \subseteq Node
    /\ ssh \subseteq Node
    /\ provisioned \subseteq Node
    /\ restarts \in 0 .. MaxRestarts

----------------------------------------------------------------------------
(* shared/nodeState.ts *)

createOutcomeUnknown(r) == ~r.inst /\ (r.unknown \/ r.state = "requested")

holdsInstance(r) == IF r.inst THEN r.gone = "no" ELSE createOutcomeUnknown(r)

Counted == {n \in Node : holdsInstance(row[n])}
Billing == {n \in Node : vast[n] \in {"young", "up"}}

Undecided == {n \in Node : vast[n] = "asked"}

IsGone(n) == row[n].state \in Destroying
\* Mutant: gone, which a destroy Vast never confirmed is not.
MovedOnIfGone(n) == IsGone(n)

MovedOn(n) == row[n].state # step[n].held

Recovering == {n \in Node : step[n].pc \in {"recovering", "restoring"}}
LookingUp == {n \in Node : look[n].pc # "none"}

\* heldInstances: an id is held a while after its destroy was confirmed, since
\* Vast may list it for a moment more.
HeldInstances == {n \in Node : row[n].inst /\ row[n].gone # "yes"}

Init ==
    /\ row = [n \in Node |-> Absent]
    /\ vast = [n \in Node |-> "none"]
    /\ creating = {} /\ unknownAtBoot = {} /\ goneAt = {} /\ ssh = {} /\ provisioned = {}
    /\ look = [n \in Node |-> NoLook]
    /\ step = [n \in Node |-> NoStep]
    /\ check = [n \in Node |-> "none"]
    /\ retrying = None
    /\ pass = NoPass
    /\ restarts = 0

----------------------------------------------------------------------------
(* Vast.ai *)

CarriesOut(n) ==
    /\ vast[n] = "asked"
    /\ vast' = [vast EXCEPT ![n] = "young"]
    /\ UNCHANGED <<row, memory, restarts>>

Refuses(n) ==
    /\ vast[n] = "asked"
    /\ vast' = [vast EXCEPT ![n] = "refused"]
    /\ UNCHANGED <<row, memory, restarts>>

\* The instance is RECONCILE_MIN_AGE_MS old.
Ages(n) ==
    /\ vast[n] = "young"
    /\ vast' = [vast EXCEPT ![n] = "up"]
    /\ UNCHANGED <<row, memory, restarts>>

\* The host takes the instance away, or carries out a DELETE it gave no answer to.
Vanishes(n) ==
    /\ n \in Billing
    /\ vast' = [vast EXCEPT ![n] = "gone"]
    /\ UNCHANGED <<row, memory, restarts>>

----------------------------------------------------------------------------
(* Renting *)

CapAllows == Cardinality(Counted) < MaxActiveNodes

\* rentBatch's last look at the caps, and rentOffer up to its await.
Rent(n) ==
    /\ row[n] = Absent
    /\ CapAllows
    /\ row' = [row EXCEPT ![n] = [Absent EXCEPT !.state = "requested", !.unknown = TRUE]]
    /\ vast' = [vast EXCEPT ![n] = "asked"]
    /\ creating' = creating \cup {n}
    /\ UNCHANGED <<look, step, check, retrying, pass, unknownAtBoot, goneAt, ssh, provisioned, restarts>>

\* ensureInstanceGone: one destroy per instance, a second caller waits on it.
\* The node's connection is closed before the DELETE goes out.
EnsureInstanceGone(n) ==
    /\ check' = [check EXCEPT ![n] = IF @ = "none" THEN "deleting" ELSE @]
    /\ ssh' = ssh \ {n}

Takes(n, held, pc) == step' = [step EXCEPT ![n] = [pc |-> pc, held |-> held]]
LetsGo(n) == step' = [step EXCEPT ![n] = NoStep]
SetState(n, s) == row' = [row EXCEPT ![n].state = s]

\* The create's reply names the instance.
CreateAnswered(n) ==
    /\ n \in creating
    /\ vast[n] \in {"young", "up", "gone"}
    /\ creating' = creating \ {n}
    /\ row' = [row EXCEPT ![n].inst = TRUE, ![n].unknown = FALSE]
    /\ \/ /\ IsGone(n)
          /\ EnsureInstanceGone(n)
          /\ UNCHANGED step
       \/ /\ ~IsGone(n)
          /\ Takes(n, row[n].state, "polling")
          /\ UNCHANGED <<check, ssh>>
    /\ UNCHANGED <<vast, look, retrying, pass, unknownAtBoot, goneAt, provisioned, restarts>>

\* createFailed, Vast having said no.
CreateRefused(n) ==
    /\ n \in creating
    /\ vast[n] = "refused"
    /\ creating' = creating \ {n}
    /\ row' = [row EXCEPT ![n].unknown = FALSE,
                          ![n].state = IF IsGone(n) THEN @ ELSE "failed"]
    /\ UNCHANGED <<vast, look, step, check, retrying, pass, unknownAtBoot, goneAt, ssh, provisioned, restarts>>

\* createUnanswered: no reply says what happened, so the instance is looked for.
CreateUnanswered(n) ==
    /\ n \in creating
    /\ creating' = creating \ {n}
    /\ SetState(n, IF IsGone(n) THEN "destroying" ELSE row[n].state)
    /\ look' = [look EXCEPT ![n] = [NoLook EXCEPT !.pc = "out"]]
    /\ UNCHANGED <<vast, step, check, retrying, pass, unknownAtBoot, goneAt, ssh, provisioned, restarts>>

----------------------------------------------------------------------------
(* findLostCreate *)

\* CREATE_LOOKUP_MS since the lookup began.  The code takes it that Vast has
\* decided a create by then; LateCreates lifts that.
WindowEnds(n) ==
    /\ look[n].pc # "none"
    /\ ~look[n].over
    /\ LateCreates \/ vast[n] # "asked"
    /\ look' = [look EXCEPT ![n].over = TRUE]
    /\ UNCHANGED <<row, vast, creating, step, check, retrying, pass, unknownAtBoot, goneAt, ssh, provisioned, restarts>>

LookupAsks(n) ==
    /\ look[n].pc = "asleep"
    /\ look' = [look EXCEPT ![n].pc = "out", ![n].late = look[n].over]
    /\ UNCHANGED <<row, vast, creating, step, check, retrying, pass, unknownAtBoot, goneAt, ssh, provisioned, restarts>>

\* Vast makes its list; the app has it in LookupFinds or LookupMisses.
LookupListed(n) ==
    /\ look[n].pc = "out"
    /\ look' = [look EXCEPT ![n].pc = IF n \in Billing THEN "hit" ELSE "miss"]
    /\ UNCHANGED <<row, vast, creating, step, check, retrying, pass, unknownAtBoot, goneAt, ssh, provisioned, restarts>>

LookupUnanswered(n) ==
    /\ look[n].pc = "out"
    /\ look' = [look EXCEPT ![n].pc = "asleep"]
    /\ UNCHANGED <<row, vast, creating, step, check, retrying, pass, unknownAtBoot, goneAt, ssh, provisioned, restarts>>

\* claim: the row takes the instance its label names.
Claimed(r) == [r EXCEPT !.inst = TRUE, !.unknown = FALSE, !.gone = "no"]

\* adoptLostCreate
LookupFinds(n) ==
    /\ look[n].pc = "hit"
    /\ look' = [look EXCEPT ![n] = NoLook]
    /\ row' = [row EXCEPT ![n] = Claimed(@)]
    /\ \/ /\ row[n].state = "requested"
          /\ Takes(n, "requested", "polling")
          /\ UNCHANGED <<check, ssh>>
       \/ /\ row[n].state # "requested"
          /\ EnsureInstanceGone(n)
          /\ UNCHANGED step
    /\ UNCHANGED <<vast, creating, retrying, pass, unknownAtBoot, goneAt, provisioned, restarts>>

\* Mutant: by the time the answer came.
SettlesWhenOver(l) == l.over

\* Whether an answer without the label settles the create: only one asked for
\* after the window.
Settles(l) == l.late

\* Not listed: noLostCreate when that settles it, otherwise asked again.
LookupMisses(n) ==
    /\ look[n].pc = "miss"
    /\ \/ /\ Settles(look[n])
          /\ look' = [look EXCEPT ![n] = NoLook]
          /\ row' = [row EXCEPT ![n].unknown = FALSE,
                                ![n].state = IF @ = "requested" THEN "failed" ELSE "destroyed"]
       \/ /\ ~Settles(look[n])
          /\ look' = [look EXCEPT ![n].pc = "asleep"]
          /\ UNCHANGED row
    /\ UNCHANGED <<vast, creating, step, check, retrying, pass, unknownAtBoot, goneAt, ssh, provisioned, restarts>>

----------------------------------------------------------------------------
(* destroyUntilGone, and what starts it *)

\* The check is over, and whoever waited on it goes on.
CheckEnds(n) ==
    /\ check' = [check EXCEPT ![n] = "none"]
    /\ retrying' = IF retrying = n THEN None ELSE retrying
    /\ pass' = IF pass.at = n THEN [pass EXCEPT !.pc = "listed", !.at = None] ELSE pass

\* Vast accepts the DELETE, which may leave the instance running all the same.
DeleteAccepted(n) ==
    /\ check[n] = "deleting"
    /\ n \in Billing
    /\ \E v \in {"gone", vast[n]} : vast' = [vast EXCEPT ![n] = v]
    /\ check' = [check EXCEPT ![n] = "confirming"]
    /\ UNCHANGED <<row, creating, look, step, retrying, pass, unknownAtBoot, goneAt, ssh, provisioned, restarts>>

\* Mutant: an accepted DELETE is taken at its word.
ConfirmedOnTrust(n) == check[n] = "confirming" \/ (check[n] # "none" /\ n \notin Billing)

\* A DELETE answered 404, or showInstance no longer finding the instance.
Confirmed(n) == check[n] # "none" /\ n \notin Billing

\* holders: the row, while its instance is not confirmed gone.
HoldsIt(n) == row[n].inst /\ row[n].gone = "no"

InstanceGone(n) ==
    /\ Confirmed(n)
    /\ row' = IF HoldsIt(n)
              THEN [row EXCEPT ![n].state = "destroyed", ![n].gone = "recent"]
              ELSE row
    /\ goneAt' = goneAt \cup {n}
    /\ CheckEnds(n)
    /\ UNCHANGED <<vast, creating, look, step, unknownAtBoot, ssh, provisioned, restarts>>

\* An error, or the instance still listed, with budget left: DELETE again.
CheckRetries(n) ==
    /\ check[n] = "confirming"
    /\ check' = [check EXCEPT ![n] = "deleting"]
    /\ UNCHANGED <<row, vast, creating, look, step, retrying, pass, unknownAtBoot, goneAt, ssh, provisioned, restarts>>

\* destroyUnconfirmed: refused, or the budget is spent.
CheckGivesUp(n) ==
    /\ check[n] # "none"
    /\ row' = IF HoldsIt(n) THEN [row EXCEPT ![n].state = "failed"] ELSE row
    /\ CheckEnds(n)
    /\ UNCHANGED <<vast, creating, look, step, unknownAtBoot, goneAt, ssh, provisioned, restarts>>

\* destroyed_at falls out of RECONCILE_MIN_AGE_MS.
StampAges(n) ==
    /\ row[n].gone = "recent"
    /\ row' = [row EXCEPT ![n].gone = "yes"]
    /\ UNCHANGED <<vast, memory, restarts>>

Retriable(n) == row[n].inst /\ holdsInstance(row[n]) /\ row[n].state \in DestroyStates

\* retryDestroys comes to the node: its timer's rounds visit one at a time.
RetryDestroys(n) ==
    /\ retrying = None
    /\ Retriable(n)
    /\ retrying' = n
    /\ EnsureInstanceGone(n)
    /\ UNCHANGED <<row, vast, creating, look, step, pass, unknownAtBoot, goneAt, provisioned, restarts>>

\* destroyNode: the user's button, the scheduler's scale-down, or a quit.
DestroyNode(n) ==
    LET r == row[n] IN
    /\ r.state # "absent"
    /\ ~(r.state = "destroyed" /\ ~holdsInstance(r))
    /\ \/ /\ r.inst
          /\ SetState(n, "destroying")
          /\ EnsureInstanceGone(n)
       \/ /\ ~r.inst /\ n \in LookingUp
          /\ SetState(n, "destroying")
          /\ UNCHANGED <<check, ssh>>
       \/ /\ ~r.inst /\ n \notin LookingUp
          /\ ~createOutcomeUnknown(r) \/ n \in creating
          /\ SetState(n, "destroyed")
          /\ ssh' = ssh \ {n}
          /\ UNCHANGED check
    /\ UNCHANGED <<vast, creating, look, step, retrying, pass, unknownAtBoot, goneAt, provisioned, restarts>>

\* clearFailed: every failed node at once.
ClearFailed ==
    LET failed == {n \in Node : row[n].state = "failed"}
        billed == {n \in failed : row[n].inst /\ holdsInstance(row[n])}
        settled == {n \in failed \ billed : ~createOutcomeUnknown(row[n])}
    IN
    /\ failed # {}
    /\ row' = [n \in Node |-> IF n \in settled THEN [row[n] EXCEPT !.state = "destroyed"] ELSE row[n]]
    /\ check' = [n \in Node |-> IF n \in billed /\ check[n] = "none" THEN "deleting" ELSE check[n]]
    /\ ssh' = ssh \ (billed \cup settled)
    /\ UNCHANGED <<vast, creating, look, step, retrying, pass, unknownAtBoot, goneAt, provisioned, restarts>>

----------------------------------------------------------------------------
(* The steps that hold a node.  Each goes on, after an await, only while   *)
(* the node is in the state it holds it in (movedOn).                      *)

stepOnly == <<vast, creating, look, retrying, pass, unknownAtBoot, goneAt, restarts>>

\* A step comes back and finds the node moved on: it stops, and writes nothing.
StepAbandons(n) ==
    /\ step[n].pc # "none"
    /\ MovedOn(n)
    /\ LetsGo(n)
    /\ UNCHANGED <<row, check, ssh, provisioned, stepOnly>>

At(n, pcs) == step[n].pc \in pcs /\ ~MovedOn(n)

\* The step ends by destroying the node, which it first leaves in state s.
StepDestroys(n, s) ==
    /\ SetState(n, s)
    /\ EnsureInstanceGone(n)
    /\ LetsGo(n)
    /\ UNCHANGED <<provisioned, stepOnly>>

\* onReady ran to the end, or the agent was found or brought back: work may come.
StepFinishes(n, s) ==
    /\ SetState(n, s)
    /\ provisioned' = provisioned \cup {n}
    /\ LetsGo(n)
    /\ UNCHANGED <<check, ssh, stepOnly>>

\* The step goes on holding the node in state s; connected when c.
StepHolds(n, s, pc, c) ==
    /\ SetState(n, s)
    /\ Takes(n, s, pc)
    /\ ssh' = IF c THEN ssh \cup {n} ELSE ssh
    /\ UNCHANGED <<check, provisioned, stepOnly>>

\* driveToReady: the instance runs and SSH answers; onReady; or neither.
BootConnects(n) == At(n, {"polling"}) /\ n \in Billing /\ StepHolds(n, "provisioning", "booting", TRUE)
BootEnds(n)     == At(n, {"booting"}) /\ StepFinishes(n, "ready")
BootFails(n)    == At(n, {"polling", "booting"}) /\ StepDestroys(n, "failed")

\* resumeNode: Vast is asked until it answers; the instance is gone or stopped,
\* still booting, or running.
ResumeWaits(n) ==
    /\ At(n, {"asking"})
    /\ row[n].state # "unreachable"
    /\ StepHolds(n, "unreachable", "asking", FALSE)
ResumeFindsNone(n) == At(n, {"asking"}) /\ StepDestroys(n, "destroying")
ResumeBoots(n)     == At(n, {"asking"}) /\ n \in Billing /\ StepHolds(n, "requested", "polling", FALSE)
ResumeConnects(n)  == At(n, {"asking"}) /\ n \in Billing /\ StepHolds(n, "provisioning", "resuming", TRUE)
ResumeEnds(n)      == At(n, {"resuming"}) /\ StepFinishes(n, "ready")
ResumeGivesUp(n)   == At(n, {"resuming"}) /\ StepDestroys(n, "failed")
ResumeLosesIt(n)   == At(n, {"resuming"}) /\ StepHolds(n, "unreachable", "recovering", TRUE)

\* The liveness supervisor (probeFailed, heartbeatSeen) takes up a connected
\* node in a state no step holds.
Watched(n) == n \in ssh /\ row[n].state \in Supervised
NodeSilent(n)   == Watched(n) /\ n \notin Recovering /\ StepHolds(n, "unreachable", "recovering", TRUE)
AgentStale(n)   == Watched(n) /\ n \notin Recovering /\ StepHolds(n, "provisioning", "restoring", TRUE)

\* recover and restoreAgent: back in service, let go of (lost), given up on, or
\* the link gone under the agent check.
BackInService(n) ==
    /\ At(n, {"recovering", "restoring"})
    /\ \E s \in {"rendering", "ready"} : StepFinishes(n, s)
RecoverLets(n)    == At(n, {"recovering"}) /\ StepDestroys(n, "destroying")
RecoverGivesUp(n) == At(n, {"recovering", "restoring"}) /\ StepDestroys(n, "failed")
RestoreLosesIt(n) == At(n, {"restoring"}) /\ StepHolds(n, "unreachable", "recovering", TRUE)

\* reprovisionNode, on the user's word.
Reprovision(n)      == Watched(n) /\ StepHolds(n, "provisioning", "reprovisioning", TRUE)
ReprovisionEnds(n)  == At(n, {"reprovisioning"}) /\ StepFinishes(n, "ready")
ReprovisionFails(n) == At(n, {"reprovisioning"}) /\ StepDestroys(n, "destroying")

\* The scheduler sends a chunk to the node, and has none there any more.
Dispatchable(n) == n \in ssh /\ row[n].state \in Supervised /\ holdsInstance(row[n])
Dispatch(n) ==
    /\ Dispatchable(n)
    /\ row[n].state # "rendering"
    /\ SetState(n, "rendering")
    /\ UNCHANGED <<vast, memory, restarts>>
Idles(n) ==      \* only a run of this session ends, and only a connected node has had one
    /\ row[n].state = "rendering"
    /\ n \in ssh
    /\ SetState(n, "idle")
    /\ UNCHANGED <<vast, memory, restarts>>

----------------------------------------------------------------------------
(* reconcileOrphans *)

\* The list is asked for.  At a start every create of the last run is taken to
\* have been answered; LateCreates lifts that.
PassAsks ==
    /\ pass.pc = "none"
    /\ LateCreates \/ \A n \in unknownAtBoot : vast[n] # "asked"
    /\ pass' = [NoPass EXCEPT !.pc = "asking", !.heldBefore = HeldInstances]
    /\ goneAt' = {n \in goneAt : row[n].gone # "yes"}
    /\ UNCHANGED <<row, vast, creating, look, step, check, retrying, unknownAtBoot, ssh, provisioned, restarts>>

PassListed ==
    /\ pass.pc = "asking"
    /\ pass' = [pass EXCEPT !.pc = "listed", !.todo = Billing, !.young = {n \in Node : vast[n] = "young"}]
    /\ UNCHANGED <<row, vast, creating, look, step, check, retrying, unknownAtBoot, goneAt, ssh, provisioned, restarts>>

PassUnanswered ==
    /\ pass.pc = "asking"
    /\ pass' = NoPass
    /\ UNCHANGED <<row, vast, creating, look, step, check, retrying, unknownAtBoot, goneAt, ssh, provisioned, restarts>>

\* A listed instance that is some row's, or whose destroy is known of.
Spared(n) == n \in pass.heldBefore \cup HeldInstances \cup goneAt \/ check[n] # "none"

\* Its own create may still answer with it.
MayStillAnswer(n) ==
    \/ n \in creating \cup LookingUp
    \/ row[n].state = "requested" /\ ~row[n].inst /\ n \notin unknownAtBoot

\* Mutant: only of rows the last run left.
OrphanOfLastRun(n) == ~Spared(n) /\ ~MayStillAnswer(n) /\ n \notin pass.young /\ n \in unknownAtBoot

Orphan(n) == ~Spared(n) /\ ~MayStillAnswer(n) /\ n \notin pass.young

\* The next orphan of the list, those before it left alone: its row claims it
\* and the pass waits for its destroy.
PassClaims(n) ==
    /\ pass.pc = "listed"
    /\ n \in pass.todo
    /\ Orphan(n)
    /\ \E left \in SUBSET {m \in pass.todo : ~Orphan(m)} :
         pass' = [pass EXCEPT !.pc = "waiting", !.at = n,
                              !.todo = @ \ (left \cup {n}),
                              !.found = @ \cup {n} \cup {m \in left : ~Spared(m)}]
    /\ row' = [row EXCEPT ![n] = [Claimed(row[n]) EXCEPT
                                    !.state = IF row[n].state \in DestroyStates THEN @ ELSE "destroying"]]
    /\ unknownAtBoot' = unknownAtBoot \ {n}
    /\ EnsureInstanceGone(n)
    /\ UNCHANGED <<vast, creating, look, step, retrying, goneAt, provisioned, restarts>>

\* settleUnknownCreates: the rows of unknownAtBoot no listed instance names.
Settled(r) ==
    IF ~createOutcomeUnknown(r) THEN r
    ELSE [r EXCEPT !.unknown = FALSE,
                   !.state = CASE @ = "requested" -> "failed"
                               [] @ = "destroying" -> "destroyed"
                               [] OTHER -> @]

PassEnds ==
    LET found == pass.found \cup {m \in pass.todo : ~Spared(m)} IN
    /\ pass.pc = "listed"
    /\ \A n \in pass.todo : ~Orphan(n)
    /\ row' = [n \in Node |-> IF n \in unknownAtBoot \ found THEN Settled(row[n]) ELSE row[n]]
    /\ unknownAtBoot' = unknownAtBoot \cap found
    /\ pass' = NoPass
    /\ UNCHANGED <<vast, creating, look, step, check, retrying, goneAt, ssh, provisioned, restarts>>

----------------------------------------------------------------------------
(* The app ends at any moment, by a crash or a quit, and is started again:  *)
(* init, from the rows alone.                                               *)

\* Mutant: only the nodes that were in the fleet.
ResumedIfUp(r) == r.inst /\ holdsInstance(r) /\ r.state \in Supervised

Resumed(r) == r.inst /\ holdsInstance(r) /\ r.state \notin DestroyStates

\* Mutant: a create cancelled in flight is forgotten.
LeftUnknownIfRequested == {n \in Node : row[n].state = "requested" /\ ~row[n].inst}

LeftUnknown == {n \in Node : createOutcomeUnknown(row[n])}

Restart ==
    /\ restarts < MaxRestarts
    /\ restarts' = restarts + 1
    /\ creating' = {} /\ goneAt' = {} /\ ssh' = {} /\ provisioned' = {}
    /\ unknownAtBoot' = LeftUnknown
    /\ look' = [n \in Node |-> NoLook]
    /\ check' = [n \in Node |-> "none"]
    /\ retrying' = None
    /\ pass' = NoPass
    /\ step' = [n \in Node |-> IF Resumed(row[n]) THEN [pc |-> "asking", held |-> row[n].state] ELSE NoStep]
    /\ UNCHANGED <<row, vast>>

----------------------------------------------------------------------------

VastActs(n) == CarriesOut(n) \/ Refuses(n) \/ Ages(n) \/ Vanishes(n)

Renting(n) ==
    \/ Rent(n) \/ CreateAnswered(n) \/ CreateRefused(n) \/ CreateUnanswered(n)
    \/ WindowEnds(n) \/ LookupAsks(n) \/ LookupListed(n) \/ LookupUnanswered(n)
    \/ LookupFinds(n) \/ LookupMisses(n)

Destroys(n) ==
    \/ DeleteAccepted(n) \/ InstanceGone(n) \/ CheckRetries(n) \/ CheckGivesUp(n)
    \/ StampAges(n) \/ RetryDestroys(n) \/ DestroyNode(n)

Steps(n) ==
    \/ StepAbandons(n)
    \/ BootConnects(n) \/ BootEnds(n) \/ BootFails(n)
    \/ ResumeWaits(n) \/ ResumeFindsNone(n) \/ ResumeBoots(n) \/ ResumeConnects(n)
    \/ ResumeEnds(n) \/ ResumeGivesUp(n) \/ ResumeLosesIt(n)
    \/ NodeSilent(n) \/ AgentStale(n) \/ BackInService(n) \/ RecoverLets(n)
    \/ RecoverGivesUp(n) \/ RestoreLosesIt(n)
    \/ Reprovision(n) \/ ReprovisionEnds(n) \/ ReprovisionFails(n)
    \/ Dispatch(n) \/ Idles(n)

Next ==
    \/ \E n \in Node : VastActs(n) \/ Renting(n) \/ Destroys(n) \/ Steps(n) \/ PassClaims(n)
    \/ ClearFailed
    \/ PassAsks \/ PassListed \/ PassUnanswered \/ PassEnds
    \/ Restart

Spec == Init /\ [][Next]_vars

----------------------------------------------------------------------------
(* Safety *)

\* No instance bills, and no create may still make one, without its row being
\* counted against the caps and on the meter: through lost replies, cancelled
\* creates, destroys Vast took and did not do, and restarts.  It rests on Vast
\* deciding a create before the app stops looking (LateCreates = FALSE).
BillingIsCounted == \A n \in Node : n \in Billing \cup Undecided => n \in Counted

\* The profile never pays for more instances at a time than maxActiveNodes.
BillingWithinCap == Cardinality(Billing) <= MaxActiveNodes

\* A counted node always has somebody at work on it.  A create of unknown outcome
\* is in flight, looked for, or known to the reconcile; a node the app wants is in
\* the fleet with a connection, or held by a live step in the state that step knows;
\* otherwise it would bill for good, given no work and never let go.
NobodyLeftBehind ==
    \A n \in Counted :
        \/ createOutcomeUnknown(row[n]) /\ n \in creating \cup LookingUp \cup unknownAtBoot
        \/ Retriable(n)
        \/ Watched(n) /\ step[n] = NoStep
        \/ step[n].pc # "none" /\ ~MovedOn(n)

\* Work is sent only to a node set up in this session: never to one resumed in the
\* state its last session left it in, whose base setup is still to clear its inbox.
SetUpBeforeWork == \A n \in Node : Dispatchable(n) => n \in provisioned

\* Two lifecycle steps never hold one node: while one is in an await the only step
\* that takes its place is the one it hands the node to, however the supervisor,
\* the user and a resume interleave.
HandsOn ==
    {<<"polling", "booting">>, <<"asking", "asking">>, <<"asking", "polling">>,
     <<"asking", "resuming">>, <<"resuming", "recovering">>, <<"restoring", "recovering">>}

OneStepPerNode ==
    [][restarts' = restarts =>
        \A n \in Node :
            \/ step'[n] = step[n]
            \/ "none" \in {step[n].pc, step'[n].pc}
            \/ <<step[n].pc, step'[n].pc>> \in HandsOn]_vars

\* A node the app wants gone never comes back into the fleet: not through a step
\* that was inside an await when it was destroyed, nor a restart, nor the reconcile.
\* destroyed_at is stamped on Vast's word that the instance is gone, and stays: no
\* list made before the destroy has the row claim its instance again.
DestroyedStays ==
    [][\A n \in Node :
        /\ row[n].state \in DestroyStates => row'[n].state \in DestroyStates
        /\ row[n].gone # "no" => row'[n].gone # "no"]_vars

\* The rows and Vast, seen as what is counted, what may yet bill and what bills: only a
\* rental under the cap adds to what may bill, and nothing that may bill is let drop.
Fleet == INSTANCE FleetBilling WITH
    counted <- Counted, due <- Undecided, billing <- Billing
FleetIsCounted == Fleet!Spec

----------------------------------------------------------------------------
(* Liveness.  The app's own steps go on; Vast answers a list and carries out a *)
(* DELETE if it is asked often enough.                                         *)

Removes(n) == DeleteAccepted(n) /\ n \notin Billing'

AppFairness(n) ==
    /\ WF_vars(CreateAnswered(n) \/ CreateRefused(n) \/ CreateUnanswered(n))
    /\ WF_vars(WindowEnds(n))
    /\ WF_vars(LookupAsks(n))
    /\ WF_vars(LookupFinds(n))
    /\ WF_vars(LookupMisses(n))
    /\ WF_vars(CheckRetries(n))
    /\ SF_vars(RetryDestroys(n))
    /\ WF_vars(PassClaims(n))
    /\ WF_vars(StampAges(n))

VastFairness(n) ==
    /\ WF_vars(CarriesOut(n) \/ Refuses(n))
    /\ WF_vars(Ages(n))
    /\ SF_vars(LookupListed(n))
    /\ SF_vars(Removes(n))
    /\ SF_vars(InstanceGone(n))

LiveSpec ==
    /\ Spec
    /\ \A n \in Node : AppFairness(n) /\ VastFairness(n)
    /\ WF_vars(PassAsks)
    /\ SF_vars(PassListed)
    /\ WF_vars(PassEnds)

\* A create of unknown outcome does not hold its place under the caps for good, and
\* a node the app wants gone is in the end confirmed gone, and not counted.
CreatesSettle == \A n \in Node :
    /\ createOutcomeUnknown(row[n]) ~> ~createOutcomeUnknown(row[n])
    /\ n \in Counted /\ row[n].state \in DestroyStates ~> n \notin Counted

\* Even an instance Vast makes after the app has ruled its create out is not left
\* billing unseen: the reconcile finds it by its label, counts it and destroys it.
StraysAreFound == \A n \in Node : n \in Billing /\ n \notin Counted ~> n \notin Billing
=============================================================================
