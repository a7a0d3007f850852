------------------------------ MODULE GpuLanes ------------------------------
(* Which chunk goes to which node, on how many GPU lanes, and which the agent
   there starts: the tick of scheduler.ts with its reservation and lane guard,
   admission.ts, gpuLanes.ts, and plan_launches of the agent.

   Each chunk is a job of its own, so no Blender affinity picks among the
   chunks of one entry; a finished one may be followed by another like it,
   under the same name. The slot target of shared work is a constant. Of time
   one thing is kept: whether SETTLE_MS have passed since the guard's last step
   down and since memory became calm (SettlePasses). *)
EXTENDS Integers, FiniteSets, SequencesExt, FiniteSetsExt

CONSTANTS
    NodeOrder,     \* the nodes as nodeManager lists them
    Queue,         \* the chunks in queue order
    Shared,        \* those of jobs that share nodes
    Engine,        \* Engine[c]: cycles, eevee or octane
    Ram, Vram,     \* Ram[c], Vram[c]: percent of its node's RAM, of a card's VRAM
    Endless,       \* chunks that another of their kind may follow
    Gpus, Seen,    \* cards of every node by its offer, and as node n's agent sees them
    Octane,        \* nodes an Octane chunk may be sent to (takesEngine)
    SlotsPerGpu,   \* the setting, 0..2
    Cap,           \* hardCap of a node
    SlotTarget,    \* slotTargetFor: shared renders side by side
    Prefetch,      \* PREFETCH
    MaxFails       \* bound: failed dispatches and renders out of memory

Nodes == ToSet(NodeOrder)
Chunks == ToSet(Queue)
Unlimited == 2 * Gpus + 1
Whole == [lanes |-> 1, pin |-> FALSE]

ASSUME LanesAssumption ==
    /\ NodeOrder \in Seq(Nodes) /\ {"none", "nowhere"} \cap Nodes = {}
    /\ Queue \in Seq(Chunks) /\ "none" \notin Chunks
    /\ Gpus \in Nat \ {0} /\ Cap \in Nat \ {0} /\ SlotsPerGpu \in 0..2
    /\ Shared \cup Endless \subseteq Chunks /\ Octane \subseteq Nodes
    /\ Ram \in [Chunks -> Nat] /\ Vram \in [Chunks -> Nat]
    /\ Seen \in [Nodes -> 1..Gpus] /\ MaxFails \in Nat
    /\ SlotTarget \in Nat \ {0} /\ Prefetch \in Nat

VARIABLES
    run,          \* each chunk's run: where, its lane plan, its phase, its card
    inbox,        \* specs waiting on each node, by arrival
    guard,        \* laneGuards: limit, and the two waits of a settle period
    ceiling,      \* laneCeilings: lanes per GPU a node has shown it can take
    reservation,  \* the node drained for an exclusive chunk, and the chunk
    failedOn,     \* nodes that failed a chunk for a machine's reason
    resting,      \* nodes resting after a failed dispatch
    fails         \* counts to MaxFails

vars == <<run, inbox, guard, ceiling, reservation, failedOn, resting, fails>>

(* pending, or sending (dispatch's prep), inbox, rendering; ended (the agent
   no longer counts it) and tail (the app has read so: encoding or downloading);
   oom and failed (ended so, and not read yet); done. *)
Pending == [at |-> "nowhere", plan |-> Whole, phase |-> "pending", gpu |-> 0]
Done == [Pending EXCEPT !.phase = "done"]
NoReservation == [node |-> "none", chunk |-> "none"]
FreshGuard == [limit |-> Unlimited, settling |-> FALSE, calm |-> "no"]
Least(a, b) == IF a < b THEN a ELSE b
Greatest(a, b) == IF a > b THEN a ELSE b

(* ---- lane plans: gpuLanes.ts ---- *)

(* planLanes: pinned lanes only for Cycles, and never fewer than the cards. *)
PlanLanes(k, cap, engine) ==
    IF engine # "cycles" \/ k = 0 THEN Whole
    ELSE IF Gpus = 1 THEN [lanes |-> Least(k, cap), pin |-> FALSE]
    ELSE IF Gpus * k <= cap THEN [lanes |-> Gpus * k, pin |-> TRUE]
    ELSE IF Gpus <= cap THEN [lanes |-> Gpus, pin |-> TRUE]
    ELSE Whole

PerGpu(n) == Least(SlotsPerGpu, ceiling[n])

(* laneLevels: every plan a node can be stepped to. *)
Levels(n, engine) ==
    {PlanLanes(PerGpu(n), Least(Cap, c), engine).lanes : c \in {Cap, Gpus, 1}}

(* lanePlanFor, under the guard g. *)
LanePlan(g, n, engine) == PlanLanes(PerGpu(n), Least(Cap, g[n].limit), engine)

ScenesPerCard(lanes) ==
    IF Gpus = 1 THEN lanes ELSE IF lanes <= 1 THEN 1 ELSE (lanes + Gpus - 1) \div Gpus

(* ---- memory, as the node's metrics report it ---- *)

Rendering(n) == {c \in Chunks : run[c].at = n /\ run[c].phase = "rendering"}
(* An unpinned Cycles or Octane render is on every card, EEVEE's on the first. *)
OnCard(c, g) ==
    \/ run[c].gpu = g
    \/ run[c].gpu = 0 /\ (Engine[c] # "eevee" \/ g = 1)
Sum(S, f(_)) == FoldSet(LAMBDA c, total : f(c) + total, 0, S)
(* The member of S that comes first in a list. *)
FirstOf(list, S) ==
    LET place(x) == CHOOSE i \in DOMAIN list : list[i] = x
    IN CHOOSE x \in S : \A y \in S : place(x) <= place(y)
RamOn(n) == Sum(Rendering(n), LAMBDA c : Ram[c])
VramOn(n) ==
    Max({Sum({c \in Rendering(n) : OnCard(c, g)}, LAMBDA c : Vram[c]) : g \in 1..Gpus})

(* ---- admission: admission.ts, on the runs r and reservation of a moment ---- *)

RunsOn(r, n) == {c \in Chunks : r[c].at = n}
HasExclusive(r, n) == RunsOn(r, n) \ Shared # {}

(* Mutant: the node's plan whatever runs there. *)
ExclusiveLanesOfPlan(r, g, n, engine) == Greatest(1, LanePlan(g, n, engine).lanes)

ExclusiveLanes(r, g, n, engine) ==
    IF \E c \in RunsOn(r, n) \ Shared : ~r[c].plan.pin THEN 1
    ELSE Greatest(1, LanePlan(g, n, engine).lanes)

(* Mutant: as the node's agent counts, without what is on its way. *)
InFlightRendering(r, g, n, engine) == Cardinality({c \in RunsOn(r, n) : r[c].phase = "rendering"})

(* occupancy's inFlight: without one run per lane whose render has ended. *)
InFlight(r, g, n, engine) ==
    LET tails == {c \in RunsOn(r, n) : r[c].phase = "tail"}
    IN Cardinality(RunsOn(r, n)) - Least(Cardinality(tails), ExclusiveLanes(r, g, n, engine))

Capacity == IF SlotTarget > 1 THEN SlotTarget + Prefetch ELSE 1

(* admits(), inFlight being what the caller counted. *)
Admits(s, g, n, c, inFlight) ==
    /\ s.reservation.node = n => s.reservation.chunk = c
    /\ IF HasExclusive(s.run, n)
       THEN c \notin Shared /\ inFlight < ExclusiveLanes(s.run, g, n, Engine[c])
       ELSE inFlight < IF c \in Shared THEN Capacity ELSE 1

(* admits() on the occupancy for the chunk's engine. *)
AdmitsNow(s, g, n, c) == Admits(s, g, n, c, InFlight(s.run, g, n, Engine[c]))

HasRoom(s, g, n) ==
    LET inFlight == InFlight(s.run, g, n, "cycles")
    IN IF HasExclusive(s.run, n) THEN inFlight < ExclusiveLanes(s.run, g, n, "cycles")
       ELSE inFlight = 0 \/ (s.reservation.node # n /\ inFlight < Capacity)

FreeExclusiveLanes(r, g, n, engine) ==
    LET inFlight == InFlight(r, g, n, engine)
    IN IF HasExclusive(r, n) THEN Greatest(0, ExclusiveLanes(r, g, n, engine) - inFlight)
       ELSE IF inFlight = 0 THEN ExclusiveLanes(r, g, n, engine) ELSE 0

TakesEngine(n, c) == Engine[c] = "octane" => n \in Octane
Eligible == Nodes \ resting

(* ---- the tick ---- *)

(* Mutant: a step down whether or not the last one has taken effect (#222). *)
MayStepAtOnce(n, inFlight, current) == ~guard[n].settling

(* Lowering the limit stops admissions, not renders: the node must have come
   down to its plan before it is judged again. *)
MayStep(n, inFlight, current) == inFlight <= current /\ ~guard[n].settling

(* guardLanes for node n's exclusive work; runs.size is what the tick passes. *)
Guarded(n) ==
    LET runs == RunsOn(run, n)
        inFlight == Cardinality(runs)
        engines == {Engine[c] : c \in runs \ Shared}
        engine == IF Cardinality(engines) = 1 THEN CHOOSE e \in engines : TRUE ELSE "cycles"
        current == LanePlan(guard, n, engine).lanes
        levels == Levels(n, engine)
        ramHot == RamOn(n) > 90
        vramHot == VramOn(n) > 90
        lower == {l \in levels : l < current /\ (ramHot \/ ScenesPerCard(l) < ScenesPerCard(current))}
        above == {l \in levels : l > current}
        next == Min(above)
        notCalm == [guard[n] EXCEPT !.calm = "no"]
    IN CASE ramHot \/ vramHot ->
              IF ~MayStep(n, inFlight, current) \/ lower = {} THEN notCalm
              ELSE [limit |-> Max(lower), settling |-> TRUE, calm |-> "no"]
         [] OTHER ->
              IF \/ above = {} \/ inFlight = 0 \/ inFlight > current
                 \/ RamOn(n) * next > 75 * inFlight
                 \/ VramOn(n) * ScenesPerCard(next) > 75 * ScenesPerCard(current)
              THEN notCalm
              ELSE IF guard[n].calm = "no" THEN [guard[n] EXCEPT !.calm = "new"]
              ELSE IF guard[n].calm = "new" \/ guard[n].settling THEN guard[n]
              ELSE [limit |-> IF next = Max(levels) THEN Unlimited ELSE next,
                    settling |-> FALSE, calm |-> "no"]

(* runSlotController, its exclusive part. *)
GuardsAfter ==
    [n \in Nodes |-> IF n \in Eligible /\ HasExclusive(run, n) THEN Guarded(n) ELSE guard[n]]

(* Mutant: nothing is held back for an exclusive chunk. *)
ReservedNever(s, g) == s

(* reserveForExclusive. *)
Reserved(s, g) ==
    LET held == s.reservation
        waits == {c \in s.ready : \E n \in Eligible : TakesEngine(n, c)}
        first == FirstOf(Queue, waits)
        takers == {n \in Eligible : TakesEngine(n, first)}
        fewest == Min({Cardinality(RunsOn(s.run, n)) : n \in takers})
        best == FirstOf(NodeOrder, {n \in takers : Cardinality(RunsOn(s.run, n)) = fewest})
        open == [s EXCEPT !.reservation = NoReservation]
    IN IF /\ held # NoReservation /\ held.chunk \in s.ready
          /\ held.node \in Eligible /\ TakesEngine(held.node, held.chunk) THEN s
       ELSE IF waits = {} \/ first \in Shared \/ \E n \in takers : AdmitsNow(open, g, n, first)
            THEN open
       ELSE [s EXCEPT !.reservation = [node |-> best, chunk |-> first]]

(* Mutant: any other node at all, the old test. *)
AnotherIs(s, g, c) == Eligible \ failedOn[c] # {}

AnotherTakes(s, g, c) ==
    \E n \in Eligible \ failedOn[c] : TakesEngine(n, c) /\ AdmitsNow(s, g, n, c)

(* pickChunk: the chunks node n may take, of which it takes the first. *)
Picks(s, g, n) ==
    {c \in s.ready :
        /\ TakesEngine(n, c)
        /\ Admits(s, g, n, c, InFlight(s.run, g, n, "cycles"))
        /\ n \in failedOn[c] => ~AnotherTakes(s, g, c)}

(* exclusiveDispatchPlan, with the chunks of `waiting` still unassigned. *)
DispatchPlan(s, g, n, c, waiting) ==
    LET plan == LanePlan(g, n, Engine[c])
        inLanes == {w \in waiting \ Shared : LanePlan(g, n, Engine[w]).pin}
        free == Sum(Eligible, LAMBDA e : FreeExclusiveLanes(s.run, g, e, Engine[c]))
    IN IF plan.pin /\ RunsOn(s.run, n) = {} /\ free > Cardinality(inLanes) + 1 THEN Whole ELSE plan

(* Chunk c goes to node n. *)
Sent(s, g, n, c) ==
    LET left == s.ready \ {c}
        plan == IF c \in Shared THEN LanePlan(g, n, Engine[c]) ELSE DispatchPlan(s, g, n, c, left)
    IN [run |-> [s.run EXCEPT ![c] = [at |-> n, plan |-> plan, phase |-> "sending", gpu |-> 0]],
        ready |-> left,
        reservation |-> IF s.reservation.chunk = c THEN NoReservation ELSE s.reservation]

(* One node's turn in the round-robin: nothing, or the chunk it picks. *)
TakeOne(s, g, n) ==
    LET picks == Picks(s, g, n)
    IN IF s.ready = {} \/ n \notin Eligible \/ ~HasRoom(s, g, n) \/ picks = {} THEN {s}
       ELSE {Sent(s, g, n, c) : c \in {FirstOf(Queue, picks)}}

(* Turn after turn, until a pass over the nodes assigns nothing: no more passes
   than there are chunks to send. (Sets of one element: TLC evaluates each turn once.) *)
Outcome(g) ==
    LET first == [run |-> run, reservation |-> reservation,
                  ready |-> {c \in Chunks : run[c].phase = "pending"}]
        turns == Cardinality(first.ready) * Len(NodeOrder)
        after[i \in 0..turns] ==
            IF i = 0 THEN {Reserved(s, g) : s \in {first}}
            ELSE UNION {TakeOne(s, g, NodeOrder[((i - 1) % Len(NodeOrder)) + 1]) : s \in after[i - 1]}
    IN after[turns]

Tick ==
    /\ UNCHANGED <<inbox, ceiling, failedOn, resting, fails>>
    /\ \E g \in {GuardsAfter} : \E s \in Outcome(g) :
         guard' = g /\ run' = s.run /\ reservation' = s.reservation

(* ---- a dispatch ---- *)

Phase(c, from, to) == run[c].phase = from /\ run' = [run EXCEPT ![c].phase = to]

SpecLands(c) ==
    /\ Phase(c, "sending", "inbox")
    /\ inbox' = [inbox EXCEPT ![run[c].at] = Append(@, c)]
    /\ UNCHANGED <<guard, ceiling, reservation, failedOn, resting, fails>>

(* For the machine's reason: the chunk avoids the node, which rests. *)
DispatchFails(c) ==
    /\ run[c].phase = "sending" /\ fails < MaxFails
    /\ run' = [run EXCEPT ![c] = Pending]
    /\ failedOn' = [failedOn EXCEPT ![c] = @ \cup {run[c].at}]
    /\ resting' = resting \cup {run[c].at}
    /\ fails' = fails + 1
    /\ UNCHANGED <<inbox, guard, ceiling, reservation>>

RestEnds(n) ==
    /\ n \in resting /\ resting' = resting \ {n}
    /\ UNCHANGED <<run, inbox, guard, ceiling, reservation, failedOn, fails>>

(* ---- the agent ---- *)

PinFails(c) == run[c].plan.pin /\ Engine[c] = "cycles" /\ Seen[run[c].at] < 2
Pinned(c) == run[c].plan.pin /\ Engine[c] = "cycles" /\ Seen[run[c].at] >= 2
(* lane_cap: one lane when the pin that was planned is not possible. *)
LaneCap(c) == IF run[c].plan.pin /\ ~Pinned(c) THEN 1 ELSE run[c].plan.lanes

(* plan_launches' test of the head of the queue. *)
Startable(n, c) ==
    LET exclusive == Rendering(n) \ Shared
    IN IF c \in Shared THEN exclusive = {} /\ Cardinality(Rendering(n)) < SlotTarget
       ELSE Rendering(n) \cap Shared = {} /\ Cardinality(exclusive) < LaneCap(c)

(* Mutant: the next card, past the last. *)
PickGpuNext(n) == Cardinality(Rendering(n)) + 1

(* pick_gpu: the card with the fewest pinned renders, the first of them. *)
PickGpu(n) ==
    LET load(g) == Cardinality({c \in Rendering(n) : run[c].gpu = g})
    IN Min({g \in 1..Seen[n] : \A h \in 1..Seen[n] : load(g) <= load(h)})

Launch(n) ==
    /\ inbox[n] # <<>>
    /\ LET c == Head(inbox[n])
       IN /\ Startable(n, c)
          /\ run' = [run EXCEPT ![c].phase = "rendering", ![c].gpu = IF Pinned(c) THEN PickGpu(n) ELSE 0]
    /\ inbox' = [inbox EXCEPT ![n] = Tail(@)]
    /\ UNCHANGED <<guard, ceiling, reservation, failedOn, resting, fails>>

(* Blender exits: RENDER_ENDED, before the state says 'encoding'. *)
RenderEnds(c) ==
    /\ Phase(c, "rendering", "ended")
    /\ UNCHANGED <<inbox, guard, ceiling, reservation, failedOn, resting, fails>>

(* A card's memory is over-full, and one of the renders on it fails. *)
OutOfMemory(c) ==
    /\ VramOn(run[c].at) > 100 /\ fails < MaxFails
    /\ Phase(c, "rendering", "oom")
    /\ fails' = fails + 1
    /\ UNCHANGED <<inbox, guard, ceiling, reservation, failedOn, resting>>

(* ---- the poll ---- *)

(* 'encoding' or 'done' is read: renderEnded. *)
ReadsEnded(c) ==
    /\ Phase(c, "ended", "tail")
    /\ UNCHANGED <<inbox, guard, ceiling, reservation, failedOn, resting, fails>>

(* 'oom' is read: outOfMemoryOn, then the requeue. *)
ReadsOom(c) ==
    LET n == run[c].at
        plan == run[c].plan
        perCard == IF Gpus = 1 THEN plan.lanes ELSE IF plan.pin THEN ScenesPerCard(plan.lanes) ELSE 1
    IN /\ run[c].phase = "oom"
       /\ ceiling' = IF c \notin Shared /\ perCard > 1 /\ PerGpu(n) > 1
                     THEN [ceiling EXCEPT ![n] = PerGpu(n) - 1] ELSE ceiling
       /\ run' = [run EXCEPT ![c] = Pending]
       /\ failedOn' = [failedOn EXCEPT ![c] = @ \cup {n}]
       /\ UNCHANGED <<inbox, guard, reservation, resting, fails>>

(* 'pinFailed' is read: pinFailedOn. *)
ReadsPinFailed(c) ==
    /\ run[c].phase \in {"rendering", "ended"} /\ PinFails(c) /\ ceiling[run[c].at] # 0
    /\ ceiling' = [ceiling EXCEPT ![run[c].at] = 0]
    /\ UNCHANGED <<run, inbox, guard, reservation, failedOn, resting, fails>>

(* Its frames are down: onChunkFinished and rendered(). *)
Finish(c) ==
    /\ run[c].phase = "tail"
    /\ run' = [run EXCEPT ![c] = Done]
    /\ failedOn' = [failedOn EXCEPT ![c] = {}]
    /\ resting' = resting \ {run[c].at}
    /\ UNCHANGED <<inbox, guard, ceiling, reservation, fails>>

(* Another like it is submitted. *)
Another(c) ==
    /\ c \in Endless /\ run[c] = Done
    /\ run' = [run EXCEPT ![c] = Pending]
    /\ UNCHANGED <<inbox, guard, ceiling, reservation, failedOn, resting, fails>>

SettlePasses(n) ==
    /\ guard[n].settling \/ guard[n].calm = "new"
    /\ guard' = [guard EXCEPT ![n].settling = FALSE, ![n].calm = IF @ = "new" THEN "ripe" ELSE @]
    /\ UNCHANGED <<run, inbox, ceiling, reservation, failedOn, resting, fails>>

(* ---- the specification ---- *)

Init ==
    /\ run = [c \in Chunks |-> Pending]
    /\ inbox = [n \in Nodes |-> <<>>]
    /\ guard = [n \in Nodes |-> FreshGuard]
    /\ ceiling = [n \in Nodes |-> 2]
    /\ reservation = NoReservation
    /\ failedOn = [c \in Chunks |-> {}]
    /\ resting = {} /\ fails = 0

Next ==
    \/ Tick
    \/ \E n \in Nodes : Launch(n) \/ RestEnds(n) \/ SettlePasses(n)
    \/ \E c \in Chunks :
         \/ SpecLands(c) \/ DispatchFails(c) \/ RenderEnds(c) \/ OutOfMemory(c)
         \/ ReadsEnded(c) \/ ReadsOom(c) \/ ReadsPinFailed(c) \/ Finish(c) \/ Another(c)

Spec == Init /\ [][Next]_vars

(* ---- what the lanes promise ---- *)

(* Every variable stays within its type. *)
TypeOK ==
    /\ \A c \in Chunks :
         /\ run[c].at \in Nodes \cup {"nowhere"} /\ run[c].gpu \in 0..Gpus
         /\ run[c].plan.lanes \in 1..(2 * Gpus) /\ run[c].plan.pin \in BOOLEAN
    /\ \A n \in Nodes : guard[n].limit \in 1..Unlimited /\ ceiling[n] \in 0..2
    /\ reservation.node \in Nodes \cup {"none"} /\ resting \subseteq Nodes

(* No card holds more scenes than the plan its renders were sent with puts on
   it: an unpinned render, which is on every card, never runs beside another
   exclusive one, whatever plans the guard, a failed pin or the tail of the
   queue made of the node between one dispatch and the next. *)
CardsAreNotShared ==
    \A n \in Nodes, g \in 1..Gpus :
        LET here == {c \in Rendering(n) \ Shared : OnCard(c, g)}
        IN Cardinality(here) > 1 =>
             /\ \E c \in here : Cardinality(here) <= ScenesPerCard(run[c].plan.lanes)
             /\ Gpus > 1 => \A c \in here : run[c].plan.pin

(* The app counts a node's lanes so that its agent starts an exclusive spec the
   moment it arrives. None waits in the inbox, holding up those behind it,
   unless its pin turned out impossible, or the guard gave the node more lanes
   while the spec was on its way and runs sent since with them came first. *)
SentExclusiveStarts ==
    \A n \in Nodes : \A i \in DOMAIN inbox[n] :
        LET c == inbox[n][i]
            before == Rendering(n) \cup {inbox[n][j] : j \in 1..(i - 1)}
        IN \/ c \in Shared \/ Seen[n] < 2
           \/ before \cap Shared = {} /\ Cardinality(before) < LaneCap(c)
           \/ \E d \in before : run[d].plan.lanes > run[c].plan.lanes

(* A tick leaves no chunk waiting that a node would take: neither the order of
   the turns, nor a node a chunk failed on deferring to another, nor the
   pre-filter, nor a reservation for a chunk that went elsewhere, keeps work
   from a node with room for it. *)
TickSendsAll ==
    \A g \in {GuardsAfter} : \A s \in Outcome(g) :
        \A n \in Eligible, c \in s.ready : TakesEngine(n, c) => ~AdmitsNow(s, g, n, c)

(* The guard never takes more lanes from a node than its scenes need: a plan
   that fits with the heaviest scene on every lane is never left for less. *)
Heaviest(f) == Max({f[c] : c \in Chunks \ Shared})
Fits(lanes, most) ==
    lanes * Heaviest(Ram) <= most /\ ScenesPerCard(lanes) * Heaviest(Vram) <= most
NotWalkedDown ==
    \A n \in Nodes : \A l \in Levels(n, "cycles") : Fits(l, 90) => guard[n].limit >= l

(* "Memory is projected to the plan above from what the renders running now
   use ... Both overestimate": with every scene alike, the plan the guard goes
   back up to fits. *)
RecoveryFits ==
    [][\A n \in Nodes : guard'[n].limit > guard[n].limit =>
         Fits(LanePlan(guard', n, "cycles").lanes, 90)]_vars

(* The first chunk of the queue that some node may be sent is not starved: not
   by an endless stream of shared work that keeps every node busy, nor by a
   chunk before it that no node takes. *)
Takeable(c) == \E n \in Nodes : TakesEngine(n, c)
FirstInLine(c) ==
    /\ run[c].phase = "pending" /\ Takeable(c)
    /\ \A i, j \in DOMAIN Queue :
         i < j /\ Queue[j] = c => ~(run[Queue[i]].phase = "pending" /\ Takeable(Queue[i]))
HeadIsSent == \A c \in Chunks : FirstInLine(c) ~> run[c].phase \in {"rendering", "ended", "tail", "done"}

(* Ticks come every 15 s, a prep ends, renders end, the poll reads, rests end. *)
Fairness ==
    /\ WF_vars(Tick)
    /\ \A n \in Nodes : WF_vars(Launch(n)) /\ WF_vars(RestEnds(n))
    /\ \A c \in Chunks :
         /\ WF_vars(SpecLands(c)) /\ WF_vars(RenderEnds(c)) /\ WF_vars(Finish(c))
         /\ WF_vars(ReadsEnded(c)) /\ WF_vars(ReadsOom(c)) /\ WF_vars(ReadsPinFailed(c))

LiveSpec == Spec /\ Fairness
====
