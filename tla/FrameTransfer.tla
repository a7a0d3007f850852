---------------------------- MODULE FrameTransfer ----------------------------
(* Frame downloader and SFTP downloads: src/src/main/transfer/frameDownloader.ts
   with manifest.ts, src/src/main/ssh/sftp.ts and pipelinedGet.ts.

   One chunk, the attempts at it (each has a downloader of its own), the job
   folder and the assets rows they all share. A downloader reads the chunk's
   manifest on its node, queues what is new, and transfers a bounded number of
   files at once, each to a partial that is verified and renamed into place.
   Once the agent has ended, drain() makes the final pass.

   Order within the queue is left open inside a transfer class. Time is counted
   in looks: drain() looks around every 250 ms, and its two limits (nothing
   moving, the disk refusing) are numbers of looks. *)
EXTENDS Integers, FiniteSets, Sequences, SequencesExt, FiniteSetsExt

CONSTANTS
    Runs,          \* attempts at the chunk, 1..n, in the order they are made
    Scenes,        \* chunks to consider: the entries their agents list, the attempts
                   \* they get, and how patient the app is with each
    Held,          \* files another program holds: the disk refuses only these
    Malformed,     \* entries whose manifest line fails validation
    Content,       \* the bytes an attempt renders: equal numbers, equal files
    Step,          \* the job's frame step
    MaxTransfers,  \* settings.concurrentTransfersPerNode
    FinalReads,    \* FINAL_READ_ATTEMPTS
    LiveKept       \* live clip versions a node keeps (_prune_versions)

(* An entry: a file a manifest may list. num is its frame, or a live clip's
   version; view is the view it shows, "" for a frame saved as one file. *)
Entries == UNION {s.entries : s \in Scenes}
Kinds == {"frame", "thumb", "live", "clip"}
Frames == {e.num : e \in {x \in Entries : x.kind = "frame"}}

ASSUME TransferAssumption ==
    /\ Runs \in SUBSET (Nat \ {0}) /\ IsFiniteSet(Runs)
    /\ \A s \in Scenes :
         s.tries \in Nat /\ s.attempts \in Nat \ {0} /\ {s.idle, s.hold, s.sleeps} \subseteq Nat
    /\ Entries \subseteq [kind : Kinds, num : Nat, view : STRING] /\ IsFiniteSet(Entries)
    /\ Content \in [Runs -> Nat \ {0}]
    /\ Step \in Nat \ {0}
    /\ {MaxTransfers, FinalReads, LiveKept} \subseteq Nat \ {0}

VARIABLES
    scene,   \* this chunk, one of Scenes
    node,    \* node[r]: what attempt r's node lists, has unlinked
    d,       \* d[r]: the downloader of attempt r
    disk,    \* does the project disk take files?
    trouble, \* sinkTrouble: downloads are paused
    file,    \* file[e]: the content in place in the job folder, 0 for none
    part,    \* part[c][e]: the partial of content c: 0 none, 1 a prefix, 2 whole
    turns,   \* turns[e]: the writers of e's path, the first at work (oneWriterAt)
    rows,    \* rows[f]: the attempt that marked frame f downloaded, 0 for none
    clips    \* assets rows of the chunk's clips: <<attempt, entry>>

vars == <<scene, node, d, disk, trouble, file, part, turns, rows, clips>>
shared == <<file, part, turns, rows, clips>>

(* The limits of the code, in small, for this chunk: MAX_ATTEMPTS; DRAIN_IDLE_MS
   and SINK_HOLD_MS, in looks; and a bound: how often the machine sleeps during
   one drain. *)
MaxAttempts == scene.attempts
IdleLimit == scene.idle
HoldLimit == scene.hold
MaxSleeps == scene.sleeps

(* ---- the entries of a manifest ---- *)

IsFrame(e) == e.kind = "frame"
IsPreview(e) == e.kind \in {"thumb", "live"}
ClassOf(e) == CASE e.kind = "thumb" -> 0 [] e.kind = "live" -> 1
                [] e.kind = "clip" -> 2 [] OTHER -> 3

(* Is the entry for one of the frames x's chunk renders? Clips always are. *)
IsOurFrame(x, e) ==
    \/ e.kind \in {"live", "clip"}
    \/ e.num >= x.from /\ e.num <= x.to /\ (e.num - x.from) % Step = 0

(* The frames an attempt is sent: the first range still missing. *)
Missing == {f \in Frames : rows[f] = 0}
FirstRange ==
    LET from == Min(Missing)
        unbroken(t) == \A f \in Frames : from <= f /\ f <= t => f \in Missing
    IN <<from, Max({t \in Missing : unbroken(t)})>>

(* ---- a downloader ---- *)

Idle == [mode |-> "off", off |-> FALSE, stopped |-> FALSE, gaveUp |-> FALSE,
         from |-> 0, to |-> 0, seen |-> {}, queue |-> {}, active |-> {},
         retrying |-> {}, asking |-> {}, attempts |-> [e \in Entries |-> 0],
         lost |-> {}, blocked |-> {}, views |-> {}, landed |-> {},
         polled |-> {}, final |-> {}, reads |-> 0, readOK |-> FALSE,
         slept |-> 0, idle |-> 0, hold |-> 0, heldOnce |-> FALSE, landedSince |-> FALSE]

Active(x) == x.mode # "off" /\ ~x.stopped
Busy(x) == x.queue \cup x.active \cup x.retrying \cup x.asking # {}
\* Mutant: what waits out a backoff is forgotten.
LeftoversNow(x) == x.queue \cup x.active
Leftovers(x) == x.queue \cup x.active \cup x.retrying \cup x.asking

(* The sets of queued entries pump() may start now: as many as there are slots
   for, previews one at a time and the most wanted of them first. *)
Startable(x, paused) ==
    IF x.stopped \/ paused THEN {{}} ELSE
    LET room == MaxTransfers - Cardinality(x.active)
        previews == {e \in x.queue : IsPreview(e)}
        others == x.queue \ previews
        wanted == {e \in previews : \A p \in previews : ClassOf(e) <= ClassOf(p)}
        first == IF room > 0 /\ previews # {} /\ ~\E e \in x.active : IsPreview(e)
                 THEN {{e} : e \in wanted} ELSE {{}}
        Rest(S) == IF Cardinality(others) <= room - Cardinality(S) THEN {others}
                   ELSE kSubset(room - Cardinality(S), others)
    IN UNION {{S \cup T : T \in Rest(S)} : S \in first}

Started(x, S) == [x EXCEPT !.queue = @ \ S, !.active = @ \cup S]
Queued(t, r, S) ==
    [e \in Entries |-> IF e \in S THEN Append(t[e], [run |-> r, op |-> "get"]) ELSE t[e]]

(* Downloader r becomes x, the writers t, and pump() runs. *)
Pumped(r, x, t) ==
    \E S \in Startable(x, trouble) :
        /\ d' = [d EXCEPT ![r] = Started(x, S)]
        /\ turns' = Queued(t, r, S)

(* Mutants: one attempt too many; a retry left to the next poll. *)
LastAttemptPast(x, e) == x.attempts[e] + 1 > MaxAttempts

(* retryOrGiveUp: charge the failure; the last attempt gives the file up. *)
LastAttempt(x, e) == x.attempts[e] + 1 >= MaxAttempts
ChargedUnqueued(x, e) ==
    LET y == [x EXCEPT !.attempts[e] = @ + 1]
    IN IF ~LastAttempt(x, e) THEN y
       ELSE [y EXCEPT !.lost = IF IsFrame(e) THEN @ \cup {e} ELSE @]
Charged(x, e) ==
    LET y == [x EXCEPT !.attempts[e] = @ + 1]
    IN IF ~LastAttempt(x, e) THEN [y EXCEPT !.retrying = @ \cup {e}]
       ELSE [y EXCEPT !.lost = IF IsFrame(e) THEN @ \cup {e} ELSE @]
Discarding(t, r, e) == [t EXCEPT ![e] = Append(@, [run |-> r, op |-> "rm"])]
ChargedTurns(t, r, e) == IF LastAttempt(d[r], e) THEN Discarding(t, r, e) ELSE t

(* stop(): the transfers still waiting their turn end, those at work are
   aborted, and every file not landed has its partial removed in turn. *)
AtWork(r, e) == turns[e] # <<>> /\ turns[e][1] = [run |-> r, op |-> "get"]
Stopped(r, x) == [x EXCEPT !.stopped = TRUE,
                           !.active = {e \in @ : AtWork(r, e)}]
TurnsStopped(r, x) ==
    LET waits(e, i) == turns[e][i] = [run |-> r, op |-> "get"] /\ i > 1
        kept(e) == LET S == {i \in DOMAIN turns[e] : ~waits(e, i)}
                   IN [n \in 1..Cardinality(S) |->
                         turns[e][CHOOSE i \in S : Cardinality({j \in S : j <= i}) = n]]
    IN [e \in Entries |-> IF e \in Leftovers(x)
                          THEN Append(kept(e), [run |-> r, op |-> "rm"]) ELSE kept(e)]

(* poll() on a manifest text: refused frames count as lost, of the live clips
   only the newest is queued, and another chunk's frames are skipped. *)
Taken(x, text) ==
    LET good == text \ Malformed
        newest(e) == \A o \in good : o.kind = "live" => o.num <= e.num
        fresh == {e \in good \ x.seen : (e.kind = "live" => newest(e)) /\ IsOurFrame(x, e)}
    IN [x EXCEPT !.seen = @ \cup good,
                 !.lost = @ \cup {e \in text \cap Malformed : IsFrame(e)},
                 !.queue = @ \cup fresh,
                 !.views = @ \cup ({e.view : e \in {f \in fresh : IsFrame(f)}} \ {""})]

(* ---- the node: external, as the downloader meets it ----
   One that died answers nothing: its reads and transfers fail, as they may
   at any time. *)

(* The agent lists a file once it is complete, live clips in order, and keeps
   the newest LiveKept of them. *)
NodeLists(r, e) ==
    /\ d[r].mode # "off" /\ ~d[r].off
    /\ e \in scene.entries \ node[r].listed
    /\ e.kind = "live" =>
         \A o \in scene.entries \ node[r].listed : o.kind = "live" => e.num <= o.num
    /\ node' = [node EXCEPT
         ![r].listed = @ \cup {e},
         ![r].gone = IF e.kind # "live" THEN @ ELSE
                     @ \cup {o \in node[r].listed : o.kind = "live" /\ o.num + LiveKept <= e.num}]
    /\ UNCHANGED <<scene, d, disk, trouble, shared>>

(* The disk fills or is freed: while something is there to notice. *)
DiskTurns ==
    /\ trouble \/ \E r \in Runs : d[r].active \cup d[r].asking # {}
    /\ disk' = ~disk
    /\ UNCHANGED <<scene, node, d, trouble, shared>>

(* ---- background polls and the final pass ---- *)

(* A dispatch landed: the run starts its downloader. The one before has been
   stopped, and the chunk is sent for the first range of frames still missing. *)
Start(r) ==
    /\ d[r].mode = "off" /\ Missing # {} /\ r <= scene.tries
    /\ \A o \in Runs : o < r => d[o].off
    /\ d' = [d EXCEPT ![r].mode = "polling", ![r].from = FirstRange[1], ![r].to = FirstRange[2]]
    /\ UNCHANGED <<scene, node, disk, trouble, shared>>

(* The manifest read, and later its answer: what it held when it was read. *)
PollReads(r) ==
    /\ Active(d[r]) /\ d[r].mode \in {"polling", "final", "draining"}
    /\ d[r].polled = {}
    /\ node[r].listed \ (d[r].seen \cup d[r].lost) # {}
    /\ d' = [d EXCEPT ![r].polled = {node[r].listed}]
    /\ UNCHANGED <<scene, node, disk, trouble, shared>>

PollAnswers(r) ==
    /\ \E text \in d[r].polled : Pumped(r, [Taken(d[r], text) EXCEPT !.polled = {}], turns)
    /\ UNCHANGED <<scene, node, disk, trouble, file, part, rows, clips>>

(* The run calls drain(): the agent has ended, stalled or gone. *)
DrainBegins(r) ==
    /\ Active(d[r]) /\ d[r].mode = "polling"
    /\ d' = [d EXCEPT ![r].mode = "final"]
    /\ UNCHANGED <<scene, node, disk, trouble, shared>>

FinalReadStarts(r) ==
    /\ Active(d[r]) /\ d[r].mode = "final" /\ d[r].final = {}
    /\ d' = [d EXCEPT ![r].final = {node[r].listed}]
    /\ UNCHANGED <<scene, node, disk, trouble, shared>>

FinalAnswers(r) ==
    /\ d[r].mode = "final"
    /\ \E text \in d[r].final :
         Pumped(r, [Taken(d[r], text) EXCEPT !.mode = "draining", !.readOK = TRUE,
                                             !.idle = 0], turns)
    /\ UNCHANGED <<scene, node, disk, trouble, file, part, rows, clips>>

(* A read that failed or timed out; after the last, or once stopped, the pass
   goes on without it. *)
FinalReadFails(r) ==
    /\ d[r].mode = "final"
    /\ LET over == d[r].stopped \/ d[r].reads + 1 >= FinalReads
       IN d' = [d EXCEPT ![r].reads = @ + 1, ![r].final = {}, ![r].idle = 0,
                         ![r].mode = IF over THEN "draining" ELSE @]
    /\ UNCHANGED <<scene, node, disk, trouble, shared>>

(* Mutant: a disk that clears for a moment starts the hold again. *)
LookAfresh(r) ==
    LET x == d[r]
        fresh == ~x.heldOnce \/ x.landedSince
        held == IF fresh THEN 0 ELSE x.hold + 1
        left == {e \in Leftovers(x) : IsFrame(e)}
        gives == [Stopped(r, x) EXCEPT !.gaveUp = TRUE]
    IN /\ x.mode = "draining" /\ ~x.stopped /\ Busy(x)
       /\ \/ /\ trouble /\ held <= HoldLimit
             /\ d' = [d EXCEPT ![r].hold = held, ![r].heldOnce = TRUE,
                               ![r].landedSince = FALSE, ![r].idle = 0]
             /\ UNCHANGED turns
          \/ /\ trouble /\ held > HoldLimit
             /\ d' = [d EXCEPT ![r] = [gives EXCEPT !.blocked = @ \cup left]]
             /\ turns' = TurnsStopped(r, x)
          \/ /\ ~trouble /\ x.idle < IdleLimit
             /\ d' = [d EXCEPT ![r].idle = @ + 1, ![r].heldOnce = FALSE]
             /\ UNCHANGED turns
          \/ /\ ~trouble /\ x.idle >= IdleLimit
             /\ d' = [d EXCEPT ![r] = [gives EXCEPT !.lost = @ \cup left]]
             /\ turns' = TurnsStopped(r, x)
       /\ UNCHANGED <<scene, node, disk, trouble, file, part, rows, clips>>

(* One look of drain(), every 250 ms while files are still to come. While the
   disk refuses, the idle clock stands still and the hold's runs; only a file
   landing starts the hold again. Either limit gives up: stop(), and what is
   left counts as lost, or as held back by the disk. *)
Look(r) ==
    LET x == d[r]
        fresh == ~x.heldOnce \/ x.landedSince
        held == IF fresh THEN 0 ELSE x.hold + 1
        left == {e \in Leftovers(x) : IsFrame(e)}
        gives == [Stopped(r, x) EXCEPT !.gaveUp = TRUE]
    IN /\ x.mode = "draining" /\ ~x.stopped /\ Busy(x)
       /\ \/ /\ trouble /\ held <= HoldLimit
             /\ d' = [d EXCEPT ![r].hold = held, ![r].heldOnce = TRUE,
                               ![r].landedSince = FALSE, ![r].idle = 0]
             /\ UNCHANGED turns
          \/ /\ trouble /\ held > HoldLimit
             /\ d' = [d EXCEPT ![r] = [gives EXCEPT !.blocked = @ \cup left]]
             /\ turns' = TurnsStopped(r, x)
          \/ /\ ~trouble /\ x.idle < IdleLimit
             /\ d' = [d EXCEPT ![r].idle = @ + 1]
             /\ UNCHANGED turns
          \/ /\ ~trouble /\ x.idle >= IdleLimit
             /\ d' = [d EXCEPT ![r] = [gives EXCEPT !.lost = @ \cup left]]
             /\ turns' = TurnsStopped(r, x)
       /\ UNCHANGED <<scene, node, disk, trouble, file, part, rows, clips>>

(* The machine slept past SUSPEND_GAP_MS: the idle clock starts again. *)
Wakes(r) ==
    /\ d[r].mode = "draining" /\ ~d[r].stopped /\ d[r].idle > 0 /\ d[r].slept < MaxSleeps
    /\ d' = [d EXCEPT ![r].idle = 0, ![r].slept = @ + 1]
    /\ UNCHANGED <<scene, node, disk, trouble, shared>>

(* Mutant: a lone view stands for the frame. *)
WholeByOneView(x) ==
    {f \in Frames : x.views # {} /\ \A v \in x.views : \E e \in x.landed : e.num = f /\ e.view = v}

(* Frames saved one file per view, every listed view of which has landed. *)
WholeByViews(x) ==
    IF Cardinality(x.views) < 2 THEN {} ELSE
    {f \in Frames : \A v \in x.views : \E e \in x.landed : IsFrame(e) /\ e.num = f /\ e.view = v}

(* drain() returns: nothing is left, or it was stopped and its transfers have
   wound down (or SETTLE_WAIT_MS has passed). *)
DrainReturns(r) ==
    LET x == d[r]
        mine == x.readOK /\ (~x.stopped \/ x.gaveUp)
    IN /\ x.mode = "draining" /\ (x.stopped \/ ~Busy(x))
       /\ d' = [d EXCEPT ![r].mode = "done", ![r].idle = 0, ![r].hold = 0,
                         ![r].heldOnce = FALSE, ![r].landedSince = FALSE, ![r].slept = 0]
       /\ rows' = [f \in Frames |-> IF mine /\ f \in WholeByViews(x) THEN r ELSE rows[f]]
       /\ UNCHANGED <<scene, node, disk, trouble, file, part, turns, clips>>

(* Nothing reads an abandoned downloader again: it keeps its transfers winding
   down, or the drain that gave up and has yet to return. *)
Abandoned(r, x) ==
    IF x.stopped /\ x.mode = "draining" THEN [x EXCEPT !.off = TRUE]
    ELSE [Idle EXCEPT !.mode = "done", !.off = TRUE, !.stopped = TRUE,
                      !.active = Stopped(r, x).active]

(* The run settles after its drain, or is cancelled, or its node goes: stop(),
   which does nothing more if a drain that gave up has called it. *)
Stop(r) ==
    /\ d[r].mode # "off" /\ ~d[r].off
    /\ d[r].mode = "draining" /\ d[r].stopped => d[r].active # {}
    /\ d' = [d EXCEPT ![r] = Abandoned(r, @)]
    /\ turns' = IF d[r].stopped THEN turns ELSE TurnsStopped(r, d[r])
    /\ UNCHANGED <<scene, node, disk, trouble, file, part, rows, clips>>

(* ---- one transfer, from its turn at the path (fetchVerified) ---- *)

Mine(r) == Content[r]
(* The transfer of e is over for r: its slot and its turn are free. *)
Ended(x, e) == [x EXCEPT !.active = @ \ {e}]
TurnOver(e) == [turns EXCEPT ![e] = Tail(@)]
InPlace(r, e) == file[e] = Mine(r)

(* Bytes land in the partial, while the channel answers and the disk takes
   them. A stopped downloader's reads were aborted. *)
Fetch(r, e) ==
    /\ AtWork(r, e) /\ ~d[r].stopped /\ ~InPlace(r, e)
    /\ e \notin node[r].gone /\ disk
    /\ part[Mine(r)][e] < 2
    /\ part' = [part EXCEPT ![Mine(r)][e] = @ + 1]
    /\ d' = [d EXCEPT ![r].idle = 0]
    /\ UNCHANGED <<scene, node, disk, trouble, file, turns, rows, clips>>

(* Mutants: a stopped run writes its row; a late live clip is listed. *)
LandRegardless(r, e) ==
    LET x == d[r]
        final == \E c \in clips : c[2].kind = "clip"
        dead == {c \in clips : c[2].kind = "live"}
        dropped == IF e.kind = "live" /\ final THEN {<<r, e>>}
                   ELSE IF e.kind \in {"live", "clip"} THEN dead \ {<<r, e>>} ELSE {}
        keeps == IF e.kind \in {"live", "clip"} THEN {<<r, e>>} ELSE {}
        y == [Ended(x, e) EXCEPT !.idle = 0, !.landedSince = x.heldOnce,
                                 !.landed = IF x.stopped THEN @ ELSE @ \cup {e}]
    IN /\ AtWork(r, e)
       /\ InPlace(r, e) \/ (part[Mine(r)][e] = 2 /\ disk /\ e \notin Held)
       /\ file' = [f \in Entries |->
                     IF ~x.stopped /\ \E c \in dropped : c[2] = f THEN 0
                     ELSE IF f = e THEN Mine(r) ELSE file[f]]
       /\ part' = IF InPlace(r, e) THEN part ELSE [part EXCEPT ![Mine(r)][e] = 0]
       /\ rows' = IF IsFrame(e) /\ e.view = "" THEN [rows EXCEPT ![e.num] = r] ELSE rows
       /\ clips' = IF x.stopped THEN clips ELSE (clips \cup keeps) \ dropped
       /\ Pumped(r, y, TurnOver(e))
       /\ UNCHANGED <<scene, node, disk, trouble>>

LandUnasked(r, e) ==
    LET x == d[r]
        final == \E c \in clips : c[2].kind = "clip"
        dead == {c \in clips : c[2].kind = "live"}
        dropped == IF e.kind \in {"live", "clip"} THEN dead \ {<<r, e>>} ELSE {}
        keeps == IF e.kind \in {"live", "clip"} THEN {<<r, e>>} ELSE {}
        y == [Ended(x, e) EXCEPT !.idle = 0, !.landedSince = x.heldOnce,
                                 !.landed = IF x.stopped THEN @ ELSE @ \cup {e}]
    IN /\ AtWork(r, e)
       /\ InPlace(r, e) \/ (part[Mine(r)][e] = 2 /\ disk /\ e \notin Held)
       /\ file' = [f \in Entries |->
                     IF ~x.stopped /\ \E c \in dropped : c[2] = f THEN 0
                     ELSE IF f = e THEN Mine(r) ELSE file[f]]
       /\ part' = IF InPlace(r, e) THEN part ELSE [part EXCEPT ![Mine(r)][e] = 0]
       /\ rows' = IF ~x.stopped /\ IsFrame(e) /\ e.view = "" THEN [rows EXCEPT ![e.num] = r] ELSE rows
       /\ clips' = IF x.stopped THEN clips ELSE (clips \cup keeps) \ dropped
       /\ Pumped(r, y, TurnOver(e))
       /\ UNCHANGED <<scene, node, disk, trouble>>

(* Verified and renamed into place (or found there already). The rows are
   written unless the run was stopped meanwhile: a one-file frame's at once, a
   view's by DrainReturns. A definitive clip retires the live ones, a live clip
   that comes after one is dropped, and a live clip drops the others. *)
Land(r, e) ==
    LET x == d[r]
        final == \E c \in clips : c[2].kind = "clip"
        dead == {c \in clips : c[2].kind = "live"}
        dropped == IF e.kind = "live" /\ final THEN {<<r, e>>}
                   ELSE IF e.kind \in {"live", "clip"} THEN dead \ {<<r, e>>} ELSE {}
        keeps == IF e.kind \in {"live", "clip"} THEN {<<r, e>>} ELSE {}
        y == [Ended(x, e) EXCEPT !.idle = 0, !.landedSince = x.heldOnce,
                                 !.landed = IF x.stopped THEN @ ELSE @ \cup {e}]
    IN /\ AtWork(r, e)
       /\ InPlace(r, e) \/ (part[Mine(r)][e] = 2 /\ disk /\ e \notin Held)
       /\ file' = [f \in Entries |->
                     IF ~x.stopped /\ \E c \in dropped : c[2] = f THEN 0
                     ELSE IF f = e THEN Mine(r) ELSE file[f]]
       /\ part' = IF InPlace(r, e) THEN part ELSE [part EXCEPT ![Mine(r)][e] = 0]
       /\ rows' = IF ~x.stopped /\ IsFrame(e) /\ e.view = "" THEN [rows EXCEPT ![e.num] = r] ELSE rows
       /\ clips' = IF x.stopped THEN clips ELSE (clips \cup keeps) \ dropped
       /\ Pumped(r, y, TurnOver(e))
       /\ UNCHANGED <<scene, node, disk, trouble>>

(* Aborted by stop(): failed() returns at once. *)
Abort(r, e) ==
    /\ AtWork(r, e) /\ d[r].stopped
    /\ d' = [d EXCEPT ![r] = Ended(@, e)]
    /\ turns' = TurnOver(e)
    /\ UNCHANGED <<scene, node, disk, trouble, file, part, rows, clips>>

(* A stall, a dropped connection, or bytes that fail their check (their partial
   goes): charged to the file. *)
FailTransient(r, e) ==
    /\ AtWork(r, e) /\ ~d[r].stopped /\ ~InPlace(r, e)
    /\ part' = [part EXCEPT ![Mine(r)][e] = IF @ = 2 THEN 0 ELSE @]
    /\ Pumped(r, Charged(Ended(d[r], e), e), ChargedTurns(TurnOver(e), r, e))
    /\ UNCHANGED <<scene, node, disk, trouble, file, rows, clips>>

(* Gone from the node (a live clip it pruned, a frame whose directory went):
   permanent, and lost if it is a frame. *)
FailGone(r, e) ==
    /\ AtWork(r, e) /\ ~d[r].stopped /\ ~InPlace(r, e)
    /\ e \in node[r].gone \/ IsFrame(e)
    /\ part[Mine(r)][e] < 2
    /\ node' = [node EXCEPT ![r].gone = @ \cup {e}]
    /\ LET y == Ended(d[r], e)
       IN Pumped(r, [y EXCEPT !.lost = IF IsFrame(e) THEN @ \cup {e} ELSE @], TurnOver(e))
    /\ UNCHANGED <<scene, disk, trouble, file, part, rows, clips>>

(* The local disk refuses the file. Already paused: back to the queue. Else the
   disk is asked before anything is charged (sinkRefused). *)
FailSink(r, e) ==
    /\ AtWork(r, e) /\ ~d[r].stopped /\ ~InPlace(r, e)
    /\ ~disk \/ (e \in Held /\ part[Mine(r)][e] = 2)
    /\ LET y == Ended(d[r], e)
       IN Pumped(r, IF trouble THEN [y EXCEPT !.queue = @ \cup {e}]
                    ELSE [y EXCEPT !.asking = @ \cup {e}], TurnOver(e))
    /\ UNCHANGED <<scene, node, disk, trouble, file, part, rows, clips>>

(* The disk's answer (sinkTakes): it takes files, so the refusal is this file's
   own and is charged; it does not, so every downloader pauses. *)
SinkAnswers(r, e) ==
    LET y == [d[r] EXCEPT !.asking = @ \ {e}]
    IN /\ e \in d[r].asking
       /\ \/ /\ y.stopped
             /\ d' = [d EXCEPT ![r] = y]
             /\ UNCHANGED <<turns, trouble>>
          \/ /\ ~y.stopped /\ disk
             /\ d' = [d EXCEPT ![r] = Charged(y, e)]
             /\ turns' = ChargedTurns(turns, r, e)
             /\ UNCHANGED trouble
          \/ /\ ~y.stopped /\ ~disk
             /\ d' = [d EXCEPT ![r] = [y EXCEPT !.queue = @ \cup {e}]]
             /\ trouble' = TRUE
             /\ UNCHANGED turns
       /\ UNCHANGED <<scene, node, disk, file, part, rows, clips>>

(* Mutant: a retry queued, and nothing started. *)
RetryWaits(r, e) ==
    LET y == [d[r] EXCEPT !.retrying = @ \ {e}]
    IN /\ e \in d[r].retrying
       /\ \/ /\ y.stopped
             /\ d' = [d EXCEPT ![r] = [y EXCEPT !.lost = IF IsFrame(e) THEN @ \cup {e} ELSE @]]
             /\ UNCHANGED turns
          \/ ~y.stopped /\ d' = [d EXCEPT ![r] = [y EXCEPT !.queue = @ \cup {e}]] /\ UNCHANGED turns
       /\ UNCHANGED <<scene, node, disk, trouble, file, part, rows, clips>>

(* The retry backoff ends: queued again, unless the run was stopped. *)
RetryFires(r, e) ==
    LET y == [d[r] EXCEPT !.retrying = @ \ {e}]
    IN /\ e \in d[r].retrying
       /\ \/ /\ y.stopped
             /\ d' = [d EXCEPT ![r] = [y EXCEPT !.lost = IF IsFrame(e) THEN @ \cup {e} ELSE @]]
             /\ UNCHANGED turns
          \/ ~y.stopped /\ Pumped(r, [y EXCEPT !.queue = @ \cup {e}], turns)
       /\ UNCHANGED <<scene, node, disk, trouble, file, part, rows, clips>>

(* probeSink, every 30 s while paused: the disk takes files, all wake. *)
Probe ==
    /\ trouble /\ disk
    /\ trouble' = FALSE
    /\ \E S \in [Runs -> UNION {Startable(d[r], ~Active(d[r])) : r \in Runs}] :
         /\ \A r \in Runs : S[r] \in Startable(d[r], ~Active(d[r]))
         /\ d' = [r \in Runs |-> Started(d[r], S[r])]
         /\ turns' = [e \in Entries |-> turns[e] \o
               SetToSeq({[run |-> r, op |-> "get"] : r \in {o \in Runs : e \in S[o]}})]
    /\ UNCHANGED <<scene, node, disk, file, part, rows, clips>>

(* discardPartial, at its turn. *)
Discard(e) ==
    /\ turns[e] # <<>> /\ turns[e][1].op = "rm"
    /\ part' = [part EXCEPT ![Mine(turns[e][1].run)][e] = 0]
    /\ turns' = TurnOver(e)
    /\ UNCHANGED <<scene, node, d, disk, trouble, file, rows, clips>>

(* ---- the specification ---- *)

Init ==
    /\ scene \in Scenes
    /\ node = [r \in Runs |-> [listed |-> {}, gone |-> {}]]
    /\ d = [r \in Runs |-> Idle]
    /\ disk = TRUE /\ trouble = FALSE
    /\ file = [e \in Entries |-> 0]
    /\ part = [c \in {Content[r] : r \in Runs} |-> [e \in Entries |-> 0]]
    /\ turns = [e \in Entries |-> <<>>]
    /\ rows = [f \in Frames |-> 0]
    /\ clips = {}

Transfer(r, e) ==
    \/ Fetch(r, e) \/ Land(r, e) \/ Abort(r, e) \/ FailTransient(r, e)
    \/ FailGone(r, e) \/ FailSink(r, e) \/ SinkAnswers(r, e) \/ RetryFires(r, e)

Drain(r) ==
    \/ DrainBegins(r) \/ FinalReadStarts(r) \/ FinalAnswers(r) \/ FinalReadFails(r)
    \/ Look(r) \/ Wakes(r) \/ DrainReturns(r)

Next ==
    \/ \E r \in Runs : Start(r) \/ PollReads(r) \/ PollAnswers(r) \/ Drain(r)
                       \/ Stop(r)
    \/ \E r \in Runs, e \in Entries : NodeLists(r, e) \/ Transfer(r, e)
    \/ \E e \in Entries : Discard(e)
    \/ Probe \/ DiskTurns

Spec == Init /\ [][Next]_vars

(* ---- what the downloader promises ---- *)

(* Every variable stays within its type. *)
TypeOK ==
    /\ scene \in Scenes
    /\ \A r \in Runs : node[r].listed \subseteq scene.entries /\ node[r].gone \subseteq node[r].listed
    /\ \A r \in Runs : LET x == d[r] IN
         /\ x.mode \in {"off", "polling", "final", "draining", "done"}
         /\ x.active \cup x.queue \cup x.retrying \cup x.asking \subseteq scene.entries
         /\ x.attempts \in [Entries -> 0..MaxAttempts]
         /\ x.hold \in 0..HoldLimit /\ x.idle \in 0..IdleLimit /\ x.reads \in 0..FinalReads
    /\ disk \in BOOLEAN /\ trouble \in BOOLEAN
    /\ \A c \in DOMAIN part : part[c] \in [Entries -> 0..2]
    /\ rows \in [Frames -> Runs \cup {0}]

(* A final pass that read the manifest and reports nothing lost and nothing
   held back has every frame file of its chunk that the manifest listed then
   (the run completes its chunk on this word): no retry, refusal or pause drops
   a file unreported. *)
Clean(x) == x.mode = "done" /\ x.readOK /\ (~x.stopped \/ x.gaveUp) /\ x.lost = {} /\ x.blocked = {}
CleanPassHasAll ==
    \A r \in Runs : Clean(d[r]) =>
        \A e \in UNION d[r].final : IsFrame(e) /\ IsOurFrame(d[r], e) => e \in d[r].landed

(* A frame marked downloaded is whole on this computer: every file the scene
   saves for it (one, or one per view) is in place, with the bytes of the very
   attempt its row names, whatever other attempts went on transferring. Frames
   in views of a chunk that is sent again are left out: the pass that gave up
   and was stopped meanwhile marks them late (OnlyOwnerMarks of ChunkLedger). *)
RowIsTheFile ==
    \A f \in Frames : rows[f] # 0 =>
        \A e \in scene.entries :
            IsFrame(e) /\ e.num = f /\ (e.view = "" \/ scene.tries = 1) => file[e] = Content[rows[f]]

(* No wakeup is missed: while the disk takes files, a downloader with files
   queued has all its slots busy, or only previews to start and one under way. *)
NoSlotIdles ==
    \A r \in Runs : LET x == d[r] IN
        Active(x) /\ ~trouble /\ x.queue # {} =>
            \/ Cardinality(x.active) >= MaxTransfers
            \/ \A e \in x.queue : IsPreview(e) /\ \E p \in x.active : IsPreview(p)

(* No live clip stays listed beside a definitive rendition of the chunk, in
   whichever order the two land. *)
DefinitiveRetiresLive ==
    (\E c \in clips : c[2].kind = "clip") => ~\E c \in clips : c[2].kind = "live"

(* Once every downloader has stopped and let go, the job folder holds no
   partial of a file the node still has. *)
Settled == \A r \in Runs : (d[r].mode = "off" \/ d[r].stopped) /\ d[r].active = {}
FolderIsClean ==
    Settled /\ (\A e \in Entries : turns[e] = <<>>) =>
        \A r \in Runs, e \in Entries :
            part[Content[r]][e] # 0 => \E o \in Runs : Content[o] = Content[r] /\ e \in node[o].gone

(* A stopped run writes no rows: a requeue may be rendering those frames again.
   Only a pass that gave up by itself still marks what it has (and that, the
   finding about OnlyOwnerMarks, even after its run was stopped meanwhile). *)
StoppedWritesNothing ==
    [][/\ \A f \in Frames : rows'[f] # rows[f] =>
            LET x == d[rows'[f]] IN ~x.stopped \/ x.gaveUp
       /\ \A c \in clips' \ clips : ~d[c[1]].stopped]_vars

(* The stop's promise (frameDownloader.ts: whatever the run had not landed
   leaves no partial behind in the job folder). *)
NothingLeftBehind ==
    Settled /\ (\A e \in Entries : turns[e] = <<>>) =>
        \A r \in Runs, e \in Entries : part[Content[r]][e] = 0

(* Only superseded live clips are dropped: the one listed never gives way to an
   older version of the same attempt. *)
LiveNeverGoesBack ==
    [][\A c, o \in clips \cup clips' :
        (/\ c[2].kind = "live" /\ o[2].kind = "live" /\ c[1] = o[1]
         /\ c \in clips /\ o \in clips' \ clips) => o[2].num > c[2].num]_vars

(* A drain ends, the node dead or the disk flapping without end: it holds its
   chunk and its billing node no longer than its limits. *)
DrainEnds == \A r \in Runs : d[r].mode = "final" ~> d[r].mode = "done"

(* Timers fire: the reads have a deadline and drain() looks again. A pause
   outlasts a look: the probe comes every 30 s and drain() looks every 250 ms,
   so a drain during which the disk refuses again and again does look during a
   pause. *)
Fairness ==
    \A r \in Runs :
        /\ WF_vars(FinalAnswers(r) \/ FinalReadFails(r))
        /\ WF_vars(Look(r)) /\ SF_vars(trouble /\ Look(r)) /\ WF_vars(DrainReturns(r))

LiveSpec == Spec /\ Fairness
====
