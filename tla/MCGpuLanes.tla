---------------------------- MODULE MCGpuLanes ----------------------------
(* Two queues: a mixed one over two nodes, and one scene's over one node. *)
EXTENDS GpuLanes

CONSTANTS k1, k2, k3, k4

TwoNodes == <<"n1", "n2">>
OneNode == <<"n1">>
NoNodes == {}
BothCards == [n \in {"n1"} |-> 2]
(* The agent of n2 sees one card of two: its pins fail. *)
OneBlind == [n \in {"n1", "n2"} |-> IF n = "n2" THEN 1 ELSE 2]

(* An Octane chunk only n1 takes, an exclusive one, and shared work without end. *)
MixedQueue == <<"octane", "lone", "shared1", "shared2">>
MixedShared == {"shared1", "shared2"}
MixedEngine ==
    [x \in ToSet(MixedQueue) |-> IF x = "octane" THEN x ELSE "cycles"]
MixedLight == [x \in ToSet(MixedQueue) |-> 10]
MixedEndless == {"octane", "shared1", "shared2"}
FirstNode == {"n1"}

LaneQueue == <<k1, k2, k3, k4>>
NoChunks == {}
AllLanes == {k1, k2, k3, k4}
LaneEngine == [x \in AllLanes |-> "cycles"]
LaneRam == [x \in AllLanes |-> 30]
LaneVram == [x \in AllLanes |-> 52]
(* Sound though the queue names them in order: the chunks are alike, and on the
   only node the one it failed has no other node to be left to. *)
Alike == Permutations(AllLanes)
====
