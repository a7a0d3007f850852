-------------------------- MODULE MCFrameTransfer --------------------------
EXTENDS FrameTransfer, TLC

Frame(n, v) == [kind |-> "frame", num |-> n, view |-> v]
LiveClip(n) == [kind |-> "live", num |-> n, view |-> ""]
Clip == [kind |-> "clip", num |-> 0, view |-> ""]

Chunk(E, n, a) ==
    [entries |-> E, tries |-> n, attempts |-> a, idle |-> 0, hold |-> 0, sleeps |-> 0]

(* A frame tried twice; a frame in two views; a frame whose file another
   program holds, and one the parser refuses; a preview and the definitive clip. *)
Retried == Chunk({Frame(1, "")}, 2, 2)
InViews == Chunk({Frame(1, "_L"), Frame(1, "_R")}, 1, 1)
Spoilt == Chunk({Frame(2, ""), Frame(3, "")}, 1, 2)
Clips == Chunk({LiveClip(1), Clip}, 1, 1)
OlderClips == Chunk({LiveClip(1), LiveClip(2)}, 1, 2)
(* A drain with time to wait, to be held up and to sleep. *)
Drained ==
    [Chunk({Frame(1, "")}, 1, 2) EXCEPT !.idle = 1, !.hold = 1, !.sleeps = 1]

AllScenes == {Retried, InViews, Spoilt, Clips, Drained}
PartialScenes == {Drained}
ClipScenes == {OlderClips, Drained}
(* A frame in three views. *)
ViewScenes == {Chunk({Frame(1, v) : v \in {"_L", "_C", "_R"}}, 1, 1)}
HeldFiles == {Frame(2, "")}
BadLines == {Frame(3, "")}
None == {}
OneTry == {1}
TwoTries == {1, 2}
OneBytes == <<1>>
OwnBytes == <<1, 2>>
====
