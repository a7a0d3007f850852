------------------------ MODULE FrameTransfer_proofs ------------------------
(***************************************************************************)
(* Theorems about FrameTransfer, for any chunks, any number of attempts,   *)
(* any transfer and retry limits, and any files the disk, the node or the  *)
(* parser refuses.                                                         *)
(***************************************************************************)
EXTENDS FrameTransfer, FiniteSetTheorems, TLAPS

-----------------------------------------------------------------------------
(* The parts of the inductive invariant. *)

Modes == {"off", "polling", "final", "draining", "done"}
Views == {e.view : e \in Entries} \ {""}
Downloader ==
    [mode : Modes, off : BOOLEAN, stopped : BOOLEAN, gaveUp : BOOLEAN,
     from : Int, to : Int, seen : SUBSET Entries, queue : SUBSET Entries,
     active : SUBSET Entries, retrying : SUBSET Entries, asking : SUBSET Entries,
     attempts : [Entries -> Nat], lost : SUBSET Entries, blocked : SUBSET Entries,
     views : SUBSET Views, landed : SUBSET Entries, polled : SUBSET SUBSET Entries,
     final : SUBSET SUBSET Entries, reads : Nat, readOK : BOOLEAN, slept : Nat,
     idle : Nat, hold : Nat, heldOnce : BOOLEAN, landedSince : BOOLEAN]

(* A file is in one pair of hands at most. *)
Apart(x) ==
    /\ x.queue \cap x.active = {} /\ x.queue \cap x.retrying = {} /\ x.queue \cap x.asking = {}
    /\ x.active \cap x.retrying = {} /\ x.active \cap x.asking = {}
    /\ x.retrying \cap x.asking = {}

(* Nothing is left of an abandoned downloader but transfers winding down. *)
Dropped(x) ==
    x.off /\ x.mode = "done" /\ x.queue \cup x.retrying \cup x.asking = {} /\ x.polled = {}

(* A downloader of a chunk whose node has listed L: its counters keep to their
   limits, and it handles what it has seen listed. *)
Counters(x) ==
    /\ x.attempts \in [Entries -> 0 .. MaxAttempts]
    /\ x.hold \in 0 .. HoldLimit /\ x.idle \in 0 .. IdleLimit /\ x.reads \in 0 .. FinalReads
    /\ x.mode \in {"off", "polling", "final"} => x.reads < FinalReads
    /\ \A e \in Entries \ x.seen : x.attempts[e] = 0
    /\ ~x.stopped => \A e \in Leftovers(x) : x.attempts[e] < MaxAttempts
Phases(x) ==
    /\ x.mode = "off" => x = Idle
    /\ x.off \/ x.gaveUp => x.stopped
    /\ x.stopped => x.mode \in {"draining", "done"}
Handles(x, L) ==
    /\ Apart(x)
    /\ Leftovers(x) \cup x.seen \subseteq L /\ \A text \in x.polled \cup x.final : text \subseteq L
    /\ Leftovers(x) \subseteq x.seen \/ Dropped(x)
    /\ \A a, b \in x.final : a = b
    /\ Cardinality(x.active) <= MaxTransfers
Fit(x, L) == x \in Downloader /\ Counters(x) /\ Phases(x) /\ Handles(x, L)

(* The writers of a path: each run transfers a file once, in a slot of its
   own, and behind the first in line only for a run still at it. *)
Turn == [run : Runs, op : {"get", "rm"}]
GetOf(t, e, o) == \E i \in DOMAIN t[e] : t[e][i] = [run |-> o, op |-> "get"]
RmOf(t, e, o) == \E i \in DOMAIN t[e] : t[e][i] = [run |-> o, op |-> "rm"]
TurnsFit(dd, t) ==
    /\ t \in [Entries -> Seq(Turn)]
    /\ \A e \in Entries : \A i \in DOMAIN t[e] : t[e][i].op = "get" =>
         /\ e \in dd[t[e][i].run].active
         /\ i > 1 => ~dd[t[e][i].run].stopped
    /\ \A e \in Entries : \A i, j \in DOMAIN t[e] :
         t[e][i].op = "get" /\ t[e][j].op = "get" /\ t[e][i].run = t[e][j].run => i = j

NodesFit ==
    /\ node \in [Runs -> [listed : SUBSET Entries, gone : SUBSET Entries]]
    /\ \A r \in Runs : node[r].listed \subseteq scene.entries /\ node[r].gone \subseteq node[r].listed

Contents == {Content[r] : r \in Runs}
FolderFit ==
    /\ file \in [Entries -> Contents \cup {0}]
    /\ part \in [Contents -> [Entries -> 0 .. 2]]
    /\ rows \in [Frames -> Runs \cup {0}]
    /\ clips \subseteq Runs \X Entries

DownloadersFit == d \in [Runs -> Downloader] /\ \A r \in Runs : Fit(d[r], node[r].listed)

BaseInv ==
    /\ scene \in Scenes /\ disk \in BOOLEAN /\ trouble \in BOOLEAN
    /\ NodesFit /\ FolderFit /\ DownloadersFit /\ TurnsFit(d, turns)

(* What a final pass may report: every frame of its chunk it has read of is
   landed, lost, held back, or, the pass going on, still in hand. *)
Reports(x, e) ==
    e \in x.landed \cup x.lost \cup x.blocked \cup IF x.stopped \/ x.mode = "done" THEN {} ELSE Leftovers(x)
Accounts(x) ==
    /\ ~x.stopped => \A e \in x.seen : IsFrame(e) /\ IsOurFrame(x, e) =>
         e \in x.landed \cup x.lost \cup x.blocked \cup Leftovers(x)
    /\ x.readOK /\ x.mode \in {"draining", "done"} =>
         \A e \in UNION x.final : IsFrame(e) /\ IsOurFrame(x, e) => Reports(x, e)
AccountsInv == \A r \in Runs : Accounts(d[r])

Slots(x, paused) ==
    Active(x) /\ ~paused /\ x.queue # {} =>
        \/ Cardinality(x.active) >= MaxTransfers
        \/ \A e \in x.queue : IsPreview(e) /\ \E p \in x.active : IsPreview(p)

(* A partial is somebody's: to be fetched further, removed in turn, or of a
   file gone from its node. And a file in place has none. *)
Minds(dd, t, nd, o, e) ==
    \/ e \in nd[o].gone
    \/ RmOf(t, e, o)
    \/ ~dd[o].stopped /\ e \in Leftovers(dd[o])
Kept(dd, t, nd, c, e) == \E o \in Runs : Content[o] = c /\ Minds(dd, t, nd, o, e)
PartialsInv ==
    \A c \in Contents, e \in Entries :
        part[c][e] # 0 => file[e] # c /\ Kept(d, turns, node, c, e)

SlotsInv == \A r \in Runs : Slots(d[r], trouble)
TransferInv == BaseInv /\ AccountsInv /\ SlotsInv /\ PartialsInv

(* One attempt at a time, whose views are those the scene saves. *)
SceneViews == {e.view : e \in {x \in scene.entries : IsFrame(x)}}
OneAtATime == \A o, r \in Runs : o < r /\ d[r].mode # "off" => d[o].off
ViewsListed == \A r \in Runs : d[r].views \subseteq SceneViews

(* A frame saved as one file: the attempt at work is for frames that were missing
   when it began, and a frame marked has no other writer left. *)
OneFile == SceneViews \subseteq {""}
OwnFrames ==
    \A r \in Runs : d[r].mode # "off" /\ ~d[r].off =>
        /\ \A e \in Leftovers(d[r]) : IsFrame(e) => IsOurFrame(d[r], e)
        /\ \A f \in Frames : d[r].from <= f /\ f <= d[r].to => rows[f] \in {0, r}
RowsOfOneFile ==
    \A f \in Frames : rows[f] # 0 =>
        \A e \in scene.entries : IsFrame(e) /\ e.num = f =>
            /\ file[e] = Content[rows[f]]
            /\ \A o \in Runs : GetOf(turns, e, o) => o = rows[f]

(* A frame saved in views, and sent once: what the only attempt has landed is in
   place, and so is every file of a frame it marked. *)
SentOnce ==
    /\ \A r \in Runs : d[r].mode # "off" => r = 1
    /\ \A r \in Runs : \A e \in d[r].landed : IsFrame(e) => file[e] = Content[r]
    /\ \A f \in Frames : rows[f] # 0 =>
         /\ rows[f] = 1
         /\ \A e \in scene.entries : IsFrame(e) /\ e.num = f => file[e] = Content[1]
RowsInv ==
    /\ OneAtATime /\ ViewsListed
    /\ OneFile => OwnFrames /\ RowsOfOneFile
    /\ ~OneFile /\ scene.tries = 1 => SentOnce

(* How a scene saves its frames: one file each, or two named views. *)
SavedOneWay ==
    \A s \in Scenes :
        LET views == {e.view : e \in {x \in s.entries : IsFrame(x)}}
        IN views \subseteq {""} \/ ("" \notin views /\ Cardinality(views) <= 2)

-----------------------------------------------------------------------------
(* Finite sets of naturals, and what is left of a queue. *)

\* A non-empty set of naturals has a least member.
LEMMA LeastOfNat ==
    ASSUME NEW T, T \subseteq Nat, T # {}
    PROVE  \E m \in T : \A k \in T : m <= k
<1>1. IsWellFoundedOn(OpToRel(<, Nat), Nat)
  BY NatLessThanWellFounded
<1>2. PICK m \in T : \A k \in T : ~ (<<k, m>> \in OpToRel(<, Nat))
  BY <1>1, WFMin
<1>3. \A k \in T : ~ (k < m)
  BY <1>2 DEF OpToRel
<1>. QED
  BY <1>3

\* A finite set of naturals is bounded.
LEMMA FiniteIsBounded ==
    ASSUME NEW T, T \subseteq Nat, IsFiniteSet(T)
    PROVE  \E b \in Nat : \A k \in T : k <= b
<1>1. PICK n \in Nat : ExistsBijection(1 .. n, T)
  BY FS_NatBijection
<1>2. PICK g \in [1 .. n -> T] : \A k \in T : \E i \in 1 .. n : g[i] = k
  BY <1>1 DEF ExistsBijection, Bijection, Surjection
<1>3. \A i \in 1 .. n : g[i] \in Nat
  BY <1>2
<1>. DEFINE Below(b, m) == \A i \in 1 .. m : g[i] <= b
            Bad == {m \in 0 .. n : ~\E b \in Nat : Below(b, m)}
<1>4. Bad = {}
  <2>. SUFFICES ASSUME Bad # {} PROVE FALSE
    OBVIOUS
  <2>1. PICK m \in Bad : \A k \in Bad : m <= k
    <3>1. Bad \subseteq Nat
      OBVIOUS
    <3>. HIDE DEF Bad
    <3>. QED
      BY <3>1, LeastOfNat
  <2>2. m \in 0 .. n /\ ~\E b \in Nat : Below(b, m)
    BY <2>1
  <2>3. m # 0
    <3>1. Below(0, 0)
      OBVIOUS
    <3>. QED
      BY <2>2, <3>1
  <2>4. m - 1 \in 0 .. n /\ m - 1 \notin Bad
    <3>. HIDE DEF Bad
    <3>1. m - 1 \in 0 .. n /\ ~(m <= m - 1)
      BY <2>2, <2>3
    <3>. QED
      BY <3>1, <2>1
  <2>5. PICK b \in Nat : Below(b, m - 1)
    BY <2>4
  <2>6. g[m] \in Nat /\ b + g[m] \in Nat
    <3>1. m \in 1 .. n
      BY <2>2, <2>3
    <3>2. g[m] \in Nat
      BY <1>3, <3>1
    <3>3. b \in Nat
      BY <2>5
    <3>. HIDE DEF Below, Bad
    <3>. QED
      BY <3>2, <3>3
  <2>7. Below(b + g[m], m)
    <3>1. SUFFICES ASSUME NEW i \in 1 .. m PROVE g[i] <= b + g[m]
      OBVIOUS
    <3>2. i = m \/ i \in 1 .. m - 1
      BY <2>2
    <3>3. i \in 1 .. n
      BY <2>2
    <3>4. g[i] \in Nat
      BY <1>3, <3>3
    <3>5. CASE i = m
      BY <3>5, <2>6
    <3>6. CASE i \in 1 .. m - 1
      <4>1. g[i] <= b
        BY <3>6, <2>5
      <4>. HIDE DEF Below
      <4>. QED
        BY <4>1, <3>4, <2>6
    <3>. QED
      BY <3>2, <3>5, <3>6
  <2>. QED
    BY <2>2, <2>6, <2>7
<1>5. \E b \in Nat : Below(b, n)
  <2>1. n \in 0 .. n
    OBVIOUS
  <2>. QED
    BY <1>4, <2>1
<1>6. PICK b \in Nat : Below(b, n)
  BY <1>5
<1>7. \A k \in T : k <= b
  BY <1>2, <1>6
<1>. QED
  BY <1>7

\* A non-empty finite set of naturals has a greatest member.
LEMMA GreatestOfFinite ==
    ASSUME NEW T, T \subseteq Nat, IsFiniteSet(T), T # {}
    PROVE  \E m \in T : \A k \in T : m >= k
<1>1. PICK b \in Nat : \A k \in T : k <= b
  BY FiniteIsBounded
<1>. DEFINE D == {b - k : k \in T}
<1>2. D \subseteq Nat /\ D # {}
  <2>1. \A k \in T : k \in Nat /\ b - k \in Nat
    BY <1>1
  <2>. QED
    BY <2>1
<1>3. PICK x \in D : \A y \in D : x <= y
  <2>. HIDE DEF D
  <2>. QED
    BY <1>2, LeastOfNat
<1>4. PICK m \in T : x = b - m
  BY <1>3
<1>5. \A k \in T : b - m <= b - k
  BY <1>3, <1>4
<1>. QED
  BY <1>4, <1>5, <1>1

-----------------------------------------------------------------------------
(* stop() keeps some of the writers of a path, in their order. *)

UpTo(S, i) == {j \in S : j <= i}
Rank(S, i) == Cardinality(UpTo(S, i))

LEMMA UpToFinite ==
    ASSUME NEW k \in Nat, NEW S, S \subseteq 1 .. k, NEW i \in Int
    PROVE  /\ IsFiniteSet(S) /\ IsFiniteSet(UpTo(S, i))
           /\ Rank(S, i) \in 0 .. Cardinality(S) /\ Cardinality(S) \in Nat
<1>1. IsFiniteSet(1 .. k) /\ S \in SUBSET (1 .. k)
  BY FS_Interval
<1>2. IsFiniteSet(S)
  BY <1>1, FS_Subset
<1>3. UpTo(S, i) \in SUBSET S
  BY DEF UpTo
<1>4. IsFiniteSet(UpTo(S, i)) /\ Cardinality(UpTo(S, i)) <= Cardinality(S)
  BY <1>2, <1>3, FS_Subset
<1>5. Cardinality(UpTo(S, i)) \in Nat /\ Cardinality(S) \in Nat
  BY <1>2, <1>4, FS_CardinalityType
<1>. QED
  BY <1>2, <1>4, <1>5 DEF Rank

\* The places up to the next one.
LEMMA UpToStep ==
    ASSUME NEW k \in Nat, NEW S, S \subseteq 1 .. k, NEW i \in Int
    PROVE  /\ i \in S => UpTo(S, i) = UpTo(S, i - 1) \cup {i}
           /\ i \notin S => UpTo(S, i) = UpTo(S, i - 1)
           /\ i \notin UpTo(S, i - 1)
<1>1. \A j \in S : j \in Int
  OBVIOUS
<1>2. \A j \in S : j <= i <=> j <= i - 1 \/ j = i
  BY <1>1
<1>3. ~(i <= i - 1)
  OBVIOUS
<1>. QED
  BY <1>2, <1>3 DEF UpTo

\* The next member adds one to the rank.
LEMMA RankStep ==
    ASSUME NEW k \in Nat, NEW S, S \subseteq 1 .. k, NEW i \in Int
    PROVE  Rank(S, i) = IF i \in S THEN Rank(S, i - 1) + 1 ELSE Rank(S, i - 1)
<1>1. CASE i \in S
  <2>1. UpTo(S, i) = UpTo(S, i - 1) \cup {i} /\ i \notin UpTo(S, i - 1)
    BY <1>1, UpToStep
  <2>2. i - 1 \in Int
    OBVIOUS
  <2>3. IsFiniteSet(UpTo(S, i - 1))
    BY <2>2, UpToFinite
  <2>. QED
    BY <1>1, <2>1, <2>3, FS_AddElement DEF Rank
<1>2. CASE i \notin S
  <2>1. UpTo(S, i) = UpTo(S, i - 1)
    BY <1>2, UpToStep
  <2>. QED
    BY <1>2, <2>1 DEF Rank
<1>. QED
  BY <1>1, <1>2

\* Ranks grow with their members.
LEMMA RankGrows ==
    ASSUME NEW k \in Nat, NEW S, S \subseteq 1 .. k, NEW i \in S, NEW j \in S, i < j
    PROVE  Rank(S, i) < Rank(S, j)
<1>1. i \in Int /\ j \in Int /\ j - 1 \in Int
  OBVIOUS
<1>2. UpTo(S, i) \in SUBSET UpTo(S, j - 1)
  <2>1. \A x \in S : x \in Int
    OBVIOUS
  <2>2. \A x \in S : x <= i => x <= j - 1
    BY <1>1, <2>1
  <2>. QED
    BY <2>2 DEF UpTo
<1>3. IsFiniteSet(UpTo(S, j - 1))
  BY <1>1, UpToFinite
<1>4. Rank(S, i) <= Rank(S, j - 1)
  BY <1>2, <1>3, FS_Subset DEF Rank
<1>5. Rank(S, j) = Rank(S, j - 1) + 1
  BY <1>1, RankStep
<1>6. Rank(S, i) \in Int /\ Rank(S, j - 1) \in Int
  <2>1. Rank(S, i) \in 0 .. Cardinality(S) /\ Rank(S, j - 1) \in 0 .. Cardinality(S)
    BY <1>1, UpToFinite
  <2>. QED
    BY <2>1
<1>. QED
  BY <1>4, <1>5, <1>6

\* Every rank up to the number of members is some member's.
LEMMA RankReached ==
    ASSUME NEW k \in Nat, NEW S, S \subseteq 1 .. k, NEW n \in 1 .. Cardinality(S)
    PROVE  \E i \in S : Rank(S, i) = n
<1>. DEFINE Far == {m \in 0 .. k : Rank(S, m) >= n}
<1>1. UpTo(S, k) = S /\ UpTo(S, 0) = {}
  <2>1. \A j \in S : j <= k /\ ~(j <= 0)
    OBVIOUS
  <2>. QED
    BY <2>1 DEF UpTo
<1>2. Rank(S, k) = Cardinality(S) /\ Rank(S, 0) = 0
  BY <1>1, FS_EmptySet DEF Rank
<1>3. Cardinality(S) \in Nat
  <2>1. k \in Int
    OBVIOUS
  <2>. QED
    BY <2>1, UpToFinite
<1>4. k \in Far /\ 0 \notin Far /\ Far \subseteq Nat
  BY <1>2, <1>3
<1>5. PICK m \in Far : \A x \in Far : m <= x
  <2>. HIDE DEF Far
  <2>. QED
    BY <1>4, LeastOfNat
<1>6. m \in 0 .. k /\ m # 0
  BY <1>4
<1>7. m \in Int /\ m - 1 \in Int /\ m - 1 \in 0 .. k
  BY <1>6
<1>8. m - 1 \notin Far
  <2>. HIDE DEF Far
  <2>. QED
    BY <1>5, <1>7
<1>9. Rank(S, m - 1) \in 0 .. Cardinality(S) /\ Rank(S, m) \in 0 .. Cardinality(S)
  BY <1>7, UpToFinite
<1>10. Rank(S, m) = IF m \in S THEN Rank(S, m - 1) + 1 ELSE Rank(S, m - 1)
  BY <1>7, RankStep
<1>11. Rank(S, m) >= n /\ ~(Rank(S, m - 1) >= n)
  BY <1>7, <1>8
<1>12. m \in S
  BY <1>9, <1>10, <1>11
<1>13. Rank(S, m) = n
  BY <1>3, <1>9, <1>10, <1>11, <1>12
<1>. QED
  BY <1>12, <1>13

\* The first member has rank one.
LEMMA RankOfOne ==
    ASSUME NEW k \in Nat, NEW S, S \subseteq 1 .. k, 1 \in S
    PROVE  Rank(S, 1) = 1
<1>1. UpTo(S, 1) = {1}
  <2>1. \A j \in S : j <= 1 <=> j = 1
    OBVIOUS
  <2>. QED
    BY <2>1 DEF UpTo
<1>. QED
  BY <1>1, FS_Singleton DEF Rank

\* The members of a queue at the places S, in their order.
Picked(s, S) == [n \in 1 .. Cardinality(S) |-> s[CHOOSE i \in S : Rank(S, i) = n]]

LEMMA PickedKeeps ==
    ASSUME NEW T, NEW s \in Seq(T), NEW S, S \subseteq DOMAIN s
    PROVE  /\ Picked(s, S) \in Seq(T)
           /\ DOMAIN Picked(s, S) = 1 .. Cardinality(S)
           /\ \A n \in DOMAIN Picked(s, S) :
                \E i \in S : Rank(S, i) = n /\ Picked(s, S)[n] = s[i]
           /\ \A i \in S : \E n \in DOMAIN Picked(s, S) : Picked(s, S)[n] = s[i]
<1>1. PICK k \in Nat : k = Len(s) /\ DOMAIN s = 1 .. k
  OBVIOUS
<1>2. S \subseteq 1 .. k
  BY <1>1
<1>3. Cardinality(S) \in Nat
  BY <1>1, <1>2, UpToFinite
<1>4. \A n \in 1 .. Cardinality(S) :
        LET i == CHOOSE i \in S : Rank(S, i) = n IN i \in S /\ Rank(S, i) = n
  BY <1>2, RankReached
<1>5. DOMAIN Picked(s, S) = 1 .. Cardinality(S)
  BY DEF Picked
<1>6. \A n \in 1 .. Cardinality(S) :
        \E i \in S : Rank(S, i) = n /\ Picked(s, S)[n] = s[i]
  BY <1>4 DEF Picked
<1>7. \A i \in S : s[i] \in T
  BY <1>1, <1>2
<1>8. Picked(s, S) \in Seq(T)
  <2>1. \A n \in 1 .. Cardinality(S) : Picked(s, S)[n] \in T
    BY <1>6, <1>7
  <2>2. Picked(s, S) \in [1 .. Cardinality(S) -> T]
    BY <2>1 DEF Picked
  <2>. QED
    BY <2>2, <1>3
<1>9. ASSUME NEW i \in S
      PROVE  \E n \in 1 .. Cardinality(S) : Picked(s, S)[n] = s[i]
  <2>. DEFINE n == Rank(S, i)
  <2>1. i \in Int /\ i - 1 \in Int
    BY <1>2
  <2>2. n \in 0 .. Cardinality(S) /\ Rank(S, i - 1) \in 0 .. Cardinality(S)
    BY <1>2, <2>1, UpToFinite
  <2>3. n = Rank(S, i - 1) + 1
    BY <1>2, <2>1, RankStep
  <2>4. n \in 1 .. Cardinality(S)
    BY <1>3, <2>2, <2>3
  <2>5. PICK j \in S : Rank(S, j) = n /\ Picked(s, S)[n] = s[j]
    BY <2>4, <1>6
  <2>6. ~(n < n)
    BY <2>2, <1>3
  <2>7. ~(i < j) /\ ~(j < i)
    BY <2>5, <2>6, <1>2, RankGrows
  <2>8. i = j
    BY <2>7, <1>2
  <2>. QED
    BY <2>4, <2>5, <2>8
<1>. QED
  BY <1>5, <1>6, <1>8, <1>9

\* The sequence of a finite set lists each member once.
LEMMA SetToSeqLists ==
    ASSUME NEW S, IsFiniteSet(S)
    PROVE  /\ SetToSeq(S) \in Seq(S)
           /\ DOMAIN SetToSeq(S) = 1 .. Cardinality(S) /\ Cardinality(S) \in Nat
           /\ \A i, j \in DOMAIN SetToSeq(S) : SetToSeq(S)[i] = SetToSeq(S)[j] => i = j
<1>1. Cardinality(S) \in Nat
  BY FS_CardinalityType
<1>2. ExistsBijection(1 .. Cardinality(S), S)
  BY FS_CardinalityType
<1>3. \E f \in [1 .. Cardinality(S) -> S] : IsInjective(f)
  BY <1>2 DEF ExistsBijection, Bijection, Injection, IsInjective
<1>4. SetToSeq(S) \in [1 .. Cardinality(S) -> S] /\ IsInjective(SetToSeq(S))
  BY <1>3 DEF SetToSeq
<1>. QED
  BY <1>1, <1>4 DEF IsInjective

-----------------------------------------------------------------------------
(* One downloader: what pump() starts, and what each step makes of it. *)

LEMMA HandsAreFinite ==
    ASSUME NEW S, S \subseteq Entries
    PROVE  IsFiniteSet(S) /\ Cardinality(S) \in Nat
<1>1. S \in SUBSET Entries
  OBVIOUS
<1>2. IsFiniteSet(S)
  BY <1>1, TransferAssumption, FS_Subset DEF TransferAssumption
<1>. QED
  BY <1>2, FS_CardinalityType

\* The sizes of two sets of files with none in common add up.
LEMMA HandsAddUp ==
    ASSUME NEW S, S \subseteq Entries, NEW T, T \subseteq Entries, S \cap T = {}
    PROVE  Cardinality(S \cup T) = Cardinality(S) + Cardinality(T)
<1>1. IsFiniteSet(S) /\ IsFiniteSet(T) /\ Cardinality(S) \in Nat /\ Cardinality(T) \in Nat
  BY HandsAreFinite
<1>2. Cardinality(S \cup T) = Cardinality(S) + Cardinality(T) - Cardinality(S \cap T)
  BY <1>1, FS_Union
<1>3. Cardinality(S \cap T) = 0
  BY FS_EmptySet
<1>. QED
  BY <1>1, <1>2, <1>3

LEMMA FewerHands ==
    ASSUME NEW S, S \subseteq Entries, NEW T, T \subseteq S
    PROVE  Cardinality(T) <= Cardinality(S)
<1>1. IsFiniteSet(S) /\ T \in SUBSET S
  BY HandsAreFinite
<1>. QED
  BY <1>1, FS_Subset

\* What pump() starts was queued, fits into the slots, and leaves none idle that
\* it could fill.
LEMMA PumpFills ==
    ASSUME NEW x \in Downloader, NEW p \in BOOLEAN, NEW S \in Startable(x, p),
           x.queue \cap x.active = {}, Cardinality(x.active) <= MaxTransfers
    PROVE  /\ S \subseteq x.queue
           /\ x.stopped \/ p => S = {}
           /\ Cardinality(x.active \cup S) <= MaxTransfers
           /\ Slots(Started(x, S), p)
<1>. DEFINE y == Started(x, S)
            room == MaxTransfers - Cardinality(x.active)
            previews == {e \in x.queue : IsPreview(e)}
            others == x.queue \ previews
<1>1. /\ x.queue \subseteq Entries /\ x.active \subseteq Entries
      /\ Cardinality(x.active) \in Nat /\ MaxTransfers \in Nat /\ MaxTransfers >= 1
  BY HandsAreFinite, TransferAssumption DEF Downloader, TransferAssumption
<1>2. room \in Nat
  BY <1>1
<1>3. /\ y.queue = x.queue \ S /\ y.active = x.active \cup S
      /\ y.mode = x.mode /\ y.stopped = x.stopped
  BY DEF Started, Downloader
<1>4. CASE x.stopped \/ p
  <2>1. S = {}
    BY <1>4 DEF Startable
  <2>2. x.active \cup S = x.active
    BY <2>1
  <2>. QED
    BY <1>3, <1>4, <2>1, <2>2 DEF Slots, Active
<1>5. CASE ~(x.stopped \/ p)
  <2>1. PICK F, T :
          /\ S = F \cup T
          /\ \/ F = {} /\ ~(room > 0 /\ previews # {} /\ ~\E e \in x.active : IsPreview(e))
             \/ room > 0 /\ \E e \in previews : F = {e}
          /\ \/ T = others /\ Cardinality(others) <= room - Cardinality(F)
             \/ T \in SUBSET others /\ Cardinality(T) = room - Cardinality(F)
    <3>. DEFINE wanted == {e \in previews : \A q \in previews : ClassOf(e) <= ClassOf(q)}
                first == IF room > 0 /\ previews # {} /\ ~\E e \in x.active : IsPreview(e)
                         THEN {{e} : e \in wanted} ELSE {{}}
                Rest(H) == IF Cardinality(others) <= room - Cardinality(H) THEN {others}
                           ELSE kSubset(room - Cardinality(H), others)
    <3>1. Startable(x, p) = UNION {{H \cup R : R \in Rest(H)} : H \in first}
      BY <1>5 DEF Startable
    <3>2. PICK H \in first : \E R \in Rest(H) : S = H \cup R
      <4>. HIDE DEF first, Rest
      <4>. QED
        BY <3>1
    <3>3. PICK R \in Rest(H) : S = H \cup R
      BY <3>2
    <3>4. \/ R = others /\ Cardinality(others) <= room - Cardinality(H)
          \/ R \in SUBSET others /\ Cardinality(R) = room - Cardinality(H)
      <4>. HIDE DEF others, room
      <4>. QED
        BY <3>3 DEF kSubset
    <3>5. \/ H = {} /\ ~(room > 0 /\ previews # {} /\ ~\E e \in x.active : IsPreview(e))
          \/ room > 0 /\ \E e \in previews : H = {e}
      <4>. HIDE DEF previews, room
      <4>. QED
        BY <3>2
    <3>. QED
      BY <3>3, <3>4, <3>5
  <2>2. F \subseteq previews /\ T \subseteq others
    BY <2>1
  <2>3. F \subseteq Entries /\ T \subseteq Entries /\ F \cap T = {} /\ S \subseteq x.queue
    BY <2>1, <2>2, <1>1
  <2>4. Cardinality(S) = Cardinality(F) + Cardinality(T)
    BY <2>1, <2>3, HandsAddUp
  <2>5. Cardinality(F) \in Nat /\ Cardinality(T) \in Nat
    BY <2>3, HandsAreFinite
  <2>6. Cardinality(T) <= room - Cardinality(F)
    <3>. HIDE DEF room, others, previews
    <3>. QED
      BY <2>1, <2>5, <1>2
  <2>7. Cardinality(x.active \cup S) = Cardinality(x.active) + Cardinality(S)
    <3>1. S \subseteq Entries /\ x.active \cap S = {}
      BY <2>3, <1>1
    <3>. QED
      BY <3>1, <1>1, HandsAddUp
  <2>8. Cardinality(x.active \cup S) <= MaxTransfers
    BY <2>4, <2>5, <2>6, <2>7, <1>1
  <2>9. CASE T = others
    <3>1. \A e \in x.queue \ S : IsPreview(e) /\ e \in previews
      BY <2>1, <2>9
    <3>2. CASE F = {} /\ room = 0
      <4>1. Cardinality(x.active \cup S) >= MaxTransfers
        <5>1. Cardinality(x.active) = MaxTransfers
          BY <3>2, <1>1
        <5>2. Cardinality(x.active) <= Cardinality(x.active \cup S)
          BY <2>4, <2>5, <2>7, <1>1
        <5>3. Cardinality(x.active \cup S) \in Nat
          BY <2>4, <2>5, <2>7, <1>1
        <5>. QED
          BY <5>1, <5>2, <5>3, <1>1
      <4>2. Cardinality(y.active) >= MaxTransfers
        BY <4>1, <1>3
      <4>3. Slots(y, p)
        BY <4>2 DEF Slots
      <4>. QED
        BY <4>3, <2>3, <2>8, <1>5
    <3>3. CASE F = {} /\ room # 0
      <4>1. room > 0
        BY <3>3, <1>2
      <4>2. previews = {} \/ \E e \in x.active : IsPreview(e)
        BY <2>1, <3>3, <4>1
      <4>3. \A e \in y.queue : IsPreview(e) /\ e \in previews
        BY <1>3, <3>1
      <4>4. y.queue # {} => \E e \in y.active : IsPreview(e)
        BY <4>2, <4>3, <1>3
      <4>5. Slots(y, p)
        <5>. HIDE DEF y, previews
        <5>. QED
          BY <4>3, <4>4 DEF Slots
      <4>. QED
        BY <4>5, <2>3, <2>8, <1>5
    <3>4. CASE F # {}
      <4>1. \E e \in S : IsPreview(e)
        BY <2>1, <3>4
      <4>2. \A e \in y.queue : IsPreview(e)
        BY <1>3, <3>1
      <4>3. \E e \in y.active : IsPreview(e)
        BY <4>1, <1>3
      <4>4. Slots(y, p)
        <5>. HIDE DEF y, previews
        <5>. QED
          BY <4>2, <4>3 DEF Slots
      <4>. QED
        BY <4>4, <2>3, <2>8, <1>5
    <3>. QED
      BY <3>2, <3>3, <3>4
  <2>10. CASE T # others
    <3>1. Cardinality(T) = room - Cardinality(F)
      BY <2>1, <2>10
    <3>2. Cardinality(x.active \cup S) = MaxTransfers
      BY <3>1, <2>4, <2>5, <2>7, <1>1
    <3>3. Cardinality(y.active) >= MaxTransfers
      BY <3>2, <1>3, <1>1
    <3>. QED
      BY <3>3, <2>3, <2>8, <1>5 DEF Slots
  <2>. QED
    BY <2>9, <2>10
<1>. QED
  BY <1>4, <1>5

LEMMA LimitsAreNat ==
    scene \in Scenes =>
        /\ MaxAttempts \in Nat /\ MaxAttempts >= 1
        /\ {HoldLimit, IdleLimit, MaxSleeps, FinalReads, MaxTransfers, LiveKept} \subseteq Nat
        /\ FinalReads >= 1 /\ MaxTransfers >= 1 /\ LiveKept >= 1
  BY TransferAssumption
     DEF TransferAssumption, MaxAttempts, HoldLimit, IdleLimit, MaxSleeps

\* A downloader that starts what was queued.
LEMMA StartedFits ==
    ASSUME NEW L, NEW x, Fit(x, L), NEW S, S \subseteq x.queue, x.stopped => S = {},
           Cardinality(x.active \cup S) <= MaxTransfers
    PROVE  Fit(Started(x, S), L)
<1>. DEFINE y == Started(x, S)
<1>1. x \in Downloader /\ Counters(x) /\ Phases(x) /\ Handles(x, L)
  BY DEF Fit
<1>2. y \in Downloader
  BY <1>1 DEF Started, Downloader
<1>3. Leftovers(y) = Leftovers(x)
  BY <1>1 DEF Started, Downloader, Leftovers
<1>4. Counters(y)
  BY <1>1, <1>3 DEF Counters, Started, Downloader
<1>5. Phases(y)
  <2>1. x.mode = "off" => y = x
    <3>. SUFFICES ASSUME x.mode = "off" PROVE y = x
      OBVIOUS
    <3>1. x.queue = {} /\ S = {}
      BY <1>1 DEF Phases, Idle
    <3>. QED
      BY <3>1, <1>1 DEF Started, Downloader
  <2>. QED
    BY <2>1, <1>1 DEF Phases, Started, Downloader
<1>6. Handles(y, L)
  BY <1>1, <1>3 DEF Handles, Apart, Dropped, Started, Downloader
<1>. QED
  BY <1>2, <1>4, <1>5, <1>6 DEF Fit

\* A downloader that takes a manifest text.
LEMMA TakenFits ==
    ASSUME scene \in Scenes, NEW L, L \subseteq Entries, NEW x, Fit(x, L), NEW text, text \subseteq L, x.polled # {} \/ ~x.off,
           x.mode # "off"
    PROVE  Fit(Taken(x, text), L)
<1>. DEFINE y == Taken(x, text)
<1>1. x \in Downloader /\ Counters(x) /\ Phases(x) /\ Handles(x, L)
  BY DEF Fit
<1>2. y \in Downloader
  BY <1>1 DEF Taken, Downloader, Views
<1>3. /\ x.queue \subseteq y.queue /\ y.queue \subseteq x.queue \cup (text \ x.seen)
      /\ y.queue \subseteq x.queue \cup y.seen
      /\ y.active = x.active /\ y.retrying = x.retrying /\ y.asking = x.asking
      /\ x.seen \subseteq y.seen /\ y.seen \subseteq x.seen \cup text
      /\ y.polled = x.polled /\ y.final = x.final /\ y.attempts = x.attempts
      /\ y.mode = x.mode /\ y.stopped = x.stopped /\ y.off = x.off /\ y.gaveUp = x.gaveUp
      /\ y.hold = x.hold /\ y.idle = x.idle /\ y.reads = x.reads
  BY <1>1 DEF Taken, Downloader
<1>4. ~Dropped(x) /\ Leftovers(x) \subseteq x.seen
  BY <1>1 DEF Dropped, Handles
<1>5. Counters(y)
  <2>1. \A e \in Leftovers(y) : e \in Leftovers(x) \/ e \in Entries \ x.seen
    BY <1>3 DEF Leftovers
  <2>. QED
    BY <1>1, <1>3, <2>1, LimitsAreNat DEF Counters
<1>6. Phases(y)
  BY <1>1, <1>3 DEF Phases
<1>7. Handles(y, L)
  BY <1>1, <1>3, <1>4 DEF Handles, Apart, Leftovers
<1>. QED
  BY <1>2, <1>5, <1>6, <1>7 DEF Fit

\* A downloader whose transfer of e is over.
LEMMA EndedFits ==
    ASSUME NEW L, L \subseteq Entries, NEW x, Fit(x, L), NEW e \in x.active
    PROVE  /\ Fit(Ended(x, e), L) /\ e \notin Leftovers(Ended(x, e))
           /\ Ended(x, e).mode # "off"
           /\ ~x.stopped => e \in Ended(x, e).seen /\ Ended(x, e).attempts[e] < MaxAttempts
<1>. DEFINE y == Ended(x, e)
<1>1. x \in Downloader /\ Counters(x) /\ Phases(x) /\ Handles(x, L)
  BY DEF Fit
<1>2. y \in Downloader
  BY <1>1 DEF Ended, Downloader
<1>3. y = [x EXCEPT !.active = x.active \ {e}] /\ y.active = x.active \ {e}
  BY <1>1 DEF Ended, Downloader
<1>4. Leftovers(y) = Leftovers(x) \ {e}
  BY <1>1, <1>3 DEF Handles, Apart, Leftovers, Downloader
<1>5. Counters(y)
  BY <1>1, <1>4 DEF Counters, Ended, Downloader
<1>6. x.mode # "off"
  BY <1>1 DEF Phases, Idle
<1>7. Phases(y)
  BY <1>1, <1>6 DEF Phases, Ended, Downloader
<1>8. Cardinality(y.active) <= MaxTransfers
  <2>1. x.active \subseteq Entries /\ y.active \subseteq x.active /\ y.active \subseteq Entries
    BY <1>1, <1>3 DEF Downloader
  <2>2. Cardinality(y.active) <= Cardinality(x.active) /\ Cardinality(x.active) \in Nat
        /\ Cardinality(y.active) \in Nat
    BY <2>1, FewerHands, HandsAreFinite
  <2>3. Cardinality(x.active) <= MaxTransfers
    BY <1>1 DEF Handles
  <2>4. MaxTransfers \in Nat
    BY TransferAssumption DEF TransferAssumption
  <2>. QED
    BY <2>2, <2>3, <2>4
<1>9. Handles(y, L)
  BY <1>1, <1>4, <1>8 DEF Handles, Apart, Dropped, Ended, Downloader
<1>10. ~x.stopped => e \in y.seen /\ y.attempts[e] < MaxAttempts
  BY <1>1 DEF Counters, Phases, Handles, Dropped, Leftovers, Ended, Downloader
<1>11. y.mode # "off"
  BY <1>6, <1>1 DEF Ended, Downloader
<1>. QED
  BY <1>2, <1>4, <1>5, <1>7, <1>9, <1>10, <1>11 DEF Fit

\* A downloader that charges a failure to a file out of its hands.
LEMMA ChargedFits ==
    ASSUME scene \in Scenes, NEW L, L \subseteq Entries, NEW x, Fit(x, L), ~x.stopped, x.mode # "off",
           NEW e \in x.seen, e \notin Leftovers(x), x.attempts[e] < MaxAttempts
    PROVE  Fit(Charged(x, e), L)
<1>. DEFINE y == Charged(x, e)
<1>1. x \in Downloader /\ Counters(x) /\ Phases(x) /\ Handles(x, L) /\ e \in Entries
  BY DEF Fit, Downloader
<1>2. x.attempts[e] \in Nat /\ MaxAttempts \in Nat
  BY <1>1, LimitsAreNat DEF Counters
<1>. DEFINE z == [x EXCEPT !.attempts = [x.attempts EXCEPT ![e] = x.attempts[e] + 1]]
<1>z. z \in Downloader /\ z.retrying = x.retrying /\ z.lost = x.lost
  BY <1>1, <1>2 DEF Downloader
<1>3. y \in Downloader
  <2>1. y = z \/ y = [z EXCEPT !.retrying = z.retrying \cup {e}] \/ y = [z EXCEPT !.lost = z.lost \cup {e}]
    BY <1>1, <1>2 DEF Charged, Downloader
  <2>2. [z EXCEPT !.retrying = z.retrying \cup {e}] \in Downloader
    BY <1>z, <1>1 DEF Downloader
  <2>3. [z EXCEPT !.lost = z.lost \cup {e}] \in Downloader
    BY <1>z, <1>1 DEF Downloader
  <2>. QED
    BY <1>z, <2>1, <2>2, <2>3
<1>4. /\ y.retrying \subseteq x.retrying \cup {e}
      /\ e \in y.retrying => x.attempts[e] + 1 < MaxAttempts
      /\ y.attempts = [x.attempts EXCEPT ![e] = @ + 1]
      /\ y.queue = x.queue /\ y.active = x.active /\ y.asking = x.asking
      /\ y.seen = x.seen /\ y.polled = x.polled /\ y.final = x.final
      /\ y.mode = x.mode /\ y.stopped = x.stopped /\ y.off = x.off /\ y.gaveUp = x.gaveUp
      /\ y.hold = x.hold /\ y.idle = x.idle /\ y.reads = x.reads
  BY <1>1, <1>2 DEF Charged, LastAttempt, Downloader, Leftovers
<1>5. Leftovers(y) \subseteq Leftovers(x) \cup {e} /\ (e \in Leftovers(y) => e \in y.retrying)
  BY <1>4 DEF Leftovers
<1>6. \A f \in Entries : y.attempts[f] = IF f = e THEN x.attempts[e] + 1 ELSE x.attempts[f]
  BY <1>1, <1>4 DEF Downloader
<1>7. Counters(y)
  <2>1. \A f \in Entries : y.attempts[f] \in 0 .. MaxAttempts
    BY <1>1, <1>2, <1>6 DEF Counters
  <2>2. \A f \in Leftovers(y) : y.attempts[f] < MaxAttempts
    BY <1>1, <1>4, <1>5, <1>6 DEF Counters, Leftovers, Downloader
  <2>3. \A f \in Entries \ y.seen : y.attempts[f] = 0
    BY <1>1, <1>4, <1>6 DEF Counters
  <2>4. y.attempts \in [Entries -> 0 .. MaxAttempts]
    BY <2>1, <1>3 DEF Downloader
  <2>. QED
    BY <2>2, <2>3, <2>4, <1>1, <1>4 DEF Counters
<1>8. Phases(y)
  BY <1>1, <1>4 DEF Phases
<1>9. Handles(y, L)
  <2>1. Leftovers(x) \subseteq x.seen
    BY <1>1 DEF Handles, Dropped, Phases
  <2>2. Leftovers(y) \subseteq y.seen
    BY <2>1, <1>4, <1>5
  <2>3. e \in L
    BY <1>1 DEF Handles
  <2>4. Apart(y)
    BY <1>1, <1>4 DEF Handles, Apart, Leftovers
  <2>. QED
    BY <2>1, <2>2, <2>3, <2>4, <1>1, <1>4, <1>5 DEF Handles
<1>. QED
  BY <1>3, <1>7, <1>8, <1>9 DEF Fit

\* A file out of its hands goes back to the queue, or waits for the disk's answer.
LEMMA HandedFits ==
    ASSUME scene \in Scenes, NEW L, L \subseteq Entries, NEW x, Fit(x, L), ~x.stopped, x.mode # "off",
           NEW e \in x.seen, e \notin Leftovers(x), x.attempts[e] < MaxAttempts
    PROVE  /\ Fit([x EXCEPT !.queue = @ \cup {e}], L)
           /\ Fit([x EXCEPT !.asking = @ \cup {e}], L)
<1>1. x \in Downloader /\ Counters(x) /\ Phases(x) /\ Handles(x, L) /\ e \in Entries
  BY DEF Fit, Downloader
<1>2. Leftovers(x) \subseteq x.seen /\ e \in L
  BY <1>1 DEF Handles, Dropped, Phases
<1>3. ASSUME NEW y, \/ y = [x EXCEPT !.queue = x.queue \cup {e}]
                    \/ y = [x EXCEPT !.asking = x.asking \cup {e}]
      PROVE  Fit(y, L)
  <2>1. y \in Downloader
    BY <1>1, <1>3 DEF Downloader
  <2>2. Leftovers(y) = Leftovers(x) \cup {e}
    BY <1>1, <1>3 DEF Leftovers, Downloader
  <2>3. /\ y.attempts = x.attempts /\ y.retrying = x.retrying /\ y.active = x.active
        /\ y.seen = x.seen /\ y.polled = x.polled /\ y.final = x.final
        /\ y.mode = x.mode /\ y.stopped = x.stopped /\ y.off = x.off /\ y.gaveUp = x.gaveUp
        /\ y.hold = x.hold /\ y.idle = x.idle /\ y.reads = x.reads
    BY <1>1, <1>3 DEF Downloader
  <2>4. Counters(y)
    BY <1>1, <2>2, <2>3 DEF Counters
  <2>5. Phases(y)
    BY <1>1, <2>3 DEF Phases
  <2>6. Apart(y)
    BY <1>1, <1>3 DEF Handles, Apart, Leftovers, Downloader
  <2>7. Handles(y, L)
    BY <1>1, <1>2, <2>2, <2>3, <2>6 DEF Handles
  <2>. QED
    BY <2>1, <2>4, <2>5, <2>7 DEF Fit
<1>. QED
  BY <1>3

\* A file leaves the hands of a backoff, or of the question to the disk.
TakenBack(x, y, e) ==
    \/ e \in x.asking /\ y = [x EXCEPT !.asking = x.asking \ {e}]
    \/ e \in x.retrying /\ y = [x EXCEPT !.retrying = x.retrying \ {e}]

LEMMA TakenBackFits ==
    ASSUME NEW L, L \subseteq Entries, NEW x, Fit(x, L), NEW e, NEW y, TakenBack(x, y, e)
    PROVE  /\ Fit(y, L) /\ e \notin Leftovers(y) /\ e \in y.seen
           /\ y.mode # "off" /\ y.stopped = x.stopped /\ y.attempts = x.attempts
           /\ ~x.stopped => y.attempts[e] < MaxAttempts
<1>1. x \in Downloader /\ Counters(x) /\ Phases(x) /\ Handles(x, L)
      /\ e \in Entries /\ e \in x.asking \cup x.retrying
  BY DEF Fit, Downloader, TakenBack
<1>2. y \in Downloader
  BY <1>1 DEF Downloader, TakenBack
<1>3. Leftovers(y) = Leftovers(x) \ {e}
  BY <1>1 DEF Handles, Apart, Leftovers, Downloader, TakenBack
<1>4. /\ y.attempts = x.attempts /\ y.queue = x.queue /\ y.active = x.active
      /\ y.seen = x.seen /\ y.polled = x.polled /\ y.final = x.final
      /\ y.mode = x.mode /\ y.stopped = x.stopped /\ y.off = x.off /\ y.gaveUp = x.gaveUp
      /\ y.hold = x.hold /\ y.idle = x.idle /\ y.reads = x.reads
      /\ y.asking \subseteq x.asking /\ y.retrying \subseteq x.retrying
  BY <1>1 DEF Downloader, TakenBack
<1>5. Counters(y)
  BY <1>1, <1>3, <1>4 DEF Counters
<1>6. x.mode # "off" /\ ~Dropped(x)
  BY <1>1 DEF Phases, Idle, Dropped
<1>7. Phases(y)
  BY <1>1, <1>4, <1>6 DEF Phases
<1>8. Handles(y, L)
  BY <1>1, <1>3, <1>4, <1>6 DEF Handles, Apart
<1>9. e \in Leftovers(x)
  BY <1>1 DEF Leftovers
<1>10. e \in y.seen /\ (~x.stopped => y.attempts[e] < MaxAttempts)
  BY <1>1, <1>4, <1>6, <1>9 DEF Handles, Counters
<1>. QED
  BY <1>2, <1>3, <1>4, <1>5, <1>6, <1>7, <1>8, <1>10 DEF Fit

\* What a downloader has lost, landed or found held back is no matter to its hands.
SameHands(x, y) ==
    /\ y.attempts = x.attempts /\ y.queue = x.queue /\ y.active = x.active
    /\ y.retrying = x.retrying /\ y.asking = x.asking
    /\ y.seen = x.seen /\ y.polled = x.polled /\ y.final = x.final
    /\ y.mode = x.mode /\ y.stopped = x.stopped /\ y.off = x.off /\ y.gaveUp = x.gaveUp
    /\ y.reads = x.reads /\ y.hold \in 0 .. HoldLimit /\ y.idle \in 0 .. IdleLimit

LEMMA SameHandsFit ==
    ASSUME NEW L, NEW x, Fit(x, L), x.mode # "off", NEW y \in Downloader, SameHands(x, y)
    PROVE  Fit(y, L)
<1>1. Leftovers(y) = Leftovers(x)
  BY DEF Leftovers, SameHands
<1>2. Counters(y) /\ Phases(y) /\ Handles(y, L)
  BY <1>1 DEF Fit, SameHands, Counters, Phases, Handles, Apart, Dropped
<1>. QED
  BY <1>2 DEF Fit

\* A downloader stopped with the transfers A at work.
Halted(x, A) == [x EXCEPT !.stopped = TRUE, !.active = A]

LEMMA StoppedFits ==
    ASSUME NEW L, L \subseteq Entries, NEW x, Fit(x, L), x.mode # "off", NEW A, A \subseteq x.active
    PROVE  /\ Halted(x, A) \in Downloader /\ Counters(Halted(x, A)) /\ Handles(Halted(x, A), L)
           /\ Halted(x, A).active = A
           /\ x.mode = "draining" => Fit(Halted(x, A), L)
<1>. DEFINE y == [x EXCEPT !.stopped = TRUE, !.active = A]
<1>1. x \in Downloader /\ Counters(x) /\ Phases(x) /\ Handles(x, L)
  BY DEF Fit
<1>2. y \in Downloader
  BY <1>1 DEF Downloader
<1>3. Leftovers(y) \subseteq Leftovers(x)
  BY <1>1 DEF Leftovers, Downloader
<1>4. Counters(y) /\ (x.mode = "draining" => Phases(y)) /\ y.active = A
  BY <1>1 DEF Counters, Phases, Downloader
<1>5. Cardinality(A) <= MaxTransfers
  <2>1. x.active \subseteq Entries /\ A \subseteq Entries
    BY <1>1 DEF Downloader
  <2>2. Cardinality(A) <= Cardinality(x.active) /\ Cardinality(x.active) \in Nat /\ Cardinality(A) \in Nat
    BY <2>1, FewerHands, HandsAreFinite
  <2>3. Cardinality(x.active) <= MaxTransfers /\ MaxTransfers \in Nat
    BY <1>1, TransferAssumption DEF Handles, TransferAssumption
  <2>. QED
    BY <2>2, <2>3
<1>6. Handles(y, L)
  BY <1>1, <1>3, <1>5 DEF Handles, Apart, Dropped, Downloader
<1>. QED
  BY <1>2, <1>4, <1>6 DEF Fit, Halted

\* An abandoned downloader.
LEMMA AbandonedFits ==
    ASSUME scene \in Scenes, NEW L, L \subseteq Entries, NEW x, Fit(x, L), x.mode # "off", NEW r \in Runs
    PROVE  Fit(Abandoned(r, x), L)
<1>. DEFINE y == Abandoned(r, x)
            A == {e \in x.active : AtWork(r, e)}
<1>1. x \in Downloader /\ Counters(x) /\ Phases(x) /\ Handles(x, L)
  BY DEF Fit
<1>2. CASE x.stopped /\ x.mode = "draining"
  <2>1. y = [x EXCEPT !.off = TRUE]
    BY <1>2 DEF Abandoned
  <2>2. y \in Downloader
    <3>1. [x EXCEPT !.off = TRUE] \in Downloader
      BY <1>1 DEF Downloader
    <3>. QED
      BY <2>1, <3>1
  <2>3. /\ y.attempts = x.attempts /\ y.queue = x.queue /\ y.active = x.active
        /\ y.retrying = x.retrying /\ y.asking = x.asking
        /\ y.seen = x.seen /\ y.polled = x.polled /\ y.final = x.final
        /\ y.mode = x.mode /\ y.stopped = x.stopped
        /\ y.hold = x.hold /\ y.idle = x.idle /\ y.reads = x.reads
    BY <1>1, <2>1 DEF Downloader
  <2>4. Leftovers(y) = Leftovers(x)
    BY <2>3 DEF Leftovers
  <2>5. Counters(y) /\ Phases(y)
    BY <1>1, <1>2, <2>3, <2>4 DEF Counters, Phases
  <2>6. Handles(y, L)
    BY <1>1, <1>2, <2>3, <2>4 DEF Handles, Apart, Dropped
  <2>. QED
    BY <2>2, <2>5, <2>6 DEF Fit
<1>3. CASE ~(x.stopped /\ x.mode = "draining")
  <2>1. y = [Idle EXCEPT !.mode = "done", !.off = TRUE, !.stopped = TRUE, !.active = A]
    <3>1. Stopped(r, x).active = A
      BY <1>1 DEF Stopped, Downloader
    <3>. QED
      BY <1>3, <3>1 DEF Abandoned
  <2>2. A \subseteq x.active /\ A \subseteq Entries
    BY <1>1 DEF Downloader
  <2>3. Handles(Halted(x, A), L) /\ Halted(x, A).active = A
    <3>. HIDE DEF A
    <3>. QED
      BY <2>2, StoppedFits
  <2>4. Cardinality(A) <= MaxTransfers /\ A \subseteq L
    BY <2>3 DEF Handles, Leftovers
  <2>5. /\ y.active = A /\ y.queue = {} /\ y.retrying = {} /\ y.asking = {} /\ y.seen = {}
        /\ y.polled = {} /\ y.final = {} /\ y.mode = "done" /\ y.off /\ y.stopped
        /\ y.attempts = [e \in Entries |-> 0] /\ y.hold = 0 /\ y.idle = 0 /\ y.reads = 0
    BY <2>1 DEF Idle
  <2>6. y \in Downloader
    <3>. DEFINE z == [Idle EXCEPT !.mode = "done", !.off = TRUE, !.stopped = TRUE, !.active = A]
    <3>1. z \in Downloader
      <4>1. Idle \in Downloader
        BY DEF Idle, Downloader, Modes
      <4>. HIDE DEF A
      <4>. QED
        BY <2>2, <4>1 DEF Downloader, Modes
    <3>. QED
      BY <2>1, <3>1
  <2>7. Leftovers(y) = A
    BY <2>5 DEF Leftovers
  <2>8. Counters(y)
    BY <2>5, LimitsAreNat DEF Counters
  <2>9. Phases(y)
    BY <2>5 DEF Phases
  <2>10. Handles(y, L)
    BY <2>4, <2>5, <2>7 DEF Handles, Apart, Dropped
  <2>. QED
    BY <2>6, <2>8, <2>9, <2>10 DEF Fit
<1>. QED
  BY <1>2, <1>3

-----------------------------------------------------------------------------
(* The writers of a path. *)

LEMMA AppendAt ==
    ASSUME NEW T, NEW s \in Seq(T), NEW x \in T
    PROVE  /\ Append(s, x) \in Seq(T)
           /\ \A i \in DOMAIN s : i \in DOMAIN Append(s, x) /\ Append(s, x)[i] = s[i]
           /\ \A i \in DOMAIN Append(s, x) : \/ i \in DOMAIN s /\ Append(s, x)[i] = s[i]
                                             \/ i = Len(s) + 1 /\ Append(s, x)[i] = x
           /\ Len(s) + 1 \in DOMAIN Append(s, x) /\ Append(s, x)[Len(s) + 1] = x
<1>1. Append(s, x) \in Seq(T)
  OBVIOUS
<1>2. DOMAIN s = 1 .. Len(s) /\ Len(s) \in Nat /\ DOMAIN Append(s, x) = 1 .. Len(s) + 1
  OBVIOUS
<1>3. \A i \in DOMAIN s : Append(s, x)[i] = s[i]
  OBVIOUS
<1>4. Append(s, x)[Len(s) + 1] = x
  OBVIOUS
<1>5. \A i \in DOMAIN s : i \in DOMAIN Append(s, x)
  BY <1>2
<1>6. \A i \in DOMAIN Append(s, x) : i \in DOMAIN s \/ i = Len(s) + 1
  BY <1>2
<1>7. Len(s) + 1 \in DOMAIN Append(s, x)
  BY <1>2
<1>8. \A i \in DOMAIN Append(s, x) : \/ i \in DOMAIN s /\ Append(s, x)[i] = s[i]
                                     \/ i = Len(s) + 1 /\ Append(s, x)[i] = x
  BY <1>3, <1>4, <1>6, Zenon
<1>9. \A i \in DOMAIN s : i \in DOMAIN Append(s, x) /\ Append(s, x)[i] = s[i]
  BY <1>3, <1>5, Zenon
<1>. QED
  BY <1>1, <1>4, <1>7, <1>8, <1>9, Zenon

LEMMA TailAt ==
    ASSUME NEW T, NEW s \in Seq(T), s # <<>>
    PROVE  /\ Tail(s) \in Seq(T) /\ 1 \in DOMAIN s
           /\ \A i \in DOMAIN Tail(s) :
                /\ i \in Nat /\ i + 1 \in DOMAIN s /\ i + 1 > 1 /\ i + 1 # 1
                /\ Tail(s)[i] = s[i + 1]
           /\ \A i \in DOMAIN s : i # 1 => i - 1 \in DOMAIN Tail(s) /\ Tail(s)[i - 1] = s[i]
<1>1. 1 \in DOMAIN s
  OBVIOUS
<1>2. Tail(s) \in Seq(T)
  OBVIOUS
<1>3. DOMAIN s = 1 .. Len(s) /\ Len(s) \in Nat /\ DOMAIN Tail(s) = 1 .. (Len(s) - 1)
  OBVIOUS
<1>4. \A i \in DOMAIN Tail(s) : Tail(s)[i] = s[i + 1]
  OBVIOUS
<1>5. \A i \in DOMAIN Tail(s) : i \in Nat /\ i + 1 \in DOMAIN s /\ i + 1 > 1 /\ i + 1 # 1
  BY <1>3
<1>6. ASSUME NEW i \in DOMAIN s, i # 1 PROVE i - 1 \in DOMAIN Tail(s) /\ Tail(s)[i - 1] = s[i]
  <2>1. i - 1 \in DOMAIN Tail(s) /\ (i - 1) + 1 = i
    BY <1>3, <1>6
  <2>. QED
    BY <1>4, <2>1
<1>. QED
  BY <1>1, <1>2, <1>4, <1>5, <1>6

\* The line changes with the slots: nobody loses a slot it needs or is stopped.
LEMMA TurnsKeepFit ==
    ASSUME NEW dd, NEW de, NEW t, TurnsFit(dd, t),
           \A r \in Runs : dd[r].active \subseteq de[r].active /\ (de[r].stopped => dd[r].stopped)
    PROVE  TurnsFit(de, t)
<1>1. ASSUME NEW e \in Entries, NEW i \in DOMAIN t[e] PROVE t[e][i].run \in Runs
  <2>1. t[e] \in Seq(Turn)
    BY DEF TurnsFit
  <2>2. t[e][i] \in Turn
    BY <2>1
  <2>. QED
    BY <2>2 DEF Turn
<1>. QED
  BY <1>1 DEF TurnsFit

\* pump() puts the files it starts at the end of their lines.
LEMMA QueuedFits ==
    ASSUME NEW dd, NEW de, NEW t, TurnsFit(dd, t), NEW r \in Runs, NEW S, S \subseteq Entries,
           S \cap dd[r].active = {}, S \subseteq de[r].active, de[r].stopped => S = {},
           \A o \in Runs : dd[o].active \subseteq de[o].active /\ (de[o].stopped => dd[o].stopped)
    PROVE  /\ TurnsFit(de, Queued(t, r, S))
           /\ \A e \in Entries, o \in Runs :
                /\ GetOf(Queued(t, r, S), e, o) => GetOf(t, e, o) \/ (o = r /\ e \in S)
                /\ RmOf(t, e, o) => RmOf(Queued(t, r, S), e, o)
<1>. DEFINE q == Queued(t, r, S)
            new == [run |-> r, op |-> "get"]
<1>1. t \in [Entries -> Seq(Turn)] /\ new \in Turn
  BY DEF TurnsFit, Turn
<1>2. \A e \in Entries : q[e] = IF e \in S THEN Append(t[e], new) ELSE t[e]
  BY DEF Queued
<1>3. q \in [Entries -> Seq(Turn)]
  BY <1>1 DEF Queued
<1>a. \A e \in Entries : t[e] \in Seq(Turn)
  BY <1>1
<1>4. ASSUME NEW e \in Entries, NEW i \in DOMAIN q[e]
      PROVE  \/ i \in DOMAIN t[e] /\ q[e][i] = t[e][i]
             \/ e \in S /\ i = Len(t[e]) + 1 /\ q[e][i] = new
  <2>1. LET s == Append(t[e], new)
        IN /\ \A j \in DOMAIN t[e] : j \in DOMAIN s /\ s[j] = t[e][j]
           /\ \A j \in DOMAIN s : \/ j \in DOMAIN t[e] /\ s[j] = t[e][j]
                                  \/ j = Len(t[e]) + 1 /\ s[j] = new
    BY <1>1, <1>a, AppendAt
  <2>. HIDE DEF new, q
  <2>. QED
    BY <1>2, <2>1
<1>5. ASSUME NEW e \in Entries, NEW i \in DOMAIN t[e] PROVE i \in DOMAIN q[e] /\ q[e][i] = t[e][i]
  <2>1. LET s == Append(t[e], new)
        IN /\ \A j \in DOMAIN t[e] : j \in DOMAIN s /\ s[j] = t[e][j]
           /\ \A j \in DOMAIN s : \/ j \in DOMAIN t[e] /\ s[j] = t[e][j]
                                  \/ j = Len(t[e]) + 1 /\ s[j] = new
    BY <1>1, <1>a, AppendAt
  <2>. HIDE DEF new, q
  <2>. QED
    BY <1>2, <2>1
<1>. HIDE DEF q
<1>6. TurnsFit(de, t)
  BY TurnsKeepFit
<1>7. ASSUME NEW e \in Entries, NEW i \in DOMAIN q[e], q[e][i].op = "get"
      PROVE  /\ e \in de[q[e][i].run].active
             /\ i > 1 => ~de[q[e][i].run].stopped
  BY <1>4, <1>6, <1>7 DEF TurnsFit
<1>8. ASSUME NEW e \in Entries, NEW i \in DOMAIN q[e], NEW j \in DOMAIN q[e],
             q[e][i].op = "get", q[e][j].op = "get", q[e][i].run = q[e][j].run
      PROVE  i = j
  <2>1. \A k \in DOMAIN t[e] : t[e][k].op = "get" /\ t[e][k].run = r => e \notin S
    BY DEF TurnsFit
  <2>2. CASE i \in DOMAIN t[e] /\ q[e][i] = t[e][i] /\ j \in DOMAIN t[e] /\ q[e][j] = t[e][j]
    BY <1>8, <2>2 DEF TurnsFit
  <2>. QED
    BY <1>4, <1>8, <2>1, <2>2
<1>9. TurnsFit(de, q)
  BY <1>3, <1>7, <1>8 DEF TurnsFit
<1>10. ASSUME NEW e \in Entries, NEW o \in Runs
       PROVE  /\ GetOf(q, e, o) => GetOf(t, e, o) \/ (o = r /\ e \in S)
              /\ RmOf(t, e, o) => RmOf(q, e, o)
  BY <1>4, <1>5 DEF GetOf, RmOf
<1>. QED
  BY <1>9, <1>10 DEF q

\* A removal joins a line.
LEMMA RemovalFits ==
    ASSUME NEW dd, NEW t, TurnsFit(dd, t), NEW r \in Runs, NEW f \in Entries
    PROVE  /\ TurnsFit(dd, Discarding(t, r, f)) /\ RmOf(Discarding(t, r, f), f, r)
           /\ \A e \in Entries, o \in Runs :
                /\ GetOf(Discarding(t, r, f), e, o) => GetOf(t, e, o)
                /\ RmOf(t, e, o) => RmOf(Discarding(t, r, f), e, o)
<1>. DEFINE q == Discarding(t, r, f)
            new == [run |-> r, op |-> "rm"]
<1>1. t \in [Entries -> Seq(Turn)] /\ new \in Turn
  BY DEF TurnsFit, Turn
<1>2. \A e \in Entries : q[e] = IF e = f THEN Append(t[e], new) ELSE t[e]
  BY <1>1 DEF Discarding
<1>3. q \in [Entries -> Seq(Turn)]
  BY <1>1 DEF Discarding
<1>a. \A e \in Entries : t[e] \in Seq(Turn)
  BY <1>1
<1>4. ASSUME NEW e \in Entries, NEW i \in DOMAIN q[e]
      PROVE  \/ i \in DOMAIN t[e] /\ q[e][i] = t[e][i]
             \/ q[e][i] = new
  <2>1. LET s == Append(t[e], new)
        IN /\ \A j \in DOMAIN t[e] : j \in DOMAIN s /\ s[j] = t[e][j]
           /\ \A j \in DOMAIN s : \/ j \in DOMAIN t[e] /\ s[j] = t[e][j]
                                  \/ j = Len(t[e]) + 1 /\ s[j] = new
    BY <1>1, <1>a, AppendAt
  <2>. HIDE DEF new, q
  <2>. QED
    BY <1>2, <2>1
<1>5. ASSUME NEW e \in Entries, NEW i \in DOMAIN t[e] PROVE i \in DOMAIN q[e] /\ q[e][i] = t[e][i]
  <2>1. LET s == Append(t[e], new)
        IN /\ \A j \in DOMAIN t[e] : j \in DOMAIN s /\ s[j] = t[e][j]
           /\ \A j \in DOMAIN s : \/ j \in DOMAIN t[e] /\ s[j] = t[e][j]
                                  \/ j = Len(t[e]) + 1 /\ s[j] = new
    BY <1>1, <1>a, AppendAt
  <2>. HIDE DEF new, q
  <2>. QED
    BY <1>2, <2>1
<1>6. RmOf(q, f, r)
  <2>1. LET s == Append(t[f], new) IN Len(t[f]) + 1 \in DOMAIN s /\ s[Len(t[f]) + 1] = new
    BY <1>1, <1>a, AppendAt
  <2>2. Len(t[f]) + 1 \in DOMAIN q[f] /\ q[f][Len(t[f]) + 1] = new
    <3>. HIDE DEF new, q
    <3>. QED
      BY <1>2, <2>1
  <2>. QED
    BY <2>2 DEF RmOf
<1>. HIDE DEF q
<1>7. TurnsFit(dd, q)
  <2>1. \A e \in Entries : \A i \in DOMAIN q[e] : q[e][i].op = "get" =>
          i \in DOMAIN t[e] /\ q[e][i] = t[e][i]
    BY <1>4
  <2>. HIDE DEF new
  <2>. QED
    BY <1>3, <2>1 DEF TurnsFit
<1>8. ASSUME NEW e \in Entries, NEW o \in Runs
      PROVE  /\ GetOf(q, e, o) => GetOf(t, e, o)
             /\ RmOf(t, e, o) => RmOf(q, e, o)
  BY <1>4, <1>5 DEF GetOf, RmOf
<1>. QED
  BY <1>6, <1>7, <1>8 DEF q

\* The first in line has had its turn.
LEMMA TurnOverFits ==
    ASSUME TurnsFit(d, turns), NEW f \in Entries, turns[f] # <<>>, NEW de,
           \A o \in Runs : \A e \in d[o].active : e \in de[o].active
                                                \/ (e = f /\ turns[f][1] = [run |-> o, op |-> "get"]),
           \A o \in Runs : de[o].stopped => d[o].stopped
    PROVE  /\ TurnsFit(de, TurnOver(f))
           /\ \A e \in Entries, o \in Runs :
                /\ GetOf(TurnOver(f), e, o) => GetOf(turns, e, o)
                /\ GetOf(TurnOver(f), f, o) => ~d[o].stopped /\ turns[f][1] # [run |-> o, op |-> "get"]
                /\ RmOf(turns, e, o) => RmOf(TurnOver(f), e, o)
                                     \/ (e = f /\ turns[f][1] = [run |-> o, op |-> "rm"])
<1>. DEFINE q == TurnOver(f)
<1>1. turns \in [Entries -> Seq(Turn)]
  BY DEF TurnsFit
<1>2. \A e \in Entries : q[e] = IF e = f THEN Tail(turns[e]) ELSE turns[e]
  BY <1>1 DEF TurnOver
<1>3. q \in [Entries -> Seq(Turn)]
  BY <1>1 DEF TurnOver
<1>a. \A e \in Entries : turns[e] \in Seq(Turn)
  BY <1>1
<1>b. /\ \A j \in DOMAIN Tail(turns[f]) :
           /\ j \in Nat /\ j + 1 \in DOMAIN turns[f] /\ j + 1 > 1 /\ j + 1 # 1
           /\ Tail(turns[f])[j] = turns[f][j + 1]
      /\ \A j \in DOMAIN turns[f] :
           j # 1 => j - 1 \in DOMAIN Tail(turns[f]) /\ Tail(turns[f])[j - 1] = turns[f][j]
  BY <1>a, TailAt
<1>4. ASSUME NEW e \in Entries, NEW i \in DOMAIN q[e]
      PROVE  IF e = f THEN i + 1 \in DOMAIN turns[e] /\ i + 1 > 1 /\ q[e][i] = turns[e][i + 1]
             ELSE i \in DOMAIN turns[e] /\ q[e][i] = turns[e][i]
  <2>1. CASE e # f
    BY <1>2, <2>1, Zenon
  <2>2. CASE e = f
    <3>1. q[f] = Tail(turns[f])
      BY <1>2
    <3>2. i \in DOMAIN Tail(turns[f])
      BY <3>1, <2>2
    <3>. QED
      BY <1>b, <2>2, <3>1, <3>2, Zenon
  <2>. QED
    BY <2>1, <2>2
<1>5. ASSUME NEW e \in Entries, NEW i \in DOMAIN turns[e], e # f \/ i # 1
      PROVE  \E j \in DOMAIN q[e] : q[e][j] = turns[e][i]
  <2>1. CASE e # f
    BY <1>2, <2>1
  <2>2. CASE e = f
    <3>1. i - 1 \in DOMAIN q[e] /\ q[e][i - 1] = turns[e][i]
      <4>. HIDE DEF q
      <4>. QED
        BY <1>2, <1>5, <1>b, <2>2
    <3>. QED
      BY <3>1
  <2>. QED
    BY <2>1, <2>2
<1>6. 1 \in DOMAIN turns[f]
  BY <1>a, TailAt
<1>7. ASSUME NEW e \in Entries, NEW i \in DOMAIN q[e]
      PROVE  i \in Nat /\ q[e][i] \in Turn
  BY <1>3
<1>. HIDE DEF q
<1>8. ASSUME NEW e \in Entries, NEW i \in DOMAIN q[e], q[e][i].op = "get"
      PROVE  /\ e \in de[q[e][i].run].active
             /\ i > 1 => ~de[q[e][i].run].stopped
             /\ e = f => ~d[q[e][i].run].stopped /\ turns[f][1] # [run |-> q[e][i].run, op |-> "get"]
  <2>. DEFINE o == q[e][i].run
  <2>1. o \in Runs
    BY <1>7 DEF Turn
  <2>2. CASE e # f
    <3>1. i \in DOMAIN turns[e] /\ q[e][i] = turns[e][i]
      BY <1>4, <2>2
    <3>2. e \in d[o].active /\ (i > 1 => ~d[o].stopped)
      BY <1>8, <3>1 DEF TurnsFit
    <3>. QED
      BY <2>1, <2>2, <3>2
  <2>3. CASE e = f
    <3>1. /\ i + 1 \in DOMAIN turns[e] /\ i + 1 > 1 /\ turns[e][i + 1] = q[e][i]
          /\ i + 1 # 1
      BY <1>4, <2>3, <1>7
    <3>2. e \in d[o].active /\ ~d[o].stopped
      BY <1>8, <3>1 DEF TurnsFit
    <3>3. turns[f][1] # [run |-> o, op |-> "get"]
      BY <1>6, <1>8, <2>3, <3>1 DEF TurnsFit
    <3>. QED
      BY <2>1, <2>3, <3>2, <3>3
  <2>. QED
    BY <2>2, <2>3
<1>9. ASSUME NEW e \in Entries, NEW i \in DOMAIN q[e], NEW j \in DOMAIN q[e],
             q[e][i].op = "get", q[e][j].op = "get", q[e][i].run = q[e][j].run
      PROVE  i = j
  <2>1. CASE e # f
    BY <1>4, <1>9, <2>1 DEF TurnsFit
  <2>2. CASE e = f
    <3>1. i + 1 = j + 1
      BY <1>4, <1>9, <2>2 DEF TurnsFit
    <3>. QED
      BY <1>7, <3>1
  <2>. QED
    BY <2>1, <2>2
<1>10. TurnsFit(de, q)
  BY <1>3, <1>8, <1>9 DEF TurnsFit
<1>11. ASSUME NEW e \in Entries, NEW o \in Runs
       PROVE  /\ GetOf(q, e, o) => GetOf(turns, e, o)
              /\ GetOf(q, f, o) => ~d[o].stopped /\ turns[f][1] # [run |-> o, op |-> "get"]
              /\ RmOf(turns, e, o) => RmOf(q, e, o)
                                   \/ (e = f /\ turns[f][1] = [run |-> o, op |-> "rm"])
  <2>1. GetOf(q, e, o) => GetOf(turns, e, o)
    BY <1>4 DEF GetOf
  <2>2. GetOf(q, f, o) => ~d[o].stopped /\ turns[f][1] # [run |-> o, op |-> "get"]
    BY <1>8 DEF GetOf
  <2>3. RmOf(turns, e, o) => RmOf(q, e, o) \/ (e = f /\ turns[f][1] = [run |-> o, op |-> "rm"])
    BY <1>5 DEF RmOf
  <2>. QED
    BY <2>1, <2>2, <2>3
<1>. QED
  BY <1>10, <1>11 DEF q


\* stop(): what waited its turn leaves its line, and a removal joins it.
LEMMA StoppedTurnsFit ==
    ASSUME TurnsFit(d, turns), NEW r \in Runs, NEW x, NEW de,
           \A o \in Runs \ {r} : de[o] = d[o],
           de[r].active = {e \in d[r].active : AtWork(r, e)}
    PROVE  /\ TurnsFit(de, TurnsStopped(r, x))
           /\ \A e \in Entries, o \in Runs :
                /\ GetOf(TurnsStopped(r, x), e, o) => GetOf(turns, e, o)
                /\ RmOf(turns, e, o) => RmOf(TurnsStopped(r, x), e, o)
           /\ \A e \in Entries : e \in Leftovers(x) => RmOf(TurnsStopped(r, x), e, r)
<1>. DEFINE new == [run |-> r, op |-> "rm"]
            get == [run |-> r, op |-> "get"]
            S(e) == {i \in DOMAIN turns[e] : ~(turns[e][i] = get /\ i > 1)}
            kept(e) == Picked(turns[e], S(e))
            q == TurnsStopped(r, x)
<1>1. /\ turns \in [Entries -> Seq(Turn)] /\ new \in Turn
      /\ \A e \in Entries : turns[e] \in Seq(Turn) /\ S(e) \subseteq DOMAIN turns[e]
  BY DEF TurnsFit, Turn
<1>2. q = [e \in Entries |-> IF e \in Leftovers(x) THEN Append(kept(e), new) ELSE kept(e)]
  BY DEF TurnsStopped, Picked, Rank, UpTo
<1>3. \A e \in Entries : q[e] = IF e \in Leftovers(x) THEN Append(kept(e), new) ELSE kept(e)
  BY <1>2
<1>4. ASSUME NEW e \in Entries
      PROVE  /\ kept(e) \in Seq(Turn)
             /\ DOMAIN kept(e) = 1 .. Cardinality(S(e))
             /\ \A n \in DOMAIN kept(e) :
                  \E i \in S(e) : Rank(S(e), i) = n /\ kept(e)[n] = turns[e][i]
             /\ \A i \in S(e) : \E n \in DOMAIN kept(e) : kept(e)[n] = turns[e][i]
  <2>. DEFINE s == turns[e]
              P == S(e)
  <2>1. s \in Seq(Turn) /\ P \subseteq DOMAIN s
    BY <1>1
  <2>2. /\ Picked(s, P) \in Seq(Turn)
        /\ DOMAIN Picked(s, P) = 1 .. Cardinality(P)
        /\ \A n \in DOMAIN Picked(s, P) :
             \E i \in P : Rank(P, i) = n /\ Picked(s, P)[n] = s[i]
        /\ \A i \in P : \E n \in DOMAIN Picked(s, P) : Picked(s, P)[n] = s[i]
    <3>. HIDE DEF s, P
    <3>. QED
      BY <2>1, PickedKeeps
  <2>. QED
    BY <2>2, Zenon
<1>5. \A e \in Entries : \A i \in DOMAIN q[e] :
        \/ i \in DOMAIN kept(e) /\ q[e][i] = kept(e)[i]
        \/ q[e][i] = new
  <2>. SUFFICES ASSUME NEW e \in Entries, NEW i \in DOMAIN q[e]
                PROVE  \/ i \in DOMAIN kept(e) /\ q[e][i] = kept(e)[i]
                       \/ q[e][i] = new
    OBVIOUS
  <2>1. LET s == kept(e) IN \A j \in DOMAIN Append(s, new) :
          \/ j \in DOMAIN s /\ Append(s, new)[j] = s[j]
          \/ j = Len(s) + 1 /\ Append(s, new)[j] = new
    <3>. HIDE DEF kept
    <3>. QED
      BY <1>1, <1>4, AppendAt
  <2>. HIDE DEF kept, new, q
  <2>. QED
    BY <1>3, <2>1
<1>6. \A e \in Entries : \A i \in DOMAIN kept(e) : i \in DOMAIN q[e] /\ q[e][i] = kept(e)[i]
  <2>. SUFFICES ASSUME NEW e \in Entries, NEW i \in DOMAIN kept(e)
                PROVE  i \in DOMAIN q[e] /\ q[e][i] = kept(e)[i]
    OBVIOUS
  <2>1. LET s == kept(e) IN \A j \in DOMAIN s : j \in DOMAIN Append(s, new) /\ Append(s, new)[j] = s[j]
    <3>. HIDE DEF kept
    <3>. QED
      BY <1>1, <1>4, AppendAt
  <2>. HIDE DEF kept, new, q
  <2>. QED
    BY <1>3, <2>1
<1>7. \A e \in Entries : e \in Leftovers(x) => RmOf(q, e, r)
  <2>. SUFFICES ASSUME NEW e \in Entries, e \in Leftovers(x) PROVE RmOf(q, e, r)
    OBVIOUS
  <2>1. LET s == kept(e) IN Len(s) + 1 \in DOMAIN Append(s, new) /\ Append(s, new)[Len(s) + 1] = new
    <3>. HIDE DEF kept
    <3>. QED
      BY <1>1, <1>4, AppendAt
  <2>2. Len(kept(e)) + 1 \in DOMAIN q[e] /\ q[e][Len(kept(e)) + 1] = new
    <3>. HIDE DEF kept, new, q
    <3>. QED
      BY <1>3, <2>1
  <2>. QED
    BY <2>2 DEF RmOf
<1>8. q \in [Entries -> Seq(Turn)]
  <2>1. \A e \in Entries : Append(kept(e), new) \in Seq(Turn)
    <3>1. \A e \in Entries : kept(e) \in Seq(Turn)
      BY <1>4
    <3>. HIDE DEF kept, new
    <3>. QED
      BY <1>1, <3>1
  <2>2. \A e \in Entries : q[e] \in Seq(Turn)
    <3>. HIDE DEF kept, new, q
    <3>. QED
      BY <1>3, <1>4, <2>1
  <2>. HIDE DEF kept, new
  <2>. QED
    BY <1>2, <2>2
<1>9. \A e \in Entries : \A i \in DOMAIN q[e] : q[e][i].op = "get" =>
        \E j \in S(e) : /\ i = Rank(S(e), j) /\ q[e][i] = turns[e][j]
  <2>. SUFFICES ASSUME NEW e \in Entries, NEW i \in DOMAIN q[e], q[e][i].op = "get"
                PROVE  \E j \in S(e) : i = Rank(S(e), j) /\ q[e][i] = turns[e][j]
    OBVIOUS
  <2>1. i \in DOMAIN kept(e) /\ q[e][i] = kept(e)[i]
    <3>1. q[e][i] # new
      OBVIOUS
    <3>. HIDE DEF kept, new, q
    <3>. QED
      BY <1>5, <3>1
  <2>. HIDE DEF kept, new, q, S
  <2>. QED
    BY <1>4, <2>1
<1>10. \A e \in Entries : \A i \in S(e) : \E n \in DOMAIN q[e] : q[e][n] = turns[e][i]
  <2>. HIDE DEF kept, new, q, S
  <2>. QED
    BY <1>4, <1>6
<1>11. \A e \in Entries : \A j \in S(e) :
         /\ j \in DOMAIN turns[e] /\ (turns[e][j] = get => j = 1)
         /\ j = 1 => Rank(S(e), j) = 1
  <2>. SUFFICES ASSUME NEW e \in Entries, NEW j \in S(e)
                PROVE  /\ j \in DOMAIN turns[e] /\ (turns[e][j] = get => j = 1)
                       /\ j = 1 => Rank(S(e), j) = 1
    OBVIOUS
  <2>0. turns[e] \in Seq(Turn)
    BY <1>1
  <2>1. PICK k \in Nat : DOMAIN turns[e] = 1 .. k
    BY <2>0
  <2>2. j \in DOMAIN turns[e] /\ (turns[e][j] = get => j = 1)
    BY <2>1
  <2>3. S(e) \subseteq 1 .. k
    BY <2>1
  <2>4. j = 1 => Rank(S(e), j) = 1
    <3>. HIDE DEF S
    <3>. QED
      BY <2>3, RankOfOne
  <2>. QED
    BY <2>2, <2>4
<1>12. \A e \in Entries : \A i \in DOMAIN turns[e] : turns[e][i].op = "rm" => i \in S(e)
  OBVIOUS
<1>13. \A e \in Entries : \A i \in DOMAIN turns[e] : turns[e][i].run \in Runs /\ i \in Nat /\ i >= 1
  <2>1. \A e \in Entries : \A i \in DOMAIN turns[e] : turns[e][i] \in Turn /\ i \in Nat /\ i >= 1
    BY <1>1
  <2>. QED
    BY <2>1 DEF Turn
<1>14. \A e \in Entries : \A i \in DOMAIN turns[e] :
         turns[e][i].op = "get" /\ turns[e][i].run = r => turns[e][i] = get
  <2>1. \A e \in Entries : \A i \in DOMAIN turns[e] : turns[e][i] \in Turn
    BY <1>1
  <2>. QED
    BY <2>1 DEF Turn
<1>. HIDE DEF q, kept, new, S
<1>15. ASSUME NEW e \in Entries, NEW i \in DOMAIN q[e], q[e][i].op = "get"
       PROVE  /\ e \in de[q[e][i].run].active
              /\ i > 1 => ~de[q[e][i].run].stopped
  <2>1. PICK j \in S(e) : i = Rank(S(e), j) /\ q[e][i] = turns[e][j]
    BY <1>9, <1>15
  <2>2. j \in DOMAIN turns[e] /\ (turns[e][j] = get => j = 1) /\ (j = 1 => i = 1)
    BY <1>11, <2>1
  <2>3. e \in d[turns[e][j].run].active /\ (j > 1 => ~d[turns[e][j].run].stopped)
    BY <1>15, <2>1, <2>2 DEF TurnsFit
  <2>4. j \in Nat /\ j >= 1 /\ turns[e][j].run \in Runs
    BY <1>13, <2>2
  <2>5. CASE turns[e][j].run # r
    BY <2>1, <2>2, <2>3, <2>4, <2>5
  <2>6. CASE turns[e][j].run = r
    <3>1. turns[e][j] = get /\ j = 1
      BY <1>14, <1>15, <2>1, <2>2, <2>6
    <3>2. turns[e] # <<>>
      BY <2>2, <3>1
    <3>3. AtWork(r, e)
      BY <3>1, <3>2 DEF AtWork, get
    <3>. QED
      BY <2>1, <2>2, <2>3, <2>6, <3>1, <3>3
  <2>. QED
    BY <2>5, <2>6
<1>16. ASSUME NEW e \in Entries, NEW i \in DOMAIN q[e], NEW j \in DOMAIN q[e],
              q[e][i].op = "get", q[e][j].op = "get", q[e][i].run = q[e][j].run
       PROVE  i = j
  <2>1. PICK a \in S(e) : i = Rank(S(e), a) /\ q[e][i] = turns[e][a]
    BY <1>9, <1>16
  <2>2. PICK b \in S(e) : j = Rank(S(e), b) /\ q[e][j] = turns[e][b]
    BY <1>9, <1>16
  <2>3. a \in DOMAIN turns[e] /\ b \in DOMAIN turns[e]
    BY <1>11
  <2>4. a = b
    BY <1>16, <2>1, <2>2, <2>3 DEF TurnsFit
  <2>. QED
    BY <2>1, <2>2, <2>4
<1>17. TurnsFit(de, q)
  BY <1>8, <1>15, <1>16 DEF TurnsFit
<1>18. ASSUME NEW e \in Entries, NEW o \in Runs
       PROVE  /\ GetOf(q, e, o) => GetOf(turns, e, o)
              /\ RmOf(turns, e, o) => RmOf(q, e, o)
  <2>1. GetOf(q, e, o) => GetOf(turns, e, o)
    BY <1>9, <1>11 DEF GetOf
  <2>2. RmOf(turns, e, o) => RmOf(q, e, o)
    BY <1>10, <1>12 DEF RmOf
  <2>. QED
    BY <2>1, <2>2
<1>. QED
  BY <1>7, <1>17, <1>18 DEF q

\* The probe wakes them all: each puts what it starts at the end of the lines.
Woken(S) ==
    [e \in Entries |-> turns[e] \o
        SetToSeq({[run |-> r, op |-> "get"] : r \in {o \in Runs : e \in S[o]}})]

LEMMA WokenFit ==
    ASSUME TurnsFit(d, turns), NEW S, NEW de,
           \A o \in Runs : /\ S[o] \subseteq Entries /\ S[o] \cap d[o].active = {}
                           /\ d[o].active \cup S[o] \subseteq de[o].active
                           /\ de[o].stopped => d[o].stopped /\ S[o] = {}
    PROVE  /\ TurnsFit(de, Woken(S))
           /\ \A e \in Entries, o \in Runs :
                /\ GetOf(Woken(S), e, o) => GetOf(turns, e, o) \/ e \in S[o]
                /\ RmOf(turns, e, o) => RmOf(Woken(S), e, o)
<1>. DEFINE W(e) == {o \in Runs : e \in S[o]}
            G(e) == {[run |-> r, op |-> "get"] : r \in W(e)}
            more(e) == SetToSeq(G(e))
            q == Woken(S)
<1>1. turns \in [Entries -> Seq(Turn)] /\ \A e \in Entries : turns[e] \in Seq(Turn)
  BY DEF TurnsFit
<1>2. \A e \in Entries : IsFiniteSet(G(e)) /\ G(e) \subseteq Turn
  <2>. SUFFICES ASSUME NEW e \in Entries PROVE IsFiniteSet(G(e)) /\ G(e) \subseteq Turn
    OBVIOUS
  <2>1. W(e) \in SUBSET Runs /\ IsFiniteSet(Runs)
    BY TransferAssumption DEF TransferAssumption
  <2>2. IsFiniteSet(W(e))
    BY <2>1, FS_Subset
  <2>. DEFINE f == [o \in W(e) |-> [run |-> o, op |-> "get"]]
  <2>3. f \in Surjection(W(e), G(e))
    BY DEF Surjection
  <2>4. IsFiniteSet(G(e))
    <3>. HIDE DEF f, W, G
    <3>. QED
      BY <2>2, <2>3, FS_Surjection
  <2>. QED
    BY <2>4 DEF Turn
<1>3. \A e \in Entries :
        /\ more(e) \in Seq(G(e))
        /\ DOMAIN more(e) = 1 .. Cardinality(G(e)) /\ Cardinality(G(e)) \in Nat
        /\ \A i, j \in DOMAIN more(e) : more(e)[i] = more(e)[j] => i = j
  <2>. HIDE DEF G
  <2>. QED
    BY <1>2, SetToSeqLists, Zenon
<1>4. \A e \in Entries : q[e] = turns[e] \o more(e)
  BY DEF Woken
<1>5. ASSUME NEW e \in Entries
      PROVE  /\ q[e] \in Seq(Turn)
             /\ \A i \in DOMAIN turns[e] : i \in DOMAIN q[e] /\ q[e][i] = turns[e][i]
             /\ \A i \in DOMAIN q[e] :
                  \/ i \in DOMAIN turns[e] /\ q[e][i] = turns[e][i]
                  \/ i - Len(turns[e]) \in DOMAIN more(e) /\ q[e][i] = more(e)[i - Len(turns[e])]
                     /\ i > Len(turns[e]) /\ q[e][i] \in G(e)
  <2>. DEFINE s == turns[e]
              m == more(e)
              g == G(e)
  <2>1. /\ s \in Seq(Turn) /\ m \in Seq(g) /\ g \subseteq Turn /\ q[e] = s \o m
    BY <1>1, <1>2, <1>3, <1>4
  <2>. HIDE DEF s, m, g, q
  <2>2. m \in Seq(Turn) /\ s \o m \in Seq(Turn)
    BY <2>1
  <2>3. /\ DOMAIN s = 1 .. Len(s) /\ DOMAIN m = 1 .. Len(m) /\ Len(s) \in Nat /\ Len(m) \in Nat
        /\ DOMAIN (s \o m) = 1 .. (Len(s) + Len(m))
    BY <2>1, <2>2
  <2>4. \A i \in DOMAIN (s \o m) : (s \o m)[i] = IF i <= Len(s) THEN s[i] ELSE m[i - Len(s)]
    BY <2>1, <2>2, <2>3
  <2>5. \A i \in DOMAIN s : i \in DOMAIN (s \o m) /\ (s \o m)[i] = s[i]
    BY <2>3, <2>4
  <2>6. ASSUME NEW i \in DOMAIN (s \o m)
        PROVE  \/ i \in DOMAIN s /\ (s \o m)[i] = s[i]
               \/ i - Len(s) \in DOMAIN m /\ (s \o m)[i] = m[i - Len(s)]
                  /\ i > Len(s) /\ (s \o m)[i] \in g
    <3>1. CASE i <= Len(s)
      BY <2>3, <2>4, <3>1
    <3>2. CASE ~(i <= Len(s))
      <4>1. i - Len(s) \in DOMAIN m /\ i > Len(s)
        BY <2>3, <3>2
      <4>2. m[i - Len(s)] \in g
        BY <2>1, <4>1
      <4>. QED
        BY <2>4, <3>2, <4>1, <4>2
    <3>. QED
      BY <3>1, <3>2
  <2>. QED
    BY <2>1, <2>2, <2>5, <2>6 DEF s, m, g
<1>6. q \in [Entries -> Seq(Turn)]
  <2>1. \A e \in Entries : q[e] \in Seq(Turn)
    BY <1>5
  <2>. QED
    BY <2>1 DEF Woken
<1>7. TurnsFit(de, turns)
  BY TurnsKeepFit
<1>8. \A e \in Entries : \A x \in G(e) : x.op = "get" /\ x.run \in Runs /\ e \in S[x.run]
                                         /\ x = [run |-> x.run, op |-> "get"]
  OBVIOUS
<1>9. \A e \in Entries : \A i \in DOMAIN turns[e] :
        turns[e][i].run \in Runs /\ (turns[e][i].op = "get" => e \in d[turns[e][i].run].active)
  <2>1. \A e \in Entries : \A i \in DOMAIN turns[e] : turns[e][i] \in Turn
    BY <1>1
  <2>. QED
    BY <2>1 DEF Turn, TurnsFit
<1>. HIDE DEF q, more, G
<1>10. ASSUME NEW e \in Entries, NEW i \in DOMAIN q[e], q[e][i].op = "get"
       PROVE  /\ e \in de[q[e][i].run].active
              /\ i > 1 => ~de[q[e][i].run].stopped
  <2>1. CASE i \in DOMAIN turns[e] /\ q[e][i] = turns[e][i]
    BY <1>7, <1>10, <2>1 DEF TurnsFit
  <2>2. CASE q[e][i] \in G(e)
    <3>1. q[e][i].run \in Runs /\ e \in S[q[e][i].run]
      BY <1>8, <2>2
    <3>. QED
      BY <3>1
  <2>. QED
    BY <1>5, <2>1, <2>2
<1>11. ASSUME NEW e \in Entries, NEW i \in DOMAIN q[e], NEW j \in DOMAIN q[e],
              q[e][i].op = "get", q[e][j].op = "get", q[e][i].run = q[e][j].run
       PROVE  i = j
  <2>. DEFINE Old(k) == k \in DOMAIN turns[e] /\ q[e][k] = turns[e][k]
              New(k) == k - Len(turns[e]) \in DOMAIN more(e)
                        /\ q[e][k] = more(e)[k - Len(turns[e])]
                        /\ k > Len(turns[e]) /\ q[e][k] \in G(e)
  <2>1. (Old(i) \/ New(i)) /\ (Old(j) \/ New(j))
    BY <1>5
  <2>2. \A k, l \in DOMAIN q[e] : Old(k) /\ New(l) /\ q[e][k].op = "get" => q[e][k].run # q[e][l].run
    <3>. SUFFICES ASSUME NEW k \in DOMAIN q[e], NEW l \in DOMAIN q[e], Old(k), New(l), q[e][k].op = "get"
                  PROVE  q[e][k].run # q[e][l].run
      OBVIOUS
    <3>1. q[e][k].run \in Runs /\ e \in d[q[e][k].run].active
      BY <1>9
    <3>2. q[e][l].run \in Runs /\ e \in S[q[e][l].run]
      BY <1>8
    <3>. QED
      BY <3>1, <3>2
  <2>3. CASE Old(i) /\ Old(j)
    BY <1>11, <2>3 DEF TurnsFit
  <2>4. CASE New(i) /\ New(j)
    <3>1. q[e][i] = q[e][j]
      BY <1>8, <1>11, <2>4
    <3>2. i - Len(turns[e]) = j - Len(turns[e])
      BY <1>3, <2>4, <3>1
    <3>3. i \in Int /\ j \in Int /\ Len(turns[e]) \in Int
      <4>1. q[e] \in Seq(Turn) /\ turns[e] \in Seq(Turn)
        BY <1>1, <1>5
      <4>. QED
        BY <4>1
    <3>. QED
      BY <3>2, <3>3
  <2>. QED
    BY <1>11, <2>1, <2>2, <2>3, <2>4
<1>12. TurnsFit(de, q)
  BY <1>6, <1>10, <1>11 DEF TurnsFit
<1>13. ASSUME NEW e \in Entries, NEW o \in Runs
       PROVE  /\ GetOf(q, e, o) => GetOf(turns, e, o) \/ e \in S[o]
              /\ RmOf(turns, e, o) => RmOf(q, e, o)
  <2>1. RmOf(turns, e, o) => RmOf(q, e, o)
    BY <1>5 DEF RmOf
  <2>2. ASSUME GetOf(q, e, o) PROVE GetOf(turns, e, o) \/ e \in S[o]
    <3>1. PICK i \in DOMAIN q[e] : q[e][i] = [run |-> o, op |-> "get"]
      BY <2>2 DEF GetOf
    <3>2. CASE i \in DOMAIN turns[e] /\ q[e][i] = turns[e][i]
      BY <3>1, <3>2 DEF GetOf
    <3>3. CASE q[e][i] \in G(e)
      <4>1. e \in S[q[e][i].run] /\ q[e][i].run = o
        BY <1>8, <3>1, <3>3
      <4>. QED
        BY <4>1
    <3>. QED
      BY <1>5, <3>2, <3>3
  <2>. QED
    BY <2>1, <2>2
<1>. QED
  BY <1>12, <1>13 DEF q

-----------------------------------------------------------------------------
(* One downloader's step, and what it keeps of the invariant. *)

\* What is in hand stays in hand or is answered for.
AccountsKept(x, y) ==
    /\ y.seen = x.seen /\ y.from = x.from /\ y.to = x.to /\ y.final = x.final
    /\ y.readOK = x.readOK /\ y.mode = x.mode /\ y.stopped = x.stopped
    /\ x.landed \cup x.lost \cup x.blocked \subseteq y.landed \cup y.lost \cup y.blocked
    /\ ~x.stopped => \A e \in Leftovers(x) : IsFrame(e) =>
         e \in Leftovers(y) \cup y.landed \cup y.lost \cup y.blocked

LEMMA AccountsStay ==
    ASSUME NEW x, NEW y, Accounts(x), AccountsKept(x, y)
    PROVE  Accounts(y)
  BY DEF Accounts, AccountsKept, Reports, IsOurFrame

LEMMA StartedKeeps ==
    ASSUME NEW x \in Downloader, NEW S, S \subseteq x.queue
    PROVE  /\ Leftovers(Started(x, S)) = Leftovers(x)
           /\ Started(x, S).stopped = x.stopped /\ Started(x, S).mode = x.mode
           /\ Started(x, S).off = x.off /\ Started(x, S).gaveUp = x.gaveUp
           /\ Started(x, S).from = x.from /\ Started(x, S).to = x.to
           /\ Started(x, S).landed = x.landed /\ Started(x, S).views = x.views
           /\ Started(x, S).active = x.active \cup S
           /\ AccountsKept(x, Started(x, S))
<1>. DEFINE y == Started(x, S)
<1>1. /\ y.queue = x.queue \ S /\ y.active = x.active \cup S /\ y.retrying = x.retrying
      /\ y.asking = x.asking /\ y.seen = x.seen /\ y.from = x.from /\ y.to = x.to
      /\ y.final = x.final /\ y.readOK = x.readOK /\ y.mode = x.mode /\ y.stopped = x.stopped
      /\ y.landed = x.landed /\ y.lost = x.lost /\ y.blocked = x.blocked
      /\ y.off = x.off /\ y.gaveUp = x.gaveUp /\ y.views = x.views
  BY DEF Started, Downloader
<1>. HIDE DEF y
<1>2. Leftovers(y) = Leftovers(x)
  BY <1>1 DEF Leftovers
<1>. QED
  BY <1>1, <1>2 DEF AccountsKept, y

\* A downloader that pumps.
LEMMA PumpedMove ==
    ASSUME TransferInv, NEW r \in Runs, NEW z, NEW t, Pumped(r, z, t),
           Fit(z, node[r].listed), Accounts(z), TurnsFit([d EXCEPT ![r] = z], t)
    PROVE  \E S \in SUBSET z.queue, y \in Downloader :
             /\ y = Started(z, S) /\ d' = [d EXCEPT ![r] = y]
             /\ Fit(y, node[r].listed) /\ Accounts(y) /\ Slots(y, trouble)
             /\ TurnsFit(d', turns')
             /\ \A e \in Entries, o \in Runs :
                  /\ RmOf(t, e, o) => RmOf(turns', e, o)
                  /\ GetOf(turns', e, o) => GetOf(t, e, o) \/ (o = r /\ e \in S)
             /\ z.stopped => S = {}
             /\ Leftovers(y) = Leftovers(z) /\ y.stopped = z.stopped /\ AccountsKept(z, y)
<1>1. PICK S \in Startable(z, trouble) :
        d' = [d EXCEPT ![r] = Started(z, S)] /\ turns' = Queued(t, r, S)
  BY DEF Pumped
<1>. DEFINE y == Started(z, S)
<1>2. /\ z \in Downloader /\ z.queue \cap z.active = {} /\ Cardinality(z.active) <= MaxTransfers
      /\ trouble \in BOOLEAN /\ d \in [Runs -> Downloader]
  BY DEF Fit, Handles, Apart, TransferInv, BaseInv, DownloadersFit
<1>3. /\ S \subseteq z.queue /\ (z.stopped => S = {})
      /\ Cardinality(z.active \cup S) <= MaxTransfers /\ Slots(y, trouble)
  BY <1>2, PumpFills
<1>4. Fit(y, node[r].listed)
  BY <1>3, StartedFits
<1>5. /\ Leftovers(y) = Leftovers(z) /\ y.stopped = z.stopped /\ y.active = z.active \cup S
      /\ AccountsKept(z, y)
  BY <1>2, <1>3, StartedKeeps
<1>6. Accounts(y)
  BY <1>5, AccountsStay
<1>. HIDE DEF y
<1>7. /\ TurnsFit(d', Queued(t, r, S))
      /\ \A e \in Entries, o \in Runs :
           /\ GetOf(Queued(t, r, S), e, o) => GetOf(t, e, o) \/ (o = r /\ e \in S)
           /\ RmOf(t, e, o) => RmOf(Queued(t, r, S), e, o)
  <2>. DEFINE dd == [d EXCEPT ![r] = z]
              de == [d EXCEPT ![r] = y]
  <2>1. S \subseteq Entries /\ S \cap dd[r].active = {} /\ S \subseteq de[r].active
        /\ (de[r].stopped => S = {})
    BY <1>2, <1>3, <1>5 DEF Downloader
  <2>2. \A o \in Runs : dd[o].active \subseteq de[o].active /\ (de[o].stopped => dd[o].stopped)
    BY <1>2, <1>5
  <2>3. d' = de /\ TurnsFit(dd, t)
    BY <1>1 DEF y
  <2>. HIDE DEF dd, de
  <2>. QED
    BY <2>1, <2>2, <2>3, QueuedFits
<1>8. y \in Downloader
  BY <1>4 DEF Fit
<1>. QED
  BY <1>1, <1>3, <1>4, <1>5, <1>6, <1>7, <1>8 DEF y

\* The invariant after a step of downloader r, from its parts.
LEMMA Moved ==
    ASSUME TransferInv, NEW r \in Runs, NEW y, d' = [d EXCEPT ![r] = y],
           scene' = scene, disk' \in BOOLEAN, trouble' \in BOOLEAN, trouble => trouble',
           NodesFit', FolderFit', \A o \in Runs : node'[o].listed = node[o].listed,
           Fit(y, node[r].listed), Accounts(y), Slots(y, trouble'), TurnsFit(d', turns'),
           \A o \in Runs, e \in Entries :
             Minds(d, turns, node, o, e) =>
                Minds(d', turns', node', o, e) \/ part'[Content[o]][e] = 0,
           \A c \in Contents, e \in Entries : part'[c][e] # 0 =>
             file'[e] # c /\ (part[c][e] # 0 \/ Kept(d', turns', node', c, e))
    PROVE  TransferInv'
<1>1. d \in [Runs -> Downloader] /\ \A o \in Runs : Fit(d[o], node[o].listed)
  BY DEF TransferInv, BaseInv, DownloadersFit
<1>2. \A o \in Runs : d'[o] = IF o = r THEN y ELSE d[o]
  BY <1>1
<1>3. DownloadersFit'
  <2>1. d' \in [Runs -> Downloader]
    BY <1>1 DEF Fit
  <2>2. \A o \in Runs : Fit(d'[o], node'[o].listed)
    BY <1>1, <1>2
  <2>3. MaxAttempts' = MaxAttempts /\ HoldLimit' = HoldLimit /\ IdleLimit' = IdleLimit
    BY DEF MaxAttempts, HoldLimit, IdleLimit
  <2>4. \A o \in Runs : Fit(d[o], node[o].listed)'
    BY <2>2, <2>3 DEF Fit, Counters
  <2>. QED
    BY <2>1, <2>4 DEF DownloadersFit
<1>4. BaseInv'
  BY <1>3 DEF BaseInv, TransferInv
<1>5. AccountsInv'
  BY <1>2 DEF AccountsInv, TransferInv
<1>6. SlotsInv'
  <2>1. \A o \in Runs : Slots(d'[o], trouble')
    BY <1>2 DEF SlotsInv, TransferInv, Slots
  <2>. QED
    BY <2>1 DEF SlotsInv
<1>7. PartialsInv'
  <2>1. ASSUME NEW c \in Contents, NEW e \in Entries, part'[c][e] # 0
        PROVE  file'[e] # c /\ Kept(d', turns', node', c, e)
    <3>1. CASE Kept(d', turns', node', c, e)
      BY <2>1, <3>1
    <3>2. CASE part[c][e] # 0
      <4>1. PICK o \in Runs : Content[o] = c /\ Minds(d, turns, node, o, e)
        BY <3>2 DEF TransferInv, PartialsInv, Kept
      <4>2. Minds(d', turns', node', o, e)
        BY <2>1, <4>1
      <4>. QED
        BY <2>1, <4>1, <4>2 DEF Kept
    <3>. QED
      BY <2>1, <3>1, <3>2
  <2>. QED
    BY <2>1 DEF PartialsInv, Contents
<1>. QED
  BY <1>4, <1>5, <1>6, <1>7 DEF TransferInv

\* A step of downloader r that leaves the folder's files and the node alone.
LEMMA QuietMove ==
    ASSUME TransferInv, NEW r \in Runs, NEW y, d' = [d EXCEPT ![r] = y],
           UNCHANGED <<scene, node, file, part>>, disk' \in BOOLEAN, trouble' \in BOOLEAN,
           trouble => trouble',
           rows' \in [Frames -> Runs \cup {0}], clips' \subseteq Runs \X Entries,
           Fit(y, node[r].listed), Accounts(y), Slots(y, trouble'), TurnsFit(d', turns'),
           \A e \in Entries, o \in Runs : RmOf(turns, e, o) => RmOf(turns', e, o),
           ~d[r].stopped => \A e \in Leftovers(d[r]) :
             (~y.stopped /\ e \in Leftovers(y)) \/ RmOf(turns', e, r)
    PROVE  TransferInv'
<1>1. NodesFit'
  BY DEF TransferInv, BaseInv, NodesFit
<1>2. FolderFit'
  BY DEF TransferInv, BaseInv, FolderFit, Contents
<1>3. d \in [Runs -> Downloader]
  BY DEF TransferInv, BaseInv, DownloadersFit
<1>4. \A o \in Runs, e \in Entries : Minds(d, turns, node, o, e) => Minds(d', turns', node', o, e)
  BY <1>3 DEF Minds
<1>5. \A c \in Contents, e \in Entries : part'[c][e] # 0 => file'[e] # c /\ part[c][e] # 0
  BY DEF TransferInv, PartialsInv
<1>. QED
  BY <1>1, <1>2, <1>4, <1>5, Moved

-----------------------------------------------------------------------------
(* Every action keeps the invariant: first those that leave the folder alone. *)

LEMMA Here ==
    ASSUME TransferInv, NEW r \in Runs
    PROVE  /\ scene \in Scenes /\ disk \in BOOLEAN /\ trouble \in BOOLEAN
           /\ d \in [Runs -> Downloader] /\ d[r] \in Downloader
           /\ Fit(d[r], node[r].listed) /\ Counters(d[r]) /\ Phases(d[r])
           /\ Handles(d[r], node[r].listed)
           /\ Accounts(d[r]) /\ Slots(d[r], trouble)
           /\ TurnsFit(d, turns) /\ NodesFit /\ FolderFit
           /\ node[r].listed \subseteq Entries /\ node[r].listed \subseteq scene.entries
           /\ scene.entries \subseteq Entries
           /\ rows \in [Frames -> Runs \cup {0}] /\ clips \subseteq Runs \X Entries
<1>1. BaseInv /\ Accounts(d[r]) /\ Slots(d[r], trouble)
  BY DEF TransferInv, AccountsInv, SlotsInv
<1>2. scene.entries \subseteq Entries
  BY <1>1 DEF BaseInv, Entries
<1>3. node[r].listed \subseteq scene.entries
  BY <1>1 DEF BaseInv, NodesFit
<1>4. /\ scene \in Scenes /\ disk \in BOOLEAN /\ trouble \in BOOLEAN
      /\ d \in [Runs -> Downloader] /\ Fit(d[r], node[r].listed)
      /\ TurnsFit(d, turns) /\ NodesFit /\ FolderFit
  BY <1>1 DEF BaseInv, DownloadersFit
<1>5. rows \in [Frames -> Runs \cup {0}] /\ clips \subseteq Runs \X Entries
  BY <1>4 DEF FolderFit
<1>. QED
  BY <1>1, <1>2, <1>3, <1>4, <1>5 DEF Fit

\* A downloader that keeps its hands, whatever it reads and counts.
Reading(x, y, L) ==
    /\ y.attempts = x.attempts /\ y.queue = x.queue /\ y.active = x.active
    /\ y.retrying = x.retrying /\ y.asking = x.asking /\ y.seen = x.seen
    /\ y.stopped = x.stopped /\ y.off = x.off /\ y.gaveUp = x.gaveUp
    /\ x.mode # "off" /\ y.mode # "off" /\ (x.stopped => y.mode \in {"draining", "done"})
    /\ x.mode = "done" => y.mode = "done"
    /\ y.polled \subseteq x.polled \/ ~x.off
    /\ \A text \in y.polled \cup y.final : text \subseteq L
    /\ \A a, b \in y.final : a = b
    /\ y.hold \in 0 .. HoldLimit /\ y.idle \in 0 .. IdleLimit /\ y.reads \in 0 .. FinalReads
    /\ y.mode \in {"polling", "final"} => y.reads < FinalReads

LEMMA ReadingFits ==
    ASSUME NEW L, NEW x, Fit(x, L), NEW y \in Downloader, Reading(x, y, L)
    PROVE  Fit(y, L) /\ Leftovers(y) = Leftovers(x)
<1>1. Leftovers(y) = Leftovers(x)
  BY DEF Leftovers, Reading
<1>2. Counters(y) /\ Phases(y)
  BY <1>1 DEF Fit, Reading, Counters, Phases
<1>3. Dropped(x) => Dropped(y)
  BY DEF Fit, Reading, Dropped
<1>4. Handles(y, L)
  BY <1>1, <1>3 DEF Fit, Reading, Handles, Apart
<1>. QED
  BY <1>1, <1>2, <1>4 DEF Fit

LEMMA ReadingMove ==
    ASSUME TransferInv, NEW r \in Runs, NEW y \in Downloader,
           d' = [d EXCEPT ![r] = y], Reading(d[r], y, node[r].listed), Accounts(y),
           UNCHANGED <<scene, node, file, part, turns, clips, disk, trouble>>,
           rows' \in [Frames -> Runs \cup {0}]
    PROVE  TransferInv'
<1>. DEFINE x == d[r]
<1>1. /\ scene \in Scenes /\ disk \in BOOLEAN /\ trouble \in BOOLEAN
      /\ d \in [Runs -> Downloader] /\ Fit(x, node[r].listed)
      /\ Slots(x, trouble) /\ TurnsFit(d, turns) /\ clips \subseteq Runs \X Entries
  BY Here
<1>2. Fit(y, node[r].listed) /\ Leftovers(y) = Leftovers(x)
  BY <1>1, ReadingFits
<1>3. y.stopped = x.stopped /\ y.active = x.active
  BY DEF Reading
<1>4. Slots(y, trouble')
  BY <1>1 DEF Slots, Reading, Active
<1>5. TurnsFit(d', turns')
  <2>1. \A o \in Runs : d[o].active \subseteq d'[o].active /\ (d'[o].stopped => d[o].stopped)
    BY <1>1, <1>3
  <2>. QED
    BY <1>1, <2>1, TurnsKeepFit
<1>. HIDE DEF x
<1>. QED
  BY <1>1, <1>2, <1>3, <1>4, <1>5, QuietMove DEF x

LEMMA FramesAreNat == Frames \subseteq Nat
  BY TransferAssumption DEF TransferAssumption, Frames

\* The frames an attempt is sent have a first and a last.
LEMMA FirstRangeIsNat ==
    ASSUME rows \in [Frames -> Runs \cup {0}], Missing # {}
    PROVE  /\ FirstRange[1] \in Nat /\ FirstRange[2] \in Nat
           /\ \A f \in Frames : FirstRange[1] <= f /\ f <= FirstRange[2] => rows[f] = 0
<1>. DEFINE from == Min(Missing)
            unbroken(t) == \A f \in Frames : from <= f /\ f <= t => f \in Missing
            T == {t \in Missing : unbroken(t)}
<1>1. Missing \subseteq Nat /\ Missing \subseteq Frames /\ IsFiniteSet(Missing)
  <2>1. IsFiniteSet({x \in Entries : x.kind = "frame"})
    <3>1. {x \in Entries : x.kind = "frame"} \in SUBSET Entries
      OBVIOUS
    <3>. QED
      BY <3>1, TransferAssumption, FS_Subset DEF TransferAssumption
  <2>2. IsFiniteSet(Frames)
    <3>. DEFINE E == {x \in Entries : x.kind = "frame"}
                g == [x \in E |-> x.num]
    <3>1. g \in Surjection(E, Frames)
      BY DEF Surjection, Frames
    <3>. HIDE DEF E, g
    <3>. QED
      BY <2>1, <3>1, FS_Surjection DEF E
  <2>3. Missing \in SUBSET Frames
    BY DEF Missing
  <2>. QED
    BY <2>2, <2>3, FramesAreNat, FS_Subset
<1>2. from \in Missing /\ \A k \in Missing : from <= k
  <2>1. \E m \in Missing : \A k \in Missing : m <= k
    BY <1>1, LeastOfNat
  <2>. QED
    BY <2>1 DEF Min
<1>3. from \in T
  <2>1. \A f \in Frames : from <= f /\ f <= from => f = from
    <3>. HIDE DEF from
    <3>. QED
      BY <1>1, <1>2, FramesAreNat
  <2>. QED
    BY <1>2, <2>1
<1>4. Max(T) \in T
  <2>1. T \in SUBSET Missing /\ T \subseteq Nat /\ T # {}
    BY <1>1, <1>3
  <2>2. IsFiniteSet(T)
    <3>. HIDE DEF T
    <3>. QED
      BY <1>1, <2>1, FS_Subset
  <2>3. \E m \in T : \A k \in T : m >= k
    <3>. HIDE DEF T
    <3>. QED
      BY <2>1, <2>2, GreatestOfFinite
  <2>. HIDE DEF T
  <2>. QED
    BY <2>3 DEF Max
<1>5. FirstRange = <<from, Max(T)>>
  BY DEF FirstRange
<1>. HIDE DEF from
<1>6. Max(T) \in Missing /\ \A f \in Frames : from <= f /\ f <= Max(T) => f \in Missing
  BY <1>4
<1>7. \A f \in Missing : rows[f] = 0
  BY DEF Missing
<1>. HIDE DEF T
<1>. QED
  BY <1>1, <1>2, <1>5, <1>6, <1>7

LEMMA StartKeeps ==
    ASSUME TransferInv, NEW r \in Runs, Start(r)
    PROVE  TransferInv'
<1>. DEFINE y == [d[r] EXCEPT !.mode = "polling", !.from = FirstRange[1], !.to = FirstRange[2]]
            L == node[r].listed
<1>1. /\ scene \in Scenes /\ disk \in BOOLEAN /\ trouble \in BOOLEAN
      /\ d \in [Runs -> Downloader] /\ d[r] \in Downloader /\ Counters(d[r])
      /\ Handles(d[r], L) /\ TurnsFit(d, turns)
      /\ rows \in [Frames -> Runs \cup {0}] /\ clips \subseteq Runs \X Entries
  BY Here
<1>2. d[r] = Idle
  BY Here DEF Start, Phases
<1>3. /\ d' = [d EXCEPT ![r] = y]
      /\ UNCHANGED <<scene, node, disk, trouble, file, part, turns, rows, clips>>
  BY <1>1 DEF Start, shared
<1>4. FirstRange[1] \in Int /\ FirstRange[2] \in Int
  BY <1>1, FirstRangeIsNat DEF Start
<1>5. y \in Downloader
  BY <1>1, <1>4 DEF Downloader, Modes
<1>6. /\ y.queue = {} /\ y.active = {} /\ y.retrying = {} /\ y.asking = {} /\ y.seen = {}
      /\ y.polled = {} /\ y.final = {} /\ ~y.stopped /\ ~y.off /\ ~y.gaveUp /\ y.mode = "polling"
      /\ y.attempts = [e \in Entries |-> 0] /\ y.hold = 0 /\ y.idle = 0 /\ y.reads = 0
      /\ ~y.readOK
  BY <1>2 DEF Idle
<1>. HIDE DEF y
<1>7. Leftovers(y) = {}
  BY <1>6 DEF Leftovers
<1>8. Fit(y, L)
  <2>1. Counters(y)
    BY <1>1, <1>6, <1>7, LimitsAreNat DEF Counters
  <2>2. Phases(y)
    BY <1>6 DEF Phases
  <2>3. Cardinality(y.active) <= MaxTransfers
    BY <1>1, <1>2, <1>6 DEF Handles, Idle
  <2>4. Handles(y, L)
    BY <1>6, <1>7, <2>3 DEF Handles, Apart
  <2>. QED
    BY <1>5, <2>1, <2>2, <2>4 DEF Fit
<1>9. Accounts(y) /\ Slots(y, trouble')
  BY <1>6 DEF Accounts, Slots
<1>10. TurnsFit(d', turns')
  <2>1. \A o \in Runs : d[o].active \subseteq d'[o].active /\ (d'[o].stopped => d[o].stopped)
    BY <1>1, <1>2, <1>3, <1>6 DEF Idle
  <2>. QED
    BY <1>1, <1>3, <2>1, TurnsKeepFit
<1>11. Leftovers(d[r]) = {}
  BY <1>2 DEF Leftovers, Idle
<1>. QED
  BY <1>1, <1>3, <1>8, <1>9, <1>10, <1>11, QuietMove

LEMMA PollReadsKeeps ==
    ASSUME TransferInv, NEW r \in Runs, PollReads(r)
    PROVE  TransferInv'
<1>. DEFINE x == d[r]
            L == node[r].listed
            P == {L}
            y == [x EXCEPT !.polled = P]
<1>1. /\ x \in Downloader /\ d \in [Runs -> Downloader] /\ Counters(x) /\ Phases(x) /\ L \subseteq Entries
      /\ Handles(x, L) /\ Accounts(x) /\ rows \in [Frames -> Runs \cup {0}]
  BY Here
<1>2. /\ d' = [d EXCEPT ![r] = y] /\ ~x.stopped /\ x.mode # "off"
      /\ UNCHANGED <<scene, node, disk, trouble, file, part, turns, rows, clips>>
  BY <1>1 DEF PollReads, shared, Active
<1>3. P \in SUBSET SUBSET Entries /\ \A text \in P : text = L
  BY <1>1
<1>. HIDE DEF x, P
<1>4. y \in Downloader /\ Reading(x, y, L) /\ AccountsKept(x, y)
  <2>1. y \in Downloader
    BY <1>1, <1>3 DEF Downloader
  <2>2. /\ y.polled = P
        /\ y.attempts = x.attempts /\ y.queue = x.queue /\ y.active = x.active
        /\ y.retrying = x.retrying /\ y.asking = x.asking /\ y.seen = x.seen /\ y.final = x.final
        /\ y.mode = x.mode /\ y.stopped = x.stopped /\ y.off = x.off /\ y.gaveUp = x.gaveUp
        /\ y.reads = x.reads /\ y.hold = x.hold /\ y.idle = x.idle /\ y.from = x.from /\ y.to = x.to
        /\ y.readOK = x.readOK /\ y.landed = x.landed /\ y.lost = x.lost /\ y.blocked = x.blocked
    BY <1>1 DEF Downloader
  <2>. HIDE DEF y
  <2>3. Reading(x, y, L)
    BY <1>1, <1>2, <1>3, <2>2 DEF Reading, Counters, Phases, Handles
  <2>4. AccountsKept(x, y)
    BY <2>2 DEF AccountsKept, Leftovers
  <2>. QED
    BY <2>1, <2>3, <2>4
<1>. HIDE DEF y
<1>5. Accounts(y)
  BY <1>1, <1>4, AccountsStay
<1>. QED
  BY <1>1, <1>2, <1>4, <1>5, ReadingMove DEF x

\* The manifest's news is queued, refused or another chunk's.
LEMMA TakenAccounts ==
    ASSUME NEW x \in Downloader, Accounts(x), NEW text, text \subseteq Entries
    PROVE  LET w == Taken(x, text)
               held == w.landed \cup w.lost \cup w.blocked \cup Leftovers(w)
           IN /\ Accounts(w)
              /\ ~x.stopped => \A e \in w.seen \cup text : IsFrame(e) /\ IsOurFrame(x, e) => e \in held
              /\ \A e : IsOurFrame(w, e) = IsOurFrame(x, e)
<1>. DEFINE w == Taken(x, text)
            held(y) == y.landed \cup y.lost \cup y.blocked \cup Leftovers(y)
            good == text \ Malformed
<1>1. /\ w.landed = x.landed /\ w.blocked = x.blocked
      /\ w.lost = x.lost \cup {e \in text \cap Malformed : IsFrame(e)}
      /\ w.seen = x.seen \cup good /\ x.queue \subseteq w.queue
      /\ w.active = x.active /\ w.retrying = x.retrying /\ w.asking = x.asking
      /\ w.final = x.final /\ w.readOK = x.readOK /\ w.mode = x.mode /\ w.stopped = x.stopped
      /\ w.from = x.from /\ w.to = x.to
      /\ \A e \in good \ x.seen : IsFrame(e) /\ IsOurFrame(x, e) => e \in w.queue
  BY DEF Taken, Downloader, IsFrame
<1>. HIDE DEF w
<1>2. \A e : IsOurFrame(w, e) = IsOurFrame(x, e)
  BY <1>1 DEF IsOurFrame
<1>3. Leftovers(x) \subseteq Leftovers(w) /\ w.queue \subseteq Leftovers(w)
  BY <1>1 DEF Leftovers
<1>4. ~x.stopped => \A e \in w.seen \cup text : IsFrame(e) /\ IsOurFrame(x, e) => e \in held(w)
  BY <1>1, <1>3 DEF Accounts
<1>5. \A e : Reports(x, e) => Reports(w, e)
  BY <1>1, <1>3 DEF Reports
<1>6. Accounts(w)
  BY <1>1, <1>2, <1>4, <1>5 DEF Accounts
<1>. QED
  BY <1>2, <1>4, <1>6 DEF w

LEMMA PollAnswersKeeps ==
    ASSUME TransferInv, NEW r \in Runs, PollAnswers(r)
    PROVE  TransferInv'
<1>. DEFINE x == d[r]
            L == node[r].listed
<1>1. /\ scene \in Scenes /\ disk \in BOOLEAN /\ trouble \in BOOLEAN
      /\ d \in [Runs -> Downloader] /\ x \in Downloader /\ Fit(x, L) /\ Counters(x) /\ Phases(x)
      /\ Handles(x, L) /\ L \subseteq Entries
      /\ TurnsFit(d, turns) /\ Accounts(x) /\ Slots(x, trouble)
      /\ rows \in [Frames -> Runs \cup {0}] /\ clips \subseteq Runs \X Entries
  BY Here
<1>2. PICK text \in x.polled : Pumped(r, [Taken(x, text) EXCEPT !.polled = {}], turns)
  BY DEF PollAnswers
<1>. DEFINE w == Taken(x, text)
            z == [w EXCEPT !.polled = {}]
<1>3. text \subseteq L /\ x.polled # {}
  BY <1>1 DEF Handles
<1>4. x.mode # "off"
  BY <1>1, <1>3 DEF Phases, Idle
<1>5. Fit(w, L) /\ w \in Downloader /\ Counters(w) /\ Phases(w) /\ Handles(w, L)
  <2>1. Fit(w, L)
    <3>. HIDE DEF x, L
    <3>. QED
      BY <1>1, <1>3, <1>4, TakenFits
  <2>. QED
    BY <2>1 DEF Fit
<1>6. /\ Accounts(w)
      /\ w.mode = x.mode /\ w.stopped = x.stopped /\ w.active = x.active
      /\ Leftovers(x) \subseteq Leftovers(w)
  <2>1. text \subseteq Entries
    BY <1>1, <1>3
  <2>2. Accounts(w)
    <3>. HIDE DEF x
    <3>. QED
      BY <1>1, <2>1, TakenAccounts
  <2>. QED
    BY <1>1, <2>2 DEF Taken, Downloader, Leftovers
<1>. HIDE DEF w, x
<1>7. /\ z \in Downloader /\ Reading(w, z, L) /\ AccountsKept(w, z)
      /\ z.active = w.active /\ z.stopped = w.stopped
  <2>1. z \in Downloader
    BY <1>5 DEF Downloader
  <2>2. /\ z.polled = {}
        /\ z.attempts = w.attempts /\ z.queue = w.queue /\ z.active = w.active
        /\ z.retrying = w.retrying /\ z.asking = w.asking /\ z.seen = w.seen /\ z.final = w.final
        /\ z.mode = w.mode /\ z.stopped = w.stopped /\ z.off = w.off /\ z.gaveUp = w.gaveUp
        /\ z.reads = w.reads /\ z.hold = w.hold /\ z.idle = w.idle /\ z.from = w.from /\ z.to = w.to
        /\ z.readOK = w.readOK /\ z.landed = w.landed /\ z.lost = w.lost /\ z.blocked = w.blocked
    BY <1>5 DEF Downloader
  <2>. HIDE DEF z
  <2>3. Reading(w, z, L)
    BY <1>1, <1>4, <1>5, <1>6, <2>2 DEF Reading, Counters, Phases, Handles
  <2>4. AccountsKept(w, z)
    BY <2>2 DEF AccountsKept, Leftovers
  <2>. QED
    BY <2>1, <2>2, <2>3, <2>4
<1>. HIDE DEF z
<1>8. Fit(z, L) /\ Leftovers(z) = Leftovers(w)
  BY <1>5, <1>7, ReadingFits
<1>9. Accounts(z)
  BY <1>6, <1>7, AccountsStay
<1>10. TurnsFit([d EXCEPT ![r] = z], turns)
  <2>. DEFINE de == [d EXCEPT ![r] = z]
  <2>1. \A o \in Runs : d[o].active \subseteq de[o].active /\ (de[o].stopped => d[o].stopped)
    BY <1>1, <1>6, <1>7 DEF x
  <2>. HIDE DEF de
  <2>. QED
    BY <1>1, <2>1, TurnsKeepFit DEF de
<1>11. PICK S \in SUBSET z.queue, y \in Downloader :
             /\ y = Started(z, S) /\ d' = [d EXCEPT ![r] = y]
             /\ Fit(y, L) /\ Accounts(y) /\ Slots(y, trouble)
             /\ TurnsFit(d', turns')
             /\ \A e \in Entries, o \in Runs : RmOf(turns, e, o) => RmOf(turns', e, o)
             /\ Leftovers(y) = Leftovers(z) /\ y.stopped = z.stopped
  <2>1. Pumped(r, z, turns)
    BY <1>2 DEF z, w
  <2>. QED
    BY <1>8, <1>9, <1>10, <2>1, PumpedMove
<1>12. UNCHANGED <<scene, node, disk, trouble, file, part, rows, clips>>
  BY DEF PollAnswers
<1>. QED
  BY <1>1, <1>6, <1>7, <1>8, <1>11, <1>12, QuietMove DEF x

\* The fields of a downloader whose hands and reports stay as they are.
SameReports(x, y) ==
    /\ y.attempts = x.attempts /\ y.queue = x.queue /\ y.active = x.active
    /\ y.retrying = x.retrying /\ y.asking = x.asking /\ y.seen = x.seen
    /\ y.stopped = x.stopped /\ y.off = x.off /\ y.gaveUp = x.gaveUp
    /\ y.from = x.from /\ y.to = x.to /\ y.polled = x.polled
    /\ y.landed = x.landed /\ y.lost = x.lost /\ y.blocked = x.blocked

LEMMA DrainBeginsKeeps ==
    ASSUME TransferInv, NEW r \in Runs, DrainBegins(r)
    PROVE  TransferInv'
<1>. DEFINE x == d[r]
            L == node[r].listed
            y == [x EXCEPT !.mode = "final"]
<1>1. /\ x \in Downloader /\ d \in [Runs -> Downloader] /\ Counters(x) /\ Phases(x)
      /\ Handles(x, L) /\ Accounts(x) /\ rows \in [Frames -> Runs \cup {0}]
  BY Here
<1>2. /\ d' = [d EXCEPT ![r] = y] /\ ~x.stopped /\ x.mode = "polling"
      /\ UNCHANGED <<scene, node, disk, trouble, file, part, turns, rows, clips>>
  BY <1>1 DEF DrainBegins, shared, Active
<1>. HIDE DEF x
<1>3. /\ y \in Downloader /\ SameReports(x, y) /\ y.mode = "final" /\ y.final = x.final
      /\ y.readOK = x.readOK /\ y.reads = x.reads /\ y.hold = x.hold /\ y.idle = x.idle
  <2>1. y \in Downloader
    BY <1>1 DEF Downloader, Modes
  <2>. QED
    BY <1>1, <2>1 DEF Downloader, SameReports
<1>. HIDE DEF y
<1>4. Reading(x, y, L)
  BY <1>1, <1>2, <1>3 DEF Reading, SameReports, Counters, Phases, Handles
<1>5. Accounts(y)
  BY <1>1, <1>3 DEF Accounts, SameReports, Leftovers, IsOurFrame
<1>. QED
  BY <1>1, <1>2, <1>3, <1>4, <1>5, ReadingMove DEF x

LEMMA FinalReadStartsKeeps ==
    ASSUME TransferInv, NEW r \in Runs, FinalReadStarts(r)
    PROVE  TransferInv'
<1>. DEFINE x == d[r]
            L == node[r].listed
            P == {L}
            y == [x EXCEPT !.final = P]
<1>1. /\ x \in Downloader /\ d \in [Runs -> Downloader] /\ Counters(x) /\ Phases(x) /\ L \subseteq Entries
      /\ Handles(x, L) /\ Accounts(x) /\ rows \in [Frames -> Runs \cup {0}]
  BY Here
<1>2. /\ d' = [d EXCEPT ![r] = y] /\ ~x.stopped /\ x.mode = "final"
      /\ UNCHANGED <<scene, node, disk, trouble, file, part, turns, rows, clips>>
  BY <1>1 DEF FinalReadStarts, shared, Active
<1>3. P \in SUBSET SUBSET Entries /\ \A text \in P : text = L
  BY <1>1
<1>. HIDE DEF x, P
<1>4. /\ y \in Downloader /\ SameReports(x, y) /\ y.mode = "final" /\ y.final = P
      /\ y.readOK = x.readOK /\ y.reads = x.reads /\ y.hold = x.hold /\ y.idle = x.idle
  <2>1. y \in Downloader
    BY <1>1, <1>3 DEF Downloader
  <2>. QED
    BY <1>1, <1>2, <2>1 DEF Downloader, SameReports
<1>. HIDE DEF y
<1>5. Reading(x, y, L)
  BY <1>1, <1>2, <1>3, <1>4 DEF Reading, SameReports, Counters, Phases, Handles
<1>6. Accounts(y)
  BY <1>1, <1>4 DEF Accounts, SameReports, Leftovers, IsOurFrame
<1>. QED
  BY <1>1, <1>2, <1>4, <1>5, <1>6, ReadingMove DEF x

LEMMA FinalReadFailsKeeps ==
    ASSUME TransferInv, NEW r \in Runs, FinalReadFails(r)
    PROVE  TransferInv'
<1>. DEFINE x == d[r]
            L == node[r].listed
            m == IF x.stopped \/ x.reads + 1 >= FinalReads THEN "draining" ELSE "final"
            k == x.reads + 1
            y == [x EXCEPT !.reads = k, !.final = {}, !.idle = 0, !.mode = m]
<1>1. /\ x \in Downloader /\ d \in [Runs -> Downloader] /\ Counters(x) /\ Phases(x) /\ L \subseteq Entries
      /\ Handles(x, L) /\ Accounts(x) /\ rows \in [Frames -> Runs \cup {0}] /\ scene \in Scenes
  BY Here
<1>2. x.mode = "final"
  BY DEF FinalReadFails
<1>3. /\ d' = [d EXCEPT ![r] = y]
      /\ UNCHANGED <<scene, node, disk, trouble, file, part, turns, rows, clips>>
  BY <1>1, <1>2 DEF FinalReadFails, shared
<1>4. m \in Modes /\ m \in {"draining", "final"}
      /\ (x.stopped => m = "draining") /\ k \in 0 .. FinalReads /\ k \in Nat
      /\ (m = "final" => k < FinalReads)
  BY <1>1, <1>2, LimitsAreNat DEF Modes, Counters
<1>. HIDE DEF x, m, k
<1>5. /\ y \in Downloader /\ SameReports(x, y) /\ y.mode = m /\ y.final = {}
      /\ y.readOK = x.readOK /\ y.reads = k /\ y.hold = x.hold /\ y.idle = 0
  <2>1. y \in Downloader
    BY <1>1, <1>4 DEF Downloader
  <2>. QED
    BY <1>1, <2>1 DEF Downloader, SameReports
<1>. HIDE DEF y
<1>6. Reading(x, y, L)
  BY <1>1, <1>2, <1>4, <1>5, LimitsAreNat DEF Reading, SameReports, Counters, Phases, Handles
<1>7. Accounts(y)
  BY <1>1, <1>5 DEF Accounts, SameReports, Leftovers, IsOurFrame
<1>. QED
  BY <1>1, <1>3, <1>5, <1>6, <1>7, ReadingMove DEF x

LEMMA WakesKeeps ==
    ASSUME TransferInv, NEW r \in Runs, Wakes(r)
    PROVE  TransferInv'
<1>. DEFINE x == d[r]
            L == node[r].listed
            k == x.slept + 1
            y == [x EXCEPT !.idle = 0, !.slept = k]
<1>1. /\ x \in Downloader /\ d \in [Runs -> Downloader] /\ Counters(x) /\ Phases(x)
      /\ Handles(x, L) /\ Accounts(x) /\ rows \in [Frames -> Runs \cup {0}] /\ scene \in Scenes
  BY Here
<1>2. /\ d' = [d EXCEPT ![r] = y] /\ ~x.stopped /\ x.mode = "draining"
      /\ UNCHANGED <<scene, node, disk, trouble, file, part, turns, rows, clips>>
  BY <1>1 DEF Wakes, shared
<1>k. k \in Nat
  BY <1>1 DEF Downloader
<1>. HIDE DEF x, k
<1>3. /\ y \in Downloader /\ SameReports(x, y) /\ y.mode = x.mode /\ y.final = x.final
      /\ y.readOK = x.readOK /\ y.reads = x.reads /\ y.hold = x.hold /\ y.idle = 0
  <2>1. y \in Downloader
    BY <1>1, <1>k DEF Downloader
  <2>. QED
    BY <1>1, <2>1 DEF Downloader, SameReports
<1>. HIDE DEF y
<1>4. Reading(x, y, L)
  BY <1>1, <1>2, <1>3, LimitsAreNat DEF Reading, SameReports, Counters, Phases, Handles
<1>5. Accounts(y)
  BY <1>1, <1>3, AccountsStay DEF AccountsKept, SameReports, Leftovers
<1>. QED
  BY <1>1, <1>2, <1>3, <1>4, <1>5, ReadingMove DEF x

LEMMA DrainReturnsKeeps ==
    ASSUME TransferInv, NEW r \in Runs, DrainReturns(r)
    PROVE  TransferInv'
<1>. DEFINE x == d[r]
            L == node[r].listed
            y == [x EXCEPT !.mode = "done", !.idle = 0, !.hold = 0,
                           !.heldOnce = FALSE, !.landedSince = FALSE, !.slept = 0]
<1>1. /\ x \in Downloader /\ d \in [Runs -> Downloader] /\ Counters(x) /\ Phases(x)
      /\ Handles(x, L) /\ Accounts(x) /\ rows \in [Frames -> Runs \cup {0}] /\ scene \in Scenes
  BY Here
<1>2. /\ d' = [d EXCEPT ![r] = y] /\ x.mode = "draining" /\ (x.stopped \/ ~Busy(x))
      /\ UNCHANGED <<scene, node, disk, trouble, file, part, turns, clips>>
  BY <1>1 DEF DrainReturns
<1>3. rows' \in [Frames -> Runs \cup {0}]
  BY <1>1 DEF DrainReturns
<1>. HIDE DEF x
<1>4. /\ y \in Downloader /\ SameReports(x, y) /\ y.mode = "done" /\ y.final = x.final
      /\ y.readOK = x.readOK /\ y.reads = x.reads /\ y.hold = 0 /\ y.idle = 0
  <2>1. y \in Downloader
    BY <1>1 DEF Downloader, Modes
  <2>. QED
    BY <1>1, <2>1 DEF Downloader, SameReports
<1>. HIDE DEF y
<1>5. Reading(x, y, L)
  BY <1>1, <1>2, <1>4, LimitsAreNat DEF Reading, SameReports, Counters, Phases, Handles
<1>6. Accounts(y)
  <2>1. x.stopped \/ Leftovers(x) = {}
    BY <1>2 DEF Busy, Leftovers
  <2>2. Leftovers(y) = Leftovers(x)
    BY <1>4 DEF SameReports, Leftovers
  <2>3. \A e : Reports(x, e) => Reports(y, e)
    BY <1>2, <1>4, <2>1 DEF Reports, SameReports
  <2>. QED
    BY <1>1, <1>2, <1>4, <2>2, <2>3 DEF Accounts, SameReports, IsOurFrame
<1>. QED
  BY <1>1, <1>2, <1>3, <1>4, <1>5, <1>6, ReadingMove DEF x

LEMMA FinalAnswersKeeps ==
    ASSUME TransferInv, NEW r \in Runs, FinalAnswers(r)
    PROVE  TransferInv'
<1>. DEFINE x == d[r]
            L == node[r].listed
<1>1. /\ scene \in Scenes /\ disk \in BOOLEAN /\ trouble \in BOOLEAN
      /\ d \in [Runs -> Downloader] /\ x \in Downloader /\ Fit(x, L) /\ Counters(x) /\ Phases(x)
      /\ Handles(x, L) /\ L \subseteq Entries
      /\ TurnsFit(d, turns) /\ Accounts(x) /\ Slots(x, trouble)
      /\ rows \in [Frames -> Runs \cup {0}] /\ clips \subseteq Runs \X Entries
  BY Here
<1>2. PICK text \in x.final :
        Pumped(r, [Taken(x, text) EXCEPT !.mode = "draining", !.readOK = TRUE, !.idle = 0], turns)
  BY DEF FinalAnswers
<1>. DEFINE w == Taken(x, text)
            z == [w EXCEPT !.mode = "draining", !.readOK = TRUE, !.idle = 0]
<1>3. text \subseteq L /\ UNION x.final = text
  <2>. HIDE DEF x
  <2>1. text \subseteq L /\ \A a \in x.final : a = text
    BY <1>1, <1>2 DEF Handles
  <2>2. x.final = {text}
    BY <1>2, <2>1
  <2>. QED
    BY <2>1, <2>2
<1>4. x.mode = "final" /\ ~x.stopped /\ ~x.off
  BY <1>1 DEF FinalAnswers, Phases
<1>5. Fit(w, L) /\ w \in Downloader /\ Counters(w) /\ Phases(w) /\ Handles(w, L)
  <2>1. Fit(w, L)
    <3>. HIDE DEF x, L
    <3>. QED
      BY <1>1, <1>3, <1>4, TakenFits
  <2>. QED
    BY <2>1 DEF Fit
<1>6. /\ w.mode = x.mode /\ w.stopped = x.stopped /\ w.active = x.active /\ w.final = x.final
      /\ Leftovers(x) \subseteq Leftovers(w)
      /\ \A e \in w.seen \cup text : IsFrame(e) /\ IsOurFrame(w, e) =>
           e \in w.landed \cup w.lost \cup w.blocked \cup Leftovers(w)
  <2>1. text \subseteq Entries
    BY <1>1, <1>3
  <2>2. \A e \in w.seen \cup text : IsFrame(e) /\ IsOurFrame(w, e) =>
           e \in w.landed \cup w.lost \cup w.blocked \cup Leftovers(w)
    <3>. HIDE DEF x
    <3>. QED
      BY <1>1, <1>4, <2>1, TakenAccounts
  <2>. QED
    BY <1>1, <2>2 DEF Taken, Downloader, Leftovers
<1>. HIDE DEF w, x
<1>7. /\ z \in Downloader /\ SameReports(w, z) /\ z.mode = "draining" /\ z.final = w.final
      /\ z.reads = w.reads /\ z.hold = w.hold /\ z.idle = 0
  <2>1. z \in Downloader
    BY <1>5 DEF Downloader, Modes
  <2>. QED
    BY <1>5, <2>1 DEF Downloader, SameReports
<1>. HIDE DEF z
<1>8. Fit(z, L) /\ Leftovers(z) = Leftovers(w)
  <2>1. Reading(w, z, L)
    BY <1>1, <1>4, <1>5, <1>6, <1>7, LimitsAreNat DEF Reading, SameReports, Counters, Phases, Handles
  <2>. QED
    BY <1>5, <1>7, <2>1, ReadingFits
<1>9. Accounts(z)
  <2>1. \A e : IsOurFrame(z, e) = IsOurFrame(w, e)
    BY <1>7 DEF SameReports, IsOurFrame
  <2>2. ~z.stopped /\ UNION z.final = text
    BY <1>3, <1>4, <1>6, <1>7 DEF SameReports
  <2>3. \A e \in z.seen \cup text : IsFrame(e) /\ IsOurFrame(z, e) =>
          e \in z.landed \cup z.lost \cup z.blocked \cup Leftovers(z)
    BY <1>6, <1>7, <1>8, <2>1 DEF SameReports
  <2>. QED
    BY <1>7, <2>2, <2>3 DEF Accounts, Reports
<1>10. TurnsFit([d EXCEPT ![r] = z], turns)
  <2>. DEFINE de == [d EXCEPT ![r] = z]
  <2>1. \A o \in Runs : d[o].active \subseteq de[o].active /\ (de[o].stopped => d[o].stopped)
    BY <1>1, <1>6, <1>7 DEF x, SameReports
  <2>. HIDE DEF de
  <2>. QED
    BY <1>1, <2>1, TurnsKeepFit DEF de
<1>11. PICK S \in SUBSET z.queue, y \in Downloader :
             /\ y = Started(z, S) /\ d' = [d EXCEPT ![r] = y]
             /\ Fit(y, L) /\ Accounts(y) /\ Slots(y, trouble)
             /\ TurnsFit(d', turns')
             /\ \A e \in Entries, o \in Runs : RmOf(turns, e, o) => RmOf(turns', e, o)
             /\ Leftovers(y) = Leftovers(z) /\ y.stopped = z.stopped
  <2>1. Pumped(r, z, turns)
    BY <1>2 DEF z, w
  <2>. QED
    BY <1>8, <1>9, <1>10, <2>1, PumpedMove
<1>12. UNCHANGED <<scene, node, disk, trouble, file, part, rows, clips>>
  BY DEF FinalAnswers
<1>13. z.stopped = x.stopped
  BY <1>6, <1>7 DEF SameReports
<1>. QED
  BY <1>1, <1>6, <1>8, <1>11, <1>12, <1>13, QuietMove DEF x

\* A downloader that stops: what it leaves is reported, or read by nobody.
LEMMA StoppedMove ==
    ASSUME TransferInv, NEW r \in Runs, d[r].mode # "off", NEW y,
           d' = [d EXCEPT ![r] = y], turns' = TurnsStopped(r, d[r]),
           UNCHANGED <<scene, node, file, part, rows, clips, disk, trouble>>,
           Fit(y, node[r].listed), Accounts(y), y.stopped,
           y.active = {e \in d[r].active : AtWork(r, e)}
    PROVE  TransferInv'
<1>1. /\ disk \in BOOLEAN /\ trouble \in BOOLEAN /\ d \in [Runs -> Downloader] /\ TurnsFit(d, turns)
      /\ rows \in [Frames -> Runs \cup {0}] /\ clips \subseteq Runs \X Entries
      /\ Leftovers(d[r]) \subseteq Entries
  <2>1. Leftovers(d[r]) \subseteq Entries
    BY Here DEF Handles
  <2>. QED
    BY <2>1, Here
<1>2. Slots(y, trouble')
  BY DEF Slots, Active
<1>3. /\ TurnsFit(d', turns')
      /\ \A e \in Entries, o \in Runs : RmOf(turns, e, o) => RmOf(turns', e, o)
      /\ \A e \in Entries : e \in Leftovers(d[r]) => RmOf(turns', e, r)
  <2>1. \A o \in Runs \ {r} : d'[o] = d[o]
    BY <1>1
  <2>2. d'[r].active = {e \in d[r].active : AtWork(r, e)}
    BY <1>1
  <2>. QED
    BY <1>1, <2>1, <2>2, StoppedTurnsFit
<1>. QED
  BY <1>1, <1>2, <1>3, QuietMove

LEMMA StopKeeps ==
    ASSUME TransferInv, NEW r \in Runs, Stop(r)
    PROVE  TransferInv'
<1>. DEFINE x == d[r]
            L == node[r].listed
            y == Abandoned(r, x)
<1>1. /\ scene \in Scenes /\ d \in [Runs -> Downloader] /\ x \in Downloader /\ Fit(x, L)
      /\ disk \in BOOLEAN /\ trouble \in BOOLEAN /\ L \subseteq Entries
      /\ Accounts(x) /\ TurnsFit(d, turns) /\ Slots(x, trouble)
      /\ rows \in [Frames -> Runs \cup {0}] /\ clips \subseteq Runs \X Entries
  BY Here
<1>2. /\ x.mode # "off" /\ ~x.off /\ d' = [d EXCEPT ![r] = y]
      /\ turns' = IF x.stopped THEN turns ELSE TurnsStopped(r, x)
      /\ UNCHANGED <<scene, node, disk, trouble, file, part, rows, clips>>
  BY <1>1 DEF Stop
<1>3. Fit(y, L)
  <2>. HIDE DEF x, y, L
  <2>. QED
    BY <1>1, <1>2, AbandonedFits DEF y
<1>4. CASE x.stopped /\ x.mode = "draining"
  <2>1. y = [x EXCEPT !.off = TRUE]
    BY <1>4 DEF Abandoned
  <2>. HIDE DEF y
  <2>2. y.active = x.active /\ y.stopped /\ AccountsKept(x, y)
    <3>. HIDE DEF x
    <3>. QED
      BY <1>1, <1>4, <2>1 DEF AccountsKept, Leftovers, Downloader
  <2>3. Accounts(y) /\ Slots(y, trouble')
    BY <1>1, <2>2, AccountsStay DEF Slots, Active
  <2>4. TurnsFit(d', turns')
    <3>1. \A o \in Runs : d[o].active \subseteq d'[o].active /\ (d'[o].stopped => d[o].stopped)
      BY <1>1, <1>2, <1>4, <2>2
    <3>. QED
      BY <1>1, <1>2, <1>4, <3>1, TurnsKeepFit
  <2>. QED
    BY <1>1, <1>2, <1>3, <1>4, <2>3, <2>4, QuietMove
<1>5. CASE ~(x.stopped /\ x.mode = "draining")
  <2>. DEFINE A == {e \in x.active : AtWork(r, e)}
  <2>1. y = [Idle EXCEPT !.mode = "done", !.off = TRUE, !.stopped = TRUE, !.active = A]
    BY <1>1, <1>5 DEF Abandoned, Stopped, Downloader
  <2>. HIDE DEF y
  <2>2. y.active = A /\ y.stopped /\ ~y.readOK /\ y.queue = {}
    BY <2>1 DEF Idle
  <2>3. Accounts(y) /\ Slots(y, trouble')
    BY <2>2 DEF Accounts, Slots
  <2>4. CASE ~x.stopped
    BY <1>1, <1>2, <1>3, <2>2, <2>3, <2>4, StoppedMove
  <2>5. CASE x.stopped
    <3>1. \A e \in Entries : \A i \in DOMAIN turns[e] :
            turns[e][i].op = "get" /\ turns[e][i].run = r => e \in A
      <4>. SUFFICES ASSUME NEW e \in Entries, NEW i \in DOMAIN turns[e],
                           turns[e][i].op = "get", turns[e][i].run = r
                    PROVE  e \in A
        OBVIOUS
      <4>1. e \in x.active /\ ~(i > 1)
        BY <1>1, <2>5 DEF TurnsFit
      <4>2. turns[e] \in Seq(Turn)
        BY <1>1 DEF TurnsFit
      <4>3. turns[e][i] \in Turn /\ i \in Nat /\ i >= 1 /\ turns[e] # <<>>
        BY <4>2
      <4>4. i = 1
        BY <4>1, <4>3
      <4>5. turns[e][1] = [run |-> r, op |-> "get"]
        BY <4>3, <4>4 DEF Turn
      <4>. QED
        BY <4>1, <4>3, <4>5 DEF AtWork
    <3>. HIDE DEF A
    <3>2. \A o \in Runs : d'[o] = IF o = r THEN y ELSE d[o]
      BY <1>1, <1>2
    <3>3. TurnsFit(d', turns)
      <4>1. \A e \in Entries : \A i \in DOMAIN turns[e] : turns[e][i].op = "get" =>
              /\ turns[e][i].run \in Runs
              /\ e \in d'[turns[e][i].run].active
              /\ i > 1 => ~d'[turns[e][i].run].stopped
        <5>. SUFFICES ASSUME NEW e \in Entries, NEW i \in DOMAIN turns[e], turns[e][i].op = "get"
                      PROVE  /\ turns[e][i].run \in Runs
                             /\ e \in d'[turns[e][i].run].active
                             /\ i > 1 => ~d'[turns[e][i].run].stopped
          OBVIOUS
        <5>1. turns[e] \in Seq(Turn)
          BY <1>1 DEF TurnsFit
        <5>2. turns[e][i] \in Turn
          BY <5>1
        <5>3. turns[e][i].run \in Runs
          BY <5>2 DEF Turn
        <5>4. e \in d[turns[e][i].run].active /\ (i > 1 => ~d[turns[e][i].run].stopped)
          BY <1>1 DEF TurnsFit
        <5>5. CASE turns[e][i].run = r
          <6>1. ~(i > 1)
            BY <2>5, <5>4, <5>5
          <6>. QED
            BY <2>2, <3>1, <3>2, <5>3, <5>5, <6>1
        <5>6. CASE turns[e][i].run # r
          BY <3>2, <5>3, <5>4, <5>6
        <5>. QED
          BY <5>5, <5>6
      <4>. QED
        BY <1>1, <4>1 DEF TurnsFit
    <3>4. turns' = turns
      BY <1>2, <2>5
    <3>. QED
      BY <1>1, <1>2, <1>3, <2>3, <2>5, <3>3, <3>4, QuietMove
  <2>. QED
    BY <2>4, <2>5
<1>. QED
  BY <1>4, <1>5

LEMMA LookKeeps ==
    ASSUME TransferInv, NEW r \in Runs, Look(r)
    PROVE  TransferInv'
<1>. DEFINE x == d[r]
            L == node[r].listed
            fresh == ~x.heldOnce \/ x.landedSince
            held == IF fresh THEN 0 ELSE x.hold + 1
            left == {e \in Leftovers(x) : IsFrame(e)}
            A == {e \in x.active : AtWork(r, e)}
            gives == [Stopped(r, x) EXCEPT !.gaveUp = TRUE]
<1>1. /\ scene \in Scenes /\ d \in [Runs -> Downloader] /\ x \in Downloader /\ Fit(x, L)
      /\ Counters(x) /\ Phases(x) /\ Handles(x, L)
      /\ disk \in BOOLEAN /\ trouble \in BOOLEAN /\ L \subseteq Entries
      /\ Accounts(x) /\ rows \in [Frames -> Runs \cup {0}] /\ clips \subseteq Runs \X Entries
  BY Here
<1>2. /\ x.mode = "draining" /\ ~x.stopped
      /\ UNCHANGED <<scene, node, disk, trouble, file, part, rows, clips>>
  BY DEF Look
<1>3. ASSUME NEW h \in 0 .. HoldLimit, NEW i \in 0 .. IdleLimit, NEW y \in Downloader,
             SameReports(x, y), y.mode = x.mode, y.final = x.final, y.readOK = x.readOK,
             y.reads = x.reads, y.hold = h, y.idle = i, d' = [d EXCEPT ![r] = y], turns' = turns
      PROVE  TransferInv'
  <2>. HIDE DEF x
  <2>1. Reading(x, y, L)
    BY <1>1, <1>2, <1>3 DEF Reading, SameReports, Counters, Phases, Handles
  <2>2. Accounts(y)
    BY <1>1, <1>3, AccountsStay DEF AccountsKept, SameReports, Leftovers
  <2>. QED
    BY <1>1, <1>2, <1>3, <2>1, <2>2, ReadingMove DEF x
<1>4. ASSUME NEW b \in SUBSET Entries, NEW k \in SUBSET Entries, x.blocked \subseteq b, x.lost \subseteq k,
             left \subseteq b \cup k, NEW y,
             y = [[x EXCEPT !.stopped = TRUE, !.active = A] EXCEPT !.gaveUp = TRUE, !.blocked = b, !.lost = k],
             d' = [d EXCEPT ![r] = y], turns' = TurnsStopped(r, x)
      PROVE  TransferInv'
  <2>. DEFINE w == [x EXCEPT !.stopped = TRUE, !.active = A]
  <2>0. A \subseteq x.active
    OBVIOUS
  <2>1. Fit(w, L) /\ w.active = A
    <3>. HIDE DEF x, A, L
    <3>1. Fit(x, L) /\ L \subseteq Entries /\ x.mode = "draining" /\ x.mode # "off"
      BY <1>1, <1>2
    <3>2. Halted(x, A).active = A /\ (x.mode = "draining" => Fit(Halted(x, A), L))
      BY <2>0, <3>1, StoppedFits
    <3>. QED
      BY <3>1, <3>2 DEF Halted
  <2>2. /\ w.stopped /\ w.mode = "draining" /\ w.seen = x.seen /\ w.final = x.final
        /\ w.from = x.from /\ w.to = x.to /\ w.landed = x.landed
    <3>. HIDE DEF x, A
    <3>. QED
      BY <1>1, <1>2 DEF Downloader
  <2>3. w \in Downloader /\ Counters(w) /\ Phases(w) /\ Handles(w, L)
    BY <2>1 DEF Fit
  <2>. HIDE DEF w
  <2>4. /\ y \in Downloader /\ y.gaveUp /\ y.blocked = b /\ y.lost = k
        /\ y.attempts = w.attempts /\ y.queue = w.queue /\ y.active = w.active
        /\ y.retrying = w.retrying /\ y.asking = w.asking /\ y.seen = w.seen
        /\ y.stopped = w.stopped /\ y.off = w.off /\ y.from = w.from /\ y.to = w.to
        /\ y.polled = w.polled /\ y.final = w.final /\ y.landed = w.landed /\ y.mode = w.mode
        /\ y.reads = w.reads /\ y.hold = w.hold /\ y.idle = w.idle
    <3>1. y = [w EXCEPT !.gaveUp = TRUE, !.blocked = b, !.lost = k]
      BY <1>4 DEF w
    <3>2. [w EXCEPT !.gaveUp = TRUE, !.blocked = b, !.lost = k] \in Downloader
      BY <2>3 DEF Downloader
    <3>3. y \in Downloader
      BY <3>1, <3>2
    <3>. QED
      BY <2>3, <3>1, <3>3 DEF Downloader
  <2>5. Leftovers(y) = Leftovers(w)
    BY <2>4 DEF Leftovers
  <2>6. Counters(y) /\ Phases(y)
    BY <2>2, <2>3, <2>4, <2>5 DEF Counters, Phases
  <2>7. Handles(y, L)
    BY <2>3, <2>4, <2>5 DEF Handles, Apart, Dropped
  <2>8. Accounts(y)
    <3>1. \A e : IsOurFrame(y, e) = IsOurFrame(x, e)
      BY <2>2, <2>4 DEF IsOurFrame
    <3>2. \A e : IsFrame(e) /\ Reports(x, e) => Reports(y, e)
      <4>. SUFFICES ASSUME NEW e, IsFrame(e), Reports(x, e) PROVE Reports(y, e)
        OBVIOUS
      <4>1. e \in x.landed \cup x.lost \cup x.blocked \/ e \in left
        BY <1>2 DEF Reports
      <4>. HIDE DEF left
      <4>2. e \in y.landed \cup y.lost \cup y.blocked
        BY <1>4, <2>2, <2>4, <4>1
      <4>. QED
        BY <4>2 DEF Reports
    <3>3. \A e \in UNION x.final : IsFrame(e) /\ IsOurFrame(x, e) /\ y.readOK => Reports(x, e)
      <4>1. y.readOK = x.readOK
        BY <1>1, <1>4 DEF Downloader
      <4>. QED
        BY <1>1, <1>2, <4>1 DEF Accounts
    <3>. QED
      BY <2>2, <2>4, <3>1, <3>2, <3>3 DEF Accounts
  <2>9. Fit(y, L)
    BY <2>4, <2>6, <2>7 DEF Fit
  <2>. QED
    BY <1>2, <1>4, <2>1, <2>2, <2>4, <2>8, <2>9, StoppedMove
<1>5. left \subseteq Entries /\ x.blocked \subseteq Entries /\ x.lost \subseteq Entries
  BY <1>1 DEF Handles, Downloader
<1>6. Stopped(r, x) = [x EXCEPT !.stopped = TRUE, !.active = A]
  BY <1>1 DEF Stopped, Downloader
<1>7. CASE trouble /\ held <= HoldLimit /\ turns' = turns
           /\ d' = [d EXCEPT ![r].hold = held, ![r].heldOnce = TRUE,
                             ![r].landedSince = FALSE, ![r].idle = 0]
  <2>1. held \in 0 .. HoldLimit /\ held \in Nat
    BY <1>1, <1>7, LimitsAreNat DEF Counters
  <2>2. 0 \in 0 .. IdleLimit
    BY <1>1, LimitsAreNat
  <2>. DEFINE y == [x EXCEPT !.hold = held, !.heldOnce = TRUE, !.landedSince = FALSE, !.idle = 0]
  <2>3. d' = [d EXCEPT ![r] = y]
    BY <1>1, <1>7
  <2>4. y \in Downloader
    <3>. HIDE DEF x, held
    <3>. QED
      BY <1>1, <2>1 DEF Downloader
  <2>5. /\ SameReports(x, y) /\ y.mode = x.mode /\ y.final = x.final
        /\ y.readOK = x.readOK /\ y.reads = x.reads /\ y.hold = held /\ y.idle = 0
    <3>. HIDE DEF x, held
    <3>. QED
      BY <1>1 DEF Downloader, SameReports
  <2>. HIDE DEF y
  <2>. QED
    BY <1>3, <1>7, <2>1, <2>2, <2>3, <2>4, <2>5
<1>8. CASE trouble /\ turns' = TurnsStopped(r, x)
           /\ d' = [d EXCEPT ![r] = [gives EXCEPT !.blocked = @ \cup left]]
  <2>. DEFINE b == x.blocked \cup left
              y == [gives EXCEPT !.blocked = @ \cup left]
  <2>1. y = [[x EXCEPT !.stopped = TRUE, !.active = A] EXCEPT !.gaveUp = TRUE, !.blocked = b, !.lost = x.lost]
    <3>. HIDE DEF x, A, left
    <3>. QED
      BY <1>1, <1>6 DEF Downloader
  <2>. QED
    BY <1>4, <1>5, <1>8, <2>1
<1>9. CASE ~trouble /\ x.idle < IdleLimit /\ turns' = turns /\ d' = [d EXCEPT ![r].idle = @ + 1]
  <2>. DEFINE k == x.idle + 1
              y == [x EXCEPT !.idle = k]
  <2>1. k \in 0 .. IdleLimit /\ k \in Nat
    BY <1>1, <1>9, LimitsAreNat DEF Counters
  <2>2. x.hold \in 0 .. HoldLimit
    BY <1>1 DEF Counters
  <2>3. d' = [d EXCEPT ![r] = y]
    BY <1>1, <1>9
  <2>4. y \in Downloader
    <3>. HIDE DEF x, k
    <3>. QED
      BY <1>1, <2>1 DEF Downloader
  <2>5. /\ SameReports(x, y) /\ y.mode = x.mode /\ y.final = x.final
        /\ y.readOK = x.readOK /\ y.reads = x.reads /\ y.hold = x.hold /\ y.idle = k
    <3>. HIDE DEF x, k
    <3>. QED
      BY <1>1 DEF Downloader, SameReports
  <2>. HIDE DEF y
  <2>. QED
    BY <1>3, <1>9, <2>1, <2>2, <2>3, <2>4, <2>5
<1>10. CASE ~trouble /\ turns' = TurnsStopped(r, x)
            /\ d' = [d EXCEPT ![r] = [gives EXCEPT !.lost = @ \cup left]]
  <2>. DEFINE k == x.lost \cup left
              y == [gives EXCEPT !.lost = @ \cup left]
  <2>1. y = [[x EXCEPT !.stopped = TRUE, !.active = A] EXCEPT !.gaveUp = TRUE, !.blocked = x.blocked, !.lost = k]
    <3>. HIDE DEF x, A, left
    <3>. QED
      BY <1>1, <1>6 DEF Downloader
  <2>. QED
    BY <1>4, <1>5, <1>10, <2>1
<1>. QED
  BY <1>7, <1>8, <1>9, <1>10 DEF Look

-----------------------------------------------------------------------------
(* The node, the disk, and a transfer's end. *)

LEMMA NodeListsKeeps ==
    ASSUME TransferInv, NEW r \in Runs, NEW e \in Entries, NodeLists(r, e)
    PROVE  TransferInv'
<1>. DEFINE G == IF e.kind # "live" THEN node[r].gone ELSE
                 node[r].gone \cup {o \in node[r].listed : o.kind = "live" /\ o.num + LiveKept <= e.num}
<1>1. /\ node' = [node EXCEPT ![r].listed = @ \cup {e}, ![r].gone = G] /\ e \in scene.entries
      /\ UNCHANGED <<scene, d, disk, trouble, file, part, turns, rows, clips>>
  BY DEF NodeLists, shared
<1>2. BaseInv /\ node \in [Runs -> [listed : SUBSET Entries, gone : SUBSET Entries]]
  BY DEF TransferInv, BaseInv, NodesFit
<1>3. node[r].gone \subseteq G /\ G \subseteq node[r].listed
  BY <1>2 DEF BaseInv, NodesFit
<1>. HIDE DEF G
<1>4. \A o \in Runs : /\ node'[o].listed = IF o = r THEN node[o].listed \cup {e} ELSE node[o].listed
                      /\ node'[o].gone = IF o = r THEN G ELSE node[o].gone
  BY <1>1, <1>2
<1>5. NodesFit'
  <2>1. node' \in [Runs -> [listed : SUBSET Entries, gone : SUBSET Entries]]
    <3>1. node[r].listed \cup {e} \in SUBSET Entries /\ G \in SUBSET Entries
      BY <1>2, <1>3 DEF BaseInv, NodesFit
    <3>. QED
      BY <1>1, <1>2, <3>1
  <2>2. \A o \in Runs : node'[o].listed \subseteq scene'.entries /\ node'[o].gone \subseteq node'[o].listed
    BY <1>1, <1>2, <1>3, <1>4 DEF BaseInv, NodesFit
  <2>. QED
    BY <2>1, <2>2 DEF NodesFit
<1>6. \A o \in Runs : Fit(d'[o], node'[o].listed)
  BY <1>1, <1>2, <1>4 DEF BaseInv, DownloadersFit, Fit, Handles
<1>7. DownloadersFit'
  <2>1. MaxAttempts' = MaxAttempts /\ HoldLimit' = HoldLimit /\ IdleLimit' = IdleLimit
    BY <1>1 DEF MaxAttempts, HoldLimit, IdleLimit
  <2>2. \A o \in Runs : Fit(d[o], node[o].listed)'
    BY <1>6, <2>1 DEF Fit, Counters
  <2>3. d' \in [Runs -> Downloader]
    BY <1>1, <1>2 DEF BaseInv, DownloadersFit
  <2>. QED
    BY <2>2, <2>3 DEF DownloadersFit
<1>8. BaseInv'
  <2>1. FolderFit' /\ TurnsFit(d', turns')
    BY <1>1, <1>2 DEF BaseInv, FolderFit, Contents
  <2>. QED
    BY <1>1, <1>2, <1>5, <1>7, <2>1 DEF BaseInv
<1>9. AccountsInv' /\ SlotsInv'
  BY <1>1 DEF TransferInv, AccountsInv, SlotsInv
<1>10. PartialsInv'
  <2>1. \A o \in Runs, f \in Entries : Minds(d, turns, node, o, f) => Minds(d', turns', node', o, f)
    BY <1>1, <1>3, <1>4 DEF Minds
  <2>2. \A c \in Contents, f \in Entries : Kept(d, turns, node, c, f) => Kept(d', turns', node', c, f)
    BY <2>1 DEF Kept
  <2>3. \A c \in Contents, f \in Entries :
          part'[c][f] # 0 => file'[f] # c /\ Kept(d', turns', node', c, f)
    BY <1>1, <2>2 DEF TransferInv, PartialsInv
  <2>. QED
    BY <2>3 DEF PartialsInv, Contents
<1>. QED
  BY <1>8, <1>9, <1>10 DEF TransferInv

LEMMA DiskTurnsKeeps ==
    ASSUME TransferInv, DiskTurns
    PROVE  TransferInv'
<1>1. /\ disk' \in BOOLEAN
      /\ UNCHANGED <<scene, node, d, trouble, file, part, turns, rows, clips>>
  BY DEF DiskTurns, shared, TransferInv, BaseInv
<1>2. NodesFit' /\ FolderFit'
  BY <1>1 DEF TransferInv, BaseInv, NodesFit, FolderFit, Contents
<1>3. DownloadersFit'
  <2>1. MaxAttempts' = MaxAttempts /\ HoldLimit' = HoldLimit /\ IdleLimit' = IdleLimit
    BY <1>1 DEF MaxAttempts, HoldLimit, IdleLimit
  <2>2. \A o \in Runs : Fit(d'[o], node'[o].listed)
    BY <1>1 DEF TransferInv, BaseInv, DownloadersFit
  <2>3. \A o \in Runs : Fit(d[o], node[o].listed)'
    BY <2>1, <2>2 DEF Fit, Counters
  <2>. QED
    BY <1>1, <2>3 DEF DownloadersFit, TransferInv, BaseInv
<1>4. BaseInv'
  BY <1>1, <1>2, <1>3 DEF TransferInv, BaseInv
<1>5. AccountsInv' /\ SlotsInv'
  BY <1>1 DEF TransferInv, AccountsInv, SlotsInv
<1>6. PartialsInv'
  BY <1>1 DEF TransferInv, PartialsInv, Contents
<1>. QED
  BY <1>4, <1>5, <1>6 DEF TransferInv

\* At work on a file is to have a slot for it.
LEMMA AtWorkHasSlot ==
    ASSUME TransferInv, NEW r \in Runs, NEW e \in Entries, AtWork(r, e)
    PROVE  /\ e \in d[r].active /\ turns[e] # <<>> /\ turns[e][1] = [run |-> r, op |-> "get"]
           /\ d[r].mode # "off" /\ e \in scene.entries
<1>1. turns[e] # <<>> /\ turns[e][1] = [run |-> r, op |-> "get"] /\ TurnsFit(d, turns)
  BY Here DEF AtWork
<1>2. 1 \in DOMAIN turns[e]
  <2>1. turns[e] \in Seq(Turn)
    BY <1>1 DEF TurnsFit
  <2>. QED
    BY <1>1, <2>1
<1>3. e \in d[r].active
  BY <1>1, <1>2 DEF TurnsFit
<1>4. d[r].mode # "off" /\ e \in scene.entries
  BY <1>3, Here DEF Phases, Idle, Handles, Leftovers
<1>. QED
  BY <1>1, <1>3, <1>4

\* The transfer of e is over: its turn passes with its slot.
LEMMA TurnPasses ==
    ASSUME TransferInv, NEW r \in Runs, NEW e \in Entries, AtWork(r, e), NEW z,
           z.active = d[r].active \ {e}, z.stopped = d[r].stopped
    PROVE  /\ TurnsFit([d EXCEPT ![r] = z], TurnOver(e))
           /\ \A f \in Entries, o \in Runs :
                /\ GetOf(TurnOver(e), f, o) => GetOf(turns, f, o)
                /\ GetOf(TurnOver(e), e, o) => ~d[o].stopped /\ o # r
                /\ RmOf(turns, f, o) => RmOf(TurnOver(e), f, o)
<1>. DEFINE de == [d EXCEPT ![r] = z]
<1>1. turns[e] # <<>> /\ turns[e][1] = [run |-> r, op |-> "get"]
  BY AtWorkHasSlot
<1>2. TurnsFit(d, turns) /\ d \in [Runs -> Downloader]
  BY Here
<1>3. \A o \in Runs : de[o].stopped => d[o].stopped
  BY <1>2
<1>4. \A o \in Runs : \A f \in d[o].active :
        f \in de[o].active \/ (f = e /\ turns[e][1] = [run |-> o, op |-> "get"])
  BY <1>1, <1>2
<1>. HIDE DEF de
<1>5. /\ TurnsFit(de, TurnOver(e))
      /\ \A f \in Entries, o \in Runs :
           /\ GetOf(TurnOver(e), f, o) => GetOf(turns, f, o)
           /\ GetOf(TurnOver(e), e, o) => ~d[o].stopped /\ turns[e][1] # [run |-> o, op |-> "get"]
           /\ RmOf(turns, f, o) => RmOf(TurnOver(e), f, o)
                                 \/ (f = e /\ turns[e][1] = [run |-> o, op |-> "rm"])
  BY <1>1, <1>2, <1>3, <1>4, TurnOverFits
<1>6. ASSUME NEW f \in Entries, NEW o \in Runs
      PROVE  /\ GetOf(TurnOver(e), f, o) => GetOf(turns, f, o)
             /\ GetOf(TurnOver(e), e, o) => ~d[o].stopped /\ o # r
             /\ RmOf(turns, f, o) => RmOf(TurnOver(e), f, o)
  <2>1. [run |-> o, op |-> "rm"] # [run |-> r, op |-> "get"]
    OBVIOUS
  <2>. QED
    BY <1>1, <1>5, <2>1
<1>. QED
  BY <1>5, <1>6, Zenon DEF de

\* What a transfer's end leaves of a downloader.
SameCourse(x, y) ==
    /\ y.seen = x.seen /\ y.from = x.from /\ y.to = x.to /\ y.final = x.final
    /\ y.readOK = x.readOK /\ y.mode = x.mode /\ y.stopped = x.stopped
    /\ y.off = x.off /\ y.gaveUp = x.gaveUp /\ y.views = x.views

LEMMA EndedCourse ==
    ASSUME NEW x \in Downloader, Apart(x), NEW e \in x.active
    PROVE  LET w == Ended(x, e)
           IN /\ w \in Downloader /\ SameCourse(x, w) /\ w.active = x.active \ {e}
              /\ Leftovers(w) = Leftovers(x) \ {e} /\ w.attempts = x.attempts
              /\ w.landed = x.landed /\ w.lost = x.lost /\ w.blocked = x.blocked
<1>. DEFINE w == Ended(x, e)
<1>1. w = [x EXCEPT !.active = x.active \ {e}]
  BY DEF Ended, Downloader
<1>2. w \in Downloader
  BY <1>1 DEF Downloader
<1>3. /\ SameCourse(x, w) /\ w.active = x.active \ {e} /\ w.attempts = x.attempts
      /\ w.landed = x.landed /\ w.lost = x.lost /\ w.blocked = x.blocked
      /\ w.queue = x.queue /\ w.retrying = x.retrying /\ w.asking = x.asking
  BY <1>1 DEF SameCourse, Downloader
<1>. HIDE DEF w
<1>4. Leftovers(w) = Leftovers(x) \ {e}
  BY <1>3 DEF Leftovers, Apart
<1>. QED
  BY <1>2, <1>3, <1>4 DEF w

\* A failure is charged: the file waits its backoff, or is given up.
LEMMA ChargedCourse ==
    ASSUME NEW w \in Downloader, NEW e \in Entries
    PROVE  LET z == Charged(w, e)
           IN /\ SameCourse(w, z) /\ z.active = w.active /\ z.landed = w.landed
              /\ z.blocked = w.blocked /\ w.lost \subseteq z.lost
              /\ Leftovers(w) \subseteq Leftovers(z) /\ Leftovers(z) \subseteq Leftovers(w) \cup {e}
              /\ z.queue = w.queue
              /\ ~LastAttempt(w, e) => e \in Leftovers(z)
              /\ LastAttempt(w, e) /\ IsFrame(e) => e \in z.lost
<1>. DEFINE z == Charged(w, e)
            y == [w EXCEPT !.attempts[e] = @ + 1]
<1>1. z = IF ~LastAttempt(w, e) THEN [y EXCEPT !.retrying = @ \cup {e}]
          ELSE [y EXCEPT !.lost = IF IsFrame(e) THEN @ \cup {e} ELSE @]
  BY DEF Charged
<1>2. /\ y = [w EXCEPT !.attempts = y.attempts] /\ y.retrying = w.retrying /\ y.lost = w.lost
  BY DEF Downloader
<1>3. /\ SameCourse(w, z) /\ z.active = w.active /\ z.landed = w.landed /\ z.blocked = w.blocked
      /\ z.queue = w.queue /\ z.asking = w.asking
      /\ z.retrying = IF LastAttempt(w, e) THEN w.retrying ELSE w.retrying \cup {e}
      /\ z.lost = IF LastAttempt(w, e) /\ IsFrame(e) THEN w.lost \cup {e} ELSE w.lost
  <2>. DEFINE a == y.attempts
  <2>1. y = [w EXCEPT !.attempts = a]
    BY <1>2
  <2>. HIDE DEF z, y, a
  <2>. QED
    BY <1>1, <1>2, <2>1 DEF Downloader, SameCourse
<1>. HIDE DEF z, y
<1>4. /\ Leftovers(w) \subseteq Leftovers(z) /\ Leftovers(z) \subseteq Leftovers(w) \cup {e}
      /\ ~LastAttempt(w, e) => e \in Leftovers(z)
  BY <1>3 DEF Leftovers
<1>. QED
  BY <1>3, <1>4 DEF z

\* A file goes back to the queue, or the disk is asked about it.
LEMMA HandedCourse ==
    ASSUME NEW w \in Downloader, NEW e \in Entries, NEW z,
           z = [w EXCEPT !.queue = @ \cup {e}] \/ z = [w EXCEPT !.asking = @ \cup {e}]
    PROVE  /\ SameCourse(w, z) /\ z.active = w.active /\ z.landed = w.landed
           /\ z.blocked = w.blocked /\ z.lost = w.lost
           /\ Leftovers(z) = Leftovers(w) \cup {e}
<1>1. /\ SameCourse(w, z) /\ z.active = w.active /\ z.landed = w.landed
      /\ z.blocked = w.blocked /\ z.lost = w.lost /\ z.retrying = w.retrying
      /\ \/ z.queue = w.queue \cup {e} /\ z.asking = w.asking
         \/ z.queue = w.queue /\ z.asking = w.asking \cup {e}
  BY DEF SameCourse, Downloader
<1>2. Leftovers(z) = Leftovers(w) \cup {e}
  BY <1>1 DEF Leftovers
<1>. QED
  BY <1>1, <1>2

\* A retry fires, or the disk's answer comes.
LEMMA TakenBackCourse ==
    ASSUME NEW x \in Downloader, Apart(x), NEW e, NEW w, TakenBack(x, w, e)
    PROVE  /\ w \in Downloader /\ SameCourse(x, w) /\ w.active = x.active /\ w.queue = x.queue
           /\ Leftovers(w) = Leftovers(x) \ {e} /\ w.attempts = x.attempts
           /\ w.landed = x.landed /\ w.lost = x.lost /\ w.blocked = x.blocked
<1>1. w \in Downloader
  BY DEF Downloader, TakenBack
<1>2. /\ SameCourse(x, w) /\ w.active = x.active /\ w.attempts = x.attempts
      /\ w.landed = x.landed /\ w.lost = x.lost /\ w.blocked = x.blocked /\ w.queue = x.queue
      /\ \/ e \in x.retrying /\ w.retrying = x.retrying \ {e} /\ w.asking = x.asking
         \/ e \in x.asking /\ w.retrying = x.retrying /\ w.asking = x.asking \ {e}
  BY DEF SameCourse, Downloader, TakenBack
<1>3. Leftovers(w) = Leftovers(x) \ {e}
  BY <1>2 DEF Leftovers, Apart
<1>. QED
  BY <1>1, <1>2, <1>3

LEMMA AbortKeeps ==
    ASSUME TransferInv, NEW r \in Runs, NEW e \in Entries, Abort(r, e)
    PROVE  TransferInv'
<1>. DEFINE x == d[r]
            L == node[r].listed
            y == Ended(x, e)
<1>1. /\ d \in [Runs -> Downloader] /\ x \in Downloader /\ Fit(x, L) /\ Handles(x, L) /\ L \subseteq Entries
      /\ disk \in BOOLEAN /\ trouble \in BOOLEAN
      /\ Accounts(x) /\ rows \in [Frames -> Runs \cup {0}] /\ clips \subseteq Runs \X Entries
  BY Here
<1>2. /\ AtWork(r, e) /\ x.stopped /\ d' = [d EXCEPT ![r] = y] /\ turns' = TurnOver(e)
      /\ UNCHANGED <<scene, node, disk, trouble, file, part, rows, clips>>
  BY <1>1 DEF Abort
<1>3. e \in x.active
  BY <1>2, AtWorkHasSlot
<1>4. Fit(y, L)
  <2>. HIDE DEF x, L, y
  <2>. QED
    BY <1>1, <1>3, EndedFits DEF y
<1>5. /\ SameCourse(x, y) /\ y.active = x.active \ {e} /\ y.landed = x.landed
      /\ y.lost = x.lost /\ y.blocked = x.blocked
  <2>. HIDE DEF x, y
  <2>. QED
    BY <1>1, <1>3, EndedCourse DEF y, Handles
<1>. HIDE DEF y
<1>6. Accounts(y) /\ Slots(y, trouble')
  <2>1. AccountsKept(x, y)
    BY <1>2, <1>5 DEF AccountsKept, SameCourse
  <2>. QED
    BY <1>1, <1>2, <1>5, <2>1, AccountsStay DEF Slots, Active, SameCourse
<1>7. /\ TurnsFit(d', turns')
      /\ \A f \in Entries, o \in Runs : RmOf(turns, f, o) => RmOf(turns', f, o)
  BY <1>2, <1>5, TurnPasses DEF SameCourse
<1>. QED
  BY <1>1, <1>2, <1>4, <1>6, <1>7, QuietMove

LEMMA FetchKeeps ==
    ASSUME TransferInv, NEW r \in Runs, NEW e \in Entries, Fetch(r, e)
    PROVE  TransferInv'
<1>. DEFINE x == d[r]
            L == node[r].listed
            y == [x EXCEPT !.idle = 0]
<1>1. /\ d \in [Runs -> Downloader] /\ x \in Downloader /\ Fit(x, L) /\ Counters(x) /\ Handles(x, L)
      /\ disk \in BOOLEAN /\ trouble \in BOOLEAN /\ scene \in Scenes /\ Phases(x) /\ FolderFit
      /\ Accounts(x) /\ Slots(x, trouble) /\ TurnsFit(d, turns) /\ NodesFit
  BY Here
<1>2. /\ AtWork(r, e) /\ ~x.stopped /\ d' = [d EXCEPT ![r] = y] /\ file[e] # Content[r]
      /\ part[Content[r]][e] < 2 /\ part' = [part EXCEPT ![Content[r]][e] = @ + 1]
      /\ UNCHANGED <<scene, node, disk, trouble, file, turns, rows, clips>>
  BY <1>1 DEF Fetch, Mine, InPlace
<1>3. e \in x.active /\ x.mode # "off"
  BY <1>2, AtWorkHasSlot
<1>. HIDE DEF x
<1>4. /\ y \in Downloader /\ SameReports(x, y) /\ y.mode = x.mode /\ y.final = x.final
      /\ y.readOK = x.readOK /\ y.reads = x.reads /\ y.hold = x.hold /\ y.idle = 0
  <2>1. y \in Downloader
    BY <1>1 DEF Downloader
  <2>. QED
    BY <1>1, <2>1 DEF Downloader, SameReports
<1>. HIDE DEF y
<1>5. Fit(y, L) /\ Leftovers(y) = Leftovers(x)
  <2>1. Reading(x, y, L)
    BY <1>1, <1>2, <1>3, <1>4, LimitsAreNat DEF Reading, SameReports, Counters, Phases, Handles
  <2>. QED
    BY <1>1, <1>4, <2>1, ReadingFits
<1>6. Accounts(y) /\ Slots(y, trouble')
  <2>1. AccountsKept(x, y)
    BY <1>4, <1>5 DEF AccountsKept, SameReports
  <2>2. Accounts(y)
    BY <1>1, <2>1, AccountsStay
  <2>. QED
    BY <1>1, <1>2, <1>4, <2>2 DEF Slots, Active, SameReports
<1>7. TurnsFit(d', turns')
  <2>1. \A o \in Runs : d[o].active \subseteq d'[o].active /\ (d'[o].stopped => d[o].stopped)
    BY <1>1, <1>2, <1>4 DEF x, SameReports
  <2>. QED
    BY <1>1, <1>2, <2>1, TurnsKeepFit
<1>8. Content[r] \in Contents /\ part \in [Contents -> [Entries -> 0 .. 2]]
  BY <1>1 DEF FolderFit, Contents
<1>9. \A c \in Contents, f \in Entries :
        part'[c][f] = IF c = Content[r] /\ f = e THEN part[c][f] + 1 ELSE part[c][f]
  BY <1>2, <1>8
<1>10. FolderFit' /\ NodesFit'
  <2>1. part' \in [Contents -> [Entries -> 0 .. 2]]
    <3>1. part[Content[r]][e] + 1 \in 0 .. 2
      BY <1>2, <1>8
    <3>2. [part[Content[r]] EXCEPT ![e] = part[Content[r]][e] + 1] \in [Entries -> 0 .. 2]
      BY <1>8, <3>1
    <3>3. part' = [part EXCEPT ![Content[r]] = [part[Content[r]] EXCEPT ![e] = part[Content[r]][e] + 1]]
      BY <1>2, <1>8
    <3>. QED
      BY <1>8, <3>2, <3>3
  <2>. QED
    BY <1>1, <1>2, <2>1 DEF FolderFit, NodesFit, Contents
<1>11. \A o \in Runs, f \in Entries : Minds(d, turns, node, o, f) => Minds(d', turns', node', o, f)
  BY <1>1, <1>2, <1>4, <1>5 DEF Minds, x, SameReports
<1>12. \A c \in Contents, f \in Entries : part'[c][f] # 0 =>
         file'[f] # c /\ (part[c][f] # 0 \/ Kept(d', turns', node', c, f))
  <2>. SUFFICES ASSUME NEW c \in Contents, NEW f \in Entries, part'[c][f] # 0
                PROVE  file'[f] # c /\ (part[c][f] # 0 \/ Kept(d', turns', node', c, f))
    OBVIOUS
  <2>1. CASE c = Content[r] /\ f = e
    <3>1. ~d'[r].stopped /\ e \in Leftovers(d'[r])
      BY <1>1, <1>2, <1>3, <1>4, <1>5 DEF x, SameReports, Leftovers
    <3>2. Minds(d', turns', node', r, e)
      BY <3>1 DEF Minds
    <3>. QED
      BY <1>2, <2>1, <3>2 DEF Kept
  <2>2. CASE ~(c = Content[r] /\ f = e)
    BY <1>2, <1>9, <2>2 DEF TransferInv, PartialsInv
  <2>. QED
    BY <2>1, <2>2
<1>. QED
  BY <1>1, <1>2, <1>5, <1>6, <1>7, <1>10, <1>11, <1>12, Moved DEF x

\* The end of a transfer, and what pump() makes of it.
LEMMA EndedAndPumped ==
    ASSUME TransferInv, NEW r \in Runs, NEW e \in Entries, AtWork(r, e), ~d[r].stopped,
           NEW z, NEW t, Pumped(r, z, t), Fit(z, node[r].listed),
           SameCourse(d[r], z), z.active = d[r].active \ {e},
           Leftovers(d[r]) \ {e} \subseteq Leftovers(z),
           d[r].landed \cup d[r].lost \cup d[r].blocked \subseteq z.landed \cup z.lost \cup z.blocked,
           IsFrame(e) => e \in Leftovers(z) \cup z.landed \cup z.lost \cup z.blocked,
           t = TurnOver(e) \/ t = Discarding(TurnOver(e), r, e)
    PROVE  \E y : 
             /\ d' = [d EXCEPT ![r] = y]
             /\ Fit(y, node[r].listed) /\ Accounts(y) /\ Slots(y, trouble)
             /\ TurnsFit(d', turns')
             /\ \A f \in Entries, o \in Runs : RmOf(turns, f, o) => RmOf(turns', f, o)
             /\ t = Discarding(TurnOver(e), r, e) => RmOf(turns', e, r)
             /\ Leftovers(y) = Leftovers(z) /\ ~y.stopped
<1>1. Accounts(z)
  <2>1. AccountsKept(d[r], z)
    BY DEF AccountsKept, SameCourse
  <2>. QED
    BY <2>1, Here, AccountsStay
<1>. DEFINE de == [d EXCEPT ![r] = z]
<1>2. /\ TurnsFit(de, TurnOver(e))
      /\ \A f \in Entries, o \in Runs : RmOf(turns, f, o) => RmOf(TurnOver(e), f, o)
  BY TurnPasses DEF SameCourse
<1>3. /\ TurnsFit(de, t)
      /\ \A f \in Entries, o \in Runs : RmOf(turns, f, o) => RmOf(t, f, o)
      /\ t = Discarding(TurnOver(e), r, e) => RmOf(t, e, r)
  <2>. HIDE DEF de
  <2>1. CASE t = Discarding(TurnOver(e), r, e)
    <3>1. /\ TurnsFit(de, Discarding(TurnOver(e), r, e)) /\ RmOf(Discarding(TurnOver(e), r, e), e, r)
          /\ \A f \in Entries, o \in Runs :
               RmOf(TurnOver(e), f, o) => RmOf(Discarding(TurnOver(e), r, e), f, o)
      BY <1>2, RemovalFits
    <3>. QED
      BY <1>2, <2>1, <3>1
  <2>2. CASE t # Discarding(TurnOver(e), r, e)
    BY <1>2, <2>2
  <2>. QED
    BY <2>1, <2>2
<1>. HIDE DEF de
<1>4. PICK S \in SUBSET z.queue, y \in Downloader :
             /\ y = Started(z, S) /\ d' = [d EXCEPT ![r] = y]
             /\ Fit(y, node[r].listed) /\ Accounts(y) /\ Slots(y, trouble)
             /\ TurnsFit(d', turns')
             /\ \A f \in Entries, o \in Runs : RmOf(t, f, o) => RmOf(turns', f, o)
             /\ Leftovers(y) = Leftovers(z) /\ y.stopped = z.stopped
  BY <1>1, <1>3, PumpedMove DEF de
<1>. QED
  BY <1>3, <1>4 DEF SameCourse

LEMMA FailSinkKeeps ==
    ASSUME TransferInv, NEW r \in Runs, NEW e \in Entries, FailSink(r, e)
    PROVE  TransferInv'
<1>. DEFINE x == d[r]
            L == node[r].listed
            w == Ended(x, e)
            z == IF trouble THEN [w EXCEPT !.queue = @ \cup {e}] ELSE [w EXCEPT !.asking = @ \cup {e}]
<1>1. /\ d \in [Runs -> Downloader] /\ x \in Downloader /\ Fit(x, L) /\ Handles(x, L) /\ L \subseteq Entries
      /\ disk \in BOOLEAN /\ trouble \in BOOLEAN /\ scene \in Scenes
      /\ rows \in [Frames -> Runs \cup {0}] /\ clips \subseteq Runs \X Entries
  BY Here
<1>2. /\ AtWork(r, e) /\ ~x.stopped /\ Pumped(r, z, TurnOver(e))
      /\ UNCHANGED <<scene, node, disk, trouble, file, part, rows, clips>>
  BY DEF FailSink
<1>3. e \in x.active
  BY <1>2, AtWorkHasSlot
<1>4. /\ Fit(w, L) /\ e \notin Leftovers(w) /\ w.mode # "off" /\ e \in w.seen
      /\ w.attempts[e] < MaxAttempts
  <2>. HIDE DEF x, L, w
  <2>. QED
    BY <1>1, <1>2, <1>3, EndedFits DEF w
<1>5. /\ w \in Downloader /\ SameCourse(x, w) /\ w.active = x.active \ {e}
      /\ Leftovers(w) = Leftovers(x) \ {e}
      /\ w.landed = x.landed /\ w.lost = x.lost /\ w.blocked = x.blocked
  <2>. HIDE DEF x, w
  <2>. QED
    BY <1>1, <1>3, EndedCourse DEF w, Handles
<1>. HIDE DEF w
<1>6. Fit(z, L)
  <2>. HIDE DEF L, x
  <2>. QED
    BY <1>1, <1>2, <1>4, <1>5, HandedFits DEF SameCourse
<1>7. /\ SameCourse(w, z) /\ z.active = w.active /\ z.landed = w.landed
      /\ z.blocked = w.blocked /\ z.lost = w.lost /\ Leftovers(z) = Leftovers(w) \cup {e}
  BY <1>5, HandedCourse
<1>. HIDE DEF z
<1>8. SameCourse(x, z)
  BY <1>5, <1>7 DEF SameCourse
<1>9. PICK y : 
             /\ d' = [d EXCEPT ![r] = y]
             /\ Fit(y, L) /\ Accounts(y) /\ Slots(y, trouble) /\ TurnsFit(d', turns')
             /\ \A f \in Entries, o \in Runs : RmOf(turns, f, o) => RmOf(turns', f, o)
             /\ Leftovers(y) = Leftovers(z) /\ ~y.stopped
  BY <1>2, <1>5, <1>6, <1>7, <1>8, EndedAndPumped
<1>10. Leftovers(x) \subseteq Leftovers(y)
  BY <1>5, <1>7, <1>9
<1>. QED
  BY <1>1, <1>2, <1>9, <1>10, QuietMove

LEMMA FailTransientKeeps ==
    ASSUME TransferInv, NEW r \in Runs, NEW e \in Entries, FailTransient(r, e)
    PROVE  TransferInv'
<1>. DEFINE x == d[r]
            L == node[r].listed
            w == Ended(x, e)
            z == Charged(w, e)
            t == ChargedTurns(TurnOver(e), r, e)
<1>1. /\ d \in [Runs -> Downloader] /\ x \in Downloader /\ Fit(x, L) /\ Handles(x, L) /\ L \subseteq Entries
      /\ disk \in BOOLEAN /\ trouble \in BOOLEAN /\ scene \in Scenes /\ NodesFit /\ FolderFit
  BY Here
<1>2. /\ AtWork(r, e) /\ ~x.stopped /\ Pumped(r, z, t)
      /\ part' = [part EXCEPT ![Content[r]][e] = IF @ = 2 THEN 0 ELSE @]
      /\ UNCHANGED <<scene, node, disk, trouble, file, rows, clips>>
  BY DEF FailTransient, Mine
<1>3. e \in x.active
  BY <1>2, AtWorkHasSlot
<1>4. /\ Fit(w, L) /\ e \notin Leftovers(w) /\ w.mode # "off" /\ e \in w.seen
      /\ w.attempts[e] < MaxAttempts
  <2>. HIDE DEF x, L, w
  <2>. QED
    BY <1>1, <1>2, <1>3, EndedFits DEF w
<1>5. /\ w \in Downloader /\ SameCourse(x, w) /\ w.active = x.active \ {e}
      /\ Leftovers(w) = Leftovers(x) \ {e} /\ w.attempts = x.attempts
      /\ w.landed = x.landed /\ w.lost = x.lost /\ w.blocked = x.blocked
  <2>. HIDE DEF x, w
  <2>. QED
    BY <1>1, <1>3, EndedCourse DEF w, Handles
<1>. HIDE DEF w
<1>6. Fit(z, L)
  <2>. HIDE DEF L, x, z
  <2>. QED
    BY <1>1, <1>2, <1>4, <1>5, ChargedFits DEF SameCourse, z
<1>7. /\ SameCourse(w, z) /\ z.active = w.active /\ z.landed = w.landed
      /\ z.blocked = w.blocked /\ w.lost \subseteq z.lost
      /\ Leftovers(w) \subseteq Leftovers(z)
      /\ ~LastAttempt(w, e) => e \in Leftovers(z)
      /\ LastAttempt(w, e) /\ IsFrame(e) => e \in z.lost
  BY <1>5, ChargedCourse
<1>8. t = IF LastAttempt(w, e) THEN Discarding(TurnOver(e), r, e) ELSE TurnOver(e)
  BY <1>5 DEF ChargedTurns, LastAttempt
<1>. HIDE DEF z, t
<1>9. SameCourse(x, z)
  BY <1>5, <1>7 DEF SameCourse
<1>10. PICK y : 
             /\ d' = [d EXCEPT ![r] = y]
             /\ Fit(y, L) /\ Accounts(y) /\ Slots(y, trouble) /\ TurnsFit(d', turns')
             /\ \A f \in Entries, o \in Runs : RmOf(turns, f, o) => RmOf(turns', f, o)
             /\ t = Discarding(TurnOver(e), r, e) => RmOf(turns', e, r)
             /\ Leftovers(y) = Leftovers(z) /\ ~y.stopped
  <2>1. /\ Leftovers(d[r]) \ {e} \subseteq Leftovers(z)
        /\ d[r].landed \cup d[r].lost \cup d[r].blocked \subseteq z.landed \cup z.lost \cup z.blocked
        /\ IsFrame(e) => e \in Leftovers(z) \cup z.landed \cup z.lost \cup z.blocked
        /\ z.active = d[r].active \ {e}
    BY <1>5, <1>7
  <2>. QED
    BY <1>2, <1>6, <1>8, <1>9, <2>1, EndedAndPumped
<1>11. \A f \in Entries : f \in Leftovers(x) => f \in Leftovers(y) \/ RmOf(turns', f, r)
  BY <1>5, <1>7, <1>8, <1>10
<1>12. \A o \in Runs, f \in Entries : Minds(d, turns, node, o, f) => Minds(d', turns', node', o, f)
  BY <1>1, <1>2, <1>10, <1>11 DEF Minds, x
<1>13. Content[r] \in Contents /\ part \in [Contents -> [Entries -> 0 .. 2]]
  BY <1>1 DEF FolderFit, Contents
<1>14. /\ part' \in [Contents -> [Entries -> 0 .. 2]]
       /\ \A c \in Contents, f \in Entries : part'[c][f] # 0 => part[c][f] # 0
  <2>. DEFINE n == IF part[Content[r]][e] = 2 THEN 0 ELSE part[Content[r]][e]
              q == [part[Content[r]] EXCEPT ![e] = n]
  <2>1. n \in 0 .. 2 /\ (n # 0 => part[Content[r]][e] # 0)
    BY <1>13
  <2>2. part' = [part EXCEPT ![Content[r]] = q]
    BY <1>2, <1>13
  <2>. HIDE DEF n
  <2>3. q \in [Entries -> 0 .. 2] /\ \A f \in Entries : q[f] # 0 => part[Content[r]][f] # 0
    BY <1>13, <2>1
  <2>. HIDE DEF q
  <2>. QED
    BY <1>13, <2>2, <2>3
<1>15. FolderFit' /\ NodesFit'
  BY <1>1, <1>2, <1>14 DEF FolderFit, NodesFit, Contents
<1>16. \A c \in Contents, f \in Entries : part'[c][f] # 0 => file'[f] # c /\ part[c][f] # 0
  BY <1>2, <1>14 DEF TransferInv, PartialsInv
<1>. QED
  BY <1>1, <1>2, <1>10, <1>12, <1>15, <1>16, Moved

LEMMA FailGoneKeeps ==
    ASSUME TransferInv, NEW r \in Runs, NEW e \in Entries, FailGone(r, e)
    PROVE  TransferInv'
<1>. DEFINE x == d[r]
            L == node[r].listed
            w == Ended(x, e)
            m == IF IsFrame(e) THEN w.lost \cup {e} ELSE w.lost
            z == [w EXCEPT !.lost = m]
<1>1. /\ d \in [Runs -> Downloader] /\ x \in Downloader /\ Fit(x, L) /\ Handles(x, L) /\ L \subseteq Entries
      /\ disk \in BOOLEAN /\ trouble \in BOOLEAN /\ scene \in Scenes /\ NodesFit /\ FolderFit
  BY Here
<1>2. AtWork(r, e)
  BY DEF FailGone
<1>3. e \in x.active
  BY <1>2, AtWorkHasSlot
<1>4. Fit(w, L) /\ w.mode # "off" /\ Counters(w)
  <2>1. Fit(w, L) /\ w.mode # "off"
    <3>. HIDE DEF x, L, w
    <3>. QED
      BY <1>1, <1>3, EndedFits DEF w
  <2>. QED
    BY <2>1 DEF Fit
<1>5. /\ w \in Downloader /\ SameCourse(x, w) /\ w.active = x.active \ {e}
      /\ Leftovers(w) = Leftovers(x) \ {e}
      /\ w.landed = x.landed /\ w.lost = x.lost /\ w.blocked = x.blocked
  <2>. HIDE DEF x, w
  <2>. QED
    BY <1>1, <1>3, EndedCourse DEF w, Handles
<1>6. /\ ~x.stopped /\ Pumped(r, z, TurnOver(e))
      /\ node' = [node EXCEPT ![r].gone = @ \cup {e}]
      /\ UNCHANGED <<scene, disk, trouble, file, part, rows, clips>>
  <2>2. Pumped(r, [w EXCEPT !.lost = IF IsFrame(e) THEN @ \cup {e} ELSE @], TurnOver(e))
    BY DEF FailGone
  <2>3. [w EXCEPT !.lost = IF IsFrame(e) THEN @ \cup {e} ELSE @] = z
    <3>. HIDE DEF w
    <3>. QED
      BY <1>5 DEF Downloader
  <2>4. Pumped(r, z, TurnOver(e))
    <3>. HIDE DEF z, w
    <3>. QED
      BY <2>2, <2>3
  <2>. QED
    BY <2>4 DEF FailGone
<1>. HIDE DEF w
<1>7. m \in SUBSET Entries /\ w.lost \subseteq m /\ (IsFrame(e) => e \in m)
  BY <1>5 DEF Downloader
<1>. HIDE DEF m
<1>8. /\ z \in Downloader /\ SameCourse(w, z) /\ z.active = w.active /\ z.landed = w.landed
      /\ z.blocked = w.blocked /\ z.lost = m /\ Leftovers(z) = Leftovers(w) /\ SameHands(w, z)
  <2>1. z \in Downloader
    BY <1>5, <1>7 DEF Downloader
  <2>2. /\ SameCourse(w, z) /\ z.active = w.active /\ z.landed = w.landed /\ z.blocked = w.blocked
        /\ z.lost = m /\ z.queue = w.queue /\ z.retrying = w.retrying /\ z.asking = w.asking
        /\ z.attempts = w.attempts /\ z.polled = w.polled /\ z.reads = w.reads
        /\ z.hold = w.hold /\ z.idle = w.idle
    BY <1>5 DEF SameCourse, Downloader
  <2>. HIDE DEF z
  <2>. QED
    BY <1>4, <2>1, <2>2 DEF SameHands, SameCourse, Counters, Leftovers
<1>. HIDE DEF z
<1>9. Fit(z, L)
  <2>. HIDE DEF L
  <2>. QED
    BY <1>4, <1>8, SameHandsFit
<1>10. SameCourse(x, z)
  BY <1>5, <1>8 DEF SameCourse
<1>11. PICK y : 
             /\ d' = [d EXCEPT ![r] = y]
             /\ Fit(y, L) /\ Accounts(y) /\ Slots(y, trouble) /\ TurnsFit(d', turns')
             /\ \A f \in Entries, o \in Runs : RmOf(turns, f, o) => RmOf(turns', f, o)
             /\ Leftovers(y) = Leftovers(z) /\ ~y.stopped
  <2>1. /\ Leftovers(d[r]) \ {e} \subseteq Leftovers(z)
        /\ d[r].landed \cup d[r].lost \cup d[r].blocked \subseteq z.landed \cup z.lost \cup z.blocked
        /\ IsFrame(e) => e \in Leftovers(z) \cup z.landed \cup z.lost \cup z.blocked
        /\ z.active = d[r].active \ {e}
    BY <1>5, <1>7, <1>8
  <2>. QED
    BY <1>2, <1>6, <1>9, <1>10, <2>1, EndedAndPumped
<1>12. \A o \in Runs : /\ node'[o].listed = node[o].listed
                       /\ node'[o].gone = IF o = r THEN node[o].gone \cup {e} ELSE node[o].gone
  BY <1>1, <1>6 DEF NodesFit
<1>13. e \in L
  BY <1>1, <1>3 DEF Handles, Leftovers
<1>14. NodesFit'
  <2>1. node' \in [Runs -> [listed : SUBSET Entries, gone : SUBSET Entries]]
    <3>1. node[r].gone \cup {e} \in SUBSET Entries
      BY <1>1 DEF NodesFit
    <3>2. node' = [node EXCEPT ![r] = [node[r] EXCEPT !.gone = node[r].gone \cup {e}]]
      BY <1>1, <1>6 DEF NodesFit
    <3>3. [node[r] EXCEPT !.gone = node[r].gone \cup {e}] \in [listed : SUBSET Entries, gone : SUBSET Entries]
      BY <1>1, <3>1 DEF NodesFit
    <3>. QED
      BY <1>1, <3>2, <3>3 DEF NodesFit
  <2>. QED
    BY <1>1, <1>6, <1>12, <1>13, <2>1 DEF NodesFit
<1>15. FolderFit'
  BY <1>1, <1>6, <1>11 DEF FolderFit, Contents
<1>16. \A o \in Runs, f \in Entries : Minds(d, turns, node, o, f) => Minds(d', turns', node', o, f)
  BY <1>1, <1>5, <1>8, <1>11, <1>12 DEF Minds, x
<1>17. \A c \in Contents, f \in Entries : part'[c][f] # 0 => file'[f] # c /\ part[c][f] # 0
  BY <1>6 DEF TransferInv, PartialsInv
<1>. QED
  BY <1>1, <1>6, <1>11, <1>12, <1>14, <1>15, <1>16, <1>17, Moved

LEMMA SinkAnswersKeeps ==
    ASSUME TransferInv, NEW r \in Runs, NEW e \in Entries, SinkAnswers(r, e)
    PROVE  TransferInv'
<1>. DEFINE x == d[r]
            L == node[r].listed
            w == [x EXCEPT !.asking = x.asking \ {e}]
<1>1. /\ d \in [Runs -> Downloader] /\ x \in Downloader /\ Fit(x, L) /\ Handles(x, L) /\ L \subseteq Entries
      /\ disk \in BOOLEAN /\ trouble \in BOOLEAN /\ scene \in Scenes /\ Accounts(x) /\ Slots(x, trouble)
      /\ rows \in [Frames -> Runs \cup {0}] /\ clips \subseteq Runs \X Entries /\ TurnsFit(d, turns)
  BY Here
<1>2. /\ e \in x.asking
      /\ UNCHANGED <<scene, node, disk, file, part, rows, clips>>
      /\ \/ w.stopped /\ d' = [d EXCEPT ![r] = w] /\ turns' = turns /\ trouble' = trouble
         \/ /\ ~w.stopped /\ d' = [d EXCEPT ![r] = Charged(w, e)]
            /\ turns' = ChargedTurns(turns, r, e) /\ trouble' = trouble
         \/ /\ ~w.stopped /\ d' = [d EXCEPT ![r] = [w EXCEPT !.queue = @ \cup {e}]]
            /\ turns' = turns /\ trouble' = TRUE
  <2>1. w = [d[r] EXCEPT !.asking = @ \ {e}]
    BY <1>1 DEF Downloader
  <2>. HIDE DEF w
  <2>. QED
    BY <2>1 DEF SinkAnswers
<1>t. TakenBack(x, w, e) /\ e \in Entries
  BY <1>1, <1>2 DEF TakenBack, Downloader
<1>3. /\ Fit(w, L) /\ e \notin Leftovers(w) /\ e \in w.seen /\ w.mode # "off"
      /\ ~x.stopped => w.attempts[e] < MaxAttempts
  <2>. HIDE DEF x, L, w
  <2>. QED
    BY <1>1, <1>t, TakenBackFits
<1>4. /\ w \in Downloader /\ SameCourse(x, w) /\ w.active = x.active /\ w.queue = x.queue
      /\ Leftovers(w) = Leftovers(x) \ {e} /\ w.attempts = x.attempts
      /\ w.landed = x.landed /\ w.lost = x.lost /\ w.blocked = x.blocked
  <2>. HIDE DEF x, w
  <2>. QED
    BY <1>1, <1>t, TakenBackCourse DEF Handles
<1>. HIDE DEF w
<1>5. CASE w.stopped /\ d' = [d EXCEPT ![r] = w] /\ turns' = turns /\ trouble' = trouble
  <2>1. Accounts(w) /\ Slots(w, trouble') /\ x.stopped
    <3>1. x.stopped
      BY <1>4, <1>5 DEF SameCourse
    <3>2. AccountsKept(x, w)
      BY <1>4, <3>1 DEF AccountsKept, SameCourse
    <3>. QED
      BY <1>1, <1>5, <3>1, <3>2, AccountsStay DEF Slots, Active
  <2>2. TurnsFit(d', turns')
    <3>1. \A o \in Runs : d[o].active \subseteq d'[o].active /\ (d'[o].stopped => d[o].stopped)
      BY <1>1, <1>4, <1>5, <2>1
    <3>. QED
      BY <1>1, <1>5, <3>1, TurnsKeepFit
  <2>. QED
    BY <1>1, <1>2, <1>3, <1>5, <2>1, <2>2, QuietMove
<1>6. CASE /\ ~w.stopped /\ d' = [d EXCEPT ![r] = Charged(w, e)]
           /\ turns' = ChargedTurns(turns, r, e) /\ trouble' = trouble
  <2>. DEFINE z == Charged(w, e)
  <2>1. Fit(z, L)
    <3>. HIDE DEF L, x, z
    <3>. QED
      BY <1>1, <1>3, <1>4, <1>6, ChargedFits DEF SameCourse, z
  <2>2. /\ SameCourse(w, z) /\ z.active = w.active /\ z.landed = w.landed
        /\ z.blocked = w.blocked /\ w.lost \subseteq z.lost /\ z.queue = w.queue
        /\ Leftovers(w) \subseteq Leftovers(z)
        /\ ~LastAttempt(w, e) => e \in Leftovers(z)
        /\ LastAttempt(w, e) /\ IsFrame(e) => e \in z.lost
    BY <1>1, <1>2, <1>4, ChargedCourse
  <2>3. turns' = IF LastAttempt(w, e) THEN Discarding(turns, r, e) ELSE turns
    BY <1>4, <1>6 DEF ChargedTurns, LastAttempt
  <2>. HIDE DEF z
  <2>4. d' = [d EXCEPT ![r] = z]
    BY <1>6 DEF z
  <2>5. Accounts(z) /\ Slots(z, trouble')
    <3>1. AccountsKept(x, z)
      BY <1>4, <2>2 DEF AccountsKept, SameCourse
    <3>. QED
      BY <1>1, <1>4, <1>6, <2>2, <3>1, AccountsStay DEF Slots, Active, SameCourse
  <2>6. TurnsFit(d', turns)
    <3>1. \A o \in Runs : d[o].active \subseteq d'[o].active /\ (d'[o].stopped => d[o].stopped)
      BY <1>1, <1>4, <2>2, <2>4 DEF SameCourse
    <3>. QED
      BY <1>1, <3>1, TurnsKeepFit
  <2>7. /\ TurnsFit(d', turns')
        /\ \A f \in Entries, o \in Runs : RmOf(turns, f, o) => RmOf(turns', f, o)
        /\ LastAttempt(w, e) => RmOf(turns', e, r)
    <3>1. CASE LastAttempt(w, e)
      BY <2>3, <2>6, <3>1, RemovalFits
    <3>2. CASE ~LastAttempt(w, e)
      BY <2>3, <2>6, <3>2
    <3>. QED
      BY <3>1, <3>2
  <2>8. \A f \in Leftovers(x) : (~z.stopped /\ f \in Leftovers(z)) \/ RmOf(turns', f, r)
    BY <1>4, <1>6, <2>2, <2>7 DEF SameCourse
  <2>. QED
    BY <1>1, <1>2, <1>6, <2>1, <2>4, <2>5, <2>7, <2>8, QuietMove
<1>7. CASE /\ ~w.stopped /\ d' = [d EXCEPT ![r] = [w EXCEPT !.queue = @ \cup {e}]]
           /\ turns' = turns /\ trouble' = TRUE
  <2>. DEFINE z == [w EXCEPT !.queue = @ \cup {e}]
  <2>1. Fit(z, L)
    <3>. HIDE DEF L, x
    <3>. QED
      BY <1>1, <1>3, <1>4, <1>7, HandedFits DEF SameCourse
  <2>2. /\ SameCourse(w, z) /\ z.active = w.active /\ z.landed = w.landed
        /\ z.blocked = w.blocked /\ z.lost = w.lost /\ Leftovers(z) = Leftovers(w) \cup {e}
    BY <1>1, <1>2, <1>4, HandedCourse
  <2>. HIDE DEF z
  <2>4. d' = [d EXCEPT ![r] = z]
    BY <1>7 DEF z
  <2>5. Accounts(z) /\ Slots(z, trouble')
    <3>1. AccountsKept(x, z)
      BY <1>4, <2>2 DEF AccountsKept, SameCourse
    <3>. QED
      BY <1>1, <1>7, <3>1, AccountsStay DEF Slots
  <2>6. TurnsFit(d', turns')
    <3>1. \A o \in Runs : d[o].active \subseteq d'[o].active /\ (d'[o].stopped => d[o].stopped)
      BY <1>1, <1>4, <2>2, <2>4 DEF SameCourse
    <3>. QED
      BY <1>1, <1>7, <3>1, TurnsKeepFit
  <2>8. \A f \in Leftovers(x) : ~z.stopped /\ f \in Leftovers(z)
    BY <1>4, <1>7, <2>2 DEF SameCourse
  <2>. QED
    BY <1>1, <1>2, <1>7, <2>1, <2>4, <2>5, <2>6, <2>8, QuietMove
<1>. QED
  BY <1>2, <1>5, <1>6, <1>7

LEMMA RetryFiresKeeps ==
    ASSUME TransferInv, NEW r \in Runs, NEW e \in Entries, RetryFires(r, e)
    PROVE  TransferInv'
<1>. DEFINE x == d[r]
            L == node[r].listed
            w == [x EXCEPT !.retrying = x.retrying \ {e}]
            m == IF IsFrame(e) THEN w.lost \cup {e} ELSE w.lost
            u == [w EXCEPT !.lost = m]
            z == [w EXCEPT !.queue = @ \cup {e}]
<1>1. /\ d \in [Runs -> Downloader] /\ x \in Downloader /\ Fit(x, L) /\ Handles(x, L) /\ L \subseteq Entries
      /\ disk \in BOOLEAN /\ trouble \in BOOLEAN /\ scene \in Scenes /\ Accounts(x) /\ Slots(x, trouble)
      /\ rows \in [Frames -> Runs \cup {0}] /\ clips \subseteq Runs \X Entries /\ TurnsFit(d, turns)
  BY Here
<1>2. /\ e \in x.retrying
      /\ UNCHANGED <<scene, node, disk, trouble, file, part, rows, clips>>
      /\ \/ w.stopped /\ d' = [d EXCEPT ![r] = u] /\ turns' = turns
         \/ ~w.stopped /\ Pumped(r, z, turns)
  <2>1. w = [d[r] EXCEPT !.retrying = @ \ {e}]
    BY <1>1 DEF Downloader
  <2>2. w \in Downloader
    BY <1>1 DEF Downloader
  <2>. HIDE DEF w
  <2>3. [w EXCEPT !.lost = IF IsFrame(e) THEN @ \cup {e} ELSE @] = u
    BY <2>2 DEF Downloader
  <2>. HIDE DEF u
  <2>. QED
    BY <2>1, <2>3 DEF RetryFires
<1>t. TakenBack(x, w, e) /\ e \in Entries
  BY <1>1, <1>2 DEF TakenBack, Downloader
<1>3. /\ Fit(w, L) /\ e \notin Leftovers(w) /\ e \in w.seen /\ w.mode # "off"
      /\ ~x.stopped => w.attempts[e] < MaxAttempts
  <2>. HIDE DEF x, L, w
  <2>. QED
    BY <1>1, <1>t, TakenBackFits
<1>4. /\ w \in Downloader /\ SameCourse(x, w) /\ w.active = x.active /\ w.queue = x.queue
      /\ Leftovers(w) = Leftovers(x) \ {e} /\ w.attempts = x.attempts
      /\ w.landed = x.landed /\ w.lost = x.lost /\ w.blocked = x.blocked
  <2>. HIDE DEF x, w
  <2>. QED
    BY <1>1, <1>t, TakenBackCourse DEF Handles
<1>. HIDE DEF w
<1>5. CASE w.stopped /\ d' = [d EXCEPT ![r] = u] /\ turns' = turns
  <2>1. m \in SUBSET Entries /\ w.lost \subseteq m
    BY <1>t, <1>4 DEF Downloader
  <2>. HIDE DEF m
  <2>2. u \in Downloader
    BY <1>4, <2>1 DEF Downloader
  <2>3. /\ SameCourse(w, u) /\ u.active = w.active /\ u.landed = w.landed /\ u.blocked = w.blocked
        /\ u.lost = m /\ u.queue = w.queue /\ u.retrying = w.retrying /\ u.asking = w.asking
        /\ u.attempts = w.attempts /\ u.polled = w.polled /\ u.reads = w.reads
        /\ u.hold = w.hold /\ u.idle = w.idle
    BY <1>4 DEF SameCourse, Downloader
  <2>. HIDE DEF u
  <2>4. SameHands(w, u)
    BY <1>3, <2>3 DEF SameHands, SameCourse, Fit, Counters
  <2>5. Fit(u, L)
    BY <1>3, <2>2, <2>4, SameHandsFit
  <2>6. Accounts(u) /\ Slots(u, trouble') /\ x.stopped
    <3>1. x.stopped
      BY <1>4, <1>5 DEF SameCourse
    <3>2. AccountsKept(x, u)
      BY <1>4, <2>1, <2>3, <3>1 DEF AccountsKept, SameCourse
    <3>. QED
      BY <1>1, <1>5, <2>3, <3>1, <3>2, AccountsStay DEF Slots, Active, SameCourse
  <2>7. TurnsFit(d', turns')
    <3>1. \A o \in Runs : d[o].active \subseteq d'[o].active /\ (d'[o].stopped => d[o].stopped)
      BY <1>1, <1>4, <1>5, <2>3, <2>6
    <3>. QED
      BY <1>1, <1>5, <3>1, TurnsKeepFit
  <2>. QED
    BY <1>1, <1>2, <1>5, <2>5, <2>6, <2>7, QuietMove
<1>6. CASE ~w.stopped /\ Pumped(r, z, turns)
  <2>1. Fit(z, L)
    <3>. HIDE DEF L, x
    <3>. QED
      BY <1>1, <1>3, <1>4, <1>6, HandedFits DEF SameCourse
  <2>2. /\ SameCourse(w, z) /\ z.active = w.active /\ z.landed = w.landed
        /\ z.blocked = w.blocked /\ z.lost = w.lost /\ Leftovers(z) = Leftovers(w) \cup {e}
    BY <1>1, <1>2, <1>4, HandedCourse
  <2>. HIDE DEF z
  <2>3. Accounts(z)
    <3>1. AccountsKept(x, z)
      BY <1>4, <2>2 DEF AccountsKept, SameCourse
    <3>. QED
      BY <1>1, <3>1, AccountsStay
  <2>4. TurnsFit([d EXCEPT ![r] = z], turns)
    <3>. DEFINE de == [d EXCEPT ![r] = z]
    <3>1. \A o \in Runs : d[o].active \subseteq de[o].active /\ (de[o].stopped => d[o].stopped)
      BY <1>1, <1>4, <2>2 DEF SameCourse
    <3>. HIDE DEF de
    <3>. QED
      BY <1>1, <3>1, TurnsKeepFit DEF de
  <2>5. PICK S \in SUBSET z.queue, y \in Downloader :
             /\ y = Started(z, S) /\ d' = [d EXCEPT ![r] = y]
             /\ Fit(y, L) /\ Accounts(y) /\ Slots(y, trouble) /\ TurnsFit(d', turns')
             /\ \A f \in Entries, o \in Runs : RmOf(turns, f, o) => RmOf(turns', f, o)
             /\ Leftovers(y) = Leftovers(z) /\ y.stopped = z.stopped
    BY <1>6, <2>1, <2>3, <2>4, PumpedMove
  <2>6. \A f \in Leftovers(x) : ~y.stopped /\ f \in Leftovers(y)
    BY <1>4, <1>6, <2>2, <2>5 DEF SameCourse
  <2>. QED
    BY <1>1, <1>2, <2>5, <2>6, QuietMove
<1>. QED
  BY <1>2, <1>5, <1>6

LEMMA DiscardKeeps ==
    ASSUME TransferInv, NEW e \in Entries, Discard(e)
    PROVE  TransferInv'
<1>. DEFINE q == turns[e][1].run
<1>1. /\ turns[e] # <<>> /\ turns[e][1].op = "rm"
      /\ part' = [part EXCEPT ![Content[q]][e] = 0] /\ turns' = TurnOver(e)
      /\ UNCHANGED <<scene, node, d, disk, trouble, file, rows, clips>>
  BY DEF Discard, Mine
<1>2. BaseInv /\ TurnsFit(d, turns) /\ FolderFit /\ NodesFit /\ DownloadersFit
  BY DEF TransferInv, BaseInv
<1>3. q \in Runs /\ turns[e][1] = [run |-> q, op |-> "rm"]
  <2>1. turns[e] \in Seq(Turn)
    BY <1>2 DEF TurnsFit
  <2>2. turns[e][1] \in Turn
    BY <1>1, <2>1
  <2>. QED
    BY <1>1, <2>2 DEF Turn
<1>. HIDE DEF q
<1>4. /\ TurnsFit(d, TurnOver(e))
      /\ \A f \in Entries, o \in Runs :
           RmOf(turns, f, o) => RmOf(TurnOver(e), f, o) \/ (f = e /\ o = q)
  <2>1. \A o \in Runs : \A f \in d[o].active : f \in d[o].active
    OBVIOUS
  <2>2. /\ TurnsFit(d, TurnOver(e))
        /\ \A f \in Entries, o \in Runs :
             RmOf(turns, f, o) => RmOf(TurnOver(e), f, o)
                                \/ (f = e /\ turns[e][1] = [run |-> o, op |-> "rm"])
    BY <1>1, <1>2, <2>1, TurnOverFits
  <2>3. \A o : turns[e][1] = [run |-> o, op |-> "rm"] => o = q
    BY <1>3
  <2>. QED
    BY <2>2, <2>3
<1>5. Content[q] \in Contents /\ part \in [Contents -> [Entries -> 0 .. 2]]
  BY <1>2, <1>3 DEF FolderFit, Contents
<1>6. /\ part' \in [Contents -> [Entries -> 0 .. 2]] /\ part'[Content[q]][e] = 0
      /\ \A c \in Contents, f \in Entries : part'[c][f] # 0 => part[c][f] # 0
  <2>. DEFINE p == [part[Content[q]] EXCEPT ![e] = 0]
  <2>1. part' = [part EXCEPT ![Content[q]] = p]
    BY <1>1, <1>5
  <2>2. p \in [Entries -> 0 .. 2] /\ p[e] = 0 /\ \A f \in Entries : p[f] # 0 => part[Content[q]][f] # 0
    BY <1>5
  <2>. HIDE DEF p
  <2>. QED
    BY <1>5, <2>1, <2>2
<1>7. BaseInv'
  <2>1. FolderFit' /\ NodesFit'
    BY <1>1, <1>2, <1>6 DEF FolderFit, NodesFit, Contents
  <2>2. DownloadersFit'
    <3>1. MaxAttempts' = MaxAttempts /\ HoldLimit' = HoldLimit /\ IdleLimit' = IdleLimit
      BY <1>1 DEF MaxAttempts, HoldLimit, IdleLimit
    <3>2. \A o \in Runs : Fit(d'[o], node'[o].listed)
      BY <1>1, <1>2 DEF DownloadersFit
    <3>3. \A o \in Runs : Fit(d[o], node[o].listed)'
      BY <3>1, <3>2 DEF Fit, Counters
    <3>. QED
      BY <1>1, <1>2, <3>3 DEF DownloadersFit
  <2>. QED
    BY <1>1, <1>2, <1>4, <2>1, <2>2 DEF BaseInv
<1>8. AccountsInv' /\ SlotsInv'
  BY <1>1 DEF TransferInv, AccountsInv, SlotsInv
<1>9. PartialsInv'
  <2>1. ASSUME NEW c \in Contents, NEW f \in Entries, part'[c][f] # 0
        PROVE  file'[f] # c /\ Kept(d', turns', node', c, f)
    <3>1. PICK o \in Runs : Content[o] = c /\ Minds(d, turns, node, o, f)
      BY <1>6, <2>1 DEF TransferInv, PartialsInv, Kept
    <3>2. ~(f = e /\ o = q)
      BY <1>6, <2>1, <3>1
    <3>3. Minds(d', turns', node', o, f)
      BY <1>1, <1>4, <3>1, <3>2 DEF Minds
    <3>4. file[f] # c
      BY <1>6, <2>1 DEF TransferInv, PartialsInv
    <3>. QED
      BY <1>1, <3>1, <3>3, <3>4 DEF Kept
  <2>. QED
    BY <2>1 DEF PartialsInv, Contents
<1>. QED
  BY <1>7, <1>8, <1>9 DEF TransferInv

\* The writer at work on e, and where its bytes go.
LEMMA LandKeeps ==
    ASSUME TransferInv, NEW r \in Runs, NEW e \in Entries, Land(r, e)
    PROVE  TransferInv'
<1>. DEFINE x == d[r]
            L == node[r].listed
            w == Ended(x, e)
            since == x.heldOnce
            all == IF x.stopped THEN x.landed ELSE x.landed \cup {e}
            z == [w EXCEPT !.idle = 0, !.landedSince = since, !.landed = all]
<1>1. /\ d \in [Runs -> Downloader] /\ x \in Downloader /\ Fit(x, L) /\ Handles(x, L) /\ L \subseteq Entries
      /\ disk \in BOOLEAN /\ trouble \in BOOLEAN /\ scene \in Scenes /\ NodesFit /\ FolderFit
      /\ Accounts(x)
  BY Here
<1>2. AtWork(r, e)
  BY DEF Land
<1>3. e \in x.active
  BY <1>2, AtWorkHasSlot
<1>4. Fit(w, L) /\ w.mode # "off" /\ Counters(w)
  <2>1. Fit(w, L) /\ w.mode # "off"
    <3>. HIDE DEF x, L, w
    <3>. QED
      BY <1>1, <1>3, EndedFits DEF w
  <2>. QED
    BY <2>1 DEF Fit
<1>5. /\ w \in Downloader /\ SameCourse(x, w) /\ w.active = x.active \ {e}
      /\ Leftovers(w) = Leftovers(x) \ {e}
      /\ w.landed = x.landed /\ w.lost = x.lost /\ w.blocked = x.blocked
  <2>. HIDE DEF x, w
  <2>. QED
    BY <1>1, <1>3, EndedCourse DEF w, Handles
<1>6. Pumped(r, z, TurnOver(e))
  <2>1. Pumped(r, [Ended(x, e) EXCEPT !.idle = 0, !.landedSince = x.heldOnce,
                                      !.landed = IF x.stopped THEN @ ELSE @ \cup {e}], TurnOver(e))
    BY DEF Land
  <2>2. [Ended(x, e) EXCEPT !.idle = 0, !.landedSince = x.heldOnce,
                            !.landed = IF x.stopped THEN @ ELSE @ \cup {e}] = z
    <3>. HIDE DEF x, w
    <3>1. [w EXCEPT !.idle = 0, !.landedSince = x.heldOnce,
                    !.landed = IF x.stopped THEN @ ELSE @ \cup {e}] = z
      BY <1>5 DEF Downloader
    <3>. QED
      BY <3>1 DEF w
  <2>. HIDE DEF z, x
  <2>. QED
    BY <2>1, <2>2
<1>7. since \in BOOLEAN /\ all \in SUBSET Entries /\ x.landed \subseteq all
      /\ (~x.stopped => e \in all)
  BY <1>1 DEF Downloader
<1>8. \A c \in Contents : c # 0
  BY TransferAssumption DEF TransferAssumption, Contents
<1>9. /\ scene' = scene /\ node' = node /\ disk' = disk /\ trouble' = trouble
      /\ \A f \in Entries : file'[f] \in {0, file[f]} \/ (f = e /\ file'[f] = Content[r])
      /\ file' \in [Entries -> Contents \cup {0}]
      /\ rows' \in [Frames -> Runs \cup {0}] /\ clips' \subseteq Runs \X Entries
  <2>1. scene' = scene /\ node' = node /\ disk' = disk /\ trouble' = trouble
    BY DEF Land
  <2>. DEFINE final == \E c \in clips : c[2].kind = "clip"
              dead == {c \in clips : c[2].kind = "live"}
              dropped == IF e.kind = "live" /\ final THEN {<<r, e>>}
                         ELSE IF e.kind \in {"live", "clip"} THEN dead \ {<<r, e>>} ELSE {}
              keeps == IF e.kind \in {"live", "clip"} THEN {<<r, e>>} ELSE {}
  <2>2. /\ file' = [f \in Entries |->
                     IF ~x.stopped /\ \E c \in dropped : c[2] = f THEN 0
                     ELSE IF f = e THEN Content[r] ELSE file[f]]
        /\ rows' = IF ~x.stopped /\ IsFrame(e) /\ e.view = "" THEN [rows EXCEPT ![e.num] = r] ELSE rows
        /\ clips' = IF x.stopped THEN clips ELSE (clips \cup keeps) \ dropped
    BY DEF Land, Mine
  <2>3. keeps \subseteq Runs \X Entries
    OBVIOUS
  <2>. HIDE DEF dropped, keeps, x
  <2>4. /\ file \in [Entries -> Contents \cup {0}] /\ clips \subseteq Runs \X Entries
        /\ rows \in [Frames -> Runs \cup {0}] /\ Content[r] \in Contents
    BY <1>1 DEF FolderFit, Contents
  <2>5. \A f \in Entries : file'[f] \in {0, file[f]} \/ (f = e /\ file'[f] = Content[r])
    BY <2>2
  <2>6. file' \in [Entries -> Contents \cup {0}]
    BY <2>2, <2>4
  <2>7. rows' \in [Frames -> Runs \cup {0}]
    BY <2>2, <2>4
  <2>8. clips' \subseteq Runs \X Entries
    BY <2>2, <2>3, <2>4
  <2>. QED
    BY <2>1, <2>5, <2>6, <2>7, <2>8
<1>10. /\ part' \in [Contents -> [Entries -> 0 .. 2]]
       /\ \A c \in Contents, f \in Entries : part'[c][f] # 0 => part[c][f] # 0
       /\ part'[Content[r]][e] = 0
  <2>1. part' = IF file[e] = Content[r] THEN part ELSE [part EXCEPT ![Content[r]][e] = 0]
    BY DEF Land, Mine, InPlace
  <2>2. /\ part \in [Contents -> [Entries -> 0 .. 2]] /\ Content[r] \in Contents
    BY <1>1 DEF FolderFit, Contents
  <2>3. CASE file[e] = Content[r]
    <3>1. part[Content[r]][e] = 0
      BY <2>2, <2>3 DEF TransferInv, PartialsInv
    <3>. QED
      BY <2>1, <2>2, <2>3, <3>1
  <2>4. CASE file[e] # Content[r]
    <3>. DEFINE p == [part[Content[r]] EXCEPT ![e] = 0]
    <3>1. part' = [part EXCEPT ![Content[r]] = p]
      BY <2>1, <2>2, <2>4
    <3>2. p \in [Entries -> 0 .. 2] /\ p[e] = 0 /\ \A f \in Entries : p[f] # 0 => part[Content[r]][f] # 0
      BY <2>2
    <3>. HIDE DEF p
    <3>. QED
      BY <2>2, <3>1, <3>2
  <2>. QED
    BY <2>3, <2>4
<1>. HIDE DEF w, x, since, all
<1>11. /\ z \in Downloader /\ SameCourse(w, z) /\ z.active = w.active /\ z.landed = all
       /\ z.blocked = w.blocked /\ z.lost = w.lost /\ Leftovers(z) = Leftovers(w) /\ SameHands(w, z)
  <2>1. z \in Downloader
    BY <1>5, <1>7 DEF Downloader
  <2>2. /\ SameCourse(w, z) /\ z.active = w.active /\ z.landed = all /\ z.blocked = w.blocked
        /\ z.lost = w.lost /\ z.queue = w.queue /\ z.retrying = w.retrying /\ z.asking = w.asking
        /\ z.attempts = w.attempts /\ z.polled = w.polled /\ z.reads = w.reads
        /\ z.hold = w.hold /\ z.idle = 0
    BY <1>5 DEF SameCourse, Downloader
  <2>. HIDE DEF z
  <2>3. 0 \in 0 .. IdleLimit
    BY <1>1, LimitsAreNat
  <2>. QED
    BY <1>4, <2>1, <2>2, <2>3 DEF SameHands, SameCourse, Counters, Leftovers
<1>. HIDE DEF z
<1>12. Fit(z, L)
  <2>. HIDE DEF L
  <2>. QED
    BY <1>4, <1>11, SameHandsFit
<1>13. SameCourse(x, z)
  BY <1>5, <1>11 DEF SameCourse
<1>14. Accounts(z)
  <2>1. AccountsKept(x, z)
    BY <1>5, <1>7, <1>11, <1>13 DEF AccountsKept, SameCourse
  <2>. QED
    BY <1>1, <2>1, AccountsStay
<1>15. /\ TurnsFit([d EXCEPT ![r] = z], TurnOver(e))
       /\ \A f \in Entries, o \in Runs : RmOf(turns, f, o) => RmOf(TurnOver(e), f, o)
  BY <1>2, <1>5, <1>11, <1>13, TurnPasses DEF SameCourse, x
<1>16. PICK S \in SUBSET z.queue, y \in Downloader :
             /\ y = Started(z, S) /\ d' = [d EXCEPT ![r] = y]
             /\ Fit(y, L) /\ Accounts(y) /\ Slots(y, trouble) /\ TurnsFit(d', turns')
             /\ \A f \in Entries, o \in Runs : RmOf(TurnOver(e), f, o) => RmOf(turns', f, o)
             /\ Leftovers(y) = Leftovers(z) /\ y.stopped = z.stopped
  BY <1>6, <1>12, <1>14, <1>15, PumpedMove
<1>17. FolderFit' /\ NodesFit'
  BY <1>1, <1>9, <1>10 DEF FolderFit, NodesFit, Contents
<1>18. \A o \in Runs, f \in Entries : Minds(d, turns, node, o, f) =>
         Minds(d', turns', node', o, f) \/ part'[Content[o]][f] = 0
  <2>. SUFFICES ASSUME NEW o \in Runs, NEW f \in Entries, Minds(d, turns, node, o, f)
                PROVE  Minds(d', turns', node', o, f) \/ part'[Content[o]][f] = 0
    OBVIOUS
  <2>1. CASE f \in node[o].gone
    BY <1>9, <2>1 DEF Minds
  <2>2. CASE RmOf(turns, f, o)
    BY <1>15, <1>16, <2>2 DEF Minds
  <2>3. CASE ~d[o].stopped /\ f \in Leftovers(d[o]) /\ o # r
    BY <1>1, <1>16, <2>3 DEF Minds
  <2>4. CASE ~d[o].stopped /\ f \in Leftovers(d[o]) /\ o = r /\ f # e
    BY <1>1, <1>5, <1>11, <1>13, <1>16, <2>4 DEF Minds, x, SameCourse
  <2>5. CASE o = r /\ f = e
    BY <1>10, <2>5
  <2>. QED
    BY <2>1, <2>2, <2>3, <2>4, <2>5 DEF Minds
<1>19. \A c \in Contents, f \in Entries : part'[c][f] # 0 => file'[f] # c /\ part[c][f] # 0
  <2>. SUFFICES ASSUME NEW c \in Contents, NEW f \in Entries, part'[c][f] # 0
                PROVE  file'[f] # c /\ part[c][f] # 0
    OBVIOUS
  <2>1. part[c][f] # 0 /\ file[f] # c
    BY <1>10 DEF TransferInv, PartialsInv
  <2>2. ~(f = e /\ c = Content[r])
    BY <1>10
  <2>. QED
    BY <1>8, <1>9, <2>1, <2>2
<1>20. /\ disk' \in BOOLEAN /\ trouble' \in BOOLEAN /\ (trouble => trouble')
       /\ \A o \in Runs : node'[o].listed = node[o].listed
       /\ Slots(y, trouble') /\ Fit(y, node[r].listed)
  BY <1>1, <1>9, <1>16
<1>21. \A c \in Contents, f \in Entries : part'[c][f] # 0 =>
         file'[f] # c /\ (part[c][f] # 0 \/ Kept(d', turns', node', c, f))
  BY <1>19
<1>. QED
  BY <1>9, <1>16, <1>17, <1>18, <1>20, <1>21, Moved

\* The probe: every downloader at work fills its slots.
LEMMA ProbeKeeps ==
    ASSUME TransferInv, Probe
    PROVE  TransferInv'
<1>1. PICK S \in [Runs -> UNION {Startable(d[r], ~Active(d[r])) : r \in Runs}] :
        /\ \A r \in Runs : S[r] \in Startable(d[r], ~Active(d[r]))
        /\ d' = [r \in Runs |-> Started(d[r], S[r])]
        /\ turns' = Woken(S)
  BY DEF Probe, Woken
<1>2. /\ trouble' = FALSE
      /\ UNCHANGED <<scene, node, disk, file, part, rows, clips>>
  BY DEF Probe
<1>3. BaseInv /\ TurnsFit(d, turns) /\ NodesFit /\ FolderFit /\ d \in [Runs -> Downloader]
  BY DEF TransferInv, BaseInv, DownloadersFit
<1>4. ASSUME NEW r \in Runs
      PROVE  /\ S[r] \subseteq d[r].queue /\ (d[r].stopped => S[r] = {})
             /\ Fit(Started(d[r], S[r]), node[r].listed)
             /\ Leftovers(Started(d[r], S[r])) = Leftovers(d[r])
             /\ Started(d[r], S[r]).stopped = d[r].stopped
             /\ Started(d[r], S[r]).active = d[r].active \cup S[r]
             /\ Accounts(Started(d[r], S[r]))
             /\ Slots(Started(d[r], S[r]), FALSE)
             /\ S[r] \subseteq Entries /\ S[r] \cap d[r].active = {}
  <2>. DEFINE x == d[r]
              p == ~Active(x)
              Q == S[r]
              L == node[r].listed
  <2>1. /\ x \in Downloader /\ Fit(x, L) /\ Accounts(x)
        /\ x.queue \cap x.active = {} /\ Cardinality(x.active) <= MaxTransfers
        /\ x.mode = "off" => x.queue = {}
    BY Here DEF Handles, Apart, Phases, Idle
  <2>2. p \in BOOLEAN /\ Q \in Startable(x, p) /\ (x.stopped => p)
    BY <1>1 DEF Active
  <2>3. p => x.stopped \/ x.mode = "off"
    BY DEF Active
  <2>. HIDE DEF x, p, Q, L
  <2>4. /\ Q \subseteq x.queue /\ (x.stopped \/ p => Q = {})
        /\ Cardinality(x.active \cup Q) <= MaxTransfers
        /\ Slots(Started(x, Q), p)
    BY <2>1, <2>2, PumpFills
  <2>5. Fit(Started(x, Q), L)
    BY <2>1, <2>4, StartedFits
  <2>6. /\ Leftovers(Started(x, Q)) = Leftovers(x) /\ Started(x, Q).stopped = x.stopped
        /\ Started(x, Q).mode = x.mode
        /\ Started(x, Q).active = x.active \cup Q /\ AccountsKept(x, Started(x, Q))
    BY <2>1, <2>4, StartedKeeps
  <2>7. Accounts(Started(x, Q))
    BY <2>1, <2>6, AccountsStay
  <2>8. Slots(Started(x, Q), FALSE)
    BY <2>3, <2>4, <2>6 DEF Slots, Active
  <2>9. Q \subseteq Entries /\ Q \cap x.active = {}
    BY <2>1, <2>4 DEF Downloader
  <2>10. x.stopped => Q = {}
    BY <2>4
  <2>. QED
    BY <2>4, <2>5, <2>6, <2>7, <2>8, <2>9, <2>10 DEF x, Q, L
<1>5. \A r \in Runs : d'[r] = Started(d[r], S[r])
  BY <1>1
<1>6. /\ TurnsFit(d', turns')
      /\ \A e \in Entries, o \in Runs : RmOf(turns, e, o) => RmOf(turns', e, o)
  <2>1. \A o \in Runs : /\ S[o] \subseteq Entries /\ S[o] \cap d[o].active = {}
                        /\ d[o].active \cup S[o] \subseteq d'[o].active
                        /\ d'[o].stopped => d[o].stopped /\ S[o] = {}
    BY <1>4, <1>5
  <2>. QED
    BY <1>1, <1>3, <2>1, WokenFit
<1>7. BaseInv'
  <2>1. NodesFit' /\ FolderFit'
    BY <1>2, <1>3 DEF NodesFit, FolderFit, Contents
  <2>2. DownloadersFit'
    <3>1. MaxAttempts' = MaxAttempts /\ HoldLimit' = HoldLimit /\ IdleLimit' = IdleLimit
      BY <1>2 DEF MaxAttempts, HoldLimit, IdleLimit
    <3>2. \A r \in Runs : Fit(d'[r], node'[r].listed)
      BY <1>2, <1>4, <1>5
    <3>3. \A r \in Runs : Fit(d[r], node[r].listed)'
      BY <3>1, <3>2 DEF Fit, Counters
    <3>4. d' \in [Runs -> Downloader]
      BY <1>1, <1>4 DEF Fit
    <3>. QED
      BY <3>3, <3>4 DEF DownloadersFit
  <2>. QED
    BY <1>2, <1>3, <1>6, <2>1, <2>2 DEF BaseInv
<1>8. AccountsInv' /\ SlotsInv'
  BY <1>2, <1>4, <1>5 DEF AccountsInv, SlotsInv
<1>9. PartialsInv'
  <2>1. \A o \in Runs, e \in Entries : Minds(d, turns, node, o, e) => Minds(d', turns', node', o, e)
    BY <1>2, <1>4, <1>5, <1>6 DEF Minds
  <2>2. \A c \in Contents, e \in Entries : Kept(d, turns, node, c, e) => Kept(d', turns', node', c, e)
    BY <2>1 DEF Kept
  <2>3. \A c \in Contents, e \in Entries : part'[c][e] # 0 => file'[e] # c /\ Kept(d', turns', node', c, e)
    BY <1>2, <2>2 DEF TransferInv, PartialsInv
  <2>. QED
    BY <2>3 DEF PartialsInv, Contents
<1>. QED
  BY <1>7, <1>8, <1>9 DEF TransferInv

-----------------------------------------------------------------------------
(* The invariant holds from the start, and every step keeps it. *)

LEMMA IdleFits ==
    ASSUME scene \in Scenes, NEW L, L \subseteq Entries
    PROVE  /\ Fit(Idle, L) /\ Accounts(Idle) /\ Slots(Idle, FALSE) /\ Leftovers(Idle) = {}
<1>. DEFINE x == Idle
            zero == [e \in Entries |-> 0]
<1>1. zero \in [Entries -> Nat] /\ zero \in [Entries -> 0 .. MaxAttempts] /\ \A e \in Entries : zero[e] = 0
  BY LimitsAreNat
<1>2. /\ x.mode = "off" /\ x.off = FALSE /\ x.stopped = FALSE /\ x.gaveUp = FALSE /\ x.queue = {}
      /\ x.active = {} /\ x.retrying = {} /\ x.asking = {} /\ x.seen = {} /\ x.attempts = zero
      /\ x.polled = {} /\ x.final = {} /\ x.readOK = FALSE /\ x.reads = 0 /\ x.idle = 0 /\ x.hold = 0
  BY DEF Idle
<1>3. x \in Downloader
  <2>. HIDE DEF zero
  <2>1. x = [mode |-> "off", off |-> FALSE, stopped |-> FALSE, gaveUp |-> FALSE,
         from |-> 0, to |-> 0, seen |-> {}, queue |-> {}, active |-> {},
         retrying |-> {}, asking |-> {}, attempts |-> zero,
         lost |-> {}, blocked |-> {}, views |-> {}, landed |-> {},
         polled |-> {}, final |-> {}, reads |-> 0, readOK |-> FALSE,
         slept |-> 0, idle |-> 0, hold |-> 0, heldOnce |-> FALSE, landedSince |-> FALSE]
    BY DEF Idle, zero
  <2>. QED
    BY <1>1, <2>1 DEF Downloader, Modes
<1>4. x = Idle
  OBVIOUS
<1>. HIDE DEF x, zero
<1>5. Leftovers(x) = {}
  BY <1>2 DEF Leftovers
<1>6. Counters(x)
  BY <1>1, <1>2, <1>5, LimitsAreNat DEF Counters
<1>7. Phases(x)
  BY <1>2, <1>4 DEF Phases
<1>8. Handles(x, L)
  <2>1. Cardinality(x.active) <= MaxTransfers
    BY <1>2, FS_EmptySet, LimitsAreNat
  <2>. QED
    BY <1>2, <1>5, <2>1 DEF Handles, Apart
<1>9. Accounts(x) /\ Slots(x, FALSE)
  BY <1>2, <1>5 DEF Accounts, Slots, Active
<1>. QED
  BY <1>3, <1>5, <1>6, <1>7, <1>8, <1>9 DEF Fit, x

LEMMA TransferInit == Init => TransferInv
<1>. SUFFICES ASSUME Init PROVE TransferInv
  OBVIOUS
<1>1. /\ scene \in Scenes /\ disk = TRUE /\ trouble = FALSE /\ clips = {}
      /\ node = [r \in Runs |-> [listed |-> {}, gone |-> {}]]
      /\ d = [r \in Runs |-> Idle] /\ file = [e \in Entries |-> 0]
      /\ part = [c \in Contents |-> [e \in Entries |-> 0]]
      /\ turns = [e \in Entries |-> <<>>] /\ rows = [f \in Frames |-> 0]
  BY DEF Init, Contents
<1>2. \A r \in Runs : node[r].listed = {} /\ node[r].gone = {}
  BY <1>1
<1>3. NodesFit
  <2>1. [listed |-> {}, gone |-> {}] \in [listed : SUBSET Entries, gone : SUBSET Entries]
    OBVIOUS
  <2>2. node \in [Runs -> [listed : SUBSET Entries, gone : SUBSET Entries]]
    BY <1>1, <2>1
  <2>. QED
    BY <1>2, <2>2 DEF NodesFit
<1>4. FolderFit
  <2>1. [e \in Entries |-> 0] \in [Entries -> 0 .. 2]
    OBVIOUS
  <2>2. part \in [Contents -> [Entries -> 0 .. 2]]
    BY <1>1, <2>1
  <2>. QED
    BY <1>1, <2>2 DEF FolderFit
<1>5. \A r \in Runs : Fit(d[r], node[r].listed) /\ Accounts(d[r]) /\ Slots(d[r], FALSE)
  BY <1>1, <1>2, IdleFits
<1>6. d \in [Runs -> Downloader]
  <2>1. \A r \in Runs : d[r] \in Downloader
    BY <1>5 DEF Fit
  <2>. QED
    BY <1>1, <2>1
<1>7. TurnsFit(d, turns)
  <2>1. <<>> \in Seq(Turn) /\ DOMAIN <<>> = {}
    OBVIOUS
  <2>2. turns \in [Entries -> Seq(Turn)] /\ \A e \in Entries : DOMAIN turns[e] = {}
    BY <1>1, <2>1
  <2>. QED
    BY <2>2 DEF TurnsFit
<1>8. BaseInv
  BY <1>1, <1>3, <1>4, <1>5, <1>6, <1>7 DEF BaseInv, DownloadersFit
<1>9. PartialsInv
  BY <1>1 DEF PartialsInv
<1>. QED
  BY <1>1, <1>5, <1>8, <1>9 DEF TransferInv, AccountsInv, SlotsInv

LEMMA TransferNext == TransferInv /\ [Next]_vars => TransferInv'
<1>. SUFFICES ASSUME TransferInv, [Next]_vars PROVE TransferInv'
  OBVIOUS
<1>1. ASSUME NEW r \in Runs, Start(r) \/ PollReads(r) \/ PollAnswers(r) \/ Drain(r) \/ Stop(r)
      PROVE  TransferInv'
  <2>1. CASE Start(r) \/ PollReads(r) \/ PollAnswers(r) \/ Stop(r)
    BY <2>1, StartKeeps, PollReadsKeeps, PollAnswersKeeps, StopKeeps
  <2>2. CASE Drain(r)
    BY <2>2, DrainBeginsKeeps, FinalReadStartsKeeps, FinalAnswersKeeps, FinalReadFailsKeeps,
       LookKeeps, WakesKeeps, DrainReturnsKeeps DEF Drain
  <2>. QED
    BY <1>1, <2>1, <2>2
<1>2. ASSUME NEW r \in Runs, NEW e \in Entries, NodeLists(r, e) \/ Transfer(r, e)
      PROVE  TransferInv'
  BY <1>2, NodeListsKeeps, FetchKeeps, LandKeeps, AbortKeeps, FailTransientKeeps, FailGoneKeeps,
     FailSinkKeeps, SinkAnswersKeeps, RetryFiresKeeps DEF Transfer
<1>3. CASE (\E e \in Entries : Discard(e)) \/ Probe \/ DiskTurns
  BY <1>3, DiscardKeeps, ProbeKeeps, DiskTurnsKeeps
<1>4. CASE UNCHANGED vars
  <2>1. UNCHANGED <<scene, node, d, disk, trouble, file, part, turns, rows, clips>>
    BY <1>4 DEF vars
  <2>2. DownloadersFit'
    <3>1. MaxAttempts' = MaxAttempts /\ HoldLimit' = HoldLimit /\ IdleLimit' = IdleLimit
      BY <2>1 DEF MaxAttempts, HoldLimit, IdleLimit
    <3>2. \A r \in Runs : Fit(d'[r], node'[r].listed)
      BY <2>1 DEF TransferInv, BaseInv, DownloadersFit
    <3>3. \A r \in Runs : Fit(d[r], node[r].listed)'
      BY <3>1, <3>2 DEF Fit, Counters
    <3>. QED
      BY <2>1, <3>3 DEF DownloadersFit, TransferInv, BaseInv
  <2>3. NodesFit' /\ FolderFit'
    BY <2>1 DEF TransferInv, BaseInv, NodesFit, FolderFit, Contents
  <2>4. BaseInv'
    BY <2>1, <2>2, <2>3 DEF TransferInv, BaseInv
  <2>5. AccountsInv' /\ SlotsInv' /\ PartialsInv'
    BY <2>1 DEF TransferInv, AccountsInv, SlotsInv, PartialsInv, Contents
  <2>. QED
    BY <2>4, <2>5 DEF TransferInv
<1>. QED
  BY <1>1, <1>2, <1>3, <1>4 DEF Next

THEOREM TransferInvariant == Spec => []TransferInv
<1>1. TransferInv /\ [Next]_vars => TransferInv'
  BY TransferNext
<1>. QED
  BY <1>1, TransferInit, PTL DEF Spec

-----------------------------------------------------------------------------
(* What the invariant promises. *)

\* Every variable stays within its type, whatever the limits, the attempts and the
\* files of the chunk.
THEOREM TypesHold == Spec => []TypeOK
<1>1. TransferInv => TypeOK
  <2>. SUFFICES ASSUME TransferInv PROVE TypeOK
    OBVIOUS
  <2>1. ASSUME NEW r \in Runs
        PROVE  LET x == d[r] IN
                 /\ x.mode \in {"off", "polling", "final", "draining", "done"}
                 /\ x.active \cup x.queue \cup x.retrying \cup x.asking \subseteq scene.entries
                 /\ x.attempts \in [Entries -> 0..MaxAttempts]
                 /\ x.hold \in 0..HoldLimit /\ x.idle \in 0..IdleLimit /\ x.reads \in 0..FinalReads
    <3>1. /\ d[r] \in Downloader /\ Counters(d[r]) /\ Handles(d[r], node[r].listed)
          /\ node[r].listed \subseteq scene.entries
      BY Here
    <3>. QED
      BY <3>1 DEF Downloader, Modes, Counters, Handles, Leftovers
  <2>2. \A c \in DOMAIN part : part[c] \in [Entries -> 0..2]
    BY DEF TransferInv, BaseInv, FolderFit
  <2>. QED
    BY <2>1, <2>2 DEF TypeOK, TransferInv, BaseInv, NodesFit, FolderFit
<1>. QED
  BY <1>1, TransferInvariant, PTL

\* A clean final pass has every frame file its manifest listed: what a run completes
\* its chunk on is true for any number of attempts, failures, pauses and refusals.
THEOREM CleanPassIsTrue == Spec => []CleanPassHasAll
<1>1. TransferInv => CleanPassHasAll
  BY DEF TransferInv, AccountsInv, Accounts, Reports, CleanPassHasAll, Clean
<1>. QED
  BY <1>1, TransferInvariant, PTL

\* No wakeup is missed: no queued file waits beside a slot that could take it.
THEOREM EverySlotIsUsed == Spec => []NoSlotIdles
<1>1. TransferInv => NoSlotIdles
  BY DEF TransferInv, SlotsInv, Slots, NoSlotIdles
<1>. QED
  BY <1>1, TransferInvariant, PTL

\* The job folder is left clean of partials once every downloader has let go.
THEOREM FolderEndsClean == Spec => []FolderIsClean
<1>1. TransferInv => FolderIsClean
  <2>. SUFFICES ASSUME TransferInv, Settled, \A e \in Entries : turns[e] = <<>>,
                       NEW r \in Runs, NEW e \in Entries, part[Content[r]][e] # 0
                PROVE  \E o \in Runs : Content[o] = Content[r] /\ e \in node[o].gone
    BY DEF FolderIsClean
  <2>1. PICK o \in Runs : Content[o] = Content[r] /\ Minds(d, turns, node, o, e)
    BY DEF TransferInv, PartialsInv, Kept, Contents
  <2>2. ~RmOf(turns, e, o)
    BY DEF RmOf
  <2>3. ~d[o].stopped => Leftovers(d[o]) = {}
    BY Here DEF Settled, Phases, Idle, Leftovers
  <2>. QED
    BY <2>1, <2>2, <2>3 DEF Minds
<1>. QED
  BY <1>1, TransferInvariant, PTL

\* The rows and the clips are written in two places only.
LEMMA RowsWritten ==
    ASSUME [Next]_vars
    PROVE  \/ rows' = rows /\ clips' = clips
           \/ \E r \in Runs, e \in Entries : Land(r, e)
           \/ \E r \in Runs : DrainReturns(r)
<1>1. ASSUME NEW r \in Runs, Start(r) \/ PollReads(r) \/ PollAnswers(r) \/ Drain(r) \/ Stop(r)
      PROVE  (rows' = rows /\ clips' = clips) \/ DrainReturns(r)
  BY <1>1 DEF Start, PollReads, PollAnswers, Drain, Stop, DrainBegins, FinalReadStarts, FinalAnswers,
              FinalReadFails, Look, Wakes, shared
<1>2. ASSUME NEW r \in Runs, NEW e \in Entries, NodeLists(r, e) \/ Transfer(r, e)
      PROVE  (rows' = rows /\ clips' = clips) \/ Land(r, e)
  BY <1>2 DEF NodeLists, Transfer, Fetch, Abort, FailTransient, FailGone, FailSink, SinkAnswers,
              RetryFires, shared
<1>3. CASE (\E e \in Entries : Discard(e)) \/ Probe \/ DiskTurns \/ UNCHANGED vars
  BY <1>3 DEF Discard, Probe, DiskTurns, vars, shared
<1>. QED
  BY <1>1, <1>2, <1>3 DEF Next

\* No live clip stays listed beside a definitive one, in any order of their landing.
THEOREM DefinitiveRetires == Spec => []DefinitiveRetiresLive
<1>1. Init => DefinitiveRetiresLive
  BY DEF Init, DefinitiveRetiresLive
<1>2. DefinitiveRetiresLive /\ [Next]_vars => DefinitiveRetiresLive'
  <2>. SUFFICES ASSUME DefinitiveRetiresLive, [Next]_vars, \E c \in clips' : c[2].kind = "clip"
                PROVE  ~\E c \in clips' : c[2].kind = "live"
    BY DEF DefinitiveRetiresLive
  <2>1. ASSUME NEW r \in Runs, NEW e \in Entries, Land(r, e)
        PROVE  ~\E c \in clips' : c[2].kind = "live"
    <3>. DEFINE final == \E c \in clips : c[2].kind = "clip"
                dead == {c \in clips : c[2].kind = "live"}
                dropped == IF e.kind = "live" /\ final THEN {<<r, e>>}
                           ELSE IF e.kind \in {"live", "clip"} THEN dead \ {<<r, e>>} ELSE {}
                keeps == IF e.kind \in {"live", "clip"} THEN {<<r, e>>} ELSE {}
    <3>1. clips' = IF d[r].stopped THEN clips ELSE (clips \cup keeps) \ dropped
      BY <2>1 DEF Land
    <3>2. <<r, e>>[2] = e
      OBVIOUS
    <3>3. CASE d[r].stopped
      BY <3>1, <3>3 DEF DefinitiveRetiresLive
    <3>4. CASE ~d[r].stopped /\ e.kind = "clip"
      BY <3>1, <3>2, <3>4
    <3>5. CASE ~d[r].stopped /\ e.kind # "clip"
      <4>1. final
        BY <3>1, <3>2, <3>5
      <4>2. dead = {}
        BY <4>1 DEF DefinitiveRetiresLive
      <4>3. \A c \in clips' : c \in clips
        BY <3>1, <3>5, <4>1
      <4>. QED
        BY <4>2, <4>3
    <3>. QED
      BY <3>3, <3>4, <3>5
  <2>2. ASSUME NEW r \in Runs, DrainReturns(r)
        PROVE  clips' = clips
    BY <2>2 DEF DrainReturns
  <2>. QED
    BY <2>1, <2>2, RowsWritten DEF DefinitiveRetiresLive
<1>. QED
  BY <1>1, <1>2, PTL DEF Spec

\* A stopped run writes no rows: those of a chunk that is sent again are the next
\* run's alone, unless a pass that gave up by itself still marks what it has.
THEOREM StoppedIsSilent == Spec => StoppedWritesNothing
<1>. DEFINE Silent == /\ \A f \in Frames : rows'[f] # rows[f] =>
                           LET x == d[rows'[f]] IN ~x.stopped \/ x.gaveUp
                      /\ \A c \in clips' \ clips : ~d[c[1]].stopped
<1>1. TransferInv /\ [Next]_vars => Silent
  <2>. SUFFICES ASSUME TransferInv, [Next]_vars PROVE Silent
    OBVIOUS
  <2>1. rows \in [Frames -> Runs \cup {0}]
    BY DEF TransferInv, BaseInv, FolderFit
  <2>2. ASSUME NEW r \in Runs, NEW e \in Entries, Land(r, e)
        PROVE  Silent
    <3>1. rows' = IF ~d[r].stopped /\ IsFrame(e) /\ e.view = "" THEN [rows EXCEPT ![e.num] = r] ELSE rows
      BY <2>2 DEF Land
    <3>2. d[r].stopped => clips' = clips
      BY <2>2 DEF Land
    <3>3. \A c \in clips' : c \in clips \/ c = <<r, e>>
      BY <2>2 DEF Land
    <3>4. <<r, e>>[1] = r
      OBVIOUS
    <3>. QED
      BY <2>1, <3>1, <3>2, <3>3, <3>4
  <2>3. ASSUME NEW r \in Runs, DrainReturns(r)
        PROVE  Silent
    <3>1. clips' = clips
      BY <2>3 DEF DrainReturns
    <3>2. \A f \in Frames : rows'[f] = rows[f] \/ (rows'[f] = r /\ (~d[r].stopped \/ d[r].gaveUp))
      BY <2>3 DEF DrainReturns
    <3>. QED
      BY <3>1, <3>2
  <2>. QED
    BY <2>2, <2>3, RowsWritten
<1>2. TransferInv /\ [Next]_vars => [Silent]_vars
  BY <1>1
<1>. QED
  BY <1>2, TransferInvariant, PTL DEF Spec, StoppedWritesNothing

-----------------------------------------------------------------------------
(* Rows and files: most steps leave a run at its own frames. *)

SameRows(x, y) ==
    /\ y.mode = "off" <=> x.mode = "off"
    /\ x.off => y.off
    /\ y.views \subseteq x.views \cup SceneViews
    /\ y.landed \subseteq x.landed
    /\ ~y.off => /\ y.from = x.from /\ y.to = x.to
                 /\ \A e \in Leftovers(y) \ Leftovers(x) : IsFrame(e) => IsOurFrame(x, e)

LEMMA RowsStay ==
    ASSUME RowsInv, scene' = scene, rows' = rows,
           \A e \in scene.entries : IsFrame(e) => file'[e] = file[e],
           \A o \in Runs : \A e \in d'[o].landed : IsFrame(e) => file'[e] = file[e],
           \A o \in Runs : SameRows(d[o], d'[o]),
           scene.entries \subseteq Entries,
           \A e \in Entries, o \in Runs : GetOf(turns', e, o) =>
             \/ GetOf(turns, e, o)
             \/ e \in Leftovers(d'[o]) /\ ~d'[o].off /\ d'[o].mode # "off"
    PROVE  RowsInv'
<1>1. SceneViews' = SceneViews /\ OneFile' = OneFile
  BY DEF SceneViews, OneFile
<1>2. OneAtATime'
  BY DEF RowsInv, OneAtATime, SameRows
<1>3. ViewsListed'
  BY <1>1 DEF RowsInv, ViewsListed, SameRows
<1>4. ASSUME OneFile
      PROVE  OwnFrames' /\ RowsOfOneFile'
  <2>1. OwnFrames /\ RowsOfOneFile
    BY <1>4 DEF RowsInv
  <2>2. ASSUME NEW o \in Runs, d'[o].mode # "off", ~d'[o].off
        PROVE  /\ \A e \in Leftovers(d'[o]) : IsFrame(e) => IsOurFrame(d'[o], e)
               /\ \A f \in Frames : d'[o].from <= f /\ f <= d'[o].to => rows[f] \in {0, o}
    <3>1. /\ d[o].mode # "off" /\ ~d[o].off /\ d'[o].from = d[o].from /\ d'[o].to = d[o].to
          /\ \A e \in Leftovers(d'[o]) \ Leftovers(d[o]) : IsFrame(e) => IsOurFrame(d[o], e)
      BY <2>2 DEF SameRows
    <3>2. \A e : IsOurFrame(d'[o], e) = IsOurFrame(d[o], e)
      BY <3>1 DEF IsOurFrame
    <3>. QED
      BY <2>1, <3>1, <3>2 DEF OwnFrames
  <2>3. OwnFrames'
    BY <2>2 DEF OwnFrames
  <2>4. ASSUME NEW f \in Frames, rows[f] # 0, NEW e \in scene.entries, IsFrame(e), e.num = f
        PROVE  file'[e] = Content[rows[f]] /\ \A o \in Runs : GetOf(turns', e, o) => o = rows[f]
    <3>1. file[e] = Content[rows[f]] /\ \A o \in Runs : GetOf(turns, e, o) => o = rows[f]
      BY <2>1, <2>4 DEF RowsOfOneFile
    <3>2. ASSUME NEW o \in Runs, e \in Leftovers(d'[o]), ~d'[o].off, d'[o].mode # "off"
          PROVE  o = rows[f]
      <4>1. IsOurFrame(d'[o], e)
        BY <2>2, <2>4, <3>2
      <4>2. d'[o].from <= f /\ f <= d'[o].to
        BY <2>4, <4>1 DEF IsOurFrame, IsFrame
      <4>. QED
        BY <2>2, <2>4, <3>2, <4>2
    <3>. QED
      BY <2>4, <3>1, <3>2
  <2>5. RowsOfOneFile'
    BY <2>4 DEF RowsOfOneFile
  <2>. QED
    BY <2>3, <2>5
<1>5. ASSUME ~OneFile, scene.tries = 1
      PROVE  SentOnce'
  <2>1. SentOnce
    BY <1>5 DEF RowsInv
  <2>2. \A o \in Runs : d'[o].mode # "off" => o = 1
    BY <2>1 DEF SentOnce, SameRows
  <2>3. \A o \in Runs : \A e \in d'[o].landed : IsFrame(e) => file'[e] = Content[o]
    BY <2>1 DEF SentOnce, SameRows
  <2>4. \A f \in Frames : rows'[f] # 0 =>
          /\ rows'[f] = 1
          /\ \A e \in scene'.entries : IsFrame(e) /\ e.num = f => file'[e] = Content[1]
    BY <2>1 DEF SentOnce
  <2>. QED
    BY <2>2, <2>3, <2>4 DEF SentOnce
<1>. QED
  BY <1>1, <1>2, <1>3, <1>4, <1>5 DEF RowsInv

\* One downloader's step.
LEMMA RowsMove ==
    ASSUME TransferInv, RowsInv, NEW r \in Runs, NEW y, d' = [d EXCEPT ![r] = y],
           UNCHANGED <<scene, file, rows>>, SameRows(d[r], y),
           \A e \in Entries, o \in Runs : GetOf(turns', e, o) =>
             \/ GetOf(turns, e, o)
             \/ o = r /\ e \in Leftovers(y) /\ ~y.off /\ y.mode # "off"
    PROVE  RowsInv'
<1>1. d \in [Runs -> Downloader] /\ scene.entries \subseteq Entries
  BY Here
<1>2. \A o \in Runs : d'[o] = IF o = r THEN y ELSE d[o]
  BY <1>1
<1>3. \A o \in Runs : SameRows(d[o], d'[o])
  BY <1>2 DEF SameRows
<1>4. \A e \in Entries, o \in Runs : GetOf(turns', e, o) =>
             \/ GetOf(turns, e, o)
             \/ e \in Leftovers(d'[o]) /\ ~d'[o].off /\ d'[o].mode # "off"
  BY <1>2
<1>. QED
  BY <1>1, <1>3, <1>4, RowsStay

\* What pump() starts was queued.
LEMMA PumpGets ==
    ASSUME NEW r \in Runs, NEW z \in Downloader, NEW t \in [Entries -> Seq(Turn)], Pumped(r, z, t)
    PROVE  \E S \in SUBSET z.queue :
             /\ d' = [d EXCEPT ![r] = Started(z, S)]
             /\ z.stopped => S = {}
             /\ \A e \in Entries, o \in Runs :
                  GetOf(turns', e, o) => GetOf(t, e, o) \/ (o = r /\ e \in S)
<1>1. PICK S \in Startable(z, trouble) :
        d' = [d EXCEPT ![r] = Started(z, S)] /\ turns' = Queued(t, r, S)
  BY DEF Pumped
<1>2. S \subseteq z.queue /\ (z.stopped => S = {})
  <2>1. CASE z.stopped \/ trouble
    BY <1>1, <2>1 DEF Startable
  <2>2. CASE ~(z.stopped \/ trouble)
    <3>. DEFINE room == MaxTransfers - Cardinality(z.active)
                previews == {e \in z.queue : IsPreview(e)}
                others == z.queue \ previews
                wanted == {e \in previews : \A p \in previews : ClassOf(e) <= ClassOf(p)}
                first == IF room > 0 /\ previews # {} /\ ~\E e \in z.active : IsPreview(e)
                         THEN {{e} : e \in wanted} ELSE {{}}
                Rest(B) == IF Cardinality(others) <= room - Cardinality(B) THEN {others}
                           ELSE kSubset(room - Cardinality(B), others)
    <3>1. Startable(z, trouble) = UNION {{B \cup T : T \in Rest(B)} : B \in first}
      BY <2>2 DEF Startable
    <3>2. \A B \in first : B \subseteq z.queue
      OBVIOUS
    <3>3. \A B : \A T \in Rest(B) : T \subseteq z.queue
      BY DEF kSubset
    <3>. HIDE DEF first, Rest
    <3>4. PICK B \in first : \E T \in Rest(B) : S = B \cup T
      BY <1>1, <3>1
    <3>. QED
      BY <2>2, <3>2, <3>3, <3>4
  <2>. QED
    BY <2>1, <2>2
<1>3. ASSUME NEW e \in Entries, NEW o \in Runs, GetOf(turns', e, o)
      PROVE  GetOf(t, e, o) \/ (o = r /\ e \in S)
  <2>. DEFINE new == [run |-> r, op |-> "get"]
  <2>1. turns'[e] = IF e \in S THEN Append(t[e], new) ELSE t[e]
    BY <1>1 DEF Queued
  <2>2. t[e] \in Seq(Turn) /\ new \in Turn
    BY DEF Turn
  <2>3. new = [run |-> o, op |-> "get"] => o = r
    OBVIOUS
  <2>. HIDE DEF new
  <2>4. CASE e \in S
    <3>1. PICK i \in DOMAIN turns'[e] : turns'[e][i] = [run |-> o, op |-> "get"]
      BY <1>3 DEF GetOf
    <3>2. (i \in DOMAIN t[e] /\ turns'[e][i] = t[e][i]) \/ turns'[e][i] = new
      BY <2>1, <2>2, <2>4, <3>1, AppendAt
    <3>. QED
      BY <2>3, <2>4, <3>1, <3>2 DEF GetOf
  <2>5. CASE e \notin S
    BY <1>3, <2>1, <2>5 DEF GetOf
  <2>. QED
    BY <2>4, <2>5
<1>. QED
  BY <1>1, <1>2, <1>3

LEMMA RowsPumped ==
    ASSUME TransferInv, RowsInv, NEW r \in Runs, d[r].mode # "off",
           NEW z \in Downloader, NEW t \in [Entries -> Seq(Turn)], Pumped(r, z, t),
           UNCHANGED <<scene, file, rows>>, SameRows(d[r], z), z.off => z.stopped,
           \A e \in Entries, o \in Runs : GetOf(t, e, o) => GetOf(turns, e, o)
    PROVE  RowsInv'
<1>1. PICK S \in SUBSET z.queue :
             /\ d' = [d EXCEPT ![r] = Started(z, S)]
             /\ z.stopped => S = {}
             /\ \A e \in Entries, o \in Runs :
                  GetOf(turns', e, o) => GetOf(t, e, o) \/ (o = r /\ e \in S)
  BY PumpGets
<1>. DEFINE y == Started(z, S)
<1>2. /\ Leftovers(y) = Leftovers(z) /\ y.off = z.off /\ y.mode = z.mode
      /\ y.from = z.from /\ y.to = z.to /\ y.landed = z.landed /\ y.views = z.views
  BY StartedKeeps
<1>3. S \subseteq Leftovers(z)
  BY DEF Leftovers
<1>4. d' = [d EXCEPT ![r] = y]
  BY <1>1
<1>. HIDE DEF y
<1>5. SameRows(d[r], y)
  BY <1>2 DEF SameRows
<1>6. \A e \in Entries, o \in Runs : GetOf(turns', e, o) =>
             \/ GetOf(turns, e, o)
             \/ o = r /\ e \in Leftovers(y) /\ ~y.off /\ y.mode # "off"
  BY <1>1, <1>2, <1>3 DEF SameRows
<1>. QED
  BY <1>4, <1>5, <1>6, RowsMove

\* A transfer's end leaves a run at the files it had.
LEMMA CourseSameRows ==
    ASSUME NEW x, NEW z, SameCourse(x, z), z.landed = x.landed, Leftovers(z) \subseteq Leftovers(x)
    PROVE  SameRows(x, z)
  BY DEF SameRows, SameCourse

LEMMA ChargedIn ==
    ASSUME NEW w \in Downloader, NEW e \in Entries
    PROVE  Charged(w, e) \in Downloader
<1>. DEFINE k == w.attempts[e] + 1
            A == [w.attempts EXCEPT ![e] = k]
            y == [w EXCEPT !.attempts = A]
<1>1. k \in Nat
  BY DEF Downloader
<1>. HIDE DEF k
<1>2. A \in [Entries -> Nat]
  BY <1>1 DEF Downloader
<1>3. [w EXCEPT !.attempts[e] = @ + 1] = y
  BY DEF Downloader, k
<1>. HIDE DEF A
<1>4. y \in Downloader
  BY <1>2 DEF Downloader
<1>5. [y EXCEPT !.retrying = @ \cup {e}] \in Downloader
  <2>. HIDE DEF y
  <2>. QED
    BY <1>4 DEF Downloader
<1>6. [y EXCEPT !.lost = IF IsFrame(e) THEN @ \cup {e} ELSE @] \in Downloader
  <2>. HIDE DEF y
  <2>. QED
    BY <1>4 DEF Downloader
<1>. QED
  BY <1>3, <1>5, <1>6 DEF Charged

-----------------------------------------------------------------------------
(* The rows and files after each action. *)

\* Counting, listening and reading.
LEMMA ReadingRows ==
    ASSUME TransferInv, RowsInv, NEW r \in Runs,
           \/ PollReads(r) \/ DrainBegins(r) \/ FinalReadStarts(r) \/ FinalReadFails(r) \/ Wakes(r)
    PROVE  RowsInv'
<1>. DEFINE x == d[r]
            y == d'[r]
<1>1. d \in [Runs -> Downloader] /\ x \in Downloader
  BY Here
<1>2. /\ UNCHANGED <<scene, file, rows, turns>>
  BY DEF PollReads, DrainBegins, FinalReadStarts, FinalReadFails, Wakes, shared
<1>3. /\ d' = [d EXCEPT ![r] = y]
      /\ y.mode = "off" <=> x.mode = "off"
      /\ y.off = x.off /\ y.views = x.views /\ y.landed = x.landed /\ y.from = x.from /\ y.to = x.to
      /\ y.queue = x.queue /\ y.active = x.active /\ y.retrying = x.retrying /\ y.asking = x.asking
  <2>1. CASE PollReads(r)
    BY <1>1, <2>1 DEF PollReads, Downloader
  <2>2. CASE DrainBegins(r)
    BY <1>1, <2>2 DEF DrainBegins, Downloader
  <2>3. CASE FinalReadStarts(r)
    BY <1>1, <2>3 DEF FinalReadStarts, Downloader
  <2>4. CASE FinalReadFails(r)
    BY <1>1, <2>4 DEF FinalReadFails, Downloader
  <2>5. CASE Wakes(r)
    BY <1>1, <2>5 DEF Wakes, Downloader
  <2>. QED
    BY <2>1, <2>2, <2>3, <2>4, <2>5
<1>. HIDE DEF y
<1>4. SameRows(x, y)
  BY <1>3 DEF SameRows, Leftovers
<1>5. \A e \in Entries, o \in Runs : GetOf(turns', e, o) => GetOf(turns, e, o)
  BY <1>2
<1>. QED
  BY <1>2, <1>3, <1>4, <1>5, RowsMove DEF x

\* What is read is queued for its own frames, and of the views the scene has.
LEMMA TakenRows ==
    ASSUME TransferInv, NEW x \in Downloader, NEW text, text \subseteq scene.entries
    PROVE  LET w == Taken(x, text)
           IN /\ w \in Downloader /\ SameRows(x, w)
              /\ w.mode = x.mode /\ w.off = x.off /\ w.stopped = x.stopped
<1>. DEFINE w == Taken(x, text)
            good == text \ Malformed
            newest(e) == \A o \in good : o.kind = "live" => o.num <= e.num
            fresh == {e \in good \ x.seen : (e.kind = "live" => newest(e)) /\ IsOurFrame(x, e)}
            sights == {e.view : e \in {f \in fresh : IsFrame(f)}} \ {""}
            gone == {e \in text \cap Malformed : IsFrame(e)}
<1>1. w = [x EXCEPT !.seen = @ \cup good, !.lost = @ \cup gone, !.queue = @ \cup fresh,
                    !.views = @ \cup sights]
  BY DEF Taken
<1>2. scene.entries \subseteq Entries
  BY DEF TransferInv, BaseInv, Entries
<1>3. /\ good \subseteq Entries /\ gone \subseteq Entries /\ fresh \subseteq Entries
      /\ sights \subseteq Views /\ sights \subseteq SceneViews
      /\ \A e \in fresh : IsOurFrame(x, e)
  BY <1>2 DEF Views, SceneViews
<1>. HIDE DEF w, good, fresh, sights, gone
<1>4. w \in Downloader
  BY <1>1, <1>3 DEF Downloader
<1>5. /\ w.queue = x.queue \cup fresh /\ w.active = x.active /\ w.retrying = x.retrying
      /\ w.asking = x.asking /\ w.views = x.views \cup sights /\ w.landed = x.landed
      /\ w.mode = x.mode /\ w.off = x.off /\ w.stopped = x.stopped
      /\ w.from = x.from /\ w.to = x.to
  BY <1>1 DEF Downloader
<1>6. SameRows(x, w)
  BY <1>3, <1>5 DEF SameRows, Leftovers
<1>. QED
  BY <1>4, <1>5, <1>6 DEF w

LEMMA AnswersRows ==
    ASSUME TransferInv, RowsInv, NEW r \in Runs, PollAnswers(r) \/ FinalAnswers(r)
    PROVE  RowsInv'
<1>. DEFINE x == d[r]
<1>1. /\ d \in [Runs -> Downloader] /\ x \in Downloader /\ Phases(x)
      /\ \A text \in x.polled \cup x.final : text \subseteq scene.entries
      /\ turns \in [Entries -> Seq(Turn)]
  BY Here DEF Handles, TurnsFit
<1>2. UNCHANGED <<scene, file, rows>>
  BY DEF PollAnswers, FinalAnswers
<1>3. ASSUME NEW text \in x.polled \cup x.final, x.mode # "off", NEW z,
             \/ z = [Taken(x, text) EXCEPT !.polled = {}]
             \/ z = [Taken(x, text) EXCEPT !.mode = "draining", !.readOK = TRUE, !.idle = 0],
             Pumped(r, z, turns)
      PROVE  RowsInv'
  <2>. DEFINE w == Taken(x, text)
  <2>. HIDE DEF x
  <2>1. /\ w \in Downloader /\ SameRows(x, w)
        /\ w.mode = x.mode /\ w.off = x.off /\ w.stopped = x.stopped
    BY <1>1, <1>3, TakenRows
  <2>2. \/ z = [w EXCEPT !.polled = {}]
        \/ z = [w EXCEPT !.mode = "draining", !.readOK = TRUE, !.idle = 0]
    BY <1>3
  <2>. HIDE DEF w
  <2>3. z \in Downloader
    <3>1. CASE z = [w EXCEPT !.polled = {}]
      BY <2>1, <3>1 DEF Downloader
    <3>2. CASE z = [w EXCEPT !.mode = "draining", !.readOK = TRUE, !.idle = 0]
      BY <2>1, <3>2 DEF Downloader, Modes
    <3>. QED
      BY <2>2, <3>1, <3>2
  <2>4. /\ z.mode # "off" /\ z.off = w.off /\ z.stopped = w.stopped
        /\ z.from = w.from /\ z.to = w.to /\ z.landed = w.landed /\ z.views = w.views
        /\ z.queue = w.queue /\ z.active = w.active /\ z.retrying = w.retrying /\ z.asking = w.asking
    BY <1>3, <2>1, <2>2 DEF Downloader
  <2>5. SameRows(x, z)
    BY <1>3, <2>1, <2>4 DEF SameRows, Leftovers
  <2>6. z.off => z.stopped
    BY <1>1, <2>1, <2>4 DEF Phases
  <2>. QED
    BY <1>1, <1>2, <1>3, <2>3, <2>5, <2>6, RowsPumped DEF x
<1>4. CASE PollAnswers(r)
  <2>1. PICK text \in x.polled : Pumped(r, [Taken(x, text) EXCEPT !.polled = {}], turns)
    BY <1>4 DEF PollAnswers
  <2>2. x.mode # "off"
    BY <1>1 DEF Phases, Idle
  <2>. QED
    BY <1>3, <2>1, <2>2
<1>5. CASE FinalAnswers(r)
  <2>1. PICK text \in x.final :
          Pumped(r, [Taken(x, text) EXCEPT !.mode = "draining", !.readOK = TRUE, !.idle = 0], turns)
    BY <1>5 DEF FinalAnswers
  <2>2. x.mode # "off"
    BY <1>5 DEF FinalAnswers
  <2>. QED
    BY <1>3, <2>1, <2>2
<1>. QED
  BY <1>4, <1>5

\* A dispatch: the attempt before is off, and the frames it is sent are missing.
LEMMA StartRows ==
    ASSUME TransferInv, RowsInv, NEW r \in Runs, Start(r)
    PROVE  RowsInv'
<1>. DEFINE y == [d[r] EXCEPT !.mode = "polling", !.from = FirstRange[1], !.to = FirstRange[2]]
<1>1. /\ d \in [Runs -> Downloader] /\ rows \in [Frames -> Runs \cup {0}] /\ scene \in Scenes
  BY Here
<1>2. d[r] = Idle /\ Missing # {} /\ r <= scene.tries /\ \A o \in Runs : o < r => d[o].off
  BY Here DEF Start, Phases
<1>3. /\ d' = [d EXCEPT ![r] = y]
      /\ UNCHANGED <<scene, file, turns, rows>>
  BY <1>1 DEF Start, shared
<1>4. /\ y.mode = "polling" /\ ~y.off /\ y.queue = {} /\ y.active = {} /\ y.retrying = {}
      /\ y.asking = {} /\ y.views = {} /\ y.landed = {}
      /\ y.from = FirstRange[1] /\ y.to = FirstRange[2]
  BY <1>2 DEF Idle
<1>. HIDE DEF y
<1>5. Leftovers(y) = {}
  BY <1>4 DEF Leftovers
<1>6. \A o \in Runs : d'[o] = IF o = r THEN y ELSE d[o]
  BY <1>1, <1>3
<1>7. \A o \in Runs : o \in Nat /\ o # 0
  BY TransferAssumption DEF TransferAssumption
<1>8. OneAtATime'
  <2>. SUFFICES ASSUME NEW o \in Runs, NEW q \in Runs, o < q, d'[q].mode # "off" PROVE d'[o].off
    BY DEF OneAtATime
  <2>1. d[r].off = FALSE
    BY <1>2 DEF Idle
  <2>2. CASE q = r
    BY <1>2, <1>6, <1>7, <2>2
  <2>3. CASE q # r
    <3>1. d[o].off
      BY <1>6, <2>3 DEF RowsInv, OneAtATime
    <3>. QED
      BY <1>6, <2>1, <3>1
  <2>. QED
    BY <2>2, <2>3
<1>9. SceneViews' = SceneViews /\ OneFile' = OneFile
  BY <1>3 DEF SceneViews, OneFile
<1>10. ViewsListed'
  BY <1>4, <1>6, <1>9 DEF RowsInv, ViewsListed
<1>11. ASSUME OneFile
       PROVE  OwnFrames' /\ RowsOfOneFile'
  <2>1. \A f \in Frames : y.from <= f /\ f <= y.to => rows[f] \in {0, r}
    BY <1>1, <1>2, <1>4, FirstRangeIsNat
  <2>2. OwnFrames'
    BY <1>3, <1>5, <1>6, <1>11, <2>1 DEF RowsInv, OwnFrames
  <2>3. RowsOfOneFile'
    BY <1>3, <1>11 DEF RowsInv, RowsOfOneFile, GetOf
  <2>. QED
    BY <2>2, <2>3
<1>12. ASSUME ~OneFile, scene.tries = 1
       PROVE  SentOnce'
  <2>1. r = 1
    BY <1>2, <1>7, <1>12
  <2>. QED
    BY <1>3, <1>4, <1>6, <1>12, <2>1 DEF RowsInv, SentOnce
<1>. QED
  BY <1>3, <1>8, <1>9, <1>10, <1>11, <1>12 DEF RowsInv

\* The end of a run's downloads, by itself or by its stop.
LEMMA StopRows ==
    ASSUME TransferInv, RowsInv, NEW r \in Runs, Stop(r) \/ Look(r)
    PROVE  RowsInv'
<1>. DEFINE x == d[r]
            y == d'[r]
            A == {e \in x.active : AtWork(r, e)}
<1>1. d \in [Runs -> Downloader] /\ x \in Downloader /\ TurnsFit(d, turns)
  BY Here
<1>2. UNCHANGED <<scene, file, rows>>
  BY DEF Stop, Look
<1>3. /\ d' = [d EXCEPT ![r] = y]
      /\ y.mode = "off" <=> x.mode = "off"
      /\ x.off => y.off
      /\ y.views \subseteq x.views /\ y.landed \subseteq x.landed
      /\ ~y.off => y.from = x.from /\ y.to = x.to
      /\ Leftovers(y) \subseteq Leftovers(x)
      /\ turns' = turns \/ (turns' = TurnsStopped(r, x) /\ y.active = A)
  <2>0. Stopped(r, x) = [x EXCEPT !.stopped = TRUE, !.active = A]
    BY <1>1 DEF Stopped, Downloader
  <2>1. CASE Stop(r)
    <3>1. x.mode # "off" /\ d' = [d EXCEPT ![r] = Abandoned(r, x)]
          /\ turns' = (IF x.stopped THEN turns ELSE TurnsStopped(r, x))
      BY <1>1, <2>1 DEF Stop
    <3>2. CASE x.stopped /\ x.mode = "draining"
      <4>1. y = [x EXCEPT !.off = TRUE]
        BY <1>1, <3>1, <3>2 DEF Abandoned
      <4>2. /\ y.mode = x.mode /\ y.off /\ y.views = x.views /\ y.landed = x.landed
            /\ Leftovers(y) = Leftovers(x)
        <5>. HIDE DEF x, y
        <5>. QED
          BY <1>1, <4>1 DEF Downloader, Leftovers
      <4>. QED
        BY <1>1, <3>1, <3>2, <4>1, <4>2
    <3>3. CASE ~(x.stopped /\ x.mode = "draining")
      <4>1. y = [Idle EXCEPT !.mode = "done", !.off = TRUE, !.stopped = TRUE, !.active = A]
        <5>1. Stopped(r, x).active = A
          BY <1>1, <2>0 DEF Downloader
        <5>. QED
          BY <1>1, <3>1, <3>3, <5>1 DEF Abandoned
      <4>2. /\ y.mode = "done" /\ y.off /\ y.views = {} /\ y.landed = {}
            /\ y.active = A /\ Leftovers(y) = A
        <5>. HIDE DEF x, y, A
        <5>. QED
          BY <4>1 DEF Idle, Leftovers
      <4>3. A \subseteq Leftovers(x)
        BY DEF Leftovers
      <4>. QED
        BY <1>1, <3>1, <4>1, <4>2, <4>3
    <3>. QED
      BY <3>2, <3>3
  <2>2. CASE Look(r)
    <3>. DEFINE left == {e \in Leftovers(x) : IsFrame(e)}
                held == IF ~x.heldOnce \/ x.landedSince THEN 0 ELSE x.hold + 1
                gives == [Stopped(r, x) EXCEPT !.gaveUp = TRUE]
    <3>. HIDE DEF left, held
    <3>1. \/ /\ turns' = turns
             /\ \/ d' = [d EXCEPT ![r].hold = held, ![r].heldOnce = TRUE,
                                  ![r].landedSince = FALSE, ![r].idle = 0]
                \/ d' = [d EXCEPT ![r].idle = @ + 1]
          \/ /\ turns' = TurnsStopped(r, x)
             /\ \/ d' = [d EXCEPT ![r] = [gives EXCEPT !.blocked = @ \cup left]]
                \/ d' = [d EXCEPT ![r] = [gives EXCEPT !.lost = @ \cup left]]
      BY <2>2 DEF Look, left, held
    <3>2. CASE /\ turns' = turns
               /\ \/ d' = [d EXCEPT ![r].hold = held, ![r].heldOnce = TRUE,
                                    ![r].landedSince = FALSE, ![r].idle = 0]
                  \/ d' = [d EXCEPT ![r].idle = @ + 1]
      <4>1. /\ d' = [d EXCEPT ![r] = y]
            /\ y.mode = x.mode /\ y.off = x.off /\ y.views = x.views /\ y.landed = x.landed
            /\ y.from = x.from /\ y.to = x.to
            /\ y.queue = x.queue /\ y.active = x.active /\ y.retrying = x.retrying /\ y.asking = x.asking
        BY <1>1, <3>2 DEF Downloader
      <4>. HIDE DEF x, y
      <4>2. Leftovers(y) = Leftovers(x)
        BY <4>1 DEF Leftovers
      <4>. QED
        BY <3>2, <4>1, <4>2
    <3>3. CASE /\ turns' = TurnsStopped(r, x)
               /\ \/ d' = [d EXCEPT ![r] = [gives EXCEPT !.blocked = @ \cup left]]
                  \/ d' = [d EXCEPT ![r] = [gives EXCEPT !.lost = @ \cup left]]
      <4>1. /\ d' = [d EXCEPT ![r] = y]
            /\ y = [gives EXCEPT !.blocked = @ \cup left] \/ y = [gives EXCEPT !.lost = @ \cup left]
        BY <1>1, <3>3
      <4>2. A \subseteq x.active
        OBVIOUS
      <4>. HIDE DEF x, y, A
      <4>3. /\ y.mode = x.mode /\ y.off = x.off /\ y.views = x.views /\ y.landed = x.landed
            /\ y.from = x.from /\ y.to = x.to
            /\ y.queue = x.queue /\ y.active = A /\ y.retrying = x.retrying /\ y.asking = x.asking
        <5>. DEFINE u == [x EXCEPT !.stopped = TRUE, !.active = A]
                    v == [u EXCEPT !.gaveUp = TRUE]
        <5>1. u \in Downloader
          BY <1>1, <4>2 DEF Downloader
        <5>2. /\ u.mode = x.mode /\ u.off = x.off /\ u.views = x.views /\ u.landed = x.landed
              /\ u.from = x.from /\ u.to = x.to /\ u.active = A
              /\ u.queue = x.queue /\ u.retrying = x.retrying /\ u.asking = x.asking
          BY <1>1 DEF Downloader
        <5>3. gives = v
          BY <2>0
        <5>. HIDE DEF u
        <5>4. v \in Downloader
          BY <5>1 DEF Downloader
        <5>5. /\ v.mode = u.mode /\ v.off = u.off /\ v.views = u.views /\ v.landed = u.landed
              /\ v.from = u.from /\ v.to = u.to /\ v.active = u.active
              /\ v.queue = u.queue /\ v.retrying = u.retrying /\ v.asking = u.asking
          BY <5>1 DEF Downloader
        <5>6. y = [v EXCEPT !.blocked = @ \cup left] \/ y = [v EXCEPT !.lost = @ \cup left]
          <6>. HIDE DEF v
          <6>. QED
            BY <4>1, <5>3
        <5>. HIDE DEF v
        <5>7. /\ y.mode = v.mode /\ y.off = v.off /\ y.views = v.views /\ y.landed = v.landed
              /\ y.from = v.from /\ y.to = v.to /\ y.active = v.active
              /\ y.queue = v.queue /\ y.retrying = v.retrying /\ y.asking = v.asking
          BY <5>4, <5>6 DEF Downloader
        <5>. QED
          BY <5>2, <5>5, <5>7
      <4>4. Leftovers(y) \subseteq Leftovers(x)
        BY <4>2, <4>3 DEF Leftovers
      <4>. QED
        BY <3>3, <4>1, <4>3, <4>4
    <3>. QED
      BY <3>1, <3>2, <3>3
  <2>. QED
    BY <2>1, <2>2
<1>4. SameRows(x, y)
  <2>. HIDE DEF x, y
  <2>. QED
    BY <1>3 DEF SameRows
<1>5. \A e \in Entries, o \in Runs : GetOf(turns', e, o) => GetOf(turns, e, o)
  <2>1. CASE turns' = turns
    BY <2>1
  <2>2. CASE turns' = TurnsStopped(r, x) /\ y.active = A
    <3>1. \A o \in Runs \ {r} : d'[o] = d[o]
      BY <1>1, <1>3
    <3>. HIDE DEF y
    <3>2. d'[r].active = {e \in d[r].active : AtWork(r, e)}
      BY <2>2 DEF y
    <3>. QED
      BY <1>1, <2>2, <3>1, <3>2, StoppedTurnsFit
  <2>. QED
    BY <1>3, <2>1, <2>2
<1>. HIDE DEF y
<1>. QED
  BY <1>2, <1>3, <1>4, <1>5, RowsMove DEF x

\* The end of a transfer that lands nothing.
LEMMA EndedRows ==
    ASSUME TransferInv, RowsInv, NEW r \in Runs, NEW e \in Entries, AtWork(r, e),
           NEW z \in Downloader, SameCourse(d[r], z), z.landed = d[r].landed,
           z.active = d[r].active \ {e}, Leftovers(z) \subseteq Leftovers(d[r]),
           NEW t, t = TurnOver(e) \/ t = Discarding(TurnOver(e), r, e),
           Pumped(r, z, t), UNCHANGED <<scene, file, rows>>
    PROVE  RowsInv'
<1>. DEFINE de == [d EXCEPT ![r] = z]
<1>1. /\ TurnsFit(de, TurnOver(e))
      /\ \A f \in Entries, o \in Runs : GetOf(TurnOver(e), f, o) => GetOf(turns, f, o)
  BY TurnPasses DEF SameCourse
<1>. HIDE DEF de
<1>2. /\ TurnsFit(de, Discarding(TurnOver(e), r, e))
      /\ \A f \in Entries, o \in Runs :
           GetOf(Discarding(TurnOver(e), r, e), f, o) => GetOf(TurnOver(e), f, o)
  BY <1>1, RemovalFits
<1>3. /\ t \in [Entries -> Seq(Turn)]
      /\ \A f \in Entries, o \in Runs : GetOf(t, f, o) => GetOf(turns, f, o)
  <2>1. CASE t = TurnOver(e)
    BY <1>1, <2>1 DEF TurnsFit
  <2>2. CASE t = Discarding(TurnOver(e), r, e)
    BY <1>1, <1>2, <2>2 DEF TurnsFit
  <2>. QED
    BY <2>1, <2>2
<1>4. d[r].mode # "off" /\ (z.off => z.stopped)
  BY AtWorkHasSlot, Here DEF Phases, SameCourse
<1>5. SameRows(d[r], z)
  BY CourseSameRows
<1>. QED
  BY <1>3, <1>4, <1>5, RowsPumped

LEMMA TransferRows ==
    ASSUME TransferInv, RowsInv, NEW r \in Runs, NEW e \in Entries,
           Fetch(r, e) \/ Abort(r, e) \/ FailTransient(r, e) \/ FailGone(r, e) \/ FailSink(r, e)
    PROVE  RowsInv'
<1>. DEFINE x == d[r]
            w == Ended(x, e)
<1>1. /\ d \in [Runs -> Downloader] /\ x \in Downloader /\ Apart(x)
      /\ turns \in [Entries -> Seq(Turn)]
  BY Here DEF Handles, TurnsFit
<1>2. UNCHANGED <<scene, file, rows>> /\ AtWork(r, e)
  BY DEF Fetch, Abort, FailTransient, FailGone, FailSink
<1>3. e \in x.active
  BY <1>2, AtWorkHasSlot
<1>4. /\ w \in Downloader /\ SameCourse(x, w) /\ w.active = x.active \ {e}
      /\ Leftovers(w) = Leftovers(x) \ {e} /\ w.landed = x.landed
  <2>. HIDE DEF x, w
  <2>. QED
    BY <1>1, <1>3, EndedCourse DEF w
<1>5. e \in Leftovers(x)
  BY <1>3 DEF Leftovers
<1>6. CASE Fetch(r, e)
  <2>. DEFINE y == [x EXCEPT !.idle = 0]
  <2>1. d' = [d EXCEPT ![r] = y] /\ turns' = turns
    BY <1>1, <1>6 DEF Fetch
  <2>2. SameRows(x, y)
    <3>. HIDE DEF x
    <3>. QED
      BY <1>1 DEF SameRows, Leftovers, Downloader
  <2>. HIDE DEF y
  <2>. QED
    BY <1>2, <2>1, <2>2, RowsMove
<1>7. CASE Abort(r, e)
  <2>1. d' = [d EXCEPT ![r] = w] /\ turns' = TurnOver(e)
    BY <1>1, <1>7 DEF Abort
  <2>. HIDE DEF w
  <2>2. \A f \in Entries, o \in Runs : GetOf(turns', f, o) => GetOf(turns, f, o)
    BY <1>2, <1>4, <2>1, TurnPasses DEF SameCourse
  <2>3. SameRows(x, w)
    BY <1>4, CourseSameRows
  <2>. QED
    BY <1>2, <2>1, <2>2, <2>3, RowsMove
<1>8. CASE FailTransient(r, e)
  <2>. DEFINE z == Charged(w, e)
              t == ChargedTurns(TurnOver(e), r, e)
  <2>1. Pumped(r, z, t)
    BY <1>8 DEF FailTransient
  <2>2. t = TurnOver(e) \/ t = Discarding(TurnOver(e), r, e)
    BY DEF ChargedTurns
  <2>. HIDE DEF w
  <2>3. z \in Downloader
    BY <1>4, ChargedIn
  <2>4. /\ SameCourse(w, z) /\ z.active = w.active /\ z.landed = w.landed
        /\ Leftovers(z) \subseteq Leftovers(w) \cup {e}
    BY <1>4, ChargedCourse
  <2>. HIDE DEF z, t
  <2>5. /\ SameCourse(x, z) /\ z.landed = x.landed /\ z.active = x.active \ {e}
        /\ Leftovers(z) \subseteq Leftovers(x)
    BY <1>4, <1>5, <2>4 DEF SameCourse
  <2>. QED
    BY <1>2, <2>1, <2>2, <2>3, <2>5, EndedRows
<1>9. CASE FailGone(r, e)
  <2>. DEFINE m == IF IsFrame(e) THEN w.lost \cup {e} ELSE w.lost
              z == [w EXCEPT !.lost = m]
  <2>1. Pumped(r, [w EXCEPT !.lost = IF IsFrame(e) THEN @ \cup {e} ELSE @], TurnOver(e))
    BY <1>9 DEF FailGone
  <2>. HIDE DEF w
  <2>2. [w EXCEPT !.lost = IF IsFrame(e) THEN @ \cup {e} ELSE @] = z
    BY <1>4 DEF Downloader
  <2>3. m \in SUBSET Entries
    BY <1>4 DEF Downloader
  <2>. HIDE DEF m
  <2>4. z \in Downloader
    BY <1>4, <2>3 DEF Downloader
  <2>5. SameCourse(w, z) /\ z.active = w.active /\ z.landed = w.landed /\ Leftovers(z) = Leftovers(w)
    BY <1>4 DEF Downloader, SameCourse, Leftovers
  <2>6. Pumped(r, z, TurnOver(e))
    <3>. HIDE DEF z
    <3>. QED
      BY <2>1, <2>2
  <2>. HIDE DEF z
  <2>7. /\ SameCourse(x, z) /\ z.landed = x.landed /\ z.active = x.active \ {e}
        /\ Leftovers(z) \subseteq Leftovers(x)
    BY <1>4, <2>5 DEF SameCourse
  <2>. QED
    BY <1>2, <2>4, <2>6, <2>7, EndedRows
<1>10. CASE FailSink(r, e)
  <2>. DEFINE z == IF trouble THEN [w EXCEPT !.queue = @ \cup {e}] ELSE [w EXCEPT !.asking = @ \cup {e}]
  <2>1. Pumped(r, z, TurnOver(e))
    BY <1>10 DEF FailSink
  <2>. HIDE DEF w
  <2>2. z \in Downloader
    BY <1>4 DEF Downloader
  <2>3. /\ SameCourse(w, z) /\ z.active = w.active /\ z.landed = w.landed
        /\ Leftovers(z) = Leftovers(w) \cup {e}
    BY <1>4, HandedCourse
  <2>. HIDE DEF z
  <2>4. /\ SameCourse(x, z) /\ z.landed = x.landed /\ z.active = x.active \ {e}
        /\ Leftovers(z) \subseteq Leftovers(x)
    BY <1>4, <1>5, <2>3 DEF SameCourse
  <2>. QED
    BY <1>2, <2>1, <2>2, <2>4, EndedRows
<1>. QED
  BY <1>6, <1>7, <1>8, <1>9, <1>10

LEMMA ReturnedRows ==
    ASSUME TransferInv, RowsInv, NEW r \in Runs, NEW e \in Entries, SinkAnswers(r, e) \/ RetryFires(r, e)
    PROVE  RowsInv'
<1>. DEFINE x == d[r]
            a == [x EXCEPT !.asking = @ \ {e}]
            b == [x EXCEPT !.retrying = @ \ {e}]
<1>1. /\ d \in [Runs -> Downloader] /\ x \in Downloader /\ Apart(x) /\ Phases(x)
      /\ TurnsFit(d, turns) /\ turns \in [Entries -> Seq(Turn)]
  BY Here DEF Handles, TurnsFit
<1>2. UNCHANGED <<scene, file, rows>>
  BY DEF SinkAnswers, RetryFires
<1>3. PICK w : TakenBack(x, w, e) /\
        \/ /\ \/ d' = [d EXCEPT ![r] = w]
              \/ d' = [d EXCEPT ![r] = Charged(w, e)]
              \/ d' = [d EXCEPT ![r] = [w EXCEPT !.queue = @ \cup {e}]]
              \/ d' = [d EXCEPT ![r] = [w EXCEPT !.lost = IF IsFrame(e) THEN @ \cup {e} ELSE @]]
           /\ turns' = turns \/ turns' = Discarding(turns, r, e)
        \/ Pumped(r, [w EXCEPT !.queue = @ \cup {e}], turns)
  <2>1. CASE SinkAnswers(r, e)
    <3>1. TakenBack(x, a, e)
      BY <1>1, <2>1 DEF SinkAnswers, TakenBack, Downloader
    <3>2. /\ \/ d' = [d EXCEPT ![r] = a]
             \/ d' = [d EXCEPT ![r] = Charged(a, e)]
             \/ d' = [d EXCEPT ![r] = [a EXCEPT !.queue = @ \cup {e}]]
          /\ turns' = turns \/ turns' = Discarding(turns, r, e)
      <4>. HIDE DEF a
      <4>1. a = [d[r] EXCEPT !.asking = @ \ {e}]
        BY DEF a
      <4>. QED
        BY <2>1, <4>1 DEF SinkAnswers, ChargedTurns
    <3>. HIDE DEF a, x
    <3>. QED
      BY <3>1, <3>2
  <2>2. CASE RetryFires(r, e)
    <3>1. TakenBack(x, b, e)
      BY <1>1, <2>2 DEF RetryFires, TakenBack, Downloader
    <3>2. \/ /\ d' = [d EXCEPT ![r] = [b EXCEPT !.lost = IF IsFrame(e) THEN @ \cup {e} ELSE @]]
             /\ turns' = turns
          \/ Pumped(r, [b EXCEPT !.queue = @ \cup {e}], turns)
      <4>. HIDE DEF b
      <4>1. b = [d[r] EXCEPT !.retrying = @ \ {e}]
        BY DEF b
      <4>. QED
        BY <2>2, <4>1 DEF RetryFires
    <3>. HIDE DEF b, x
    <3>. QED
      BY <3>1, <3>2
  <2>. QED
    BY <2>1, <2>2
<1>4. /\ w \in Downloader /\ SameCourse(x, w) /\ Leftovers(w) = Leftovers(x) \ {e}
      /\ w.landed = x.landed
  <2>. HIDE DEF x
  <2>. QED
    BY <1>1, <1>3, TakenBackCourse
<1>5. e \in Leftovers(x) /\ x.mode # "off"
  <2>1. e \in Leftovers(x)
    BY <1>3 DEF Leftovers, TakenBack
  <2>2. Leftovers(x) # {}
    BY <2>1
  <2>. QED
    BY <1>1, <2>1, <2>2 DEF Phases, Idle, Leftovers
<1>6. ASSUME NEW z, \/ z = w \/ z = Charged(w, e) \/ z = [w EXCEPT !.queue = @ \cup {e}]
                    \/ z = [w EXCEPT !.lost = IF IsFrame(e) THEN @ \cup {e} ELSE @]
      PROVE  /\ SameRows(x, z) /\ (z.off => z.stopped) /\ z.off = x.off /\ z.mode = x.mode
  <2>1. SameCourse(w, z) /\ z.landed = w.landed /\ Leftovers(z) \subseteq Leftovers(w) \cup {e}
    <3>1. CASE z = w
      BY <3>1 DEF SameCourse
    <3>2. CASE z = Charged(w, e)
      BY <1>4, <3>2, ChargedCourse
    <3>3. CASE z = [w EXCEPT !.queue = @ \cup {e}]
      BY <1>4, <3>3, HandedCourse
    <3>4. CASE z = [w EXCEPT !.lost = IF IsFrame(e) THEN @ \cup {e} ELSE @]
      <4>. DEFINE m == IF IsFrame(e) THEN w.lost \cup {e} ELSE w.lost
      <4>1. z = [w EXCEPT !.lost = m]
        BY <1>4, <3>4 DEF Downloader
      <4>. HIDE DEF m
      <4>. QED
        BY <1>4, <4>1 DEF SameCourse, Leftovers, Downloader
    <3>. QED
      BY <1>6, <3>1, <3>2, <3>3, <3>4
  <2>2. SameCourse(x, z) /\ z.landed = x.landed /\ Leftovers(z) \subseteq Leftovers(x)
    BY <1>4, <1>5, <2>1 DEF SameCourse
  <2>3. SameRows(x, z)
    BY <2>2, CourseSameRows
  <2>. QED
    BY <1>1, <2>2, <2>3 DEF SameCourse, Phases
<1>7. \A f \in Entries, o \in Runs : GetOf(Discarding(turns, r, e), f, o) => GetOf(turns, f, o)
  BY <1>1, RemovalFits
<1>8. CASE Pumped(r, [w EXCEPT !.queue = @ \cup {e}], turns)
  <2>. DEFINE z == [w EXCEPT !.queue = @ \cup {e}]
  <2>1. z \in Downloader
    BY <1>4 DEF Downloader
  <2>2. SameRows(x, z) /\ (z.off => z.stopped)
    BY <1>6
  <2>. HIDE DEF z
  <2>3. Pumped(r, z, turns)
    BY <1>8 DEF z
  <2>. QED
    BY <1>1, <1>2, <1>5, <2>1, <2>2, <2>3, RowsPumped
<1>9. CASE /\ \/ d' = [d EXCEPT ![r] = w]
              \/ d' = [d EXCEPT ![r] = Charged(w, e)]
              \/ d' = [d EXCEPT ![r] = [w EXCEPT !.queue = @ \cup {e}]]
              \/ d' = [d EXCEPT ![r] = [w EXCEPT !.lost = IF IsFrame(e) THEN @ \cup {e} ELSE @]]
           /\ turns' = turns \/ turns' = Discarding(turns, r, e)
  <2>1. PICK z : /\ d' = [d EXCEPT ![r] = z]
                 /\ \/ z = w \/ z = Charged(w, e) \/ z = [w EXCEPT !.queue = @ \cup {e}]
                    \/ z = [w EXCEPT !.lost = IF IsFrame(e) THEN @ \cup {e} ELSE @]
    BY <1>9
  <2>2. SameRows(x, z)
    BY <1>6, <2>1
  <2>3. \A f \in Entries, o \in Runs : GetOf(turns', f, o) => GetOf(turns, f, o)
    BY <1>7, <1>9
  <2>. QED
    BY <1>2, <2>1, <2>2, <2>3, RowsMove
<1>. QED
  BY <1>3, <1>8, <1>9

\* The node, the disk, a partial's removal and the probe leave rows and files alone.
LEMMA OtherRows ==
    ASSUME TransferInv, RowsInv,
           \/ \E r \in Runs, e \in Entries : NodeLists(r, e)
           \/ DiskTurns \/ (\E e \in Entries : Discard(e)) \/ UNCHANGED vars
    PROVE  RowsInv'
<1>1. UNCHANGED <<scene, file, rows, d>>
  BY DEF NodeLists, DiskTurns, Discard, vars, shared
<1>2. turns' = turns \/ \E e \in Entries : Discard(e)
  BY DEF NodeLists, DiskTurns, vars, shared
<1>3. \A e \in Entries, o \in Runs : GetOf(turns', e, o) => GetOf(turns, e, o)
  <2>1. ASSUME NEW e \in Entries, Discard(e)
        PROVE  \A f \in Entries, o \in Runs : GetOf(turns', f, o) => GetOf(turns, f, o)
    <3>1. turns[e] # <<>> /\ turns[e][1].op = "rm" /\ turns' = TurnOver(e) /\ TurnsFit(d, turns)
      BY <2>1 DEF Discard, TransferInv, BaseInv
    <3>2. \A o \in Runs : \A f \in d[o].active : f \in d[o].active
      OBVIOUS
    <3>. QED
      BY <3>1, <3>2, TurnOverFits
  <2>. QED
    BY <1>2, <2>1
<1>4. \A o \in Runs : SameRows(d[o], d'[o])
  BY <1>1 DEF SameRows
<1>5. scene.entries \subseteq Entries
  BY DEF TransferInv, BaseInv, Entries
<1>. QED
  BY <1>1, <1>3, <1>4, <1>5, RowsStay

LEMMA ProbeRows ==
    ASSUME TransferInv, RowsInv, Probe
    PROVE  RowsInv'
<1>1. PICK S \in [Runs -> UNION {Startable(d[r], ~Active(d[r])) : r \in Runs}] :
        /\ \A r \in Runs : S[r] \in Startable(d[r], ~Active(d[r]))
        /\ d' = [r \in Runs |-> Started(d[r], S[r])]
        /\ turns' = Woken(S)
  BY DEF Probe, Woken
<1>2. UNCHANGED <<scene, file, rows>>
  BY DEF Probe
<1>3. TurnsFit(d, turns) /\ d \in [Runs -> Downloader] /\ scene.entries \subseteq Entries
  BY DEF TransferInv, BaseInv, DownloadersFit, Entries
<1>4. ASSUME NEW r \in Runs
      PROVE  /\ SameRows(d[r], Started(d[r], S[r])) /\ (d[r].stopped => S[r] = {})
             /\ Started(d[r], S[r]).stopped = d[r].stopped
             /\ Started(d[r], S[r]).active = d[r].active \cup S[r]
             /\ S[r] \subseteq Entries /\ S[r] \cap d[r].active = {}
             /\ S[r] # {} => /\ ~Started(d[r], S[r]).off /\ Started(d[r], S[r]).mode # "off"
                             /\ S[r] \subseteq Leftovers(Started(d[r], S[r]))
  <2>. DEFINE x == d[r]
              p == ~Active(x)
              Q == S[r]
  <2>1. /\ x \in Downloader /\ Phases(x)
        /\ x.queue \cap x.active = {} /\ Cardinality(x.active) <= MaxTransfers
    BY Here DEF Handles, Apart
  <2>2. p \in BOOLEAN /\ Q \in Startable(x, p) /\ (x.stopped \/ x.mode = "off" => p)
    BY <1>1 DEF Active
  <2>. HIDE DEF x, p, Q
  <2>3. Q \subseteq x.queue /\ (x.stopped \/ p => Q = {})
    BY <2>1, <2>2, PumpFills
  <2>. DEFINE y == Started(x, Q)
  <2>4. /\ Leftovers(y) = Leftovers(x) /\ y.stopped = x.stopped /\ y.mode = x.mode /\ y.off = x.off
        /\ y.from = x.from /\ y.to = x.to /\ y.landed = x.landed /\ y.views = x.views
        /\ y.active = x.active \cup Q
    BY <2>1, <2>3, StartedKeeps
  <2>. HIDE DEF y
  <2>5. SameRows(x, y)
    BY <2>4 DEF SameRows
  <2>6. Q \subseteq Entries /\ Q \cap x.active = {} /\ Q \subseteq Leftovers(y)
    BY <2>1, <2>3, <2>4 DEF Downloader, Leftovers
  <2>7. Q # {} => ~y.off /\ y.mode # "off"
    BY <2>1, <2>2, <2>3, <2>4 DEF Phases
  <2>. QED
    BY <2>3, <2>4, <2>5, <2>6, <2>7 DEF x, Q, y
<1>5. \A r \in Runs : d'[r] = Started(d[r], S[r])
  BY <1>1
<1>6. \A e \in Entries, o \in Runs : GetOf(turns', e, o) => GetOf(turns, e, o) \/ e \in S[o]
  <2>1. \A o \in Runs : /\ S[o] \subseteq Entries /\ S[o] \cap d[o].active = {}
                        /\ d[o].active \cup S[o] \subseteq d'[o].active
                        /\ d'[o].stopped => d[o].stopped /\ S[o] = {}
    BY <1>4, <1>5
  <2>. QED
    BY <1>1, <1>3, <2>1, WokenFit
<1>7. \A o \in Runs : SameRows(d[o], d'[o])
  BY <1>4, <1>5
<1>8. \A e \in Entries, o \in Runs : GetOf(turns', e, o) =>
        \/ GetOf(turns, e, o)
        \/ e \in Leftovers(d'[o]) /\ ~d'[o].off /\ d'[o].mode # "off"
  BY <1>4, <1>5, <1>6
<1>. QED
  BY <1>2, <1>3, <1>7, <1>8, RowsStay

\* A file is named by its kind, its number and its view.
LEMMA SameFile ==
    ASSUME NEW e \in Entries, NEW f \in Entries, IsFrame(e), IsFrame(f), e.num = f.num, e.view = f.view
    PROVE  e = f
<1>1. e \in [kind : Kinds, num : Nat, view : STRING] /\ f \in [kind : Kinds, num : Nat, view : STRING]
  BY TransferAssumption DEF TransferAssumption
<1>. QED
  BY <1>1 DEF IsFrame

\* Only one run at a time is not yet stopped.
LEMMA AloneAtWork ==
    ASSUME TransferInv, RowsInv, NEW r \in Runs, NEW o \in Runs, d[r].mode # "off", d[o].mode # "off",
           ~d[r].stopped, ~d[o].off
    PROVE  o = r
<1>1. ~d[r].off
  BY Here DEF Phases
<1>2. r \in Nat /\ o \in Nat
  BY TransferAssumption DEF TransferAssumption
<1>3. ~(o < r) /\ ~(r < o)
  BY <1>1 DEF RowsInv, OneAtATime
<1>. QED
  BY <1>2, <1>3

LEMMA LandRows ==
    ASSUME SavedOneWay, TransferInv, RowsInv, NEW r \in Runs, NEW e \in Entries, Land(r, e)
    PROVE  RowsInv'
<1>. DEFINE x == d[r]
            w == Ended(x, e)
            since == x.heldOnce
            all == IF x.stopped THEN x.landed ELSE x.landed \cup {e}
            z == [w EXCEPT !.idle = 0, !.landedSince = since, !.landed = all]
<1>1. /\ d \in [Runs -> Downloader] /\ x \in Downloader /\ Apart(x) /\ Phases(x) /\ scene \in Scenes
      /\ turns \in [Entries -> Seq(Turn)] /\ TurnsFit(d, turns)
      /\ rows \in [Frames -> Runs \cup {0}] /\ scene.entries \subseteq Entries
      /\ Leftovers(x) \subseteq scene.entries
  BY Here DEF Handles, TurnsFit
<1>2. AtWork(r, e)
  BY DEF Land
<1>3. e \in x.active /\ e \in Leftovers(x) /\ x.mode # "off" /\ e \in scene.entries /\ GetOf(turns, e, r)
  <2>1. e \in x.active /\ x.mode # "off" /\ e \in scene.entries
        /\ turns[e] # <<>> /\ turns[e][1] = [run |-> r, op |-> "get"]
    BY <1>2, AtWorkHasSlot
  <2>2. turns[e] \in Seq(Turn)
    BY <1>1
  <2>3. 1 \in DOMAIN turns[e]
    BY <2>1, <2>2
  <2>. QED
    BY <2>1, <2>3 DEF Leftovers, GetOf
<1>4. /\ w \in Downloader /\ SameCourse(x, w) /\ w.active = x.active \ {e}
      /\ Leftovers(w) = Leftovers(x) \ {e}
  <2>. HIDE DEF x, w
  <2>. QED
    BY <1>1, <1>3, EndedCourse DEF w
<1>5. Pumped(r, z, TurnOver(e))
  <2>1. Pumped(r, [Ended(x, e) EXCEPT !.idle = 0, !.landedSince = x.heldOnce,
                                      !.landed = IF x.stopped THEN @ ELSE @ \cup {e}], TurnOver(e))
    BY DEF Land
  <2>2. [Ended(x, e) EXCEPT !.idle = 0, !.landedSince = x.heldOnce,
                            !.landed = IF x.stopped THEN @ ELSE @ \cup {e}] = z
    <3>1. w.landed = x.landed
      <4>. HIDE DEF x, w
      <4>. QED
        BY <1>1, <1>3, EndedCourse DEF w
    <3>. HIDE DEF x, w
    <3>2. [w EXCEPT !.idle = 0, !.landedSince = x.heldOnce,
                    !.landed = IF x.stopped THEN @ ELSE @ \cup {e}] = z
      BY <1>4, <3>1 DEF Downloader
    <3>. QED
      BY <3>2 DEF w
  <2>. HIDE DEF z, x
  <2>. QED
    BY <2>1, <2>2
<1>6. since \in BOOLEAN /\ all \in SUBSET Entries
  BY <1>1 DEF Downloader
<1>7. \A f \in all : f \in x.landed \/ (f = e /\ ~x.stopped)
  OBVIOUS
<1>8. /\ scene' = scene
      /\ \A f \in Entries : IsFrame(f) => file'[f] = IF f = e THEN Content[r] ELSE file[f]
      /\ rows' = IF ~x.stopped /\ IsFrame(e) /\ e.view = "" THEN [rows EXCEPT ![e.num] = r] ELSE rows
  <2>. DEFINE final == \E c \in clips : c[2].kind = "clip"
              dead == {c \in clips : c[2].kind = "live"}
              dropped == IF e.kind = "live" /\ final THEN {<<r, e>>}
                         ELSE IF e.kind \in {"live", "clip"} THEN dead \ {<<r, e>>} ELSE {}
  <2>1. /\ scene' = scene
        /\ file' = [f \in Entries |->
                     IF ~x.stopped /\ \E c \in dropped : c[2] = f THEN 0
                     ELSE IF f = e THEN Content[r] ELSE file[f]]
        /\ rows' = IF ~x.stopped /\ IsFrame(e) /\ e.view = "" THEN [rows EXCEPT ![e.num] = r] ELSE rows
    BY DEF Land, Mine
  <2>2. \A c \in dropped : c[2].kind = "live"
    <3>1. <<r, e>>[2] = e
      OBVIOUS
    <3>. QED
      BY <3>1
  <2>. HIDE DEF dropped, x
  <2>. QED
    BY <2>1, <2>2 DEF IsFrame
<1>. HIDE DEF w, x, since, all
<1>9. /\ z \in Downloader /\ SameCourse(w, z) /\ z.landed = all /\ Leftovers(z) = Leftovers(w)
      /\ z.active = w.active /\ z.queue \subseteq Leftovers(z)
  <2>1. z \in Downloader
    BY <1>4, <1>6 DEF Downloader
  <2>. QED
    BY <1>4, <2>1 DEF SameCourse, Leftovers, Downloader
<1>. HIDE DEF z
<1>10. SameCourse(x, z) /\ z.active = x.active \ {e}
  BY <1>4, <1>9 DEF SameCourse
<1>11. /\ TurnOver(e) \in [Entries -> Seq(Turn)]
       /\ \A f \in Entries, o \in Runs :
                /\ GetOf(TurnOver(e), f, o) => GetOf(turns, f, o)
                /\ GetOf(TurnOver(e), e, o) => ~d[o].stopped /\ o # r
  <2>. DEFINE de == [d EXCEPT ![r] = z]
  <2>1. /\ TurnsFit(de, TurnOver(e))
        /\ \A f \in Entries, o \in Runs :
                /\ GetOf(TurnOver(e), f, o) => GetOf(turns, f, o)
                /\ GetOf(TurnOver(e), e, o) => ~d[o].stopped /\ o # r
    BY <1>2, <1>10, TurnPasses DEF SameCourse, x
  <2>. HIDE DEF de
  <2>. QED
    BY <2>1 DEF TurnsFit
<1>12. PICK S \in SUBSET z.queue :
             /\ d' = [d EXCEPT ![r] = Started(z, S)]
             /\ z.stopped => S = {}
             /\ \A f \in Entries, o \in Runs :
                  GetOf(turns', f, o) => GetOf(TurnOver(e), f, o) \/ (o = r /\ f \in S)
  BY <1>5, <1>9, <1>11, PumpGets
<1>. DEFINE y == Started(z, S)
<1>13. /\ Leftovers(y) = Leftovers(x) \ {e} /\ y.off = x.off /\ y.mode = x.mode /\ y.stopped = x.stopped
       /\ y.from = x.from /\ y.to = x.to /\ y.landed = all /\ y.views = x.views
  <2>1. /\ Leftovers(y) = Leftovers(z) /\ y.off = z.off /\ y.mode = z.mode /\ y.stopped = z.stopped
        /\ y.from = z.from /\ y.to = z.to /\ y.landed = z.landed /\ y.views = z.views
    BY <1>9, StartedKeeps
  <2>. HIDE DEF y
  <2>. QED
    BY <1>4, <1>9, <1>10, <2>1 DEF SameCourse
<1>14. S \subseteq Leftovers(x) /\ (S # {} => ~x.stopped)
  BY <1>4, <1>9, <1>10, <1>12 DEF SameCourse
<1>15. \A o \in Runs : d'[o] = IF o = r THEN y ELSE d[o]
  BY <1>1, <1>12
<1>. HIDE DEF y
<1>16. SceneViews' = SceneViews /\ OneFile' = OneFile
  BY <1>8 DEF SceneViews, OneFile
<1>17. OneAtATime' /\ ViewsListed'
  BY <1>13, <1>15, <1>16 DEF RowsInv, OneAtATime, ViewsListed, x
<1>18. \A o \in Runs : ~x.stopped /\ d[o].mode # "off" /\ ~d[o].off => o = r
  BY <1>3, AloneAtWork DEF x
<1>19. x.off => x.stopped
  BY <1>1 DEF Phases
<1>20. \A f \in Entries : GetOf(turns, f, r) => f \in x.active
  BY <1>1 DEF TurnsFit, GetOf, x
<1>21. ASSUME OneFile
       PROVE  OwnFrames' /\ RowsOfOneFile'
  <2>1. OwnFrames /\ RowsOfOneFile
    BY <1>21 DEF RowsInv
  <2>2. ASSUME NEW o \in Runs, d'[o].mode # "off", ~d'[o].off
        PROVE  /\ \A f \in Leftovers(d'[o]) : IsFrame(f) => IsOurFrame(d'[o], f)
               /\ \A f \in Frames : d'[o].from <= f /\ f <= d'[o].to => rows'[f] \in {0, o}
    <3>1. /\ d[o].mode # "off" /\ ~d[o].off /\ d'[o].from = d[o].from /\ d'[o].to = d[o].to
          /\ Leftovers(d'[o]) \subseteq Leftovers(d[o])
      BY <1>13, <1>15, <2>2 DEF x
    <3>2. \A f : IsOurFrame(d'[o], f) = IsOurFrame(d[o], f)
      BY <3>1 DEF IsOurFrame
    <3>3. \A f \in Frames : rows'[f] = rows[f] \/ (rows'[f] = r /\ ~x.stopped)
      BY <1>1, <1>8
    <3>4. \A f \in Frames : rows'[f] = rows[f] \/ rows'[f] = o
      BY <1>18, <3>1, <3>3
    <3>. QED
      BY <2>1, <3>1, <3>2, <3>4 DEF OwnFrames
  <2>3. OwnFrames'
    BY <2>2 DEF OwnFrames
  <2>4. ASSUME NEW f \in Frames, rows'[f] # 0, NEW g \in scene.entries, IsFrame(g), g.num = f
        PROVE  file'[g] = Content[rows'[f]] /\ \A o \in Runs : GetOf(turns', g, o) => o = rows'[f]
    <3>1. g \in Entries /\ g.view = ""
      BY <1>1, <1>21, <2>4 DEF OneFile, SceneViews
    <3>2. CASE g = e
      <4>1. rows'[f] = IF x.stopped THEN rows[f] ELSE r
        BY <1>1, <1>8, <2>4, <3>1, <3>2
      <4>2. x.stopped => rows[f] = r
        BY <1>3, <2>1, <2>4, <3>2, <4>1 DEF RowsOfOneFile
      <4>3. rows'[f] = r /\ file'[g] = Content[r]
        BY <1>8, <2>4, <3>1, <3>2, <4>1, <4>2
      <4>4. ASSUME NEW o \in Runs, GetOf(turns', g, o)
            PROVE  o = r
        <5>1. CASE GetOf(TurnOver(e), e, o)
          <6>1. GetOf(turns, e, o) /\ ~d[o].stopped
            BY <1>11, <5>1
          <6>2. CASE x.stopped
            <7>1. rows[f] = r /\ rows[f] # 0
              BY <2>4, <4>1, <4>2, <6>2
            <7>. QED
              BY <1>3, <2>1, <2>4, <3>2, <6>1, <7>1 DEF RowsOfOneFile
          <6>3. CASE ~x.stopped
            <7>1. e \in d[o].active
              BY <1>1, <6>1 DEF TurnsFit, GetOf
            <7>2. d[o].mode # "off" /\ ~d[o].off
              BY <6>1, <7>1, Here DEF Phases, Idle
            <7>. QED
              BY <1>18, <6>3, <7>2
          <6>. QED
            BY <6>2, <6>3
        <5>. QED
          BY <1>12, <3>1, <3>2, <4>4, <5>1
      <4>. QED
        BY <4>3, <4>4
    <3>3. CASE g # e
      <4>1. rows'[f] = rows[f]
        <5>1. CASE ~x.stopped /\ IsFrame(e) /\ e.view = ""
          <6>1. e.num # f
            BY <2>4, <3>1, <3>3, <5>1, SameFile
          <6>. QED
            BY <1>1, <1>8, <6>1
        <5>2. CASE ~(~x.stopped /\ IsFrame(e) /\ e.view = "")
          BY <1>8, <5>2
        <5>. QED
          BY <5>1, <5>2
      <4>2. file[g] = Content[rows[f]] /\ \A o \in Runs : GetOf(turns, g, o) => o = rows[f]
        BY <2>1, <2>4, <4>1 DEF RowsOfOneFile
      <4>3. file'[g] = file[g]
        BY <1>8, <2>4, <3>1, <3>3
      <4>4. ASSUME g \in S
            PROVE  rows[f] = r
        <5>1. g \in Leftovers(x) /\ ~x.off
          BY <1>14, <1>19, <4>4
        <5>2. IsOurFrame(x, g)
          BY <1>3, <2>1, <2>4, <5>1 DEF OwnFrames, x
        <5>3. x.from <= f /\ f <= x.to
          BY <2>4, <5>2 DEF IsOurFrame, IsFrame
        <5>. QED
          BY <1>3, <2>1, <2>4, <4>1, <5>1, <5>3 DEF OwnFrames, x
      <4>5. \A o \in Runs : GetOf(turns', g, o) => o = rows[f]
        BY <1>11, <1>12, <3>1, <4>2, <4>4
      <4>. QED
        BY <4>1, <4>2, <4>3, <4>5
    <3>. QED
      BY <3>2, <3>3
  <2>5. RowsOfOneFile'
    BY <1>8, <2>4 DEF RowsOfOneFile
  <2>. QED
    BY <2>3, <2>5
<1>22. ASSUME ~OneFile, scene.tries = 1
       PROVE  SentOnce'
  <2>1. SentOnce
    BY <1>22 DEF RowsInv
  <2>2. r = 1 /\ \A o \in Runs : d[o].mode # "off" => o = 1
    BY <1>3, <2>1 DEF SentOnce, x
  <2>3. "" \notin SceneViews
    BY <1>1, <1>22 DEF SavedOneWay, OneFile, SceneViews
  <2>4. rows' = rows
    BY <1>3, <1>8, <2>3 DEF SceneViews
  <2>5. \A o \in Runs : d'[o].mode # "off" => o = 1
    BY <1>13, <1>15, <2>2 DEF x
  <2>6. ASSUME NEW o \in Runs, NEW f \in d'[o].landed, IsFrame(f)
        PROVE  file'[f] = Content[o]
    <3>1. f \in Entries /\ (f \in d[o].landed \/ (o = r /\ f = e))
      BY <1>1, <1>3, <1>7, <1>13, <1>15, <2>6 DEF Downloader, x
    <3>2. CASE f = e /\ o = r
      BY <1>8, <2>6, <3>1, <3>2
    <3>3. CASE f \in d[o].landed
      <4>1. file[f] = Content[o]
        BY <2>1, <2>6, <3>3 DEF SentOnce
      <4>2. d[o].mode # "off"
        BY <3>3, Here DEF Phases, Idle
      <4>3. o = r
        BY <2>2, <4>2
      <4>. QED
        BY <1>8, <2>6, <3>1, <4>1, <4>3
    <3>. QED
      BY <3>1, <3>2, <3>3
  <2>7. ASSUME NEW f \in Frames, rows[f] # 0
        PROVE  /\ rows[f] = 1
               /\ \A g \in scene.entries : IsFrame(g) /\ g.num = f => file'[g] = Content[1]
    <3>1. /\ rows[f] = 1
          /\ \A g \in scene.entries : IsFrame(g) /\ g.num = f => file[g] = Content[1]
      BY <2>1, <2>7 DEF SentOnce
    <3>. QED
      BY <1>1, <1>8, <2>2, <3>1
  <2>8. \A f \in Frames : rows'[f] # 0 =>
          /\ rows'[f] = 1
          /\ \A g \in scene'.entries : IsFrame(g) /\ g.num = f => file'[g] = Content[1]
    BY <1>8, <2>4, <2>7
  <2>. QED
    BY <2>5, <2>6, <2>8 DEF SentOnce
<1>. QED
  BY <1>8, <1>16, <1>17, <1>21, <1>22 DEF RowsInv

\* A frame saved in views is marked once the pass has them all.
LEMMA ReturnRows ==
    ASSUME SavedOneWay, TransferInv, RowsInv, NEW r \in Runs, DrainReturns(r)
    PROVE  RowsInv'
<1>. DEFINE x == d[r]
            y == [x EXCEPT !.mode = "done", !.idle = 0, !.hold = 0,
                           !.heldOnce = FALSE, !.landedSince = FALSE, !.slept = 0]
            mine == x.readOK /\ (~x.stopped \/ x.gaveUp)
<1>1. /\ d \in [Runs -> Downloader] /\ x \in Downloader /\ scene \in Scenes
      /\ rows \in [Frames -> Runs \cup {0}] /\ scene.entries \subseteq Entries
  BY Here
<1>2. /\ d' = [d EXCEPT ![r] = y] /\ x.mode = "draining"
      /\ UNCHANGED <<scene, node, disk, trouble, file, part, turns, clips>>
  BY <1>1 DEF DrainReturns
<1>3. rows' = [f \in Frames |-> IF mine /\ f \in WholeByViews(x) THEN r ELSE rows[f]]
  BY DEF DrainReturns
<1>4. x.views \subseteq SceneViews /\ "" \notin x.views
  BY <1>1 DEF RowsInv, ViewsListed, Downloader, Views
<1>5. SameRows(x, y) /\ y.mode # "off"
  <2>. HIDE DEF x
  <2>. QED
    BY <1>1, <1>2 DEF SameRows, Leftovers, Downloader
<1>. HIDE DEF x, y, mine
<1>6. CASE rows' = rows
  <2>1. \A f \in Entries, o \in Runs : GetOf(turns', f, o) => GetOf(turns, f, o)
    BY <1>2
  <2>. QED
    BY <1>2, <1>5, <1>6, <2>1, RowsMove DEF x
<1>7. CASE rows' # rows
  <2>1. PICK f0 \in Frames : mine /\ f0 \in WholeByViews(x)
    <3>1. (\A f \in Frames : ~(mine /\ f \in WholeByViews(x))) => rows' = rows
      BY <1>1, <1>3
    <3>. QED
      BY <1>7, <3>1
  <2>2. Cardinality(x.views) >= 2 /\ Cardinality(x.views) \in Nat
    <3>1. IsFiniteSet(SceneViews)
      <4>. DEFINE E == {g \in scene.entries : IsFrame(g)}
                  v == [g \in E |-> g.view]
      <4>1. IsFiniteSet(E)
        <5>1. E \in SUBSET Entries
          BY <1>1
        <5>. QED
          BY <5>1, TransferAssumption, FS_Subset DEF TransferAssumption
      <4>2. v \in Surjection(E, SceneViews)
        BY DEF Surjection, SceneViews
      <4>. HIDE DEF E, v
      <4>. QED
        BY <4>1, <4>2, FS_Surjection
    <3>2. IsFiniteSet(x.views)
      BY <1>4, <3>1, FS_Subset
    <3>3. Cardinality(x.views) \in Nat
      BY <3>2, FS_CardinalityType
    <3>4. ~(Cardinality(x.views) < 2)
      BY <2>1 DEF WholeByViews
    <3>. QED
      BY <3>3, <3>4
  <2>3. x.views # {}
    BY <2>2, FS_EmptySet
  <2>4. ~OneFile
    BY <1>4, <2>3 DEF OneFile
  <2>5. "" \notin SceneViews /\ Cardinality(SceneViews) <= 2
    BY <1>1, <2>4 DEF SavedOneWay, OneFile, SceneViews
  <2>6. x.views = SceneViews
    <3>1. IsFiniteSet(SceneViews)
      <4>. DEFINE E == {g \in scene.entries : IsFrame(g)}
                  v == [g \in E |-> g.view]
      <4>1. IsFiniteSet(E)
        <5>1. E \in SUBSET Entries
          BY <1>1
        <5>. QED
          BY <5>1, TransferAssumption, FS_Subset DEF TransferAssumption
      <4>2. v \in Surjection(E, SceneViews)
        BY DEF Surjection, SceneViews
      <4>. HIDE DEF E, v
      <4>. QED
        BY <4>1, <4>2, FS_Surjection
    <3>2. /\ Cardinality(x.views) <= Cardinality(SceneViews) /\ Cardinality(SceneViews) \in Nat
          /\ Cardinality(x.views) = Cardinality(SceneViews) => x.views = SceneViews
      BY <1>4, <3>1, FS_Subset, FS_CardinalityType
    <3>. DEFINE a == Cardinality(x.views)
                b == Cardinality(SceneViews)
    <3>3. a \in Nat /\ b \in Nat /\ a >= 2 /\ b <= 2 /\ a <= b /\ (a = b => x.views = SceneViews)
      BY <2>2, <2>5, <3>2
    <3>. HIDE DEF a, b
    <3>4. a = b
      BY <3>3
    <3>. QED
      BY <3>3, <3>4
  <2>7. \A o \in Runs : d'[o] = IF o = r THEN y ELSE d[o]
    BY <1>1, <1>2
  <2>8. SceneViews' = SceneViews /\ OneFile' = OneFile
    BY <1>2 DEF SceneViews, OneFile
  <2>9. OneAtATime' /\ ViewsListed'
    BY <1>5, <2>7, <2>8 DEF RowsInv, OneAtATime, ViewsListed, SameRows, x
  <2>10. ASSUME scene.tries = 1
         PROVE  SentOnce'
    <3>1. SentOnce
      BY <2>4, <2>10 DEF RowsInv
    <3>2. r = 1
      BY <1>2, <3>1 DEF SentOnce, x
    <3>3. /\ \A o \in Runs : d'[o].mode # "off" => o = 1
          /\ \A o \in Runs : \A f \in d'[o].landed : IsFrame(f) => file[f] = Content[o]
      BY <1>5, <2>7, <3>1, <3>2 DEF SentOnce, SameRows, x
    <3>4. ASSUME NEW f \in Frames, rows'[f] # 0
          PROVE  /\ rows'[f] = 1
                 /\ \A g \in scene.entries : IsFrame(g) /\ g.num = f => file[g] = Content[1]
      <4>1. CASE rows'[f] = rows[f]
        BY <3>1, <3>4, <4>1 DEF SentOnce
      <4>2. CASE rows'[f] # rows[f]
        <5>1. rows'[f] = r /\ f \in WholeByViews(x)
          BY <1>3, <4>2
        <5>2. ASSUME NEW g \in scene.entries, IsFrame(g), g.num = f
              PROVE  file[g] = Content[1]
          <6>1. g.view \in x.views
            BY <2>6, <5>2 DEF SceneViews
          <6>2. PICK h \in x.landed : IsFrame(h) /\ h.num = f /\ h.view = g.view
            BY <2>2, <5>1, <6>1 DEF WholeByViews
          <6>3. h = g
            BY <1>1, <5>2, <6>2, SameFile DEF Downloader
          <6>. QED
            BY <3>1, <3>2, <6>2, <6>3 DEF SentOnce, x
        <5>. QED
          BY <3>2, <5>1, <5>2
      <4>. QED
        BY <4>1, <4>2
    <3>. QED
      BY <1>2, <3>3, <3>4 DEF SentOnce
  <2>. QED
    BY <1>2, <2>4, <2>8, <2>9, <2>10 DEF RowsInv
<1>. QED
  BY <1>6, <1>7

LEMMA RowsInit == Init => RowsInv
<1>. SUFFICES ASSUME Init PROVE RowsInv
  OBVIOUS
<1>1. \A r \in Runs : d[r] = Idle
  BY DEF Init
<1>2. /\ Idle.mode = "off" /\ Idle.views = {} /\ Idle.landed = {}
  BY DEF Idle
<1>3. \A f \in Frames : rows[f] = 0
  BY DEF Init
<1>. QED
  BY <1>1, <1>2, <1>3 DEF RowsInv, OneAtATime, ViewsListed, OwnFrames, RowsOfOneFile, SentOnce

LEMMA RowsNext ==
    ASSUME SavedOneWay, TransferInv, RowsInv, [Next]_vars
    PROVE  RowsInv'
<1>1. ASSUME NEW r \in Runs, Start(r) \/ PollReads(r) \/ PollAnswers(r) \/ Drain(r) \/ Stop(r)
      PROVE  RowsInv'
  BY <1>1, StartRows, ReadingRows, AnswersRows, StopRows, ReturnRows DEF Drain
<1>2. ASSUME NEW r \in Runs, NEW e \in Entries, NodeLists(r, e) \/ Transfer(r, e)
      PROVE  RowsInv'
  BY <1>2, OtherRows, TransferRows, LandRows, ReturnedRows DEF Transfer
<1>3. CASE (\E e \in Entries : Discard(e)) \/ Probe \/ DiskTurns \/ UNCHANGED vars
  BY <1>3, OtherRows, ProbeRows
<1>. QED
  BY <1>1, <1>2, <1>3 DEF Next

\* A frame marked downloaded is whole on this computer, with the bytes of the very
\* attempt its row names, whatever other attempts go on transferring. The frames are
\* saved as one file each, or in two named views: of three, one whose line the agent
\* had yet to list when the last read was answered is not waited for.
THEOREM RowsAreFiles ==
    ASSUME SavedOneWay
    PROVE  Spec => []RowIsTheFile
<1>1. TransferInv /\ RowsInv /\ [Next]_vars => RowsInv'
  BY RowsNext
<1>2. TransferInv /\ RowsInv => RowIsTheFile
  <2>. SUFFICES ASSUME TransferInv, RowsInv, NEW f \in Frames, rows[f] # 0,
                       NEW e \in scene.entries, IsFrame(e), e.num = f, e.view = "" \/ scene.tries = 1
                PROVE  file[e] = Content[rows[f]]
    BY DEF RowIsTheFile
  <2>1. CASE OneFile
    BY <2>1 DEF RowsInv, RowsOfOneFile
  <2>2. CASE ~OneFile
    <3>1. scene \in Scenes
      BY DEF TransferInv, BaseInv
    <3>2. "" \notin SceneViews
      BY <2>2, <3>1 DEF SavedOneWay, OneFile, SceneViews
    <3>3. scene.tries = 1
      BY <3>2 DEF SceneViews
    <3>. QED
      BY <2>2, <3>3 DEF RowsInv, SentOnce
  <2>. QED
    BY <2>1, <2>2
<1>. QED
  BY <1>1, <1>2, RowsInit, TransferInvariant, PTL DEF Spec
=============================================================================
