--------------------------- MODULE GpuLanes_proofs ---------------------------
(***************************************************************************)
(* Theorems about GpuLanes, for any nodes, cards, queue and scenes, any    *)
(* lane setting and hard cap, and any number of failed dispatches.         *)
(***************************************************************************)
EXTENDS GpuLanes, FiniteSetTheorems, WellFoundedInduction, TLAPS

-----------------------------------------------------------------------------
(***************************************************************************)
(* Finite sets of naturals, and sums over them.                            *)
(***************************************************************************)

\* A non-empty set of naturals has a least member.
LEMMA LeastOfNat ==
    ASSUME NEW T, T \subseteq Nat, T # {}
    PROVE  \E m \in T : \A k \in T : m <= k
<1>1. IsWellFoundedOn(OpToRel(<, Nat), Nat)
  BY NatLessThanWellFounded
<1>2. PICK m \in T : \A k \in T : ~ (<<k, m>> \in OpToRel(<, Nat))
  BY <1>1, WFMin
<1>3. \A k \in T : ~ (k < m)
  BY <1>2 DEF OpToRel
<1>. QED
  BY <1>3

\* Min is a least member.
LEMMA MinIsLeast ==
    ASSUME NEW T, T \subseteq Nat, T # {}
    PROVE  Min(T) \in T /\ \A y \in T : Min(T) <= y
<1>1. \E x \in T : \A y \in T : x <= y
  BY LeastOfNat
<1>. QED
  BY <1>1 DEF Min

\* Max of a finite set is a greatest member.
LEMMA MaxIsGreatest ==
    ASSUME NEW T, T \subseteq Nat, IsFiniteSet(T), T # {}
    PROVE  Max(T) \in T /\ \A y \in T : y <= Max(T)
<1>. DEFINE Tops(U) == {x \in U : \A y \in U : x >= y}
            Bad == {U \in SUBSET T : U # {} /\ Tops(U) = {}}
            Sizes == {Cardinality(U) : U \in Bad}
<1>1. Bad = {}
  <2>. SUFFICES ASSUME Bad # {} PROVE FALSE
    OBVIOUS
  <2>1. \A U \in Bad : IsFiniteSet(U) /\ Cardinality(U) \in Nat
    BY FS_Subset, FS_CardinalityType
  <2>2. PICK m \in Sizes : \A k \in Sizes : m <= k
    <3>1. Sizes \subseteq Nat
      BY <2>1
    <3>2. Sizes # {}
      OBVIOUS
    <3>. QED
      BY <3>1, <3>2, LeastOfNat
  <2>3. PICK U \in Bad : Cardinality(U) = m
    OBVIOUS
  <2>4. PICK x \in U : TRUE
    OBVIOUS
  <2>. DEFINE W == U \ {x}
  <2>5. W \in SUBSET T /\ Cardinality(W) = m - 1 /\ m \in Nat
    BY <2>1, <2>3, <2>4, FS_RemoveElement, FS_CardinalityType
  <2>6. W \notin Bad
    <3>. SUFFICES ASSUME W \in Bad PROVE FALSE
      OBVIOUS
    <3>1. Cardinality(W) \in Sizes
      OBVIOUS
    <3>2. m <= m - 1
      BY <2>2, <2>5, <3>1
    <3>. QED
      BY <2>5, <3>2
  <2>7. CASE W = {}
    <3>1. x \in Tops(U)
      BY <2>4, <2>7
    <3>. QED
      BY <3>1
  <2>8. CASE W # {}
    <3>1. PICK y \in W : \A z \in W : y >= z
      BY <2>5, <2>6, <2>8
    <3>2. x \in Nat /\ y \in Nat /\ W \subseteq Nat
      BY <2>4, <2>5
    <3>3. x \in Tops(U) \/ y \in Tops(U)
      BY <3>1, <3>2, <2>4
    <3>. QED
      BY <3>3
  <2>. QED
    BY <2>7, <2>8
<1>2. Tops(T) # {}
  BY <1>1
<1>3. PICK x \in T : \A y \in T : x >= y
  BY <1>2
<1>4. Max(T) \in T /\ \A y \in T : Max(T) >= y
  BY <1>3 DEF Max
<1>. QED
  BY <1>4

\* The recursive function a sum over S is read from.
SumFrom(F, f, T) == IF T = {} THEN 0 ELSE LET x == CHOOSE x \in T : TRUE IN F[x] + f[T \ {x}]
SumTable(F, S) == CHOOSE f : f = [T \in SUBSET S |-> SumFrom(F, f, T)]

SumOf(F, S) == Sum(S, LAMBDA c : F[c])

LEMMA SumIsTable ==
    ASSUME NEW F, NEW S
    PROVE  SumOf(F, S) = SumTable(F, S)[S]
  BY DEF SumOf, Sum, FoldSet, MapThenFoldSet, SumTable, SumFrom

\* There is such a function.
LEMMA SumTableExists ==
    ASSUME NEW F, NEW S, IsFiniteSet(S)
    PROVE  \A T \in SUBSET S : SumTable(F, S)[T] = SumFrom(F, SumTable(F, S), T)
<1>. DEFINE Small(k) == {T \in SUBSET S : Cardinality(T) <= k}
            Table(f, k) == f = [T \in Small(k) |-> SumFrom(F, f, T)]
            Bad == {k \in Nat : ~ \E f : Table(f, k)}
<1>1. \A T \in SUBSET S : IsFiniteSet(T) /\ Cardinality(T) \in Nat
  BY FS_Subset, FS_CardinalityType
<1>2. Bad = {}
  <2>. SUFFICES ASSUME Bad # {} PROVE FALSE
    OBVIOUS
  <2>1. PICK m \in Bad : \A k \in Bad : m <= k
    BY LeastOfNat
  <2>2. m # 0
    <3>1. \A T \in Small(0) : T = {}
      BY <1>1, FS_EmptySet
    <3>2. Table([T \in Small(0) |-> 0], 0)
      BY <3>1 DEF SumFrom
    <3>. QED
      BY <3>2
  <2>3. PICK f : Table(f, m - 1)
    <3>1. m - 1 \in Nat /\ ~ (m <= m - 1)
      BY <2>2
    <3>2. m - 1 \notin Bad
      BY <2>1, <3>1
    <3>. QED
      BY <3>1, <3>2
  <2>. DEFINE h == [T \in Small(m) |-> SumFrom(F, f, T)]
  <2>4. ASSUME NEW T \in Small(m) PROVE SumFrom(F, f, T) = SumFrom(F, h, T)
    <3>1. CASE T = {}
      BY <3>1 DEF SumFrom
    <3>2. CASE T # {}
      <4>. DEFINE x == CHOOSE x \in T : TRUE
                  W == T \ {x}
      <4>1. x \in T
        BY <3>2
      <4>2. Cardinality(W) = Cardinality(T) - 1
        BY <1>1, <4>1, FS_RemoveElement
      <4>3. W \in Small(m - 1) /\ W \in Small(m)
        BY <1>1, <4>2
      <4>4. h[W] = SumFrom(F, f, W)
        BY <4>3
      <4>5. f[W] = SumFrom(F, f, W)
        BY <2>3, <4>3
      <4>6. SumFrom(F, f, T) = F[x] + f[W] /\ SumFrom(F, h, T) = F[x] + h[W]
        BY <3>2 DEF SumFrom
      <4>. QED
        BY <4>4, <4>5, <4>6
    <3>. QED
      BY <3>1, <3>2
  <2>5. Table(h, m)
    BY <2>4
  <2>. QED
    BY <2>5
<1>3. PICK f : Table(f, Cardinality(S))
  BY <1>1, <1>2
<1>4. Small(Cardinality(S)) = SUBSET S
  BY FS_Subset
<1>5. f = [T \in SUBSET S |-> SumFrom(F, f, T)]
  BY <1>3, <1>4
<1>6. SumTable(F, S) = [T \in SUBSET S |-> SumFrom(F, SumTable(F, S), T)]
  BY <1>5 DEF SumTable
<1>. DEFINE t == SumTable(F, S)
<1>7. t = [T \in SUBSET S |-> SumFrom(F, t, T)]
  BY <1>6
<1>. HIDE DEF t
<1>8. \A T \in SUBSET S : t[T] = SumFrom(F, t, T)
  BY <1>7
<1>. QED
  BY <1>8 DEF t

\* A sum of naturals is no more than its terms' number times the largest.
LEMMA SumBound ==
    ASSUME NEW F, NEW S, IsFiniteSet(S), NEW H \in Nat,
           \A c \in S : F[c] \in Nat /\ F[c] <= H
    PROVE  SumOf(F, S) \in Nat /\ SumOf(F, S) <= Cardinality(S) * H
<1>. DEFINE t == SumTable(F, S)
            Low(T) == t[T] \in Nat /\ t[T] <= Cardinality(T) * H
            Bad == {T \in SUBSET S : ~ Low(T)}
            Sizes == {Cardinality(T) : T \in Bad}
<1>1. \A T \in SUBSET S : t[T] = SumFrom(F, t, T)
  BY SumTableExists
<1>2. \A T \in SUBSET S : IsFiniteSet(T) /\ Cardinality(T) \in Nat
  BY FS_Subset, FS_CardinalityType
<1>. HIDE DEF t
<1>3. Bad = {}
  <2>. SUFFICES ASSUME Bad # {} PROVE FALSE
    OBVIOUS
  <2>1. PICK m \in Sizes : \A k \in Sizes : m <= k
    <3>1. Sizes \subseteq Nat
      BY <1>2
    <3>2. Sizes # {}
      OBVIOUS
    <3>. QED
      BY <3>1, <3>2, LeastOfNat
  <2>2. PICK T \in Bad : Cardinality(T) = m
    OBVIOUS
  <2>3. CASE T = {}
    <3>1. t[T] = 0
      BY <1>1, <2>3 DEF SumFrom
    <3>2. Cardinality(T) * H = 0
      BY <2>3, FS_EmptySet
    <3>. QED
      BY <3>1, <3>2
  <2>4. CASE T # {}
    <3>. DEFINE x == CHOOSE x \in T : TRUE
                W == T \ {x}
    <3>1. x \in T /\ x \in S
      BY <2>4
    <3>2. Cardinality(W) = Cardinality(T) - 1 /\ W \in SUBSET S /\ Cardinality(T) \in Nat
      BY <1>2, <3>1, FS_RemoveElement
    <3>3. W \notin Bad
      <4>. SUFFICES ASSUME W \in Bad PROVE FALSE
        OBVIOUS
      <4>1. Cardinality(W) \in Sizes
        OBVIOUS
      <4>2. Cardinality(T) <= Cardinality(T) - 1
        BY <2>1, <2>2, <3>2, <4>1
      <4>. QED
        BY <3>2, <4>2
    <3>4. t[W] \in Nat /\ t[W] <= Cardinality(W) * H
      BY <3>2, <3>3
    <3>5. t[T] = F[x] + t[W]
      BY <1>1, <2>4 DEF SumFrom
    <3>6. Cardinality(W) * H + H = Cardinality(T) * H
      BY <3>2
    <3>7. F[x] \in Nat /\ F[x] <= H
      BY <3>1
    <3>8. t[T] \in Nat
      BY <3>4, <3>5, <3>7
    <3>9. Cardinality(W) * H \in Nat /\ Cardinality(T) * H \in Nat
      BY <1>2, <3>2
    <3>10. t[T] <= Cardinality(T) * H
      <4>. DEFINE cw == Cardinality(W) * H
                  ct == Cardinality(T) * H
      <4>. HIDE DEF cw, ct
      <4>1. t[W] \in Nat /\ t[W] <= cw /\ cw + H = ct /\ cw \in Nat
        BY <3>4, <3>6, <3>9 DEF cw, ct
      <4>. QED
        BY <4>1, <3>5, <3>7 DEF ct
    <3>. QED
      BY <3>8, <3>10
  <2>. QED
    BY <2>3, <2>4
<1>4. Low(S)
  BY <1>3
<1>. QED
  BY <1>4, SumIsTable DEF t

-----------------------------------------------------------------------------
(***************************************************************************)
(* Types, and the lane plans.                                              *)
(***************************************************************************)

\* What a lane plan, a run, a guard and a reservation are made of: a node is
\* held back for an exclusive chunk only.
Plans == [lanes : 1 .. (2 * Gpus), pin : BOOLEAN]
Phases == {"pending", "sending", "inbox", "rendering", "ended", "tail", "oom", "failed", "done"}
RunRecord == [at : Nodes \cup {"nowhere"}, plan : Plans, phase : Phases, gpu : 0 .. Gpus]
GuardRecord == [limit : {1, Gpus, Unlimited}, settling : BOOLEAN, calm : {"no", "new", "ripe"}]
Reservations == [node : Nodes \cup {"none"}, chunk : (Chunks \ Shared) \cup {"none"}]

\* Pinned lanes are Cycles on several cards, one or two on each; what is not
\* pinned there has the node to itself.
Fitting(plan, engine) ==
    /\ plan \in Plans
    /\ plan.pin => engine = "cycles" /\ Gpus > 1 /\ plan.lanes \in {Gpus, 2 * Gpus}
    /\ ~ plan.pin /\ Gpus > 1 => plan.lanes = 1

\* The agent pins such a plan on a node where it sees the cards.
Pins(plan, engine, n) == plan.pin /\ engine = "cycles" /\ Seen[n] >= 2

\* One run: nowhere before and after, on a card of its own when pinned.
RunFits(r, c) ==
    /\ r[c] \in RunRecord
    /\ r[c].phase \in {"pending", "done"} <=> r[c].at = "nowhere"
    /\ Fitting(r[c].plan, Engine[c])
    /\ r[c].phase = "rendering" =>
          IF Pins(r[c].plan, Engine[c], r[c].at) THEN r[c].gpu \in 1 .. Seen[r[c].at]
          ELSE r[c].gpu = 0
RunsFit(r) == r \in [Chunks -> RunRecord] /\ \A c \in Chunks : RunFits(r, c)

Types ==
    /\ RunsFit(run)
    /\ inbox \in [Nodes -> Seq(Chunks)]
    /\ guard \in [Nodes -> GuardRecord]
    /\ ceiling \in [Nodes -> 0 .. 2]
    /\ reservation \in Reservations
    /\ failedOn \in [Chunks -> SUBSET Nodes]
    /\ resting \in SUBSET Nodes
    /\ fails \in Nat

LEMMA Constants ==
    /\ Gpus \in Nat /\ Gpus >= 1 /\ Cap \in Nat /\ Cap >= 1 /\ SlotsPerGpu \in 0 .. 2
    /\ Unlimited \in Nat /\ Unlimited = 2 * Gpus + 1
    /\ Seen \in [Nodes -> 1 .. Gpus]
    /\ "none" \notin Nodes /\ "nowhere" \notin Nodes /\ "none" \notin Chunks
    /\ Shared \subseteq Chunks
  BY LanesAssumption DEF Unlimited

LEMMA FiniteConstants == IsFiniteSet(Chunks) /\ IsFiniteSet(Nodes)
<1>1. ASSUME NEW list, list \in Seq(ToSet(list))
      PROVE  IsFiniteSet(ToSet(list))
  <2>. DEFINE S == 1 .. Len(list)
              f == [i \in S |-> list[i]]
  <2>1. Len(list) \in Nat /\ DOMAIN list = S
    BY <1>1
  <2>2. IsFiniteSet(S)
    BY <2>1, FS_Interval
  <2>3. f \in [S -> ToSet(list)] /\ \A x \in ToSet(list) : \E i \in S : f[i] = x
    BY <2>1 DEF ToSet
  <2>4. f \in Surjection(S, ToSet(list))
    BY <2>3 DEF Surjection
  <2>. QED
    BY <2>2, <2>4, FS_Surjection
<1>. QED
  BY <1>1, LanesAssumption DEF Chunks, Nodes

LEMMA WholeFits == ASSUME NEW engine PROVE Fitting(Whole, engine)
  BY Constants DEF Fitting, Plans, Whole

\* planLanes plans lanes the cards take.
LEMMA PlanFits ==
    ASSUME NEW k \in 0 .. 2, NEW cap \in Nat, cap >= 1, NEW engine
    PROVE  Fitting(PlanLanes(k, cap, engine), engine)
<1>1. CASE engine # "cycles" \/ k = 0
  BY <1>1, WholeFits DEF PlanLanes
<1>2. CASE engine = "cycles" /\ k # 0 /\ Gpus = 1
  BY <1>2, Constants DEF PlanLanes, Fitting, Plans, Least
<1>3. CASE engine = "cycles" /\ k # 0 /\ Gpus # 1
  <2>1. Gpus * k \in {Gpus, 2 * Gpus}
    <3>1. k = 1 \/ k = 2
      BY <1>3
    <3>. QED
      BY <3>1, Constants
  <2>2. ASSUME NEW l \in {Gpus, 2 * Gpus} PROVE Fitting([lanes |-> l, pin |-> TRUE], engine)
    BY <1>3, Constants DEF Fitting, Plans
  <2>. QED
    BY <1>3, <2>1, <2>2, WholeFits DEF PlanLanes
<1>. QED
  BY <1>1, <1>2, <1>3

\* So does the plan of a node under a guard.
LEMMA LanePlanFits ==
    ASSUME ceiling \in [Nodes -> 0 .. 2], NEW g \in [Nodes -> GuardRecord],
           NEW n \in Nodes, NEW engine
    PROVE  Fitting(LanePlan(g, n, engine), engine)
<1>1. PerGpu(n) \in 0 .. 2
  BY Constants DEF PerGpu, Least
<1>2. g[n].limit \in Nat /\ g[n].limit >= 1
  BY Constants DEF GuardRecord
<1>3. Least(Cap, g[n].limit) \in Nat /\ Least(Cap, g[n].limit) >= 1
  BY <1>2, Constants DEF Least
<1>. QED
  BY <1>1, <1>3, PlanFits DEF LanePlan

\* The lanes one card takes of a plan.
LEMMA OnOneCard ==
    /\ Gpus > 1 => /\ ScenesPerCard(1) = 1 /\ ScenesPerCard(Gpus) = 1
                   /\ ScenesPerCard(2 * Gpus) = 2
    /\ Gpus = 1 => \A l \in Nat : ScenesPerCard(l) = l
<1>1. ASSUME Gpus > 1
      PROVE  (Gpus + Gpus - 1) \div Gpus = 1 /\ (2 * Gpus + Gpus - 1) \div Gpus = 2
  BY <1>1, Constants
<1>2. ASSUME Gpus > 1 PROVE ~ (Gpus <= 1) /\ ~ (2 * Gpus <= 1)
  BY <1>2, Constants
<1>. QED
  BY <1>1, <1>2, Constants DEF ScenesPerCard

-----------------------------------------------------------------------------
(***************************************************************************)
(* Who is on a node.                                                       *)
(***************************************************************************)

\* The runs the app still counts in full.
Live(r, n) == {c \in RunsOn(r, n) : r[c].phase # "tail"}

LEMMA RunsFinite ==
    ASSUME NEW r, NEW n
    PROVE  /\ IsFiniteSet(RunsOn(r, n)) /\ Cardinality(RunsOn(r, n)) \in Nat
           /\ IsFiniteSet(Live(r, n)) /\ Cardinality(Live(r, n)) \in Nat
<1>1. RunsOn(r, n) \in SUBSET Chunks /\ Live(r, n) \in SUBSET Chunks
  BY DEF RunsOn, Live
<1>2. IsFiniteSet(RunsOn(r, n)) /\ IsFiniteSet(Live(r, n))
  BY <1>1, FiniteConstants, FS_Subset
<1>. QED
  BY <1>2, FS_CardinalityType

\* There is at least one lane.
LEMMA LanesExist ==
    ASSUME ceiling \in [Nodes -> 0 .. 2], NEW g \in [Nodes -> GuardRecord],
           NEW n \in Nodes, NEW engine, NEW r
    PROVE  /\ ExclusiveLanes(r, g, n, engine) \in Nat
           /\ ExclusiveLanes(r, g, n, engine) >= 1
           /\ (\E c \in RunsOn(r, n) \ Shared : ~ r[c].plan.pin)
                => ExclusiveLanes(r, g, n, engine) = 1
           /\ ~ (\E c \in RunsOn(r, n) \ Shared : ~ r[c].plan.pin)
                => ExclusiveLanes(r, g, n, engine) = LanePlan(g, n, engine).lanes
<1>1. LanePlan(g, n, engine).lanes \in Nat /\ LanePlan(g, n, engine).lanes >= 1
  BY LanePlanFits, Constants DEF Fitting, Plans
<1>. QED
  BY <1>1 DEF ExclusiveLanes, Greatest

\* occupancy's inFlight counts every run but some of the tails.
LEMMA InFlightCounts ==
    ASSUME ceiling \in [Nodes -> 0 .. 2], NEW g \in [Nodes -> GuardRecord],
           NEW n \in Nodes, NEW engine, NEW r
    PROVE  /\ InFlight(r, g, n, engine) \in Nat
           /\ Cardinality(Live(r, n)) <= InFlight(r, g, n, engine)
<1>. DEFINE R == RunsOn(r, n)
            tails == {c \in R : r[c].phase = "tail"}
            x == ExclusiveLanes(r, g, n, engine)
<1>1. IsFiniteSet(R) /\ Cardinality(R) \in Nat /\ Cardinality(Live(r, n)) \in Nat
  BY RunsFinite
<1>2. x \in Nat
  BY LanesExist
<1>3. Live(r, n) = R \ tails /\ R \cap tails = tails
  BY DEF Live
<1>4. Cardinality(Live(r, n)) = Cardinality(R) - Cardinality(tails)
  BY <1>1, <1>3, FS_Difference
<1>5. Cardinality(tails) \in Nat
  BY <1>1, FS_Subset, FS_CardinalityType
<1>6. InFlight(r, g, n, engine) = Cardinality(R) - Least(Cardinality(tails), x)
  BY DEF InFlight
<1>. HIDE DEF R, tails, x
<1>. QED
  BY <1>1, <1>2, <1>4, <1>5, <1>6 DEF Least

\* A run that is not in its tail is counted.
LEMMA LiveIsCounted ==
    ASSUME NEW r, NEW n, NEW S, S \subseteq Live(r, n), NEW k \in Nat,
           Cardinality(Live(r, n)) <= k
    PROVE  IsFiniteSet(S) /\ Cardinality(S) \in Nat /\ Cardinality(S) <= k
<1>1. IsFiniteSet(S) /\ Cardinality(S) <= Cardinality(Live(r, n))
  BY RunsFinite, FS_Subset
<1>. QED
  BY <1>1, RunsFinite, FS_CardinalityType

-----------------------------------------------------------------------------
(***************************************************************************)
(* What a node's exclusive runs have in common.  Of those that render or   *)
(* are on their way: none is next to shared work; none that is not pinned  *)
(* is next to another; and of any of them together, the one sent last was  *)
(* planned with lanes for all.                                             *)
(***************************************************************************)

Apart(r, n) == RunsOn(r, n) \ Shared # {} => Live(r, n) \cap Shared = {}
Lone(r, n) ==
    Gpus > 1 => \A c, d \in Live(r, n) \ Shared : c # d => r[c].plan.pin
Spread(r, n) ==
    \A S \in SUBSET (Live(r, n) \ Shared) :
        S # {} => \E d \in S : Cardinality(S) <= r[d].plan.lanes
Laned(r) == \A n \in Nodes : Apart(r, n) /\ Lone(r, n) /\ Spread(r, n)

\* Runs that end, or whose render ends, leave the others as they were.
LEMMA LanedShrinks ==
    ASSUME NEW r, NEW q, Laned(r),
           \A n \in Nodes : RunsOn(q, n) \subseteq RunsOn(r, n) /\ Live(q, n) \subseteq Live(r, n),
           \A n \in Nodes : \A c \in Live(q, n) : q[c].plan = r[c].plan
    PROVE  Laned(q)
<1>. SUFFICES ASSUME NEW n \in Nodes PROVE Apart(q, n) /\ Lone(q, n) /\ Spread(q, n)
  BY DEF Laned
<1>1. Apart(r, n) /\ Lone(r, n) /\ Spread(r, n)
  BY DEF Laned
<1>2. RunsOn(q, n) \subseteq RunsOn(r, n) /\ Live(q, n) \subseteq Live(r, n)
  OBVIOUS
<1>3. Apart(q, n)
  BY <1>1, <1>2 DEF Apart
<1>4. Lone(q, n)
  BY <1>1, <1>2 DEF Lone
<1>5. Spread(q, n)
  <2>. SUFFICES ASSUME NEW S \in SUBSET (Live(q, n) \ Shared), S # {}
                PROVE  \E d \in S : Cardinality(S) <= q[d].plan.lanes
    BY DEF Spread
  <2>1. S \in SUBSET (Live(r, n) \ Shared)
    BY <1>2
  <2>2. PICK d \in S : Cardinality(S) <= r[d].plan.lanes
    BY <1>1, <2>1 DEF Spread
  <2>3. q[d].plan = r[d].plan
    OBVIOUS
  <2>. QED
    BY <2>2, <2>3
<1>. QED
  BY <1>3, <1>4, <1>5

\* A run as the tick assigns it.
Assigned(n, plan) == [at |-> n, plan |-> plan, phase |-> "sending", gpu |-> 0]

\* Node n has one run more, and nothing else has changed.
OneMore(r, q, n, c) ==
    \A m \in Nodes :
        /\ RunsOn(q, m) = IF m = n THEN RunsOn(r, m) \cup {c} ELSE RunsOn(r, m)
        /\ Live(q, m) = IF m = n THEN Live(r, m) \cup {c} ELSE Live(r, m)
        /\ \A d \in Live(r, m) : d # c /\ q[d] = r[d]
        /\ c \notin RunsOn(r, m)

\* So it is when a run is assigned.
LEMMA AssignedRuns ==
    ASSUME NEW r, RunsFit(r), NEW c \in Chunks, r[c].phase = "pending",
           NEW n \in Nodes, NEW plan
    PROVE  /\ OneMore(r, [r EXCEPT ![c] = Assigned(n, plan)], n, c)
           /\ [r EXCEPT ![c] = Assigned(n, plan)][c] = Assigned(n, plan)
<1>. DEFINE q == [r EXCEPT ![c] = Assigned(n, plan)]
<1>0. q = [r EXCEPT ![c] = Assigned(n, plan)]
  OBVIOUS
<1>. HIDE DEF q
<1>1. r[c].at = "nowhere" /\ DOMAIN r = Chunks
  BY DEF RunsFit, RunFits
<1>2. q[c] = Assigned(n, plan) /\ \A d \in Chunks : d # c => q[d] = r[d]
  BY <1>0, <1>1
<1>3. q[c].at = n /\ q[c].phase = "sending"
  BY <1>2 DEF Assigned
<1>4. ASSUME NEW m \in Nodes
      PROVE  /\ RunsOn(q, m) = IF m = n THEN RunsOn(r, m) \cup {c} ELSE RunsOn(r, m)
             /\ Live(q, m) = IF m = n THEN Live(r, m) \cup {c} ELSE Live(r, m)
             /\ \A d \in Live(r, m) : d # c /\ q[d] = r[d]
             /\ c \notin RunsOn(r, m)
  <2>1. c \notin RunsOn(r, m)
    BY <1>1, Constants DEF RunsOn
  <2>2. RunsOn(q, m) = IF m = n THEN RunsOn(r, m) \cup {c} ELSE RunsOn(r, m)
    BY <1>2, <1>3, <2>1 DEF RunsOn
  <2>3. Live(q, m) = IF m = n THEN Live(r, m) \cup {c} ELSE Live(r, m)
    BY <1>2, <1>3, <2>1, <2>2 DEF Live, RunsOn
  <2>4. \A d \in Live(r, m) : d # c /\ q[d] = r[d]
    BY <1>2, <2>1 DEF Live, RunsOn
  <2>. QED
    BY <2>1, <2>2, <2>3, <2>4
<1>5. OneMore(r, q, n, c)
  BY <1>4 DEF OneMore
<1>. QED
  BY <1>2, <1>5 DEF q

\* A chunk that admission lets onto a node keeps what its runs have in common.
LEMMA AssignedIsLaned ==
    ASSUME NEW r, RunsFit(r), Laned(r), ceiling \in [Nodes -> 0 .. 2],
           NEW g \in [Nodes -> GuardRecord], NEW n \in Nodes, NEW c \in Chunks,
           r[c].phase = "pending",
           IF HasExclusive(r, n)
             THEN c \notin Shared
                  /\ InFlight(r, g, n, "cycles") < ExclusiveLanes(r, g, n, Engine[c])
             ELSE c \notin Shared => InFlight(r, g, n, "cycles") < 1,
           NEW plan, Fitting(plan, Engine[c]),
           c \notin Shared /\ HasExclusive(r, n) => plan = LanePlan(g, n, Engine[c])
    PROVE  Laned([r EXCEPT ![c] = Assigned(n, plan)])
<1>. DEFINE q == [r EXCEPT ![c] = Assigned(n, plan)]
            k == InFlight(r, g, n, "cycles")
            x == ExclusiveLanes(r, g, n, Engine[c])
<1>0. OneMore(r, q, n, c) /\ q[c] = Assigned(n, plan)
  BY AssignedRuns
<1>. HIDE DEF q, k, x
<1>1. \A m \in Nodes :
         /\ RunsOn(q, m) = IF m = n THEN RunsOn(r, m) \cup {c} ELSE RunsOn(r, m)
         /\ Live(q, m) = IF m = n THEN Live(r, m) \cup {c} ELSE Live(r, m)
         /\ \A d \in Live(r, m) : d # c /\ q[d] = r[d]
         /\ c \notin RunsOn(r, m)
  BY <1>0 DEF OneMore
<1>2. q[c].plan = plan
  BY <1>0 DEF Assigned
<1>3. k \in Nat /\ Cardinality(Live(r, n)) <= k
  BY InFlightCounts DEF k
<1>4. x \in Nat /\ x >= 1
  BY LanesExist DEF x
<1>5. plan.lanes \in Nat /\ plan.lanes >= 1
  BY Constants DEF Fitting, Plans
<1>6. Apart(r, n) /\ Lone(r, n) /\ Spread(r, n)
  BY DEF Laned
<1>7. ASSUME k < 1 PROVE Live(r, n) = {}
  <2>1. Cardinality(Live(r, n)) = 0
    BY <1>3, <1>7, RunsFinite
  <2>. QED
    BY <2>1, RunsFinite, FS_EmptySet
<1>8. ASSUME NEW m \in Nodes, m # n PROVE Apart(q, m) /\ Lone(q, m) /\ Spread(q, m)
  <2>1. Apart(r, m) /\ Lone(r, m) /\ Spread(r, m)
    BY DEF Laned
  <2>2. RunsOn(q, m) = RunsOn(r, m) /\ Live(q, m) = Live(r, m)
        /\ \A d \in Live(r, m) : q[d] = r[d]
    BY <1>1, <1>8
  <2>. QED
    BY <2>1, <2>2 DEF Apart, Lone, Spread
<1>9. RunsOn(q, n) = RunsOn(r, n) \cup {c} /\ Live(q, n) = Live(r, n) \cup {c}
      /\ (\A d \in Live(r, n) : d # c /\ q[d] = r[d]) /\ c \notin RunsOn(r, n)
  BY <1>1
<1>10. CASE c \in Shared
  <2>1. RunsOn(q, n) \ Shared = {}
    BY <1>9, <1>10 DEF HasExclusive
  <2>2. Live(q, n) \ Shared = {}
    BY <2>1 DEF Live
  <2>3. Apart(q, n) /\ Lone(q, n) /\ Spread(q, n)
    BY <2>1, <2>2 DEF Apart, Lone, Spread
  <2>. QED
    BY <1>8, <2>3 DEF Laned, q
<1>11. CASE c \notin Shared /\ ~ HasExclusive(r, n)
  <2>1. Live(q, n) = {c}
    BY <1>7, <1>9, <1>11 DEF k
  <2>2. Apart(q, n) /\ Lone(q, n)
    BY <2>1, <1>11 DEF Apart, Lone
  <2>3. Spread(q, n)
    <3>. SUFFICES ASSUME NEW S \in SUBSET (Live(q, n) \ Shared), S # {}
                  PROVE  \E d \in S : Cardinality(S) <= q[d].plan.lanes
      BY DEF Spread
    <3>1. S = {c}
      BY <2>1
    <3>. QED
      BY <3>1, <1>2, <1>5, FS_Singleton
  <2>. QED
    BY <1>8, <2>2, <2>3 DEF Laned, q
<1>12. CASE c \notin Shared /\ HasExclusive(r, n)
  <2>1. k < x /\ plan = LanePlan(g, n, Engine[c])
    BY <1>12 DEF k, x
  <2>2. Apart(q, n)
    <3>1. Live(r, n) \cap Shared = {}
      BY <1>6, <1>12 DEF Apart, HasExclusive
    <3>. QED
      BY <3>1, <1>9, <1>12 DEF Apart
  <2>3. (\E d \in RunsOn(r, n) \ Shared : ~ r[d].plan.pin) => x = 1
    BY LanesExist DEF x
  <2>4. x = 1 \/ x = plan.lanes
    BY LanesExist, <2>1 DEF x
  <2>5. Lone(q, n)
    <3>. SUFFICES ASSUME Gpus > 1, NEW a \in Live(q, n) \ Shared,
                         NEW b \in Live(q, n) \ Shared, a # b
                  PROVE  q[a].plan.pin
      BY DEF Lone
    <3>1. Live(r, n) # {}
      BY <1>9
    <3>2. x # 1
      <4>. SUFFICES ASSUME x = 1 PROVE FALSE
        OBVIOUS
      <4>1. k < 1
        BY <2>1, <1>3
      <4>. QED
        BY <4>1, <1>7, <3>1
    <3>3. \A d \in RunsOn(r, n) \ Shared : r[d].plan.pin
      BY <2>3, <3>2
    <3>4. plan.pin
      BY <2>4, <3>2 DEF Fitting
    <3>5. CASE a = c
      BY <3>5, <3>4, <1>2
    <3>6. CASE a # c
      <4>1. a \in Live(r, n) \ Shared
        BY <1>9, <3>6
      <4>2. r[a].plan.pin
        BY <4>1, <3>3 DEF Live
      <4>. QED
        BY <4>1, <4>2, <1>9
    <3>. QED
      BY <3>5, <3>6
  <2>6. Spread(q, n)
    <3>. SUFFICES ASSUME NEW S \in SUBSET (Live(q, n) \ Shared), S # {}
                  PROVE  \E d \in S : Cardinality(S) <= q[d].plan.lanes
      BY DEF Spread
    <3>1. CASE c \notin S
      <4>1. S \in SUBSET (Live(r, n) \ Shared)
        BY <1>9, <3>1
      <4>2. PICK d \in S : Cardinality(S) <= r[d].plan.lanes
        BY <4>1, <1>6 DEF Spread
      <4>3. q[d] = r[d]
        BY <4>1, <1>9
      <4>. QED
        BY <4>2, <4>3
    <3>2. CASE c \in S
      <4>. DEFINE W == S \ {c}
      <4>1. W \subseteq Live(r, n)
        BY <1>9
      <4>2. IsFiniteSet(W) /\ Cardinality(W) \in Nat /\ Cardinality(W) <= k
        BY <4>1, <1>3, LiveIsCounted
      <4>3. S = W \cup {c} /\ c \notin W
        BY <3>2
      <4>4. Cardinality(S) = Cardinality(W) + 1
        BY <4>2, <4>3, FS_AddElement
      <4>5. Cardinality(S) <= x
        BY <4>2, <4>4, <2>1, <1>3, <1>4
      <4>6. Cardinality(S) <= plan.lanes
        BY <4>5, <4>4, <4>2, <2>4, <1>5, <1>4
      <4>. QED
        BY <4>6, <3>2, <1>2
    <3>. QED
      BY <3>1, <3>2
  <2>. QED
    BY <1>8, <2>2, <2>5, <2>6 DEF Laned, q
<1>. QED
  BY <1>10, <1>11, <1>12

-----------------------------------------------------------------------------
(***************************************************************************)
(* A tick, turn by turn.                                                   *)
(***************************************************************************)

\* The first of a list that is in a set is in the set.
LEMMA FirstIsMember ==
    ASSUME NEW list, list \in Seq(ToSet(list)), NEW S, S \subseteq ToSet(list), S # {}
    PROVE  FirstOf(list, S) \in S
<1>. DEFINE place(x) == CHOOSE i \in DOMAIN list : list[i] = x
            P == {place(x) : x \in S}
<1>1. DOMAIN list = 1 .. Len(list) /\ Len(list) \in Nat
  OBVIOUS
<1>2. \A x \in S : \E i \in DOMAIN list : list[i] = x
  BY DEF ToSet
<1>3. \A x \in S : place(x) \in DOMAIN list
  BY <1>2
<1>. HIDE DEF place
<1>4. P \subseteq Nat /\ P # {}
  BY <1>1, <1>3
<1>5. PICK m \in P : \A k \in P : m <= k
  BY <1>4, LeastOfNat
<1>6. PICK x \in S : place(x) = m
  OBVIOUS
<1>7. \A y \in S : place(x) <= place(y)
  BY <1>5, <1>6
<1>8. \E z \in S : \A y \in S : place(z) <= place(y)
  BY <1>7
<1>9. (CHOOSE z \in S : \A y \in S : place(z) <= place(y)) \in S
  BY <1>8
<1>. QED
  BY <1>9 DEF FirstOf, place

LEMMA FirstOfQueue ==
    ASSUME NEW S, S \subseteq Chunks, S # {}
    PROVE  FirstOf(Queue, S) \in S
  BY FirstIsMember, LanesAssumption DEF Chunks

LEMMA FirstOfNodes ==
    ASSUME NEW S, S \subseteq Nodes, S # {}
    PROVE  FirstOf(NodeOrder, S) \in S
  BY FirstIsMember, LanesAssumption DEF Nodes

\* What a tick has made of the runs: chunks that waited were assigned.
Follows(r) ==
    \A c \in Chunks : r[c] = run[c] \/ (run[c].phase = "pending" /\ r[c].phase = "sending")

\* The state of a tick between two turns.
TurnState(s) ==
    /\ s = [run |-> s.run, ready |-> s.ready, reservation |-> s.reservation]
    /\ RunsFit(s.run) /\ Laned(s.run) /\ Follows(s.run)
    /\ s.reservation \in Reservations
    /\ s.ready \subseteq Chunks /\ \A c \in s.ready : s.run[c].phase = "pending"

\* Another reservation changes nothing else.
LEMMA ReservationOnly ==
    ASSUME NEW s, TurnState(s), NEW v \in Reservations
    PROVE  /\ TurnState([s EXCEPT !.reservation = v])
           /\ [s EXCEPT !.reservation = v].run = s.run
           /\ [s EXCEPT !.reservation = v].ready = s.ready
           /\ [s EXCEPT !.reservation = v].reservation = v
<1>. DEFINE t == [s EXCEPT !.reservation = v]
<1>1. s = [run |-> s.run, ready |-> s.ready, reservation |-> s.reservation]
  BY DEF TurnState
<1>2. t = [run |-> s.run, ready |-> s.ready, reservation |-> v]
  BY <1>1
<1>3. t.run = s.run /\ t.ready = s.ready /\ t.reservation = v
  BY <1>2
<1>. HIDE DEF t
<1>4. t = [run |-> t.run, ready |-> t.ready, reservation |-> t.reservation]
  BY <1>2, <1>3
<1>5. TurnState(t)
  BY <1>3, <1>4 DEF TurnState
<1>. QED
  BY <1>3, <1>5 DEF t

LEMMA ReservedFits ==
    ASSUME Types, NEW s, TurnState(s), NEW g
    PROVE  /\ TurnState(Reserved(s, g))
           /\ Reserved(s, g).ready = s.ready
<1>. DEFINE waits == {c \in s.ready : \E n \in Eligible : TakesEngine(n, c)}
            first == FirstOf(Queue, waits)
            takers == {n \in Eligible : TakesEngine(n, first)}
            sizes == {Cardinality(RunsOn(s.run, n)) : n \in takers}
            fewest == Min(sizes)
            least == {n \in takers : Cardinality(RunsOn(s.run, n)) = fewest}
            best == FirstOf(NodeOrder, least)
            open == [s EXCEPT !.reservation = NoReservation]
            held == [s EXCEPT !.reservation = [node |-> best, chunk |-> first]]
<1>1. NoReservation \in Reservations
  BY DEF NoReservation, Reservations
<1>2. TurnState(open) /\ open.ready = s.ready
  BY <1>1, ReservationOnly
<1>3. ASSUME waits # {}, first \notin Shared PROVE TurnState(held) /\ held.ready = s.ready
  <2>1. waits \subseteq Chunks
    BY DEF TurnState
  <2>2. first \in waits
    BY <2>1, <1>3, FirstOfQueue
  <2>3. takers # {} /\ takers \subseteq Nodes
    BY <2>2 DEF Eligible
  <2>. HIDE DEF waits, first, takers
  <2>4. sizes # {} /\ sizes \subseteq Nat
    BY <2>3, RunsFinite
  <2>5. fewest \in sizes
    BY <2>4, MinIsLeast
  <2>6. least # {} /\ least \subseteq Nodes
    BY <2>3, <2>5
  <2>7. best \in Nodes
    BY <2>6, FirstOfNodes
  <2>8. [node |-> best, chunk |-> first] \in Reservations
    BY <1>3, <2>1, <2>2, <2>7 DEF Reservations
  <2>. HIDE DEF best
  <2>. QED
    BY <2>8, ReservationOnly
<1>4. Reserved(s, g) = s \/ Reserved(s, g) = open \/ (waits # {} /\ first \notin Shared /\ Reserved(s, g) = held)
  BY DEF Reserved
<1>. HIDE DEF waits, first, open, held
<1>. QED
  BY <1>2, <1>3, <1>4

\* The plan of an exclusive chunk's turn.
LEMMA DispatchFits ==
    ASSUME Types, NEW g \in [Nodes -> GuardRecord], NEW s, NEW n \in Nodes, NEW c, NEW waiting
    PROVE  /\ Fitting(DispatchPlan(s, g, n, c, waiting), Engine[c])
           /\ RunsOn(s.run, n) # {} => DispatchPlan(s, g, n, c, waiting) = LanePlan(g, n, Engine[c])
<1>1. ceiling \in [Nodes -> 0 .. 2]
  BY DEF Types
<1>2. Fitting(LanePlan(g, n, Engine[c]), Engine[c]) /\ Fitting(Whole, Engine[c])
  BY <1>1, LanePlanFits, WholeFits
<1>. QED
  BY <1>2 DEF DispatchPlan

\* What a turn makes of the state when it assigns chunk c.
LEMMA SentIs ==
    ASSUME NEW s, NEW g, NEW n, NEW c
    PROVE  \E plan :
             /\ plan = IF c \in Shared THEN LanePlan(g, n, Engine[c])
                       ELSE DispatchPlan(s, g, n, c, s.ready \ {c})
             /\ Sent(s, g, n, c) =
                  [run |-> [s.run EXCEPT ![c] = Assigned(n, plan)],
                   ready |-> s.ready \ {c},
                   reservation |-> IF s.reservation.chunk = c THEN NoReservation ELSE s.reservation]
  BY DEF Sent, Assigned

LEMMA SentFits ==
    ASSUME Types, NEW s, TurnState(s), NEW g \in [Nodes -> GuardRecord], NEW n \in Nodes,
           NEW c \in Picks(s, g, n)
    PROVE  TurnState(Sent(s, g, n, c))
<1>. DEFINE r == s.run
            t == Sent(s, g, n, c)
<1>1. c \in s.ready /\ c \in Chunks /\ r[c].phase = "pending"
      /\ Admits(s, g, n, c, InFlight(r, g, n, "cycles"))
  BY DEF Picks, TurnState
<1>2. ceiling \in [Nodes -> 0 .. 2]
  BY DEF Types
<1>3. PICK plan :
             /\ plan = IF c \in Shared THEN LanePlan(g, n, Engine[c])
                       ELSE DispatchPlan(s, g, n, c, s.ready \ {c})
             /\ t = [run |-> [r EXCEPT ![c] = Assigned(n, plan)],
                     ready |-> s.ready \ {c},
                     reservation |-> IF s.reservation.chunk = c THEN NoReservation ELSE s.reservation]
  BY SentIs
<1>. DEFINE q == [r EXCEPT ![c] = Assigned(n, plan)]
<1>4. t.run = q /\ t.ready = s.ready \ {c}
      /\ t.reservation = (IF s.reservation.chunk = c THEN NoReservation ELSE s.reservation)
      /\ t = [run |-> t.run, ready |-> t.ready, reservation |-> t.reservation]
  BY <1>3
<1>5. RunsFit(r) /\ Laned(r) /\ Follows(r)
  BY DEF TurnState
<1>6. Fitting(plan, Engine[c])
  BY <1>2, <1>3, LanePlanFits, DispatchFits
<1>7. c \notin Shared /\ HasExclusive(r, n) => plan = LanePlan(g, n, Engine[c])
  BY <1>3, DispatchFits DEF HasExclusive
<1>8. IF HasExclusive(r, n)
        THEN c \notin Shared /\ InFlight(r, g, n, "cycles") < ExclusiveLanes(r, g, n, Engine[c])
        ELSE c \notin Shared => InFlight(r, g, n, "cycles") < 1
  BY <1>1 DEF Admits
<1>9. Laned(q)
  <2>. HIDE DEF r, q
  <2>1. Laned([r EXCEPT ![c] = Assigned(n, plan)])
    BY <1>1, <1>2, <1>5, <1>6, <1>7, <1>8, AssignedIsLaned
  <2>. QED
    BY <2>1 DEF q
<1>10. RunsFit(q)
  <2>. HIDE DEF r
  <2>1. r \in [Chunks -> RunRecord] /\ \A d \in Chunks : RunFits(r, d)
    BY <1>5 DEF RunsFit
  <2>2. Assigned(n, plan) \in RunRecord
    BY <1>6, Constants DEF Assigned, RunRecord, Phases, Fitting
  <2>3. q \in [Chunks -> RunRecord]
    BY <1>1, <2>1, <2>2
  <2>4. q[c] = Assigned(n, plan) /\ \A d \in Chunks : d # c => q[d] = r[d]
    BY <1>1, <2>1
  <2>. HIDE DEF q
  <2>5. RunFits(q, c)
    <3>1. q[c].at = n /\ q[c].plan = plan /\ q[c].phase = "sending"
      BY <2>4 DEF Assigned
    <3>. QED
      BY <3>1, <2>2, <2>4, <1>6, Constants DEF RunFits
  <2>6. ASSUME NEW d \in Chunks, d # c PROVE RunFits(q, d)
    <3>1. q[d] = r[d] /\ RunFits(r, d)
      BY <2>1, <2>4, <2>6
    <3>. QED
      BY <3>1 DEF RunFits
  <2>. QED
    BY <2>3, <2>5, <2>6 DEF RunsFit
<1>11. \A d \in Chunks : d # c => q[d] = r[d]
  <2>1. DOMAIN r = Chunks
    BY <1>5 DEF RunsFit
  <2>. QED
    BY <2>1
<1>12. q[c].phase = "sending"
  <2>1. DOMAIN r = Chunks
    BY <1>5 DEF RunsFit
  <2>2. q[c] = Assigned(n, plan)
    BY <2>1, <1>1
  <2>. QED
    BY <2>2 DEF Assigned
<1>. HIDE DEF q
<1>13. Follows(q)
  <2>1. run[c].phase = "pending"
    BY <1>1, <1>5 DEF Follows
  <2>. QED
    BY <1>5, <1>11, <1>12, <2>1 DEF Follows
<1>14. t.reservation \in Reservations
  BY <1>4 DEF TurnState, NoReservation, Reservations
<1>15. t.ready \subseteq Chunks /\ \A d \in t.ready : q[d].phase = "pending"
  BY <1>4, <1>11 DEF TurnState
<1>. HIDE DEF t
<1>. QED
  BY <1>4, <1>9, <1>10, <1>13, <1>14, <1>15 DEF TurnState, t

\* A turn leaves the state as it is, or assigns one of the node's picks.
LEMMA TurnIs ==
    ASSUME NEW s, s.ready \subseteq Chunks, NEW g, NEW n, NEW t \in TakeOne(s, g, n)
    PROVE  t = s \/ \E c \in Picks(s, g, n) : t = Sent(s, g, n, c)
<1>. DEFINE picks == Picks(s, g, n)
<1>1. picks \subseteq Chunks
  BY DEF Picks
<1>2. t = s \/ (picks # {} /\ t = Sent(s, g, n, FirstOf(Queue, picks)))
  BY DEF TakeOne
<1>. HIDE DEF picks
<1>3. picks # {} => FirstOf(Queue, picks) \in picks
  BY <1>1, FirstOfQueue
<1>. QED
  BY <1>2, <1>3 DEF picks

LEMMA TurnFits ==
    ASSUME Types, NEW s, TurnState(s), NEW g \in [Nodes -> GuardRecord], NEW n \in Nodes,
           NEW t \in TakeOne(s, g, n)
    PROVE  TurnState(t)
<1>1. s.ready \subseteq Chunks
  BY DEF TurnState
<1>. QED
  BY <1>1, TurnIs, SentFits

-----------------------------------------------------------------------------
(***************************************************************************)
(* The table of states a tick's outcome is read from: one entry per turn.  *)
(***************************************************************************)

TickStart ==
    [run |-> run, reservation |-> reservation,
     ready |-> {c \in Chunks : run[c].phase = "pending"}]
Turns == Cardinality(TickStart.ready) * Len(NodeOrder)
NodeAt(i) == NodeOrder[((i - 1) % Len(NodeOrder)) + 1]
TickStep(g, f, i) ==
    IF i = 0 THEN {Reserved(s, g) : s \in {TickStart}}
    ELSE UNION {TakeOne(s, g, NodeAt(i)) : s \in f[i - 1]}
TickTable(g, f) == f = [i \in 0 .. Turns |-> TickStep(g, f, i)]

LEMMA TurnsCount ==
    /\ Len(NodeOrder) \in Nat /\ Cardinality(TickStart.ready) \in Nat
    /\ IsFiniteSet(TickStart.ready) /\ TickStart.ready \subseteq Chunks
    /\ Turns \in Nat
<1>1. Len(NodeOrder) \in Nat
  BY LanesAssumption
<1>2. TickStart.ready \subseteq Chunks
  BY DEF TickStart
<1>3. IsFiniteSet(TickStart.ready) /\ Cardinality(TickStart.ready) \in Nat
  BY <1>2, FiniteConstants, FS_Subset, FS_CardinalityType
<1>. QED
  BY <1>1, <1>2, <1>3 DEF Turns

LEMMA TurnNode ==
    ASSUME NEW i \in 1 .. Turns
    PROVE  NodeAt(i) \in Nodes /\ Len(NodeOrder) >= 1
<1>1. Turns >= 1 /\ i - 1 \in Nat
  BY TurnsCount
<1>2. Len(NodeOrder) # 0
  BY <1>1, TurnsCount DEF Turns
<1>3. ((i - 1) % Len(NodeOrder)) + 1 \in 1 .. Len(NodeOrder)
  BY <1>1, <1>2, TurnsCount
<1>4. NodeOrder \in Seq(Nodes)
  BY LanesAssumption
<1>. QED
  BY <1>2, <1>3, <1>4, TurnsCount DEF NodeAt

\* There is such a table.
LEMMA TickTableExists ==
    ASSUME NEW g
    PROVE  \E f : TickTable(g, f)
<1>. DEFINE Upto(f, k) == f = [i \in 0 .. k |-> TickStep(g, f, i)]
            Bad == {k \in Nat : ~ \E f : Upto(f, k)}
<1>1. Bad = {}
  <2>. SUFFICES ASSUME Bad # {} PROVE FALSE
    OBVIOUS
  <2>1. PICK m \in Bad : \A k \in Bad : m <= k
    BY LeastOfNat
  <2>2. m # 0
    <3>1. Upto([i \in 0 .. 0 |-> TickStep(g, <<>>, 0)], 0)
      BY DEF TickStep
    <3>. QED
      BY <3>1
  <2>3. PICK f : Upto(f, m - 1)
    <3>1. m - 1 \in Nat /\ ~ (m <= m - 1)
      BY <2>2
    <3>2. m - 1 \notin Bad
      BY <2>1, <3>1
    <3>. QED
      BY <3>1, <3>2
  <2>. DEFINE h == [i \in 0 .. m |-> TickStep(g, f, i)]
  <2>4. ASSUME NEW i \in 0 .. m PROVE TickStep(g, f, i) = TickStep(g, h, i)
    <3>1. CASE i = 0
      BY <3>1 DEF TickStep
    <3>2. CASE i # 0
      <4>1. i - 1 \in 0 .. (m - 1) /\ i - 1 \in 0 .. m
        BY <3>2
      <4>2. f[i - 1] = TickStep(g, f, i - 1)
        BY <2>3, <4>1
      <4>3. h[i - 1] = TickStep(g, f, i - 1)
        BY <4>1
      <4>4. f[i - 1] = h[i - 1]
        BY <4>2, <4>3
      <4>. HIDE DEF h
      <4>. QED
        BY <3>2, <4>4 DEF TickStep
    <3>. QED
      BY <3>1, <3>2
  <2>5. Upto(h, m)
    BY <2>4
  <2>. QED
    BY <2>5
<1>. QED
  BY <1>1, TurnsCount DEF TickTable

LEMMA OutcomeTable ==
    ASSUME NEW g
    PROVE  \E f : /\ Outcome(g) = f[Turns]
                  /\ f[0] = {Reserved(TickStart, g)}
                  /\ \A i \in 1 .. Turns : f[i] = UNION {TakeOne(s, g, NodeAt(i)) : s \in f[i - 1]}
<1>. DEFINE f == CHOOSE t : TickTable(g, t)
<1>1. Outcome(g) = f[Turns]
  BY DEF Outcome, TickTable, TickStep, TickStart, Turns, NodeAt
<1>2. TickTable(g, f)
  BY TickTableExists
<1>. HIDE DEF f
<1>3. \A i \in 0 .. Turns : f[i] = TickStep(g, f, i)
  BY <1>2 DEF TickTable
<1>4. f[0] = {Reserved(TickStart, g)}
  <2>1. 0 \in 0 .. Turns
    BY TurnsCount
  <2>2. TickStep(g, f, 0) = {Reserved(TickStart, g)}
    BY DEF TickStep
  <2>. QED
    BY <1>3, <2>1, <2>2
<1>5. \A i \in 1 .. Turns : f[i] = UNION {TakeOne(s, g, NodeAt(i)) : s \in f[i - 1]}
  <2>. TAKE i \in 1 .. Turns
  <2>1. i \in 0 .. Turns /\ i # 0
    BY TurnsCount
  <2>2. TickStep(g, f, i) = UNION {TakeOne(s, g, NodeAt(i)) : s \in f[i - 1]}
    BY <2>1 DEF TickStep
  <2>. QED
    BY <1>3, <2>1, <2>2
<1>. QED
  BY <1>1, <1>4, <1>5

\* The tick starts from what the app holds.
LEMMA StartFits ==
    ASSUME Types, Laned(run)
    PROVE  TurnState(TickStart)
<1>1. TickStart.run = run /\ TickStart.reservation = reservation
      /\ TickStart.ready = {c \in Chunks : run[c].phase = "pending"}
      /\ TickStart = [run |-> TickStart.run, ready |-> TickStart.ready,
                      reservation |-> TickStart.reservation]
  BY DEF TickStart
<1>2. RunsFit(run) /\ reservation \in Reservations
  BY DEF Types
<1>3. Follows(run)
  BY DEF Follows
<1>. QED
  BY <1>1, <1>2, <1>3 DEF TurnState

\* Every state of the table is one between two turns, and the last one too.
LEMMA OutcomeFits ==
    ASSUME Types, Laned(run), NEW g \in [Nodes -> GuardRecord], NEW s \in Outcome(g)
    PROVE  TurnState(s)
<1>1. PICK f : /\ Outcome(g) = f[Turns]
               /\ f[0] = {Reserved(TickStart, g)}
               /\ \A i \in 1 .. Turns : f[i] = UNION {TakeOne(t, g, NodeAt(i)) : t \in f[i - 1]}
  BY OutcomeTable
<1>. DEFINE Bad == {i \in 0 .. Turns : ~ \A t \in f[i] : TurnState(t)}
<1>2. Bad = {}
  <2>. SUFFICES ASSUME Bad # {} PROVE FALSE
    OBVIOUS
  <2>1. Bad \subseteq Nat
    OBVIOUS
  <2>2. PICK m \in Bad : \A k \in Bad : m <= k
    BY <2>1, LeastOfNat
  <2>3. m # 0
    <3>1. TurnState(Reserved(TickStart, g))
      BY StartFits, ReservedFits
    <3>. QED
      BY <3>1, <1>1
  <2>4. m \in 1 .. Turns /\ m - 1 \in 0 .. Turns /\ ~ (m <= m - 1)
    BY <2>3, TurnsCount
  <2>5. \A t \in f[m - 1] : TurnState(t)
    BY <2>2, <2>4
  <2>6. PICK t \in f[m] : ~ TurnState(t)
    OBVIOUS
  <2>7. PICK u \in f[m - 1] : t \in TakeOne(u, g, NodeAt(m))
    BY <1>1, <2>4, <2>6
  <2>8. NodeAt(m) \in Nodes
    BY <2>4, TurnNode
  <2>9. TurnState(u)
    BY <2>5
  <2>. QED
    BY <2>6, <2>7, <2>8, <2>9, TurnFits
<1>3. \A t \in f[Turns] : TurnState(t)
  BY <1>2, TurnsCount
<1>. QED
  BY <1>1, <1>3

-----------------------------------------------------------------------------
(***************************************************************************)
(* The inductive invariant, one action at a time.                          *)
(***************************************************************************)

\* A spec in a node's inbox is that of a run there that has not started.
Arrivals ==
    \A n \in Nodes : \A i \in DOMAIN inbox[n] :
        /\ run[inbox[n][i]].at = n /\ run[inbox[n][i]].phase = "inbox"
        /\ \A j \in DOMAIN inbox[n] : inbox[n][i] = inbox[n][j] => i = j

LanesInv == Types /\ Laned(run) /\ Arrivals

\* Only chunk c's run has changed.
OthersStay(q, c) == \A d \in Chunks : d # c => q[d] = run[d]

\* A run that stays where it is, or ends, leaves the others as they were.
LEMMA MovedIsLaned ==
    ASSUME RunsFit(run), Laned(run), NEW c \in Chunks, NEW q, OthersStay(q, c),
           \/ q[c].at = "nowhere"
           \/ /\ q[c].at = run[c].at /\ q[c].plan = run[c].plan
              /\ run[c].phase = "tail" => q[c].phase = "tail"
    PROVE  Laned(q)
<1>1. ASSUME NEW n \in Nodes
      PROVE  /\ RunsOn(q, n) \subseteq RunsOn(run, n)
             /\ Live(q, n) \subseteq Live(run, n)
             /\ \A d \in Live(q, n) : q[d].plan = run[d].plan
  <2>1. \A d \in Chunks : q[d].at = n =>
           run[d].at = n /\ q[d].plan = run[d].plan /\ (run[d].phase = "tail" => q[d].phase = "tail")
    BY Constants DEF OthersStay
  <2>. QED
    BY <2>1 DEF RunsOn, Live
<1>. QED
  BY <1>1, LanedShrinks

\* A run in another phase, of those it has on a node.
LEMMA PhaseMoves ==
    ASSUME RunsFit(run), Laned(run), NEW c \in Chunks,
           NEW p \in Phases \ {"pending", "done", "rendering"},
           run[c].phase \notin {"pending", "done", "tail"},
           NEW q, q = [run EXCEPT ![c].phase = p]
    PROVE  /\ RunsFit(q) /\ Laned(q) /\ OthersStay(q, c)
           /\ q[c].at = run[c].at /\ q[c].plan = run[c].plan /\ q[c].phase = p
<1>1. run \in [Chunks -> RunRecord] /\ \A d \in Chunks : RunFits(run, d)
  BY DEF RunsFit
<1>2. run[c] \in RunRecord /\ RunFits(run, c)
  BY <1>1
<1>3. q[c] = [run[c] EXCEPT !.phase = p]
  BY <1>1
<1>4. OthersStay(q, c)
  BY <1>1 DEF OthersStay
<1>5. q[c].at = run[c].at /\ q[c].plan = run[c].plan /\ q[c].phase = p
      /\ q[c] \in RunRecord
  BY <1>2, <1>3 DEF RunRecord
<1>6. DOMAIN q = Chunks /\ q = [d \in Chunks |-> q[d]]
  BY <1>1
<1>7. RunFits(q, c)
  BY <1>2, <1>5 DEF RunFits
<1>8. ASSUME NEW d \in Chunks, d # c PROVE RunFits(q, d)
  <2>1. q[d] = run[d] /\ RunFits(run, d)
    BY <1>1, <1>4, <1>8 DEF OthersStay
  <2>. QED
    BY <2>1 DEF RunFits
<1>9. RunsFit(q)
  <2>1. \A d \in Chunks : q[d] \in RunRecord
    BY <1>7, <1>8 DEF RunFits
  <2>. QED
    BY <2>1, <1>6, <1>7, <1>8 DEF RunsFit
<1>10. Laned(q)
  BY <1>4, <1>5, MovedIsLaned
<1>. QED
  BY <1>4, <1>5, <1>9, <1>10

\* A run that goes back to the queue, or is done.
LEMMA RunIsOver ==
    ASSUME RunsFit(run), Laned(run), NEW c \in Chunks, NEW v \in {Pending, Done},
           NEW q, q = [run EXCEPT ![c] = v]
    PROVE  /\ RunsFit(q) /\ Laned(q) /\ OthersStay(q, c)
           /\ q[c].at = "nowhere" /\ q[c].phase \in {"pending", "done"}
<1>1. run \in [Chunks -> RunRecord] /\ \A d \in Chunks : RunFits(run, d)
  BY DEF RunsFit
<1>2. v \in RunRecord /\ v.at = "nowhere" /\ v.phase \in {"pending", "done"} /\ v.plan = Whole
  <2>1. Whole \in Plans
    BY WholeFits DEF Fitting
  <2>. QED
    BY <2>1, Constants DEF Pending, Done, RunRecord, Phases
<1>3. q[c] = v /\ OthersStay(q, c) /\ q \in [Chunks -> RunRecord]
  BY <1>1, <1>2 DEF OthersStay
<1>4. RunFits(q, c)
  BY <1>2, <1>3, WholeFits DEF RunFits
<1>5. ASSUME NEW d \in Chunks, d # c PROVE RunFits(q, d)
  <2>1. q[d] = run[d] /\ RunFits(run, d)
    BY <1>1, <1>3, <1>5 DEF OthersStay
  <2>. QED
    BY <2>1 DEF RunFits
<1>6. RunsFit(q)
  BY <1>3, <1>4, <1>5 DEF RunsFit
<1>7. Laned(q)
  BY <1>2, <1>3, MovedIsLaned
<1>. QED
  BY <1>2, <1>3, <1>6, <1>7

\* Inboxes and the runs of their specs stay.
LEMMA ArrivalsStay ==
    ASSUME LanesInv, UNCHANGED inbox,
           \A c \in Chunks : run[c].phase = "inbox" => run'[c].at = run[c].at /\ run'[c].phase = "inbox"
    PROVE  Arrivals'
<1>. SUFFICES ASSUME NEW n \in Nodes, NEW i \in DOMAIN inbox[n]
              PROVE  /\ run'[inbox[n][i]].at = n /\ run'[inbox[n][i]].phase = "inbox"
                     /\ \A j \in DOMAIN inbox[n] : inbox[n][i] = inbox[n][j] => i = j
  BY DEF Arrivals
<1>1. inbox[n] \in Seq(Chunks)
  BY DEF LanesInv, Types
<1>2. inbox[n][i] \in Chunks
  BY <1>1
<1>. QED
  BY <1>2 DEF LanesInv, Arrivals

\* A run that has left the inbox, or never was in it, is the only one to change.
LEMMA ArrivalsIfNotHis ==
    ASSUME LanesInv, UNCHANGED inbox, NEW c \in Chunks, run[c].phase # "inbox",
           OthersStay(run', c)
    PROVE  Arrivals'
  BY ArrivalsStay DEF OthersStay

\* Types of the variables that are not runs.
LEMMA RestIsTyped ==
    ASSUME LanesInv
    PROVE  /\ RunsFit(run) /\ Laned(run) /\ Arrivals
           /\ run \in [Chunks -> RunRecord]
           /\ inbox \in [Nodes -> Seq(Chunks)] /\ guard \in [Nodes -> GuardRecord]
           /\ ceiling \in [Nodes -> 0 .. 2] /\ reservation \in Reservations
           /\ failedOn \in [Chunks -> SUBSET Nodes] /\ resting \in SUBSET Nodes
           /\ fails \in Nat
  BY DEF LanesInv, Types, RunsFit

\* A run that is on a node is on one of Nodes.
LEMMA RunHasNode ==
    ASSUME LanesInv, NEW c \in Chunks, run[c].phase \notin {"pending", "done"}
    PROVE  run[c].at \in Nodes
<1>1. RunFits(run, c)
  BY DEF LanesInv, Types, RunsFit
<1>. QED
  BY <1>1 DEF RunFits, RunRecord

-----------------------------------------------------------------------------
(***************************************************************************)
(* What the guard does to a node's limit.                                  *)
(***************************************************************************)

CurrentLanes(n, e) == LanePlan(guard, n, e).lanes
LowerLevels(n, e) ==
    {l \in Levels(n, e) : l < CurrentLanes(n, e)
        /\ (RamOn(n) > 90 \/ ScenesPerCard(l) < ScenesPerCard(CurrentLanes(n, e)))}
HigherLevels(n, e) == {l \in Levels(n, e) : l > CurrentLanes(n, e)}

\* It stays, for now.
Waits(n) ==
    \/ Guarded(n) = guard[n]
    \/ \E calm \in {"no", "new"} : Guarded(n) = [guard[n] EXCEPT !.calm = calm]
\* Memory is short, and there is a plan below that eases it.
StepsDown(n, e) ==
    /\ RamOn(n) > 90 \/ VramOn(n) > 90
    /\ Cardinality(RunsOn(run, n)) <= CurrentLanes(n, e)
    /\ LowerLevels(n, e) # {}
    /\ Guarded(n) = [limit |-> Max(LowerLevels(n, e)), settling |-> TRUE, calm |-> "no"]
\* Memory has been calm, and there is a plan above.
StepsUp(n, e) ==
    /\ HigherLevels(n, e) # {}
    /\ Guarded(n) = [limit |-> IF Min(HigherLevels(n, e)) = Max(Levels(n, e)) THEN Unlimited
                               ELSE Min(HigherLevels(n, e)),
                     settling |-> FALSE, calm |-> "no"]

LEMMA GuardedIs ==
    ASSUME NEW n
    PROVE  \E e : Waits(n) \/ StepsDown(n, e) \/ StepsUp(n, e)
<1>. DEFINE engines == {Engine[c] : c \in RunsOn(run, n) \ Shared}
            e == IF Cardinality(engines) = 1 THEN CHOOSE x \in engines : TRUE ELSE "cycles"
            inFlight == Cardinality(RunsOn(run, n))
            lower == {l \in Levels(n, e) : l < CurrentLanes(n, e)
                        /\ (RamOn(n) > 90 \/ ScenesPerCard(l) < ScenesPerCard(CurrentLanes(n, e)))}
            above == {l \in Levels(n, e) : l > CurrentLanes(n, e)}
            notCalm == [guard[n] EXCEPT !.calm = "no"]
            down == [limit |-> Max(lower), settling |-> TRUE, calm |-> "no"]
            up == [limit |-> IF Min(above) = Max(Levels(n, e)) THEN Unlimited ELSE Min(above),
                   settling |-> FALSE, calm |-> "no"]
<1>1. Guarded(n) =
        CASE RamOn(n) > 90 \/ VramOn(n) > 90 ->
               IF ~ MayStep(n, inFlight, CurrentLanes(n, e)) \/ lower = {} THEN notCalm ELSE down
          [] OTHER ->
               IF \/ above = {} \/ inFlight = 0 \/ inFlight > CurrentLanes(n, e)
                  \/ RamOn(n) * Min(above) > 75 * inFlight
                  \/ VramOn(n) * ScenesPerCard(Min(above)) > 75 * ScenesPerCard(CurrentLanes(n, e))
               THEN notCalm
               ELSE IF guard[n].calm = "no" THEN [guard[n] EXCEPT !.calm = "new"]
               ELSE IF guard[n].calm = "new" \/ guard[n].settling THEN guard[n]
               ELSE up
  BY DEF Guarded, CurrentLanes
<1>2. lower = LowerLevels(n, e) /\ above = HigherLevels(n, e)
  BY DEF LowerLevels, HigherLevels
<1>3. MayStep(n, inFlight, CurrentLanes(n, e)) => inFlight <= CurrentLanes(n, e)
  BY DEF MayStep
<1>. DEFINE fresh == [guard[n] EXCEPT !.calm = "new"]
            hot == RamOn(n) > 90 \/ VramOn(n) > 90
<1>4. \/ hot /\ MayStep(n, inFlight, CurrentLanes(n, e)) /\ lower # {} /\ Guarded(n) = down
      \/ above # {} /\ Guarded(n) = up
      \/ Guarded(n) = notCalm \/ Guarded(n) = fresh \/ Guarded(n) = guard[n]
  <2>. HIDE DEF lower, above, notCalm, down, up, inFlight, e
  <2>1. CASE hot
    BY <1>1, <2>1
  <2>2. CASE ~ hot
    BY <1>1, <2>2
  <2>. QED
    BY <2>1, <2>2
<1>5. CASE hot /\ MayStep(n, inFlight, CurrentLanes(n, e)) /\ lower # {} /\ Guarded(n) = down
  <2>1. StepsDown(n, e)
    BY <1>2, <1>3, <1>5 DEF StepsDown
  <2>. QED
    BY <2>1
<1>6. CASE above # {} /\ Guarded(n) = up
  <2>. HIDE DEF above, e
  <2>1. StepsUp(n, e)
    BY <1>2, <1>6 DEF StepsUp
  <2>. QED
    BY <2>1
<1>7. CASE Guarded(n) = notCalm \/ Guarded(n) = fresh \/ Guarded(n) = guard[n]
  BY <1>7 DEF Waits
<1>. QED
  BY <1>4, <1>5, <1>6, <1>7

\* The levels of a node are among three, and its plan is one of these.
LEMMA LevelsFit ==
    ASSUME LanesInv, NEW n \in Nodes, NEW e
    PROVE  /\ Levels(n, e) \subseteq {1, Gpus, 2 * Gpus} /\ Levels(n, e) # {}
           /\ CurrentLanes(n, e) \in {1, Gpus, 2 * Gpus}
           /\ IsFiniteSet(Levels(n, e)) /\ Levels(n, e) \subseteq Nat
<1>1. ASSUME NEW plan, Fitting(plan, e) PROVE plan.lanes \in {1, Gpus, 2 * Gpus}
  BY <1>1, Constants DEF Fitting, Plans
<1>2. PerGpu(n) \in 0 .. 2
  BY RestIsTyped, Constants DEF PerGpu, Least
<1>3. ASSUME NEW k \in {Cap, Gpus, 1}
      PROVE  PlanLanes(PerGpu(n), Least(Cap, k), e).lanes \in {1, Gpus, 2 * Gpus}
  <2>1. Least(Cap, k) \in Nat /\ Least(Cap, k) >= 1
    BY Constants DEF Least
  <2>. QED
    BY <1>1, <1>2, <2>1, PlanFits
<1>4. Levels(n, e) \subseteq {1, Gpus, 2 * Gpus} /\ Levels(n, e) # {}
  BY <1>3 DEF Levels
<1>5. CurrentLanes(n, e) \in {1, Gpus, 2 * Gpus}
  <2>1. Fitting(LanePlan(guard, n, e), e)
    BY RestIsTyped, LanePlanFits
  <2>. QED
    BY <1>1, <2>1 DEF CurrentLanes
<1>6. Levels(n, e) \subseteq Nat
  BY <1>4, Constants
<1>7. \A l \in Levels(n, e) : l <= 2 * Gpus
  BY <1>4, Constants
<1>8. IsFiniteSet(Levels(n, e))
  <2>. DEFINE top == 2 * Gpus
  <2>1. top \in Nat
    BY Constants
  <2>2. \A l \in Levels(n, e) : l <= top
    BY <1>7
  <2>. HIDE DEF top
  <2>. QED
    BY <1>6, <2>1, <2>2, FS_BoundedSetOfNaturals
<1>. QED
  BY <1>4, <1>5, <1>6, <1>8

\* The level the guard steps down to, and up to.
LEMMA DownIsLower ==
    ASSUME LanesInv, NEW n \in Nodes, NEW e, LowerLevels(n, e) # {}
    PROVE  /\ Max(LowerLevels(n, e)) \in LowerLevels(n, e)
           /\ \A l \in LowerLevels(n, e) : l <= Max(LowerLevels(n, e))
           /\ Max(LowerLevels(n, e)) \in {1, Gpus}
<1>. DEFINE T == LowerLevels(n, e)
<1>1. T \in SUBSET Levels(n, e)
  BY DEF LowerLevels
<1>2. T \subseteq Nat /\ IsFiniteSet(T)
  BY <1>1, LevelsFit, FS_Subset
<1>3. Max(T) \in T /\ \A l \in T : l <= Max(T)
  BY <1>2, MaxIsGreatest
<1>4. Max(T) < CurrentLanes(n, e) /\ Max(T) \in Levels(n, e)
  BY <1>3 DEF LowerLevels
<1>. HIDE DEF T
<1>5. Max(T) \in {1, Gpus}
  BY <1>4, LevelsFit, Constants
<1>. QED
  BY <1>3, <1>5 DEF T

LEMMA UpIsHigher ==
    ASSUME LanesInv, NEW n \in Nodes, NEW e, HigherLevels(n, e) # {}
    PROVE  /\ Min(HigherLevels(n, e)) \in HigherLevels(n, e)
           /\ Min(HigherLevels(n, e)) # Max(Levels(n, e))
                => Min(HigherLevels(n, e)) \in {1, Gpus}
<1>. DEFINE T == HigherLevels(n, e)
            x == Max(Levels(n, e))
<1>1. T \subseteq Levels(n, e)
  BY DEF HigherLevels
<1>2. T \subseteq Nat
  BY <1>1, LevelsFit
<1>3. Min(T) \in T
  BY <1>2, MinIsLeast
<1>4. x \in Levels(n, e) /\ \A l \in Levels(n, e) : l <= x
  BY LevelsFit, MaxIsGreatest
<1>5. Min(T) \in Levels(n, e)
  BY <1>1, <1>3
<1>. HIDE DEF T, x
<1>6. ASSUME Min(T) # x PROVE Min(T) \in {1, Gpus}
  <2>1. Min(T) \in {1, Gpus, 2 * Gpus} /\ x \in {1, Gpus, 2 * Gpus}
    BY <1>4, <1>5, LevelsFit
  <2>2. Min(T) <= x
    BY <1>4, <1>5
  <2>. QED
    BY <1>6, <2>1, <2>2, Constants
<1>. QED
  BY <1>3, <1>6 DEF T, x

LEMMA GuardTyped ==
    ASSUME LanesInv
    PROVE  GuardsAfter \in [Nodes -> GuardRecord]
<1>. SUFFICES ASSUME NEW n \in Nodes PROVE Guarded(n) \in GuardRecord
  BY RestIsTyped DEF GuardsAfter
<1>1. guard[n] \in GuardRecord
  BY RestIsTyped
<1>2. PICK e : Waits(n) \/ StepsDown(n, e) \/ StepsUp(n, e)
  BY GuardedIs
<1>3. CASE Waits(n)
  BY <1>1, <1>3 DEF Waits, GuardRecord
<1>4. CASE StepsDown(n, e)
  <2>1. Max(LowerLevels(n, e)) \in {1, Gpus}
    BY <1>4, DownIsLower DEF StepsDown
  <2>. QED
    BY <1>4, <2>1 DEF StepsDown, GuardRecord
<1>5. CASE StepsUp(n, e)
  <2>1. (IF Min(HigherLevels(n, e)) = Max(Levels(n, e)) THEN Unlimited
         ELSE Min(HigherLevels(n, e))) \in {1, Gpus, Unlimited}
    BY <1>5, UpIsHigher DEF StepsUp
  <2>. QED
    BY <1>5, <2>1 DEF StepsUp, GuardRecord
<1>. QED
  BY <1>2, <1>3, <1>4, <1>5

-----------------------------------------------------------------------------
LEMMA InitKeeps == Init => LanesInv
<1>. SUFFICES ASSUME Init PROVE LanesInv
  OBVIOUS
<1>1. run = [c \in Chunks |-> Pending] /\ inbox = [n \in Nodes |-> <<>>]
      /\ guard = [n \in Nodes |-> FreshGuard] /\ ceiling = [n \in Nodes |-> 2]
      /\ reservation = NoReservation /\ failedOn = [c \in Chunks |-> {}]
      /\ resting = {} /\ fails = 0
  BY DEF Init
<1>2. Whole \in Plans
  BY WholeFits DEF Fitting
<1>3. Pending \in RunRecord /\ Pending.at = "nowhere" /\ Pending.phase = "pending"
      /\ Pending.plan = Whole
  BY <1>2, Constants DEF Pending, RunRecord, Phases
<1>4. RunsFit(run)
  BY <1>1, <1>3, WholeFits DEF RunsFit, RunFits
<1>5. Laned(run)
  <2>1. \A n \in Nodes : RunsOn(run, n) = {} /\ Live(run, n) = {}
    BY <1>1, <1>3, Constants DEF RunsOn, Live
  <2>. QED
    BY <2>1 DEF Laned, Apart, Lone, Spread
<1>6. inbox \in [Nodes -> Seq(Chunks)] /\ Arrivals
  BY <1>1 DEF Arrivals
<1>7. guard \in [Nodes -> GuardRecord]
  BY <1>1 DEF FreshGuard, GuardRecord
<1>8. reservation \in Reservations
  BY <1>1 DEF NoReservation, Reservations
<1>. QED
  BY <1>1, <1>4, <1>5, <1>6, <1>7, <1>8 DEF LanesInv, Types

LEMMA TickKeeps ==
    ASSUME LanesInv, Tick
    PROVE  /\ LanesInv' /\ guard' = GuardsAfter /\ Follows(run')
           /\ UNCHANGED <<inbox, ceiling, failedOn, resting, fails>>
<1>1. PICK s \in Outcome(GuardsAfter) :
         guard' = GuardsAfter /\ run' = s.run /\ reservation' = s.reservation
  BY DEF Tick
<1>2. UNCHANGED <<inbox, ceiling, failedOn, resting, fails>>
  BY DEF Tick
<1>3. Types /\ Laned(run)
  BY DEF LanesInv
<1>4. GuardsAfter \in [Nodes -> GuardRecord]
  BY GuardTyped
<1>5. TurnState(s)
  BY <1>1, <1>3, <1>4, OutcomeFits
<1>6. RunsFit(run') /\ Laned(run') /\ Follows(run') /\ reservation' \in Reservations
  BY <1>1, <1>5 DEF TurnState
<1>7. Types'
  BY <1>1, <1>2, <1>3, <1>4, <1>6 DEF Types
<1>8. Arrivals'
  BY <1>2, <1>6, ArrivalsStay DEF Follows
<1>. QED
  BY <1>1, <1>2, <1>6, <1>7, <1>8 DEF LanesInv

LEMMA SpecLandsKeeps ==
    ASSUME LanesInv, NEW c \in Chunks, SpecLands(c)
    PROVE  LanesInv'
<1>. DEFINE n == run[c].at
<1>1. run[c].phase = "sending" /\ run' = [run EXCEPT ![c].phase = "inbox"]
      /\ inbox' = [inbox EXCEPT ![n] = Append(@, c)]
      /\ UNCHANGED <<guard, ceiling, reservation, failedOn, resting, fails>>
  BY DEF SpecLands, Phase
<1>2. n \in Nodes
  BY <1>1, RunHasNode
<1>3. RunsFit(run') /\ Laned(run') /\ OthersStay(run', c) /\ run'[c].at = n
      /\ run'[c].phase = "inbox"
  <2>1. RunsFit(run) /\ Laned(run)
    BY RestIsTyped
  <2>. DEFINE p == "inbox"
  <2>2. p \in Phases \ {"pending", "done", "rendering"}
        /\ run[c].phase \notin {"pending", "done", "tail"}
    BY <1>1 DEF Phases
  <2>3. run' = [run EXCEPT ![c].phase = p]
    BY <1>1
  <2>. HIDE DEF n, p
  <2>4. RunsFit(run') /\ Laned(run') /\ OthersStay(run', c)
    BY <2>1, <2>2, <2>3, PhaseMoves
  <2>5. run'[c].at = run[c].at /\ run'[c].phase = p
    <3>1. run \in [Chunks -> RunRecord]
      BY <2>1 DEF RunsFit
    <3>2. run'[c] = [run[c] EXCEPT !.phase = p] /\ run[c] \in RunRecord
      BY <2>3, <3>1
    <3>. QED
      BY <3>2 DEF RunRecord
  <2>. QED
    BY <2>4, <2>5 DEF n, p
<1>. HIDE DEF n
<1>4. inbox \in [Nodes -> Seq(Chunks)] /\ Arrivals
  BY RestIsTyped
<1>5. inbox' \in [Nodes -> Seq(Chunks)]
  BY <1>1, <1>2, <1>4
<1>6. inbox'[n] = Append(inbox[n], c) /\ inbox[n] \in Seq(Chunks)
  BY <1>1, <1>2, <1>4
<1>7. \A m \in Nodes : m # n => inbox'[m] = inbox[m]
  BY <1>1, <1>4
<1>8. \A m \in Nodes : \A i \in DOMAIN inbox[m] :
         /\ inbox[m][i] \in Chunks /\ inbox[m][i] # c
         /\ run'[inbox[m][i]].at = m /\ run'[inbox[m][i]].phase = "inbox"
         /\ \A j \in DOMAIN inbox[m] : inbox[m][i] = inbox[m][j] => i = j
  <2>. TAKE m \in Nodes
  <2>. TAKE i \in DOMAIN inbox[m]
  <2>1. inbox[m][i] \in Chunks
    BY <1>4
  <2>2. run[inbox[m][i]].at = m /\ run[inbox[m][i]].phase = "inbox"
        /\ \A j \in DOMAIN inbox[m] : inbox[m][i] = inbox[m][j] => i = j
    BY <1>4 DEF Arrivals
  <2>. QED
    BY <1>1, <1>3, <2>1, <2>2 DEF OthersStay
<1>9. Arrivals'
  <2>. SUFFICES ASSUME NEW m \in Nodes, NEW i \in DOMAIN inbox'[m]
                PROVE  /\ run'[inbox'[m][i]].at = m /\ run'[inbox'[m][i]].phase = "inbox"
                       /\ \A j \in DOMAIN inbox'[m] : inbox'[m][i] = inbox'[m][j] => i = j
    BY DEF Arrivals
  <2>1. CASE m # n
    BY <1>7, <1>8, <2>1
  <2>2. CASE m = n
    <3>. DEFINE b == inbox[n]
    <3>1. DOMAIN b = 1 .. Len(b) /\ DOMAIN inbox'[n] = 1 .. (Len(b) + 1) /\ Len(b) \in Nat
      BY <1>6
    <3>2. inbox'[n][Len(b) + 1] = c /\ \A j \in 1 .. Len(b) : inbox'[n][j] = b[j]
      BY <1>6
    <3>3. \A j \in 1 .. Len(b) : b[j] # c /\ run'[b[j]].at = n /\ run'[b[j]].phase = "inbox"
            /\ \A k \in 1 .. Len(b) : b[j] = b[k] => j = k
      BY <1>2, <1>8, <3>1
    <3>. HIDE DEF b
    <3>4. i \in 1 .. Len(b) \/ i = Len(b) + 1
      BY <2>2, <3>1
    <3>. QED
      BY <2>2, <1>3, <3>1, <3>2, <3>3, <3>4
  <2>. QED
    BY <2>1, <2>2
<1>. QED
  BY <1>1, <1>3, <1>5, <1>9, RestIsTyped DEF LanesInv, Types

LEMMA DispatchFailsKeeps ==
    ASSUME LanesInv, NEW c \in Chunks, DispatchFails(c)
    PROVE  LanesInv'
<1>1. run[c].phase = "sending" /\ run' = [run EXCEPT ![c] = Pending]
      /\ failedOn' = [failedOn EXCEPT ![c] = @ \cup {run[c].at}]
      /\ resting' = resting \cup {run[c].at} /\ fails' = fails + 1
      /\ UNCHANGED <<inbox, guard, ceiling, reservation>>
  BY DEF DispatchFails
<1>2. run[c].at \in Nodes
  BY <1>1, RunHasNode
<1>3. RunsFit(run') /\ Laned(run') /\ OthersStay(run', c)
  BY <1>1, RestIsTyped, RunIsOver
<1>4. Arrivals'
  BY <1>1, <1>3, ArrivalsIfNotHis
<1>5. failedOn' \in [Chunks -> SUBSET Nodes] /\ resting' \in SUBSET Nodes /\ fails' \in Nat
  BY <1>1, <1>2, RestIsTyped
<1>. QED
  BY <1>1, <1>3, <1>4, <1>5, RestIsTyped DEF LanesInv, Types

LEMMA RestEndsKeeps ==
    ASSUME LanesInv, NEW n \in Nodes, RestEnds(n)
    PROVE  LanesInv'
<1>1. resting' = resting \ {n} /\ UNCHANGED <<run, inbox, guard, ceiling, reservation, failedOn, fails>>
  BY DEF RestEnds
<1>2. Arrivals'
  BY <1>1, ArrivalsStay
<1>. QED
  BY <1>1, <1>2, RestIsTyped DEF LanesInv, Types

\* How many pinned renders of a node are on a card.
Load(n, g) == Cardinality({c \in Rendering(n) : run[c].gpu = g})

LEMMA RenderingFinite ==
    ASSUME NEW n, NEW S, S \subseteq Rendering(n)
    PROVE  IsFiniteSet(S) /\ Cardinality(S) \in Nat
<1>1. S \in SUBSET Chunks
  BY DEF Rendering
<1>2. IsFiniteSet(S)
  BY <1>1, FiniteConstants, FS_Subset
<1>. QED
  BY <1>2, FS_CardinalityType

\* pick_gpu picks a card that no other has fewer on.
LEMMA PickIsLeast ==
    ASSUME NEW n \in Nodes
    PROVE  /\ PickGpu(n) \in 1 .. Seen[n]
           /\ \A h \in 1 .. Seen[n] : Load(n, PickGpu(n)) <= Load(n, h)
<1>. DEFINE cards == 1 .. Seen[n]
            loads == {Load(n, g) : g \in cards}
            least == {g \in cards : \A h \in cards : Load(n, g) <= Load(n, h)}
<1>1. Seen[n] \in Nat /\ Seen[n] >= 1
  BY Constants
<1>2. loads \subseteq Nat
  BY RenderingFinite DEF Load
<1>3. loads # {}
  BY <1>1
<1>4. PICK m \in loads : \A k \in loads : m <= k
  BY <1>2, <1>3, LeastOfNat
<1>5. least # {}
  BY <1>4
<1>6. least \subseteq Nat
  BY <1>1
<1>7. PickGpu(n) = Min(least)
  BY DEF PickGpu, Load
<1>8. Min(least) \in least
  BY <1>5, <1>6, MinIsLeast
<1>. QED
  BY <1>7, <1>8

\* A run that starts to render keeps its place among those of its node.
LEMMA LaunchMoves ==
    ASSUME LanesInv, NEW n \in Nodes, Launch(n)
    PROVE  \E c \in Chunks :
             /\ c = Head(inbox[n]) /\ inbox[n] # <<>> /\ Startable(n, c)
             /\ run[c].at = n /\ run[c].phase = "inbox"
             /\ run'[c].at = n /\ run'[c].phase = "rendering" /\ run'[c].plan = run[c].plan
             /\ run'[c].gpu = (IF Pinned(c) THEN PickGpu(n) ELSE 0)
             /\ OthersStay(run', c) /\ RunsFit(run') /\ Laned(run')
             /\ inbox' = [inbox EXCEPT ![n] = Tail(@)]
             /\ UNCHANGED <<guard, ceiling, reservation, failedOn, resting, fails>>
<1>. DEFINE c == Head(inbox[n])
            v == [run[c] EXCEPT !.phase = "rendering",
                                !.gpu = IF Pinned(c) THEN PickGpu(n) ELSE 0]
<1>1. inbox[n] # <<>> /\ Startable(n, c) /\ inbox' = [inbox EXCEPT ![n] = Tail(@)]
      /\ UNCHANGED <<guard, ceiling, reservation, failedOn, resting, fails>>
      /\ run' = [run EXCEPT ![c].phase = "rendering",
                            ![c].gpu = IF Pinned(c) THEN PickGpu(n) ELSE 0]
  BY DEF Launch
<1>2. inbox[n] \in Seq(Chunks) /\ run \in [Chunks -> RunRecord] /\ Arrivals
  BY RestIsTyped
<1>3. c = inbox[n][1] /\ 1 \in DOMAIN inbox[n] /\ c \in Chunks
  BY <1>1, <1>2
<1>4. run[c].at = n /\ run[c].phase = "inbox"
  BY <1>2, <1>3 DEF Arrivals
<1>. HIDE DEF c
<1>5. run' = [run EXCEPT ![c] = v]
  BY <1>1, <1>2, <1>3
<1>6. run'[c] = v /\ OthersStay(run', c) /\ DOMAIN run' = Chunks
  BY <1>2, <1>3, <1>5 DEF OthersStay
<1>7. run[c] \in RunRecord
  BY <1>2, <1>3
<1>8. v.at = run[c].at /\ v.plan = run[c].plan /\ v.phase = "rendering"
      /\ v.gpu = (IF Pinned(c) THEN PickGpu(n) ELSE 0)
  BY <1>7 DEF RunRecord
<1>9. Pinned(c) <=> Pins(run[c].plan, Engine[c], n)
  BY <1>4 DEF Pinned, Pins
<1>10. PickGpu(n) \in 1 .. Seen[n] /\ Seen[n] \in 1 .. Gpus
  BY PickIsLeast, Constants
<1>11. v.gpu \in 0 .. Gpus
  BY <1>8, <1>10, Constants
<1>12. v \in RunRecord
  <2>. DEFINE w == IF Pinned(c) THEN PickGpu(n) ELSE 0
              u == run[c]
  <2>0. v = [u EXCEPT !.phase = "rendering", !.gpu = w] /\ v.gpu = w /\ u \in RunRecord
    BY <1>7, <1>8
  <2>. HIDE DEF u, v, w
  <2>1. v = [at |-> u.at, plan |-> u.plan, phase |-> "rendering", gpu |-> v.gpu]
    BY <2>0 DEF RunRecord
  <2>2. run[c].at \in Nodes \cup {"nowhere"} /\ run[c].plan \in Plans
    BY <1>7 DEF RunRecord
  <2>. QED
    BY <1>11, <2>1, <2>2 DEF RunRecord, Phases, u
<1>. HIDE DEF v
<1>13. RunsFit(run')
  <2>1. RunsFit(run) /\ run' \in [Chunks -> RunRecord]
    BY <1>2, <1>5, <1>12, RestIsTyped
  <2>2. RunFits(run', c)
    <3>1. RunFits(run, c)
      BY <1>3, <2>1 DEF RunsFit
    <3>. QED
      BY <1>4, <1>6, <1>8, <1>9, <1>10, <1>12, <3>1, Constants DEF RunFits
  <2>3. ASSUME NEW d \in Chunks, d # c PROVE RunFits(run', d)
    <3>1. run'[d] = run[d] /\ RunFits(run, d)
      BY <1>6, <2>1, <2>3 DEF OthersStay, RunsFit
    <3>. QED
      BY <3>1 DEF RunFits
  <2>. QED
    BY <2>1, <2>2, <2>3 DEF RunsFit
<1>14. Laned(run')
  <2>1. RunsFit(run) /\ Laned(run)
    BY RestIsTyped
  <2>. QED
    BY <1>3, <1>4, <1>6, <1>8, <2>1, MovedIsLaned
<1>. QED
  BY <1>1, <1>3, <1>4, <1>6, <1>8, <1>13, <1>14 DEF c

LEMMA LaunchKeeps ==
    ASSUME LanesInv, NEW n \in Nodes, Launch(n)
    PROVE  LanesInv'
<1>1. PICK c \in Chunks :
             /\ c = Head(inbox[n]) /\ inbox[n] # <<>>
             /\ run[c].at = n /\ run[c].phase = "inbox"
             /\ OthersStay(run', c) /\ RunsFit(run') /\ Laned(run')
             /\ inbox' = [inbox EXCEPT ![n] = Tail(@)]
             /\ UNCHANGED <<guard, ceiling, reservation, failedOn, resting, fails>>
  BY LaunchMoves
<1>2. inbox \in [Nodes -> Seq(Chunks)] /\ Arrivals
  BY RestIsTyped
<1>3. inbox' \in [Nodes -> Seq(Chunks)]
  BY <1>1, <1>2
<1>. DEFINE b == inbox[n]
<1>4. inbox'[n] = Tail(b) /\ b \in Seq(Chunks) /\ b # <<>> /\ c = b[1]
  BY <1>1, <1>2
<1>5. \A m \in Nodes : m # n => inbox'[m] = inbox[m]
  BY <1>1, <1>2
<1>6. \A m \in Nodes : \A i \in DOMAIN inbox[m] :
         /\ inbox[m][i] \in Chunks
         /\ inbox[m][i] # c => run'[inbox[m][i]].at = m /\ run'[inbox[m][i]].phase = "inbox"
         /\ m # n => inbox[m][i] # c
         /\ \A j \in DOMAIN inbox[m] : inbox[m][i] = inbox[m][j] => i = j
  <2>. TAKE m \in Nodes
  <2>. TAKE i \in DOMAIN inbox[m]
  <2>1. inbox[m][i] \in Chunks
    BY <1>2
  <2>2. run[inbox[m][i]].at = m /\ run[inbox[m][i]].phase = "inbox"
        /\ \A j \in DOMAIN inbox[m] : inbox[m][i] = inbox[m][j] => i = j
    BY <1>2 DEF Arrivals
  <2>. QED
    BY <1>1, <2>1, <2>2 DEF OthersStay
<1>7. Arrivals'
  <2>. SUFFICES ASSUME NEW m \in Nodes, NEW i \in DOMAIN inbox'[m]
                PROVE  /\ run'[inbox'[m][i]].at = m /\ run'[inbox'[m][i]].phase = "inbox"
                       /\ \A j \in DOMAIN inbox'[m] : inbox'[m][i] = inbox'[m][j] => i = j
    BY DEF Arrivals
  <2>1. CASE m # n
    BY <1>5, <1>6, <2>1
  <2>2. CASE m = n
    <3>1. DOMAIN b = 1 .. Len(b) /\ DOMAIN inbox'[n] = 1 .. (Len(b) - 1)
          /\ Len(b) \in Nat /\ Len(b) >= 1
      BY <1>4
    <3>2. \A j \in 1 .. (Len(b) - 1) : inbox'[n][j] = b[j + 1]
      BY <1>4
    <3>3. \A j \in 1 .. Len(b) :
            /\ b[j] # c => run'[b[j]].at = n /\ run'[b[j]].phase = "inbox"
            /\ \A k \in 1 .. Len(b) : b[j] = b[k] => j = k
      BY <1>6, <3>1
    <3>4. c = b[1]
      BY <1>4
    <3>. HIDE DEF b
    <3>5. \A j \in 1 .. (Len(b) - 1) : b[j + 1] # c
      BY <3>1, <3>3, <3>4
    <3>6. i \in 1 .. (Len(b) - 1) /\ i + 1 \in 1 .. Len(b) /\ inbox'[n][i] = b[i + 1]
      BY <2>2, <3>1, <3>2
    <3>7. run'[b[i + 1]].at = n /\ run'[b[i + 1]].phase = "inbox"
      BY <3>3, <3>5, <3>6
    <3>8. ASSUME NEW j \in 1 .. (Len(b) - 1), b[i + 1] = b[j + 1] PROVE i = j
      <4>1. j + 1 \in 1 .. Len(b)
        BY <3>1
      <4>2. i + 1 = j + 1
        BY <3>3, <3>6, <3>8, <4>1
      <4>. QED
        BY <4>2, <3>6
    <3>9. \A j \in 1 .. (Len(b) - 1) : inbox'[n][i] = inbox'[n][j] => i = j
      BY <3>2, <3>6, <3>8
    <3>. QED
      BY <2>2, <3>1, <3>6, <3>7, <3>9
  <2>. QED
    BY <2>1, <2>2
<1>. QED
  BY <1>1, <1>3, <1>7, RestIsTyped DEF LanesInv, Types

LEMMA PhaseKeeps ==
    ASSUME LanesInv, NEW c \in Chunks,
           NEW p \in {"ended", "oom", "tail"},
           run[c].phase \in {"rendering", "ended"},
           run' = [run EXCEPT ![c].phase = p],
           fails' \in Nat,
           UNCHANGED <<inbox, guard, ceiling, reservation, failedOn, resting>>
    PROVE  LanesInv'
<1>1. RunsFit(run) /\ Laned(run)
  BY RestIsTyped
<1>2. p \in Phases \ {"pending", "done", "rendering"}
      /\ run[c].phase \notin {"pending", "done", "tail"} /\ run[c].phase # "inbox"
  BY DEF Phases
<1>3. RunsFit(run') /\ Laned(run') /\ OthersStay(run', c)
  BY <1>1, <1>2, PhaseMoves
<1>4. Arrivals'
  BY <1>2, <1>3, ArrivalsIfNotHis
<1>. QED
  BY <1>3, <1>4, RestIsTyped DEF LanesInv, Types

LEMMA ReadsOomKeeps ==
    ASSUME LanesInv, NEW c \in Chunks, ReadsOom(c)
    PROVE  LanesInv'
<1>. DEFINE n == run[c].at
<1>1. run[c].phase = "oom" /\ run' = [run EXCEPT ![c] = Pending]
      /\ failedOn' = [failedOn EXCEPT ![c] = @ \cup {n}]
      /\ (ceiling' = ceiling \/ (PerGpu(n) > 1 /\ ceiling' = [ceiling EXCEPT ![n] = PerGpu(n) - 1]))
      /\ UNCHANGED <<inbox, guard, reservation, resting, fails>>
  BY DEF ReadsOom
<1>2. n \in Nodes
  BY <1>1, RunHasNode
<1>3. RunsFit(run') /\ Laned(run') /\ OthersStay(run', c)
  BY <1>1, RestIsTyped, RunIsOver
<1>4. Arrivals'
  BY <1>1, <1>3, ArrivalsIfNotHis
<1>5. PerGpu(n) \in 0 .. 2
  BY <1>2, RestIsTyped, Constants DEF PerGpu, Least
<1>6. ceiling' \in [Nodes -> 0 .. 2]
  <2>1. PerGpu(n) > 1 => PerGpu(n) - 1 \in 0 .. 2
    BY <1>5
  <2>. QED
    BY <1>1, <2>1, RestIsTyped
<1>7. failedOn' \in [Chunks -> SUBSET Nodes]
  BY <1>1, <1>2, RestIsTyped
<1>. QED
  BY <1>1, <1>3, <1>4, <1>6, <1>7, RestIsTyped DEF LanesInv, Types

LEMMA ReadsPinFailedKeeps ==
    ASSUME LanesInv, NEW c \in Chunks, ReadsPinFailed(c)
    PROVE  LanesInv'
<1>1. ceiling' = [ceiling EXCEPT ![run[c].at] = 0]
      /\ UNCHANGED <<run, inbox, guard, reservation, failedOn, resting, fails>>
  BY DEF ReadsPinFailed
<1>2. Arrivals'
  BY <1>1, ArrivalsStay
<1>3. ceiling' \in [Nodes -> 0 .. 2]
  <2>1. ceiling \in [Nodes -> 0 .. 2] /\ 0 \in 0 .. 2
    BY RestIsTyped
  <2>. QED
    BY <1>1, <2>1
<1>. QED
  BY <1>1, <1>2, <1>3, RestIsTyped DEF LanesInv, Types

LEMMA FinishKeeps ==
    ASSUME LanesInv, NEW c \in Chunks, Finish(c)
    PROVE  LanesInv'
<1>1. run[c].phase = "tail" /\ run' = [run EXCEPT ![c] = Done]
      /\ failedOn' = [failedOn EXCEPT ![c] = {}] /\ resting' = resting \ {run[c].at}
      /\ UNCHANGED <<inbox, guard, ceiling, reservation, fails>>
  BY DEF Finish
<1>2. RunsFit(run') /\ Laned(run') /\ OthersStay(run', c)
  BY <1>1, RestIsTyped, RunIsOver
<1>3. Arrivals'
  BY <1>1, <1>2, ArrivalsIfNotHis
<1>4. failedOn' \in [Chunks -> SUBSET Nodes] /\ resting' \in SUBSET Nodes
  BY <1>1, RestIsTyped
<1>. QED
  BY <1>1, <1>2, <1>3, <1>4, RestIsTyped DEF LanesInv, Types

LEMMA AnotherKeeps ==
    ASSUME LanesInv, NEW c \in Chunks, Another(c)
    PROVE  LanesInv'
<1>1. run[c] = Done /\ run' = [run EXCEPT ![c] = Pending]
      /\ UNCHANGED <<inbox, guard, ceiling, reservation, failedOn, resting, fails>>
  BY DEF Another
<1>2. run[c].phase # "inbox"
  BY <1>1 DEF Done, Pending
<1>3. RunsFit(run') /\ Laned(run') /\ OthersStay(run', c)
  BY <1>1, RestIsTyped, RunIsOver
<1>4. Arrivals'
  BY <1>1, <1>2, <1>3, ArrivalsIfNotHis
<1>. QED
  BY <1>1, <1>3, <1>4, RestIsTyped DEF LanesInv, Types

LEMMA SettleKeeps ==
    ASSUME LanesInv, NEW n \in Nodes, SettlePasses(n)
    PROVE  LanesInv' /\ \A m \in Nodes : guard'[m].limit = guard[m].limit
<1>1. guard' = [guard EXCEPT ![n].settling = FALSE, ![n].calm = IF @ = "new" THEN "ripe" ELSE @]
      /\ UNCHANGED <<run, inbox, ceiling, reservation, failedOn, resting, fails>>
  BY DEF SettlePasses
<1>2. guard \in [Nodes -> GuardRecord] /\ guard[n] \in GuardRecord
  BY RestIsTyped
<1>. DEFINE v == [guard[n] EXCEPT !.settling = FALSE, !.calm = IF @ = "new" THEN "ripe" ELSE @]
<1>3. guard' = [guard EXCEPT ![n] = v]
  BY <1>1, <1>2
<1>4. v \in GuardRecord /\ v.limit = guard[n].limit
  BY <1>2 DEF GuardRecord
<1>. HIDE DEF v
<1>5. guard' \in [Nodes -> GuardRecord] /\ \A m \in Nodes : guard'[m].limit = guard[m].limit
  BY <1>2, <1>3, <1>4
<1>6. Arrivals'
  BY <1>1, ArrivalsStay
<1>. QED
  BY <1>1, <1>5, <1>6, RestIsTyped DEF LanesInv, Types

-----------------------------------------------------------------------------
LEMMA LanesStep ==
    ASSUME LanesInv, [Next]_vars
    PROVE  LanesInv'
<1>1. CASE Tick
  BY <1>1, TickKeeps
<1>2. ASSUME NEW n \in Nodes, Launch(n) \/ RestEnds(n) \/ SettlePasses(n)
      PROVE  LanesInv'
  BY <1>2, LaunchKeeps, RestEndsKeeps, SettleKeeps
<1>3. ASSUME NEW c \in Chunks,
             \/ SpecLands(c) \/ DispatchFails(c) \/ RenderEnds(c) \/ OutOfMemory(c)
             \/ ReadsEnded(c) \/ ReadsOom(c) \/ ReadsPinFailed(c) \/ Finish(c) \/ Another(c)
      PROVE  LanesInv'
  <2>1. CASE SpecLands(c)
    BY <2>1, SpecLandsKeeps
  <2>2. CASE DispatchFails(c)
    BY <2>2, DispatchFailsKeeps
  <2>3. CASE RenderEnds(c)
    <3>1. run[c].phase = "rendering" /\ run' = [run EXCEPT ![c].phase = "ended"]
          /\ UNCHANGED <<inbox, guard, ceiling, reservation, failedOn, resting, fails>>
      BY <2>3 DEF RenderEnds, Phase
    <3>2. fails' \in Nat
      BY <3>1, RestIsTyped
    <3>. QED
      BY <3>1, <3>2, PhaseKeeps
  <2>4. CASE OutOfMemory(c)
    <3>1. run[c].phase = "rendering" /\ run' = [run EXCEPT ![c].phase = "oom"]
          /\ fails' = fails + 1
          /\ UNCHANGED <<inbox, guard, ceiling, reservation, failedOn, resting>>
      BY <2>4 DEF OutOfMemory, Phase
    <3>2. fails' \in Nat
      BY <3>1, RestIsTyped
    <3>. QED
      BY <3>1, <3>2, PhaseKeeps
  <2>5. CASE ReadsEnded(c)
    <3>1. run[c].phase = "ended" /\ run' = [run EXCEPT ![c].phase = "tail"]
          /\ UNCHANGED <<inbox, guard, ceiling, reservation, failedOn, resting, fails>>
      BY <2>5 DEF ReadsEnded, Phase
    <3>2. fails' \in Nat
      BY <3>1, RestIsTyped
    <3>. QED
      BY <3>1, <3>2, PhaseKeeps
  <2>6. CASE ReadsOom(c)
    BY <2>6, ReadsOomKeeps
  <2>7. CASE ReadsPinFailed(c)
    BY <2>7, ReadsPinFailedKeeps
  <2>8. CASE Finish(c)
    BY <2>8, FinishKeeps
  <2>9. CASE Another(c)
    BY <2>9, AnotherKeeps
  <2>. QED
    BY <1>3, <2>1, <2>2, <2>3, <2>4, <2>5, <2>6, <2>7, <2>8, <2>9
<1>4. CASE UNCHANGED vars
  <2>1. UNCHANGED <<run, inbox, guard, ceiling, reservation, failedOn, resting, fails>>
    BY <1>4 DEF vars
  <2>2. Arrivals'
    BY <2>1, ArrivalsStay
  <2>. QED
    BY <2>1, <2>2, RestIsTyped DEF LanesInv, Types
<1>. QED
  BY <1>1, <1>2, <1>3, <1>4 DEF Next

(* The lanes' inductive invariant holds in every reachable state: types, what
   a node's exclusive runs have in common, and the inboxes. *)
THEOREM LanesInvariant == Spec => []LanesInv
<1>1. Init => LanesInv
  BY InitKeeps
<1>2. LanesInv /\ [Next]_vars => LanesInv'
  BY LanesStep
<1>. QED
  BY <1>1, <1>2, PTL DEF Spec

(* Every variable stays within its type: a plan has lanes for the cards, a
   limit is one of the levels, a reservation names a node of the fleet. *)
THEOREM LanesTyped == Spec => []TypeOK
<1>1. ASSUME LanesInv PROVE TypeOK
  <2>1. ASSUME NEW c \in Chunks
        PROVE  /\ run[c].at \in Nodes \cup {"nowhere"} /\ run[c].gpu \in 0 .. Gpus
               /\ run[c].plan.lanes \in 1 .. (2 * Gpus) /\ run[c].plan.pin \in BOOLEAN
    <3>1. run[c] \in RunRecord
      BY <1>1, RestIsTyped
    <3>2. run[c].plan \in Plans
      BY <3>1 DEF RunRecord
    <3>. QED
      BY <3>1, <3>2 DEF RunRecord, Plans
  <2>2. ASSUME NEW n \in Nodes
        PROVE  guard[n].limit \in 1 .. Unlimited /\ ceiling[n] \in 0 .. 2
    <3>1. guard[n] \in GuardRecord /\ ceiling[n] \in 0 .. 2
      BY <1>1, RestIsTyped
    <3>. QED
      BY <3>1, Constants DEF GuardRecord
  <2>3. reservation.node \in Nodes \cup {"none"} /\ resting \subseteq Nodes
    <3>1. reservation \in Reservations /\ resting \in SUBSET Nodes
      BY <1>1, RestIsTyped
    <3>. QED
      BY <3>1 DEF Reservations
  <2>. QED
    BY <2>1, <2>2, <2>3 DEF TypeOK
<1>2. LanesInv => TypeOK
  BY <1>1
<1>. QED
  BY <1>2, LanesInvariant, PTL

\* A run whose spec waits, or that renders, is live on its node.
LEMMA WaitersAreLive ==
    ASSUME LanesInv, NEW n \in Nodes
    PROVE  /\ Rendering(n) \subseteq Live(run, n)
           /\ \A i \in DOMAIN inbox[n] : inbox[n][i] \in Live(run, n) /\ inbox[n][i] \notin Rendering(n)
<1>1. Rendering(n) \subseteq Live(run, n)
  BY DEF Rendering, Live, RunsOn
<1>2. ASSUME NEW i \in DOMAIN inbox[n]
      PROVE  inbox[n][i] \in Live(run, n) /\ inbox[n][i] \notin Rendering(n)
  <2>1. inbox[n][i] \in Chunks
    <3>1. inbox[n] \in Seq(Chunks)
      BY RestIsTyped
    <3>. QED
      BY <3>1
  <2>2. run[inbox[n][i]].at = n /\ run[inbox[n][i]].phase = "inbox"
    BY RestIsTyped DEF Arrivals
  <2>. QED
    BY <2>1, <2>2 DEF Rendering, Live, RunsOn
<1>. QED
  BY <1>1, <1>2

(* An exclusive spec starts when it arrives: among the runs of its node that
   render or came before it, one was sent last, and was planned with a lane
   for every one. *)
THEOREM SentStarts == Spec => []SentExclusiveStarts
<1>1. ASSUME LanesInv PROVE SentExclusiveStarts
  <2>. SUFFICES ASSUME NEW n \in Nodes, NEW i \in DOMAIN inbox[n]
                PROVE  LET c == inbox[n][i]
                           before == Rendering(n) \cup {inbox[n][j] : j \in 1 .. (i - 1)}
                       IN \/ c \in Shared \/ Seen[n] < 2
                          \/ before \cap Shared = {} /\ Cardinality(before) < LaneCap(c)
                          \/ \E d \in before : run[d].plan.lanes > run[c].plan.lanes
    BY DEF SentExclusiveStarts
  <2>. DEFINE c == inbox[n][i]
              before == Rendering(n) \cup {inbox[n][j] : j \in 1 .. (i - 1)}
              S == before \cup {c}
  <2>. SUFFICES ASSUME c \notin Shared, Seen[n] >= 2,
                       ~ \E d \in before : run[d].plan.lanes > run[c].plan.lanes
                PROVE  before \cap Shared = {} /\ Cardinality(before) < LaneCap(c)
    <3>1. Seen[n] \in Nat
      BY Constants
    <3>. QED
      BY <3>1
  <2>1. inbox[n] \in Seq(Chunks)
    BY <1>1, RestIsTyped
  <2>2. DOMAIN inbox[n] = 1 .. Len(inbox[n]) /\ Len(inbox[n]) \in Nat /\ i \in Nat
        /\ \A j \in 1 .. (i - 1) : j \in DOMAIN inbox[n] /\ j # i
    BY <2>1
  <2>3. c \in Live(run, n) /\ before \subseteq Live(run, n)
    BY <1>1, <2>2, WaitersAreLive
  <2>4. c \notin before
    <3>1. c \notin Rendering(n)
      BY <1>1, WaitersAreLive
    <3>2. \A j \in 1 .. (i - 1) : inbox[n][j] # c
      BY <1>1, <2>2, RestIsTyped DEF Arrivals
    <3>. QED
      BY <3>1, <3>2
  <2>. HIDE DEF before
  <2>5. run[c].at = n /\ c \in Chunks
    BY <2>3 DEF Live, RunsOn
  <2>. HIDE DEF c
  <2>6. Apart(run, n) /\ Spread(run, n)
    BY <1>1, RestIsTyped DEF Laned
  <2>7. Live(run, n) \cap Shared = {}
    BY <2>3, <2>6 DEF Apart, Live
  <2>8. S \in SUBSET (Live(run, n) \ Shared) /\ S # {}
    BY <2>3, <2>7
  <2>9. PICK d \in S : Cardinality(S) <= run[d].plan.lanes
    BY <2>6, <2>8 DEF Spread
  <2>10. IsFiniteSet(before) /\ Cardinality(before) \in Nat /\ Cardinality(S) = Cardinality(before) + 1
    <3>1. IsFiniteSet(before)
      BY <2>3, RunsFinite, FS_Subset
    <3>. QED
      BY <2>4, <3>1, FS_CardinalityType, FS_AddElement
  <2>11. \A e \in S : run[e].plan.lanes \in Nat
    <3>. TAKE e \in S
    <3>1. e \in Chunks
      BY <2>8 DEF Live, RunsOn
    <3>2. run[e].plan \in Plans
      BY <1>1, <3>1, RestIsTyped DEF RunRecord
    <3>. QED
      BY <3>2, Constants DEF Plans
  <2>12. run[d].plan.lanes <= run[c].plan.lanes
    <3>1. d = c \/ d \in before
      OBVIOUS
    <3>2. c \in S
      OBVIOUS
    <3>. HIDE DEF S
    <3>3. run[c].plan.lanes \in Nat /\ run[d].plan.lanes \in Nat
      BY <2>11, <3>2
    <3>4. d \in before => ~ (run[d].plan.lanes > run[c].plan.lanes)
      BY DEF c
    <3>. QED
      BY <3>1, <3>3, <3>4
  <2>13. Cardinality(before) < run[c].plan.lanes
    <3>1. c \in S
      OBVIOUS
    <3>. HIDE DEF S
    <3>2. run[c].plan.lanes \in Nat /\ run[d].plan.lanes \in Nat
      BY <2>11, <3>1
    <3>. QED
      BY <2>9, <2>10, <2>12, <3>2
  <2>14. LaneCap(c) = run[c].plan.lanes
    <3>1. Fitting(run[c].plan, Engine[c])
      BY <1>1, <2>5, RestIsTyped DEF RunsFit, RunFits
    <3>2. run[c].plan.pin => Pinned(c)
      BY <2>5, <3>1 DEF Fitting, Pinned
    <3>. QED
      BY <3>2 DEF LaneCap
  <2>. QED
    BY <2>3, <2>7, <2>13, <2>14 DEF c
<1>2. LanesInv => SentExclusiveStarts
  BY <1>1
<1>. QED
  BY <1>2, LanesInvariant, PTL

-----------------------------------------------------------------------------
(***************************************************************************)
(* The cards.  An agent that sees some of a node's cards and not all       *)
(* spreads the lanes of a plan over fewer of them: what follows is about   *)
(* agents that see every card, or one.                                     *)
(***************************************************************************)

SeesAllOrOne == \A n \in Nodes : Seen[n] \in {1, Gpus}

\* The exclusive renders on a card.
Here(n, g) == {c \in Rendering(n) \ Shared : OnCard(c, g)}

\* Renders side by side on a node of several cards are pinned.
OnePinned ==
    Gpus > 1 => \A n \in Nodes : \A c, d \in Rendering(n) \ Shared : c # d => Pinned(c)

CardsInv == LanesInv /\ OnePinned /\ CardsAreNotShared

\* What a plan puts on one card.
LEMMA ScenesOfPlan ==
    ASSUME NEW plan, NEW e, Fitting(plan, e)
    PROVE  /\ ScenesPerCard(plan.lanes) \in {1, 2}
           /\ Gpus = 1 => ScenesPerCard(plan.lanes) = plan.lanes
           /\ Gpus > 1 /\ plan.lanes = Gpus => ScenesPerCard(plan.lanes) = 1
           /\ Gpus > 1 /\ plan.lanes = 2 * Gpus => ScenesPerCard(plan.lanes) = 2
<1>1. plan.lanes \in 1 .. (2 * Gpus)
  BY DEF Fitting, Plans
<1>2. CASE Gpus = 1
  BY <1>1, <1>2, OnOneCard
<1>3. CASE Gpus > 1
  <2>1. plan.lanes \in {1, Gpus, 2 * Gpus}
    BY <1>3 DEF Fitting, Plans
  <2>. QED
    BY <1>3, <2>1, OnOneCard, Constants
<1>. QED
  BY <1>2, <1>3, Constants

LEMMA HereFinite ==
    ASSUME NEW n, NEW g
    PROVE  IsFiniteSet(Here(n, g)) /\ Cardinality(Here(n, g)) \in Nat
  BY RenderingFinite DEF Here

LEMMA CardsSay ==
    CardsAreNotShared <=>
      \A n \in Nodes, g \in 1 .. Gpus :
         Cardinality(Here(n, g)) > 1 =>
             /\ \E c \in Here(n, g) : Cardinality(Here(n, g)) <= ScenesPerCard(run[c].plan.lanes)
             /\ Gpus > 1 => \A c \in Here(n, g) : run[c].plan.pin
  BY DEF CardsAreNotShared, Here

\* No card holds more than two.
LEMMA AtMostTwo ==
    ASSUME CardsInv, NEW n \in Nodes, NEW g \in 1 .. Gpus
    PROVE  Cardinality(Here(n, g)) <= 2
<1>. SUFFICES ASSUME Cardinality(Here(n, g)) > 1 PROVE Cardinality(Here(n, g)) <= 2
  BY HereFinite
<1>1. PICK c \in Here(n, g) : Cardinality(Here(n, g)) <= ScenesPerCard(run[c].plan.lanes)
  BY CardsSay DEF CardsInv
<1>2. c \in Chunks
  BY DEF Here, Rendering
<1>3. Fitting(run[c].plan, Engine[c])
  BY <1>2, RestIsTyped DEF CardsInv, RunsFit, RunFits
<1>4. ScenesPerCard(run[c].plan.lanes) \in {1, 2}
  BY <1>3, ScenesOfPlan
<1>. QED
  BY <1>1, <1>4, HereFinite

\* Steps that start no exclusive render.
LEMMA NoNewRender ==
    ASSUME CardsInv,
           \A c \in Chunks \ Shared : run'[c].phase = "rendering" => run'[c] = run[c]
    PROVE  OnePinned' /\ CardsAreNotShared'
<1>1. \A n \in Nodes : Rendering(n)' \ Shared \subseteq Rendering(n) \ Shared
         /\ \A c \in Rendering(n)' \ Shared : run'[c] = run[c]
  BY DEF Rendering
<1>2. OnePinned'
  <2>. SUFFICES ASSUME Gpus > 1, NEW n \in Nodes, NEW c \in Rendering(n)' \ Shared,
                       NEW d \in Rendering(n)' \ Shared, c # d
                PROVE  Pinned(c)'
    BY DEF OnePinned
  <2>1. c \in Rendering(n) \ Shared /\ d \in Rendering(n) \ Shared /\ run'[c] = run[c]
    BY <1>1
  <2>2. Pinned(c)
    BY <2>1 DEF CardsInv, OnePinned
  <2>. QED
    BY <2>1, <2>2 DEF Pinned
<1>3. ASSUME NEW n \in Nodes, NEW g \in 1 .. Gpus, Cardinality(Here(n, g)') > 1
      PROVE  /\ \E c \in Here(n, g)' : Cardinality(Here(n, g)') <= ScenesPerCard(run'[c].plan.lanes)
             /\ Gpus > 1 => \A c \in Here(n, g)' : run'[c].plan.pin
  <2>. DEFINE H == Here(n, g)
              K == Here(n, g)'
  <2>1. K \subseteq H /\ \A c \in K : run'[c] = run[c]
    BY <1>1 DEF Here, OnCard
  <2>2. IsFiniteSet(H) /\ Cardinality(H) \in Nat /\ Cardinality(H) <= 2
    BY HereFinite, AtMostTwo
  <2>. HIDE DEF H, K
  <2>3. IsFiniteSet(K) /\ Cardinality(K) <= Cardinality(H) /\ Cardinality(K) \in Nat
    BY <2>1, <2>2, FS_Subset, FS_CardinalityType
  <2>4. Cardinality(K) > 1
    BY <1>3 DEF K
  <2>5. Cardinality(K) = Cardinality(H) /\ Cardinality(H) > 1
    BY <2>2, <2>3, <2>4
  <2>6. K = H
    BY <2>1, <2>2, <2>5, FS_Subset
  <2>7. /\ \E c \in H : Cardinality(H) <= ScenesPerCard(run[c].plan.lanes)
        /\ Gpus > 1 => \A c \in H : run[c].plan.pin
    BY <2>5, CardsSay DEF CardsInv, H
  <2>8. /\ \E c \in K : Cardinality(K) <= ScenesPerCard(run'[c].plan.lanes)
        /\ Gpus > 1 => \A c \in K : run'[c].plan.pin
    BY <2>1, <2>6, <2>7
  <2>. QED
    BY <2>8 DEF K
<1>4. CardsAreNotShared'
  BY <1>3 DEF CardsAreNotShared, Here
<1>. QED
  BY <1>2, <1>4

\* A set of two or more has two.
LEMMA TwoOf ==
    ASSUME NEW S, IsFiniteSet(S), Cardinality(S) >= 2
    PROVE  \E a, b \in S : a # b
<1>1. S # {}
  BY FS_EmptySet
<1>2. PICK a \in S : TRUE
  BY <1>1
<1>3. Cardinality(S \ {a}) = Cardinality(S) - 1 /\ IsFiniteSet(S \ {a}) /\ Cardinality(S) \in Nat
  BY <1>2, FS_RemoveElement, FS_CardinalityType
<1>4. S \ {a} # {}
  BY <1>3, FS_EmptySet
<1>. QED
  BY <1>2, <1>4

\* With one pinned render on every card there are as many as cards; with two,
\* twice as many.
LEMMA Pigeons ==
    ASSUME NEW n, NEW k \in {1, 2}, \A g \in 1 .. Gpus : Load(n, g) >= k
    PROVE  Cardinality(Rendering(n)) >= Gpus * k
<1>. DEFINE On(g) == {c \in Rendering(n) : run[c].gpu = g}
            D == (1 .. Gpus) \X (1 .. k)
<1>1. \A g \in 1 .. Gpus : IsFiniteSet(On(g)) /\ Cardinality(On(g)) \in Nat /\ Cardinality(On(g)) >= k
  BY RenderingFinite DEF Load
<1>2. ASSUME NEW g \in 1 .. Gpus
      PROVE  \E p : p[1] \in On(g) /\ (k = 2 => p[2] \in On(g) /\ p[1] # p[2])
  <2>1. On(g) # {}
    BY <1>1, FS_EmptySet
  <2>2. PICK a \in On(g) : TRUE
    BY <2>1
  <2>3. CASE k = 1
    <3>. DEFINE p == <<a, a>>
    <3>1. p[1] \in On(g) /\ k # 2
      BY <2>3
    <3>. QED
      BY <3>1
  <2>4. CASE k = 2
    <3>. DEFINE O == On(g)
    <3>1. IsFiniteSet(O) /\ Cardinality(O) >= 2
      BY <1>1, <2>4
    <3>. HIDE DEF O
    <3>2. PICK x, y \in O : x # y
      BY <3>1, TwoOf
    <3>. DEFINE p == <<x, y>>
    <3>3. p[1] \in O /\ p[2] \in O /\ p[1] # p[2]
      BY <3>2
    <3>. HIDE DEF p
    <3>. QED
      BY <3>3 DEF O
  <2>. QED
    BY <2>3, <2>4
<1>. DEFINE pair == [g \in 1 .. Gpus |->
                       CHOOSE p : p[1] \in On(g) /\ (k = 2 => p[2] \in On(g) /\ p[1] # p[2])]
            f == [x \in D |-> pair[x[1]][x[2]]]
<1>3. \A g \in 1 .. Gpus : pair[g][1] \in On(g) /\ (k = 2 => pair[g][2] \in On(g) /\ pair[g][1] # pair[g][2])
  BY <1>2
<1>. HIDE DEF pair
<1>4. ASSUME NEW x \in D
      PROVE  f[x] \in Rendering(n) /\ run[f[x]].gpu = x[1] /\ x = <<x[1], x[2]>>
             /\ x[1] \in 1 .. Gpus /\ x[2] \in 1 .. k
  <2>1. x[1] \in 1 .. Gpus /\ x[2] \in 1 .. k /\ x = <<x[1], x[2]>>
    OBVIOUS
  <2>2. x[2] = 1 \/ (k = 2 /\ x[2] = 2)
    BY <2>1
  <2>3. pair[x[1]][x[2]] \in On(x[1])
    BY <1>3, <2>1, <2>2
  <2>. QED
    BY <2>1, <2>3
<1>5. ASSUME NEW x \in D, NEW y \in D, f[x] = f[y] PROVE x = y
  <2>1. x[1] = y[1]
    BY <1>4, <1>5
  <2>2. x[2] \in 1 .. k /\ y[2] \in 1 .. k /\ x[1] \in 1 .. Gpus
    BY <1>4
  <2>3. f[x] = pair[x[1]][x[2]] /\ f[y] = pair[x[1]][y[2]]
    BY <2>1
  <2>4. x[2] # y[2] => k = 2 /\ {x[2], y[2]} = {1, 2}
    BY <2>2
  <2>5. x[2] = y[2]
    BY <1>3, <1>5, <2>2, <2>3, <2>4
  <2>. QED
    BY <1>4, <2>1, <2>5
<1>6. f \in Injection(D, Rendering(n))
  <2>1. f \in [D -> Rendering(n)]
    BY <1>4
  <2>. HIDE DEF f, D
  <2>. QED
    BY <1>5, <2>1 DEF Injection, IsInjective
<1>7. IsFiniteSet(Rendering(n)) /\ Cardinality(Rendering(n)) \in Nat
  BY RenderingFinite
<1>8. Cardinality(D) <= Cardinality(Rendering(n))
  BY <1>6, <1>7, FS_Injection
<1>9. Cardinality(D) = Gpus * k
  <2>1. IsFiniteSet(1 .. Gpus) /\ Cardinality(1 .. Gpus) = Gpus
    BY Constants, FS_Interval
  <2>2. IsFiniteSet(1 .. k) /\ Cardinality(1 .. k) = k
    BY FS_Interval
  <2>3. Cardinality(D) = Cardinality(1 .. Gpus) * Cardinality(1 .. k)
    BY <2>1, <2>2, FS_Product
  <2>. QED
    BY <2>1, <2>2, <2>3
<1>. QED
  <2>1. Gpus * k \in Nat
    BY Constants
  <2>. QED
    BY <1>7, <1>8, <1>9, <2>1

-----------------------------------------------------------------------------
\* A render that starts next to another does so on a card of its own, and the
\* other is on one too.
LEMMA NextToAnother ==
    ASSUME LanesInv, NEW n \in Nodes, NEW c \in Chunks \ Shared,
           run[c].at = n, run[c].phase = "inbox", Startable(n, c),
           Gpus > 1, Rendering(n) # {}
    PROVE  /\ Pinned(c) /\ LaneCap(c) = run[c].plan.lanes
           /\ Seen[n] >= 2 /\ run[c].plan.lanes \in {Gpus, 2 * Gpus}
           /\ \A d \in Rendering(n) : d \notin Shared /\ Pinned(d) /\ run[d].plan.pin
<1>1. Rendering(n) \cap Shared = {} /\ Cardinality(Rendering(n) \ Shared) < LaneCap(c)
  BY DEF Startable
<1>2. Rendering(n) \ Shared = Rendering(n)
  BY <1>1
<1>3. Cardinality(Rendering(n)) \in Nat /\ Cardinality(Rendering(n)) # 0
  BY RenderingFinite, FS_EmptySet
<1>4. Fitting(run[c].plan, Engine[c])
  BY RestIsTyped DEF RunsFit, RunFits
<1>5. LaneCap(c) # 1
  <2>. SUFFICES ASSUME LaneCap(c) = 1 PROVE FALSE
    OBVIOUS
  <2>1. Cardinality(Rendering(n)) < 1
    BY <1>1, <1>2
  <2>. QED
    BY <1>3, <2>1
<1>6. run[c].plan.pin /\ Pinned(c) /\ LaneCap(c) = run[c].plan.lanes
  BY <1>4, <1>5 DEF LaneCap, Fitting
<1>7. Seen[n] >= 2 /\ run[c].plan.lanes \in {Gpus, 2 * Gpus}
  BY <1>4, <1>6 DEF Pinned, Fitting
<1>8. ASSUME NEW d \in Rendering(n) PROVE d \notin Shared /\ Pinned(d) /\ run[d].plan.pin
  <2>1. d \in Chunks /\ d \notin Shared /\ run[d].at = n /\ d # c
    BY <1>1 DEF Rendering
  <2>2. d \in Live(run, n) \ Shared /\ c \in Live(run, n) \ Shared
    BY <2>1 DEF Rendering, Live, RunsOn
  <2>3. Lone(run, n)
    BY RestIsTyped DEF Laned
  <2>4. run[d].plan.pin
    BY <2>1, <2>2, <2>3 DEF Lone
  <2>5. Fitting(run[d].plan, Engine[d])
    BY <2>1, RestIsTyped DEF RunsFit, RunFits
  <2>. QED
    BY <1>7, <2>1, <2>4, <2>5 DEF Pinned, Fitting
<1>. QED
  BY <1>6, <1>7, <1>8

\* The card picked has the room the plan counts on.
LEMMA PickedHasRoom ==
    ASSUME SeesAllOrOne, LanesInv, NEW n \in Nodes, NEW c \in Chunks \ Shared,
           run[c].at = n, run[c].phase = "inbox", Startable(n, c),
           Gpus > 1, Rendering(n) # {}
    PROVE  Load(n, PickGpu(n)) + 1 <= ScenesPerCard(run[c].plan.lanes)
<1>. DEFINE L == Load(n, PickGpu(n))
            R == Cardinality(Rendering(n))
<1>1. /\ LaneCap(c) = run[c].plan.lanes /\ Seen[n] >= 2
      /\ run[c].plan.lanes \in {Gpus, 2 * Gpus}
      /\ \A d \in Rendering(n) : d \notin Shared
  BY NextToAnother
<1>2. Seen[n] = Gpus
  BY <1>1, Constants DEF SeesAllOrOne
<1>3. R < run[c].plan.lanes
  <2>1. Rendering(n) \ Shared = Rendering(n)
    BY <1>1
  <2>. QED
    BY <1>1, <2>1 DEF Startable
<1>4. R \in Nat
  BY RenderingFinite
<1>5. \A g \in 1 .. Gpus : Load(n, g) \in Nat
  BY RenderingFinite DEF Load
<1>6. PickGpu(n) \in 1 .. Gpus /\ \A h \in 1 .. Gpus : L <= Load(n, h)
  BY <1>2, PickIsLeast
<1>7. L \in Nat
  BY <1>5, <1>6
<1>8. Fitting(run[c].plan, Engine[c])
  BY RestIsTyped DEF RunsFit, RunFits
<1>. HIDE DEF L, R
<1>9. CASE run[c].plan.lanes = Gpus
  <2>1. ~ \A g \in 1 .. Gpus : Load(n, g) >= 1
    <3>. SUFFICES ASSUME \A g \in 1 .. Gpus : Load(n, g) >= 1 PROVE FALSE
      OBVIOUS
    <3>1. R >= Gpus * 1
      BY Pigeons DEF R
    <3>. QED
      BY <1>3, <1>4, <1>9, <3>1, Constants
  <2>2. PICK h \in 1 .. Gpus : Load(n, h) < 1
    BY <1>5, <2>1
  <2>3. L = 0
    BY <1>5, <1>6, <1>7, <2>2
  <2>4. ScenesPerCard(run[c].plan.lanes) = 1
    BY <1>8, <1>9, ScenesOfPlan
  <2>. QED
    BY <2>3, <2>4 DEF L
<1>10. CASE run[c].plan.lanes = 2 * Gpus
  <2>1. ~ \A g \in 1 .. Gpus : Load(n, g) >= 2
    <3>. SUFFICES ASSUME \A g \in 1 .. Gpus : Load(n, g) >= 2 PROVE FALSE
      OBVIOUS
    <3>1. R >= Gpus * 2
      BY Pigeons DEF R
    <3>. QED
      BY <1>3, <1>4, <1>10, <3>1, Constants
  <2>2. PICK h \in 1 .. Gpus : Load(n, h) < 2
    BY <1>5, <2>1
  <2>3. L <= 1
    BY <1>5, <1>6, <1>7, <2>2
  <2>4. ScenesPerCard(run[c].plan.lanes) = 2
    BY <1>8, <1>10, ScenesOfPlan
  <2>. QED
    BY <1>7, <2>3, <2>4 DEF L
<1>. QED
  BY <1>1, <1>9, <1>10

LEMMA LaunchCards ==
    ASSUME SeesAllOrOne, CardsInv, NEW n \in Nodes, Launch(n)
    PROVE  OnePinned' /\ CardsAreNotShared'
<1>1. PICK c \in Chunks :
             /\ Startable(n, c)
             /\ run[c].at = n /\ run[c].phase = "inbox"
             /\ run'[c].at = n /\ run'[c].phase = "rendering" /\ run'[c].plan = run[c].plan
             /\ run'[c].gpu = (IF Pinned(c) THEN PickGpu(n) ELSE 0)
             /\ OthersStay(run', c)
  BY LaunchMoves DEF CardsInv
<1>2. CASE c \in Shared
  <2>1. \A d \in Chunks \ Shared : run'[d].phase = "rendering" => run'[d] = run[d]
    BY <1>1, <1>2 DEF OthersStay
  <2>. QED
    BY <2>1, NoNewRender
<1>3. CASE c \notin Shared
  <2>1. LanesInv /\ OnePinned /\ CardsAreNotShared
    BY DEF CardsInv
  <2>2. Rendering(n) \cap Shared = {} /\ Cardinality(Rendering(n) \ Shared) < LaneCap(c)
    BY <1>1, <1>3 DEF Startable
  <2>3. Rendering(n) \ Shared = Rendering(n)
    BY <2>2
  <2>4. /\ Rendering(n)' = Rendering(n) \cup {c} /\ c \notin Rendering(n)
        /\ \A m \in Nodes : m # n => Rendering(m)' = Rendering(m)
        /\ \A m \in Nodes : \A d \in Rendering(m) : run'[d] = run[d]
    BY <1>1 DEF Rendering, OthersStay
  <2>5. ASSUME Gpus > 1, Rendering(n) # {}
        PROVE  /\ Pinned(c) /\ run[c].plan.pin
               /\ \A d \in Rendering(n) : Pinned(d) /\ run[d].plan.pin
               /\ Load(n, PickGpu(n)) + 1 <= ScenesPerCard(run[c].plan.lanes)
    <3>1. c \in Chunks \ Shared
      BY <1>3
    <3>2. Pinned(c) /\ \A d \in Rendering(n) : Pinned(d) /\ run[d].plan.pin
      BY <1>1, <2>1, <2>5, <3>1, NextToAnother
    <3>3. Load(n, PickGpu(n)) + 1 <= ScenesPerCard(run[c].plan.lanes)
      BY <1>1, <2>1, <2>5, <3>1, PickedHasRoom
    <3>. QED
      BY <3>2, <3>3 DEF Pinned
  <2>6. OnePinned'
    <3>. SUFFICES ASSUME Gpus > 1, NEW m \in Nodes, NEW a \in Rendering(m)' \ Shared,
                         NEW b \in Rendering(m)' \ Shared, a # b
                  PROVE  Pinned(a)'
      BY DEF OnePinned
    <3>1. CASE m # n
      <4>1. a \in Rendering(m) \ Shared /\ b \in Rendering(m) \ Shared /\ run'[a] = run[a]
        BY <2>4, <3>1
      <4>2. Pinned(a)
        BY <2>1, <4>1 DEF OnePinned
      <4>. QED
        BY <4>1, <4>2 DEF Pinned
    <3>2. CASE m = n
      <4>1. Rendering(n) # {} /\ a \in Rendering(n) \cup {c}
        BY <2>4, <3>2
      <4>2. Pinned(a)
        BY <2>5, <4>1
      <4>3. run'[a].plan = run[a].plan /\ run'[a].at = run[a].at
        BY <1>1, <2>4, <4>1
      <4>. QED
        BY <4>2, <4>3 DEF Pinned
    <3>. QED
      BY <3>1, <3>2
  <2>7. ASSUME NEW m \in Nodes, NEW g \in 1 .. Gpus, Cardinality(Here(m, g)') > 1
        PROVE  /\ \E d \in Here(m, g)' : Cardinality(Here(m, g)') <= ScenesPerCard(run'[d].plan.lanes)
               /\ Gpus > 1 => \A d \in Here(m, g)' : run'[d].plan.pin
    <3>. DEFINE H == Here(m, g)
                K == Here(m, g)'
    <3>1. \A d \in H : run'[d] = run[d]
      BY <2>4 DEF Here
    <3>2. IsFiniteSet(H) /\ Cardinality(H) \in Nat
      BY HereFinite
    <3>3. CASE K = H
      <4>1. Cardinality(H) > 1
        BY <2>7, <3>3
      <4>2. /\ \E d \in H : Cardinality(H) <= ScenesPerCard(run[d].plan.lanes)
            /\ Gpus > 1 => \A d \in H : run[d].plan.pin
        BY <2>1, <4>1, CardsSay
      <4>. HIDE DEF H, K
      <4>3. /\ \E d \in K : Cardinality(K) <= ScenesPerCard(run'[d].plan.lanes)
            /\ Gpus > 1 => \A d \in K : run'[d].plan.pin
        BY <3>1, <3>3, <4>2
      <4>. QED
        BY <4>3 DEF K
    <3>4. CASE K # H
      <4>1. m = n /\ K = H \cup {c} /\ c \notin H
        BY <1>3, <2>4, <3>4 DEF Here, OnCard
      <4>2. Cardinality(K) = Cardinality(H) + 1
        <5>. HIDE DEF H, K
        <5>. QED
          BY <3>2, <4>1, FS_AddElement
      <4>3. Cardinality(H) >= 1
        BY <2>7, <3>2, <4>2
      <4>4. H \subseteq Rendering(n)
        BY <4>1 DEF Here
      <4>5. Rendering(n) # {}
        BY <4>3, <4>4, FS_EmptySet
      <4>6. c \in K /\ run'[c].plan = run[c].plan
        BY <1>1, <4>1
      <4>7. Cardinality(K) <= ScenesPerCard(run[c].plan.lanes)
        <5>1. Fitting(run[c].plan, Engine[c])
          BY <2>1, RestIsTyped DEF RunsFit, RunFits
        <5>2. CASE Gpus = 1
          <6>1. ~ run[c].plan.pin
            BY <5>1, <5>2 DEF Fitting
          <6>2. LaneCap(c) = run[c].plan.lanes /\ ScenesPerCard(run[c].plan.lanes) = run[c].plan.lanes
            BY <5>1, <5>2, <6>1, ScenesOfPlan DEF LaneCap
          <6>3. Cardinality(H) <= Cardinality(Rendering(n)) /\ Cardinality(Rendering(n)) \in Nat
            BY <4>4, RenderingFinite, FS_Subset
          <6>4. run[c].plan.lanes \in Nat
            BY <5>1, Constants DEF Fitting, Plans
          <6>. HIDE DEF H, K
          <6>5. Cardinality(Rendering(n)) < run[c].plan.lanes
            BY <2>2, <2>3, <6>2
          <6>. QED
            BY <3>2, <4>2, <6>2, <6>3, <6>4, <6>5
        <5>3. CASE Gpus > 1
          <6>1. Pinned(c) /\ (\A d \in Rendering(n) : Pinned(d))
                /\ Load(n, PickGpu(n)) + 1 <= ScenesPerCard(run[c].plan.lanes)
            BY <2>5, <4>5, <5>3
          <6>2. run'[c].gpu = PickGpu(n) /\ PickGpu(n) \in 1 .. Seen[n] /\ Seen[n] \in Nat
            BY <1>1, <6>1, PickIsLeast, Constants
          <6>3. g = PickGpu(n)
            BY <4>6, <6>2 DEF Here, OnCard
          <6>4. \A d \in Rendering(n) : run[d].gpu # 0
            <7>. TAKE d \in Rendering(n)
            <7>1. d \in Chunks /\ run[d].phase = "rendering" /\ run[d].at = n
              BY DEF Rendering
            <7>2. RunFits(run, d) /\ Pins(run[d].plan, Engine[d], run[d].at)
              BY <2>1, <6>1, <7>1, RestIsTyped DEF RunsFit, Pinned, Pins
            <7>. QED
              BY <6>2, <7>1, <7>2 DEF RunFits
          <6>5. H = {d \in Rendering(n) : run[d].gpu = g}
            BY <2>3, <4>1, <6>4 DEF Here, OnCard
          <6>6. Cardinality(H) = Load(n, PickGpu(n))
            BY <6>3, <6>5 DEF Load
          <6>. HIDE DEF H, K
          <6>. QED
            BY <4>2, <6>1, <6>6
        <5>. QED
          BY <5>2, <5>3, Constants
      <4>8. Gpus > 1 => \A d \in K : run'[d].plan.pin
        <5>. SUFFICES ASSUME Gpus > 1, NEW d \in K PROVE run'[d].plan.pin
          OBVIOUS
        <5>. HIDE DEF H, K
        <5>1. d = c \/ d \in H
          BY <4>1
        <5>2. run[c].plan.pin /\ \A e \in Rendering(n) : run[e].plan.pin
          BY <2>5, <4>5
        <5>. QED
          BY <3>1, <4>4, <4>6, <5>1, <5>2
      <4>. HIDE DEF H, K
      <4>9. /\ \E d \in K : Cardinality(K) <= ScenesPerCard(run'[d].plan.lanes)
            /\ Gpus > 1 => \A d \in K : run'[d].plan.pin
        BY <4>6, <4>7, <4>8
      <4>. QED
        BY <4>9 DEF K
    <3>. QED
      BY <3>3, <3>4
  <2>8. CardsAreNotShared'
    BY <2>7 DEF CardsAreNotShared, Here
  <2>. QED
    BY <2>6, <2>8
<1>. QED
  BY <1>2, <1>3

LEMMA CardsStep ==
    ASSUME SeesAllOrOne, CardsInv, [Next]_vars
    PROVE  CardsInv'
<1>1. LanesInv'
  BY LanesStep DEF CardsInv
<1>2. ASSUME NEW n \in Nodes, Launch(n) PROVE OnePinned' /\ CardsAreNotShared'
  BY <1>2, LaunchCards
<1>3. ASSUME \A c \in Chunks \ Shared : run'[c].phase = "rendering" => run'[c] = run[c]
      PROVE  OnePinned' /\ CardsAreNotShared'
  BY <1>3, NoNewRender
<1>4. ASSUME NEW c \in Chunks, OthersStay(run', c), run'[c].phase # "rendering"
      PROVE  OnePinned' /\ CardsAreNotShared'
  <2>1. \A d \in Chunks \ Shared : run'[d].phase = "rendering" => run'[d] = run[d]
    BY <1>4 DEF OthersStay
  <2>. QED
    BY <1>3, <2>1
<1>5. ASSUME run' = run PROVE OnePinned' /\ CardsAreNotShared'
  BY <1>3, <1>5
<1>6. CASE Tick
  <2>1. Follows(run')
    BY <1>6, TickKeeps DEF CardsInv
  <2>. QED
    BY <1>1, <1>3, <2>1 DEF Follows, CardsInv
<1>7. ASSUME NEW c \in Chunks,
             \/ SpecLands(c) \/ DispatchFails(c) \/ RenderEnds(c) \/ OutOfMemory(c)
             \/ ReadsEnded(c) \/ ReadsOom(c) \/ ReadsPinFailed(c) \/ Finish(c) \/ Another(c)
      PROVE  CardsInv'
  <2>1. run' = run \/ (\E p \in {"inbox", "ended", "oom", "tail"} : run' = [run EXCEPT ![c].phase = p])
        \/ \E v \in {Pending, Done} : run' = [run EXCEPT ![c] = v]
    BY <1>7 DEF SpecLands, DispatchFails, RenderEnds, OutOfMemory, ReadsEnded, ReadsOom,
       ReadsPinFailed, Finish, Another, Phase
  <2>2. run \in [Chunks -> RunRecord]
    BY RestIsTyped DEF CardsInv
  <2>3. CASE \E p \in {"inbox", "ended", "oom", "tail"} : run' = [run EXCEPT ![c].phase = p]
    <3>1. PICK p \in {"inbox", "ended", "oom", "tail"} : run' = [run EXCEPT ![c].phase = p]
      BY <2>3
    <3>2. OthersStay(run', c)
      BY <2>2, <3>1 DEF OthersStay
    <3>3. run'[c].phase = p
      <4>1. run'[c] = [run[c] EXCEPT !.phase = p] /\ run[c] \in RunRecord
        BY <2>2, <3>1
      <4>. QED
        BY <4>1 DEF RunRecord
    <3>. QED
      BY <1>1, <1>4, <3>2, <3>3 DEF CardsInv
  <2>4. CASE \E v \in {Pending, Done} : run' = [run EXCEPT ![c] = v]
    <3>1. PICK v \in {Pending, Done} : run' = [run EXCEPT ![c] = v]
      BY <2>4
    <3>2. OthersStay(run', c) /\ run'[c] = v
      BY <2>2, <3>1 DEF OthersStay
    <3>3. v.phase # "rendering"
      BY DEF Pending, Done
    <3>. QED
      BY <1>1, <1>4, <3>2, <3>3 DEF CardsInv
  <2>. QED
    BY <1>1, <1>5, <2>1, <2>3, <2>4 DEF CardsInv
<1>8. ASSUME NEW n \in Nodes, RestEnds(n) \/ SettlePasses(n) PROVE OnePinned' /\ CardsAreNotShared'
  <2>1. run' = run
    BY <1>8 DEF RestEnds, SettlePasses
  <2>. QED
    BY <1>5, <2>1
<1>9. CASE UNCHANGED vars
  BY <1>1, <1>5, <1>9 DEF vars, CardsInv
<1>. QED
  BY <1>1, <1>2, <1>6, <1>7, <1>8, <1>9 DEF Next, CardsInv

LEMMA CardsInit == Init => CardsInv
<1>. SUFFICES ASSUME Init PROVE CardsInv
  OBVIOUS
<1>1. LanesInv
  BY InitKeeps
<1>2. \A n \in Nodes : Rendering(n) = {}
  BY DEF Init, Pending, Rendering
<1>3. \A n \in Nodes, g \in 1 .. Gpus : Cardinality(Here(n, g)) = 0
  BY <1>2, FS_EmptySet DEF Here
<1>4. CardsAreNotShared
  BY <1>3, CardsSay
<1>. QED
  BY <1>1, <1>2, <1>4 DEF CardsInv, OnePinned

(* No card holds more exclusive scenes than the plan they were sent with puts
   on it, and none is next to another unpinned: on nodes whose agent sees all
   the cards, or one. *)
THEOREM CardsHold ==
    ASSUME SeesAllOrOne
    PROVE  Spec => []CardsAreNotShared
<1>1. Init => CardsInv
  BY CardsInit
<1>2. CardsInv /\ [Next]_vars => CardsInv'
  BY CardsStep
<1>3. CardsInv => CardsAreNotShared
  BY DEF CardsInv
<1>. QED
  BY <1>1, <1>2, <1>3, PTL DEF Spec

-----------------------------------------------------------------------------
(***************************************************************************)
(* The guard and the memory of a node.                                     *)
(***************************************************************************)

LEMMA TimesGrows ==
    ASSUME NEW a \in Nat, NEW b \in Nat, NEW h \in Nat, a <= b
    PROVE  a * h <= b * h /\ a * h \in Nat /\ b * h \in Nat
<1>1. b * h = a * h + (b - a) * h
  OBVIOUS
<1>2. b - a \in Nat
  OBVIOUS
<1>3. (b - a) * h \in Nat /\ a * h \in Nat /\ b * h \in Nat
  BY <1>2
<1>. DEFINE x == a * h
            y == b * h
            z == (b - a) * h
<1>4. y = x + z /\ x \in Nat /\ z \in Nat
  BY <1>1, <1>3
<1>. HIDE DEF x, y, z
<1>5. x <= y
  BY <1>4
<1>. QED
  BY <1>3, <1>5 DEF x, y

\* The plans of one node, with k lanes per card allowed.
LevelsOf(k) == {PlanLanes(k, Least(Cap, c), "cycles").lanes : c \in {Cap, Gpus, 1}}

LEMMA FewerLanesFewerLevels ==
    ASSUME NEW k \in 0 .. 2, NEW j \in 0 .. 2, j <= k
    PROVE  LevelsOf(j) \subseteq LevelsOf(k)
<1>. DEFINE P(i, c) == PlanLanes(i, Least(Cap, c), "cycles").lanes
<1>1. ASSUME NEW i \in 0 .. 2 PROVE P(i, 1) = 1
  <2>1. Least(Cap, 1) = 1
    BY Constants DEF Least
  <2>2. CASE i = 0
    BY <2>2 DEF PlanLanes, Whole
  <2>3. CASE i # 0 /\ Gpus = 1
    BY <2>1, <2>3 DEF PlanLanes, Least
  <2>4. CASE i # 0 /\ Gpus > 1
    <3>1. ~ (Gpus <= 1)
      BY <2>4, Constants
    <3>2. i = 1 \/ i = 2
      BY <2>4
    <3>3. ~ (Gpus * i <= 1)
      BY <2>4, <3>2, Constants
    <3>. QED
      BY <2>1, <2>4, <3>1, <3>3 DEF PlanLanes, Whole
  <2>. QED
    BY <2>2, <2>3, <2>4, Constants
<1>2. 1 \in LevelsOf(k)
  BY <1>1 DEF LevelsOf
<1>3. CASE j = k
  BY <1>3
<1>4. CASE j = 0
  <2>1. \A c \in {Cap, Gpus, 1} : P(0, c) = 1
    BY DEF PlanLanes, Whole
  <2>. QED
    BY <1>2, <1>4, <2>1 DEF LevelsOf
<1>5. CASE j = 1 /\ k = 2
  <2>. SUFFICES ASSUME NEW c \in {Cap, Gpus, 1} PROVE P(1, c) \in LevelsOf(2)
    BY <1>5 DEF LevelsOf
  <2>1. Least(Cap, c) \in Nat /\ Least(Cap, c) >= 1 /\ Least(Cap, c) <= Cap
    BY Constants DEF Least
  <2>2. CASE Gpus = 1
    <3>1. P(1, c) = 1
      BY <2>1, <2>2 DEF PlanLanes, Least
    <3>. QED
      BY <1>2, <1>5, <3>1
  <2>3. CASE Gpus > 1 /\ ~ (Gpus <= Least(Cap, c))
    <3>1. Gpus * 1 = Gpus
      BY Constants
    <3>2. P(1, c) = 1
      BY <2>3, <3>1 DEF PlanLanes, Whole
    <3>. QED
      BY <1>2, <1>5, <3>2
  <2>4. CASE Gpus > 1 /\ Gpus <= Least(Cap, c)
    <3>1. Gpus * 1 = Gpus /\ ~ (Gpus * 2 <= Gpus)
      BY <2>4, Constants
    <3>2. P(1, c) = Gpus
      BY <2>4, <3>1 DEF PlanLanes
    <3>3. Least(Cap, Gpus) = Gpus
      BY <2>1, <2>4, Constants DEF Least
    <3>4. P(2, Gpus) = Gpus
      BY <2>4, <3>1, <3>3, Constants DEF PlanLanes
    <3>. QED
      BY <3>2, <3>4 DEF LevelsOf
  <2>. QED
    BY <2>2, <2>3, <2>4, Constants
<1>. QED
  BY <1>3, <1>4, <1>5

LEMMA LevelsShrink ==
    ASSUME LanesInv, LanesInv', NEW n \in Nodes, ceiling'[n] <= ceiling[n]
    PROVE  Levels(n, "cycles")' \subseteq Levels(n, "cycles")
<1>. DEFINE j == Least(SlotsPerGpu, ceiling'[n])
            k == Least(SlotsPerGpu, ceiling[n])
<1>1. ceiling[n] \in 0 .. 2 /\ ceiling'[n] \in 0 .. 2
  BY DEF LanesInv, Types
<1>2. j \in 0 .. 2 /\ k \in 0 .. 2 /\ j <= k
  BY <1>1, Constants DEF Least
<1>3. Levels(n, "cycles") = LevelsOf(k)
  BY DEF Levels, LevelsOf, PerGpu
<1>4. Levels(n, "cycles")' = LevelsOf(j)
  BY DEF Levels, LevelsOf, PerGpu
<1>. HIDE DEF j, k
<1>. QED
  BY <1>2, <1>3, <1>4, FewerLanesFewerLevels

\* Other engines have one level, and nothing below it.
LEMMA OnlyCyclesSteps ==
    ASSUME NEW n, NEW e, e # "cycles"
    PROVE  LowerLevels(n, e) = {} /\ HigherLevels(n, e) = {}
<1>1. Levels(n, e) = {1} /\ CurrentLanes(n, e) = 1
  BY DEF Levels, CurrentLanes, LanePlan, PlanLanes, Whole
<1>. QED
  BY <1>1 DEF LowerLevels, HigherLevels

\* More lanes put no fewer on a card.
LEMMA ScenesGrow ==
    ASSUME NEW a \in {1, Gpus, 2 * Gpus}, NEW b \in {1, Gpus, 2 * Gpus}, a <= b
    PROVE  /\ ScenesPerCard(a) \in Nat /\ ScenesPerCard(b) \in Nat
           /\ ScenesPerCard(a) <= ScenesPerCard(b)
           /\ Gpus > 1 => ScenesPerCard(a) \in {1, 2}
           /\ Gpus = 1 => ScenesPerCard(a) = a
<1>1. CASE Gpus = 1
  BY <1>1, OnOneCard
<1>2. CASE Gpus > 1
  BY <1>2, OnOneCard, Constants
<1>. QED
  BY <1>1, <1>2, Constants

LEMMA HeaviestIs ==
    ASSUME NEW F \in [Chunks -> Nat], Chunks \ Shared # {}
    PROVE  Heaviest(F) \in Nat /\ \A c \in Chunks \ Shared : F[c] <= Heaviest(F)
<1>. DEFINE T == {F[c] : c \in Chunks \ Shared}
<1>1. IsFiniteSet(Chunks \ Shared)
  BY FiniteConstants, FS_Subset
<1>2. IsFiniteSet(T)
  <2>. DEFINE D == Chunks \ Shared
              f == [c \in D |-> F[c]]
  <2>1. f \in [D -> T] /\ \A x \in T : \E c \in D : f[c] = x
    OBVIOUS
  <2>2. f \in Surjection(D, T)
    BY <2>1 DEF Surjection
  <2>. QED
    BY <1>1, <2>2, FS_Surjection
<1>3. T \subseteq Nat /\ T # {}
  OBVIOUS
<1>4. Max(T) \in T /\ \A y \in T : y <= Max(T)
  BY <1>2, <1>3, MaxIsGreatest
<1>. QED
  BY <1>3, <1>4 DEF Heaviest

\* The renders of a node with exclusive work are exclusive, and no more than
\* its runs.
LEMMA RendersAreRuns ==
    ASSUME LanesInv, NEW n \in Nodes, HasExclusive(run, n)
    PROVE  /\ Rendering(n) \subseteq Chunks \ Shared
           /\ Cardinality(Rendering(n)) <= Cardinality(RunsOn(run, n))
<1>1. Rendering(n) \subseteq Live(run, n) /\ Rendering(n) \subseteq RunsOn(run, n)
  BY DEF Rendering, Live, RunsOn
<1>2. Live(run, n) \cap Shared = {}
  BY RestIsTyped DEF Laned, Apart, HasExclusive
<1>3. Cardinality(Rendering(n)) <= Cardinality(RunsOn(run, n))
  BY <1>1, RunsFinite, FS_Subset
<1>4. Rendering(n) \subseteq Chunks
  BY DEF Rendering
<1>. QED
  BY <1>1, <1>2, <1>3, <1>4

LEMMA RamIsBounded ==
    ASSUME LanesInv, NEW n \in Nodes, HasExclusive(run, n),
           NEW k \in Nat, Cardinality(Rendering(n)) <= k
    PROVE  RamOn(n) \in Nat /\ RamOn(n) <= k * Heaviest(Ram)
<1>. DEFINE R == Rendering(n)
            H == Heaviest(Ram)
<1>1. R \subseteq Chunks \ Shared
  BY RendersAreRuns
<1>2. Chunks \ Shared # {}
  BY DEF HasExclusive, RunsOn
<1>3. Ram \in [Chunks -> Nat]
  BY LanesAssumption
<1>4. H \in Nat /\ \A c \in Chunks \ Shared : Ram[c] <= H
  BY <1>2, <1>3, HeaviestIs
<1>5. IsFiniteSet(R) /\ Cardinality(R) \in Nat /\ Cardinality(R) <= k
  BY RenderingFinite
<1>6. RamOn(n) = SumOf(Ram, R)
  BY DEF RamOn, SumOf
<1>. HIDE DEF R, H
<1>7. \A c \in R : Ram[c] \in Nat /\ Ram[c] <= H
  BY <1>1, <1>3, <1>4
<1>8. SumOf(Ram, R) \in Nat /\ SumOf(Ram, R) <= Cardinality(R) * H
  BY <1>4, <1>5, <1>7, SumBound
<1>9. Cardinality(R) * H <= k * H /\ Cardinality(R) * H \in Nat /\ k * H \in Nat
  BY <1>4, <1>5, TimesGrows
<1>10. RamOn(n) \in Nat /\ RamOn(n) <= Cardinality(R) * H
  BY <1>6, <1>8
<1>11. RamOn(n) <= k * H
  <2>. DEFINE x == Cardinality(R) * H
              y == k * H
              z == RamOn(n)
  <2>1. z <= x /\ x <= y /\ x \in Nat /\ y \in Nat /\ z \in Nat
    BY <1>9, <1>10
  <2>. HIDE DEF x, y, z
  <2>2. z <= y
    BY <2>1
  <2>. QED
    BY <2>2 DEF y, z
<1>. QED
  BY <1>10, <1>11 DEF H

LEMMA VramIsBounded ==
    ASSUME LanesInv, NEW n \in Nodes, HasExclusive(run, n),
           NEW k \in Nat, \A g \in 1 .. Gpus : Cardinality(Here(n, g)) <= k
    PROVE  VramOn(n) \in Nat /\ VramOn(n) <= k * Heaviest(Vram)
<1>. DEFINE H == Heaviest(Vram)
            On(g) == {c \in Rendering(n) : OnCard(c, g)}
            load(g) == SumOf(Vram, On(g))
            T == {load(g) : g \in 1 .. Gpus}
            top == k * H
<1>1. Rendering(n) \subseteq Chunks \ Shared
  BY RendersAreRuns
<1>2. Chunks \ Shared # {}
  BY DEF HasExclusive, RunsOn
<1>3. Vram \in [Chunks -> Nat]
  BY LanesAssumption
<1>4. H \in Nat /\ \A c \in Chunks \ Shared : Vram[c] <= H
  BY <1>2, <1>3, HeaviestIs
<1>5. VramOn(n) = Max(T)
  BY DEF VramOn, SumOf
<1>6. \A g \in 1 .. Gpus : On(g) = Here(n, g)
  BY <1>1 DEF Here
<1>7. ASSUME NEW g \in 1 .. Gpus
      PROVE  load(g) \in Nat /\ load(g) <= top
  <2>. DEFINE S == On(g)
  <2>1. IsFiniteSet(S) /\ Cardinality(S) \in Nat /\ Cardinality(S) <= k
    BY <1>6, HereFinite
  <2>2. \A c \in S : Vram[c] \in Nat /\ Vram[c] <= H
    BY <1>1, <1>3, <1>4
  <2>. HIDE DEF S, H
  <2>3. SumOf(Vram, S) \in Nat /\ SumOf(Vram, S) <= Cardinality(S) * H
    BY <1>4, <2>1, <2>2, SumBound
  <2>4. Cardinality(S) * H <= k * H /\ Cardinality(S) * H \in Nat /\ k * H \in Nat
    BY <1>4, <2>1, TimesGrows
  <2>. DEFINE x == Cardinality(S) * H
              z == SumOf(Vram, S)
  <2>5. z <= x /\ x <= top /\ x \in Nat /\ top \in Nat /\ z \in Nat
    BY <2>3, <2>4
  <2>. HIDE DEF x, z, top
  <2>6. z <= top
    BY <2>5
  <2>. QED
    BY <2>5, <2>6 DEF z, S
<1>8. T \subseteq Nat
  BY <1>7
<1>9. \A t \in T : t <= top
  BY <1>7
<1>10. T # {}
  <2>1. 1 \in 1 .. Gpus
    BY Constants
  <2>2. load(1) \in T
    BY <2>1
  <2>. QED
    BY <2>2
<1>11. top \in Nat
  BY <1>4
<1>. HIDE DEF T, top
<1>12. IsFiniteSet(T)
  BY <1>8, <1>9, <1>11, FS_BoundedSetOfNaturals
<1>13. Max(T) \in T
  BY <1>8, <1>10, <1>12, MaxIsGreatest
<1>. QED
  BY <1>5, <1>8, <1>9, <1>13 DEF top, H
-----------------------------------------------------------------------------
(***************************************************************************)
(* The guard steps a node down only when its memory is short, and what     *)
(* renders there is no more than its plan puts there: a plan that holds    *)
(* the heaviest scene on every lane was never short.                       *)
(***************************************************************************)

\* No card has more exclusive renders than the plan the node is judged by.
LEMMA CardsOfPlan ==
    ASSUME CardsInv, NEW n \in Nodes, NEW k \in {1, Gpus, 2 * Gpus},
           HasExclusive(run, n), Cardinality(Rendering(n)) <= k,
           Gpus > 1 => ScenesPerCard(k) = 2
    PROVE  \A g \in 1 .. Gpus : Cardinality(Here(n, g)) <= ScenesPerCard(k)
<1>. SUFFICES ASSUME NEW g \in 1 .. Gpus
              PROVE  Cardinality(Here(n, g)) <= ScenesPerCard(k)
  OBVIOUS
<1>1. k \in Nat
  BY Constants
<1>2. CASE Gpus > 1
  BY <1>2, AtMostTwo
<1>3. CASE Gpus = 1
  <2>1. ScenesPerCard(k) = k
    BY <1>1, <1>3, OnOneCard
  <2>2. Here(n, g) \subseteq Rendering(n)
    BY DEF Here
  <2>3. Cardinality(Here(n, g)) <= Cardinality(Rendering(n))
    BY <2>2, RenderingFinite, FS_Subset
  <2>. QED
    BY <1>1, <2>1, <2>3, RenderingFinite, HereFinite
<1>. QED
  BY <1>2, <1>3, Constants

\* A step down stops at the highest plan that fits, or above it.
LEMMA DownIsNeeded ==
    ASSUME SeesAllOrOne, CardsInv, NEW n \in Nodes, HasExclusive(run, n),
           NEW e, StepsDown(n, e), NEW l \in Levels(n, "cycles"), Fits(l, 90)
    PROVE  l <= Max(LowerLevels(n, e))
<1>. DEFINE cur == CurrentLanes(n, e)
            top == Max(LowerLevels(n, e))
            S == Cardinality(RunsOn(run, n))
            R == Cardinality(Rendering(n))
<1>1. LanesInv
  BY DEF CardsInv
<1>2. LowerLevels(n, e) # {} /\ S <= cur /\ (RamOn(n) > 90 \/ VramOn(n) > 90)
  BY DEF StepsDown
<1>3. e = "cycles"
  BY <1>2, OnlyCyclesSteps
<1>4. top \in LowerLevels(n, e) /\ \A x \in LowerLevels(n, e) : x <= top
  BY <1>1, <1>2, DownIsLower
<1>5. top \in Levels(n, e) /\ top < cur
      /\ (RamOn(n) > 90 \/ ScenesPerCard(top) < ScenesPerCard(cur))
  BY <1>4 DEF LowerLevels
<1>6. /\ l \in {1, Gpus, 2 * Gpus} /\ cur \in {1, Gpus, 2 * Gpus} /\ top \in {1, Gpus, 2 * Gpus}
      /\ l \in Nat /\ cur \in Nat /\ top \in Nat
  BY <1>1, <1>3, <1>5, LevelsFit, Constants
<1>7. S \in Nat /\ R \in Nat /\ R <= S
  BY <1>1, RunsFinite, RenderingFinite, RendersAreRuns
<1>8. R <= cur
  BY <1>2, <1>6, <1>7
<1>9. Chunks \ Shared # {} /\ Ram \in [Chunks -> Nat] /\ Vram \in [Chunks -> Nat]
  BY LanesAssumption DEF HasExclusive, RunsOn
<1>10. Heaviest(Ram) \in Nat /\ Heaviest(Vram) \in Nat
  BY <1>9, HeaviestIs
<1>11. l * Heaviest(Ram) <= 90 /\ ScenesPerCard(l) * Heaviest(Vram) <= 90
  BY DEF Fits
<1>. SUFFICES ASSUME ~ (l <= top) PROVE FALSE
  OBVIOUS
<1>12. l \notin LowerLevels(n, e)
  BY <1>4
<1>13. CASE RamOn(n) > 90
  <2>1. cur <= l
    BY <1>3, <1>6, <1>12, <1>13 DEF LowerLevels
  <2>2. RamOn(n) \in Nat /\ RamOn(n) <= cur * Heaviest(Ram)
    BY <1>1, <1>6, <1>8, RamIsBounded
  <2>3. cur * Heaviest(Ram) <= l * Heaviest(Ram)
        /\ cur * Heaviest(Ram) \in Nat /\ l * Heaviest(Ram) \in Nat
    BY <1>6, <1>10, <2>1, TimesGrows
  <2>. DEFINE x == cur * Heaviest(Ram)
              y == l * Heaviest(Ram)
  <2>4. RamOn(n) <= x /\ x <= y /\ y <= 90 /\ x \in Nat /\ y \in Nat
    BY <1>11, <2>2, <2>3
  <2>. HIDE DEF x, y
  <2>. QED
    BY <1>13, <2>2, <2>4
<1>14. CASE ~ (RamOn(n) > 90)
  <2>1. VramOn(n) > 90 /\ ScenesPerCard(top) < ScenesPerCard(cur)
    BY <1>2, <1>5, <1>14
  <2>2. ScenesPerCard(l) >= ScenesPerCard(cur)
    <3>1. CASE l < cur
      <4>1. ~ (ScenesPerCard(l) < ScenesPerCard(cur))
        BY <1>3, <1>12, <3>1 DEF LowerLevels
      <4>2. ScenesPerCard(l) \in Nat /\ ScenesPerCard(cur) \in Nat
        BY <1>6, <3>1, ScenesGrow
      <4>. QED
        BY <4>1, <4>2
    <3>2. CASE ~ (l < cur)
      <4>1. ScenesPerCard(cur) <= ScenesPerCard(l)
            /\ ScenesPerCard(l) \in Nat /\ ScenesPerCard(cur) \in Nat
        BY <1>6, <3>2, ScenesGrow
      <4>. QED
        BY <4>1
    <3>. QED
      BY <3>1, <3>2
  <2>3. /\ ScenesPerCard(cur) \in Nat /\ ScenesPerCard(top) \in Nat
        /\ Gpus > 1 => ScenesPerCard(cur) \in {1, 2} /\ ScenesPerCard(top) \in {1, 2}
    <3>1. cur <= cur /\ top <= top
      BY <1>6
    <3>. QED
      BY <1>6, <3>1, ScenesGrow
  <2>4. ScenesPerCard(l) \in Nat
    <3>1. l <= l
      BY <1>6
    <3>. QED
      BY <1>6, <3>1, ScenesGrow
  <2>5. Gpus > 1 => ScenesPerCard(cur) = 2
    BY <2>1, <2>3
  <2>6. \A g \in 1 .. Gpus : Cardinality(Here(n, g)) <= ScenesPerCard(cur)
    BY <1>6, <1>8, <2>5, CardsOfPlan
  <2>. DEFINE k == ScenesPerCard(cur)
              j == ScenesPerCard(l)
  <2>7. VramOn(n) \in Nat /\ VramOn(n) <= k * Heaviest(Vram)
    BY <1>1, <2>3, <2>6, VramIsBounded
  <2>8. k \in Nat /\ j \in Nat /\ k <= j
    BY <2>2, <2>3, <2>4
  <2>. HIDE DEF k, j
  <2>9. k * Heaviest(Vram) <= j * Heaviest(Vram)
        /\ k * Heaviest(Vram) \in Nat /\ j * Heaviest(Vram) \in Nat
    BY <1>10, <2>8, TimesGrows
  <2>10. j * Heaviest(Vram) <= 90
    BY <1>11 DEF j
  <2>. DEFINE x == k * Heaviest(Vram)
              y == j * Heaviest(Vram)
  <2>11. VramOn(n) <= x /\ x <= y /\ y <= 90 /\ x \in Nat /\ y \in Nat
    BY <2>7, <2>9, <2>10
  <2>. HIDE DEF x, y
  <2>. QED
    BY <2>1, <2>7, <2>11
<1>. QED
  BY <1>13, <1>14

\* A level of twice the cards is planned whenever the limit is off.
LEMMA TwiceIsPlanned ==
    ASSUME LanesInv, NEW n \in Nodes, Gpus > 1, 2 * Gpus \in Levels(n, "cycles"),
           guard[n].limit = Unlimited
    PROVE  CurrentLanes(n, "cycles") = 2 * Gpus
<1>1. PICK c \in {Cap, Gpus, 1} : PlanLanes(PerGpu(n), Least(Cap, c), "cycles").lanes = 2 * Gpus
  BY DEF Levels
<1>2. PerGpu(n) \in 0 .. 2
  BY RestIsTyped, Constants DEF PerGpu, Least
<1>3. Least(Cap, c) <= Cap /\ Least(Cap, c) \in Nat
  BY Constants DEF Least
<1>4. Gpus # 1 /\ 2 * Gpus # 1 /\ 2 * Gpus # Gpus /\ Gpus * 1 = Gpus /\ Gpus * 2 = 2 * Gpus
  BY Constants
<1>5. PerGpu(n) # 0 /\ PerGpu(n) # 1
  BY <1>1, <1>4 DEF PlanLanes, Whole
<1>6. PerGpu(n) = 2
  BY <1>2, <1>5
<1>7. 2 * Gpus <= Least(Cap, c)
  BY <1>1, <1>4, <1>6 DEF PlanLanes, Whole
<1>8. 2 * Gpus <= Least(Cap, Unlimited)
  BY <1>3, <1>7, Constants DEF Least
<1>. QED
  BY <1>4, <1>6, <1>8 DEF CurrentLanes, LanePlan, PlanLanes

\* A step up loses no plan the node had.
LEMMA UpIsUp ==
    ASSUME LanesInv, NEW n \in Nodes, NEW e, StepsUp(n, e),
           NEW l \in Levels(n, "cycles"), guard[n].limit >= l
    PROVE  Guarded(n).limit >= l
<1>. DEFINE next == Min(HigherLevels(n, e))
            top == Max(Levels(n, e))
<1>1. HigherLevels(n, e) # {} /\ Guarded(n).limit = IF next = top THEN Unlimited ELSE next
  BY DEF StepsUp
<1>2. e = "cycles"
  BY <1>1, OnlyCyclesSteps
<1>3. next \in HigherLevels(n, e) /\ (next # top => next \in {1, Gpus})
  BY <1>1, UpIsHigher
<1>4. top \in Levels(n, e) /\ \A x \in Levels(n, e) : x <= top
  BY LevelsFit, MaxIsGreatest
<1>5. next \in Levels(n, e) /\ next > CurrentLanes(n, e)
  BY <1>3 DEF HigherLevels
<1>6. /\ l \in {1, Gpus, 2 * Gpus} /\ top \in {1, Gpus, 2 * Gpus}
      /\ CurrentLanes(n, e) \in {1, Gpus, 2 * Gpus}
  BY <1>2, <1>4, LevelsFit
<1>7. guard[n].limit \in {1, Gpus, Unlimited}
  BY RestIsTyped DEF GuardRecord
<1>. HIDE DEF next, top
<1>8. CASE next = top
  BY <1>1, <1>6, <1>8, Constants
<1>9. CASE next # top
  <2>1. next = Gpus /\ Gpus > 1 /\ Guarded(n).limit = Gpus
    BY <1>1, <1>3, <1>5, <1>6, <1>9, Constants
  <2>2. CASE l # 2 * Gpus
    BY <1>6, <2>1, <2>2, Constants
  <2>3. CASE l = 2 * Gpus
    <3>1. guard[n].limit = Unlimited
      BY <1>7, <2>1, <2>3, Constants
    <3>2. CurrentLanes(n, "cycles") = 2 * Gpus
      BY <2>1, <2>3, <3>1, TwiceIsPlanned
    <3>. QED
      BY <1>2, <1>5, <2>1, <3>2, Constants
  <2>. QED
    BY <2>2, <2>3
<1>. QED
  BY <1>8, <1>9

\* What the guard makes of a node keeps every plan that fits.
LEMMA GuardKeepsFits ==
    ASSUME SeesAllOrOne, CardsInv, NotWalkedDown, NEW n \in Nodes,
           NEW l \in Levels(n, "cycles"), Fits(l, 90)
    PROVE  GuardsAfter[n].limit >= l
<1>1. guard[n].limit >= l
  BY DEF NotWalkedDown
<1>2. LanesInv
  BY DEF CardsInv
<1>3. guard[n] \in GuardRecord
  BY <1>2, RestIsTyped
<1>4. CASE GuardsAfter[n] = guard[n]
  BY <1>1, <1>4
<1>5. CASE GuardsAfter[n] = Guarded(n) /\ HasExclusive(run, n)
  <2>1. PICK e : Waits(n) \/ StepsDown(n, e) \/ StepsUp(n, e)
    BY GuardedIs
  <2>2. CASE Waits(n)
    <3>1. Guarded(n).limit = guard[n].limit
      BY <1>3, <2>2 DEF Waits, GuardRecord
    <3>. QED
      BY <1>1, <1>5, <3>1
  <2>3. CASE StepsDown(n, e)
    <3>1. l <= Max(LowerLevels(n, e))
      BY <1>5, <2>3, DownIsNeeded
    <3>2. Guarded(n).limit = Max(LowerLevels(n, e))
      BY <2>3 DEF StepsDown
    <3>3. l \in Nat
      BY <1>2, LevelsFit
    <3>4. Max(LowerLevels(n, e)) \in {1, Gpus}
      BY <1>2, <2>3, DownIsLower DEF StepsDown
    <3>. QED
      BY <1>5, <3>1, <3>2, <3>3, <3>4, Constants
  <2>4. CASE StepsUp(n, e)
    BY <1>1, <1>2, <1>5, <2>4, UpIsUp
  <2>. QED
    BY <2>1, <2>2, <2>3, <2>4
<1>. QED
  BY <1>4, <1>5 DEF GuardsAfter

\* A step that changes no limit, and raises no ceiling, keeps them too.
LEMMA SameLimits ==
    ASSUME LanesInv, LanesInv', NotWalkedDown,
           \A n \in Nodes : guard'[n].limit = guard[n].limit /\ ceiling'[n] <= ceiling[n]
    PROVE  NotWalkedDown'
<1>. SUFFICES ASSUME NEW n \in Nodes, NEW l \in Levels(n, "cycles")', Fits(l, 90)
              PROVE  guard'[n].limit >= l
  BY DEF NotWalkedDown, Fits, Heaviest
<1>1. l \in Levels(n, "cycles")
  BY LevelsShrink
<1>. QED
  BY <1>1 DEF NotWalkedDown

LEMMA WalkedStep ==
    ASSUME SeesAllOrOne, CardsInv, NotWalkedDown, [Next]_vars
    PROVE  NotWalkedDown'
<1>1. CardsInv' /\ LanesInv /\ LanesInv'
  <2>1. CardsInv'
    BY CardsStep
  <2>. QED
    BY <2>1 DEF CardsInv
<1>2. \A n \in Nodes : ceiling[n] \in 0 .. 2
  BY <1>1, RestIsTyped
<1>3. CASE Tick
  <2>1. guard' = GuardsAfter /\ ceiling' = ceiling
    BY <1>1, <1>3, TickKeeps
  <2>. SUFFICES ASSUME NEW n \in Nodes, NEW l \in Levels(n, "cycles")', Fits(l, 90)
                PROVE  guard'[n].limit >= l
    BY DEF NotWalkedDown, Fits, Heaviest
  <2>2. l \in Levels(n, "cycles")
    BY <2>1 DEF Levels, PerGpu
  <2>. QED
    BY <2>1, <2>2, GuardKeepsFits
<1>4. ASSUME guard' = guard, ceiling' = ceiling PROVE NotWalkedDown'
  <2>1. \A n \in Nodes : guard'[n].limit = guard[n].limit /\ ceiling'[n] <= ceiling[n]
    BY <1>2, <1>4
  <2>. QED
    BY <1>1, <2>1, SameLimits
<1>5. ASSUME NEW n \in Nodes, Launch(n) \/ RestEnds(n) PROVE NotWalkedDown'
  BY <1>4, <1>5 DEF Launch, RestEnds
<1>6. ASSUME NEW n \in Nodes, SettlePasses(n) PROVE NotWalkedDown'
  <2>1. \A m \in Nodes : guard'[m].limit = guard[m].limit
    BY <1>1, <1>6, SettleKeeps
  <2>2. ceiling' = ceiling
    BY <1>6 DEF SettlePasses
  <2>3. \A m \in Nodes : guard'[m].limit = guard[m].limit /\ ceiling'[m] <= ceiling[m]
    BY <1>2, <2>1, <2>2
  <2>. QED
    BY <1>1, <2>3, SameLimits
<1>7. ASSUME NEW c \in Chunks,
             \/ SpecLands(c) \/ DispatchFails(c) \/ RenderEnds(c) \/ OutOfMemory(c)
             \/ ReadsEnded(c) \/ Finish(c) \/ Another(c)
      PROVE  NotWalkedDown'
  BY <1>4, <1>7 DEF SpecLands, DispatchFails, RenderEnds, OutOfMemory, ReadsEnded, Finish, Another
<1>8. ASSUME NEW c \in Chunks, ReadsOom(c) PROVE NotWalkedDown'
  <2>. DEFINE n == run[c].at
  <2>1. guard' = guard /\ n \in Nodes
        /\ (ceiling' = ceiling \/ (PerGpu(n) > 1 /\ ceiling' = [ceiling EXCEPT ![n] = PerGpu(n) - 1]))
    BY <1>1, <1>8, RunHasNode DEF ReadsOom
  <2>2. PerGpu(n) <= ceiling[n] /\ PerGpu(n) \in 0 .. 2
    BY <1>2, <2>1, Constants DEF PerGpu, Least
  <2>3. PerGpu(n) - 1 <= ceiling[n]
    BY <1>2, <2>1, <2>2
  <2>4. ceiling \in [Nodes -> 0 .. 2]
    BY <1>1, RestIsTyped
  <2>. HIDE DEF n
  <2>5. \A m \in Nodes : ceiling'[m] <= ceiling[m]
    BY <1>2, <2>1, <2>3, <2>4
  <2>. QED
    BY <1>1, <2>1, <2>5, SameLimits
<1>9. ASSUME NEW c \in Chunks, ReadsPinFailed(c) PROVE NotWalkedDown'
  <2>1. guard' = guard /\ ceiling' = [ceiling EXCEPT ![run[c].at] = 0]
    BY <1>9 DEF ReadsPinFailed
  <2>2. ceiling \in [Nodes -> 0 .. 2]
    BY <1>1, RestIsTyped
  <2>3. \A m \in Nodes : ceiling'[m] <= ceiling[m]
    BY <1>2, <2>1, <2>2
  <2>. QED
    BY <1>1, <2>1, <2>3, SameLimits
<1>10. CASE UNCHANGED vars
  BY <1>4, <1>10 DEF vars
<1>. QED
  BY <1>3, <1>5, <1>6, <1>7, <1>8, <1>9, <1>10 DEF Next

(* The guard never takes more lanes from a node than its scenes need: a plan
   that holds the heaviest scene on every lane is never left for less, on
   nodes whose agent sees all the cards, or one. *)
THEOREM NeverWalkedDown ==
    ASSUME SeesAllOrOne
    PROVE  Spec => []NotWalkedDown
<1>1. Init => CardsInv /\ NotWalkedDown
  <2>. SUFFICES ASSUME Init PROVE CardsInv /\ NotWalkedDown
    OBVIOUS
  <2>1. CardsInv /\ LanesInv
    BY CardsInit DEF CardsInv
  <2>. SUFFICES ASSUME NEW n \in Nodes, NEW l \in Levels(n, "cycles")
                PROVE  guard[n].limit >= l
    BY <2>1 DEF NotWalkedDown
  <2>2. l \in {1, Gpus, 2 * Gpus}
    BY <2>1, LevelsFit
  <2>3. guard[n].limit = Unlimited
    BY DEF Init, FreshGuard
  <2>. QED
    BY <2>2, <2>3, Constants
<1>2. (CardsInv /\ NotWalkedDown) /\ [Next]_vars => (CardsInv /\ NotWalkedDown)'
  BY CardsStep, WalkedStep
<1>. QED
  BY <1>1, <1>2, PTL DEF Spec
-----------------------------------------------------------------------------
(***************************************************************************)
(* Why a tick leaves nothing behind.  A turn that assigns nothing changes  *)
(* nothing, so a pass in which no node takes a chunk will find them all    *)
(* idle again; and a pass in which one does leaves one chunk less.         *)
(***************************************************************************)

\* Node n takes nothing in this state.
Idle(s, g, n) == s.ready = {} \/ n \notin Eligible \/ ~ HasRoom(s, g, n) \/ Picks(s, g, n) = {}
Stuck(s, g) == \A n \in Nodes : Idle(s, g, n)

\* A turn finds its node idle, or leaves one chunk less to assign.
LEMMA TurnCounts ==
    ASSUME Types, NEW s, TurnState(s), NEW g \in [Nodes -> GuardRecord], NEW n \in Nodes,
           NEW t \in TakeOne(s, g, n)
    PROVE  /\ IsFiniteSet(s.ready) /\ Cardinality(s.ready) \in Nat /\ TurnState(t)
           /\ \/ t = s /\ Idle(s, g, n)
              \/ ~ Idle(s, g, n) /\ Cardinality(t.ready) = Cardinality(s.ready) - 1
<1>. DEFINE picks == Picks(s, g, n)
            c == FirstOf(Queue, picks)
<1>1. s.ready \subseteq Chunks
  BY DEF TurnState
<1>2. IsFiniteSet(s.ready) /\ Cardinality(s.ready) \in Nat
  BY <1>1, FiniteConstants, FS_Subset, FS_CardinalityType
<1>3. TurnState(t)
  BY TurnFits
<1>4. CASE Idle(s, g, n)
  <2>1. t = s
    BY <1>4 DEF Idle, TakeOne
  <2>. QED
    BY <1>2, <1>3, <1>4, <2>1
<1>5. CASE ~ Idle(s, g, n)
  <2>1. picks # {} /\ picks \subseteq Chunks /\ picks \subseteq s.ready
    BY <1>1, <1>5 DEF Idle, Picks
  <2>2. t = Sent(s, g, n, c)
    BY <1>5 DEF Idle, TakeOne
  <2>. HIDE DEF picks
  <2>3. c \in s.ready
    BY <2>1, FirstOfQueue
  <2>4. t.ready = s.ready \ {c}
    BY <2>2 DEF Sent
  <2>5. Cardinality(t.ready) = Cardinality(s.ready) - 1
    BY <1>2, <2>3, <2>4, FS_RemoveElement
  <2>. QED
    BY <1>2, <1>3, <1>5, <2>5
<1>. QED
  BY <1>4, <1>5

\* Turn j of a pass is that of the j-th node.
LEMMA TurnOfPass ==
    ASSUME NEW k \in Nat, NEW j \in Nat, j < Len(NodeOrder)
    PROVE  NodeAt(k * Len(NodeOrder) + j + 1) = NodeOrder[j + 1]
<1>. DEFINE L == Len(NodeOrder)
            x == k * L + j
            q == x \div L
            m == x % L
<1>1. L \in Nat /\ L > 0 /\ k * L \in Nat
  BY TurnsCount
<1>2. x \in Nat /\ q \in Nat /\ m \in Nat /\ m < L /\ x = L * q + m
  <2>. HIDE DEF L
  <2>1. x \in Nat
    BY <1>1
  <2>. HIDE DEF x
  <2>. QED
    BY <1>1, <2>1
<1>3. q * L = L * q /\ (q + 1) * L = q * L + L /\ (k + 1) * L = k * L + L
  BY <1>1, <1>2
<1>4. q = k
  <2>1. CASE k + 1 <= q
    <3>1. (k + 1) * L <= q * L
      BY <1>1, <1>2, <2>1, TimesGrows
    <3>. DEFINE a == k * L
                b == q * L
    <3>2. a + L <= b /\ a + j = b + m /\ a \in Nat /\ b \in Nat
      BY <1>1, <1>2, <1>3, <3>1
    <3>. HIDE DEF a, b, q, m, L, x
    <3>3. a + L <= b /\ a + j = b + m /\ m \in Nat /\ L \in Nat
      BY <1>1, <1>2, <3>2
    <3>4. j < L
      BY DEF L
    <3>. QED
      BY <3>2, <3>3, <3>4
  <2>2. CASE q + 1 <= k
    <3>1. (q + 1) * L <= k * L
      BY <1>1, <1>2, <2>2, TimesGrows
    <3>. DEFINE a == k * L
                b == q * L
    <3>2. b + L <= a /\ a + j = b + m /\ a \in Nat /\ b \in Nat
      BY <1>1, <1>2, <1>3, <3>1
    <3>. HIDE DEF a, b, q, m, L, x
    <3>3. m < L /\ m \in Nat /\ L \in Nat
      BY <1>1, <1>2
    <3>. QED
      BY <3>2, <3>3
  <2>. HIDE DEF q
  <2>. QED
    BY <1>2, <2>1, <2>2
<1>5. m = j
  <2>. DEFINE a == k * L
  <2>1. a + j = a + m /\ a \in Nat /\ m \in Nat
    BY <1>1, <1>2, <1>3, <1>4
  <2>. HIDE DEF a, m
  <2>. QED
    BY <2>1
<1>6. (x + 1) - 1 = x
  <2>. HIDE DEF x
  <2>. QED
    BY <1>2
<1>7. NodeAt(x + 1) = NodeOrder[m + 1]
  <2>. DEFINE y == (x + 1) - 1
              z == x + 1
  <2>1. NodeAt(z) = NodeOrder[(y % L) + 1]
    BY DEF NodeAt
  <2>2. y = x
    BY <1>6
  <2>. HIDE DEF x, y, z, L
  <2>3. NodeAt(z) = NodeOrder[(x % L) + 1]
    BY <2>1, <2>2
  <2>. QED
    BY <2>3 DEF m, z
<1>. QED
  BY <1>5, <1>7

\* After k passes, and j turns of the next.
Progress(t, g, k, j) ==
    \/ Stuck(t, g)
    \/ Cardinality(t.ready) <= Cardinality(TickStart.ready) - k - 1
    \/ /\ Cardinality(t.ready) <= Cardinality(TickStart.ready) - k
       /\ \A i \in 1 .. j : Idle(t, g, NodeOrder[i])

LEMMA TurnProgress ==
    ASSUME Types, NEW s, TurnState(s), NEW g \in [Nodes -> GuardRecord],
           NEW k \in Nat, NEW j \in Nat, j < Len(NodeOrder), Progress(s, g, k, j),
           NEW t \in TakeOne(s, g, NodeOrder[j + 1])
    PROVE  TurnState(t) /\ Progress(t, g, k, j + 1)
<1>. DEFINE n == NodeOrder[j + 1]
            R == Cardinality(TickStart.ready)
<1>1. n \in Nodes /\ R \in Nat
  <2>1. NodeOrder \in Seq(Nodes) /\ j + 1 \in 1 .. Len(NodeOrder)
    BY LanesAssumption, TurnsCount
  <2>. QED
    BY <2>1, TurnsCount
<1>. HIDE DEF n, R
<1>2. t \in TakeOne(s, g, n)
  BY DEF n
<1>3. /\ IsFiniteSet(s.ready) /\ Cardinality(s.ready) \in Nat /\ TurnState(t)
      /\ \/ t = s /\ Idle(s, g, n)
         \/ ~ Idle(s, g, n) /\ Cardinality(t.ready) = Cardinality(s.ready) - 1
  BY <1>1, <1>2, TurnCounts
<1>4. CASE t = s /\ Idle(s, g, n)
  <2>1. CASE Stuck(s, g)
    BY <1>3, <1>4, <2>1 DEF Progress
  <2>2. CASE Cardinality(s.ready) <= R - k - 1
    BY <1>3, <1>4, <2>2 DEF Progress, R
  <2>3. CASE /\ Cardinality(s.ready) <= R - k
             /\ \A i \in 1 .. j : Idle(s, g, NodeOrder[i])
    <3>1. ASSUME NEW i \in 1 .. (j + 1) PROVE Idle(t, g, NodeOrder[i])
      <4>1. i \in 1 .. j \/ i = j + 1
        OBVIOUS
      <4>. QED
        BY <1>4, <2>3, <4>1 DEF n
    <3>. QED
      BY <1>3, <1>4, <2>3, <3>1 DEF Progress, R
  <2>. QED
    BY <2>1, <2>2, <2>3 DEF Progress, R
<1>5. CASE ~ Idle(s, g, n) /\ Cardinality(t.ready) = Cardinality(s.ready) - 1
  <2>1. ~ Stuck(s, g)
    BY <1>1, <1>5 DEF Stuck
  <2>2. Cardinality(s.ready) <= R - k
    BY <1>1, <1>3, <2>1 DEF Progress, R
  <2>3. Cardinality(t.ready) <= R - k - 1
    BY <1>1, <1>3, <1>5, <2>2
  <2>. QED
    BY <1>3, <2>3 DEF Progress, R
<1>. QED
  BY <1>3, <1>4, <1>5

\* A pass is over.
LEMMA PassProgress ==
    ASSUME NEW t, NEW g, NEW k \in Nat, Cardinality(t.ready) \in Nat,
           Progress(t, g, k, Len(NodeOrder))
    PROVE  Progress(t, g, k + 1, 0)
<1>1. ASSUME \A i \in 1 .. Len(NodeOrder) : Idle(t, g, NodeOrder[i]) PROVE Stuck(t, g)
  <2>1. \A n \in Nodes : \E i \in 1 .. Len(NodeOrder) : NodeOrder[i] = n
    BY LanesAssumption DEF Nodes, ToSet
  <2>. QED
    BY <1>1, <2>1 DEF Stuck
<1>2. Cardinality(TickStart.ready) \in Nat
  BY TurnsCount
<1>3. CASE Cardinality(t.ready) <= Cardinality(TickStart.ready) - k - 1
  <2>1. Cardinality(t.ready) <= Cardinality(TickStart.ready) - (k + 1)
    BY <1>2, <1>3
  <2>2. \A i \in 1 .. 0 : Idle(t, g, NodeOrder[i])
    OBVIOUS
  <2>. QED
    BY <2>1, <2>2 DEF Progress
<1>. QED
  BY <1>1, <1>3 DEF Progress

\* A tick ends with every node idle.
LEMMA OutcomeIsStuck ==
    ASSUME Types, Laned(run), NEW g \in [Nodes -> GuardRecord], NEW s \in Outcome(g)
    PROVE  TurnState(s) /\ Stuck(s, g)
<1>. DEFINE L == Len(NodeOrder)
            R == Cardinality(TickStart.ready)
            After(k, j) == k * L + j
<1>1. PICK f : /\ Outcome(g) = f[Turns]
               /\ f[0] = {Reserved(TickStart, g)}
               /\ \A i \in 1 .. Turns : f[i] = UNION {TakeOne(t, g, NodeAt(i)) : t \in f[i - 1]}
  BY OutcomeTable
<1>. DEFINE Fine(k, j) == \A t \in f[After(k, j)] : TurnState(t) /\ Progress(t, g, k, j)
            BadTurns(k) == {j \in 0 .. L : ~ Fine(k, j)}
            Bad == {k \in 0 .. R : ~ Fine(k, 0)}
<1>2. L \in Nat /\ R \in Nat /\ Turns = R * L
  BY TurnsCount DEF Turns
\* Within a pass.
<1>3. ASSUME NEW k \in Nat, k < R, Fine(k, 0) PROVE Fine(k, L)
  <2>. HIDE DEF Fine
  <2>1. BadTurns(k) = {}
    <3>. SUFFICES ASSUME BadTurns(k) # {} PROVE FALSE
      OBVIOUS
    <3>. DEFINE B == BadTurns(k)
    <3>1. B \subseteq Nat /\ B # {}
      OBVIOUS
    <3>. HIDE DEF B
    <3>2. PICK m \in B : \A i \in B : m <= i
      BY <3>1, LeastOfNat
    <3>3. m \in 0 .. L /\ ~ Fine(k, m)
      BY DEF B
    <3>4. m # 0
      BY <1>3, <3>3
    <3>. DEFINE j == m - 1
    <3>5. j \in Nat /\ j < L /\ j \in 0 .. L /\ m = j + 1 /\ ~ (m <= j)
      BY <1>2, <3>3, <3>4
    <3>6. Fine(k, j)
      <4>1. j \notin B
        BY <3>2, <3>5
      <4>. QED
        BY <3>5, <4>1 DEF B
    <3>. HIDE DEF j
    <3>7. After(k, m) \in 1 .. Turns /\ After(k, m) - 1 = After(k, j) /\ After(k, m) = k * L + j + 1
      <4>1. (k + 1) * L <= R * L /\ (k + 1) * L = k * L + L /\ k * L \in Nat /\ R * L \in Nat
        <5>1. k + 1 <= R /\ k + 1 \in Nat
          BY <1>2, <1>3
        <5>2. (k + 1) * L <= R * L /\ R * L \in Nat
          BY <1>2, <5>1, TimesGrows
        <5>3. (k + 1) * L = k * L + L /\ k * L \in Nat
          BY <1>2
        <5>. QED
          BY <5>2, <5>3
      <4>. DEFINE a == k * L
                  b == R * L
      <4>2. a + L <= b /\ a \in Nat /\ b \in Nat /\ Turns = b
        BY <1>2, <4>1
      <4>3. After(k, m) = a + m /\ After(k, j) = a + j
        OBVIOUS
      <4>4. a + m \in 1 .. b /\ (a + m) - 1 = a + j /\ a + m = a + j + 1
        <5>. HIDE DEF a, b
        <5>. QED
          BY <1>2, <3>3, <3>5, <4>2
      <4>. HIDE DEF a, b, After
      <4>5. After(k, m) \in 1 .. Turns
        BY <4>2, <4>3, <4>4
      <4>6. After(k, m) - 1 = After(k, j)
        BY <4>3, <4>4
      <4>7. After(k, m) = a + j + 1
        BY <4>3, <4>4
      <4>. QED
        BY <4>5, <4>6, <4>7 DEF a
    <3>8. NodeAt(After(k, m)) = NodeOrder[j + 1]
      BY <3>5, <3>7, TurnOfPass
    <3>9. f[After(k, m)] = UNION {TakeOne(t, g, NodeOrder[j + 1]) : t \in f[After(k, j)]}
      BY <1>1, <3>7, <3>8
    <3>10. \A t \in f[After(k, j)] : TurnState(t) /\ Progress(t, g, k, j)
      BY <3>6 DEF Fine
    <3>. HIDE DEF After
    <3>11. ASSUME NEW t \in f[After(k, m)] PROVE TurnState(t) /\ Progress(t, g, k, m)
      <4>1. PICK u \in f[After(k, j)] : t \in TakeOne(u, g, NodeOrder[j + 1])
        BY <3>9
      <4>2. TurnState(u) /\ Progress(u, g, k, j)
        BY <3>10
      <4>3. TurnState(t) /\ Progress(t, g, k, j + 1)
        BY <3>5, <4>1, <4>2, TurnProgress
      <4>. QED
        BY <3>5, <4>3
    <3>12. Fine(k, m)
      BY <3>11 DEF Fine
    <3>. QED
      BY <3>3, <3>12
  <2>2. L \in 0 .. L
    BY <1>2
  <2>. QED
    BY <2>1, <2>2
\* From pass to pass.
<1>4. Bad = {}
  <2>. HIDE DEF Fine
  <2>. SUFFICES ASSUME Bad # {} PROVE FALSE
    OBVIOUS
  <2>1. Bad \subseteq Nat
    OBVIOUS
  <2>2. PICK m \in Bad : \A i \in Bad : m <= i
    BY <2>1, LeastOfNat
  <2>3. m \in 0 .. R /\ ~ Fine(m, 0)
    OBVIOUS
  <2>4. m # 0
    <3>1. TurnState(Reserved(TickStart, g)) /\ Reserved(TickStart, g).ready = TickStart.ready
      BY StartFits, ReservedFits
    <3>2. After(0, 0) = 0
      BY <1>2
    <3>3. Progress(Reserved(TickStart, g), g, 0, 0)
      <4>1. Cardinality(TickStart.ready) <= Cardinality(TickStart.ready) - 0
        BY <1>2
      <4>2. \A i \in 1 .. 0 : Idle(Reserved(TickStart, g), g, NodeOrder[i])
        OBVIOUS
      <4>. QED
        BY <3>1, <4>1, <4>2 DEF Progress
    <3>4. Fine(0, 0)
      BY <1>1, <3>1, <3>2, <3>3 DEF Fine
    <3>. QED
      BY <2>3, <3>4
  <2>. DEFINE k == m - 1
  <2>5. k \in Nat /\ k < R /\ k \in 0 .. R /\ m = k + 1 /\ ~ (m <= k)
    BY <1>2, <2>3, <2>4
  <2>6. Fine(k, 0)
    <3>1. k \notin Bad
      BY <2>2, <2>5
    <3>. QED
      BY <2>5, <3>1
  <2>. HIDE DEF k
  <2>7. Fine(k, L)
    BY <1>3, <2>5, <2>6
  <2>8. After(m, 0) = After(k, L)
    <3>1. (k + 1) * L = k * L + L /\ k * L \in Nat
      BY <1>2, <2>5
    <3>. QED
      BY <2>5, <3>1
  <2>9. ASSUME NEW t \in f[After(m, 0)] PROVE TurnState(t) /\ Progress(t, g, m, 0)
    <3>1. TurnState(t) /\ Progress(t, g, k, L)
      BY <2>7, <2>8 DEF Fine
    <3>2. Cardinality(t.ready) \in Nat
      BY <3>1, FiniteConstants, FS_Subset, FS_CardinalityType DEF TurnState
    <3>3. Progress(t, g, k + 1, 0)
      BY <2>5, <3>1, <3>2, PassProgress
    <3>. QED
      BY <2>5, <3>1, <3>3
  <2>10. Fine(m, 0)
    BY <2>9 DEF Fine
  <2>. QED
    BY <2>3, <2>10
<1>5. Fine(R, 0) /\ After(R, 0) = Turns
  <2>1. R \in 0 .. R
    BY <1>2
  <2>2. Fine(R, 0)
    <3>. HIDE DEF Fine
    <3>. QED
      BY <1>4, <2>1
  <2>. DEFINE b == R * L
  <2>3. b \in Nat /\ Turns = b
    BY <1>2
  <2>4. b + 0 = b
    <3>. HIDE DEF b
    <3>. QED
      BY <2>3
  <2>. QED
    BY <2>2, <2>3, <2>4
<1>6. TurnState(s) /\ Progress(s, g, R, 0)
  BY <1>1, <1>5
<1>7. IsFiniteSet(s.ready) /\ Cardinality(s.ready) \in Nat
  BY <1>6, FiniteConstants, FS_Subset, FS_CardinalityType DEF TurnState
<1>8. CASE Cardinality(s.ready) <= R - R
  <2>1. Cardinality(s.ready) = 0
    BY <1>2, <1>7, <1>8
  <2>2. s.ready = {}
    BY <1>7, <2>1, FS_EmptySet
  <2>. QED
    BY <1>6, <2>2 DEF Stuck, Idle
<1>9. CASE Cardinality(s.ready) <= R - R - 1
  BY <1>2, <1>7, <1>9
<1>. QED
  BY <1>6, <1>8, <1>9 DEF Progress

\* Fewer lanes for another engine, and more runs counted.
LEMMA CyclesHasMost ==
    ASSUME Types, NEW g \in [Nodes -> GuardRecord], NEW n \in Nodes, NEW e, NEW r
    PROVE  /\ ExclusiveLanes(r, g, n, e) <= ExclusiveLanes(r, g, n, "cycles")
           /\ InFlight(r, g, n, "cycles") <= InFlight(r, g, n, e)
           /\ InFlight(r, g, n, "cycles") \in Nat /\ InFlight(r, g, n, e) \in Nat
           /\ ExclusiveLanes(r, g, n, e) \in Nat /\ ExclusiveLanes(r, g, n, "cycles") \in Nat
<1>. DEFINE x == ExclusiveLanes(r, g, n, e)
            y == ExclusiveLanes(r, g, n, "cycles")
            R == RunsOn(r, n)
            tails == {c \in R : r[c].phase = "tail"}
<1>1. ceiling \in [Nodes -> 0 .. 2]
  BY DEF Types
<1>2. /\ x \in Nat /\ y \in Nat /\ y >= 1
      /\ (\E c \in R \ Shared : ~ r[c].plan.pin) => x = 1 /\ y = 1
      /\ ~ (\E c \in R \ Shared : ~ r[c].plan.pin)
           => x = LanePlan(g, n, e).lanes /\ y = LanePlan(g, n, "cycles").lanes
  BY <1>1, LanesExist
<1>3. e # "cycles" => LanePlan(g, n, e).lanes = 1
  BY DEF LanePlan, PlanLanes, Whole
<1>4. x <= y
  <2>. HIDE DEF x, y, R
  <2>. QED
    BY <1>2, <1>3
<1>5. Cardinality(R) \in Nat /\ Cardinality(tails) \in Nat
  <2>1. IsFiniteSet(R) /\ Cardinality(R) \in Nat /\ tails \subseteq R
    BY RunsFinite
  <2>2. IsFiniteSet(tails)
    BY <2>1, FS_Subset
  <2>. QED
    BY <2>1, <2>2, FS_CardinalityType
<1>6. /\ InFlight(r, g, n, e) = Cardinality(R) - Least(Cardinality(tails), x)
      /\ InFlight(r, g, n, "cycles") = Cardinality(R) - Least(Cardinality(tails), y)
  BY DEF InFlight
<1>7. InFlight(r, g, n, "cycles") \in Nat /\ InFlight(r, g, n, e) \in Nat
  BY <1>1, InFlightCounts
<1>8. InFlight(r, g, n, "cycles") <= InFlight(r, g, n, e)
  <2>. HIDE DEF R, tails, x, y
  <2>. QED
    BY <1>2, <1>4, <1>5, <1>6 DEF Least
<1>. QED
  BY <1>2, <1>4, <1>7, <1>8

\* What a node would admit it has room for, and picks from.
LEMMA AdmitsIsPicked ==
    ASSUME Types, NEW g \in [Nodes -> GuardRecord], NEW s, TurnState(s), NEW n \in Eligible,
           NEW c \in s.ready, TakesEngine(n, c), AdmitsNow(s, g, n, c),
           n \in failedOn[c] => ~ AnotherTakes(s, g, c)
    PROVE  ~ Idle(s, g, n)
<1>. DEFINE e == Engine[c]
            i == InFlight(s.run, g, n, "cycles")
            j == InFlight(s.run, g, n, e)
            x == ExclusiveLanes(s.run, g, n, e)
            y == ExclusiveLanes(s.run, g, n, "cycles")
<1>1. n \in Nodes
  BY DEF Eligible
<1>2. i \in Nat /\ j \in Nat /\ x \in Nat /\ y \in Nat /\ x <= y /\ i <= j
  BY <1>1, CyclesHasMost
<1>3. /\ s.reservation.node = n => s.reservation.chunk = c
      /\ HasExclusive(s.run, n) => c \notin Shared /\ j < x
      /\ ~ HasExclusive(s.run, n) => j < (IF c \in Shared THEN Capacity ELSE 1)
  BY DEF AdmitsNow, Admits
<1>4. Capacity \in Nat
  BY LanesAssumption DEF Capacity
<1>5. c \in Chunks
  BY DEF TurnState
<1>6. c \in Shared => s.reservation.node # n
  <2>1. s.reservation.chunk \in (Chunks \ Shared) \cup {"none"}
    BY DEF TurnState, Reservations
  <2>2. c \in Shared => s.reservation.chunk # c
    BY <1>5, <2>1, Constants
  <2>. QED
    BY <1>3, <2>2
<1>. HIDE DEF e, i, j, x, y
<1>7. Admits(s, g, n, c, i)
  <2>1. HasExclusive(s.run, n) => i < x
    BY <1>2, <1>3
  <2>2. ~ HasExclusive(s.run, n) => i < (IF c \in Shared THEN Capacity ELSE 1)
    BY <1>2, <1>3, <1>4
  <2>. QED
    BY <1>3, <2>1, <2>2 DEF Admits, x, e
<1>8. c \in Picks(s, g, n)
  BY <1>7 DEF Picks, i
<1>9. HasRoom(s, g, n)
  <2>1. HasExclusive(s.run, n) => i < y
    BY <1>2, <1>3
  <2>2. ~ HasExclusive(s.run, n) => i = 0 \/ (s.reservation.node # n /\ i < Capacity)
    BY <1>2, <1>3, <1>4, <1>6
  <2>. QED
    BY <2>1, <2>2 DEF HasRoom, i, y
<1>. QED
  BY <1>8, <1>9 DEF Idle

(* A tick leaves no chunk waiting that a node would take. *)
THEOREM SendsAll == Spec => []TickSendsAll
<1>1. LanesInv => TickSendsAll
  <2>. SUFFICES ASSUME LanesInv, NEW s \in Outcome(GuardsAfter), NEW n \in Eligible,
                       NEW c \in s.ready, TakesEngine(n, c), AdmitsNow(s, GuardsAfter, n, c)
                PROVE  FALSE
    BY DEF TickSendsAll
  <2>. DEFINE g == GuardsAfter
  <2>1. Types /\ Laned(run) /\ g \in [Nodes -> GuardRecord]
    BY GuardTyped DEF LanesInv
  <2>. HIDE DEF g
  <2>2. s \in Outcome(g) /\ AdmitsNow(s, g, n, c)
    BY DEF g
  <2>3. TurnState(s) /\ Stuck(s, g)
    BY <2>1, <2>2, OutcomeIsStuck
  <2>4. CASE n \notin failedOn[c] \/ ~ AnotherTakes(s, g, c)
    <3>1. ~ Idle(s, g, n)
      BY <2>1, <2>2, <2>3, <2>4, AdmitsIsPicked
    <3>. QED
      BY <2>3, <3>1 DEF Stuck, Eligible
  <2>5. CASE AnotherTakes(s, g, c)
    <3>1. PICK m \in Eligible \ failedOn[c] : TakesEngine(m, c) /\ AdmitsNow(s, g, m, c)
      BY <2>5 DEF AnotherTakes
    <3>2. ~ Idle(s, g, m)
      BY <2>1, <2>3, <3>1, AdmitsIsPicked
    <3>. QED
      BY <2>3, <3>1, <3>2 DEF Stuck, Eligible
  <2>. QED
    BY <2>4, <2>5
<1>. QED
  BY <1>1, LanesInvariant, PTL
=============================================================================
