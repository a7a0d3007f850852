----------------------- MODULE ChunkLedgerFrames_proofs -----------------------
(***************************************************************************)
(* No frame of a job is lost and none is queued twice: through every       *)
(* re-split, a frame still to come is in the range of exactly one chunk,   *)
(* for any number of frames, nodes and runs, under TornSpec.               *)
(***************************************************************************)
EXTENDS ChunkLedger_proofs, FiniteSetTheorems

\* A chunk row that exists.
Exists(ch, c) == ch[c].state # "absent"

\* A chunk starts at or after the frame it is named by, and what lies between has landed.
Named(ch, got) ==
    \A c \in Frame : Exists(ch, c) =>
        /\ c <= ch[c].lo
        /\ ch[c].lo <= ch[c].hi
        /\ c .. (ch[c].lo - 1) \subseteq got

Disjoint(ch, got) ==
    \A c, d \in Frame :
        Exists(ch, c) /\ Exists(ch, d) /\ c # d => Covered(ch[c]) \cap Covered(ch[d]) \subseteq got

Whole(ch, got) ==
    \A f \in Frame \ got : \E c \in Frame : Exists(ch, c) /\ f \in Covered(ch[c])

\* How the chunks divide the frames that have not landed.
Divided(ch, got) == Named(ch, got) /\ Disjoint(ch, got) /\ Whole(ch, got)

\* A run that has not returned drives a chunk that exists.
RunsHaveRows == \A r \in Run : run[r].phase # "free" => Exists(chunk, run[r].chunk)

\* The inductive invariant, on top of LedgerInv.
FramesInv == Divided(chunk, downloaded) /\ RunsHaveRows

\* Rows whose states alone may have changed.
SameRanges(ch, new) ==
    \A c \in Frame : /\ new[c].lo = ch[c].lo
                     /\ new[c].hi = ch[c].hi
                     /\ Exists(new, c) <=> Exists(ch, c)

-----------------------------------------------------------------------------
\* What divides the frames still to come divides those that are left later.
LEMMA DividedMono ==
    ASSUME NEW ch, NEW got, NEW more, Divided(ch, got), got \subseteq more
    PROVE  Divided(ch, more)
  BY DEF Divided, Named, Disjoint, Whole

\* A change of states leaves the frames divided.
LEMMA DividedSame ==
    ASSUME NEW ch, NEW got, NEW new, Divided(ch, got), SameRanges(ch, new)
    PROVE  Divided(new, got)
<1>1. \A c \in Frame : Covered(new[c]) = Covered(ch[c])
  BY DEF SameRanges, Covered
<1>2. Named(new, got)
  BY DEF Divided, Named, SameRanges
<1>3. Disjoint(new, got)
  BY <1>1 DEF Divided, Disjoint, SameRanges
<1>4. Whole(new, got)
  BY <1>1 DEF Divided, Whole, SameRanges
<1>. QED
  BY <1>2, <1>3, <1>4 DEF Divided

\* A row's range is one of naturals.
LEMMA RangeTypes ==
    ASSUME chunk \in [Frame -> Chunk], NEW c \in Frame
    PROVE  chunk[c].lo \in Nat /\ chunk[c].hi \in Nat /\ c \in Nat
<1>1. c \in 1 .. NumFrames /\ chunk[c].lo \in 1 .. NumFrames /\ chunk[c].hi \in 0 .. NumFrames
  BY DEF Chunk, Frame
<1>. QED
  BY <1>1, LedgerConstants

\* A run of what a chunk misses: its frames are the chunk's, and none has landed.
LEMMA RunOfChunk ==
    ASSUME chunk \in [Frame -> Chunk], NEW c \in Frame, NEW got, NEW rg \in Runs(c, got)
    PROVE  /\ rg.lo \in Nat /\ rg.hi \in Nat /\ rg.lo <= rg.hi
           /\ rg.lo \in Covered(rg) /\ rg.lo \in Covered(chunk[c])
           /\ Covered(rg) \subseteq Covered(chunk[c]) \ got
           /\ rg.lo \in Frame
<1>1. chunk[c].lo \in Nat /\ chunk[c].hi \in Nat
  BY RangeTypes
<1>2. /\ rg.lo \in chunk[c].lo .. chunk[c].hi
      /\ rg.hi \in chunk[c].lo .. chunk[c].hi
      /\ rg.lo <= rg.hi
      /\ Covered(rg) \subseteq (chunk[c].lo .. chunk[c].hi) \ got
  BY <1>1, RunInRange DEF Runs
<1>3. rg.lo \in Frame
  BY RunsOfChunk
<1>. QED
  BY <1>1, <1>2, <1>3 DEF Covered

\* Two runs of one chunk that share a frame are one.
LEMMA SameRun ==
    ASSUME chunk \in [Frame -> Chunk], NEW c \in Frame, NEW got,
           NEW r1 \in Runs(c, got), NEW r2 \in Runs(c, got),
           NEW f, f \in Covered(r1), f \in Covered(r2)
    PROVE  r1 = r2
<1>1. chunk[c].lo \in Nat /\ chunk[c].hi \in Nat
  BY RangeTypes
<1>. QED
  BY <1>1, RunsAreDisjoint DEF Runs

\* The first run starts before any other, and no missing frame lies before it.
LEMMA FirstIsFirst ==
    ASSUME chunk \in [Frame -> Chunk], NEW c \in Frame, NEW got, Runs(c, got) # {}
    PROVE  LET first == FirstRun(Runs(c, got))
           IN  /\ first \in Runs(c, got)
               /\ \A rg \in Runs(c, got) : first.lo <= rg.lo
               /\ first \notin LaterRuns(Runs(c, got))
               /\ \A rg \in Runs(c, got) : rg # first => rg \in LaterRuns(Runs(c, got))
               /\ \A f \in Covered(chunk[c]) \ got : first.lo <= f
<1>. DEFINE first == FirstRun(Runs(c, got))
<1>1. chunk[c].lo \in Nat /\ chunk[c].hi \in Nat
  BY RangeTypes
<1>2. first \in Runs(c, got) /\ \A rg \in Runs(c, got) : first.lo <= rg.lo
  BY <1>1, FirstRunIsRun DEF Runs
<1>3. \A rg \in Runs(c, got) : rg.lo \in Nat /\ rg.lo \in Covered(rg)
  BY RunOfChunk
<1>4. first \notin LaterRuns(Runs(c, got))
  BY <1>2, <1>3 DEF LaterRuns
<1>5. ASSUME NEW rg \in Runs(c, got), rg # first
      PROVE  rg \in LaterRuns(Runs(c, got))
  <2>1. rg.lo # first.lo
    BY <1>2, <1>3, <1>5, SameRun
  <2>2. first.lo < rg.lo
    BY <1>2, <1>3, <2>1
  <2>. QED
    BY <1>2, <2>2 DEF LaterRuns
<1>6. ASSUME NEW f \in Covered(chunk[c]) \ got
      PROVE  first.lo <= f
  <2>1. PICK rg \in Runs(c, got) : f \in Covered(rg)
    BY <1>1, MissingIsInRun DEF Runs, Covered
  <2>2. rg.lo <= f /\ f \in Int
    BY <2>1, <1>3, RunOfChunk DEF Covered
  <2>3. first.lo <= rg.lo /\ first.lo \in Nat /\ rg.lo \in Nat
    BY <1>2, <1>3
  <2>. QED
    BY <2>2, <2>3
<1>. QED
  BY <1>2, <1>4, <1>5, <1>6

\* The frames at which a chunk is split name no chunk yet.
LEMMA NewNamesFree ==
    ASSUME chunk \in [Frame -> Chunk], NEW got, Divided(chunk, got),
           NEW c \in Frame, Exists(chunk, c), NEW f \in NewStarts(c, got)
    PROVE  f \in Frame /\ f # c /\ ~Exists(chunk, f)
<1>1. PICK rg \in LaterRuns(Runs(c, got)) : f = rg.lo
  BY DEF NewStarts
<1>2. rg \in Runs(c, got)
  BY <1>1 DEF LaterRuns
<1>3. f \in Frame /\ f \in Covered(chunk[c]) /\ f \notin got /\ f \in Nat
  BY <1>1, <1>2, RunOfChunk
<1>4. f # c
  <2>1. PICK other \in Runs(c, got) : other.lo < rg.lo
    BY <1>1 DEF LaterRuns
  <2>2. other.lo \in Nat /\ other.lo \in Covered(chunk[c])
    BY <2>1, RunOfChunk
  <2>3. chunk[c].lo <= other.lo /\ c <= chunk[c].lo /\ chunk[c].lo \in Nat /\ c \in Nat
    BY <2>2, RangeTypes DEF Covered, Divided, Named
  <2>. QED
    BY <1>1, <1>3, <2>1, <2>2, <2>3
<1>5. ASSUME Exists(chunk, f)
      PROVE  FALSE
  <2>1. chunk[f].lo \in Nat /\ chunk[f].hi \in Nat
    BY <1>3, RangeTypes
  <2>2. f <= chunk[f].lo /\ chunk[f].lo <= chunk[f].hi /\ f .. (chunk[f].lo - 1) \subseteq got
    BY <1>3, <1>5 DEF Divided, Named
  <2>3. chunk[f].lo = f
    BY <1>3, <2>1, <2>2
  <2>4. f \in Covered(chunk[f])
    BY <1>3, <2>1, <2>2, <2>3 DEF Covered
  <2>. QED
    BY <1>3, <1>4, <1>5, <2>4 DEF Divided, Disjoint
<1>. QED
  BY <1>3, <1>4, <1>5

-----------------------------------------------------------------------------
\* What the landed frames divide.

\* Rows in which every chunk of T keeps its first missing run, and its later ones have become
\* chunks of their own, each named by its first frame.
Split(new, T, got) ==
    /\ \A c \in T : /\ Exists(new, c)
                    /\ new[c].lo = FirstRun(Runs(c, got)).lo
                    /\ new[c].hi = FirstRun(Runs(c, got)).hi
    /\ \A f \in Frame \ T :
         IF \E c \in T : f \in NewStarts(c, got)
         THEN /\ Exists(new, f)
              /\ \E c \in T : \E rg \in LaterRuns(Runs(c, got)) :
                    f = rg.lo /\ new[f].lo = rg.lo /\ new[f].hi = rg.hi
         ELSE /\ new[f].lo = chunk[f].lo
              /\ new[f].hi = chunk[f].hi
              /\ Exists(new, f) <=> Exists(chunk, f)

\* Where a row of the split comes from: chunk c itself, or a missing run rg of it.
FromKept(new, T, f, c) ==
    /\ c \notin T /\ f = c
    /\ new[f].lo = chunk[c].lo /\ new[f].hi = chunk[c].hi

FromRun(new, T, got, f, c, rg) ==
    /\ c \in T /\ rg \in Runs(c, got)
    /\ new[f].lo = rg.lo /\ new[f].hi = rg.hi
    /\ \/ f = c /\ rg = FirstRun(Runs(c, got))
       \/ f = rg.lo /\ rg \in LaterRuns(Runs(c, got))

\* Every row of the split comes from a chunk there was.
LEMMA SplitOrigin ==
    ASSUME chunk \in [Frame -> Chunk], NEW got, NEW T \in SUBSET Frame,
           \A c \in T : Exists(chunk, c) /\ Runs(c, got) # {},
           NEW new, Split(new, T, got), NEW f \in Frame, Exists(new, f)
    PROVE  \E c \in Frame : /\ Exists(chunk, c)
                            /\ \/ FromKept(new, T, f, c)
                               \/ \E rg \in Runs(c, got) : FromRun(new, T, got, f, c, rg)
<1>1. CASE f \in T
  <2>1. FirstRun(Runs(f, got)) \in Runs(f, got)
    BY <1>1, FirstIsFirst
  <2>2. FromRun(new, T, got, f, f, FirstRun(Runs(f, got)))
    BY <1>1, <2>1 DEF FromRun, Split
  <2>. QED
    BY <1>1, <2>1, <2>2
<1>2. CASE f \notin T /\ \E c \in T : f \in NewStarts(c, got)
  <2>. PICK c \in T : \E rg \in LaterRuns(Runs(c, got)) :
            f = rg.lo /\ new[f].lo = rg.lo /\ new[f].hi = rg.hi
    BY <1>2 DEF Split
  <2>1. PICK rg \in LaterRuns(Runs(c, got)) :
            f = rg.lo /\ new[f].lo = rg.lo /\ new[f].hi = rg.hi
    OBVIOUS
  <2>2. rg \in Runs(c, got)
    BY <2>1 DEF LaterRuns
  <2>3. FromRun(new, T, got, f, c, rg)
    BY <2>1, <2>2 DEF FromRun
  <2>. QED
    BY <2>2, <2>3
<1>3. CASE f \notin T /\ ~\E c \in T : f \in NewStarts(c, got)
  <2>1. FromKept(new, T, f, f) /\ Exists(chunk, f)
    BY <1>3 DEF Split, FromKept
  <2>. QED
    BY <2>1
<1>. QED
  BY <1>1, <1>2, <1>3

\* A split leaves each chunk named by a frame at or before its first, with nothing missing between.
LEMMA SplitNamed ==
    ASSUME chunk \in [Frame -> Chunk], NEW got, Divided(chunk, got), NEW T \in SUBSET Frame,
           \A c \in T : Exists(chunk, c) /\ Runs(c, got) # {},
           NEW new, Split(new, T, got)
    PROVE  Named(new, got)
<1>. SUFFICES ASSUME NEW f \in Frame, Exists(new, f)
              PROVE  /\ f <= new[f].lo /\ new[f].lo <= new[f].hi
                     /\ f .. (new[f].lo - 1) \subseteq got
  BY DEF Named
<1>1. PICK c \in Frame : /\ Exists(chunk, c)
                         /\ \/ FromKept(new, T, f, c)
                            \/ \E rg \in Runs(c, got) : FromRun(new, T, got, f, c, rg)
  BY SplitOrigin
<1>2. CASE FromKept(new, T, f, c)
  BY <1>1, <1>2 DEF FromKept, Divided, Named
<1>3. ASSUME NEW rg \in Runs(c, got), FromRun(new, T, got, f, c, rg)
      PROVE  /\ f <= new[f].lo /\ new[f].lo <= new[f].hi
             /\ f .. (new[f].lo - 1) \subseteq got
  <2>1. /\ rg.lo \in Nat /\ rg.hi \in Nat /\ rg.lo <= rg.hi
        /\ rg.lo \in Covered(chunk[c])
    BY RunOfChunk
  <2>2. CASE f = rg.lo
    BY <1>3, <2>1, <2>2 DEF FromRun
  <2>3. CASE f = c /\ rg = FirstRun(Runs(c, got))
    <3>1. chunk[c].lo \in Nat /\ chunk[c].hi \in Nat /\ c \in Nat
      BY RangeTypes
    <3>2. chunk[c].lo <= rg.lo /\ rg.lo <= chunk[c].hi
      BY <2>1, <3>1 DEF Covered
    <3>3. c <= chunk[c].lo /\ c .. (chunk[c].lo - 1) \subseteq got
      BY <1>1 DEF Divided, Named
    <3>4. \A g \in Covered(chunk[c]) \ got : rg.lo <= g
      BY <2>3, FirstIsFirst
    <3>5. ASSUME NEW g \in c .. (rg.lo - 1)
          PROVE  g \in got
      <4>1. CASE g < chunk[c].lo
        BY <2>1, <3>1, <3>3, <3>5, <4>1
      <4>2. CASE ~(g < chunk[c].lo)
        <5>1. g \in Covered(chunk[c]) /\ ~(rg.lo <= g)
          BY <2>1, <3>1, <3>2, <3>5, <4>2 DEF Covered
        <5>. QED
          BY <3>4, <5>1
      <4>. QED
        BY <4>1, <4>2
    <3>. QED
      BY <1>3, <2>1, <2>3, <3>1, <3>2, <3>3, <3>5 DEF FromRun
  <2>. QED
    BY <1>3, <2>2, <2>3 DEF FromRun
<1>. QED
  BY <1>1, <1>2, <1>3

\* No two chunks of a split share a frame still to come.
LEMMA SplitDisjoint ==
    ASSUME chunk \in [Frame -> Chunk], NEW got, Divided(chunk, got), NEW T \in SUBSET Frame,
           \A c \in T : Exists(chunk, c) /\ Runs(c, got) # {},
           NEW new, Split(new, T, got)
    PROVE  Disjoint(new, got)
<1>. SUFFICES ASSUME NEW f \in Frame, NEW g \in Frame, Exists(new, f), Exists(new, g),
                     NEW x, x \in Covered(new[f]), x \in Covered(new[g]), x \notin got
              PROVE  f = g
  BY DEF Disjoint
<1>1. PICK c \in Frame : /\ Exists(chunk, c)
                         /\ \/ FromKept(new, T, f, c)
                            \/ \E rg \in Runs(c, got) : FromRun(new, T, got, f, c, rg)
  BY SplitOrigin
<1>2. PICK d \in Frame : /\ Exists(chunk, d)
                         /\ \/ FromKept(new, T, g, d)
                            \/ \E rg \in Runs(d, got) : FromRun(new, T, got, g, d, rg)
  BY SplitOrigin
<1>3. \A rg \in Runs(c, got) : FromRun(new, T, got, f, c, rg) =>
         x \in Covered(rg) /\ x \in Covered(chunk[c])
  BY RunOfChunk DEF FromRun, Covered
<1>4. \A rg \in Runs(d, got) : FromRun(new, T, got, g, d, rg) =>
         x \in Covered(rg) /\ x \in Covered(chunk[d])
  BY RunOfChunk DEF FromRun, Covered
<1>5. x \in Covered(chunk[c]) /\ x \in Covered(chunk[d])
  BY <1>1, <1>2, <1>3, <1>4 DEF FromKept, Covered
<1>6. c = d
  BY <1>1, <1>2, <1>5 DEF Divided, Disjoint
<1>7. CASE c \notin T
  BY <1>1, <1>2, <1>6, <1>7 DEF FromKept, FromRun
<1>8. CASE c \in T
  <2>1. PICK rf \in Runs(c, got) : FromRun(new, T, got, f, c, rf)
    BY <1>1, <1>8 DEF FromKept
  <2>2. PICK rg \in Runs(c, got) : FromRun(new, T, got, g, c, rg)
    BY <1>2, <1>6, <1>8 DEF FromKept
  <2>3. rf = rg
    BY <1>3, <1>4, <1>6, <2>1, <2>2, SameRun
  <2>4. FirstRun(Runs(c, got)) \notin LaterRuns(Runs(c, got))
    BY <1>8, FirstIsFirst
  <2>. QED
    BY <2>1, <2>2, <2>3, <2>4 DEF FromRun
<1>. QED
  BY <1>7, <1>8

\* Every frame still to come is in a chunk of the split.
LEMMA SplitWhole ==
    ASSUME chunk \in [Frame -> Chunk], NEW got, Divided(chunk, got), NEW T \in SUBSET Frame,
           \A c \in T : Exists(chunk, c) /\ Runs(c, got) # {},
           NEW new, Split(new, T, got)
    PROVE  Whole(new, got)
<1>. SUFFICES ASSUME NEW f \in Frame \ got
              PROVE  \E c \in Frame : Exists(new, c) /\ f \in Covered(new[c])
  BY DEF Whole
<1>1. PICK c \in Frame : Exists(chunk, c) /\ f \in Covered(chunk[c])
  BY DEF Divided, Whole
<1>2. CASE c \notin T
  <2>1. ~\E d \in T : c \in NewStarts(d, got)
    BY <1>1, NewNamesFree
  <2>. QED
    BY <1>1, <1>2, <2>1 DEF Split, Covered
<1>3. CASE c \in T
  <2>1. PICK rg \in Runs(c, got) : f \in Covered(rg)
    <3>1. chunk[c].lo \in Nat /\ chunk[c].hi \in Nat
      BY RangeTypes
    <3>. QED
      BY <1>1, <3>1, MissingIsInRun DEF Runs, Covered
  <2>2. CASE rg = FirstRun(Runs(c, got))
    BY <1>3, <2>1, <2>2 DEF Split, Covered
  <2>3. CASE rg # FirstRun(Runs(c, got))
    <3>1. rg \in LaterRuns(Runs(c, got))
      BY <1>3, <2>3, FirstIsFirst
    <3>2. rg.lo \in NewStarts(c, got)
      BY <3>1 DEF NewStarts
    <3>3. rg.lo \in Frame /\ rg.lo \notin T
      BY <1>3, <3>2, NewNamesFree
    <3>. PICK d \in T : \E other \in LaterRuns(Runs(d, got)) :
              rg.lo = other.lo /\ new[rg.lo].lo = other.lo /\ new[rg.lo].hi = other.hi
      BY <1>3, <3>2, <3>3 DEF Split
    <3>4. PICK other \in LaterRuns(Runs(d, got)) :
              rg.lo = other.lo /\ new[rg.lo].lo = other.lo /\ new[rg.lo].hi = other.hi
      OBVIOUS
    <3>9. Exists(new, rg.lo)
      BY <1>3, <3>2, <3>3 DEF Split
    <3>5. other \in Runs(d, got)
      BY DEF LaterRuns
    <3>6. /\ rg.lo \in Covered(rg) /\ rg.lo \in Covered(chunk[c]) /\ rg.lo \notin got
          /\ rg.lo \in Covered(other) /\ rg.lo \in Covered(chunk[d])
      BY <3>4, <3>5, RunOfChunk
    <3>7. c = d
      BY <1>1, <3>6 DEF Divided, Disjoint
    <3>8. rg = other
      BY <3>5, <3>6, <3>7, SameRun
    <3>. QED
      BY <2>1, <3>3, <3>4, <3>8, <3>9 DEF Covered
  <2>. QED
    BY <2>2, <2>3
<1>. QED
  BY <1>2, <1>3

\* A split divides the frames still to come.
LEMMA SplitDivides ==
    ASSUME chunk \in [Frame -> Chunk], NEW got, Divided(chunk, got), NEW T \in SUBSET Frame,
           \A c \in T : Exists(chunk, c) /\ Runs(c, got) # {},
           NEW new, Split(new, T, got)
    PROVE  Divided(new, got)
  BY SplitNamed, SplitDisjoint, SplitWhole DEF Divided

-----------------------------------------------------------------------------
\* What the operators on rows do to the division.

\* Rows `new' divide what `got' leaves to come, and every row there was is still there.
Keeps(new, got) ==
    /\ Divided(new, got)
    /\ \A c \in Frame : Exists(chunk, c) => Exists(new, c)

\* Rows whose states alone changed keep the frames divided, whatever landed meanwhile.
LEMMA SameKeeps ==
    ASSUME Divided(chunk, downloaded), NEW got, downloaded \subseteq got,
           NEW new, SameRanges(chunk, new)
    PROVE  Keeps(new, got)
<1>1. Divided(chunk, got)
  BY DividedMono
<1>. QED
  BY <1>1, DividedSame DEF Keeps, SameRanges

\* A row set to another state has its range still.
LEMMA SetKeepsRange ==
    ASSUME NEW row \in Chunk, NEW s
    PROVE  /\ [row EXCEPT !.state = s].lo = row.lo
           /\ [row EXCEPT !.state = s].hi = row.hi
           /\ [row EXCEPT !.state = s].state = s
  BY DEF Chunk

\* A row put on a run has that run's range.
LEMMA OnRange ==
    ASSUME NEW row \in Chunk, row.state = "pending", NEW rg
    PROVE  /\ On(rg, row).lo = rg.lo
           /\ On(rg, row).hi = rg.hi
           /\ On(rg, row).state # "absent"
  BY DEF On, Chunk

\* The run a new chunk is put on starts at the frame the chunk is named by, and is a later one.
LEMMA NewStartRun ==
    ASSUME NEW c \in Frame, NEW got, NEW f \in NewStarts(c, got)
    PROVE  LET rg == CHOOSE rg \in Runs(c, got) : rg.lo = f
           IN  rg \in LaterRuns(Runs(c, got)) /\ rg.lo = f
<1>1. PICK later \in LaterRuns(Runs(c, got)) : later.lo = f
  BY DEF NewStarts
<1>2. \E other \in Runs(c, got) : other.lo < f
  BY <1>1 DEF LaterRuns
<1>. QED
  BY <1>2, NewStartHasRun DEF LaterRuns

\* resplitAroundDownloaded splits the chunks it queues again and leaves the others their ranges.
LEMMA ResplitKeeps ==
    ASSUME chunk \in [Frame -> Chunk], Divided(chunk, downloaded),
           NEW got, downloaded \subseteq got, NEW budget,
           NEW S \in SUBSET Frame, \A c \in S : Exists(chunk, c)
    PROVE  Keeps(Resplit(S, budget, got), got)
<1>. DEFINE new == Resplit(S, budget, got)
            T   == { c \in S : Runs(c, got) # {} /\ ~Spent(c, budget) }
<1>1. Divided(chunk, got)
  BY DividedMono
<1>2. ASSUME NEW c \in T
      PROVE  /\ Exists(new, c)
             /\ new[c].lo = FirstRun(Runs(c, got)).lo
             /\ new[c].hi = FirstRun(Runs(c, got)).hi
  <2>1. new[c] = On(FirstRun(Runs(c, got)), Charged(c, budget))
    BY DEF Resplit
  <2>. QED
    BY <2>1, ChargedType, OnRange DEF Exists
<1>3. ASSUME NEW f \in S \ T
      PROVE  /\ new[f].lo = chunk[f].lo /\ new[f].hi = chunk[f].hi /\ Exists(new, f)
             /\ ~\E c \in T : f \in NewStarts(c, got)
  <2>1. \/ new[f] = [chunk[f] EXCEPT !.state = "complete"]
        \/ new[f] = [chunk[f] EXCEPT !.state = "failed"]
    BY DEF Resplit
  <2>2. ~\E c \in T : f \in NewStarts(c, got)
    BY <1>1, NewNamesFree
  <2>3. chunk[f] \in Chunk
    OBVIOUS
  <2>4. new[f].lo = chunk[f].lo /\ new[f].hi = chunk[f].hi /\ new[f].state # "absent"
    <3>. HIDE DEF new
    <3>1. CASE new[f] = [chunk[f] EXCEPT !.state = "complete"]
      BY <2>3, <3>1, SetKeepsRange
    <3>2. CASE new[f] = [chunk[f] EXCEPT !.state = "failed"]
      BY <2>3, <3>2, SetKeepsRange
    <3>. QED
      BY <2>1, <3>1, <3>2
  <2>. QED
    BY <2>2, <2>4 DEF Exists
<1>4. ASSUME NEW f \in Frame \ S, NEW t \in T, f \in NewStarts(t, got)
      PROVE  /\ Exists(new, f)
             /\ \E c \in T : \E rg \in LaterRuns(Runs(c, got)) :
                   f = rg.lo /\ new[f].lo = rg.lo /\ new[f].hi = rg.hi
  <2>. DEFINE parent == { c \in S : ~Spent(c, budget) /\ f \in NewStarts(c, got) }
              c      == CHOOSE c \in parent : TRUE
              rg     == CHOOSE rg \in Runs(c, got) : rg.lo = f
  <2>1. t \in parent
    BY <1>4
  <2>2. c \in parent /\ c \in Frame /\ f \in NewStarts(c, got)
    BY <2>1
  <2>3. rg \in LaterRuns(Runs(c, got)) /\ rg.lo = f
    <3>. HIDE DEF c, parent
    <3>. QED
      BY <2>2, NewStartRun
  <2>4. c \in T
    BY <2>2, <2>3 DEF LaterRuns
  <2>5. new[f] = On(rg, Charged(c, budget))
    BY <2>1 DEF Resplit
  <2>6. new[f].lo = rg.lo /\ new[f].hi = rg.hi /\ new[f].state # "absent"
    BY <2>2, <2>5, ChargedType, OnRange
  <2>. QED
    BY <2>3, <2>4, <2>6 DEF Exists
<1>5. ASSUME NEW f \in Frame \ S, ~\E c \in T : f \in NewStarts(c, got)
      PROVE  new[f] = chunk[f]
  <2>1. { c \in S : ~Spent(c, budget) /\ f \in NewStarts(c, got) } = {}
    BY <1>5 DEF NewStarts, LaterRuns
  <2>. QED
    BY <2>1 DEF Resplit
<1>6. Split(new, T, got)
  BY <1>2, <1>3, <1>4, <1>5 DEF Split, Exists
<1>7. Divided(new, got)
  BY <1>1, <1>6, SplitDivides
<1>8. \A c \in Frame : Exists(chunk, c) => Exists(new, c)
  BY <1>2, <1>3, <1>4, <1>5 DEF Exists
<1>. QED
  BY <1>7, <1>8 DEF Keeps

\* So does reviveFailedChunks.
LEMMA RevivedKeeps ==
    ASSUME chunk \in [Frame -> Chunk], Divided(chunk, downloaded),
           NEW S \in SUBSET Frame, \A c \in S : Exists(chunk, c)
    PROVE  Keeps(Revived(S), downloaded)
<1>. DEFINE got == downloaded
            new == Revived(S)
            T   == { c \in S : Runs(c, got) # {} }
<1>1. \A c \in Frame : Fresh(chunk[c]) \in Chunk /\ Fresh(chunk[c]).state = "pending"
  BY FreshRow
<1>2. ASSUME NEW c \in T
      PROVE  /\ Exists(new, c)
             /\ new[c].lo = FirstRun(Runs(c, got)).lo
             /\ new[c].hi = FirstRun(Runs(c, got)).hi
  <2>1. new[c] = On(FirstRun(Runs(c, got)), Fresh(chunk[c]))
    BY DEF Revived
  <2>. QED
    BY <1>1, <2>1, OnRange DEF Exists
<1>3. ASSUME NEW f \in S \ T
      PROVE  /\ new[f].lo = chunk[f].lo /\ new[f].hi = chunk[f].hi /\ Exists(new, f)
             /\ ~\E c \in T : f \in NewStarts(c, got)
  <2>1. new[f] = [chunk[f] EXCEPT !.state = "complete"]
    BY DEF Revived
  <2>2. ~\E c \in T : f \in NewStarts(c, got)
    BY NewNamesFree
  <2>3. chunk[f] \in Chunk
    OBVIOUS
  <2>4. new[f].lo = chunk[f].lo /\ new[f].hi = chunk[f].hi /\ new[f].state # "absent"
    <3>. HIDE DEF new
    <3>. QED
      BY <2>1, <2>3, SetKeepsRange
  <2>. QED
    BY <2>2, <2>4 DEF Exists
<1>4. ASSUME NEW f \in Frame \ S, NEW t \in T, f \in NewStarts(t, got)
      PROVE  /\ Exists(new, f)
             /\ \E c \in T : \E rg \in LaterRuns(Runs(c, got)) :
                   f = rg.lo /\ new[f].lo = rg.lo /\ new[f].hi = rg.hi
  <2>. DEFINE parent == { c \in S : f \in NewStarts(c, got) }
              c      == CHOOSE c \in parent : TRUE
              rg     == CHOOSE rg \in Runs(c, got) : rg.lo = f
  <2>1. t \in parent
    BY <1>4
  <2>2. c \in parent /\ c \in Frame /\ f \in NewStarts(c, got)
    BY <2>1
  <2>3. rg \in LaterRuns(Runs(c, got)) /\ rg.lo = f
    <3>. HIDE DEF c, parent
    <3>. QED
      BY <2>2, NewStartRun
  <2>4. c \in T
    BY <2>2, <2>3 DEF LaterRuns
  <2>5. new[f] = On(rg, Fresh(chunk[c]))
    BY <2>1 DEF Revived
  <2>6. new[f].lo = rg.lo /\ new[f].hi = rg.hi /\ new[f].state # "absent"
    BY <1>1, <2>2, <2>5, OnRange
  <2>. QED
    BY <2>3, <2>4, <2>6 DEF Exists
<1>5. ASSUME NEW f \in Frame \ S, ~\E c \in T : f \in NewStarts(c, got)
      PROVE  new[f] = chunk[f]
  <2>1. { c \in S : f \in NewStarts(c, got) } = {}
    BY <1>5 DEF NewStarts, LaterRuns
  <2>. QED
    BY <2>1 DEF Revived
<1>6. Split(new, T, got)
  BY <1>2, <1>3, <1>4, <1>5 DEF Split, Exists
<1>7. Divided(new, got)
  BY <1>6, SplitDivides
<1>8. \A c \in Frame : Exists(chunk, c) => Exists(new, c)
  BY <1>2, <1>3, <1>4, <1>5 DEF Exists
<1>. QED
  BY <1>7, <1>8 DEF Keeps

-----------------------------------------------------------------------------
\* What the steps do to the division.

\* No run begins, and those that go on keep their chunks.
RunsGoOn ==
    \A r \in Run : run'[r].phase # "free" =>
        run[r].phase # "free" /\ run'[r].chunk = run[r].chunk

\* A step that keeps the division and starts no run keeps the invariant.
LEMMA KeepsInv ==
    ASSUME LedgerInv, FramesInv, Keeps(chunk', downloaded'), RunsGoOn
    PROVE  FramesInv'
<1>1. RunsHaveRows'
  BY DEF LedgerInv, RunsOK, BusyRunsHaveWork, FramesInv, RunsHaveRows, RunsGoOn, Keeps, Exists
<1>. QED
  BY <1>1 DEF FramesInv, Keeps

\* Runs go on when none changes, when one returns, and when all are gone.
LEMMA RunsGoOnWhen ==
    ASSUME LedgerInv,
           \/ run' = run
           \/ \E r \in Run : Returns(r)
           \/ \E r \in Run, p \in Phases : run[r].phase # "free" /\ run' = [run EXCEPT ![r].phase = p]
           \/ \E r \in Run : run' = [run EXCEPT ![r].gaveUp = TRUE]
           \/ \E R \in SUBSET Run : Aborted(R)
           \/ Dies
    PROVE  RunsGoOn
<1>1. run \in [Run -> RunRecord]
  BY DEF LedgerInv, RunsOK
<1>2. ASSUME NEW s \in Run
      PROVE  run[s] \in RunRecord
  BY <1>1
<1>3. CASE run' = run
  BY <1>3 DEF RunsGoOn
<1>4. CASE \E r \in Run : Returns(r)
  BY <1>1, <1>4 DEF RunsGoOn, Returns, FreeRun
<1>5. CASE \E r \in Run, p \in Phases : run[r].phase # "free" /\ run' = [run EXCEPT ![r].phase = p]
  BY <1>1, <1>2, <1>5 DEF RunsGoOn, RunRecord
<1>6. CASE \E r \in Run : run' = [run EXCEPT ![r].gaveUp = TRUE]
  BY <1>1, <1>2, <1>6 DEF RunsGoOn, RunRecord
<1>7. CASE \E R \in SUBSET Run : Aborted(R)
  BY <1>1, <1>2, <1>7 DEF RunsGoOn, RunRecord, Aborted
<1>8. CASE Dies
  BY <1>8 DEF RunsGoOn, Dies, FreeRun
<1>. QED
  BY <1>3, <1>4, <1>5, <1>6, <1>7, <1>8

\* One row of those there are, set to a state a row has.
LEMMA SetSameRanges ==
    ASSUME chunk \in [Frame -> Chunk], NEW c \in Frame, Exists(chunk, c), NEW s, s # "absent"
    PROVE  SameRanges(chunk, [chunk EXCEPT ![c].state = s])
<1>1. \A d \in Frame : chunk[d] \in Chunk
  OBVIOUS
<1>. QED
  BY <1>1, SetKeepsRange DEF SameRanges, Exists

\* Rows of which some have had their state set.
LEMMA SomeSetSameRanges ==
    ASSUME chunk \in [Frame -> Chunk], NEW s, s # "absent", NEW new,
           \A c \in Frame : \/ new[c] = chunk[c]
                            \/ Exists(chunk, c) /\ new[c] = [chunk[c] EXCEPT !.state = s]
    PROVE  SameRanges(chunk, new)
<1>1. ASSUME NEW c \in Frame
      PROVE  /\ new[c].lo = chunk[c].lo /\ new[c].hi = chunk[c].hi
             /\ Exists(new, c) <=> Exists(chunk, c)
  <2>1. CASE new[c] = chunk[c]
    BY <2>1 DEF Exists
  <2>2. CASE Exists(chunk, c) /\ new[c] = [chunk[c] EXCEPT !.state = s]
    <3>1. chunk[c] \in Chunk
      OBVIOUS
    <3>. QED
      BY <2>2, <3>1, SetKeepsRange DEF Exists
  <2>. QED
    BY <2>1, <2>2
<1>. QED
  BY <1>1 DEF SameRanges

\* requeue and failJob keep the division.
LEMMA RequeueKeeps ==
    ASSUME LedgerInv, FramesInv, NEW c \in Frame, Exists(chunk, c), NEW n, NEW failure,
           NEW got, downloaded \subseteq got, Requeue(c, n, failure, got)
    PROVE  Keeps(chunk', got)
<1>1. chunk \in [Frame -> Chunk] /\ Divided(chunk, downloaded)
  BY DEF LedgerInv, RowsOK, Sound, FramesInv
<1>2. CASE jobState = "cancelled"
  <2>1. SameRanges(chunk, chunk')
    BY <1>2 DEF Requeue, SameRanges
  <2>. QED
    BY <1>1, <2>1, SameKeeps
<1>3. CASE jobState # "cancelled" /\ jobState = "failed"
  <2>1. chunk' = [chunk EXCEPT ![c].state = IF @ = "complete" THEN @ ELSE "failed"]
    BY <1>3 DEF Requeue
  <2>2. SameRanges(chunk, chunk')
    BY <1>1, <2>1, SetSameRanges
  <2>. QED
    BY <1>1, <2>2, SameKeeps
<1>4. CASE jobState \notin {"cancelled", "failed"} /\ failure = "fatal"
  <2>1. chunk' = FailedWith(c)
    BY <1>4 DEF Requeue
  <2>2. \A d \in Frame : \/ chunk'[d] = chunk[d]
                         \/ Exists(chunk, d) /\ chunk'[d] = [chunk[d] EXCEPT !.state = "failed"]
    BY <2>1 DEF FailedWith, Exists
  <2>3. SameRanges(chunk, chunk')
    BY <1>1, <2>2, SomeSetSameRanges
  <2>. QED
    BY <1>1, <2>3, SameKeeps
<1>5. CASE jobState \notin {"cancelled", "failed"} /\ failure # "fatal"
  <2>1. chunk' = Resplit({c}, Budget(failure), got)
    BY <1>5 DEF Requeue
  <2>. QED
    BY <1>1, <2>1, ResplitKeeps
<1>. QED
  BY <1>2, <1>3, <1>4, <1>5

\* settleDownloadedPending changes states alone.
LEMMA SettledSameRanges ==
    ASSUME chunk \in [Frame -> Chunk]
    PROVE  SameRanges(chunk, Settled)
<1>1. \A c \in Frame : \/ Settled[c] = chunk[c]
                       \/ Exists(chunk, c) /\ Settled[c] = [chunk[c] EXCEPT !.state = "complete"]
  BY DEF Settled, Exists
<1>. QED
  BY <1>1, SomeSetSameRanges

\* The chunk of a run that has not returned is a row of the ledger.
LEMMA BusyChunkExists ==
    ASSUME LedgerInv, FramesInv, NEW r \in Run, run[r].phase # "free"
    PROVE  run[r].chunk \in Frame /\ Exists(chunk, run[r].chunk)
  BY DEF LedgerInv, RunsOK, BusyRunsHaveWork, FramesInv, RunsHaveRows

\* A step that leaves the rows alone, whatever lands.
LEMMA RowsStayKeeps ==
    ASSUME LedgerInv, FramesInv, chunk' = chunk, downloaded \subseteq downloaded', RunsGoOn
    PROVE  FramesInv'
<1>1. SameRanges(chunk, chunk')
  BY DEF SameRanges
<1>2. Keeps(chunk', downloaded')
  BY <1>1, SameKeeps DEF FramesInv
<1>. QED
  BY <1>2, KeepsInv

\* A step of a run that sets its chunk's state.
LEMMA RowMovesKeeps ==
    ASSUME LedgerInv, FramesInv, NEW c \in Frame, Exists(chunk, c), NEW s, s # "absent",
           chunk' = [chunk EXCEPT ![c].state = s], downloaded \subseteq downloaded', RunsGoOn
    PROVE  FramesInv'
<1>1. chunk \in [Frame -> Chunk]
  BY DEF LedgerInv, RowsOK, Sound
<1>2. SameRanges(chunk, chunk')
  BY <1>1, SetSameRanges
<1>3. Keeps(chunk', downloaded')
  BY <1>2, SameKeeps DEF FramesInv
<1>. QED
  BY <1>3, KeepsInv

\* finish('failed') with the requeue after it.
LEMMA FinishFailedDivides ==
    ASSUME LedgerInv, FramesInv, NEW r \in Run, run[r].phase # "free", NEW failure, NEW F,
           FinishFailed(r, failure, F)
    PROVE  FramesInv'
<1>1. Keeps(chunk', downloaded \cup F)
  BY BusyChunkExists, RequeueKeeps DEF FinishFailed
<1>2. RunsGoOn
  BY RunsGoOnWhen DEF FinishFailed
<1>3. downloaded' = downloaded \cup F
  BY DEF FinishFailed
<1>. QED
  BY <1>1, <1>2, <1>3, KeepsInv

\* finish('complete'), and nothingLeft.
LEMMA FinishCompleteDivides ==
    ASSUME LedgerInv, FramesInv, NEW r \in Run, run[r].phase # "free", NEW rendered, NEW F,
           FinishComplete(r, rendered, F)
    PROVE  FramesInv'
<1>. DEFINE c == run[r].chunk
<1>1. c \in Frame /\ Exists(chunk, c)
  BY BusyChunkExists
<1>2. RunsGoOn /\ downloaded \subseteq downloaded'
  BY RunsGoOnWhen DEF FinishComplete
<1>3. chunk' = [chunk EXCEPT ![c].state = IF jobState = "cancelled" THEN @ ELSE "complete"]
  BY DEF FinishComplete
<1>4. (IF jobState = "cancelled" THEN chunk[c].state ELSE "complete") # "absent"
  BY <1>1 DEF Exists
<1>. QED
  BY <1>1, <1>2, <1>3, <1>4, RowMovesKeeps

\* A tick that sends a chunk out settles states, and gives the run a chunk that exists.
LEMMA DispatchDivides ==
    ASSUME LedgerInv, FramesInv, NEW c \in Frame, NEW n \in Node, NEW r \in Run, Dispatch(c, n, r)
    PROVE  FramesInv'
<1>1. chunk \in [Frame -> Chunk] /\ run \in [Run -> RunRecord]
  BY DEF LedgerInv, RowsOK, RunsOK, Sound
<1>2. SameRanges(chunk, Settled)
  BY <1>1, SettledSameRanges
<1>3. Settled \in [Frame -> Chunk]
  BY SettledSound DEF LedgerInv, RowsOK, Sound
<1>4. chunk' = [Settled EXCEPT ![c].state = "assigned"] /\ Settled[c].state = "pending"
  BY DEF Dispatch
<1>5. SameRanges(chunk, chunk')
  <2>. HIDE DEF Settled
  <2>1. Settled[c] \in Chunk
    BY <1>3
  <2>2. /\ chunk'[c].lo = Settled[c].lo /\ chunk'[c].hi = Settled[c].hi
        /\ chunk'[c].state = "assigned"
    BY <1>3, <1>4, <2>1, SetKeepsRange
  <2>3. \A d \in Frame : d # c => chunk'[d] = Settled[d]
    BY <1>3, <1>4
  <2>. QED
    BY <1>2, <1>4, <2>2, <2>3 DEF SameRanges, Exists
<1>6. Keeps(chunk', downloaded)
  BY <1>5, SameKeeps DEF FramesInv
<1>7. RunsHaveRows'
  <2>1. Exists(chunk, c)
    BY <1>2, <1>4 DEF SameRanges, Exists
  <2>2. \A s \in Run : s # r => run'[s] = run[s]
    BY <1>1 DEF Dispatch
  <2>3. run'[r].chunk = c
    BY <1>1 DEF Dispatch
  <2>4. \A s \in Run : run'[s].phase # "free" =>
           run'[s].chunk \in Frame /\ Exists(chunk, run'[s].chunk)
    BY <2>1, <2>2, <2>3, BusyChunkExists
  <2>. QED
    BY <1>6, <2>4 DEF RunsHaveRows, Keeps, Exists
<1>8. downloaded' = downloaded
  BY DEF Dispatch
<1>. QED
  BY <1>6, <1>7, <1>8 DEF FramesInv, Keeps

\* forgetNode re-splits the chunks of the node's runs.
LEMMA NodeGoneDivides ==
    ASSUME LedgerInv, FramesInv, NEW n \in Node, NodeGone(n)
    PROVE  FramesInv'
<1>. DEFINE orphans == { run[r].chunk : r \in byNode[n] }
<1>1. byNode[n] \in SUBSET Run /\ chunk \in [Frame -> Chunk]
  BY DEF LedgerInv, RunsOK, RowsOK, Sound
<1>2. orphans \in SUBSET Frame /\ \A c \in orphans : Exists(chunk, c)
  BY <1>1, BusyChunkExists DEF LedgerInv, RunsOK, RegisteredRunsAreBusy
<1>3. RunsGoOn
  BY <1>1, RunsGoOnWhen DEF NodeGone
<1>4. Keeps(chunk', downloaded)
  <2>1. CASE orphans = {} \/ jobState = "cancelled"
    <3>1. SameRanges(chunk, chunk')
      BY <2>1 DEF NodeGone, SameRanges
    <3>. QED
      BY <3>1, SameKeeps DEF FramesInv
  <2>2. CASE ~(orphans = {} \/ jobState = "cancelled") /\ jobState = "failed"
    <3>1. chunk' = [c \in Frame |-> IF c \in orphans /\ chunk[c].state # "complete"
                                     THEN [chunk[c] EXCEPT !.state = "failed"]
                                     ELSE chunk[c]]
      BY <2>2 DEF NodeGone
    <3>2. \A c \in Frame : \/ chunk'[c] = chunk[c]
                           \/ Exists(chunk, c) /\ chunk'[c] = [chunk[c] EXCEPT !.state = "failed"]
      BY <1>2, <3>1
    <3>3. SameRanges(chunk, chunk')
      BY <1>1, <3>2, SomeSetSameRanges
    <3>. QED
      BY <3>3, SameKeeps DEF FramesInv
  <2>3. CASE ~(orphans = {} \/ jobState = "cancelled") /\ jobState # "failed"
    <3>1. chunk' = Resplit(orphans, "infra", downloaded)
      BY <2>3 DEF NodeGone
    <3>. QED
      BY <1>1, <1>2, <3>1, ResplitKeeps DEF FramesInv
  <2>. QED
    BY <2>1, <2>2, <2>3
<1>5. downloaded' = downloaded
  BY DEF NodeGone
<1>. QED
  BY <1>3, <1>4, <1>5, KeepsInv

\* cancelJob sets the states of rows there are.
LEMMA CancelDivides ==
    ASSUME LedgerInv, FramesInv, Cancel
    PROVE  FramesInv'
<1>1. chunk \in [Frame -> Chunk]
  BY DEF LedgerInv, RowsOK, Sound
<1>2. \A c \in Frame : \/ chunk'[c] = chunk[c]
                       \/ Exists(chunk, c) /\ chunk'[c] = [chunk[c] EXCEPT !.state = "cancelled"]
  BY DEF Cancel, Closed, Exists
<1>3. SameRanges(chunk, chunk')
  BY <1>1, <1>2, SomeSetSameRanges
<1>4. Keeps(chunk', downloaded') /\ downloaded' = downloaded
  BY <1>3, SameKeeps DEF FramesInv, Cancel
<1>5. { owner[c] : c \in Frame } \ {None} \in SUBSET Run
  BY DEF LedgerInv, RunsOK
<1>6. RunsGoOn
  BY <1>5, RunsGoOnWhen DEF Cancel
<1>. QED
  BY <1>4, <1>6, KeepsInv

\* job:retryMissing splits the chunks it queues again.
LEMMA RetryMissingDivides ==
    ASSUME LedgerInv, FramesInv, RetryMissing
    PROVE  FramesInv'
<1>. DEFINE stopped == { c \in Frame : chunk[c].state \in Stopped }
<1>1. chunk \in [Frame -> Chunk]
  BY DEF LedgerInv, RowsOK, Sound
<1>2. chunk' = Revived(stopped) /\ downloaded' = downloaded /\ run' = run
  BY DEF RetryMissing
<1>3. \A c \in stopped : Exists(chunk, c)
  BY DEF Stopped, Exists
<1>4. Keeps(chunk', downloaded)
  BY <1>1, <1>2, <1>3, RevivedKeeps DEF FramesInv
<1>. QED
  BY <1>2, <1>4, KeepsInv, RunsGoOnWhen

\* recoverAtStart splits the chunks left in flight, then settles states.
LEMMA RestartDivides ==
    ASSUME LedgerInv, FramesInv, Restart
    PROVE  FramesInv'
<1>. DEFINE stranded == { c \in Frame : chunk[c].state \in InFlight }
            resent   == Resplit(stranded, "none", downloaded)
            js       == IF stranded = {} THEN jobState ELSE Refreshed(jobState, resent, downloaded)
<1>1. chunk \in [Frame -> Chunk]
  BY DEF LedgerInv, RowsOK, Sound
<1>2. \A c \in stranded : Exists(chunk, c)
  BY DEF InFlight, Exists
<1>3. Keeps(resent, downloaded)
  BY <1>1, <1>2, ResplitKeeps DEF FramesInv
<1>4. resent \in [Frame -> Chunk]
  BY ResplitSound DEF LedgerInv, RowsOK, Sound
<1>5. /\ chunk' = [c \in Frame |->
                     IF /\ js \in {"queued", "running"}
                        /\ resent[c].state = "pending"
                        /\ Covered(resent[c]) \subseteq downloaded
                     THEN [resent[c] EXCEPT !.state = "complete"]
                     ELSE resent[c]]
      /\ downloaded' = downloaded /\ run' = run
  BY DEF Restart
<1>6. SameRanges(resent, chunk')
  <2>. HIDE DEF resent, js
  <2>1. ASSUME NEW c \in Frame
        PROVE  /\ chunk'[c].lo = resent[c].lo /\ chunk'[c].hi = resent[c].hi
               /\ Exists(chunk', c) <=> Exists(resent, c)
    <3>1. CASE chunk'[c] = resent[c]
      BY <3>1 DEF Exists
    <3>2. CASE resent[c].state = "pending" /\ chunk'[c] = [resent[c] EXCEPT !.state = "complete"]
      <4>1. resent[c] \in Chunk
        BY <1>4
      <4>. QED
        BY <3>2, <4>1, SetKeepsRange DEF Exists
    <3>. QED
      BY <1>5, <3>1, <3>2
  <2>. QED
    BY <2>1 DEF SameRanges
<1>7. Keeps(chunk', downloaded)
  BY <1>3, <1>6, DividedSame DEF Keeps, SameRanges
<1>. QED
  BY <1>5, <1>7, KeepsInv, RunsGoOnWhen

-----------------------------------------------------------------------------
\* Every step keeps the division.
LEMMA FramesStep ==
    ASSUME LedgerInv, FramesInv, [TornNext]_vars
    PROVE  FramesInv'
<1>1. CASE UNCHANGED vars
  BY <1>1, RowsStayKeeps, RunsGoOnWhen DEF vars
<1>2. CASE TickSettles
  <2>1. chunk' = Settled /\ downloaded' = downloaded /\ run' = run
    BY <1>2 DEF TickSettles, mem
  <2>2. SameRanges(chunk, chunk')
    BY <2>1, SettledSameRanges DEF LedgerInv, RowsOK, Sound
  <2>3. Keeps(chunk', downloaded')
    BY <2>1, <2>2, SameKeeps DEF FramesInv
  <2>. QED
    BY <2>1, <2>3, KeepsInv, RunsGoOnWhen
<1>3. CASE Sends
  BY <1>3, DispatchDivides DEF Sends
<1>4. ASSUME NEW r \in Run, Proceed(r)
      PROVE  FramesInv'
  <2>. DEFINE c == run[r].chunk
  <2>1. run[r].phase # "free" => c \in Frame /\ Exists(chunk, c)
    BY BusyChunkExists
  <2>2. CASE PrepDone(r)
    BY <2>2, RowsStayKeeps, RunsGoOnWhen DEF PrepDone, rows, Phases
  <2>3. CASE SeesFailure(r)
    BY <2>3, RowsStayKeeps, RunsGoOnWhen DEF SeesFailure, rows, Phases
  <2>4. CASE GivesUp(r)
    BY <2>4, RowsStayKeeps, RunsGoOnWhen DEF GivesUp, rows
  <2>5. CASE SpecSent(r)
    BY <2>1, <2>5, RowMovesKeeps, RunsGoOnWhen DEF SpecSent, Phases
  <2>6. CASE SeesDone(r)
    BY <2>1, <2>6, RowMovesKeeps, RunsGoOnWhen DEF SeesDone, Phases
  <2>7. CASE NothingLeft(r)
    BY <2>7, FinishCompleteDivides DEF NothingLeft
  <2>8. ASSUME NEW failure \in Failures, DispatchFails(r, failure)
        PROVE  FramesInv'
    BY <2>8, FinishFailedDivides DEF DispatchFails
  <2>9. ASSUME NEW F \in Marks(r), DrainCompletes(r, F)
        PROVE  FramesInv'
    BY <2>9, FinishCompleteDivides DEF DrainCompletes
  <2>10. ASSUME NEW F \in Marks(r), StoppedReturns(r, F)
         PROVE  FramesInv'
    <3>1. chunk' = chunk /\ downloaded \subseteq downloaded' /\ Returns(r)
      BY <2>10 DEF StoppedReturns
    <3>. QED
      BY <3>1, RowsStayKeeps, RunsGoOnWhen
  <2>11. ASSUME NEW F \in Marks(r), NEW failure \in Failures,
                PollFails(r, failure, F) \/ DrainFails(r, failure, F)
         PROVE  FramesInv'
    BY <2>11, FinishFailedDivides DEF PollFails, DrainFails
  <2>. QED
    BY <1>4, <2>2, <2>3, <2>4, <2>5, <2>6, <2>7, <2>8, <2>9, <2>10, <2>11 DEF Proceed
<1>5. ASSUME NEW r \in Run, NEW f \in Frame, FrameLands(r, f)
      PROVE  FramesInv'
  BY <1>5, RowsStayKeeps, RunsGoOnWhen DEF FrameLands, mem
<1>6. ASSUME NEW r \in Run, SeesEncoding(r)
      PROVE  FramesInv'
  BY <1>6, BusyChunkExists, RowMovesKeeps, RunsGoOnWhen DEF SeesEncoding, mem
<1>7. ASSUME NEW n \in Node, NodeGone(n)
      PROVE  FramesInv'
  BY <1>7, NodeGoneDivides
<1>8. ASSUME NEW n \in Node, NodeUsable(n)
      PROVE  FramesInv'
  BY <1>8, RowsStayKeeps, RunsGoOnWhen DEF NodeUsable, rows, mem
<1>9. CASE Cancel
  BY <1>9, CancelDivides
<1>10. CASE Resume
  BY <1>10, RowsStayKeeps, RunsGoOnWhen DEF Resume
<1>11. CASE RetryMissing
  BY <1>11, RetryMissingDivides
<1>12. CASE Crash
  BY <1>12, RowsStayKeeps, RunsGoOnWhen DEF Crash, rows
<1>13. CASE Restart
  BY <1>13, RestartDivides
<1>14. ASSUME NEW r \in Run, NEW verdict \in {"complete", "failed"}, NEW F \in Marks(r),
              CrashSettling(r, verdict, F)
       PROVE  FramesInv'
  <2>1. /\ chunk' = [chunk EXCEPT ![run[r].chunk].state = verdict]
        /\ downloaded \subseteq downloaded' /\ Dies /\ run[r].phase # "free"
    BY <1>14 DEF CrashSettling, Live
  <2>. QED
    BY <2>1, BusyChunkExists, RowMovesKeeps, RunsGoOnWhen
<1>. QED
  BY <1>1, <1>2, <1>3, <1>4, <1>5, <1>6, <1>7, <1>8, <1>9, <1>10, <1>11, <1>12, <1>13, <1>14
  DEF TornNext, Next, Work, Lands

-----------------------------------------------------------------------------
\* The chunks of a new job (splitFrames).

\* Multiples of n lie n apart, and every natural is less than n above one.
LEMMA Multiples ==
    ASSUME NEW n \in Nat \ {0}
    PROVE  /\ \A a, b \in Nat : a < b /\ a % n = 0 /\ b % n = 0 => a + n <= b
           /\ \A a \in Nat : /\ a % n \in 0 .. n - 1
                            /\ a - (a % n) \in Nat
                            /\ (a - (a % n)) % n = 0
<1>1. ASSUME NEW a \in Nat
      PROVE  /\ a \div n \in Nat
             /\ a % n \in 0 .. n - 1
             /\ a = n * (a \div n) + (a % n)
  <2>1. a \div n \in Nat
    OBVIOUS
  <2>2. a % n \in 0 .. n - 1
    OBVIOUS
  <2>3. a = n * (a \div n) + (a % n)
    OBVIOUS
  <2>. QED
    BY <2>1, <2>2, <2>3
<1>2. ASSUME NEW q \in Nat
      PROVE  n * q \in Nat /\ (n * q) % n = 0
  <2>1. n * q \in Nat
    OBVIOUS
  <2>2. (n * q) % n = 0
    OBVIOUS
  <2>. QED
    BY <2>1, <2>2
<1>3. ASSUME NEW p \in Nat, NEW q \in Nat, q < p
      PROVE  n * q + n <= n * p
  <2>. DEFINE k == p - q - 1
  <2>1. k \in Nat /\ p = q + 1 + k
    BY <1>3
  <2>2. n * k \in Nat /\ n * q \in Nat
    BY <1>2, <2>1
  <2>3. n * p = n * q + n + n * k
    <3>. HIDE DEF k
    <3>. QED
      BY <2>1
  <2>. QED
    BY <2>2, <2>3
<1>4. ASSUME NEW a \in Nat, NEW b \in Nat, a < b, a % n = 0, b % n = 0
      PROVE  a + n <= b
  <2>. DEFINE q == a \div n
              p == b \div n
  <2>1. q \in Nat /\ p \in Nat /\ a = n * q /\ b = n * p
    BY <1>1, <1>4
  <2>2. CASE q < p
    <3>. HIDE DEF q, p
    <3>. QED
      BY <1>3, <2>1, <2>2
  <2>3. CASE p < q
    <3>. HIDE DEF q, p
    <3>1. n * p + n <= n * q /\ n * p \in Nat /\ n * q \in Nat
      BY <1>2, <1>3, <2>1, <2>3
    <3>. QED
      BY <1>4, <2>1, <3>1
  <2>4. CASE p = q
    BY <1>4, <2>1, <2>4
  <2>. QED
    BY <2>1, <2>2, <2>3, <2>4
<1>5. ASSUME NEW a \in Nat
      PROVE  a - (a % n) \in Nat /\ (a - (a % n)) % n = 0
  <2>. DEFINE q == a \div n
  <2>1. q \in Nat /\ a % n \in Nat /\ a = n * q + (a % n)
    BY <1>1
  <2>2. n * q \in Nat /\ (n * q) % n = 0
    BY <1>2, <2>1
  <2>3. a - (a % n) = n * q
    <3>. HIDE DEF q
    <3>. QED
      BY <2>1, <2>2
  <2>. QED
    BY <2>2, <2>3
<1>. QED
  BY <1>1, <1>4, <1>5

\* createJob divides the frames among its chunks.
LEMMA FramesInit ==
    ASSUME Init
    PROVE  FramesInv
<1>1. NumFrames \in Nat \ {0} /\ ChunkSize \in Nat \ {0}
  BY LedgerConstants
<1>2. ASSUME NEW c \in Frame
      PROVE  /\ c \in Nat /\ c - 1 \in Nat /\ c <= NumFrames
             /\ Exists(chunk, c) <=> (c - 1) % ChunkSize = 0
             /\ Exists(chunk, c) =>
                  /\ chunk[c].lo = c
                  /\ chunk[c].hi = IF c + ChunkSize - 1 <= NumFrames THEN c + ChunkSize - 1
                                   ELSE NumFrames
  BY <1>1, <1>2 DEF Init, Exists, Absent, Frame
<1>3. Named(chunk, downloaded)
  BY <1>1, <1>2 DEF Named
<1>4. Disjoint(chunk, downloaded)
  <2>1. ASSUME NEW c \in Frame, NEW d \in Frame, Exists(chunk, c), Exists(chunk, d), c < d
        PROVE  Covered(chunk[c]) \cap Covered(chunk[d]) = {}
    <3>1. c - 1 \in Nat /\ d - 1 \in Nat /\ c - 1 < d - 1
      BY <1>2, <2>1
    <3>2. (c - 1) + ChunkSize <= d - 1
      BY <1>1, <1>2, <2>1, <3>1, Multiples
    <3>3. /\ c \in Nat /\ d \in Nat /\ chunk[c].lo = c /\ chunk[d].lo = d
          /\ chunk[c].hi <= c + ChunkSize - 1 /\ chunk[c].hi \in Int /\ chunk[d].hi \in Int
      BY <1>1, <1>2, <2>1
    <3>. QED
      BY <1>1, <3>2, <3>3 DEF Covered
  <2>2. \A c, d \in Frame : c # d => c < d \/ d < c
    BY <1>2
  <2>. QED
    BY <2>1, <2>2 DEF Disjoint
<1>5. Whole(chunk, downloaded)
  <2>1. ASSUME NEW f \in Frame
        PROVE  \E c \in Frame : Exists(chunk, c) /\ f \in Covered(chunk[c])
    <3>. DEFINE off == (f - 1) % ChunkSize
                c   == f - off
    <3>1. f \in Nat /\ f - 1 \in Nat /\ f <= NumFrames
      BY <1>2
    <3>2. /\ off \in 0 .. ChunkSize - 1
          /\ (f - 1) - off \in Nat
          /\ ((f - 1) - off) % ChunkSize = 0
      BY <1>1, <3>1, Multiples
    <3>. HIDE DEF off
    <3>3. c \in Frame /\ c - 1 = (f - 1) - off
      BY <1>1, <3>1, <3>2 DEF Frame
    <3>4. Exists(chunk, c)
      BY <1>2, <3>2, <3>3
    <3>5. f \in Covered(chunk[c])
      BY <1>1, <1>2, <3>1, <3>2, <3>3, <3>4 DEF Covered
    <3>. QED
      BY <3>3, <3>4, <3>5
  <2>. QED
    BY <2>1 DEF Whole
<1>6. RunsHaveRows
  BY DEF Init, RunsHaveRows, FreeRun
<1>. QED
  BY <1>3, <1>4, <1>5, <1>6 DEF FramesInv, Divided

\* The division holds in every state.
LEMMA FramesInvariant == TornSpec => []FramesInv
<1>1. TornSpec => []LedgerInv
  BY LedgerInvariant
<1>. QED
  BY <1>1, FramesInit, FramesStep, PTL DEF TornSpec

-----------------------------------------------------------------------------
\* A frame still to come is in the range of exactly one chunk, through every re-split of a
\* failed attempt, a lost node, a restart and a revive: none is lost and none is queued twice
\* (resplitAroundDownloaded, reviveFailedChunks).
THEOREM FramesDivided == TornSpec => []EachFrameHasOneChunk
<1>1. ASSUME FramesInv
      PROVE  EachFrameHasOneChunk
  <2>. SUFFICES ASSUME NEW f \in Frame \ downloaded
                PROVE  Cardinality({ c \in Frame : chunk[c].state # "absent"
                                                   /\ f \in Covered(chunk[c]) }) = 1
    BY DEF EachFrameHasOneChunk
  <2>1. PICK c \in Frame : Exists(chunk, c) /\ f \in Covered(chunk[c])
    BY <1>1 DEF FramesInv, Divided, Whole
  <2>2. \A d \in Frame : Exists(chunk, d) /\ f \in Covered(chunk[d]) => d = c
    BY <1>1, <2>1 DEF FramesInv, Divided, Disjoint
  <2>3. { d \in Frame : chunk[d].state # "absent" /\ f \in Covered(chunk[d]) } = {c}
    BY <2>1, <2>2 DEF Exists
  <2>. QED
    BY <2>3, FS_Singleton
<1>. QED
  BY <1>1, FramesInvariant, PTL

\* A re-split inserts no chunk under an id in use: the frame a new chunk is named by was the
\* first missing frame of a later run, which names no chunk there is.
THEOREM NewIdsAreFree == TornSpec => []SplitIdsFree
<1>1. ASSUME LedgerInv, FramesInv
      PROVE  SplitIdsFree
  <2>1. chunk \in [Frame -> Chunk] /\ Divided(chunk, downloaded)
    BY <1>1 DEF LedgerInv, RowsOK, Sound, FramesInv
  <2>. QED
    BY <2>1, NewNamesFree DEF SplitIdsFree, Exists
<1>. QED
  BY <1>1, LedgerInvariant, FramesInvariant, PTL
=============================================================================
