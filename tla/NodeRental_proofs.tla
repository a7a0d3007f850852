------------------------- MODULE NodeRental_proofs -------------------------
(***************************************************************************)
(* Theorems about NodeRental, for any number of nodes, any cap and any     *)
(* number of restarts.                                                     *)
(***************************************************************************)
EXTENDS NodeRental, FiniteSetTheorems, TLAPS

-----------------------------------------------------------------------------
\* The inductive invariant.

\* What Vast has done once it has carried the create out.
Made == {"young", "up", "gone"}

\* A row names an instance only when Vast made one, and destroyed_at is stamped
\* only when it is gone.
RowMatchesVast(n) ==
    /\ row[n].state = "absent" => ~row[n].inst /\ ~row[n].unknown /\ vast[n] = "none"
    /\ ~row[n].inst => /\ row[n].gone = "no"
                       /\ row[n].state \in {"absent", "requested"} \cup DestroyStates
    /\ row[n].inst => vast[n] \in Made
    /\ row[n].gone # "no" => vast[n] = "gone"

RowsMatchVast == \A n \in Node : RowMatchesVast(n)

\* A create in flight or looked for is marked unknown on its row and is of this
\* session, so no reconcile settles it.
CreateTracked(n) ==
    /\ n \in creating \cup LookingUp =>
         /\ ~row[n].inst /\ row[n].unknown /\ row[n].state # "absent"
         /\ n \notin unknownAtBoot
    /\ n \in creating => look[n].pc = "none" /\ row[n].state # "failed"
    /\ look[n].pc = "none" => ~look[n].late /\ ~look[n].over
    /\ look[n].pc = "hit" => vast[n] \in Made
    /\ look[n].late => look[n].over
    /\ n \in unknownAtBoot => row[n].state # "absent"

CreatesTracked == \A n \in Node : CreateTracked(n)

\* Destroys, connections and steps are of nodes with an instance.  A step holds its
\* node in a state no other step and no supervisor takes it up in, until a destroy
\* moves it on; past the boot it is connected.
HolderKnown(n) ==
    /\ check[n] # "none" \/ n \in ssh \/ n \in goneAt \/ step[n].pc # "none" => row[n].inst
    /\ step[n].pc = "none" => step[n] = NoStep
    /\ step[n].pc # "none" => /\ step[n].held \notin DestroyStates
                              /\ row[n].state \in {step[n].held} \cup DestroyStates
    /\ step[n].pc \notin {"none", "asking"} => step[n].held \notin Supervised
    /\ step[n].pc = "asking" => n \notin ssh
    /\ step[n].pc \notin {"none", "asking", "polling"} /\ ~MovedOn(n) => n \in ssh
    /\ n \in ssh /\ row[n].state \in Supervised => n \in provisioned

HoldersKnown == \A n \in Node : HolderKnown(n)

\* What the reconcile has read stays true of the instances it read about.
PassKnows ==
    /\ pass.pc = "none" => pass = NoPass
    /\ pass.pc = "asking" => pass.todo = {}
    /\ pass.pc # "waiting" => pass.at = None
    /\ \A n \in Node : n \in pass.heldBefore => row[n].inst
    /\ \A n \in Node : n \in pass.todo => vast[n] \in Made /\ (row[n].gone # "no" => n \in goneAt)

\* When Vast decides a create before the app stops looking, an answer that settles
\* a create is right: no instance came of it, and none will.
RuledOutRightly(n) ==
    /\ n \in Billing \cup Undecided => n \in Counted
    /\ look[n].over => vast[n] # "asked"
    /\ look[n].pc = "miss" /\ look[n].late => n \notin Billing
    /\ n \in unknownAtBoot /\ pass.pc # "none" => vast[n] # "asked"
    /\ n \in unknownAtBoot /\ pass.pc \in {"listed", "waiting"} =>
         (n \in Billing /\ ~row[n].inst => n \in pass.todo \cup pass.found)

NothingRuledOutWrongly == LateCreates \/ \A n \in Node : RuledOutRightly(n)

\* What NobodyLeftBehind says of one node.
Attended(n) ==
    \/ createOutcomeUnknown(row[n]) /\ n \in creating \cup LookingUp \cup unknownAtBoot
    \/ Retriable(n)
    \/ Watched(n) /\ step[n] = NoStep
    \/ step[n].pc # "none" /\ ~MovedOn(n)

RentalInv ==
    /\ TypeOK
    /\ RowsMatchVast
    /\ CreatesTracked
    /\ HoldersKnown
    /\ NobodyLeftBehind
    /\ PassKnows
    /\ NothingRuledOutWrongly

-----------------------------------------------------------------------------
\* What an action leaves in the one row, or lookup, it writes.

RowBecomes(n, state, inst, unknown, gone) ==
    /\ row' \in [Node -> Row]
    /\ \A m \in Node \ {n} : row'[m] = row[m]
    /\ row'[n].state = state
    /\ row'[n].inst = inst
    /\ row'[n].unknown = unknown
    /\ row'[n].gone = gone

RowsAgreeButForState(m) ==
    /\ row'[m].inst = row[m].inst
    /\ row'[m].unknown = row[m].unknown
    /\ row'[m].gone = row[m].gone

Look == [pc : {"none", "asleep", "out", "hit", "miss"}, over : BOOLEAN, late : BOOLEAN]

LookBecomes(n, pc, over, late) ==
    /\ look' \in [Node -> Look]
    /\ \A m \in Node \ {n} : look'[m] = look[m]
    /\ look'[n].pc = pc
    /\ look'[n].over = over
    /\ look'[n].late = late

Pass == [pc : {"none", "asking", "listed", "waiting"}, heldBefore : SUBSET Node,
         young : SUBSET Node, todo : SUBSET Node, found : SUBSET Node, at : Node \cup {None}]

\* The states rows are set to are node states.
LEMMA StatesExist ==
    /\ DestroyStates \subseteq NodeStates
    /\ Supervised \subseteq NodeStates
    /\ {"requested", "provisioning", "unreachable", "absent"} \subseteq NodeStates
  BY DEF NodeStates, DestroyStates, Destroying, Supervised

\* Rows and lookups with some fields written.
LEMMA RowEdits ==
  ASSUME NEW r \in Row, NEW s \in NodeStates, NEW g \in {"no", "recent", "yes"}
  PROVE  /\ [r EXCEPT !.state = s] \in Row
         /\ [r EXCEPT !.gone = g] \in Row
         /\ [r EXCEPT !.state = s, !.gone = g] \in Row
         /\ [r EXCEPT !.unknown = FALSE, !.state = s] \in Row
         /\ [r EXCEPT !.state = s, !.unknown = TRUE] \in Row
         /\ [r EXCEPT !.inst = TRUE, !.unknown = FALSE] \in Row
  BY DEF Row

\* Lookups with some fields written.
LEMMA LookEdits ==
  ASSUME NEW l \in Look, NEW pc \in {"none", "asleep", "out", "hit", "miss"}, NEW b \in BOOLEAN
  PROVE  /\ [l EXCEPT !.pc = pc] \in Look
         /\ [l EXCEPT !.over = TRUE] \in Look
         /\ [l EXCEPT !.pc = pc, !.late = b] \in Look
  BY DEF Look

\* A state is set, and nothing else of any row.
LEMMA StateSet ==
  ASSUME TypeOK, NEW n \in Node, NEW s \in NodeStates, SetState(n, s)
  PROVE  RowBecomes(n, s, row[n].inst, row[n].unknown, row[n].gone)
<1>1. [row[n] EXCEPT !.state = s] \in Row
  BY RowEdits DEF TypeOK
<1> QED
  BY <1>1 DEF SetState, RowBecomes, TypeOK, Row

\* The create's reply: the instance is named, its state kept.
LEMMA CreateAnsweredRow ==
  ASSUME TypeOK, NEW n \in Node, CreateAnswered(n)
  PROVE  RowBecomes(n, row[n].state, TRUE, FALSE, row[n].gone)
<1>1. [row[n] EXCEPT !.inst = TRUE, !.unknown = FALSE] \in Row
  BY RowEdits DEF TypeOK
<1> QED
  BY <1>1 DEF CreateAnswered, RowBecomes, TypeOK, Row

\* A refusal: failed, unless the node is already on its way out.
LEMMA CreateRefusedRow ==
  ASSUME TypeOK, NEW n \in Node, CreateRefused(n)
  PROVE  RowBecomes(n, IF IsGone(n) THEN row[n].state ELSE "failed", row[n].inst, FALSE, row[n].gone)
<1> DEFINE s == IF IsGone(n) THEN row[n].state ELSE "failed"
<1>1. s \in NodeStates
  BY DEF TypeOK, Row, NodeStates, DestroyStates
<1> HIDE DEF s
<1>2. [row[n] EXCEPT !.unknown = FALSE, !.state = s] \in Row
  BY <1>1, RowEdits DEF TypeOK
<1>3. RowBecomes(n, s, row[n].inst, FALSE, row[n].gone)
  BY <1>1, <1>2 DEF CreateRefused, RowBecomes, TypeOK, Row, s
<1> QED
  BY <1>3 DEF s

\* The reconcile and a lookup that found it: the row names the instance.
LEMMA ClaimedRow ==
  ASSUME NEW r \in Row
  PROVE  /\ Claimed(r) \in Row
         /\ Claimed(r).state = r.state
         /\ Claimed(r).inst
         /\ ~Claimed(r).unknown
         /\ Claimed(r).gone = "no"
  BY DEF Claimed, Row

\* A lookup that found the instance.
LEMMA LookupFindsRow ==
  ASSUME TypeOK, NEW n \in Node, LookupFinds(n)
  PROVE  RowBecomes(n, row[n].state, TRUE, FALSE, "no")
<1>1. /\ row[n] \in Row
      /\ row' = [row EXCEPT ![n] = Claimed(row[n])]
  BY DEF TypeOK, LookupFinds
<1> QED
  BY <1>1, ClaimedRow DEF RowBecomes, TypeOK, Row

\* A lookup that settles the create against an instance.
LEMMA LookupMissesRow ==
  ASSUME TypeOK, NEW n \in Node, LookupMisses(n), Settles(look[n])
  PROVE  RowBecomes(n, IF row[n].state = "requested" THEN "failed" ELSE "destroyed",
                    row[n].inst, FALSE, row[n].gone)
<1> DEFINE s == IF row[n].state = "requested" THEN "failed" ELSE "destroyed"
<1>1. s \in NodeStates
  BY DEF NodeStates, DestroyStates, Destroying
<1>2. row' = [row EXCEPT ![n].unknown = FALSE, ![n].state = s]
  BY DEF LookupMisses
<1> HIDE DEF s
<1>3. [row[n] EXCEPT !.unknown = FALSE, !.state = s] \in Row
  BY <1>1, RowEdits DEF TypeOK
<1>4. RowBecomes(n, s, row[n].inst, FALSE, row[n].gone)
  BY <1>1, <1>2, <1>3 DEF RowBecomes, TypeOK, Row
<1> QED
  BY <1>4 DEF s

\* The destroy is confirmed: destroyed, and the time stamped.
LEMMA InstanceGoneRow ==
  ASSUME TypeOK, NEW n \in Node, InstanceGone(n), HoldsIt(n)
  PROVE  RowBecomes(n, "destroyed", row[n].inst, row[n].unknown, "recent")
<1>1. [row[n] EXCEPT !.state = "destroyed", !.gone = "recent"] \in Row
  BY StatesExist, RowEdits DEF TypeOK, DestroyStates, Destroying
<1> QED
  BY <1>1 DEF InstanceGone, RowBecomes, TypeOK, Row

\* The stamp ages.
LEMMA StampAgesRow ==
  ASSUME TypeOK, NEW n \in Node, StampAges(n)
  PROVE  RowBecomes(n, row[n].state, row[n].inst, row[n].unknown, "yes")
<1>1. [row[n] EXCEPT !.gone = "yes"] \in Row
  BY RowEdits DEF TypeOK
<1> QED
  BY <1>1 DEF StampAges, RowBecomes, TypeOK, Row

\* The reconcile claims an instance for its row, which is to go.
LEMMA PassClaimsRow ==
  ASSUME TypeOK, NEW n \in Node, PassClaims(n)
  PROVE  \E s \in DestroyStates : RowBecomes(n, s, TRUE, FALSE, "no")
<1> DEFINE c == Claimed(row[n])
           s == IF row[n].state \in DestroyStates THEN c.state ELSE "destroying"
<1>1. row' = [row EXCEPT ![n] = [c EXCEPT !.state = s]]
  BY DEF PassClaims
<1>2. c \in Row /\ c.state = row[n].state /\ c.inst /\ ~c.unknown /\ c.gone = "no"
  BY ClaimedRow DEF TypeOK
<1>3. s \in DestroyStates /\ s \in NodeStates
  BY <1>2, StatesExist DEF DestroyStates, Destroying
<1> HIDE DEF c, s
<1>4. [c EXCEPT !.state = s] \in Row
  BY <1>2, <1>3, RowEdits DEF TypeOK
<1>5. RowBecomes(n, s, TRUE, FALSE, "no")
  BY <1>1, <1>2, <1>3, <1>4 DEF RowBecomes, TypeOK, Row
<1> QED
  BY <1>3, <1>5

\* The end of the window, a question asked, and an answer.
LEMMA WindowEndsLook ==
  ASSUME TypeOK, NEW n \in Node, WindowEnds(n)
  PROVE  LookBecomes(n, look[n].pc, TRUE, look[n].late)
<1>1. look[n] \in Look
  BY DEF TypeOK, Look
<1>2. [look[n] EXCEPT !.over = TRUE] \in Look
  BY <1>1, LookEdits
<1> QED
  BY <1>1, <1>2 DEF WindowEnds, LookBecomes, TypeOK, Look

\* A question asked.
LEMMA LookupAsksLook ==
  ASSUME TypeOK, NEW n \in Node, LookupAsks(n)
  PROVE  LookBecomes(n, "out", look[n].over, look[n].over)
<1>1. look[n] \in Look /\ look[n].over \in BOOLEAN
  BY DEF TypeOK, Look
<1>2. [look[n] EXCEPT !.pc = "out", !.late = look[n].over] \in Look
  BY <1>1, LookEdits
<1> QED
  BY <1>1, <1>2 DEF LookupAsks, LookBecomes, TypeOK, Look

\* An answer, or none.
LEMMA LookGoesOn ==
  ASSUME TypeOK, NEW n \in Node, NEW pc \in {"asleep", "hit", "miss"},
         look' = [look EXCEPT ![n].pc = pc]
  PROVE  LookBecomes(n, pc, look[n].over, look[n].late)
<1>1. look[n] \in Look
  BY DEF TypeOK, Look
<1>2. [look[n] EXCEPT !.pc = pc] \in Look
  BY <1>1, LookEdits
<1> QED
  BY <1>1, <1>2 DEF LookBecomes, TypeOK, Look

\* Clearing the failed nodes changes the state of those that cost nothing.
LEMMA ClearFailedRows ==
  ASSUME TypeOK, ClearFailed
  PROVE  /\ row' \in [Node -> Row]
         /\ \A m \in Node :
              \/ row'[m] = row[m]
              \/ /\ RowsAgreeButForState(m)
                 /\ row[m].state = "failed" /\ row'[m].state = "destroyed"
                 /\ ~holdsInstance(row[m])
<1> DEFINE r(m) == [row[m] EXCEPT !.state = "destroyed"]
           settled == {m \in Node : /\ row[m].state = "failed"
                                    /\ ~(row[m].inst /\ holdsInstance(row[m]))
                                    /\ ~createOutcomeUnknown(row[m])}
<1>1. row' = [m \in Node |-> IF m \in settled THEN r(m) ELSE row[m]]
  BY DEF ClearFailed
<1>2. \A m \in Node : row[m] \in Row
  BY DEF TypeOK
<1>3. "destroyed" \in NodeStates
  BY StatesExist DEF DestroyStates, Destroying
<1>4. \A m \in Node : r(m) \in Row
  BY <1>2, <1>3, RowEdits
<1>5. ASSUME NEW m \in Node
      PROVE  /\ r(m).inst = row[m].inst /\ r(m).unknown = row[m].unknown
             /\ r(m).gone = row[m].gone /\ r(m).state = "destroyed"
  BY <1>2 DEF Row
<1>6. \A m \in settled : row[m].state = "failed" /\ ~holdsInstance(row[m])
  BY <1>2 DEF Row, holdsInstance
<1> HIDE DEF r, settled
<1> QED
  BY <1>1, <1>2, <1>4, <1>5, <1>6 DEF RowsAgreeButForState

\* The end of a reconcile settles creates of the last run.
LEMMA PassEndsRows ==
  ASSUME TypeOK, PassEnds
  PROVE  /\ row' \in [Node -> Row]
         /\ \A m \in Node :
              \/ row'[m] = row[m]
              \/ /\ createOutcomeUnknown(row[m])
                 /\ m \in unknownAtBoot /\ m \notin pass.found /\ (m \in pass.todo => Spared(m))
                 /\ ~row'[m].inst /\ ~row'[m].unknown /\ row'[m].gone = row[m].gone
                 /\ row'[m].state = CASE row[m].state = "requested" -> "failed"
                                      [] row[m].state = "destroying" -> "destroyed"
                                      [] OTHER -> row[m].state
<1> DEFINE s(m) == CASE row[m].state = "requested" -> "failed"
                     [] row[m].state = "destroying" -> "destroyed"
                     [] OTHER -> row[m].state
           r(m) == [row[m] EXCEPT !.unknown = FALSE, !.state = s(m)]
           found == pass.found \cup {m \in pass.todo : ~Spared(m)}
<1>1. row' = [m \in Node |-> IF m \in unknownAtBoot \ found
                             THEN IF ~createOutcomeUnknown(row[m]) THEN row[m] ELSE r(m)
                             ELSE row[m]]
  BY DEF PassEnds, Settled
<1>2. \A m \in Node : row[m] \in Row
  BY DEF TypeOK
<1>3. \A m \in Node : s(m) \in NodeStates
  BY <1>2 DEF Row, NodeStates, DestroyStates, Destroying
<1>4. \A m \in Node : m \in unknownAtBoot \ found =>
        m \in unknownAtBoot /\ m \notin pass.found /\ (m \in pass.todo => Spared(m))
  OBVIOUS
<1>5. \A m \in Node : createOutcomeUnknown(row[m]) => ~row[m].inst
  BY DEF createOutcomeUnknown
<1> HIDE DEF s, found
<1>6. \A m \in Node : r(m) \in Row
  BY <1>2, <1>3, RowEdits
<1>7. ASSUME NEW m \in Node
      PROVE  /\ r(m).inst = row[m].inst /\ ~r(m).unknown
             /\ r(m).gone = row[m].gone /\ r(m).state = s(m)
  BY <1>2, <1>3 DEF Row
<1> HIDE DEF r
<1>8. \A m \in Node :
         \/ row'[m] = row[m]
         \/ /\ createOutcomeUnknown(row[m])
            /\ m \in unknownAtBoot /\ m \notin pass.found /\ (m \in pass.todo => Spared(m))
            /\ ~row'[m].inst /\ ~row'[m].unknown /\ row'[m].gone = row[m].gone
            /\ row'[m].state = s(m)
  BY <1>1, <1>4, <1>5, <1>7
<1>9. row' \in [Node -> Row]
  BY <1>1, <1>2, <1>6
<1> QED
  BY <1>8, <1>9 DEF s

\* The end of a check lets a reconcile that waits on it go on.
LEMMA CheckEndsPass ==
  ASSUME TypeOK, PassKnows, NEW n \in Node, CheckEnds(n)
  PROVE  /\ pass' \in Pass
         /\ \/ pass' = pass
            \/ /\ pass.pc = "waiting" /\ pass'.pc = "listed" /\ pass'.at = None
               /\ pass'.heldBefore = pass.heldBefore
               /\ pass'.todo = pass.todo /\ pass'.found = pass.found
<1>1. pass \in Pass
  BY DEF TypeOK, Pass
<1>2. CASE pass.at = n
  <2>1. pass.pc = "waiting" /\ pass' = [pass EXCEPT !.pc = "listed", !.at = None]
    BY <1>2, RentalConstants DEF PassKnows, CheckEnds
  <2> QED
    BY <1>1, <2>1 DEF Pass
<1>3. CASE pass.at # n
  BY <1>1, <1>3 DEF CheckEnds
<1> QED
  BY <1>2, <1>3

-----------------------------------------------------------------------------
\* An action of node n leaves the others as they are, so only n, and the parts of
\* the invariant about the whole, are looked at in what follows.

TouchesOnly(n) ==
    \A m \in Node \ {n} :
        /\ row'[m] = row[m] /\ vast'[m] = vast[m] /\ look'[m] = look[m]
        /\ step'[m] = step[m] /\ check'[m] = check[m]
        /\ m \in creating' <=> m \in creating
        /\ m \in unknownAtBoot' <=> m \in unknownAtBoot
        /\ m \in goneAt' <=> m \in goneAt
        /\ m \in ssh' <=> m \in ssh
        /\ m \in provisioned' <=> m \in provisioned

\* If the node an action touches keeps its part of the invariant, all do.
LEMMA OthersKept ==
  ASSUME RentalInv, NEW n \in Node, TouchesOnly(n)
  PROVE  /\ RowMatchesVast(n)' => RowsMatchVast'
         /\ CreateTracked(n)' => CreatesTracked'
         /\ HolderKnown(n)' => HoldersKnown'
         /\ (n \in Counted' => Attended(n)') => NobodyLeftBehind'
         /\ pass' = pass /\ (~LateCreates => RuledOutRightly(n)') => NothingRuledOutWrongly'
<1> USE DEF RentalInv
<1>1. ASSUME NEW m \in Node, m # n
      PROVE  /\ RowMatchesVast(m)'
             /\ HolderKnown(m)'
             /\ CreateTracked(m)'
  BY <1>1 DEF TouchesOnly, RowsMatchVast, RowMatchesVast, HoldersKnown, HolderKnown, MovedOn,
         CreatesTracked, CreateTracked, LookingUp
<1>2. ASSUME NEW m \in Counted', m # n
      PROVE  Attended(m)'
  BY <1>2 DEF TouchesOnly, NobodyLeftBehind, Attended, Counted, LookingUp, Retriable, Watched,
         MovedOn
<1>3. ASSUME ~LateCreates, pass' = pass, NEW m \in Node, m # n
      PROVE  RuledOutRightly(m)'
  BY <1>3 DEF TouchesOnly, NothingRuledOutWrongly, RuledOutRightly, Billing, Undecided, Counted
<1> QED
  BY <1>1, <1>2, <1>3
     DEF RowsMatchVast, CreatesTracked, HoldersKnown, NobodyLeftBehind, Attended, Counted,
         NothingRuledOutWrongly

-----------------------------------------------------------------------------
\* What each action keeps.

\* Vast decides a create, and instances age or go.
LEMMA VastActsKeeps ==
  ASSUME RentalInv, NEW n \in Node, VastActs(n)
  PROVE  RentalInv'
<1>1. UNCHANGED <<row, creating, look, step, check, retrying, pass, unknownAtBoot, goneAt, ssh,
                  provisioned, restarts>>
  BY DEF VastActs, CarriesOut, Refuses, Ages, Vanishes, memory
<1>2. \E v \in {"young", "refused", "up", "gone"} :
        /\ vast' = [vast EXCEPT ![n] = v]
        /\ \/ vast[n] = "asked" /\ v \in {"young", "refused"}
           \/ vast[n] \in {"young", "up"} /\ v \in {"up", "gone"}
  BY DEF VastActs, CarriesOut, Refuses, Ages, Vanishes, Billing
<1>3. PICK v \in {"young", "refused", "up", "gone"} :
        /\ vast' = [vast EXCEPT ![n] = v]
        /\ \/ vast[n] = "asked" /\ v \in {"young", "refused"}
           \/ vast[n] \in {"young", "up"} /\ v \in {"up", "gone"}
  BY <1>2
<1>4. /\ vast' \in [Node -> {"none", "asked", "refused", "young", "up", "gone"}]
      /\ vast'[n] = v /\ \A m \in Node \ {n} : vast'[m] = vast[m]
  BY <1>3 DEF RentalInv, TypeOK
<1>5. vast[n] \in Made => vast'[n] \in Made
  BY <1>3, <1>4 DEF Made
<1>6. vast[n] # "gone" /\ vast[n] # "none"
  BY <1>3
<1> USE DEF RentalInv
<1>7. TypeOK'
  BY <1>1, <1>4 DEF TypeOK
<1>8. RowMatchesVast(n)'
  BY <1>1, <1>4, <1>5, <1>6 DEF RowsMatchVast, RowMatchesVast
<1>9. CreateTracked(n)'
  BY <1>1, <1>4, <1>5 DEF CreatesTracked, CreateTracked, LookingUp
<1>10. HoldersKnown' /\ NobodyLeftBehind'
  BY <1>1 DEF HoldersKnown, HolderKnown, NobodyLeftBehind, Counted, LookingUp, Retriable, Watched, MovedOn
<1>11. PassKnows'
  BY <1>1, <1>4, <1>5 DEF PassKnows
<1>12. ~LateCreates => RuledOutRightly(n)'
  BY <1>1, <1>3, <1>4 DEF NothingRuledOutWrongly, RuledOutRightly, Billing, Undecided,
     Counted, holdsInstance, createOutcomeUnknown, CreatesTracked, CreateTracked
<1>13. TouchesOnly(n)
  BY <1>1, <1>4 DEF TouchesOnly
<1> QED
  BY <1>1, <1>7, <1>8, <1>9, <1>10, <1>11, <1>12, <1>13, OthersKept

\* A row is written and its create sent.
LEMMA RentKeeps ==
  ASSUME RentalInv, NEW n \in Node, Rent(n)
  PROVE  RentalInv'
<1>1. /\ row[n] = Absent
      /\ row' = [row EXCEPT ![n] = [Absent EXCEPT !.state = "requested", !.unknown = TRUE]]
      /\ vast' = [vast EXCEPT ![n] = "asked"]
      /\ creating' = creating \cup {n}
      /\ UNCHANGED <<look, step, check, retrying, pass, unknownAtBoot, goneAt, ssh, provisioned,
                     restarts>>
  BY DEF Rent
<1>2. RowBecomes(n, "requested", FALSE, TRUE, "no")
  <2>1. Absent \in Row /\ ~Absent.inst /\ Absent.gone = "no"
    BY StatesExist DEF Absent, Row
  <2>2. [Absent EXCEPT !.state = "requested", !.unknown = TRUE] \in Row
    BY <2>1, StatesExist, RowEdits
  <2> QED
    BY <1>1, <2>1, <2>2 DEF RowBecomes, RentalInv, TypeOK, Row
<1>3. row[n].state = "absent" /\ ~row[n].inst /\ ~row[n].unknown /\ vast[n] = "none"
  BY <1>1 DEF RentalInv, RowsMatchVast, RowMatchesVast, Absent
<1>4. /\ n \notin creating /\ n \notin LookingUp /\ n \notin unknownAtBoot /\ n \notin pass.todo
      /\ look[n].pc = "none"
  BY <1>3 DEF RentalInv, CreatesTracked, CreateTracked, PassKnows, Made, LookingUp
<1>5. /\ vast' \in [Node -> {"none", "asked", "refused", "young", "up", "gone"}]
      /\ vast'[n] = "asked" /\ \A m \in Node \ {n} : vast'[m] = vast[m]
  BY <1>1 DEF RentalInv, TypeOK
<1> USE DEF RentalInv, RowBecomes
<1>6. LookingUp' = LookingUp
  BY <1>1 DEF LookingUp
<1>7. TypeOK'
  BY <1>1, <1>2, <1>5 DEF TypeOK
<1>8. RowMatchesVast(n)'
  BY <1>1, <1>2, <1>5 DEF RowsMatchVast, RowMatchesVast
<1>9. CreateTracked(n)'
  BY <1>1, <1>2, <1>4, <1>5, <1>6 DEF CreatesTracked, CreateTracked
<1>10. HolderKnown(n)'
  BY <1>1, <1>2, <1>3 DEF HoldersKnown, HolderKnown, MovedOn, NoStep, Supervised
<1>11. n \in Counted' => Attended(n)'
  BY <1>1, <1>2, <1>6 DEF NobodyLeftBehind, Attended, Counted, Retriable, Watched,
     MovedOn, holdsInstance, createOutcomeUnknown
<1>12. PassKnows'
  BY <1>1, <1>2, <1>3, <1>4, <1>5 DEF PassKnows
<1>13. ~LateCreates => RuledOutRightly(n)'
  BY <1>1, <1>2, <1>4, <1>5 DEF NothingRuledOutWrongly, RuledOutRightly, Billing,
     Undecided, Counted, holdsInstance, createOutcomeUnknown, CreatesTracked,
     CreateTracked
<1>14. TouchesOnly(n)
  BY <1>1, <1>2, <1>5 DEF TouchesOnly
<1> QED
  BY <1>1, <1>7, <1>8, <1>9, <1>10, <1>11, <1>12, <1>13, <1>14, OthersKept

\* The create's reply: the node is driven, or its instance destroyed.
LEMMA CreateAnsweredKeeps ==
  ASSUME RentalInv, NEW n \in Node, CreateAnswered(n)
  PROVE  RentalInv'
<1>1. RowBecomes(n, row[n].state, TRUE, FALSE, row[n].gone)
  BY CreateAnsweredRow DEF RentalInv
<1>2. /\ n \in creating /\ vast[n] \in Made
      /\ creating' = creating \ {n}
      /\ UNCHANGED <<vast, look, retrying, pass, unknownAtBoot, goneAt, provisioned, restarts>>
  BY DEF CreateAnswered, Made
<1>3. /\ ~row[n].inst /\ row[n].gone = "no" /\ step[n] = NoStep /\ n \notin ssh
      /\ n \notin LookingUp /\ n \notin unknownAtBoot
      /\ row[n].state = "requested" \/ row[n].state \in Destroying
  BY <1>2 DEF RentalInv, CreatesTracked, CreateTracked, HoldersKnown, HolderKnown,
         RowsMatchVast, RowMatchesVast, DestroyStates, LookingUp
<1>4. \/ /\ row[n].state \in Destroying
         /\ check' = [check EXCEPT ![n] = IF @ = "none" THEN "deleting" ELSE @]
         /\ ssh' = ssh \ {n}
         /\ UNCHANGED step
      \/ /\ row[n].state = "requested"
         /\ step' = [step EXCEPT ![n] = [pc |-> "polling", held |-> "requested"]]
         /\ UNCHANGED <<check, ssh>>
  BY <1>3 DEF CreateAnswered, IsGone, EnsureInstanceGone, Takes
<1> USE DEF RentalInv, RowBecomes
<1>5. LookingUp' = LookingUp
  BY <1>2 DEF LookingUp
<1>6. TypeOK'
  <2>1. [pc |-> "polling", held |-> "requested"] \in [pc : StepPc, held : NodeStates]
    BY StatesExist DEF StepPc
  <2>2. step' \in [Node -> [pc : StepPc, held : NodeStates]]
    BY <1>4, <2>1 DEF TypeOK
  <2>3. check' \in [Node -> {"none", "deleting", "confirming"}] /\ ssh' \subseteq Node
    BY <1>4 DEF TypeOK
  <2> QED
    BY <1>1, <1>2, <2>2, <2>3 DEF TypeOK
<1>7. RowMatchesVast(n)'
  BY <1>1, <1>2, <1>3 DEF RowsMatchVast, RowMatchesVast, Destroying, Made
<1>8. CreateTracked(n)'
  BY <1>1, <1>2, <1>3, <1>5 DEF CreatesTracked, CreateTracked
<1>9. HolderKnown(n)'
  BY <1>1, <1>2, <1>3, <1>4 DEF HoldersKnown, HolderKnown, TypeOK, MovedOn, NoStep,
     DestroyStates, Destroying, Supervised
<1>10. n \in Counted' => Attended(n)'
  BY <1>1, <1>2, <1>3, <1>4, <1>5 DEF NobodyLeftBehind, Attended, Counted, Retriable,
     Watched, MovedOn, holdsInstance, createOutcomeUnknown, TypeOK, DestroyStates
<1>11. PassKnows'
  BY <1>1, <1>2, <1>3 DEF PassKnows
<1>12. ~LateCreates => RuledOutRightly(n)'
  BY <1>1, <1>2, <1>3 DEF NothingRuledOutWrongly, RuledOutRightly, Billing, Undecided,
     Counted, holdsInstance, createOutcomeUnknown
<1>13. TouchesOnly(n)
  BY <1>1, <1>2, <1>4 DEF TouchesOnly, TypeOK
<1> QED
  BY <1>2, <1>6, <1>7, <1>8, <1>9, <1>10, <1>11, <1>12, <1>13, OthersKept

\* Vast says no.
LEMMA CreateRefusedKeeps ==
  ASSUME RentalInv, NEW n \in Node, CreateRefused(n)
  PROVE  RentalInv'
<1> DEFINE s == IF IsGone(n) THEN row[n].state ELSE "failed"
<1>1. RowBecomes(n, s, row[n].inst, FALSE, row[n].gone)
  BY CreateRefusedRow DEF RentalInv
<1>2. s \in DestroyStates /\ s \notin Supervised /\ s # "absent" /\ s # "requested"
  BY DEF IsGone, DestroyStates, Destroying, Supervised
<1> HIDE DEF s
<1>3. /\ n \in creating /\ vast[n] = "refused"
      /\ creating' = creating \ {n}
      /\ UNCHANGED <<vast, look, step, check, retrying, pass, unknownAtBoot, goneAt, ssh,
                     provisioned, restarts>>
  BY DEF CreateRefused
<1>4. ~row[n].inst /\ n \notin LookingUp /\ n \notin unknownAtBoot /\ step[n] = NoStep
  BY <1>3 DEF RentalInv, CreatesTracked, CreateTracked, HoldersKnown, HolderKnown, LookingUp
<1> USE DEF RentalInv, RowBecomes
<1>5. LookingUp' = LookingUp
  BY <1>3 DEF LookingUp
<1>6. TypeOK'
  BY <1>1, <1>3 DEF TypeOK
<1>7. RowMatchesVast(n)'
  BY <1>1, <1>2, <1>3, <1>4 DEF RowsMatchVast, RowMatchesVast
<1>8. CreateTracked(n)'
  BY <1>1, <1>2, <1>3, <1>4, <1>5 DEF CreatesTracked, CreateTracked
<1>9. HolderKnown(n)'
  BY <1>1, <1>2, <1>3, <1>4 DEF HoldersKnown, HolderKnown, MovedOn, NoStep
<1>10. n \in Counted' => Attended(n)'
  BY <1>1, <1>2, <1>3, <1>4, <1>5 DEF NobodyLeftBehind, Attended, Counted, Retriable,
     Watched, MovedOn, holdsInstance, createOutcomeUnknown
<1>11. PassKnows'
  BY <1>1, <1>3 DEF PassKnows
<1>12. ~LateCreates => RuledOutRightly(n)'
  BY <1>1, <1>3, <1>4 DEF NothingRuledOutWrongly, RuledOutRightly, Billing, Undecided,
     Counted, holdsInstance, createOutcomeUnknown
<1>13. TouchesOnly(n)
  BY <1>1, <1>3 DEF TouchesOnly
<1> QED
  BY <1>3, <1>6, <1>7, <1>8, <1>9, <1>10, <1>11, <1>12, <1>13, OthersKept

\* No reply: the instance is looked for.
LEMMA CreateUnansweredKeeps ==
  ASSUME RentalInv, NEW n \in Node, CreateUnanswered(n)
  PROVE  RentalInv'
<1> DEFINE s == IF IsGone(n) THEN "destroying" ELSE row[n].state
<1>1. s \in NodeStates /\ s # "absent" /\ s # "failed" /\ s \in {"requested"} \cup DestroyStates
  BY DEF RentalInv, TypeOK, RowsMatchVast, RowMatchesVast, CreatesTracked, CreateTracked,
         CreateUnanswered, Row, NodeStates, DestroyStates, Destroying, Absent
<1> HIDE DEF s
<1>2. RowBecomes(n, s, row[n].inst, row[n].unknown, row[n].gone)
  BY <1>1, StateSet DEF RentalInv, CreateUnanswered, s
<1>3. /\ n \in creating /\ creating' = creating \ {n}
      /\ UNCHANGED <<vast, step, check, retrying, pass, unknownAtBoot, goneAt, ssh,
                     provisioned, restarts>>
  BY DEF CreateUnanswered
<1>4. LookBecomes(n, "out", FALSE, FALSE)
  <2>1. NoLook \in Look /\ ~NoLook.over /\ ~NoLook.late
    BY DEF NoLook, Look
  <2>2. [NoLook EXCEPT !.pc = "out"] \in Look
    BY <2>1, LookEdits
  <2> QED
    BY <2>1, <2>2 DEF CreateUnanswered, LookBecomes, RentalInv, TypeOK, Look
<1>5. look[n].pc = "none" /\ ~row[n].inst /\ row[n].unknown /\ n \notin unknownAtBoot
  BY <1>3 DEF RentalInv, CreatesTracked, CreateTracked
<1> USE DEF RentalInv, RowBecomes, LookBecomes
<1>6. LookingUp' = LookingUp \cup {n}
  BY <1>4 DEF LookingUp, TypeOK
<1>7. TypeOK'
  BY <1>2, <1>3, <1>4 DEF TypeOK, Look
<1>8. RowMatchesVast(n)'
  BY <1>1, <1>2, <1>3, <1>5 DEF RowsMatchVast, RowMatchesVast
<1>9. CreateTracked(n)'
  BY <1>1, <1>2, <1>3, <1>4, <1>5, <1>6 DEF CreatesTracked, CreateTracked, TypeOK
<1>10. HolderKnown(n)'
  BY <1>2, <1>3, <1>5 DEF HoldersKnown, HolderKnown, MovedOn
<1>11. NobodyLeftBehind'
  BY <1>2, <1>3, <1>5, <1>6 DEF NobodyLeftBehind, Counted, holdsInstance, createOutcomeUnknown,
         Retriable, Watched, MovedOn, TypeOK, Row
<1>12. PassKnows'
  BY <1>2, <1>3 DEF PassKnows, TypeOK, Row
<1>13. ~LateCreates => RuledOutRightly(n)'
  BY <1>2, <1>3, <1>4, <1>5 DEF NothingRuledOutWrongly, RuledOutRightly, Billing,
     Undecided, Counted, holdsInstance, createOutcomeUnknown
<1>14. TouchesOnly(n)
  BY <1>2, <1>3, <1>4 DEF TouchesOnly
<1> QED
  BY <1>3, <1>7, <1>8, <1>9, <1>10, <1>11, <1>12, <1>13, <1>14, OthersKept

\* CREATE_LOOKUP_MS has passed.
LEMMA WindowEndsKeeps ==
  ASSUME RentalInv, NEW n \in Node, WindowEnds(n)
  PROVE  RentalInv'
<1>1. LookBecomes(n, look[n].pc, TRUE, look[n].late)
  BY WindowEndsLook DEF RentalInv, WindowEnds
<1>2. /\ look[n].pc # "none" /\ n \in LookingUp /\ (LateCreates \/ vast[n] # "asked")
      /\ UNCHANGED <<row, vast, creating, step, check, retrying, pass, unknownAtBoot,
                     goneAt, ssh, provisioned, restarts>>
  BY DEF WindowEnds, LookingUp
<1> USE DEF RentalInv, LookBecomes
<1>3. LookingUp' = LookingUp
  BY <1>1, <1>2 DEF LookingUp
<1>4. TypeOK'
  BY <1>1, <1>2 DEF TypeOK, Look
<1>5. CreatesTracked'
  BY <1>1, <1>2, <1>3 DEF CreatesTracked, CreateTracked
<1>6. NobodyLeftBehind'
  BY <1>2, <1>3 DEF NobodyLeftBehind, Counted, Retriable, Watched, MovedOn
<1>7. NothingRuledOutWrongly'
  BY <1>1, <1>2 DEF NothingRuledOutWrongly, RuledOutRightly, Billing, Undecided, Counted
<1>8. RowsMatchVast' /\ HoldersKnown' /\ PassKnows'
  BY <1>2 DEF RowsMatchVast, RowMatchesVast, HoldersKnown, HolderKnown, PassKnows, MovedOn
<1> QED
  BY <1>4, <1>5, <1>6, <1>7, <1>8

\* The list is asked for.
LEMMA LookupAsksKeeps ==
  ASSUME RentalInv, NEW n \in Node, LookupAsks(n)
  PROVE  RentalInv'
<1>1. LookBecomes(n, "out", look[n].over, look[n].over)
  BY LookupAsksLook DEF RentalInv, LookupAsks
<1>2. /\ look[n].pc = "asleep" /\ n \in LookingUp
      /\ UNCHANGED <<row, vast, creating, step, check, retrying, pass, unknownAtBoot,
                     goneAt, ssh, provisioned, restarts>>
  BY DEF LookupAsks, LookingUp
<1> USE DEF RentalInv, LookBecomes
<1>3. LookingUp' = LookingUp
  BY <1>1, <1>2 DEF LookingUp
<1>4. TypeOK'
  BY <1>1, <1>2 DEF TypeOK, Look
<1>5. CreatesTracked'
  BY <1>1, <1>2, <1>3 DEF CreatesTracked, CreateTracked
<1>6. NobodyLeftBehind'
  BY <1>2, <1>3 DEF NobodyLeftBehind, Counted, Retriable, Watched, MovedOn
<1>7. NothingRuledOutWrongly'
  BY <1>1, <1>2 DEF NothingRuledOutWrongly, RuledOutRightly, Billing, Undecided, Counted
<1>8. RowsMatchVast' /\ HoldersKnown' /\ PassKnows'
  BY <1>2 DEF RowsMatchVast, RowMatchesVast, HoldersKnown, HolderKnown, PassKnows, MovedOn
<1> QED
  BY <1>4, <1>5, <1>6, <1>7, <1>8

\* Vast makes the list.
LEMMA LookupListedKeeps ==
  ASSUME RentalInv, NEW n \in Node, LookupListed(n)
  PROVE  RentalInv'
<1>1. LookBecomes(n, IF n \in Billing THEN "hit" ELSE "miss", look[n].over, look[n].late)
  BY LookGoesOn DEF RentalInv, LookupListed
<1>2. /\ look[n].pc = "out" /\ n \in LookingUp /\ (n \in Billing => vast[n] \in Made)
      /\ UNCHANGED <<row, vast, creating, step, check, retrying, pass, unknownAtBoot,
                     goneAt, ssh, provisioned, restarts>>
  BY DEF LookupListed, LookingUp, Billing, Made
<1> USE DEF RentalInv, LookBecomes
<1>3. LookingUp' = LookingUp
  BY <1>1, <1>2 DEF LookingUp
<1>4. TypeOK'
  BY <1>1, <1>2 DEF TypeOK, Look
<1>5. CreatesTracked'
  BY <1>1, <1>2, <1>3 DEF CreatesTracked, CreateTracked
<1>6. NobodyLeftBehind'
  BY <1>2, <1>3 DEF NobodyLeftBehind, Counted, Retriable, Watched, MovedOn
<1>7. NothingRuledOutWrongly'
  BY <1>1, <1>2 DEF NothingRuledOutWrongly, RuledOutRightly, Billing, Undecided, Counted
<1>8. RowsMatchVast' /\ HoldersKnown' /\ PassKnows'
  BY <1>2 DEF RowsMatchVast, RowMatchesVast, HoldersKnown, HolderKnown, PassKnows, MovedOn
<1> QED
  BY <1>4, <1>5, <1>6, <1>7, <1>8

\* No list comes.
LEMMA LookupUnansweredKeeps ==
  ASSUME RentalInv, NEW n \in Node, LookupUnanswered(n)
  PROVE  RentalInv'
<1>1. LookBecomes(n, "asleep", look[n].over, look[n].late)
  BY LookGoesOn DEF RentalInv, LookupUnanswered
<1>2. /\ look[n].pc = "out" /\ n \in LookingUp
      /\ UNCHANGED <<row, vast, creating, step, check, retrying, pass, unknownAtBoot,
                     goneAt, ssh, provisioned, restarts>>
  BY DEF LookupUnanswered, LookingUp
<1> USE DEF RentalInv, LookBecomes
<1>3. LookingUp' = LookingUp
  BY <1>1, <1>2 DEF LookingUp
<1>4. TypeOK'
  BY <1>1, <1>2 DEF TypeOK, Look
<1>5. CreatesTracked'
  BY <1>1, <1>2, <1>3 DEF CreatesTracked, CreateTracked
<1>6. NobodyLeftBehind'
  BY <1>2, <1>3 DEF NobodyLeftBehind, Counted, Retriable, Watched, MovedOn
<1>7. NothingRuledOutWrongly'
  BY <1>1, <1>2 DEF NothingRuledOutWrongly, RuledOutRightly, Billing, Undecided, Counted
<1>8. RowsMatchVast' /\ HoldersKnown' /\ PassKnows'
  BY <1>2 DEF RowsMatchVast, RowMatchesVast, HoldersKnown, HolderKnown, PassKnows, MovedOn
<1> QED
  BY <1>4, <1>5, <1>6, <1>7, <1>8

\* The lookup finds the instance: the node is driven, or its instance destroyed.
LEMMA LookupFindsKeeps ==
  ASSUME RentalInv, NEW n \in Node, LookupFinds(n)
  PROVE  RentalInv'
<1>1. RowBecomes(n, row[n].state, TRUE, FALSE, "no")
  BY LookupFindsRow DEF RentalInv
<1>2. /\ look[n].pc = "hit" /\ n \in LookingUp
      /\ look' = [look EXCEPT ![n] = NoLook]
      /\ UNCHANGED <<vast, creating, retrying, pass, unknownAtBoot, goneAt, provisioned, restarts>>
  BY DEF LookupFinds, LookingUp
<1>3. \/ /\ row[n].state = "requested"
         /\ step' = [step EXCEPT ![n] = [pc |-> "polling", held |-> "requested"]]
         /\ UNCHANGED <<check, ssh>>
      \/ /\ row[n].state \in DestroyStates
         /\ check' = [check EXCEPT ![n] = IF @ = "none" THEN "deleting" ELSE @]
         /\ ssh' = ssh \ {n}
         /\ UNCHANGED step
  <2>1. row[n].state \in {"requested"} \cup DestroyStates
    BY <1>2 DEF RentalInv, RowsMatchVast, RowMatchesVast, CreatesTracked, CreateTracked, Made
  <2> QED
    BY <2>1 DEF LookupFinds, Takes, EnsureInstanceGone
<1>4. ~row[n].inst /\ n \notin creating /\ n \notin unknownAtBoot /\ step[n] = NoStep /\ n \notin ssh
  BY <1>2 DEF RentalInv, CreatesTracked, CreateTracked, HoldersKnown, HolderKnown
<1> USE DEF RentalInv, RowBecomes
<1>5. LookingUp' = LookingUp \ {n}
  BY <1>2 DEF LookingUp, TypeOK, NoLook
<1>6. TypeOK'
  <2>1. [pc |-> "polling", held |-> "requested"] \in [pc : StepPc, held : NodeStates]
    BY StatesExist DEF StepPc
  <2>2. step' \in [Node -> [pc : StepPc, held : NodeStates]]
    BY <1>3, <2>1 DEF TypeOK
  <2>3. NoLook \in Look
    BY DEF NoLook, Look
  <2>4. look' \in [Node -> Look]
    BY <1>2, <2>3 DEF TypeOK, Look
  <2> QED
    BY <1>1, <1>2, <1>3, <2>2, <2>4 DEF TypeOK, Look
<1>7. RowMatchesVast(n)'
  BY <1>1, <1>2, <1>4 DEF RowsMatchVast, RowMatchesVast, CreatesTracked, CreateTracked,
     Made
<1>8. CreateTracked(n)'
  BY <1>1, <1>2, <1>4, <1>5 DEF CreatesTracked, CreateTracked, TypeOK, NoLook
<1>9. HolderKnown(n)'
  BY <1>1, <1>2, <1>3, <1>4 DEF HoldersKnown, HolderKnown, TypeOK, MovedOn, NoStep,
     DestroyStates, Destroying, Supervised
<1>10. NobodyLeftBehind'
  BY <1>1, <1>2, <1>3, <1>4, <1>5
     DEF NobodyLeftBehind, Counted, holdsInstance, createOutcomeUnknown,
         Retriable, Watched, MovedOn, TypeOK, Row, NoStep
<1>11. PassKnows'
  BY <1>1, <1>2 DEF PassKnows, TypeOK, Row
<1>12. ~LateCreates => RuledOutRightly(n)'
  BY <1>1, <1>2, <1>4 DEF NothingRuledOutWrongly, RuledOutRightly, Billing, Undecided,
     Counted, holdsInstance, createOutcomeUnknown, TypeOK, NoLook
<1>13. TouchesOnly(n)
  BY <1>1, <1>2, <1>3 DEF TouchesOnly, TypeOK
<1> QED
  BY <1>2, <1>6, <1>7, <1>8, <1>9, <1>10, <1>11, <1>12, <1>13, OthersKept

\* The lookup misses: the create is ruled out, or asked after again.
LEMMA LookupMissesKeeps ==
  ASSUME RentalInv, NEW n \in Node, LookupMisses(n)
  PROVE  RentalInv'
<1>1. /\ look[n].pc = "miss" /\ n \in LookingUp
      /\ UNCHANGED <<vast, creating, step, check, retrying, pass, unknownAtBoot, goneAt,
                     ssh, provisioned, restarts>>
  BY DEF LookupMisses, LookingUp
<1>2. ~row[n].inst /\ n \notin creating /\ n \notin unknownAtBoot /\ step[n] = NoStep
  BY <1>1 DEF RentalInv, CreatesTracked, CreateTracked, HoldersKnown, HolderKnown
<1> USE DEF RentalInv
<1>3. CASE Settles(look[n])
  <2>1. \E s \in {"failed", "destroyed"} :
          RowBecomes(n, s, row[n].inst, FALSE, row[n].gone)
    BY <1>3, LookupMissesRow
  <2>2. PICK s \in {"failed", "destroyed"} :
          RowBecomes(n, s, row[n].inst, FALSE, row[n].gone)
    BY <2>1
  <2>3. look[n].late /\ look' = [look EXCEPT ![n] = NoLook]
    BY <1>3 DEF LookupMisses, Settles
  <2> USE DEF RowBecomes
  <2>4. LookingUp' = LookingUp \ {n}
    BY <2>3 DEF LookingUp, TypeOK, NoLook
  <2>5. TypeOK'
    BY <1>1, <2>2, <2>3 DEF TypeOK, NoLook
  <2>6. RowMatchesVast(n)'
    BY <1>1, <1>2, <2>2 DEF RowsMatchVast, RowMatchesVast, DestroyStates, Destroying
  <2>7. CreateTracked(n)'
    BY <1>1, <1>2, <2>2, <2>3, <2>4 DEF CreatesTracked, CreateTracked, TypeOK, NoLook
  <2>8. HolderKnown(n)'
    BY <1>1, <1>2, <2>2 DEF HoldersKnown, HolderKnown, MovedOn, NoStep, DestroyStates,
       Destroying
  <2>9. NobodyLeftBehind'
    BY <1>1, <1>2, <2>2, <2>4
       DEF NobodyLeftBehind, Counted, holdsInstance, createOutcomeUnknown,
           Retriable, Watched, MovedOn, TypeOK, Row
  <2>10. PassKnows'
    BY <1>1, <2>2 DEF PassKnows, TypeOK, Row
  <2>11. ~LateCreates => RuledOutRightly(n)'
    BY <1>1, <1>2, <2>2, <2>3 DEF NothingRuledOutWrongly, RuledOutRightly, Billing,
       Undecided, Counted, holdsInstance, createOutcomeUnknown, TypeOK, NoLook,
       CreatesTracked, CreateTracked
  <2>12. TouchesOnly(n)
    BY <1>1, <2>2, <2>3 DEF TouchesOnly, TypeOK
  <2> QED
    BY <1>1, <2>5, <2>6, <2>7, <2>8, <2>9, <2>10, <2>11, <2>12, OthersKept
<1>4. CASE ~Settles(look[n])
  <2>1. row' = row /\ look' = [look EXCEPT ![n].pc = "asleep"]
    BY <1>4 DEF LookupMisses
  <2>2. LookBecomes(n, "asleep", look[n].over, look[n].late)
    BY <2>1, LookGoesOn
  <2> USE DEF LookBecomes
  <2>3. LookingUp' = LookingUp
    BY <1>1, <2>2 DEF LookingUp
  <2>4. TypeOK'
    BY <1>1, <2>1, <2>2 DEF TypeOK, Look
  <2>5. CreatesTracked'
    BY <1>1, <1>2, <2>1, <2>2, <2>3 DEF CreatesTracked, CreateTracked
  <2>6. NobodyLeftBehind'
    BY <1>1, <2>1, <2>3 DEF NobodyLeftBehind, Counted, Retriable, Watched, MovedOn
  <2>7. NothingRuledOutWrongly'
    BY <1>1, <2>1, <2>2 DEF NothingRuledOutWrongly, RuledOutRightly, Billing, Undecided, Counted
  <2>8. RowsMatchVast' /\ HoldersKnown' /\ PassKnows'
    BY <1>1, <2>1 DEF RowsMatchVast, RowMatchesVast, HoldersKnown, HolderKnown, PassKnows, MovedOn
  <2> QED
    BY <2>4, <2>5, <2>6, <2>7, <2>8
<1> QED
  BY <1>3, <1>4

\* Vast accepts the DELETE, whether or not it does it.
LEMMA DeleteAcceptedKeeps ==
  ASSUME RentalInv, NEW n \in Node, DeleteAccepted(n)
  PROVE  RentalInv'
<1>1. /\ n \in Billing /\ check[n] = "deleting"
      /\ check' = [check EXCEPT ![n] = "confirming"]
      /\ UNCHANGED <<row, creating, look, step, retrying, pass, unknownAtBoot, goneAt, ssh,
                     provisioned, restarts>>
  BY DEF DeleteAccepted
<1>2. PICK v \in {"gone", vast[n]} : vast' = [vast EXCEPT ![n] = v]
  BY DEF DeleteAccepted
<1>3. /\ vast' \in [Node -> {"none", "asked", "refused", "young", "up", "gone"}]
      /\ vast'[n] = v /\ \A m \in Node \ {n} : vast'[m] = vast[m]
  BY <1>2 DEF RentalInv, TypeOK
<1>4. vast[n] \in {"young", "up"} /\ v \in Made /\ vast[n] \in Made
  BY <1>1 DEF Billing, Made
<1> USE DEF RentalInv
<1>5. TypeOK'
  BY <1>1, <1>3 DEF TypeOK
<1>6. RowMatchesVast(n)'
  BY <1>1, <1>3, <1>4 DEF RowsMatchVast, RowMatchesVast, HoldersKnown, HolderKnown
<1>7. CreateTracked(n)'
  BY <1>1, <1>3, <1>4 DEF CreatesTracked, CreateTracked, LookingUp
<1>8. HolderKnown(n)'
  BY <1>1 DEF HoldersKnown, HolderKnown, TypeOK, MovedOn
<1>9. NobodyLeftBehind'
  BY <1>1 DEF NobodyLeftBehind, Counted, LookingUp, Retriable, Watched, MovedOn
<1>10. PassKnows'
  BY <1>1, <1>3, <1>4 DEF PassKnows
<1>11. ~LateCreates => RuledOutRightly(n)'
  BY <1>1, <1>3, <1>4 DEF NothingRuledOutWrongly, RuledOutRightly, Billing, Undecided,
     Counted, holdsInstance, createOutcomeUnknown
<1>12. TouchesOnly(n)
  BY <1>1, <1>3 DEF TouchesOnly, TypeOK
<1> QED
  BY <1>1, <1>5, <1>6, <1>7, <1>8, <1>9, <1>10, <1>11, <1>12, OthersKept

\* The destroy is confirmed.
LEMMA InstanceGoneKeeps ==
  ASSUME RentalInv, NEW n \in Node, InstanceGone(n)
  PROVE  RentalInv'
<1>1. \/ RowBecomes(n, "destroyed", row[n].inst, row[n].unknown, "recent")
      \/ row' = row /\ ~HoldsIt(n)
  BY InstanceGoneRow DEF InstanceGone, RentalInv
<1>2. /\ check[n] # "none" /\ n \notin Billing
      /\ goneAt' = goneAt \cup {n}
      /\ UNCHANGED <<vast, creating, look, step, unknownAtBoot, ssh, provisioned, restarts>>
  BY DEF InstanceGone, Confirmed
<1>3. /\ check' = [check EXCEPT ![n] = "none"]
      /\ retrying' \in {None, retrying}
  BY DEF InstanceGone, CheckEnds
<1>4. row[n].inst /\ vast[n] = "gone"
  BY <1>2 DEF RentalInv, HoldersKnown, HolderKnown, RowsMatchVast, RowMatchesVast, Made, Billing
<1> USE DEF RentalInv, RowBecomes
<1>5. LookingUp' = LookingUp
  BY <1>2 DEF LookingUp
<1>6. /\ pass' \in Pass
      /\ \/ pass' = pass
         \/ /\ pass.pc = "waiting" /\ pass'.pc = "listed" /\ pass'.at = None
            /\ pass'.heldBefore = pass.heldBefore
            /\ pass'.todo = pass.todo /\ pass'.found = pass.found
  BY CheckEndsPass DEF InstanceGone
<1>7. TypeOK'
  BY <1>1, <1>2, <1>3, <1>6 DEF TypeOK, Pass
<1>8. RowMatchesVast(n)'
  BY <1>1, <1>2, <1>4 DEF RowsMatchVast, RowMatchesVast, HoldsIt, Made, DestroyStates,
     Destroying
<1>9. CreateTracked(n)'
  BY <1>1, <1>2, <1>4, <1>5 DEF CreatesTracked, CreateTracked
<1>10. HolderKnown(n)'
  BY <1>1, <1>2, <1>3, <1>4 DEF HoldersKnown, HolderKnown, TypeOK, MovedOn, NoStep,
     DestroyStates, Destroying, Supervised
<1>11. n \in Counted' => Attended(n)'
  BY <1>1, <1>4 DEF Attended, Counted, Retriable, holdsInstance, HoldsIt, DestroyStates
<1>12. PassKnows'
  BY <1>1, <1>2, <1>4, <1>6 DEF PassKnows
<1>13. NothingRuledOutWrongly'
  <2>1. ASSUME ~LateCreates, NEW m \in Node, m # n
        PROVE  RuledOutRightly(m)'
    BY <2>1, <1>1, <1>2, <1>4, <1>6
       DEF NothingRuledOutWrongly, RuledOutRightly, Billing, Undecided, Counted
  <2>2. ~LateCreates => RuledOutRightly(n)'
    BY <1>1, <1>2, <1>4, <1>6
       DEF NothingRuledOutWrongly, RuledOutRightly, Billing, Undecided, Counted,
           holdsInstance, createOutcomeUnknown, HoldsIt
  <2> QED
    BY <2>1, <2>2 DEF NothingRuledOutWrongly
<1>14. TouchesOnly(n)
  BY <1>1, <1>2, <1>3 DEF TouchesOnly, TypeOK
<1> QED
  BY <1>7, <1>8, <1>9, <1>10, <1>11, <1>12, <1>13, <1>14, OthersKept

\* The DELETE is sent again.
LEMMA CheckRetriesKeeps ==
  ASSUME RentalInv, NEW n \in Node, CheckRetries(n)
  PROVE  RentalInv'
<1>1. /\ check[n] # "none"
      /\ check' = [check EXCEPT ![n] = "deleting"]
      /\ UNCHANGED <<row, vast, creating, look, step, retrying, pass, unknownAtBoot, goneAt, ssh,
                     provisioned, restarts>>
  BY DEF CheckRetries
<1> USE DEF RentalInv
<1>2. TypeOK'
  BY <1>1 DEF TypeOK
<1>3. HolderKnown(n)'
  BY <1>1 DEF HoldersKnown, HolderKnown, TypeOK, MovedOn
<1>4. /\ RowsMatchVast'
      /\ CreatesTracked'
      /\ NobodyLeftBehind'
      /\ PassKnows'
      /\ NothingRuledOutWrongly'
  BY <1>1 DEF RowsMatchVast, RowMatchesVast, CreatesTracked, CreateTracked, LookingUp,
       NobodyLeftBehind, Counted, Retriable, Watched, MovedOn, PassKnows,
       NothingRuledOutWrongly, RuledOutRightly, Billing, Undecided
<1>5. TouchesOnly(n)
  BY <1>1 DEF TouchesOnly, TypeOK
<1> QED
  BY <1>2, <1>3, <1>4, <1>5, OthersKept

\* The destroy is not confirmed: the node is failed, to be tried again.
LEMMA CheckGivesUpKeeps ==
  ASSUME RentalInv, NEW n \in Node, CheckGivesUp(n)
  PROVE  RentalInv'
<1>1. \/ RowBecomes(n, "failed", row[n].inst, row[n].unknown, row[n].gone)
      \/ row' = row /\ ~HoldsIt(n)
  BY StateSet, StatesExist DEF CheckGivesUp, SetState, RentalInv, DestroyStates
<1>2. /\ check[n] # "none"
      /\ goneAt' = goneAt
      /\ UNCHANGED <<vast, creating, look, step, unknownAtBoot, ssh, provisioned, restarts>>
  BY DEF CheckGivesUp
<1>3. /\ check' = [check EXCEPT ![n] = "none"]
      /\ retrying' \in {None, retrying}
  BY DEF CheckGivesUp, CheckEnds
<1>4. row[n].inst
  BY <1>2 DEF RentalInv, HoldersKnown, HolderKnown, RowsMatchVast, RowMatchesVast, Made, Billing
<1> USE DEF RentalInv, RowBecomes
<1>5. LookingUp' = LookingUp
  BY <1>2 DEF LookingUp
<1>6. /\ pass' \in Pass
      /\ \/ pass' = pass
         \/ /\ pass.pc = "waiting" /\ pass'.pc = "listed" /\ pass'.at = None
            /\ pass'.heldBefore = pass.heldBefore
            /\ pass'.todo = pass.todo /\ pass'.found = pass.found
  BY CheckEndsPass DEF CheckGivesUp
<1>7. TypeOK'
  BY <1>1, <1>2, <1>3, <1>6 DEF TypeOK, Pass
<1>8. RowMatchesVast(n)'
  BY <1>1, <1>2, <1>4 DEF RowsMatchVast, RowMatchesVast, HoldsIt, Made, DestroyStates,
     Destroying
<1>9. CreateTracked(n)'
  BY <1>1, <1>2, <1>4, <1>5 DEF CreatesTracked, CreateTracked
<1>10. HolderKnown(n)'
  BY <1>1, <1>2, <1>3, <1>4 DEF HoldersKnown, HolderKnown, TypeOK, MovedOn, NoStep,
     DestroyStates, Destroying, Supervised
<1>11. n \in Counted' => Attended(n)'
  BY <1>1, <1>4 DEF Attended, Counted, Retriable, holdsInstance, HoldsIt, DestroyStates
<1>12. PassKnows'
  BY <1>1, <1>2, <1>4, <1>6 DEF PassKnows
<1>13. NothingRuledOutWrongly'
  <2>1. ASSUME ~LateCreates, NEW m \in Node, m # n
        PROVE  RuledOutRightly(m)'
    BY <2>1, <1>1, <1>2, <1>4, <1>6
       DEF NothingRuledOutWrongly, RuledOutRightly, Billing, Undecided, Counted
  <2>2. ~LateCreates => RuledOutRightly(n)'
    BY <1>1, <1>2, <1>4, <1>6
       DEF NothingRuledOutWrongly, RuledOutRightly, Billing, Undecided, Counted,
           holdsInstance, createOutcomeUnknown, HoldsIt
  <2> QED
    BY <2>1, <2>2 DEF NothingRuledOutWrongly
<1>14. TouchesOnly(n)
  BY <1>1, <1>2, <1>3 DEF TouchesOnly, TypeOK
<1> QED
  BY <1>7, <1>8, <1>9, <1>10, <1>11, <1>12, <1>13, <1>14, OthersKept

\* destroyed_at ages.
LEMMA StampAgesKeeps ==
  ASSUME RentalInv, NEW n \in Node, StampAges(n)
  PROVE  RentalInv'
<1>1. RowBecomes(n, row[n].state, row[n].inst, row[n].unknown, "yes") /\ row[n].gone = "recent"
  BY StampAgesRow DEF RentalInv, StampAges
<1>2. UNCHANGED <<vast, creating, look, step, check, retrying, pass, unknownAtBoot, goneAt, ssh,
                  provisioned, restarts>>
  BY DEF StampAges, memory
<1>3. row[n].inst /\ vast[n] = "gone"
  BY <1>1 DEF RentalInv, RowsMatchVast, RowMatchesVast
<1> USE DEF RentalInv, RowBecomes
<1>4. LookingUp' = LookingUp
  BY <1>2 DEF LookingUp
<1>5. TypeOK'
  BY <1>1, <1>2 DEF TypeOK
<1>6. RowMatchesVast(n)'
  BY <1>1, <1>2, <1>3 DEF RowsMatchVast, RowMatchesVast, Made
<1>7. CreateTracked(n)'
  BY <1>1, <1>2, <1>4 DEF CreatesTracked, CreateTracked
<1>8. HolderKnown(n)'
  BY <1>1, <1>2 DEF HoldersKnown, HolderKnown, MovedOn
<1>9. n \in Counted' => Attended(n)'
  BY <1>1, <1>2, <1>3, <1>4 DEF NobodyLeftBehind, Attended, Counted, Retriable, Watched,
     MovedOn, holdsInstance, createOutcomeUnknown
<1>10. PassKnows'
  BY <1>1, <1>2 DEF PassKnows
<1>11. ~LateCreates => RuledOutRightly(n)'
  BY <1>1, <1>2, <1>3 DEF NothingRuledOutWrongly, RuledOutRightly, Billing, Undecided,
     Counted, holdsInstance, createOutcomeUnknown
<1>12. TouchesOnly(n)
  BY <1>1, <1>2 DEF TouchesOnly
<1> QED
  BY <1>2, <1>5, <1>6, <1>7, <1>8, <1>9, <1>10, <1>11, <1>12, OthersKept

\* retryDestroys comes to the node.
LEMMA RetryDestroysKeeps ==
  ASSUME RentalInv, NEW n \in Node, RetryDestroys(n)
  PROVE  RentalInv'
<1>1. /\ Retriable(n)
      /\ retrying' = n
      /\ check' = [check EXCEPT ![n] = IF @ = "none" THEN "deleting" ELSE @]
      /\ ssh' = ssh \ {n}
      /\ UNCHANGED <<row, vast, creating, look, step, pass, unknownAtBoot, goneAt, provisioned,
                     restarts>>
  BY DEF RetryDestroys, EnsureInstanceGone
<1> USE DEF RentalInv
<1>2. TypeOK'
  BY <1>1 DEF TypeOK
<1>3. HolderKnown(n)'
  BY <1>1 DEF HoldersKnown, HolderKnown, TypeOK, MovedOn, Retriable
<1>4. n \in Counted' => Attended(n)'
  BY <1>1 DEF NobodyLeftBehind, Attended, Counted, Retriable, Watched, MovedOn,
     holdsInstance, createOutcomeUnknown, LookingUp
<1>5. RowsMatchVast' /\ CreatesTracked' /\ PassKnows' /\ NothingRuledOutWrongly'
  BY <1>1 DEF RowsMatchVast, RowMatchesVast, CreatesTracked, CreateTracked, LookingUp,
       PassKnows, NothingRuledOutWrongly, RuledOutRightly, Billing, Undecided, Counted
<1>6. TouchesOnly(n)
  BY <1>1 DEF TouchesOnly, TypeOK
<1> QED
  BY <1>2, <1>3, <1>4, <1>5, <1>6, OthersKept

\* The user's button, a scale-down or a quit.
LEMMA DestroyNodeKeeps ==
  ASSUME RentalInv, NEW n \in Node, DestroyNode(n)
  PROVE  RentalInv'
<1>1. \/ /\ row[n].inst
         /\ SetState(n, "destroying")
         /\ check' = [check EXCEPT ![n] = IF @ = "none" THEN "deleting" ELSE @]
         /\ ssh' = ssh \ {n}
      \/ /\ ~row[n].inst
         /\ SetState(n, "destroying") /\ n \in LookingUp
         /\ UNCHANGED <<check, ssh>>
      \/ /\ ~row[n].inst
         /\ SetState(n, "destroyed") /\ (~createOutcomeUnknown(row[n]) \/ n \in creating)
         /\ ssh' = ssh \ {n} /\ UNCHANGED check
  BY DEF DestroyNode, EnsureInstanceGone
<1>2. \E s \in {"destroying", "destroyed"} : SetState(n, s)
  BY <1>1
<1>3. PICK s \in {"destroying", "destroyed"} : SetState(n, s)
  BY <1>2
<1>4. RowBecomes(n, s, row[n].inst, row[n].unknown, row[n].gone)
  BY <1>3, StateSet, StatesExist DEF RentalInv, DestroyStates, Destroying
<1>5. /\ row[n].state # "absent"
      /\ UNCHANGED <<vast, creating, look, step, retrying, pass, unknownAtBoot, goneAt,
                     provisioned, restarts>>
  BY DEF DestroyNode
<1>6. /\ check' \in [Node -> {"none", "deleting", "confirming"}]
      /\ \A m \in Node \ {n} : check'[m] = check[m] /\ (m \in ssh' <=> m \in ssh)
      /\ check'[n] = check[n] \/ row[n].inst
      /\ ssh' \subseteq ssh
      /\ ~row[n].inst /\ createOutcomeUnknown(row[n]) => n \in creating \cup LookingUp
  BY <1>1 DEF RentalInv, TypeOK
<1>7. s \in DestroyStates /\ s \notin Supervised /\ s # "failed" /\ s # "requested"
  BY DEF DestroyStates, Destroying, Supervised
<1>8. n \in creating \cup LookingUp => row[n].unknown
  BY DEF RentalInv, CreatesTracked, CreateTracked
<1> USE DEF RentalInv, RowBecomes
<1>9. LookingUp' = LookingUp
  BY <1>5 DEF LookingUp
<1>10. TypeOK'
  BY <1>4, <1>5, <1>6 DEF TypeOK
<1>11. RowMatchesVast(n)'
  BY <1>4, <1>5, <1>7 DEF RowsMatchVast, RowMatchesVast, DestroyStates, Destroying
<1>12. CreateTracked(n)'
  BY <1>4, <1>5, <1>7, <1>9 DEF CreatesTracked, CreateTracked, DestroyStates, Destroying
<1>13. HolderKnown(n)'
  BY <1>4, <1>5, <1>6, <1>7 DEF HoldersKnown, HolderKnown, MovedOn
<1>14. n \in Counted' => Attended(n)'
  BY <1>4, <1>5, <1>6, <1>7, <1>9 DEF NobodyLeftBehind, Attended, Counted, Retriable,
     Watched, MovedOn, holdsInstance, createOutcomeUnknown
<1>15. PassKnows'
  BY <1>4, <1>5 DEF PassKnows
<1>16. ~LateCreates => RuledOutRightly(n)'
  BY <1>4, <1>5, <1>6, <1>8 DEF NothingRuledOutWrongly, RuledOutRightly, Billing,
     Undecided, Counted, holdsInstance, createOutcomeUnknown
<1>17. TouchesOnly(n)
  BY <1>4, <1>5, <1>6 DEF TouchesOnly
<1> QED
  BY <1>5, <1>10, <1>11, <1>12, <1>13, <1>14, <1>15, <1>16, <1>17, OthersKept

\* The failed nodes are cleared.
LEMMA ClearFailedKeeps ==
  ASSUME RentalInv, ClearFailed
  PROVE  RentalInv'
<1>1. /\ row' \in [Node -> Row]
      /\ \A m \in Node :
           \/ row'[m] = row[m]
           \/ /\ RowsAgreeButForState(m)
              /\ row[m].state = "failed" /\ row'[m].state = "destroyed"
              /\ ~holdsInstance(row[m])
  BY ClearFailedRows DEF RentalInv
<1>2. UNCHANGED <<vast, creating, look, step, retrying, pass, unknownAtBoot, goneAt,
                  provisioned, restarts>>
  BY DEF ClearFailed
<1>3. /\ check' \in [Node -> {"none", "deleting", "confirming"}]
      /\ \A m \in Node : check'[m] = check[m] \/ row[m].inst
      /\ ssh' \subseteq ssh
      /\ \A m \in Node : m \in ssh \ ssh' => row[m].state = "failed"
  BY DEF ClearFailed, RentalInv, TypeOK
<1> USE DEF RentalInv, RowsAgreeButForState
<1>4. LookingUp' = LookingUp
  BY <1>2 DEF LookingUp
<1>5. TypeOK'
  BY <1>1, <1>2, <1>3 DEF TypeOK
<1>6. RowsMatchVast'
  <2>1. ASSUME NEW m \in Node
        PROVE  RowMatchesVast(m)'
    BY <1>1, <1>2 DEF RowsMatchVast, RowMatchesVast, DestroyStates, Destroying
  <2> QED
    BY <2>1 DEF RowsMatchVast
<1>7. CreatesTracked'
  <2>1. ASSUME NEW m \in Node
        PROVE  CreateTracked(m)'
    BY <1>1, <1>2, <1>4 DEF CreatesTracked, CreateTracked
  <2> QED
    BY <2>1 DEF CreatesTracked
<1>8. HoldersKnown'
  <2>1. ASSUME NEW m \in Node
        PROVE  HolderKnown(m)'
    BY <1>1, <1>2, <1>3 DEF HoldersKnown, HolderKnown, MovedOn, DestroyStates, Destroying, Supervised
  <2> QED
    BY <2>1 DEF HoldersKnown
<1>9. NobodyLeftBehind'
  <2>1. ASSUME NEW m \in Counted'
        PROVE  Attended(m)'
    <3>1. m \in Node /\ row'[m] = row[m]
      BY <1>1, <2>1 DEF Counted, holdsInstance, createOutcomeUnknown
    <3>2. Attended(m)
      BY <2>1, <3>1 DEF Counted, NobodyLeftBehind, Attended
    <3> QED
      BY <1>2, <1>3, <1>4, <3>1, <3>2
         DEF Attended, Retriable, Watched, MovedOn, Supervised
  <2> QED
    BY <2>1 DEF NobodyLeftBehind, Attended
<1>10. PassKnows'
  BY <1>1, <1>2 DEF PassKnows
<1>11. NothingRuledOutWrongly'
  <2>1. \A m \in Node : m \in Counted => m \in Counted'
    BY <1>1 DEF Counted
  <2> QED
    BY <1>1, <1>2, <2>1 DEF NothingRuledOutWrongly, RuledOutRightly, Billing, Undecided
<1> QED
  BY <1>5, <1>6, <1>7, <1>8, <1>9, <1>10, <1>11

\* A step finds its node moved on.
LEMMA StepAbandonsKeeps ==
  ASSUME RentalInv, NEW n \in Node, StepAbandons(n)
  PROVE  RentalInv'
<1>1. /\ step[n].pc # "none" /\ MovedOn(n)
      /\ step' = [step EXCEPT ![n] = NoStep]
      /\ UNCHANGED <<row, vast, creating, look, check, retrying, pass, unknownAtBoot, goneAt, ssh,
                     provisioned, restarts>>
  BY DEF StepAbandons, LetsGo, stepOnly
<1>2. row[n].inst /\ row[n].state \in DestroyStates
  BY <1>1 DEF RentalInv, HoldersKnown, HolderKnown, MovedOn
<1> USE DEF RentalInv
<1>3. TypeOK'
  <2>1. NoStep \in [pc : StepPc, held : NodeStates]
    BY StatesExist DEF NoStep, StepPc
  <2> QED
    BY <1>1, <2>1 DEF TypeOK
<1>4. HolderKnown(n)'
  BY <1>1 DEF HoldersKnown, HolderKnown, TypeOK, MovedOn, NoStep
<1>5. n \in Counted' => Attended(n)'
  BY <1>1, <1>2 DEF NobodyLeftBehind, Attended, Counted, Retriable, Watched, MovedOn,
     holdsInstance, createOutcomeUnknown, LookingUp
<1>6. RowsMatchVast' /\ CreatesTracked' /\ PassKnows' /\ NothingRuledOutWrongly'
  BY <1>1 DEF RowsMatchVast, RowMatchesVast, CreatesTracked, CreateTracked, LookingUp,
       PassKnows, NothingRuledOutWrongly, RuledOutRightly, Billing, Undecided, Counted
<1>7. TouchesOnly(n)
  BY <1>1 DEF TouchesOnly, TypeOK
<1> QED
  BY <1>3, <1>4, <1>5, <1>6, <1>7, OthersKept

\* A step destroys its node.
LEMMA StepDestroysKeeps ==
  ASSUME RentalInv, NEW n \in Node, NEW s \in DestroyStates,
         step[n].pc # "none", StepDestroys(n, s)
  PROVE  RentalInv'
<1>1. RowBecomes(n, s, row[n].inst, row[n].unknown, row[n].gone)
  BY StateSet, StatesExist DEF StepDestroys, RentalInv
<1>2. /\ check' = [check EXCEPT ![n] = IF @ = "none" THEN "deleting" ELSE @]
      /\ ssh' = ssh \ {n}
      /\ step' = [step EXCEPT ![n] = NoStep]
      /\ UNCHANGED <<vast, creating, look, retrying, pass, unknownAtBoot, goneAt, restarts>>
      /\ UNCHANGED provisioned
  BY DEF StepDestroys, EnsureInstanceGone, LetsGo, stepOnly
<1>3. row[n].inst
  BY DEF RentalInv, HoldersKnown, HolderKnown
<1>4. s # "absent" /\ s \notin Supervised
  BY DEF DestroyStates, Destroying, Supervised
<1> USE DEF RentalInv, RowBecomes
<1>5. LookingUp' = LookingUp
  BY <1>2 DEF LookingUp
<1>6. TypeOK'
  <2>1. NoStep \in [pc : StepPc, held : NodeStates]
    BY StatesExist DEF NoStep, StepPc
  <2> QED
    BY <1>1, <1>2, <2>1 DEF TypeOK
<1>7. RowMatchesVast(n)'
  BY <1>1, <1>2, <1>3, <1>4 DEF RowsMatchVast, RowMatchesVast
<1>8. CreateTracked(n)'
  BY <1>1, <1>2, <1>3, <1>4, <1>5 DEF CreatesTracked, CreateTracked
<1>9. HolderKnown(n)'
  BY <1>1, <1>2, <1>3, <1>4 DEF HoldersKnown, HolderKnown, TypeOK, MovedOn, NoStep
<1>10. n \in Counted' => Attended(n)'
  BY <1>1, <1>2, <1>3, <1>4, <1>5 DEF NobodyLeftBehind, Attended, Counted, Retriable,
     Watched, MovedOn, holdsInstance, createOutcomeUnknown, TypeOK, HoldersKnown,
     HolderKnown, NoStep
<1>11. PassKnows'
  BY <1>1, <1>2 DEF PassKnows
<1>12. ~LateCreates => RuledOutRightly(n)'
  BY <1>1, <1>2, <1>3 DEF NothingRuledOutWrongly, RuledOutRightly, Billing, Undecided,
     Counted, holdsInstance, createOutcomeUnknown
<1>13. TouchesOnly(n)
  BY <1>1, <1>2 DEF TouchesOnly, TypeOK
<1> QED
  BY <1>2, <1>6, <1>7, <1>8, <1>9, <1>10, <1>11, <1>12, <1>13, OthersKept

\* A step puts its node in service.
LEMMA StepFinishesKeeps ==
  ASSUME RentalInv, NEW n \in Node, NEW s \in {"ready", "rendering"},
         step[n].pc \notin {"none", "asking", "polling"}, ~MovedOn(n), StepFinishes(n, s)
  PROVE  RentalInv'
<1>1. RowBecomes(n, s, row[n].inst, row[n].unknown, row[n].gone)
  BY StateSet, StatesExist DEF StepFinishes, RentalInv, Supervised
<1>2. /\ provisioned' = provisioned \cup {n}
      /\ step' = [step EXCEPT ![n] = NoStep]
      /\ UNCHANGED <<vast, creating, look, retrying, pass, unknownAtBoot, goneAt, restarts>>
      /\ UNCHANGED <<check, ssh>>
  BY DEF StepFinishes, LetsGo, stepOnly
<1>3. row[n].inst
  BY DEF RentalInv, HoldersKnown, HolderKnown
<1>4. s # "absent" /\ s \in Supervised
  BY DEF DestroyStates, Destroying, Supervised
<1> USE DEF RentalInv, RowBecomes
<1>5. LookingUp' = LookingUp
  BY <1>2 DEF LookingUp
<1>6. TypeOK'
  <2>1. NoStep \in [pc : StepPc, held : NodeStates]
    BY StatesExist DEF NoStep, StepPc
  <2> QED
    BY <1>1, <1>2, <2>1 DEF TypeOK
<1>7. RowMatchesVast(n)'
  BY <1>1, <1>2, <1>3, <1>4 DEF RowsMatchVast, RowMatchesVast
<1>8. CreateTracked(n)'
  BY <1>1, <1>2, <1>3, <1>4, <1>5 DEF CreatesTracked, CreateTracked
<1>9. HolderKnown(n)'
  BY <1>1, <1>2, <1>3, <1>4 DEF HoldersKnown, HolderKnown, TypeOK, MovedOn, NoStep
<1>10. n \in Counted' => Attended(n)'
  BY <1>1, <1>2, <1>3, <1>4, <1>5 DEF NobodyLeftBehind, Attended, Counted, Retriable,
     Watched, MovedOn, holdsInstance, createOutcomeUnknown, TypeOK, HoldersKnown,
     HolderKnown, NoStep
<1>11. PassKnows'
  BY <1>1, <1>2 DEF PassKnows
<1>12. ~LateCreates => RuledOutRightly(n)'
  BY <1>1, <1>2, <1>3 DEF NothingRuledOutWrongly, RuledOutRightly, Billing, Undecided,
     Counted, holdsInstance, createOutcomeUnknown
<1>13. TouchesOnly(n)
  BY <1>1, <1>2 DEF TouchesOnly, TypeOK
<1> QED
  BY <1>2, <1>6, <1>7, <1>8, <1>9, <1>10, <1>11, <1>12, <1>13, OthersKept

\* A step goes on, or takes the node up.
LEMMA StepHoldsKeeps ==
  ASSUME RentalInv, NEW n \in Node, NEW s \in {"requested", "provisioning", "unreachable"},
         NEW pc \in StepPc \ {"none"}, NEW c \in BOOLEAN, row[n].inst,
         pc \in {"asking", "polling"} \/ c,
         pc = "asking" => ~c /\ n \notin ssh, StepHolds(n, s, pc, c)
  PROVE  RentalInv'
<1>1. RowBecomes(n, s, row[n].inst, row[n].unknown, row[n].gone)
  BY StateSet, StatesExist DEF StepHolds, RentalInv
<1>2. /\ step' = [step EXCEPT ![n] = [pc |-> pc, held |-> s]]
      /\ ssh' = IF c THEN ssh \cup {n} ELSE ssh
      /\ UNCHANGED <<vast, creating, look, retrying, pass, unknownAtBoot, goneAt, restarts>>
      /\ UNCHANGED <<check, provisioned>>
  BY DEF StepHolds, Takes, stepOnly
<1>3. row[n].inst
  OBVIOUS
<1>4. s # "absent" /\ s \notin Supervised /\ s \notin DestroyStates
  BY DEF DestroyStates, Destroying, Supervised
<1> USE DEF RentalInv, RowBecomes
<1>5. LookingUp' = LookingUp
  BY <1>2 DEF LookingUp
<1>6. TypeOK'
  <2>1. [pc |-> pc, held |-> s] \in [pc : StepPc, held : NodeStates]
    BY StatesExist
  <2> QED
    BY <1>1, <1>2, <2>1 DEF TypeOK
<1>7. RowMatchesVast(n)'
  BY <1>1, <1>2, <1>3, <1>4 DEF RowsMatchVast, RowMatchesVast
<1>8. CreateTracked(n)'
  BY <1>1, <1>2, <1>3, <1>4, <1>5 DEF CreatesTracked, CreateTracked
<1>9. HolderKnown(n)'
  BY <1>1, <1>2, <1>3, <1>4 DEF HoldersKnown, HolderKnown, TypeOK, MovedOn, NoStep
<1>10. n \in Counted' => Attended(n)'
  BY <1>1, <1>2, <1>3, <1>4, <1>5 DEF NobodyLeftBehind, Attended, Counted, Retriable,
     Watched, MovedOn, holdsInstance, createOutcomeUnknown, TypeOK, HoldersKnown,
     HolderKnown, NoStep
<1>11. PassKnows'
  BY <1>1, <1>2 DEF PassKnows
<1>12. ~LateCreates => RuledOutRightly(n)'
  BY <1>1, <1>2, <1>3 DEF NothingRuledOutWrongly, RuledOutRightly, Billing, Undecided,
     Counted, holdsInstance, createOutcomeUnknown
<1>13. TouchesOnly(n)
  BY <1>1, <1>2 DEF TouchesOnly, TypeOK
<1> QED
  BY <1>2, <1>6, <1>7, <1>8, <1>9, <1>10, <1>11, <1>12, <1>13, OthersKept

\* Chunks come to the node and go.
LEMMA WorksKeeps ==
  ASSUME RentalInv, NEW n \in Node, Dispatch(n) \/ Idles(n)
  PROVE  RentalInv'
<1>1. PICK s \in {"rendering", "idle"} : SetState(n, s)
  BY DEF Dispatch, Idles
<1>2. RowBecomes(n, s, row[n].inst, row[n].unknown, row[n].gone)
  BY <1>1, StateSet, StatesExist DEF RentalInv, Supervised
<1>3. /\ n \in ssh /\ row[n].state \in Supervised
      /\ UNCHANGED <<vast, creating, look, step, check, retrying, pass, unknownAtBoot, goneAt,
                     ssh, provisioned, restarts>>
  BY DEF Dispatch, Idles, Dispatchable, Supervised, memory
<1>4. row[n].inst /\ step[n] = NoStep
  BY <1>3 DEF RentalInv, HoldersKnown, HolderKnown, Supervised, DestroyStates, Destroying
<1>5. s \in Supervised /\ s # "absent"
  BY DEF Supervised
<1> USE DEF RentalInv, RowBecomes
<1>6. LookingUp' = LookingUp
  BY <1>3 DEF LookingUp
<1>7. TypeOK'
  BY <1>2, <1>3 DEF TypeOK
<1>8. RowMatchesVast(n)'
  BY <1>2, <1>3, <1>4, <1>5 DEF RowsMatchVast, RowMatchesVast
<1>9. CreateTracked(n)'
  BY <1>2, <1>3, <1>4, <1>5, <1>6 DEF CreatesTracked, CreateTracked
<1>10. HolderKnown(n)'
  BY <1>2, <1>3, <1>4, <1>5 DEF HoldersKnown, HolderKnown, MovedOn, NoStep
<1>11. n \in Counted' => Attended(n)'
  BY <1>2, <1>3, <1>4, <1>5, <1>6 DEF NobodyLeftBehind, Attended, Counted, Retriable,
     Watched, MovedOn, holdsInstance, createOutcomeUnknown
<1>12. PassKnows'
  BY <1>2, <1>3 DEF PassKnows
<1>13. ~LateCreates => RuledOutRightly(n)'
  BY <1>2, <1>3, <1>4 DEF NothingRuledOutWrongly, RuledOutRightly, Billing, Undecided,
     Counted, holdsInstance, createOutcomeUnknown
<1>14. TouchesOnly(n)
  BY <1>2, <1>3 DEF TouchesOnly
<1> QED
  BY <1>3, <1>7, <1>8, <1>9, <1>10, <1>11, <1>12, <1>13, <1>14, OthersKept

\* The reconcile asks for the list.
LEMMA PassAsksKeeps ==
  ASSUME RentalInv, PassAsks
  PROVE  RentalInv'
<1>1. /\ pass.pc = "none" /\ (LateCreates \/ \A m \in unknownAtBoot : vast[m] # "asked")
      /\ pass' = [NoPass EXCEPT !.pc = "asking", !.heldBefore = HeldInstances]
      /\ goneAt' = {m \in goneAt : row[m].gone # "yes"}
      /\ UNCHANGED <<row, vast, creating, look, step, check, retrying, unknownAtBoot, ssh,
                     provisioned, restarts>>
  BY DEF PassAsks
<1>2. /\ pass' \in Pass /\ pass'.pc = "asking" /\ pass'.todo = {} /\ pass'.at = None
      /\ pass'.heldBefore = HeldInstances
  <2>1. NoPass \in Pass /\ NoPass.todo = {} /\ NoPass.at = None
    BY DEF NoPass, Pass
  <2>2. HeldInstances \in SUBSET Node
    BY DEF HeldInstances
  <2> QED
    BY <1>1, <2>1, <2>2 DEF Pass
<1> USE DEF RentalInv
<1>3. TypeOK'
  BY <1>1, <1>2 DEF TypeOK, Pass
<1>4. HoldersKnown'
  BY <1>1 DEF HoldersKnown, HolderKnown, MovedOn
<1>5. PassKnows'
  BY <1>1, <1>2 DEF PassKnows, HeldInstances
<1>6. NothingRuledOutWrongly'
  BY <1>1, <1>2 DEF NothingRuledOutWrongly, RuledOutRightly, Billing, Undecided, Counted
<1>7. RowsMatchVast' /\ CreatesTracked' /\ NobodyLeftBehind'
  BY <1>1 DEF RowsMatchVast, RowMatchesVast, CreatesTracked, CreateTracked, LookingUp,
       NobodyLeftBehind, Counted, Retriable, Watched, MovedOn
<1> QED
  BY <1>3, <1>4, <1>5, <1>6, <1>7

\* Vast makes the list.
LEMMA PassListedKeeps ==
  ASSUME RentalInv, PassListed
  PROVE  RentalInv'
<1>1. /\ pass.pc = "asking"
      /\ pass' = [pass EXCEPT !.pc = "listed", !.todo = Billing,
                              !.young = {m \in Node : vast[m] = "young"}]
      /\ UNCHANGED <<row, vast, creating, look, step, check, retrying, unknownAtBoot, goneAt, ssh,
                     provisioned, restarts>>
  BY DEF PassListed
<1>2. /\ pass' \in Pass /\ pass'.pc = "listed" /\ pass'.todo = Billing /\ pass'.at = pass.at
      /\ pass'.heldBefore = pass.heldBefore
  <2>1. pass \in Pass
    BY DEF RentalInv, TypeOK, Pass
  <2>2. Billing \in SUBSET Node
    BY DEF Billing
  <2> QED
    BY <1>1, <2>1, <2>2 DEF Pass
<1>3. \A m \in Billing : vast[m] \in Made /\ row[m].gone = "no"
  BY DEF RentalInv, RowsMatchVast, RowMatchesVast, Billing, Made
<1> USE DEF RentalInv
<1>4. TypeOK'
  BY <1>1, <1>2 DEF TypeOK, Pass
<1>5. PassKnows'
  BY <1>1, <1>2, <1>3 DEF PassKnows
<1>6. NothingRuledOutWrongly'
  BY <1>1, <1>2 DEF NothingRuledOutWrongly, RuledOutRightly, Billing, Undecided, Counted
<1>7. RowsMatchVast' /\ CreatesTracked' /\ HoldersKnown' /\ NobodyLeftBehind'
  BY <1>1 DEF RowsMatchVast, RowMatchesVast, CreatesTracked, CreateTracked, LookingUp,
       HoldersKnown, HolderKnown, MovedOn, NobodyLeftBehind, Counted, Retriable, Watched
<1> QED
  BY <1>4, <1>5, <1>6, <1>7

\* No list comes.
LEMMA PassUnansweredKeeps ==
  ASSUME RentalInv, PassUnanswered
  PROVE  RentalInv'
<1>1. /\ pass' = NoPass
      /\ UNCHANGED <<row, vast, creating, look, step, check, retrying, unknownAtBoot, goneAt, ssh,
                     provisioned, restarts>>
  BY DEF PassUnanswered
<1>2. NoPass \in Pass
  BY DEF NoPass, Pass
<1> USE DEF RentalInv
<1>3. TypeOK'
  BY <1>1, <1>2 DEF TypeOK, Pass
<1>4. PassKnows'
  BY <1>1 DEF PassKnows, NoPass
<1>5. NothingRuledOutWrongly'
  BY <1>1 DEF NothingRuledOutWrongly, RuledOutRightly, Billing, Undecided, Counted, NoPass
<1>6. RowsMatchVast' /\ CreatesTracked' /\ HoldersKnown' /\ NobodyLeftBehind'
  BY <1>1 DEF RowsMatchVast, RowMatchesVast, CreatesTracked, CreateTracked, LookingUp,
       HoldersKnown, HolderKnown, MovedOn, NobodyLeftBehind, Counted, Retriable, Watched
<1> QED
  BY <1>3, <1>4, <1>5, <1>6

\* The reconcile claims an instance for its row.
LEMMA PassClaimsKeeps ==
  ASSUME RentalInv, NEW n \in Node, PassClaims(n)
  PROVE  RentalInv'
<1>1. \E s \in DestroyStates : RowBecomes(n, s, TRUE, FALSE, "no")
  BY PassClaimsRow DEF RentalInv
<1>2. PICK s \in DestroyStates : RowBecomes(n, s, TRUE, FALSE, "no")
  BY <1>1
<1>3. /\ pass.pc = "listed" /\ n \in pass.todo /\ ~Spared(n) /\ ~MayStillAnswer(n)
      /\ unknownAtBoot' = unknownAtBoot \ {n}
      /\ check' = [check EXCEPT ![n] = IF @ = "none" THEN "deleting" ELSE @]
      /\ ssh' = ssh \ {n}
      /\ UNCHANGED <<vast, creating, look, step, retrying, goneAt, provisioned, restarts>>
  BY DEF PassClaims, Orphan, EnsureInstanceGone
<1>4. PICK left \in SUBSET {m \in pass.todo : ~Orphan(m)} :
        pass' = [pass EXCEPT !.pc = "waiting", !.at = n,
                             !.todo = @ \ (left \cup {n}),
                             !.found = @ \cup {n} \cup {m \in left : ~Spared(m)}]
  BY DEF PassClaims
<1>5. /\ pass' \in Pass
      /\ pass'.pc = "waiting" /\ pass'.heldBefore = pass.heldBefore
      /\ pass'.todo \subseteq pass.todo
      /\ \A m \in pass.todo : ~Spared(m) => m \in pass'.todo \cup pass'.found
      /\ pass.found \subseteq pass'.found
  <2>1. pass \in Pass
    BY DEF RentalInv, TypeOK, Pass
  <2> QED
    BY <1>4, <2>1 DEF Pass
<1>6. /\ vast[n] \in Made /\ ~row[n].inst
      /\ n \notin creating /\ n \notin LookingUp
  BY <1>3 DEF RentalInv, PassKnows, Spared, HeldInstances, MayStillAnswer, TypeOK, Row
<1>7. step[n] = NoStep /\ row[n].state \in {"absent", "requested"} \cup DestroyStates
  BY <1>6 DEF RentalInv, HoldersKnown, HolderKnown, RowsMatchVast, RowMatchesVast
<1>8. s # "absent" /\ s \notin Supervised
  BY DEF DestroyStates, Destroying, Supervised
<1>9. \A m \in Node : ~row[m].inst /\ m \in pass.todo => ~Spared(m)
  BY DEF RentalInv, Spared, HeldInstances, HoldersKnown, HolderKnown, PassKnows
<1> USE DEF RentalInv, RowBecomes
<1>10. LookingUp' = LookingUp
  BY <1>3 DEF LookingUp
<1>11. TypeOK'
  BY <1>2, <1>3, <1>5 DEF TypeOK, Pass
<1>12. RowMatchesVast(n)'
  BY <1>2, <1>3, <1>6, <1>8 DEF RowsMatchVast, RowMatchesVast
<1>13. CreateTracked(n)'
  BY <1>2, <1>3, <1>6, <1>8, <1>10 DEF CreatesTracked, CreateTracked
<1>14. HolderKnown(n)'
  BY <1>2, <1>3, <1>7, <1>8 DEF HoldersKnown, HolderKnown, MovedOn, TypeOK, NoStep
<1>15. n \in Counted' => Attended(n)'
  BY <1>2, <1>3, <1>10 DEF NobodyLeftBehind, Attended, Counted, Retriable, Watched,
     MovedOn, holdsInstance, createOutcomeUnknown
<1>16. PassKnows'
  BY <1>2, <1>3, <1>5, RentalConstants DEF PassKnows
<1>17. NothingRuledOutWrongly'
  <2>1. ASSUME ~LateCreates, NEW m \in Node, m # n
        PROVE  RuledOutRightly(m)'
    BY <2>1, <1>2, <1>3, <1>5, <1>6, <1>9
       DEF NothingRuledOutWrongly, RuledOutRightly, Billing, Undecided, Counted
  <2>2. ~LateCreates => RuledOutRightly(n)'
    BY <1>2, <1>3, <1>5, <1>6, <1>9
       DEF NothingRuledOutWrongly, RuledOutRightly, Billing, Undecided, Counted,
           holdsInstance, createOutcomeUnknown, Made
  <2> QED
    BY <2>1, <2>2 DEF NothingRuledOutWrongly
<1>18. TouchesOnly(n)
  BY <1>2, <1>3 DEF TouchesOnly, TypeOK
<1> QED
  BY <1>11, <1>12, <1>13, <1>14, <1>15, <1>16, <1>17, <1>18, OthersKept

\* The end of the reconcile: the creates it heard nothing of are settled.
LEMMA PassEndsKeeps ==
  ASSUME RentalInv, PassEnds
  PROVE  RentalInv'
<1>1. row' \in [Node -> Row]
  BY PassEndsRows DEF RentalInv
<1>2. ASSUME NEW m \in Node, row'[m] # row[m]
      PROVE  /\ createOutcomeUnknown(row[m])
             /\ m \in unknownAtBoot /\ m \notin pass.found /\ (m \in pass.todo => Spared(m))
             /\ ~row'[m].inst /\ ~row'[m].unknown /\ row'[m].gone = row[m].gone
             /\ row'[m].state = CASE row[m].state = "requested" -> "failed"
                                   [] row[m].state = "destroying" -> "destroyed"
                                   [] OTHER -> row[m].state
  BY <1>2, PassEndsRows DEF RentalInv
<1>3. /\ pass.pc = "listed"
      /\ unknownAtBoot' \subseteq unknownAtBoot
      /\ \A m \in unknownAtBoot \ unknownAtBoot' : m \notin pass.found /\ (m \in pass.todo => Spared(m))
      /\ pass' = NoPass
      /\ UNCHANGED <<vast, creating, look, step, check, retrying, goneAt, ssh, provisioned, restarts>>
  BY DEF PassEnds
<1>4. \A m \in Node : ~row[m].inst /\ m \in pass.todo => ~Spared(m)
  BY DEF RentalInv, Spared, HeldInstances, HoldersKnown, HolderKnown, PassKnows
<1>5. ASSUME NEW m \in Node, row'[m] # row[m]
      PROVE  /\ ~row[m].inst /\ row'[m].state \in DestroyStates /\ step[m] = NoStep
             /\ m \notin ssh /\ m \notin creating /\ m \notin LookingUp
             /\ ~createOutcomeUnknown(row'[m])
  <2>1. ~row[m].inst /\ m \in unknownAtBoot
    BY <1>2, <1>5 DEF createOutcomeUnknown
  <2>2. row[m].state \in {"requested"} \cup DestroyStates
    BY <2>1 DEF RentalInv, RowsMatchVast, RowMatchesVast, CreatesTracked, CreateTracked
  <2>3. row'[m].state \in DestroyStates
    BY <1>2, <1>5, <2>2 DEF DestroyStates, Destroying
  <2>4. ~createOutcomeUnknown(row'[m])
    BY <1>2, <1>5, <2>3 DEF createOutcomeUnknown, DestroyStates, Destroying
  <2> QED
    BY <2>1, <2>3, <2>4 DEF RentalInv, HoldersKnown, HolderKnown, CreatesTracked, CreateTracked
<1> USE DEF RentalInv
<1>6. LookingUp' = LookingUp
  BY <1>3 DEF LookingUp
<1>7. TypeOK'
  <2>1. NoPass \in Pass
    BY DEF NoPass, Pass
  <2> QED
    BY <1>1, <1>3, <2>1 DEF TypeOK, Pass
<1>8. RowsMatchVast'
  BY <1>2, <1>3, <1>5 DEF RowsMatchVast, RowMatchesVast, DestroyStates, Destroying
<1>9. CreatesTracked'
  BY <1>2, <1>3, <1>5, <1>6 DEF CreatesTracked, CreateTracked, DestroyStates, Destroying
<1>10. HoldersKnown'
  BY <1>2, <1>3, <1>5 DEF HoldersKnown, HolderKnown, MovedOn, NoStep
<1>11. NobodyLeftBehind'
  <2>1. ASSUME NEW m \in Counted'
        PROVE  Attended(m)'
    <3>1. m \in Node /\ row'[m] = row[m]
      BY <1>2, <1>5, <2>1 DEF Counted, holdsInstance
    <3>2. Attended(m)
      BY <2>1, <3>1 DEF Counted, NobodyLeftBehind, Attended
    <3>3. createOutcomeUnknown(row[m]) /\ m \in unknownAtBoot => m \in unknownAtBoot'
      <4>1. SUFFICES ASSUME createOutcomeUnknown(row[m]), m \in unknownAtBoot, m \notin unknownAtBoot'
                     PROVE  FALSE
        OBVIOUS
      <4>2. row'[m] = Settled(row[m])
        BY <3>1, <4>1 DEF PassEnds
      <4>3. Settled(row[m]).unknown = FALSE /\ Settled(row[m]).state # "requested"
        BY <3>1, <4>1 DEF Settled, TypeOK, Row
      <4> QED
        BY <3>1, <4>1, <4>2, <4>3 DEF createOutcomeUnknown
    <3> QED
      BY <1>3, <1>6, <3>1, <3>2, <3>3 DEF Attended, Retriable, Watched, MovedOn
  <2> QED
    BY <2>1 DEF NobodyLeftBehind, Attended
<1>12. PassKnows'
  BY <1>3 DEF PassKnows, NoPass
<1>13. NothingRuledOutWrongly'
  <2>1. CASE LateCreates
    BY <2>1 DEF NothingRuledOutWrongly
  <2>2. CASE ~LateCreates
    <3>1. ASSUME NEW m \in Node
          PROVE  RuledOutRightly(m)'
      <4>1. RuledOutRightly(m)
        BY <2>2 DEF NothingRuledOutWrongly
      <4>2. CASE row'[m] = row[m]
        BY <1>3, <4>1, <4>2
           DEF RuledOutRightly, Billing, Undecided, Counted, NoPass
      <4>3. CASE row'[m] # row[m]
        <5>1. m \notin Billing \cup Undecided
          BY <1>2, <1>3, <1>4, <1>5, <4>1, <4>3 DEF RuledOutRightly, Undecided
        <5> QED
          BY <1>3, <4>1, <5>1 DEF RuledOutRightly, Billing, Undecided, NoPass
      <4> QED
        BY <4>2, <4>3
    <3> QED
      BY <3>1 DEF NothingRuledOutWrongly
  <2> QED
    BY <2>1, <2>2
<1> QED
  BY <1>7, <1>8, <1>9, <1>10, <1>11, <1>12, <1>13

\* The app ends and is started again.
LEMMA RestartKeeps ==
  ASSUME RentalInv, Restart
  PROVE  RentalInv'
<1>1. /\ creating' = {} /\ goneAt' = {} /\ ssh' = {} /\ provisioned' = {}
      /\ restarts < MaxRestarts /\ restarts' = restarts + 1
      /\ unknownAtBoot' = {m \in Node : createOutcomeUnknown(row[m])}
      /\ look' = [m \in Node |-> NoLook]
      /\ check' = [m \in Node |-> "none"]
      /\ retrying' = None /\ pass' = NoPass
      /\ step' = [m \in Node |-> IF Resumed(row[m]) THEN [pc |-> "asking", held |-> row[m].state]
                                                     ELSE NoStep]
      /\ UNCHANGED <<row, vast>>
  BY DEF Restart, LeftUnknown
<1> USE DEF RentalInv
<1>2. LookingUp' = {}
  BY <1>1 DEF LookingUp, NoLook
<1>3. TypeOK'
  <2>1. \A m \in Node : row[m].state \in NodeStates
    BY DEF TypeOK, Row
  <2>2. NoStep \in [pc : StepPc, held : NodeStates]
    BY StatesExist DEF NoStep, StepPc
  <2>3. \A m \in Node : [pc |-> "asking", held |-> row[m].state] \in [pc : StepPc, held : NodeStates]
    BY <2>1 DEF StepPc
  <2>4. step' \in [Node -> [pc : StepPc, held : NodeStates]]
    BY <1>1, <2>2, <2>3
  <2>5. NoLook \in Look /\ NoPass \in Pass
    BY DEF NoLook, Look, NoPass, Pass
  <2>6. restarts' \in 0 .. MaxRestarts
    BY <1>1, RentalConstants DEF TypeOK
  <2>7. look' \in [Node -> Look] /\ pass' \in Pass
    BY <1>1, <2>5
  <2> QED
    BY <1>1, <2>4, <2>6, <2>7 DEF TypeOK, Look, Pass
<1>4. RowsMatchVast'
  BY <1>1 DEF RowsMatchVast, RowMatchesVast
<1>5. CreatesTracked'
  <2>1. ASSUME NEW m \in Node
        PROVE  CreateTracked(m)'
    BY <1>1, <1>2 DEF CreatesTracked, CreateTracked, NoLook, RowsMatchVast,
       RowMatchesVast, createOutcomeUnknown, TypeOK, Row
  <2> QED
    BY <2>1 DEF CreatesTracked
<1>6. HoldersKnown'
  <2>1. ASSUME NEW m \in Node
        PROVE  HolderKnown(m)'
    BY <1>1 DEF HoldersKnown, HolderKnown, Resumed, NoStep, MovedOn
  <2> QED
    BY <2>1 DEF HoldersKnown
<1>7. NobodyLeftBehind'
  <2>1. ASSUME NEW m \in Counted'
        PROVE  Attended(m)'
    BY <1>1, <2>1
       DEF Attended, Counted, holdsInstance, Retriable, Resumed, MovedOn, createOutcomeUnknown
  <2> QED
    BY <2>1 DEF NobodyLeftBehind, Attended
<1>8. PassKnows'
  BY <1>1 DEF PassKnows, NoPass
<1>9. NothingRuledOutWrongly'
  BY <1>1 DEF NothingRuledOutWrongly, RuledOutRightly, Billing, Undecided, Counted, NoPass, NoLook
<1> QED
  BY <1>3, <1>4, <1>5, <1>6, <1>7, <1>8, <1>9

-----------------------------------------------------------------------------
\* The invariant.

\* It holds before anything is rented.
LEMMA RentalInit == Init => RentalInv
<1> SUFFICES ASSUME Init PROVE RentalInv
  OBVIOUS
<1> USE DEF Init
<1>1. TypeOK
  <2>1. Absent \in Row /\ NoLook \in Look /\ NoPass \in Pass
    BY StatesExist DEF Absent, Row, NoLook, Look, NoPass, Pass
  <2>2. NoStep \in [pc : StepPc, held : NodeStates]
    BY StatesExist DEF NoStep, StepPc
  <2> QED
    BY <2>1, <2>2, RentalConstants DEF TypeOK, Look, Pass
<1>2. RowsMatchVast
  BY DEF RowsMatchVast, RowMatchesVast, Absent
<1>3. CreatesTracked
  BY DEF CreatesTracked, CreateTracked, LookingUp, NoLook
<1>4. HoldersKnown
  BY DEF HoldersKnown, HolderKnown, NoStep
<1>5. Counted = {}
  BY DEF Counted, holdsInstance, createOutcomeUnknown, Absent
<1>6. PassKnows
  BY DEF PassKnows, NoPass
<1>7. NothingRuledOutWrongly
  BY DEF NothingRuledOutWrongly, RuledOutRightly, Billing, Undecided, NoLook
<1> QED
  BY <1>1, <1>2, <1>3, <1>4, <1>5, <1>6, <1>7 DEF RentalInv, NobodyLeftBehind

\* The steps of a lifecycle step, by what they come to.
LEMMA StepsKeep ==
  ASSUME RentalInv, NEW n \in Node, Steps(n)
  PROVE  RentalInv'
<1> USE DEF At, StepPc
<1>1. CASE StepAbandons(n)
  BY <1>1, StepAbandonsKeeps
<1>2. CASE BootFails(n) \/ ResumeGivesUp(n) \/ RecoverGivesUp(n)
  <2>1. step[n].pc # "none" /\ StepDestroys(n, "failed")
    BY <1>2 DEF BootFails, ResumeGivesUp, RecoverGivesUp
  <2> QED
    BY <2>1, StepDestroysKeeps DEF DestroyStates
<1>3. CASE ResumeFindsNone(n) \/ RecoverLets(n) \/ ReprovisionFails(n)
  <2>1. step[n].pc # "none" /\ StepDestroys(n, "destroying")
    BY <1>3 DEF ResumeFindsNone, RecoverLets, ReprovisionFails
  <2> QED
    BY <2>1, StepDestroysKeeps DEF DestroyStates, Destroying
<1>4. CASE BootEnds(n) \/ ResumeEnds(n) \/ BackInService(n) \/ ReprovisionEnds(n)
  <2>1. step[n].pc \notin {"none", "asking", "polling"} /\ ~MovedOn(n)
    BY <1>4 DEF BootEnds, ResumeEnds, BackInService, ReprovisionEnds
  <2>2. \E s \in {"ready", "rendering"} : StepFinishes(n, s)
    BY <1>4 DEF BootEnds, ResumeEnds, BackInService, ReprovisionEnds
  <2> QED
    BY <2>1, <2>2, StepFinishesKeeps
<1>5. CASE BootConnects(n) \/ ResumeConnects(n) \/ ResumeLosesIt(n) \/ RestoreLosesIt(n)
  <2>1. row[n].inst
    BY <1>5 DEF BootConnects, ResumeConnects, ResumeLosesIt, RestoreLosesIt,
           RentalInv, HoldersKnown, HolderKnown
  <2>2. PICK s \in {"provisioning", "unreachable"}, pc \in {"booting", "resuming", "recovering"} :
          StepHolds(n, s, pc, TRUE)
    BY <1>5 DEF BootConnects, ResumeConnects, ResumeLosesIt, RestoreLosesIt
  <2> QED
    BY <2>1, <2>2, StepHoldsKeeps
<1>6. CASE ResumeWaits(n) \/ ResumeBoots(n)
  <2>1. step[n].pc = "asking" /\ row[n].inst /\ n \notin ssh
    BY <1>6 DEF ResumeWaits, ResumeBoots, RentalInv, HoldersKnown, HolderKnown
  <2>2. \/ StepHolds(n, "unreachable", "asking", FALSE)
        \/ StepHolds(n, "requested", "polling", FALSE)
    BY <1>6 DEF ResumeWaits, ResumeBoots
  <2> QED
    BY <2>1, <2>2, StepHoldsKeeps
<1>7. CASE NodeSilent(n) \/ AgentStale(n) \/ Reprovision(n)
  <2>1. row[n].inst
    BY <1>7 DEF NodeSilent, AgentStale, Reprovision, Watched, RentalInv, HoldersKnown, HolderKnown
  <2>2. PICK s \in {"provisioning", "unreachable"},
             pc \in {"recovering", "restoring", "reprovisioning"} : StepHolds(n, s, pc, TRUE)
    BY <1>7 DEF NodeSilent, AgentStale, Reprovision
  <2> QED
    BY <2>1, <2>2, StepHoldsKeeps
<1>8. CASE Dispatch(n) \/ Idles(n)
  BY <1>8, WorksKeeps
<1> QED
  BY <1>1, <1>2, <1>3, <1>4, <1>5, <1>6, <1>7, <1>8 DEF Steps

\* The invariant is inductive.
LEMMA RentalNext == RentalInv /\ [Next]_vars => RentalInv'
<1> SUFFICES ASSUME RentalInv, [Next]_vars PROVE RentalInv'
  OBVIOUS
<1>1. ASSUME NEW n \in Node, Renting(n)
      PROVE  RentalInv'
  BY <1>1, RentKeeps, CreateAnsweredKeeps, CreateRefusedKeeps, CreateUnansweredKeeps,
     WindowEndsKeeps, LookupAsksKeeps, LookupListedKeeps, LookupUnansweredKeeps,
     LookupFindsKeeps, LookupMissesKeeps DEF Renting
<1>2. ASSUME NEW n \in Node, Destroys(n)
      PROVE  RentalInv'
  BY <1>2, DeleteAcceptedKeeps, InstanceGoneKeeps, CheckRetriesKeeps, CheckGivesUpKeeps,
     StampAgesKeeps, RetryDestroysKeeps, DestroyNodeKeeps DEF Destroys
<1>3. CASE ClearFailed \/ PassAsks \/ PassListed \/ PassUnanswered \/ PassEnds \/ Restart
  BY <1>3, ClearFailedKeeps, PassAsksKeeps, PassListedKeeps, PassUnansweredKeeps, PassEndsKeeps,
     RestartKeeps
<1>4. CASE UNCHANGED vars
  BY <1>4 DEF vars, memory, RentalInv, TypeOK, RowsMatchVast, RowMatchesVast, CreatesTracked,
         CreateTracked, LookingUp, HoldersKnown, HolderKnown, MovedOn, NobodyLeftBehind, Counted,
         Retriable, Watched, PassKnows, NothingRuledOutWrongly, RuledOutRightly, Billing, Undecided
<1> QED
  BY <1>1, <1>2, <1>3, <1>4, VastActsKeeps, StepsKeep, PassClaimsKeeps DEF Next

\* It holds in every reachable state.
LEMMA RentalInvAlways == Spec => []RentalInv
  BY RentalInit, RentalNext, PTL DEF Spec

-----------------------------------------------------------------------------
\* TypeOK: the variables keep their types, however the node's steps, the lookups,
\* the destroys, the reconcile and restarts interleave.
THEOREM RentalTypes == Spec => []TypeOK
<1>1. RentalInv => TypeOK
  BY DEF RentalInv
<1> QED
  BY <1>1, RentalInvAlways, PTL

\* NobodyLeftBehind: every node counted against the caps has somebody at work on
\* it, with any number of nodes and restarts, and even when Vast carries a create
\* out after the app has ruled it out (nodeManager.ts).
THEOREM NobodyIsLeftBehind == Spec => []NobodyLeftBehind
<1>1. RentalInv => NobodyLeftBehind
  BY DEF RentalInv
<1> QED
  BY <1>1, RentalInvAlways, PTL

\* SetUpBeforeWork: a node the scheduler may send a chunk to was set up in this
\* session (nodeManager.ts onReady before the node is ready, and resumeNode).
THEOREM WorkOnlyAfterSetUp == Spec => []SetUpBeforeWork
<1>1. RentalInv => SetUpBeforeWork
  BY DEF RentalInv, HoldersKnown, HolderKnown, SetUpBeforeWork, Dispatchable
<1> QED
  BY <1>1, RentalInvAlways, PTL

\* BillingIsCounted: when Vast decides every create before the app stops looking
\* for it, no instance bills without its row being counted (nodeState.ts
\* holdsInstance), through lost replies, cancelled creates and restarts.
THEOREM BillingAlwaysCounted == ~LateCreates => (Spec => []BillingIsCounted)
<1> SUFFICES ASSUME ~LateCreates PROVE Spec => []BillingIsCounted
  OBVIOUS
<1>1. RentalInv => BillingIsCounted
  BY DEF RentalInv, NothingRuledOutWrongly, RuledOutRightly, BillingIsCounted, Billing, Undecided
<1> QED
  BY <1>1, RentalInvAlways, PTL

-----------------------------------------------------------------------------
\* What a step may do to a row, and to the step that holds a node.

\* Actions of one node leave the rows of the others alone.
LEMMA OneRow ==
  ASSUME RentalInv, NEW n \in Node,
         Renting(n) \/ Destroys(n) \/ Steps(n) \/ PassClaims(n),
         NEW m \in Node \ {n}
  PROVE  row'[m] = row[m]
<1> USE DEF RentalInv, TypeOK, SetState
<1>1. CASE Renting(n)
  BY <1>1 DEF Renting, Rent, CreateAnswered, CreateRefused, CreateUnanswered, WindowEnds,
         LookupAsks, LookupListed, LookupUnanswered, LookupFinds, LookupMisses
<1>2. CASE Destroys(n)
  BY <1>2 DEF Destroys, DeleteAccepted, InstanceGone, CheckRetries, CheckGivesUp, StampAges,
         RetryDestroys, DestroyNode
<1>3. CASE Steps(n)
  BY <1>3 DEF Steps, StepAbandons, BootConnects, BootEnds, BootFails, ResumeWaits,
         ResumeFindsNone, ResumeBoots, ResumeConnects, ResumeEnds, ResumeGivesUp, ResumeLosesIt,
         NodeSilent, AgentStale, BackInService, RecoverLets, RecoverGivesUp, RestoreLosesIt,
         Reprovision, ReprovisionEnds, ReprovisionFails, Dispatch, Idles,
         StepHolds, StepFinishes, StepDestroys
<1>4. CASE PassClaims(n)
  BY <1>4 DEF PassClaims
<1> QED
  BY <1>1, <1>2, <1>3, <1>4

\* A node on its way out stays on it, and a stamp stays.
Lasts(m) ==
    /\ row[m].state \in DestroyStates => row'[m].state \in DestroyStates
    /\ row[m].gone # "no" => row'[m].gone # "no"

\* Renting and looking for a lost create.
LEMMA RentingLasts ==
  ASSUME RentalInv, NEW n \in Node, Renting(n)
  PROVE  Lasts(n)
<1> USE DEF Lasts
<1>1. CASE Rent(n)
  BY <1>1 DEF Rent, Absent, DestroyStates, Destroying
<1>2. CASE CreateAnswered(n)
  BY <1>2, CreateAnsweredRow DEF RentalInv, RowBecomes
<1>3. CASE CreateRefused(n)
  BY <1>3, CreateRefusedRow DEF RentalInv, RowBecomes, IsGone, DestroyStates
<1>4. CASE CreateUnanswered(n)
  <2>1. PICK s \in {"destroying", row[n].state} : SetState(n, s)
    BY <1>4 DEF CreateUnanswered
  <2>2. s \in NodeStates
    BY StatesExist DEF RentalInv, TypeOK, Row, DestroyStates, Destroying
  <2> QED
    BY <2>1, <2>2, StateSet DEF RentalInv, RowBecomes, DestroyStates, Destroying
<1>5. CASE LookupFinds(n)
  <2>1. row[n].gone = "no"
    BY <1>5 DEF LookupFinds, LookingUp, RentalInv, CreatesTracked, CreateTracked,
           RowsMatchVast, RowMatchesVast
  <2> QED
    BY <1>5, <2>1, LookupFindsRow DEF RentalInv, RowBecomes
<1>6. CASE LookupMisses(n)
  <2>1. CASE Settles(look[n])
    BY <1>6, <2>1, LookupMissesRow DEF RentalInv, RowBecomes, DestroyStates, Destroying
  <2>2. CASE ~Settles(look[n])
    BY <1>6, <2>2 DEF LookupMisses
  <2> QED
    BY <2>1, <2>2
<1>7. CASE WindowEnds(n) \/ LookupAsks(n) \/ LookupListed(n) \/ LookupUnanswered(n)
  BY <1>7 DEF WindowEnds, LookupAsks, LookupListed, LookupUnanswered
<1> QED
  BY <1>1, <1>2, <1>3, <1>4, <1>5, <1>6, <1>7 DEF Renting

\* Destroys, retries and their confirmation.
LEMMA DestroysLast ==
  ASSUME RentalInv, NEW n \in Node, Destroys(n)
  PROVE  Lasts(n)
<1> USE DEF Lasts
<1>1. CASE row' = row
  BY <1>1
<1>2. CASE InstanceGone(n) /\ HoldsIt(n)
  BY <1>2, InstanceGoneRow DEF RentalInv, RowBecomes, DestroyStates, Destroying
<1>3. CASE StampAges(n)
  BY <1>3, StampAgesRow DEF RentalInv, RowBecomes
<1>4. CASE (CheckGivesUp(n) /\ HoldsIt(n)) \/ DestroyNode(n)
  <2>1. PICK s \in DestroyStates : SetState(n, s)
    BY <1>4 DEF CheckGivesUp, DestroyNode, SetState, DestroyStates, Destroying
  <2> QED
    BY <2>1, StateSet, StatesExist DEF RentalInv, RowBecomes
<1> QED
  BY <1>1, <1>2, <1>3, <1>4
     DEF Destroys, DeleteAccepted, InstanceGone, CheckRetries, CheckGivesUp, RetryDestroys

\* The steps of a node's life, which stop once it is on its way out.
LEMMA StepsLast ==
  ASSUME RentalInv, NEW n \in Node, Steps(n)
  PROVE  Lasts(n)
<1> USE DEF Lasts
<1>1. CASE StepAbandons(n)
  BY <1>1 DEF StepAbandons
<1>2. CASE \E s \in DestroyStates : StepDestroys(n, s)
  BY <1>2, StateSet, StatesExist DEF RentalInv, RowBecomes, StepDestroys
<1>3. CASE /\ row[n].state \notin DestroyStates
           /\ \E s \in NodeStates : SetState(n, s)
  BY <1>3, StateSet DEF RentalInv, RowBecomes
<1>4. step[n].pc # "none" /\ ~MovedOn(n) => row[n].state \notin DestroyStates
  BY DEF RentalInv, HoldersKnown, HolderKnown, MovedOn
<1>5. row[n].state \in Supervised => row[n].state \notin DestroyStates
  BY DEF Supervised, DestroyStates, Destroying
<1> QED
  BY <1>1, <1>2, <1>3, <1>4, <1>5, StatesExist
     DEF Steps, At, BootConnects, BootEnds, BootFails, ResumeWaits,
         ResumeFindsNone, ResumeBoots, ResumeConnects, ResumeEnds, ResumeGivesUp, ResumeLosesIt,
         NodeSilent, AgentStale, BackInService, RecoverLets, RecoverGivesUp, RestoreLosesIt,
         Reprovision, ReprovisionEnds, ReprovisionFails, Dispatch, Idles, Dispatchable, Watched,
         StepHolds, StepFinishes, Supervised, DestroyStates, Destroying

\* Every action, and every node.
LEMMA RowsLast ==
  ASSUME RentalInv, [Next]_vars, NEW m \in Node
  PROVE  Lasts(m)
<1>1. ASSUME NEW n \in Node, Renting(n) \/ Destroys(n) \/ Steps(n) \/ PassClaims(n)
      PROVE  Lasts(m)
  <2>1. CASE m # n
    BY <1>1, <2>1, OneRow DEF Lasts
  <2>2. CASE m = n /\ PassClaims(n)
    <3>1. row[n].gone = "no"
      BY <2>2 DEF PassClaims, Orphan, Spared, HeldInstances, RentalInv, PassKnows,
             RowsMatchVast, RowMatchesVast
    <3> QED
      BY <2>2, <3>1, PassClaimsRow DEF RentalInv, RowBecomes, Lasts
  <2> QED
    BY <1>1, <2>1, <2>2, RentingLasts, DestroysLast, StepsLast
<1>2. CASE ClearFailed
  BY <1>2, ClearFailedRows
     DEF RentalInv, RowsAgreeButForState, Lasts, DestroyStates, Destroying
<1>3. CASE PassEnds
  BY <1>3, PassEndsRows DEF RentalInv, Lasts, DestroyStates, Destroying
<1>4. CASE row' = row
  BY <1>4 DEF Lasts
<1> QED
  BY <1>1, <1>2, <1>3, <1>4
     DEF Next, vars, VastActs, CarriesOut, Refuses, Ages, Vanishes, PassAsks, PassListed,
         PassUnanswered, Restart

\* DestroyedStays: a node the app wants gone never comes back into the fleet
\* (nodeManager.ts movedOn, gone; DESTROY_STATES), and a destroyed_at stamp is
\* never taken back (claim).
THEOREM DestroyedNodesStay == Spec => DestroyedStays
<1>1. RentalInv /\ [Next]_vars =>
        \A n \in Node :
          /\ row[n].state \in DestroyStates => row'[n].state \in DestroyStates
          /\ row[n].gone # "no" => row'[n].gone # "no"
  BY RowsLast DEF Lasts
<1> QED
  BY <1>1, RentalInvAlways, PTL DEF Spec, DestroyedStays

-----------------------------------------------------------------------------
\* What is counted, what may yet bill, and what bills, step by step.

\* Whether a node is counted is read off its row.
LEMMA CountedByRow ==
  \A m \in Node : row'[m] = row[m] => (m \in Counted' <=> m \in Counted)
  BY DEF Counted

\* Cardinality, as FleetBilling has it.
LEMMA FleetCardinality == \A S : Fleet!Cardinality(S) = Cardinality(S)
  BY DEF Fleet!Cardinality, Cardinality

\* All three are sets of nodes.
LEMMA FleetTypes ==
  ASSUME RentalInv
  PROVE  Counted \subseteq Node /\ Billing \subseteq Node /\ Undecided \subseteq Node
  BY DEF Counted, Billing, Undecided

\* With Vast's side as it was, at most one node is counted anew.
LEMMA RowsFleet ==
  ASSUME ~LateCreates, RentalInv, RentalInv', vast' = vast,
         Counted' \subseteq Counted \/ \E n \in Node : Counted' \in {Counted, Counted \cup {n}, Counted \ {n}}
  PROVE  [Fleet!Next]_(Fleet!fleetVars)
<1>1. Billing' = Billing /\ Undecided' = Undecided
  BY DEF Billing, Undecided
<1>2. CASE Counted' \subseteq Counted
  <2>1. /\ Counted \ Counted' \in SUBSET Node
        /\ Counted \ Counted' \subseteq Counted \ (Undecided \cup Billing)
        /\ Counted' = Counted \ (Counted \ Counted')
    BY <1>1, <1>2, FleetTypes
       DEF RentalInv, NothingRuledOutWrongly, RuledOutRightly, Billing, Undecided
  <2>2. Fleet!Uncount(Counted \ Counted')
    BY <1>1, <2>1 DEF Fleet!Uncount
  <2> QED
    BY <2>1, <2>2 DEF Fleet!Next
<1>3. CASE \E n \in Node : Counted' = Counted \cup {n}
  BY <1>1, <1>3 DEF Fleet!Next, Fleet!Recount
<1> QED
  BY <1>2, <1>3

\* What Vast does of its own, or at a DELETE.
LEMMA VastFleet ==
  ASSUME RentalInv, NEW n \in Node, VastActs(n) \/ DeleteAccepted(n)
  PROVE  [Fleet!Next]_(Fleet!fleetVars)
<1> USE DEF RentalInv, TypeOK
<1>1. row' = row
  BY DEF VastActs, CarriesOut, Refuses, Ages, Vanishes, DeleteAccepted
<1>2. Counted' = Counted
  BY <1>1 DEF Counted
<1>3. CASE CarriesOut(n)
  <2>1. n \in Undecided /\ Undecided' = Undecided \ {n} /\ Billing' = Billing \cup {n}
    BY <1>3 DEF CarriesOut, Billing, Undecided
  <2> QED
    BY <1>2, <2>1 DEF Fleet!Next, Fleet!Decide
<1>4. CASE Refuses(n)
  <2>1. n \in Undecided /\ Undecided' = Undecided \ {n} /\ Billing' = Billing
    BY <1>4 DEF Refuses, Billing, Undecided
  <2> QED
    BY <1>2, <2>1 DEF Fleet!Next, Fleet!Decide
<1>5. CASE Ages(n) \/ vast' = vast
  <2>1. Undecided' = Undecided /\ Billing' = Billing
    BY <1>5 DEF Ages, Billing, Undecided
  <2> QED
    BY <1>2, <2>1 DEF Fleet!fleetVars
<1>6. CASE n \in Billing /\ vast' = [vast EXCEPT ![n] = "gone"]
  <2>1. Undecided' = Undecided /\ Billing' = Billing \ {n}
    BY <1>6 DEF Billing, Undecided
  <2> QED
    BY <1>2, <2>1 DEF Fleet!Next, Fleet!StopBilling
<1>7. CASE DeleteAccepted(n)
  <2>1. PICK v \in {"gone", vast[n]} : vast' = [vast EXCEPT ![n] = v]
    BY <1>7 DEF DeleteAccepted
  <2>2. CASE v = "gone"
    BY <1>6, <1>7, <2>1, <2>2 DEF DeleteAccepted
  <2>3. CASE v = vast[n]
    <3>1. vast' = vast
      BY <2>1, <2>3
    <3> QED
      BY <1>5, <3>1
  <2> QED
    BY <2>2, <2>3
<1>8. CASE Vanishes(n)
  BY <1>6, <1>8 DEF Vanishes
<1> QED
  BY <1>3, <1>4, <1>5, <1>7, <1>8 DEF VastActs

\* A rental, under the cap.
LEMMA RentFleet ==
  ASSUME RentalInv, NEW n \in Node, Rent(n)
  PROVE  /\ n \notin Counted /\ Cardinality(Counted) < MaxActiveNodes
         /\ Counted' = Counted \cup {n}
         /\ Undecided' = Undecided \cup {n}
         /\ Billing' = Billing
<1> USE DEF RentalInv, TypeOK
<1>1. ~holdsInstance(row[n]) /\ Cardinality(Counted) < MaxActiveNodes /\ vast[n] = "none"
  BY DEF Rent, CapAllows, Absent, holdsInstance, createOutcomeUnknown, RowsMatchVast,
         RowMatchesVast
<1>2. row' = [row EXCEPT ![n] = [Absent EXCEPT !.state = "requested", !.unknown = TRUE]]
  BY DEF Rent
<1>3. holdsInstance(row'[n]) /\ \A m \in Node \ {n} : row'[m] = row[m]
  BY <1>2 DEF Absent, holdsInstance, createOutcomeUnknown
<1>4. vast'[n] = "asked" /\ \A m \in Node \ {n} : vast'[m] = vast[m]
  BY DEF Rent
<1>5. Counted' = Counted \cup {n} /\ n \notin Counted
  BY <1>1, <1>3 DEF Counted
<1>6. Undecided' = Undecided \cup {n} /\ Billing' = Billing
  BY <1>1, <1>4 DEF Undecided, Billing
<1> QED
  BY <1>1, <1>5, <1>6

\* Every action is a step of FleetBilling, or changes nothing it shows.
LEMMA FleetStep ==
  ASSUME ~LateCreates, RentalInv, RentalInv', [Next]_vars
  PROVE  [Fleet!Next]_(Fleet!fleetVars)
<1>1. ASSUME NEW n \in Node, Renting(n) \/ Destroys(n) \/ Steps(n) \/ PassClaims(n)
      PROVE  [Fleet!Next]_(Fleet!fleetVars)
  <2>1. CASE Rent(n)
    BY <2>1, RentFleet, FleetCardinality DEF Fleet!Next, Fleet!Rent
  <2>2. CASE DeleteAccepted(n)
    BY <2>2, VastFleet
  <2>3. CASE ~Rent(n) /\ ~DeleteAccepted(n)
    <3>1. vast' = vast
      BY <1>1, <2>3
         DEF Renting, CreateAnswered, CreateRefused, CreateUnanswered, WindowEnds, LookupAsks,
             LookupListed, LookupUnanswered, LookupFinds, LookupMisses, Destroys, InstanceGone,
             CheckRetries, CheckGivesUp, StampAges, RetryDestroys, DestroyNode, memory, Steps,
             StepAbandons, BootConnects, BootEnds, BootFails, ResumeWaits, ResumeFindsNone,
             ResumeBoots, ResumeConnects, ResumeEnds, ResumeGivesUp, ResumeLosesIt, NodeSilent,
             AgentStale, BackInService, RecoverLets, RecoverGivesUp, RestoreLosesIt, Reprovision,
             ReprovisionEnds, ReprovisionFails, Dispatch, Idles, StepHolds, StepFinishes,
             StepDestroys, stepOnly, PassClaims
    <3>2. \A m \in Node \ {n} : m \in Counted' <=> m \in Counted
      BY <1>1, OneRow, CountedByRow
    <3>3. Counted' \in {Counted, Counted \cup {n}, Counted \ {n}}
      BY <3>2 DEF Counted
    <3> QED
      BY <3>1, <3>3, RowsFleet
  <2> QED
    BY <2>1, <2>2, <2>3
<1>2. CASE ClearFailed
  <2>1. \A m \in Node : m \in Counted' => m \in Counted
    BY <1>2, ClearFailedRows DEF RentalInv, Counted, RowsAgreeButForState, holdsInstance,
       createOutcomeUnknown
  <2> QED
    BY <1>2, <2>1, RowsFleet DEF ClearFailed, Counted
<1>3. CASE PassEnds
  <2>1. \A m \in Node : m \in Counted' => m \in Counted
    BY <1>3, PassEndsRows DEF RentalInv, Counted, holdsInstance, createOutcomeUnknown
  <2> QED
    BY <1>3, <2>1, RowsFleet DEF PassEnds, Counted
<1>4. CASE row' = row /\ vast' = vast
  <2>1. Counted' \subseteq Counted
    BY <1>4 DEF Counted
  <2> QED
    BY <1>4, <2>1, RowsFleet
<1> QED
  BY <1>1, <1>2, <1>3, <1>4, VastFleet
     DEF Next, vars, PassAsks, PassListed, PassUnanswered, Restart

\* FleetIsCounted: the rows and Vast implement FleetBilling.  When Vast decides every
\* create before the app stops looking for it, only a rental under the cap adds to
\* what may bill, and a node is let drop only when it can cost nothing more.
THEOREM FleetImplemented == ~LateCreates => (Spec => FleetIsCounted)
<1> SUFFICES ASSUME ~LateCreates PROVE Spec => FleetIsCounted
  OBVIOUS
<1>1. Init => Fleet!Init
  BY DEF Init, Fleet!Init, Counted, Undecided, Billing, Absent, holdsInstance, createOutcomeUnknown
<1>2. RentalInv /\ RentalInv' /\ [Next]_vars => [Fleet!Next]_(Fleet!fleetVars)
  BY FleetStep
<1> QED
  BY <1>1, <1>2, RentalInvAlways, PTL DEF Spec, FleetIsCounted, Fleet!Spec

-----------------------------------------------------------------------------
\* The cap.

\* What bills or may yet bill is within the cap.
WithinCap == Cardinality(Billing \cup Undecided) <= MaxActiveNodes

\* Nothing bills at first.
LEMMA CapInit == Init => WithinCap
<1> SUFFICES ASSUME Init PROVE WithinCap
  OBVIOUS
<1>1. Billing \cup Undecided = {}
  BY DEF Init, Billing, Undecided
<1> QED
  BY <1>1, FS_EmptySet, RentalConstants DEF WithinCap

\* Only a rental adds to what may bill, and what may bill is counted.
LEMMA CapNext ==
  ASSUME ~LateCreates, RentalInv, RentalInv', WithinCap, [Next]_vars
  PROVE  WithinCap'
<1> DEFINE Owed == Billing \cup Undecided
<1>1. [Fleet!Next]_(Fleet!fleetVars)
  BY FleetStep
<1>2. /\ Owed \subseteq Node /\ Owed' \subseteq Node /\ Counted \subseteq Node
      /\ IsFiniteSet(Owed) /\ IsFiniteSet(Owed') /\ IsFiniteSet(Counted)
  BY RentalConstants, FS_Subset DEF Counted, Billing, Undecided
<1>3. Owed \subseteq Counted
  BY DEF RentalInv, NothingRuledOutWrongly, RuledOutRightly, Billing, Undecided
<1>4. CASE Owed' \subseteq Owed
  <2>1. Cardinality(Owed') <= Cardinality(Owed)
    BY <1>2, <1>4, FS_Subset
  <2>2. Cardinality(Owed') \in Nat /\ Cardinality(Owed) \in Nat
    BY <1>2, FS_CardinalityType
  <2> QED
    BY <2>1, <2>2, RentalConstants DEF WithinCap
<1>5. CASE \E n \in Node : Owed' = Owed \cup {n} /\ Cardinality(Counted) < MaxActiveNodes
  <2>1. PICK n \in Node : Owed' = Owed \cup {n} /\ Cardinality(Counted) < MaxActiveNodes
    BY <1>5
  <2>2. Cardinality(Owed) <= Cardinality(Counted)
    BY <1>2, <1>3, FS_Subset
  <2>3. Cardinality(Owed \cup {n}) = IF n \in Owed THEN Cardinality(Owed) ELSE Cardinality(Owed) + 1
    BY <1>2, FS_AddElement
  <2>4. Cardinality(Owed) \in Nat /\ Cardinality(Counted) \in Nat /\ Cardinality(Owed') \in Nat
    BY <1>2, FS_CardinalityType
  <2>5. Cardinality(Owed') = Cardinality(Owed \cup {n})
    BY <2>1
  <2>6. Cardinality(Owed') <= MaxActiveNodes
    <3> HIDE DEF Owed
    <3> QED
      BY <2>1, <2>2, <2>3, <2>4, <2>5, RentalConstants
  <2> QED
    BY <2>6 DEF WithinCap
<1>6. Owed' \subseteq Owed \/ \E n \in Node : Owed' = Owed \cup {n} /\ Cardinality(Counted) < MaxActiveNodes
  BY <1>1, FleetCardinality DEF Fleet!Next, Fleet!Rent, Fleet!Decide, Fleet!StopBilling, Fleet!Recount,
     Fleet!Uncount, Fleet!fleetVars
<1> QED
  BY <1>4, <1>5, <1>6

\* BillingWithinCap: when Vast decides every create before the app stops looking for
\* it, the profile never pays for more instances at a time than maxActiveNodes
\* (nodeManager.ts rentBatch), at any cap and across restarts.
THEOREM BillingStaysWithinCap == ~LateCreates => (Spec => []BillingWithinCap)
<1> SUFFICES ASSUME ~LateCreates PROVE Spec => []BillingWithinCap
  OBVIOUS
<1>1. WithinCap => BillingWithinCap
  <2> SUFFICES ASSUME WithinCap PROVE BillingWithinCap
    OBVIOUS
  <2>1. IsFiniteSet(Billing \cup Undecided) /\ IsFiniteSet(Billing)
    BY RentalConstants, FS_Subset DEF Billing, Undecided
  <2>2. Cardinality(Billing) <= Cardinality(Billing \cup Undecided)
    BY <2>1, FS_Subset
  <2>3. Cardinality(Billing) \in Nat /\ Cardinality(Billing \cup Undecided) \in Nat
    BY <2>1, FS_CardinalityType
  <2> QED
    BY <2>2, <2>3, RentalConstants DEF WithinCap, BillingWithinCap
<1>2. RentalInv /\ RentalInv' /\ WithinCap /\ [Next]_vars => WithinCap'
  BY CapNext
<1> QED
  BY <1>1, <1>2, CapInit, RentalInvAlways, PTL DEF Spec

-----------------------------------------------------------------------------
\* One step per node.

\* What one action does to the step that holds a node, when it is not a restart.
StepHandedOn(m) ==
    \/ step'[m] = step[m]
    \/ "none" \in {step[m].pc, step'[m].pc}
    \/ <<step[m].pc, step'[m].pc>> \in HandsOn

\* The next step takes the node, which none held, or was handed it.
LEMMA TakesHandsOn ==
  ASSUME TypeOK, NEW n \in Node, NEW s, NEW pc, Takes(n, s, pc),
         step[n].pc = "none" \/ <<step[n].pc, pc>> \in HandsOn,
         NEW m \in Node
  PROVE  StepHandedOn(m)
<1>1. CASE m = n
  <2>1. step'[n].pc = pc
    BY DEF Takes, TypeOK
  <2> QED
    BY <1>1, <2>1 DEF StepHandedOn
<1>2. CASE m # n
  BY <1>2 DEF Takes, TypeOK, StepHandedOn
<1> QED
  BY <1>1, <1>2

\* A step that ends holds no node.
LEMMA LetsGoHandsOn ==
  ASSUME TypeOK, NEW n \in Node, LetsGo(n), NEW m \in Node
  PROVE  StepHandedOn(m)
<1>1. CASE m = n
  <2>1. step'[n].pc = "none"
    BY DEF LetsGo, NoStep, TypeOK
  <2> QED
    BY <1>1, <2>1 DEF StepHandedOn
<1>2. CASE m # n
  BY <1>2 DEF LetsGo, TypeOK, StepHandedOn
<1> QED
  BY <1>1, <1>2

\* The steps of a node's life.
LEMMA StepsHandOn ==
  ASSUME RentalInv, NEW n \in Node, Steps(n), NEW m \in Node
  PROVE  StepHandedOn(m)
<1>1. TypeOK
  BY DEF RentalInv
<1>2. CASE LetsGo(n)
  BY <1>1, <1>2, LetsGoHandsOn
<1>3. CASE step' = step
  BY <1>3 DEF StepHandedOn
<1>4. CASE \E s \in NodeStates, pc \in StepPc :
             Takes(n, s, pc) /\ <<step[n].pc, pc>> \in HandsOn
  BY <1>1, <1>4, TakesHandsOn
<1>5. CASE NodeSilent(n) \/ AgentStale(n) \/ Reprovision(n)
  <2>1. step[n].pc = "none"
    BY <1>5 DEF NodeSilent, AgentStale, Reprovision, Watched, RentalInv, HoldersKnown,
           HolderKnown, DestroyStates, Destroying, Supervised
  <2>2. \E s \in NodeStates, pc \in StepPc : Takes(n, s, pc)
    BY <1>5, StatesExist DEF NodeSilent, AgentStale, Reprovision, StepHolds, StepPc
  <2> QED
    BY <1>1, <2>1, <2>2, TakesHandsOn
<1>6. CASE \/ BootConnects(n) \/ ResumeWaits(n) \/ ResumeBoots(n) \/ ResumeConnects(n)
           \/ ResumeLosesIt(n) \/ RestoreLosesIt(n)
  <2>1. \E s \in NodeStates, pc \in StepPc :
          Takes(n, s, pc) /\ <<step[n].pc, pc>> \in HandsOn
    BY <1>6, StatesExist
       DEF BootConnects, ResumeWaits, ResumeBoots, ResumeConnects, ResumeLosesIt, RestoreLosesIt,
           At, StepHolds, StepPc, HandsOn
  <2> QED
    BY <1>4, <2>1
<1> QED
  BY <1>2, <1>3, <1>5, <1>6
     DEF Steps, StepAbandons, BootEnds, BootFails, ResumeFindsNone, ResumeEnds, ResumeGivesUp,
         BackInService, RecoverLets, RecoverGivesUp, ReprovisionEnds, ReprovisionFails, Dispatch,
         Idles, StepFinishes, StepDestroys, memory

\* Every action but a restart.
LEMMA StepsOneByOne ==
  ASSUME RentalInv, [Next]_vars, restarts' = restarts, NEW m \in Node
  PROVE  StepHandedOn(m)
<1>1. CASE step' = step
  BY <1>1 DEF StepHandedOn
<1>2. ASSUME NEW n \in Node, CreateAnswered(n) \/ LookupFinds(n)
      PROVE  StepHandedOn(m)
  <2>1. step[n].pc = "none"
    BY <1>2 DEF CreateAnswered, LookupFinds, LookingUp, RentalInv, CreatesTracked,
           CreateTracked, HoldersKnown, HolderKnown
  <2>2. (\E s : Takes(n, s, "polling")) \/ step' = step
    BY <1>2 DEF CreateAnswered, LookupFinds
  <2> QED
    BY <1>1, <2>1, <2>2, TakesHandsOn DEF RentalInv
<1>3. ~Restart
  BY DEF Restart, RentalInv, TypeOK
<1> QED
  BY <1>1, <1>2, <1>3, StepsHandOn
     DEF Next, vars, memory, VastActs, CarriesOut, Refuses, Ages, Vanishes, Renting, Rent,
         CreateRefused, CreateUnanswered, WindowEnds, LookupAsks, LookupListed,
         LookupUnanswered, LookupMisses, Destroys, DeleteAccepted, InstanceGone, CheckRetries,
         CheckGivesUp, StampAges, RetryDestroys, DestroyNode, PassClaims, ClearFailed, PassAsks,
         PassListed, PassUnanswered, PassEnds

\* OneStepPerNode: two lifecycle steps never hold one node (nodeManager.ts movedOn,
\* and the guards of the supervisor and of a reprovision).
THEOREM OneStepHoldsANode == Spec => OneStepPerNode
<1>1. RentalInv /\ [Next]_vars =>
        (restarts' = restarts => \A n \in Node : StepHandedOn(n))
  BY StepsOneByOne
<1> QED
  BY <1>1, RentalInvAlways, PTL DEF Spec, OneStepPerNode, StepHandedOn
=============================================================================
