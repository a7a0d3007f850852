------------------------ MODULE AppLifecycle_proofs ------------------------
(* Theorems about AppLifecycle, for any fleet, any number of passes, rounds and
   signals: what the application's exit says and leaves billing. *)
EXTENDS AppLifecycle, TLAPS

SignalNames == {"SIGINT", "SIGTERM"}

StopRecord == [who : {"nobody", "unattended", "person"}, passes : Nat, allowed : Nat,
               code : {0, 1, 3}, round : 0..MaxRounds,
               at : {"nowhere", "rounds", "returned", "pause", "failure", "exited"}]

TypeInv ==
    /\ setup \in [headless : BOOLEAN, policy : {"destroy", "leave"}]
    /\ setup.headless \/ setup.policy = "destroy"
    /\ node \in [Nodes -> States] /\ halted \in BOOLEAN
    /\ phase \in {"idle", "asking", "destroying", "exiting"}
    /\ dialog \in {"none", "quit", "failure"}
    /\ stop \in StopRecord
    /\ settle \in [Nodes -> {"none", "turn", "create", "destroy", "done"}]
    /\ signals \in [by : SUBSET SignalNames, lately : BOOLEAN]
    /\ sent \in [SignalNames -> [times : Nat, again : BOOLEAN]]

(* Who stops the application, and who may still be asked. *)
StopInv ==
    /\ phase \in {"idle", "asking"} => stop = NoStop
    /\ phase = "asking" => ~Headless
    /\ phase = "destroying" =>
         /\ halted /\ stop.who \in {"unattended", "person"} /\ stop.code \in {0, 1}
         /\ stop.at \in {"rounds", "returned", "pause", "failure"}
         /\ stop.at = "failure" => stop.who = "person"
    /\ phase = "exiting" => stop.at = "exited"
    /\ stop.who = "person" => ~Headless
    /\ dialog = "quit" => ~Headless /\ stop.who # "person"
    /\ dialog = "failure" => phase = "destroying" /\ stop.at = "failure"

(* A node that no stop will find coming up: not wanted, or not there. *)
Settled(n) == node[n] \notin {"requested", "up"}

(* What a pass has done with the nodes it has been through. *)
PassInv ==
    phase = "destroying" =>
        /\ stop.at = "rounds" /\ stop.round = 0 => \A n \in Nodes : settle[n] = "none"
        /\ stop.at # "rounds" => \A n \in Nodes : settle[n] \in {"none", "done"}
        /\ \A n \in Nodes : settle[n] \in {"destroy", "done"} => Settled(n)
        /\ \A n \in Nodes : settle[n] = "none" /\ (stop.round # 0 \/ stop.at # "rounds") => Settled(n)

(* A signal that could end the stop early has been sent before. *)
SignalInv ==
    Alive =>
        /\ \A s \in SignalNames : sent[s].again \/ s \in signals.by => sent[s].times >= 1
        /\ \A s \in SignalNames : sent[s].again => setup.headless
        /\ signals.by # {} /\ ~signals.lately => \A s \in SignalNames : ~sent[s].again

(* The inductive invariant. *)
QuitInv == TypeInv /\ StopInv /\ PassInv /\ SignalInv /\ ExitCodeIsTrue /\ NothingLeftUnasked

-----------------------------------------------------------------------------
(* The leaving steps. *)

LEMMA FinishKeeps ==
    ASSUME QuitInv, Alive, NEW code \in {0, 1, 3}, Finish(code), UNCHANGED <<setup, node>>,
           dialog' \in {"none", "quit"}, dialog' = "quit" => dialog = "quit",
           signals' \in [by : SUBSET SignalNames, lately : BOOLEAN],
           sent' \in [SignalNames -> [times : Nat, again : BOOLEAN]],
           Headless \/ stop.who = "unattended" => (code = 3 <=> Billing # {}),
           Billing # {} => \/ Headless /\ setup.policy = "leave"
                           \/ told' # {}
                           \/ \E s \in SignalNames : sent'[s].times >= 2
                           \/ stop.who = "unattended" /\ stop.passes >= stop.allowed
    PROVE  QuitInv'
<1>1. /\ phase' = "exiting" /\ halted' = TRUE /\ settle' = Fresh
      /\ stop' = [stop EXCEPT !.code = code, !.at = "exited", !.round = 0]
  BY DEF Finish
<1>2. stop \in StopRecord /\ 0 \in 0..MaxRounds
  BY LifecycleAssumption DEF QuitInv, TypeInv
<1>3. /\ stop' \in StopRecord /\ stop'.who = stop.who /\ stop'.code = code
      /\ stop'.passes = stop.passes /\ stop'.allowed = stop.allowed /\ stop'.at = "exited"
  BY <1>1, <1>2 DEF StopRecord
<1>4. Billing' = Billing /\ Headless' = Headless
  BY DEF Billing, Holds, Headless
<1>5. TypeInv'
  BY <1>1, <1>3 DEF QuitInv, TypeInv, Fresh
<1>6. StopInv'
  BY <1>1, <1>3, <1>4 DEF QuitInv, StopInv
<1>7. PassInv' /\ SignalInv'
  BY <1>1 DEF PassInv, SignalInv, Alive
<1>8. ExitCodeIsTrue'
  BY <1>1, <1>3, <1>4 DEF ExitCodeIsTrue
<1>9. NothingLeftUnasked'
  <2>1. DOMAIN sent' = SignalNames
    OBVIOUS
  <2>. QED
    BY <1>1, <1>3, <1>4, <2>1 DEF NothingLeftUnasked
<1>. QED
  BY <1>5, <1>6, <1>7, <1>8, <1>9 DEF QuitInv

LEMMA BeginPassKeeps ==
    ASSUME QuitInv, Alive, NEW s \in StopRecord, s.who \in {"unattended", "person"},
           s.code \in {0, 1}, s.who = "person" => ~Headless,
           BeginPass(s), UNCHANGED <<setup, node>>,
           dialog' \in {"none", "quit"}, dialog' = "quit" => dialog = "quit" /\ s.who # "person",
           signals' \in [by : SUBSET SignalNames, lately : BOOLEAN],
           sent' \in [SignalNames -> [times : Nat, again : BOOLEAN]],
           SignalInv'
    PROVE  QuitInv'
<1>1. /\ phase' = "destroying" /\ halted' = TRUE /\ settle' = Fresh
      /\ stop' = [s EXCEPT !.passes = IF s.who = "person" THEN @ ELSE @ + 1,
                           !.at = "rounds", !.round = 0]
  BY DEF BeginPass
<1>2. 0 \in 0..MaxRounds
  BY LifecycleAssumption
<1>3. /\ stop' \in StopRecord /\ stop'.who = s.who /\ stop'.code = s.code
      /\ stop'.at = "rounds" /\ stop'.round = 0
  <2>. DEFINE p == IF s.who = "person" THEN s.passes ELSE s.passes + 1
  <2>1. s.passes \in Nat
    BY DEF StopRecord
  <2>2. p \in Nat
    BY <2>1
  <2>3. stop' = [s EXCEPT !.passes = p, !.at = "rounds", !.round = 0]
    BY <1>1
  <2>. HIDE DEF p
  <2>. QED
    BY <1>2, <2>2, <2>3 DEF StopRecord
<1>4. Headless' = Headless
  BY DEF Headless
<1>5. TypeInv'
  BY <1>1, <1>3 DEF QuitInv, TypeInv, Fresh
<1>6. StopInv'
  BY <1>1, <1>3, <1>4 DEF QuitInv, StopInv
<1>7. PassInv'
  <2>1. \A n \in Nodes : settle'[n] = "none"
    BY <1>1 DEF Fresh
  <2>. QED
    BY <1>3, <2>1 DEF PassInv
<1>8. ExitCodeIsTrue' /\ NothingLeftUnasked'
  BY <1>1 DEF ExitCodeIsTrue, NothingLeftUnasked
<1>. QED
  BY <1>5, <1>6, <1>7, <1>8 DEF QuitInv

LEMMA StopUnattendedKeeps ==
    ASSUME QuitInv, phase \in {"idle", "asking"},
           NEW policy \in {"destroy", "leave"}, policy = "leave" => Headless /\ setup.policy = "leave",
           NEW allowed \in Nat, NEW code \in {0, 1}, StopUnattended(policy, allowed, code),
           UNCHANGED <<setup, node, dialog, told>>,
           signals' \in [by : SUBSET SignalNames, lately : BOOLEAN],
           sent' \in [SignalNames -> [times : Nat, again : BOOLEAN]],
           phase' = "destroying" => SignalInv'
    PROVE  QuitInv'
<1>1. Alive /\ dialog' \in {"none", "quit"} /\ dialog \in {"none", "quit"}
  BY DEF Alive, QuitInv, StopInv, TypeInv
<1>2. CASE Billing = {} /\ Finish(code)
  BY <1>1, <1>2, FinishKeeps
<1>3. CASE Billing # {} /\ policy = "leave" /\ Finish(3)
  BY <1>1, <1>3, FinishKeeps
<1>4. CASE Billing # {} /\ policy = "destroy"
           /\ BeginPass([NoStop EXCEPT !.who = "unattended", !.allowed = allowed, !.code = code])
  <2>. DEFINE s == [NoStop EXCEPT !.who = "unattended", !.allowed = allowed, !.code = code]
  <2>1. s \in StopRecord /\ s.who = "unattended" /\ s.code = code
    <3>1. 0 \in 0..MaxRounds
      BY LifecycleAssumption
    <3>. QED
      BY <3>1 DEF NoStop, StopRecord
  <2>2. BeginPass(s)
    BY <1>4
  <2>. HIDE DEF s
  <2>3. phase' = "destroying"
    BY <2>2 DEF BeginPass
  <2>. QED
    BY <1>1, <2>1, <2>2, <2>3, BeginPassKeeps
<1>. QED
  BY <1>2, <1>3, <1>4 DEF StopUnattended

-----------------------------------------------------------------------------
(* The fleet. *)

LEMMA FleetKeeps ==
    ASSUME QuitInv, Alive, FleetOnly, NEW n \in Nodes, NEW s \in States, Becomes(n, s),
           halted /\ Settled(n) => s \notin {"requested", "up"}
    PROVE  QuitInv'
<1>1. node \in [Nodes -> States] /\ node' = [node EXCEPT ![n] = s]
  BY DEF QuitInv, TypeInv, Becomes
<1>2. TypeInv' /\ StopInv' /\ SignalInv'
  BY <1>1 DEF QuitInv, TypeInv, StopInv, SignalInv, FleetOnly, Alive, Headless
<1>3. PassInv'
  <2>1. phase = "destroying" => halted
    BY DEF QuitInv, StopInv
  <2>2. \A m \in Nodes : halted /\ Settled(m) => Settled(m)'
    BY <1>1 DEF Settled
  <2>. QED
    BY <2>1, <2>2 DEF QuitInv, PassInv, FleetOnly
<1>4. ExitCodeIsTrue' /\ NothingLeftUnasked'
  BY DEF Alive, FleetOnly, ExitCodeIsTrue, NothingLeftUnasked
<1>. QED
  BY <1>2, <1>3, <1>4 DEF QuitInv

LEMMA FleetSteps ==
    ASSUME QuitInv, NEW n \in Nodes,
           Rent(n) \/ CreateSettles(n) \/ DestroyedElsewhere(n) \/ Confirmed(n)
    PROVE  QuitInv'
<1>0. {"requested", "unwanted", "up", "dying", "gone"} \subseteq States
  BY DEF States
<1>1. CASE Rent(n)
  BY <1>0, <1>1, FleetKeeps DEF Rent
<1>2. CASE CreateSettles(n)
  BY <1>0, <1>2, FleetKeeps DEF CreateSettles, Settled
<1>3. CASE DestroyedElsewhere(n)
  BY <1>0, <1>3, FleetKeeps DEF DestroyedElsewhere
<1>4. CASE Confirmed(n)
  BY <1>0, <1>4, FleetKeeps DEF Confirmed
<1>. QED
  BY <1>1, <1>2, <1>3, <1>4

-----------------------------------------------------------------------------
(* A pass over the fleet. *)

(* A step of a pass that leaves the stop where it is: one node is settled further. *)
LEMMA SettleKeeps ==
    ASSUME QuitInv, phase = "destroying", NEW n \in Nodes, settle[n] \in {"turn", "create", "destroy"},
           NEW w \in {"create", "destroy", "done"}, settle' = [settle EXCEPT ![n] = w],
           NEW s \in States, node' = [node EXCEPT ![n] = s],
           node[n] \notin {"requested", "up"} => s \notin {"requested", "up"},
           w \in {"destroy", "done"} => s \notin {"requested", "up"},
           UNCHANGED <<setup, halted, phase, dialog, stop, signals, sent, told>>
    PROVE  QuitInv'
<1>1. /\ node \in [Nodes -> States] /\ stop.at = "rounds"
      /\ settle \in [Nodes -> {"none", "turn", "create", "destroy", "done"}]
  BY DEF QuitInv, TypeInv, PassInv, StopInv
<1>2. TypeInv' /\ StopInv' /\ SignalInv'
  BY <1>1 DEF QuitInv, TypeInv, StopInv, SignalInv, Alive, Headless
<1>3. PassInv'
  <2>1. \A m \in Nodes : Settled(m) => Settled(m)'
    BY <1>1 DEF Settled
  <2>2. settle'[n] = w /\ \A m \in Nodes : m # n => settle'[m] = settle[m]
    BY <1>1
  <2>3. w \in {"destroy", "done"} => Settled(n)'
    BY <1>1 DEF Settled
  <2>4. stop.round # 0
    BY <1>1 DEF QuitInv, PassInv
  <2>. QED
    BY <1>1, <2>1, <2>2, <2>3, <2>4 DEF QuitInv, PassInv
<1>4. ExitCodeIsTrue' /\ NothingLeftUnasked'
  BY DEF ExitCodeIsTrue, NothingLeftUnasked
<1>. QED
  BY <1>2, <1>3, <1>4 DEF QuitInv

LEMMA SettlesKeeps ==
    ASSUME QuitInv, phase = "destroying", NEW n \in Nodes, settle[n] \in {"turn", "create"},
           Settles(n), UNCHANGED <<setup, halted, phase, dialog, stop, signals, sent, told>>
    PROVE  QuitInv'
<1>0. node \in [Nodes -> States] /\ node[n] \in States /\ {"unwanted", "dying"} \subseteq States
  BY DEF QuitInv, TypeInv, States
<1>1. node' = node => node' = [node EXCEPT ![n] = node[n]]
  BY <1>0
<1>2. CASE ~Holds(n) /\ settle' = [settle EXCEPT ![n] = "done"] /\ UNCHANGED node
  BY <1>0, <1>1, <1>2, SettleKeeps DEF Holds
<1>3. CASE /\ node[n] \in {"requested", "lost", "unwanted"}
           /\ settle' = [settle EXCEPT ![n] = "done"]
           /\ IF node[n] = "requested" THEN Becomes(n, "unwanted") ELSE UNCHANGED node
  <2>1. CASE node[n] = "requested"
    BY <1>0, <1>3, <2>1, SettleKeeps DEF Becomes
  <2>2. CASE node[n] # "requested"
    BY <1>0, <1>1, <1>3, <2>2, SettleKeeps
  <2>. QED
    BY <2>1, <2>2
<1>4. CASE /\ node[n] \in {"up", "dying"} /\ settle' = [settle EXCEPT ![n] = "destroy"]
           /\ Becomes(n, "dying")
  BY <1>0, <1>4, SettleKeeps DEF Becomes
<1>. QED
  BY <1>2, <1>3, <1>4 DEF Settles

LEMMA NodeSteps ==
    ASSUME QuitInv, NEW n \in Nodes, Turn(n) \/ CreateWaited(n) \/ BudgetEnds(n)
    PROVE  QuitInv'
<1>0. node \in [Nodes -> States] /\ node[n] \in States
  BY DEF QuitInv, TypeInv
<1>1. node' = node => node' = [node EXCEPT ![n] = node[n]]
  BY <1>0
<1>2. CASE Turn(n)
  <2>1. CASE CreateOpen(n)
    BY <1>0, <1>1, <1>2, <2>1, SettleKeeps DEF Turn, rest
  <2>2. CASE ~CreateOpen(n)
    BY <1>2, <2>2, SettlesKeeps DEF Turn, rest
  <2>. QED
    BY <2>1, <2>2
<1>3. CASE CreateWaited(n)
  BY <1>3, SettlesKeeps DEF CreateWaited, rest
<1>4. CASE BudgetEnds(n)
  <2>1. Settled(n)
    BY <1>4 DEF BudgetEnds, QuitInv, PassInv
  <2>. QED
    BY <1>0, <1>1, <1>4, <2>1, SettleKeeps DEF BudgetEnds, Settled, rest
<1>. QED
  BY <1>2, <1>3, <1>4

LEMMA RoundKeeps ==
    ASSUME QuitInv, Round
    PROVE  QuitInv'
<1>. DEFINE untried == {n \in Billing : settle[n] = "none"}
<1>1. /\ phase = "destroying" /\ stop.at = "rounds" /\ Settling = {}
      /\ UNCHANGED <<node, halted, phase, dialog, signals, told, setup, sent, doneBefore>>
  BY DEF Round, rest
<1>2. /\ stop \in StopRecord /\ node \in [Nodes -> States]
      /\ settle \in [Nodes -> {"none", "turn", "create", "destroy", "done"}]
  BY DEF QuitInv, TypeInv
<1>3. \A n \in Nodes : settle[n] \in {"none", "done"}
  BY <1>1, <1>2 DEF Settling
<1>4. ExitCodeIsTrue' /\ NothingLeftUnasked'
  BY <1>1 DEF ExitCodeIsTrue, NothingLeftUnasked
<1>5. CASE stop.round < MaxRounds /\ untried # {}
  <2>1. /\ settle' = [n \in Nodes |-> IF n \in untried THEN "turn" ELSE settle[n]]
        /\ stop' = [stop EXCEPT !.round = @ + 1]
    BY <1>5 DEF Round
  <2>2. stop.round \in 0..MaxRounds /\ MaxRounds \in Nat
    BY <1>2, LifecycleAssumption DEF StopRecord
  <2>. DEFINE next == stop.round + 1
  <2>3. next \in 0..MaxRounds /\ next # 0
    BY <1>5, <2>2
  <2>4. stop' = [stop EXCEPT !.round = next]
    BY <2>1
  <2>. HIDE DEF next
  <2>5. /\ stop' \in StopRecord /\ stop'.who = stop.who /\ stop'.code = stop.code
        /\ stop'.at = "rounds" /\ stop'.round # 0
    BY <1>1, <1>2, <2>3, <2>4 DEF StopRecord
  <2>6. TypeInv'
    BY <1>1, <1>2, <2>1, <2>5 DEF QuitInv, TypeInv
  <2>7. StopInv'
    BY <1>1, <2>5 DEF QuitInv, StopInv, Headless
  <2>8. PassInv'
    <3>1. \A n \in Nodes : settle'[n] = "none" => settle[n] = "none" /\ ~Holds(n)
      BY <2>1 DEF Billing
    <3>2. \A n \in Nodes : settle'[n] \in {"destroy", "done"} => settle[n] \in {"destroy", "done"}
      BY <2>1
    <3>3. \A n \in Nodes : ~Holds(n) => Settled(n)'
      BY <1>1 DEF Holds, Settled
    <3>4. \A n \in Nodes : Settled(n) => Settled(n)'
      BY <1>1 DEF Settled
    <3>. QED
      BY <1>1, <2>5, <3>1, <3>2, <3>3, <3>4 DEF QuitInv, PassInv
  <2>9. SignalInv'
    BY <1>1 DEF QuitInv, SignalInv, Alive
  <2>. QED
    BY <1>4, <2>6, <2>7, <2>8, <2>9 DEF QuitInv
<1>6. CASE ~(stop.round < MaxRounds /\ untried # {})
  <2>1. stop' = [stop EXCEPT !.at = "returned"] /\ settle' = settle
    BY <1>6 DEF Round
  <2>2. /\ stop' \in StopRecord /\ stop'.who = stop.who /\ stop'.code = stop.code
        /\ stop'.at = "returned" /\ stop'.round = stop.round
    BY <1>2, <2>1 DEF StopRecord
  <2>3. TypeInv'
    BY <1>1, <1>2, <2>1, <2>2 DEF QuitInv, TypeInv
  <2>4. StopInv'
    BY <1>1, <2>2 DEF QuitInv, StopInv, Headless
  <2>5. ASSUME NEW n \in Nodes, settle[n] = "none"
        PROVE  Settled(n)
    <3>1. CASE stop.round # 0
      BY <1>1, <2>5, <3>1 DEF QuitInv, PassInv
    <3>2. CASE untried = {}
      BY <2>5, <3>2 DEF Billing, Holds, Settled
    <3>3. stop.round = 0 => stop.round < MaxRounds
      BY LifecycleAssumption
    <3>. QED
      BY <1>6, <3>1, <3>2, <3>3
  <2>6. PassInv'
    <3>1. \A n \in Nodes : Settled(n)' <=> Settled(n)
      BY <1>1 DEF Settled
    <3>. QED
      BY <1>1, <1>3, <2>1, <2>2, <2>5, <3>1 DEF QuitInv, PassInv
  <2>7. SignalInv'
    BY <1>1 DEF QuitInv, SignalInv, Alive
  <2>. QED
    BY <1>4, <2>3, <2>4, <2>6, <2>7 DEF QuitInv
<1>. QED
  BY <1>5, <1>6

(* The stop moves on from the pass that has returned. *)
LEMMA ReturnedKeeps ==
    ASSUME QuitInv, phase = "destroying", stop.at = "returned",
           NEW at \in {"pause", "failure"}, stop' = [stop EXCEPT !.at = at],
           at = "failure" => stop.who = "person" /\ dialog' = "failure",
           at = "pause" => dialog' = dialog,
           UNCHANGED <<setup, node, halted, phase, settle, signals, sent, told>>
    PROVE  QuitInv'
<1>1. stop \in StopRecord
  BY DEF QuitInv, TypeInv
<1>2. /\ stop' \in StopRecord /\ stop'.who = stop.who /\ stop'.code = stop.code
      /\ stop'.at = at
  BY <1>1 DEF StopRecord
<1>3. dialog # "failure"
  BY DEF QuitInv, StopInv
<1>4. TypeInv'
  BY <1>2 DEF QuitInv, TypeInv
<1>5. StopInv'
  BY <1>2, <1>3 DEF QuitInv, StopInv, Headless
<1>6. PassInv'
  <2>1. \A n \in Nodes : Settled(n)' <=> Settled(n)
    BY DEF Settled
  <2>. QED
    BY <1>2, <2>1 DEF QuitInv, PassInv
<1>7. SignalInv' /\ ExitCodeIsTrue' /\ NothingLeftUnasked'
  BY DEF QuitInv, SignalInv, Alive, ExitCodeIsTrue, NothingLeftUnasked
<1>. QED
  BY <1>4, <1>5, <1>6, <1>7 DEF QuitInv

LEMMA LastLookKeeps ==
    ASSUME QuitInv, LastLook
    PROVE  QuitInv'
<1>1. /\ phase = "destroying" /\ stop.at = "returned" /\ Alive
      /\ UNCHANGED <<node, signals, told, setup, sent, doneBefore>>
  BY DEF LastLook, rest, Alive
<1>2. /\ stop.code \in {0, 1} /\ dialog \in {"none", "quit"}
      /\ signals \in [by : SUBSET SignalNames, lately : BOOLEAN]
      /\ sent \in [SignalNames -> [times : Nat, again : BOOLEAN]]
      /\ stop.who = "person" => ~Headless
  BY <1>1 DEF QuitInv, StopInv, TypeInv
<1>3. CASE Billing = {} /\ Finish(stop.code) /\ UNCHANGED dialog
  BY <1>1, <1>2, <1>3, FinishKeeps
<1>4. CASE /\ Billing # {} /\ stop.who = "unattended" /\ stop.passes >= stop.allowed
           /\ Finish(3) /\ UNCHANGED dialog
  BY <1>1, <1>2, <1>4, FinishKeeps
<1>5. CASE /\ Billing # {} /\ stop.who = "unattended" /\ stop.passes < stop.allowed
           /\ stop' = [stop EXCEPT !.at = "pause"]
           /\ UNCHANGED <<halted, phase, dialog, settle>>
  BY <1>1, <1>5, ReturnedKeeps
<1>6. CASE /\ Billing # {} /\ stop.who = "person"
           /\ stop' = [stop EXCEPT !.at = "failure"] /\ dialog' = "failure"
           /\ UNCHANGED <<halted, phase, settle>>
  BY <1>1, <1>6, ReturnedKeeps
<1>. QED
  BY <1>3, <1>4, <1>5, <1>6 DEF LastLook

LEMMA NextPassKeeps ==
    ASSUME QuitInv, NextPass
    PROVE  QuitInv'
<1>1. /\ phase = "destroying" /\ stop.at = "pause" /\ BeginPass(stop) /\ Alive
      /\ UNCHANGED <<node, dialog, signals, told, setup, sent, doneBefore>>
  BY DEF NextPass, rest, Alive
<1>2. /\ stop \in StopRecord /\ stop.who \in {"unattended", "person"} /\ stop.code \in {0, 1}
      /\ stop.who = "person" => ~Headless
      /\ dialog \in {"none", "quit"} /\ (dialog = "quit" => stop.who # "person")
      /\ signals \in [by : SUBSET SignalNames, lately : BOOLEAN]
      /\ sent \in [SignalNames -> [times : Nat, again : BOOLEAN]]
  BY <1>1 DEF QuitInv, StopInv, TypeInv
<1>3. SignalInv'
  BY <1>1 DEF QuitInv, SignalInv, Alive
<1>. QED
  BY <1>1, <1>2, <1>3, BeginPassKeeps

-----------------------------------------------------------------------------
(* What the user answers. *)

LEMMA AnswerQuitKeeps ==
    ASSUME QuitInv, AnswerQuit
    PROVE  QuitInv'
<1>1. /\ dialog = "quit" /\ Alive /\ dialog' = "none"
      /\ UNCHANGED <<node, signals, setup, sent, doneBefore>>
  BY DEF AnswerQuit, rest
<1>2. /\ ~Headless /\ (phase = "asking" => stop = NoStop)
      /\ signals \in [by : SUBSET SignalNames, lately : BOOLEAN]
      /\ sent \in [SignalNames -> [times : Nat, again : BOOLEAN]]
  BY <1>1 DEF QuitInv, StopInv, TypeInv
<1>3. SignalInv /\ (Alive' => SignalInv')
  BY <1>1 DEF QuitInv, SignalInv, Alive
<1>4. PICK c \in {"destroy", "leave", "cancel"} :
         /\ told' = IF phase = "asking" /\ c = "leave" THEN told \cup {c} ELSE told
         /\ \/ phase # "asking" /\ UNCHANGED <<phase, halted, stop, settle>>
            \/ /\ phase = "asking" /\ c = "cancel"
               /\ phase' = "idle" /\ UNCHANGED <<halted, stop, settle>>
            \/ phase = "asking" /\ c = "leave" /\ Finish(0)
            \/ phase = "asking" /\ c = "destroy" /\ BeginPass([NoStop EXCEPT !.who = "person"])
  BY DEF AnswerQuit
<1>5. CASE \/ phase # "asking" /\ UNCHANGED <<phase, halted, stop, settle>>
           \/ phase = "asking" /\ phase' = "idle" /\ UNCHANGED <<halted, stop, settle>>
  <2>1. Alive' /\ TypeInv'
    BY <1>1, <1>5 DEF Alive, QuitInv, TypeInv
  <2>2. StopInv'
    BY <1>1, <1>5 DEF QuitInv, StopInv, Headless
  <2>3. PassInv'
    <3>1. \A n \in Nodes : Settled(n)' <=> Settled(n)
      BY <1>1 DEF Settled
    <3>. QED
      BY <1>5, <3>1 DEF QuitInv, PassInv
  <2>4. ExitCodeIsTrue' /\ NothingLeftUnasked'
    BY <2>1 DEF Alive, ExitCodeIsTrue, NothingLeftUnasked
  <2>. QED
    BY <1>3, <2>1, <2>2, <2>3, <2>4 DEF QuitInv
<1>6. CASE phase = "asking" /\ c = "leave" /\ Finish(0)
  <2>1. told' # {} /\ stop.who = "nobody"
    BY <1>2, <1>4, <1>6 DEF NoStop
  <2>. QED
    BY <1>1, <1>2, <1>6, <2>1, FinishKeeps
<1>7. CASE phase = "asking" /\ c = "destroy" /\ BeginPass([NoStop EXCEPT !.who = "person"])
  <2>. DEFINE s == [NoStop EXCEPT !.who = "person"]
  <2>1. s \in StopRecord /\ s.who = "person" /\ s.code = 0
    <3>1. 0 \in 0..MaxRounds
      BY LifecycleAssumption
    <3>. QED
      BY <3>1 DEF NoStop, StopRecord
  <2>2. BeginPass(s)
    BY <1>7
  <2>. HIDE DEF s
  <2>3. SignalInv'
    BY <1>3, <2>2 DEF BeginPass, Alive
  <2>. QED
    BY <1>1, <1>2, <2>1, <2>2, <2>3, BeginPassKeeps
<1>. QED
  BY <1>4, <1>5, <1>6, <1>7

LEMMA AnswerFailureKeeps ==
    ASSUME QuitInv, AnswerFailure
    PROVE  QuitInv'
<1>1. /\ dialog = "failure" /\ Alive /\ dialog' = "none"
      /\ UNCHANGED <<node, signals, setup, sent, doneBefore>>
  BY DEF AnswerFailure, rest
<1>2. /\ phase = "destroying" /\ stop.at = "failure" /\ stop.who = "person" /\ ~Headless
      /\ stop \in StopRecord /\ stop.code \in {0, 1}
      /\ signals \in [by : SUBSET SignalNames, lately : BOOLEAN]
      /\ sent \in [SignalNames -> [times : Nat, again : BOOLEAN]]
  BY <1>1 DEF QuitInv, StopInv, TypeInv
<1>3. Alive' => SignalInv'
  BY <1>1 DEF QuitInv, SignalInv, Alive
<1>4. PICK c \in {"retry", "quitAnyway"} :
         /\ told' = told \cup ({c} \ {"retry"})
         /\ IF c = "retry" THEN BeginPass(stop) ELSE Finish(0)
  BY DEF AnswerFailure
<1>5. CASE c = "retry"
  <2>1. BeginPass(stop)
    BY <1>4, <1>5
  <2>2. SignalInv'
    BY <1>3, <2>1 DEF BeginPass, Alive
  <2>. QED
    BY <1>1, <1>2, <2>1, <2>2, BeginPassKeeps
<1>6. CASE c = "quitAnyway"
  <2>1. told' # {} /\ Finish(0)
    BY <1>4, <1>6
  <2>. QED
    BY <1>1, <1>2, <2>1, FinishKeeps
<1>. QED
  BY <1>5, <1>6

-----------------------------------------------------------------------------
(* What begins a stop. *)

LEMMA BeginKeeps ==
    ASSUME QuitInv, phase \in {"idle", "asking"},
           NEW policy \in {"destroy", "leave"}, policy = "leave" => Headless /\ setup.policy = "leave",
           NEW allowed \in Nat, NEW code \in {0, 1}, StopUnattended(policy, allowed, code),
           UNCHANGED <<setup, node, dialog, told, signals, sent>>
    PROVE  QuitInv'
<1>1. /\ signals \in [by : SUBSET SignalNames, lately : BOOLEAN]
      /\ sent \in [SignalNames -> [times : Nat, again : BOOLEAN]]
  BY DEF QuitInv, TypeInv
<1>2. SignalInv'
  BY DEF QuitInv, SignalInv, Alive
<1>. QED
  BY <1>1, <1>2, StopUnattendedKeeps

LEMMA BeginSteps ==
    ASSUME QuitInv, SessionQuery \/ SessionEnds \/ Hangup \/ CampaignRefused
    PROVE  QuitInv'
<1>0. /\ setup.policy \in {"destroy", "leave"} /\ (setup.policy = "leave" => Headless)
      /\ SessionPolicy \in {"destroy", "leave"}
      /\ SessionPolicy = "leave" => Headless /\ setup.policy = "leave"
      /\ Attempts \in Nat /\ 1 \in Nat
  BY LifecycleAssumption DEF QuitInv, TypeInv, Headless, SessionPolicy
<1>1. CASE SessionQuery
  BY <1>0, <1>1, BeginKeeps DEF SessionQuery, rest
<1>2. CASE SessionEnds
  BY <1>0, <1>2, BeginKeeps DEF SessionEnds, rest
<1>3. CASE Hangup
  BY <1>0, <1>3, BeginKeeps DEF Hangup, rest
<1>4. CASE CampaignRefused
  BY <1>0, <1>4, BeginKeeps DEF CampaignRefused, rest
<1>. QED
  BY <1>1, <1>2, <1>3, <1>4

(* What leaves the stop, the fleet and the signals as they are. *)
LEMMA IdleKeeps ==
    ASSUME QuitInv,
           UNCHANGED <<setup, node, halted, phase, dialog, stop, settle, signals, sent, told>>
    PROVE  QuitInv'
  BY DEF QuitInv, TypeInv, StopInv, PassInv, SignalInv, ExitCodeIsTrue, NothingLeftUnasked,
         Headless, Settled, Alive, Billing, Holds

LEMMA CampaignCheckKeeps ==
    ASSUME QuitInv, CampaignCheck
    PROVE  QuitInv'
<1>1. /\ phase = "idle" /\ Attempts \in Nat
      /\ UNCHANGED <<setup, node, dialog, signals, sent, told>>
  BY LifecycleAssumption DEF CampaignCheck
<1>2. PICK done \in BOOLEAN, code \in {0, 1} :
         IF done /\ doneBefore THEN StopUnattended("destroy", Attempts, code)
         ELSE UNCHANGED <<halted, phase, stop, settle>>
  BY DEF CampaignCheck
<1>3. CASE done /\ doneBefore
  BY <1>1, <1>2, <1>3, BeginKeeps
<1>4. CASE ~(done /\ doneBefore)
  BY <1>1, <1>2, <1>4, IdleKeeps
<1>. QED
  BY <1>3, <1>4

LEMMA QuitKeeps ==
    ASSUME QuitInv, Quit
    PROVE  QuitInv'
<1>1. /\ phase = "idle" /\ Alive /\ stop = NoStop /\ dialog \in {"none", "quit"}
      /\ UNCHANGED <<node, signals, told, setup, sent, doneBefore>>
  BY DEF Quit, rest, Alive, QuitInv, StopInv, TypeInv
<1>2. /\ setup.policy \in {"destroy", "leave"} /\ Attempts \in Nat
      /\ signals \in [by : SUBSET SignalNames, lately : BOOLEAN]
      /\ sent \in [SignalNames -> [times : Nat, again : BOOLEAN]]
  BY LifecycleAssumption DEF QuitInv, TypeInv
<1>3. CASE Headless /\ StopUnattended(setup.policy, Attempts, 0) /\ UNCHANGED dialog
  BY <1>1, <1>2, <1>3, BeginKeeps
<1>4. CASE ~Headless /\ Billing = {} /\ Finish(0) /\ UNCHANGED dialog
  <2>1. stop.who = "nobody"
    BY <1>1 DEF NoStop
  <2>. QED
    BY <1>1, <1>2, <1>4, <2>1, FinishKeeps
<1>5. CASE /\ ~Headless /\ phase' = "asking" /\ dialog' = "quit"
           /\ UNCHANGED <<halted, stop, settle>>
  <2>1. TypeInv' /\ SignalInv' /\ PassInv'
    BY <1>1, <1>5 DEF QuitInv, TypeInv, SignalInv, Alive, PassInv
  <2>2. StopInv'
    BY <1>1, <1>5 DEF QuitInv, StopInv, NoStop, Headless
  <2>3. ExitCodeIsTrue' /\ NothingLeftUnasked'
    BY <1>5 DEF ExitCodeIsTrue, NothingLeftUnasked
  <2>. QED
    BY <2>1, <2>2, <2>3 DEF QuitInv
<1>. QED
  BY <1>3, <1>4, <1>5 DEF Quit, AskAndQuit

-----------------------------------------------------------------------------
(* Signals. *)

(* onSignal, for a delivery already counted in sent'. A stop it ends early is
   one whose signal has really been sent twice. *)
LEMMA HeardKeeps ==
    ASSUME QuitInv, Headless, Alive, NEW s \in SignalNames, Heard(s),
           UNCHANGED <<setup, node, dialog, told>>,
           sent' \in [SignalNames -> [times : Nat, again : BOOLEAN]],
           \A t \in SignalNames : sent'[t].times >= sent[t].times,
           sent'[s].times >= 1,
           \A t \in SignalNames : sent'[t].again => sent[t].again \/ sent'[t].times >= 1,
           \A t \in SignalNames : t # s => sent'[t] = sent[t],
           sent[s].again \/ (s \in signals.by => sent'[s].times >= 2)
    PROVE  QuitInv'
<1>1. /\ signals \in [by : SUBSET SignalNames, lately : BOOLEAN]
      /\ sent \in [SignalNames -> [times : Nat, again : BOOLEAN]]
      /\ setup.policy \in {"destroy", "leave"} /\ Attempts \in Nat
      /\ dialog \in {"none", "quit", "failure"}
      /\ stop.who # "person" /\ dialog # "quit"
  BY LifecycleAssumption DEF QuitInv, TypeInv, StopInv
<1>2. dialog = "none"
  BY <1>1 DEF QuitInv, StopInv
<1>3. \A t \in SignalNames : sent[t].times \in Nat /\ sent'[t].times \in Nat
  BY <1>1
<1>4. \A t \in SignalNames : sent'[t].again \/ t \in signals.by => sent'[t].times >= 1
  <2>. SUFFICES ASSUME NEW t \in SignalNames, sent'[t].again \/ t \in signals.by
                PROVE  sent'[t].times >= 1
    OBVIOUS
  <2>1. CASE t = s
    BY <2>1
  <2>2. CASE t # s
    BY <2>2 DEF QuitInv, SignalInv
  <2>. QED
    BY <2>1, <2>2
<1>5. signals' = [by |-> {s}, lately |-> TRUE] =>
        /\ signals' \in [by : SUBSET SignalNames, lately : BOOLEAN]
        /\ SignalInv'
  BY <1>4 DEF SignalInv, Headless
<1>6. CASE /\ phase = "idle" /\ StopUnattended(setup.policy, Attempts, 0)
           /\ IF phase' = "destroying" THEN Armed(s) ELSE UNCHANGED signals
  <2>1. signals' \in [by : SUBSET SignalNames, lately : BOOLEAN]
        /\ (phase' = "destroying" => SignalInv')
    BY <1>1, <1>5, <1>6 DEF Armed
  <2>. QED
    BY <1>1, <1>6, <2>1, StopUnattendedKeeps
<1>7. CASE /\ phase = "destroying"
           /\ \/ s \notin signals.by /\ Armed(s)
              \/ s \in signals.by /\ signals.lately /\ UNCHANGED signals
           /\ UNCHANGED <<halted, phase, stop, settle>>
  <2>1. signals' \in [by : SUBSET SignalNames, lately : BOOLEAN] /\ SignalInv'
    <3>1. CASE s \notin signals.by /\ Armed(s)
      BY <1>5, <3>1 DEF Armed
    <3>2. CASE s \in signals.by /\ signals.lately /\ UNCHANGED signals
      BY <1>1, <1>4, <3>2 DEF SignalInv, Headless
    <3>. QED
      BY <1>7, <3>1, <3>2
  <2>2. TypeInv'
    BY <1>7, <2>1 DEF QuitInv, TypeInv
  <2>3. StopInv' /\ PassInv'
    BY <1>7 DEF QuitInv, StopInv, PassInv, Headless, Settled
  <2>4. ExitCodeIsTrue' /\ NothingLeftUnasked'
    BY <1>7 DEF ExitCodeIsTrue, NothingLeftUnasked
  <2>. QED
    BY <2>1, <2>2, <2>3, <2>4 DEF QuitInv
<1>8. CASE /\ phase = "destroying" /\ s \in signals.by /\ ~signals.lately
           /\ Finish(IF Billing = {} THEN 0 ELSE 3) /\ UNCHANGED signals
  <2>. DEFINE code == IF Billing = {} THEN 0 ELSE 3
  <2>1. code \in {0, 1, 3} /\ (code = 3 <=> Billing # {}) /\ Finish(code)
    BY <1>8
  <2>2. ~sent[s].again
    BY <1>8 DEF QuitInv, SignalInv
  <2>3. sent'[s].times >= 2
    BY <1>8, <2>2
  <2>. HIDE DEF code
  <2>. QED
    BY <1>1, <1>2, <1>8, <2>1, <2>3, FinishKeeps
<1>. QED
  BY <1>6, <1>7, <1>8 DEF Heard

LEMMA SignalSteps ==
    ASSUME QuitInv, NEW s \in SignalNames, Signal(s) \/ SecondDelivery(s)
    PROVE  QuitInv'
<1>1. /\ sent \in [SignalNames -> [times : Nat, again : BOOLEAN]]
      /\ Alive /\ Heard(s) /\ UNCHANGED <<setup, node, dialog, told>>
  BY DEF QuitInv, TypeInv, Signal, SecondDelivery
<1>2. sent[s] \in [times : Nat, again : BOOLEAN] /\ sent[s].times \in Nat
  BY <1>1
<1>3. \A t \in SignalNames : sent[t].times \in Nat
  BY <1>1
<1>4. s \in signals.by => sent[s].times >= 1
  BY <1>1 DEF QuitInv, SignalInv
<1>5. CASE Signal(s)
  <2>1. PICK twice \in BOOLEAN :
           sent' = [sent EXCEPT ![s] = [times |-> sent[s].times + 1, again |-> twice]]
    BY <1>5 DEF Signal
  <2>2. /\ sent'[s] = [times |-> sent[s].times + 1, again |-> twice]
        /\ \A t \in SignalNames : t # s => sent'[t] = sent[t]
    BY <1>1, <2>1
  <2>3. sent' \in [SignalNames -> [times : Nat, again : BOOLEAN]]
    BY <1>1, <1>2, <2>1
  <2>4. /\ sent'[s].times = sent[s].times + 1
        /\ \A t \in SignalNames : sent'[t].times >= sent[t].times
    BY <1>3, <2>2
  <2>. QED
    BY <1>1, <1>2, <1>4, <1>5, <2>2, <2>3, <2>4, HeardKeeps DEF Signal
<1>6. CASE SecondDelivery(s)
  <2>1. sent' = [sent EXCEPT ![s].again = FALSE] /\ sent[s].again
    BY <1>6 DEF SecondDelivery
  <2>2. /\ sent'[s] = [sent[s] EXCEPT !.again = FALSE]
        /\ \A t \in SignalNames : t # s => sent'[t] = sent[t]
    BY <1>1, <2>1
  <2>3. sent'[s].times = sent[s].times /\ sent'[s] \in [times : Nat, again : BOOLEAN]
    BY <1>2, <2>2
  <2>4. sent' \in [SignalNames -> [times : Nat, again : BOOLEAN]]
    BY <1>1, <2>1, <2>2, <2>3
  <2>5. sent[s].times >= 1
    BY <1>1, <2>1 DEF QuitInv, SignalInv
  <2>6. \A t \in SignalNames : sent'[t].times >= sent[t].times
    BY <1>3, <2>2, <2>3
  <2>7. Headless
    BY <1>1, <2>1 DEF QuitInv, SignalInv, Headless
  <2>. QED
    BY <1>1, <2>1, <2>2, <2>3, <2>4, <2>5, <2>6, <2>7, HeardKeeps
<1>. QED
  BY <1>5, <1>6

-----------------------------------------------------------------------------
(* The specification. *)

LEMMA QuitInit ==
    ASSUME Init
    PROVE  QuitInv
<1>1. stop \in StopRecord /\ stop = NoStop
  <2>1. 0 \in 0..MaxRounds
    BY LifecycleAssumption
  <2>. QED
    BY <2>1 DEF Init, NoStop, StopRecord
<1>2. /\ sent \in [SignalNames -> [times : Nat, again : BOOLEAN]]
      /\ \A s \in SignalNames : ~sent[s].again
      /\ signals.by = {}
  BY DEF Init, SignalNames
<1>3. TypeInv
  BY <1>1, <1>2, FleetAssumption DEF Init, TypeInv, Fresh
<1>4. StopInv /\ PassInv
  BY <1>1 DEF Init, StopInv, PassInv, NoStop
<1>5. SignalInv
  BY <1>2 DEF SignalInv
<1>6. ExitCodeIsTrue /\ NothingLeftUnasked
  BY DEF Init, ExitCodeIsTrue, NothingLeftUnasked
<1>. QED
  BY <1>3, <1>4, <1>5, <1>6 DEF QuitInv

LEMMA QuitStep ==
    ASSUME QuitInv, [Next]_vars
    PROVE  QuitInv'
<1>1. CASE UNCHANGED vars
  BY <1>1, IdleKeeps DEF vars
<1>2. ASSUME NEW n \in Nodes, Rent(n) \/ CreateSettles(n) \/ DestroyedElsewhere(n) \/ Confirmed(n)
      PROVE  QuitInv'
  BY <1>2, FleetSteps
<1>3. CASE Quit
  BY <1>3, QuitKeeps
<1>4. CASE AnswerQuit
  BY <1>4, AnswerQuitKeeps
<1>5. CASE AnswerFailure
  BY <1>5, AnswerFailureKeeps
<1>6. CASE Pass
  BY <1>6, RoundKeeps, LastLookKeeps, NextPassKeeps, NodeSteps DEF Pass
<1>7. CASE SessionQuery \/ SessionEnds \/ Hangup \/ CampaignRefused
  BY <1>7, BeginSteps
<1>8. CASE CampaignCheck
  BY <1>8, CampaignCheckKeeps
<1>9. ASSUME NEW s \in DOMAIN sent, Signal(s) \/ SecondDelivery(s)
      PROVE  QuitInv'
  <2>1. s \in SignalNames
    BY DEF QuitInv, TypeInv
  <2>. QED
    BY <1>9, <2>1, SignalSteps
<1>10. CASE Elapse
  <2>1. /\ Alive /\ signals.lately /\ signals' = [signals EXCEPT !.lately = FALSE]
        /\ \A s \in DOMAIN sent : ~sent[s].again
        /\ UNCHANGED <<node, halted, phase, dialog, stop, settle, told, setup, sent, doneBefore>>
    BY <1>10 DEF Elapse, rest
  <2>2. /\ signals \in [by : SUBSET SignalNames, lately : BOOLEAN]
        /\ sent \in [SignalNames -> [times : Nat, again : BOOLEAN]]
    BY DEF QuitInv, TypeInv
  <2>3. signals' \in [by : SUBSET SignalNames, lately : BOOLEAN] /\ signals'.by = signals.by
    BY <2>1, <2>2
  <2>4. TypeInv' /\ StopInv' /\ PassInv'
    BY <2>1, <2>3 DEF QuitInv, TypeInv, StopInv, PassInv, Headless, Settled
  <2>5. SignalInv'
    BY <2>1, <2>2, <2>3 DEF QuitInv, SignalInv
  <2>6. ExitCodeIsTrue' /\ NothingLeftUnasked'
    BY <2>1 DEF Alive, ExitCodeIsTrue, NothingLeftUnasked
  <2>. QED
    BY <2>4, <2>5, <2>6 DEF QuitInv
<1>. QED
  BY <1>1, <1>2, <1>3, <1>4, <1>5, <1>6, <1>7, <1>8, <1>9, <1>10 DEF Next

LEMMA QuitInvariant == Spec => []QuitInv
  BY QuitInit, QuitStep, PTL DEF Spec

(* The exit status of a run nobody sits at is 3 exactly if something it knows of
   may be left billing, whichever of the stops, signals, session ends and
   campaign checks that race each other gets to exit (lifecycle.ts finish). *)
THEOREM ExitCodeTrue == Spec => []ExitCodeIsTrue
<1>1. QuitInv => ExitCodeIsTrue
  BY DEF QuitInv
<1>. QED
  BY <1>1, QuitInvariant, PTL

(* Nothing is left billing but by the policy, an answer that still counted, the
   same signal really sent twice, or once every pass allowed has been made: for
   any fleet, any number of passes and any interleaving of signals with their
   second deliveries (lifecycle.ts onSignal, stopUnattended, askAndQuit). *)
THEOREM NothingLeft == Spec => []NothingLeftUnasked
<1>1. QuitInv => NothingLeftUnasked
  BY DEF QuitInv
<1>. QED
  BY <1>1, QuitInvariant, PTL

(* Once a pass has returned no node is still wanted, whatever was taken in or
   answered while the pass went through its rounds (lifecycle.ts destroyFleet,
   settleNode): each node was destroyed, marked for it, or was never there. *)
THEOREM NoneComesUp == Spec => []NoneComesUpBehind
<1>1. ASSUME QuitInv
      PROVE  NoneComesUpBehind
  <2>. SUFFICES ASSUME stop.at \in {"returned", "pause", "failure"}, NEW n \in Nodes
                PROVE  Settled(n)
    BY DEF NoneComesUpBehind, Settled
  <2>1. phase = "destroying"
    BY <1>1 DEF QuitInv, TypeInv, StopInv, NoStop
  <2>. QED
    BY <1>1, <2>1 DEF QuitInv, PassInv
<1>. QED
  BY <1>1, QuitInvariant, PTL
=============================================================================
