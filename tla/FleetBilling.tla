---------------------------- MODULE FleetBilling ----------------------------
(* What the fleet owes its user, without saying how: no instance of this   *)
(* profile bills, and none may come of a create, without one of its nodes  *)
(* being counted for it; and a node is rented only while fewer nodes than  *)
(* maxActiveNodes are counted.  NodeRental implements it.                  *)
EXTENDS Naturals, FiniteSets

CONSTANTS
    Node,             \* nodes a profile may ever have
    MaxActiveNodes    \* the cap of the user's settings

VARIABLES
    counted,    \* nodes shown as costing money, and charged to the caps
    due,        \* nodes whose create Vast has yet to decide
    billing     \* nodes whose instance Vast charges for

fleetVars == <<counted, due, billing>>

Init == counted = {} /\ due = {} /\ billing = {}

Rent(n) ==
    /\ n \notin counted
    /\ Cardinality(counted) < MaxActiveNodes
    /\ counted' = counted \cup {n}
    /\ due' = due \cup {n}
    /\ UNCHANGED billing

\* Vast decides a create, for or against.
Decide(n) ==
    /\ n \in due
    /\ due' = due \ {n}
    /\ billing' \in {billing, billing \cup {n}}
    /\ UNCHANGED counted

StopBilling(n) ==
    /\ billing' = billing \ {n}
    /\ UNCHANGED <<counted, due>>

\* Nodes stop being counted only when they cannot cost anything.
Uncount(S) ==
    /\ S \subseteq counted \ (due \cup billing)
    /\ counted' = counted \ S
    /\ UNCHANGED <<due, billing>>

\* A node is counted again, to be on the safe side.
Recount(n) ==
    /\ counted' = counted \cup {n}
    /\ UNCHANGED <<due, billing>>

Next ==
    \/ \E n \in Node : Rent(n) \/ Decide(n) \/ StopBilling(n) \/ Recount(n)
    \/ \E S \in SUBSET Node : Uncount(S)

Spec == Init /\ [][Next]_fleetVars
=============================================================================
