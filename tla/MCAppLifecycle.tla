-------------------------- MODULE MCAppLifecycle --------------------------
EXTENDS AppLifecycle, TLC

CONSTANTS n1, n2

TwoNodes == {n1, n2}
(* What two nodes may be when a quit begins. *)
AnyFleet == {[n \in {n1, n2} |-> IF n = n1 THEN a ELSE b] : a \in {"none", "requested", "up", "lost"}, b \in {"none", "requested", "stray"}}
====
