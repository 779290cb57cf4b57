----------------------------- MODULE AlertRouting -----------------------------
(***************************************************************************)
(* What the routing of alerts promises to who sends them and to who runs   *)
(* the firewalls, whatever route is taken:                                 *)
(*                                                                         *)
(*   - an alert is refused, and then it reaches nobody, or it reaches some *)
(*     of the firewalls it may reach, at least one, and each of them once; *)
(*   - it may have to wait for that, together with others, and those that  *)
(*     waited together reach the same firewalls;                           *)
(*   - an alert that waits is dropped only by a failure, before it reached *)
(*     any firewall;                                                       *)
(*   - what has been decided about an alert stays so.                      *)
(*                                                                         *)
(* ManagedRouter implements this specification.                            *)
(***************************************************************************)
EXTENDS Naturals, Sequences

CONSTANT Targets

VARIABLES
  scope,         (* of each alert: the firewalls it may reach,             *)
  fate,          (* what became of it,                                     *)
  reached,       (* and how often it reached each firewall                 *)
  failures       (* how many failures there were                           *)

Once(chosen) == [t \in Targets |-> IF t \in chosen THEN 1 ELSE 0]

Waiting == {m \in DOMAIN fate : fate[m] = "waiting"}

Init ==
  /\ scope = <<>>
  /\ fate = <<>>
  /\ reached = <<>>
  /\ failures = 0

Arrives(may, outcome, chosen) ==
  /\ reached' = Append(reached, Once(chosen))
  /\ fate' = Append(fate, outcome)
  /\ scope' = Append(scope, may)
  /\ UNCHANGED failures

Refuse == Arrives({}, "refused", {})

Route(may) ==
  \E chosen \in (SUBSET may) \ {{}} : Arrives(may, "delivered", chosen)

Wait(may) ==
  /\ may # {}
  /\ Arrives(may, "waiting", {})

Settle(group, outcome, chosen) ==
  /\ reached' = [m \in DOMAIN reached |-> IF m \in group THEN Once(chosen) ELSE reached[m]]
  /\ fate' = [m \in DOMAIN fate |-> IF m \in group THEN outcome ELSE fate[m]]
  /\ UNCHANGED scope

Deliver(group) ==
  \E chosen \in (SUBSET Targets) \ {{}} :
    /\ \A m \in group : chosen \subseteq scope[m]
    /\ Settle(group, "delivered", chosen)
    /\ UNCHANGED failures

(* A failure of which no alert is a victim drops the empty group.          *)
Drop(group) ==
  /\ failures' = failures + 1
  /\ Settle(group, "dropped", {})

Next ==
  \/ \E group \in SUBSET Waiting : Deliver(group) \/ Drop(group)
  \/ Refuse
  \/ \E may \in SUBSET Targets : Route(may) \/ Wait(may)

Spec == Init /\ [][Next]_<<scope, fate, reached, failures>>
=============================================================================
