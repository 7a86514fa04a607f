---------------------------- MODULE EventDelivery ----------------------------
(***************************************************************************)
(* What publishToTransactionProcessor promises of each event: how the call   *)
(* ends (outcome) against the copies of the event on their way to the broker  *)
(* (transit) and in it (delivered).  Producer implements it.                *)
(***************************************************************************)
EXTENDS Naturals

CONSTANTS
  Publication   \* the calls

VARIABLES
  limit,      \* how many copies the caller allows: 2 with retry, else 1
  outcome,    \* how the call ended
  transit,    \* copies the broker may still take
  delivered   \* copies it has taken

vars == <<limit, outcome, transit, delivered>>

Init ==
  /\ limit \in [Publication -> {1, 2}]
  /\ outcome = [p \in Publication |-> "idle"]
  /\ transit = [p \in Publication |-> 0]
  /\ delivered = [p \in Publication |-> 0]

\* The events of one turn of the event loop, one copy of each.
Publish(turn) ==
  /\ \A p \in turn : outcome[p] = "idle"
  /\ outcome' = [p \in Publication |-> IF p \in turn THEN "open" ELSE outcome[p]]
  /\ transit' = [p \in Publication |-> IF p \in turn THEN 1 ELSE transit[p]]
  /\ UNCHANGED <<limit, delivered>>

\* Another copy: only while the call is open, and within the limit.
Repeat(p) ==
  /\ outcome[p] = "open"
  /\ transit[p] + delivered[p] < limit[p]
  /\ transit' = [transit EXCEPT ![p] = @ + 1]
  /\ UNCHANGED <<limit, outcome, delivered>>

\* The broker takes a copy whenever it likes, the call ended or not.
Deliver(p) ==
  /\ transit[p] > 0
  /\ transit' = [transit EXCEPT ![p] = @ - 1]
  /\ delivered' = [delivered EXCEPT ![p] = @ + 1]
  /\ UNCHANGED <<limit, outcome>>

End(p, how) ==
  /\ outcome[p] = "open"
  /\ outcome' = [outcome EXCEPT ![p] = how]
  /\ UNCHANGED <<limit, transit, delivered>>

\* A call resolves only when the broker has the event.
Resolve(p) == delivered[p] > 0 /\ End(p, "resolved")

Reject(p) == End(p, "rejected")

\* The process dies; what is on its way may still arrive.
Die ==
  /\ outcome' = [p \in Publication |-> IF outcome[p] = "open" THEN "lost" ELSE outcome[p]]
  /\ UNCHANGED <<limit, transit, delivered>>

Next ==
  \/ \E turn \in SUBSET Publication : Publish(turn)
  \/ \E p \in Publication : Repeat(p) \/ Deliver(p) \/ Resolve(p) \/ Reject(p)
  \/ Die

Spec == Init /\ [][Next]_vars
=============================================================================
