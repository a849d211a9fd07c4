-------------------------- MODULE AutomationPromise --------------------------
(***************************************************************************)
(* What an automation run promises, whatever carries it out: its steps     *)
(* take effect one after the other, each of them once, and none after the  *)
(* run is settled.                                                         *)
(***************************************************************************)
EXTENDS Naturals

CONSTANTS Runs, Index

VARIABLES
  performed, \* how often each step of each run took effect
  settled    \* the runs that are over

promise == <<performed, settled>>

Init ==
  /\ performed = [r \in Runs |-> [i \in Index |-> 0]]
  /\ settled = {}

\* Step i is next when all steps before it are done and none from it on.
IsNext(r, i) == \A k \in Index : performed[r][k] = IF k < i THEN 1 ELSE 0

Perform(r, i) ==
  /\ r \notin settled
  /\ IsNext(r, i)
  /\ performed' = [performed EXCEPT ![r][i] = 1]
  /\ UNCHANGED settled

Settle(r) ==
  /\ r \notin settled
  /\ settled' = settled \union {r}
  /\ UNCHANGED performed

Next == \E r \in Runs : Settle(r) \/ \E i \in Index : Perform(r, i)

Spec == Init /\ [][Next]_promise
=============================================================================
