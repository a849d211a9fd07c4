-------------------------- MODULE MCAutomationRuns --------------------------
(* Constant values for checking AutomationRuns with TLC. *)
EXTENDS AutomationRuns, TLC

act == [type |-> "ACT", runAfter |-> "immediate"]
wait == [type |-> "WAIT", runAfter |-> "immediate"]
actOnReply == [type |-> "ACT", runAfter |-> "customer_reply"]
waitOnReply == [type |-> "WAIT", runAfter |-> "customer_reply"]

\* Two pauses, and a delay that ends the list.
PauseTwice == {<<act, actOnReply, waitOnReply>>}
\* The same, or a reply that leads to a delay and on to the last step.
PausesAndDelays == PauseTwice \union {<<act, waitOnReply, act>>}
\* A delay that leads to a step waiting for the customer.
DelayThenReply == {<<wait, actOnReply>>}
\* Lists of different lengths to switch between.
LongAndShort == {<<act, wait, act>>, <<act, actOnReply>>}

AllOnMessage == [u \in Rules |-> "MESSAGE_RECEIVED"]
MessageThenOffHours == [u \in Rules |-> IF u = 1 THEN "MESSAGE_RECEIVED" ELSE "OFF_HOURS"]
CreationThenStatus == [u \in Rules |-> IF u = 1 THEN "CONVERSATION_CREATED" ELSE "STATUS_CHANGED"]

None == [e \in Events |-> 0]
Rough == [None EXCEPT !["faults"] = 2, !["crashes"] = 1, !["edits"] = 1]
RoughInline == [None EXCEPT !["faults"] = 1, !["agent"] = 1, !["aborts"] = 1]

Symmetry == Permutations(Workers) \union Permutations(JobIds)

\* Steps take effect one after the other, none left out, and all of them before a run is
\* called COMPLETED.
StepsComeWhole == NoStepSkipped /\ CompletedRanEveryStep
=============================================================================
