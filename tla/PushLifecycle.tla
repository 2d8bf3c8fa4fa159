--------------------------- MODULE PushLifecycle ---------------------------
(***************************************************************************)
(* What GET /xmpp/PushStatus promises to whoever follows a push by its id, *)
(* whatever threads, queues and jobs there are behind it: the answers a    *)
(* push can give, one after the other.                                     *)
(***************************************************************************)
CONSTANT Tasks  \* the pushes, named by their ids

VARIABLE shown  \* the answer for each push

Reports == {"FinishedOK", "FinishedError"}

Answers == {"Unknown", "Waiting", "Sending", "Sent", "Offline", "Gone"} \cup Reports

Init == shown = [t \in Tasks |-> "Unknown"]

Change(t, from, to) ==
    /\ shown[t] \in from
    /\ shown' = [shown EXCEPT ![t] = to]

Submit(t) == Change(t, {"Unknown"}, "Waiting")

Start(t) == Change(t, {"Waiting"}, "Sending")

\* No matching device was there: nothing follows but the removal.
Miss(t) == Change(t, {"Sending"}, "Offline")

\* The write that ends a task may overtake the report of a quick device.
Finish(t) == Change(t, {"Sending"} \cup Reports, "Sent")

Report(t) == \E r \in Reports : Change(t, {"Sending", "Sent"} \cup Reports, r)

Forget(t) == Change(t, Answers \ {"Unknown", "Gone"}, "Gone")

Next == \E t \in Tasks :
    Submit(t) \/ Start(t) \/ Miss(t) \/ Finish(t) \/ Report(t) \/ Forget(t)

Spec == Init /\ [][Next]_shown
=============================================================================
