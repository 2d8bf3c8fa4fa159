------------------------------ MODULE Promises ------------------------------
(***************************************************************************)
(* What whoever holds a promise may rely on: it is settled once, and each  *)
(* listener is told at most once, after that and with the settled value,   *)
(* if the outcome is the one it listens for.                               *)
(***************************************************************************)
EXTENDS Integers, Sequences

CONSTANT Defs

VARIABLES
    state,    \* pending, resolved or rejected
    value,    \* what each promise was settled with
    waiting,  \* listeners <<promise, list, number>> not told yet
    told      \* the calls <<promise, list, number, value>> of listeners, in order

vars == <<state, value, waiting, told>>

Outcome(kind) == IF kind = "done" THEN "resolved" ELSE "rejected"

Init ==
    /\ state = [d \in Defs |-> "pending"]
    /\ value = [d \in Defs |-> 0]
    /\ waiting = {}
    /\ told = <<>>

Settle(d) ==
    /\ state[d] = "pending"
    /\ \E kind \in {"done", "fail"} : state' = [state EXCEPT ![d] = Outcome(kind)]
    /\ value'[d] # 0 /\ value' = [value EXCEPT ![d] = value'[d]]
    /\ UNCHANGED <<waiting, told>>

Listen ==
    /\ waiting \subseteq waiting'
    /\ UNCHANGED <<state, value, told>>

Tell(l) ==
    /\ l \in waiting
    /\ state[l[1]] = Outcome(l[2])
    /\ waiting' = waiting \ {l}
    /\ told' = Append(told, <<l[1], l[2], l[3], value[l[1]]>>)
    /\ UNCHANGED <<state, value>>

Next ==
    \/ \E d \in Defs : Settle(d)
    \/ Listen
    \/ \E l \in waiting : Tell(l)

Spec == Init /\ [][Next]_vars
=============================================================================
