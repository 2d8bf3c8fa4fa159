------------------------------ MODULE NodeData ------------------------------
(***************************************************************************)
(* What data() and on() of jquery-1.10.2.js promise the pages: every       *)
(* element has data and handlers of its own.  They change when the element *)
(* is asked to change them, when it is removed, and when it is made as a   *)
(* copy of another element.                                                *)
(***************************************************************************)
CONSTANTS Elements, Types, Values, Nothing
ValueAssumption == Nothing \notin Values

VARIABLES data, bound
vars == <<data, bound>>

Init == /\ data = [n \in Elements |-> Nothing]
        /\ bound = [n \in Elements |-> {}]

Set(n, v) == data' = [data EXCEPT ![n] = v] /\ UNCHANGED bound
Handle(n, ts) == bound' = [bound EXCEPT ![n] = ts] /\ UNCHANGED data

\* remove(), empty(), html(): what a whole set of elements has is forgotten.
Forget(ns) ==
    /\ data' = [n \in Elements |-> IF n \in ns THEN Nothing ELSE data[n]]
    /\ bound' = [n \in Elements |-> IF n \in ns THEN {} ELSE bound[n]]

\* clone(true) and insertion in several places: new elements, each with the data
\* and the handlers of the element it is a copy of.
Copy(ns, of) ==
    /\ \A n \in ns : data[n] = Nothing /\ bound[n] = {}
    /\ data' = [n \in Elements |-> IF n \in ns THEN data[of[n]] ELSE data[n]]
    /\ bound' = [n \in Elements |-> IF n \in ns THEN bound[of[n]] ELSE bound[n]]

Next ==
    \/ \E n \in Elements, v \in Values \cup {Nothing} : Set(n, v)
    \/ \E n \in Elements, ts \in SUBSET Types : Handle(n, ts)
    \/ \E ns \in SUBSET Elements : Forget(ns) \/ \E of \in [ns -> Elements \ ns] : Copy(ns, of)

Spec == Init /\ [][Next]_vars
=============================================================================
