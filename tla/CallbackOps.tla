---------------------------- MODULE CallbackOps ----------------------------
(***************************************************************************)
(* The variables a list made by jQuery.Callbacks (jquery-1.10.2.js) closes *)
(* over, and what its methods do to them.  CallbackLists runs the methods  *)
(* of any list, Deferreds those of the three lists of a deferred object.   *)
(*                                                                         *)
(* A list is a record: `on' is FALSE while the code's `list' is undefined, *)
(* `repeat' is FALSE while its `stack' is undefined or false, `index' and  *)
(* `length' are the loop's place and end, and `value' is what the list is  *)
(* being fired with.  The flags o are those the list was made with.        *)
(***************************************************************************)
EXTENDS Integers, Sequences, FiniteSets, SequencesExt

NoValue == 0  \* undefined, or false; the values lists are fired with are positive

NewList(o) ==
    [list |-> <<>>, on |-> TRUE, memory |-> NoValue, fired |-> FALSE,
     firing |-> FALSE, index |-> 0, length |-> 0, value |-> NoValue,
     stack |-> <<>>, repeat |-> "once" \notin o]

\* fire(): the loop is set up at position start of the list.
Fire(r, o, v, start) ==
    [r EXCEPT !.memory = IF "memory" \in o THEN v ELSE NoValue,
              !.fired = TRUE, !.firing = TRUE, !.value = v,
              !.index = start, !.length = Len(r.list)]

\* add(), as far as the list goes: a loop under way reaches the new function.
Pushed(r, o, f) ==
    LET q == IF "unique" \in o /\ f \in ToSet(r.list)
             THEN r
             ELSE [r EXCEPT !.list = Append(@, f)]
    IN  IF r.firing THEN [q EXCEPT !.length = Len(q.list)] ELSE q

\* Whether add() then fires the list again, for what it has just added.
CatchesUp(r) == r.on /\ ~r.firing /\ r.memory # NoValue

\* Fault: the running loop does not notice that the list has shifted.
Without_Unshifted(r, f) ==
    [r EXCEPT !.list = SelectSeq(@, LAMBDA g : g # f),
              !.length = IF r.firing THEN Len(SelectSeq(r.list, LAMBDA g : g # f)) ELSE @]

\* remove(): every occurrence of f; a loop under way keeps its place.
Without(r, f) ==
    LET hits(n) == Cardinality({i \in DOMAIN r.list : i <= n /\ r.list[i] = f})
    IN  [r EXCEPT !.list = SelectSeq(@, LAMBDA g : g # f),
                  !.length = IF r.firing THEN @ - hits(Len(r.list)) ELSE @,
                  !.index = IF r.firing THEN @ - hits(@ + 1) ELSE @]

Disabled(r) == [r EXCEPT !.on = FALSE, !.list = <<>>, !.memory = NoValue,
                         !.stack = <<>>, !.repeat = FALSE]

Emptied(r) == [r EXCEPT !.on = TRUE, !.list = <<>>, !.length = 0]

\* lock(): a list that has nothing to remember is disabled.
Locked(r) ==
    LET q == [r EXCEPT !.stack = <<>>, !.repeat = FALSE]
    IN  IF r.memory = NoValue THEN Disabled(q) ELSE q

CanFire(r) == r.on /\ (~r.fired \/ r.repeat)

\* The end of fire(): the next fire that had to wait, or what a list that
\* cannot be fired again still needs.
Finished(r, o) ==
    LET q == [r EXCEPT !.firing = FALSE] IN
    IF ~r.on THEN q
    ELSE IF r.repeat /\ r.stack # <<>>
         THEN Fire([q EXCEPT !.stack = Tail(@)], o, Head(r.stack), 0)
    ELSE IF r.repeat THEN q
    ELSE IF r.memory # NoValue THEN [q EXCEPT !.list = <<>>]
    ELSE Disabled(q)

MoreToCall(r) == r.on /\ r.index < r.length
=============================================================================
