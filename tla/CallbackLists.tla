--------------------------- MODULE CallbackLists ---------------------------
(***************************************************************************)
(* jQuery.Callbacks of jquery-1.10.2.js: a list of functions that can be   *)
(* fired, and that can be changed and fired again by the very functions it *)
(* is calling.  Promises, ajax requests and document-ready handlers of the *)
(* console pages are all made of such lists.                               *)
(*                                                                         *)
(* The page has one thread: `calls' is its call stack, one frame for each  *)
(* fire() that is under way.  A frame is at "next" between two functions   *)
(* of the list and at "call" while the function at `index' runs; that      *)
(* function may use any list before it returns.                            *)
(***************************************************************************)
EXTENDS CallbackOps

CONSTANTS
    Lists,      \* the lists
    Fns,        \* what may be added to them
    OptionSets, \* the flags a list may be made with
    MaxOps,     \* bound: calls of the lists' methods
    MayThrow    \* whether a function of a list may throw

OptionsAssumption ==
    OptionSets \subseteq SUBSET {"once", "memory", "unique", "stopOnFalse"}
BoundAssumption == MaxOps \in Nat /\ MayThrow \in BOOLEAN

VARIABLES
    options,  \* the flags of each list
    cb,       \* the variables each list closes over
    calls,    \* the call stack
    ops,      \* methods called so far; a list is fired with the number of the call
    log,      \* history: the functions called, with the value each was given
    emptied   \* history: the lists that empty() has been called for

vars == <<options, cb, calls, ops, log, emptied>>

-----------------------------------------------------------------------------
(* The methods, called by an event of the page or by a running function. *)

Top == Last(calls)
InScript == calls # <<>> => Top.at = "call"

Method == InScript /\ ops < MaxOps /\ ops' = ops + 1 /\ UNCHANGED <<options, log>>

Enter(l) == calls' = Append(calls, [list |-> l, at |-> "next"])

AddTo(l, f) ==
    LET r == cb[l]
        q == Pushed(r, options[l], f)
    IN
    /\ Method /\ r.on
    /\ IF CatchesUp(r)
       THEN /\ cb' = [cb EXCEPT ![l] = Fire(q, options[l], r.memory, Len(r.list))]
            /\ Enter(l)
       ELSE /\ cb' = [cb EXCEPT ![l] = q]
            /\ UNCHANGED calls
    /\ UNCHANGED emptied

RemoveFrom(l, f) ==
    /\ Method /\ cb[l].on
    /\ cb' = [cb EXCEPT ![l] = Without(@, f)]
    /\ UNCHANGED <<calls, emptied>>

Disable(l) ==
    /\ Method
    /\ cb' = [cb EXCEPT ![l] = Disabled(@)]
    /\ UNCHANGED <<calls, emptied>>

Empty(l) ==
    /\ Method
    /\ cb' = [cb EXCEPT ![l] = Emptied(@)]
    /\ emptied' = emptied \cup {l}
    /\ UNCHANGED calls

Lock(l) ==
    /\ Method
    /\ cb' = [cb EXCEPT ![l] = Locked(@)]
    /\ UNCHANGED <<calls, emptied>>

\* fireWith(): while the list is firing, the new fire waits its turn.
FireWith(l, v) ==
    LET r == cb[l] IN
    /\ Method /\ CanFire(r)
    /\ IF r.firing
       THEN /\ cb' = [cb EXCEPT ![l].stack = Append(@, v)]
            /\ UNCHANGED calls
       ELSE /\ cb' = [cb EXCEPT ![l] = Fire(r, options[l], v, 0)]
            /\ Enter(l)
    /\ UNCHANGED emptied

-----------------------------------------------------------------------------
(* The loop of fire(). *)

CallNext ==
    /\ calls # <<>> /\ Top.at = "next"
    /\ MoreToCall(cb[Top.list])
    /\ LET r == cb[Top.list] IN
       log' = Append(log, [list |-> Top.list, fn |-> r.list[r.index + 1], value |-> r.value])
    /\ calls' = [calls EXCEPT ![Len(calls)].at = "call"]
    /\ UNCHANGED <<options, cb, ops, emptied>>

\* A function that returns false ends the loop of a list made with stopOnFalse.
FunctionReturns ==
    LET l == Top.list IN
    /\ calls # <<>> /\ Top.at = "call"
    /\ \/ cb' = [cb EXCEPT ![l].index = @ + 1]
       \/ /\ "stopOnFalse" \in options[l]
          /\ cb' = [cb EXCEPT ![l].memory = NoValue, ![l].index = @ + 1, ![l].length = 0]
    /\ calls' = [calls EXCEPT ![Len(calls)].at = "next"]
    /\ UNCHANGED <<options, ops, log, emptied>>

EndOfLoop ==
    LET l == Top.list
        r == Finished(cb[l], options[l])
    IN
    /\ calls # <<>> /\ Top.at = "next"
    /\ ~MoreToCall(cb[l])
    /\ cb' = [cb EXCEPT ![l] = r]
    /\ calls' = IF r.firing THEN calls ELSE Front(calls)
    /\ UNCHANGED <<options, ops, log, emptied>>

\* Nobody catches what a function throws: the lists it leaves stay `firing'.
Throw ==
    /\ MayThrow
    /\ calls # <<>> /\ Top.at = "call"
    /\ calls' = <<>>
    /\ UNCHANGED <<options, cb, ops, log, emptied>>

Init ==
    /\ options \in [Lists -> OptionSets]
    /\ cb = [l \in Lists |-> NewList(options[l])]
    /\ calls = <<>>
    /\ ops = 0
    /\ log = <<>>
    /\ emptied = {}

Next ==
    \/ \E l \in Lists :
          \/ \E f \in Fns : AddTo(l, f) \/ RemoveFrom(l, f)
          \/ FireWith(l, ops + 1)
          \/ Disable(l) \/ Empty(l) \/ Lock(l)
    \/ CallNext \/ FunctionReturns \/ EndOfLoop \/ Throw

Spec == Init /\ [][Next]_vars

-----------------------------------------------------------------------------
(* What the lists promise. *)

\* Type invariant.  The loop of fire() never reaches beyond the list, however
\* the list has been changed by the functions it calls.
TypeOK ==
    /\ options \in [Lists -> OptionSets]
    /\ \A l \in Lists :
          /\ cb[l].list \in Seq(Fns)
          /\ cb[l].index \in -1 .. MaxOps
          /\ cb[l].length \in 0 .. MaxOps
          /\ cb[l].on /\ cb[l].firing => cb[l].length \in {0, Len(cb[l].list)}
          /\ {cb[l].memory, cb[l].value} \subseteq 0 .. MaxOps
          /\ ToSet(cb[l].stack) \subseteq 1 .. MaxOps
    /\ calls \in Seq([list : Lists, at : {"next", "call"}])
    /\ emptied \subseteq Lists

\* What the loop over l has not yet called.
Rest(l) ==
    LET r == cb[l]
        frame(at) == \E i \in DOMAIN calls : calls[i] = [list |-> l, at |-> at]
    IN  IF frame("next") THEN SubSeq(r.list, r.index + 1, r.length)
        ELSE IF frame("call") THEN SubSeq(r.list, r.index + 2, r.length)
        ELSE <<>>

\* remove(), called from a function of the list, takes out the functions it is
\* given and no other: the loop neither skips a function nor calls one again.
RemovalKeepsPlace ==
    [][\A l \in Lists, f \in Fns :
          RemoveFrom(l, f) => Rest(l)' = SelectSeq(Rest(l), LAMBDA g : g # f)]_vars

\* What is added while the list is firing is called in the same round, unless
\* the function that adds it has emptied the list and so lost the loop's place.
AdditionJoinsRound ==
    [][\A l \in Lists, f \in Fns :
          /\ AddTo(l, f) /\ calls # <<>>
          /\ cb[l].index < Len(cb[l].list)
          =>
             Rest(l)' = IF "unique" \in options[l] /\ f \in ToSet(cb[l].list)
                        THEN Rest(l) ELSE Append(Rest(l), f)]_vars

\* Fires are served in the order in which they were asked for: no function sees
\* an older value after a newer one, not even from a fire nested in another.
ValuesInOrder ==
    \A i, j \in DOMAIN log :
       i < j /\ log[i].list = log[j].list => log[i].value <= log[j].value

\* The comment on the option: "will ensure the callback list can only be fired
\* once".
OnceIsOnce ==
    \A i, j \in DOMAIN log :
       log[i].list = log[j].list /\ "once" \in options[log[i].list] =>
          log[i].value = log[j].value

\* The comment on the option "memory": whoever is in the list, added before or
\* after the fire, has been called with the latest value once the page is idle,
\* unless the list was emptied, which loses the loop's place.
MemoryReachesAll ==
    \A l \in Lists \ emptied :
       /\ calls = <<>> /\ cb[l].on /\ ~cb[l].firing /\ cb[l].memory # NoValue
       => \A f \in ToSet(cb[l].list) :
             \E i \in DOMAIN log :
                log[i] = [list |-> l, fn |-> f, value |-> cb[l].memory]

=============================================================================
