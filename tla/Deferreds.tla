----------------------------- MODULE Deferreds -----------------------------
(***************************************************************************)
(* jQuery.Deferred and jQuery.when of jquery-1.10.2.js.  A deferred object *)
(* is three callback lists, done, fail and progress, and a state; then()   *)
(* makes another one that follows it, and when() one that waits for many.  *)
(*                                                                         *)
(* The page has one thread, and its call stack is `calls'.  A frame either *)
(* fires a list, being at "next" between two of its functions and at       *)
(* "call" while a function of the page runs, or is a "script": calls of    *)
(* methods that the code makes one after the other.  A function of the     *)
(* page may use any deferred object before it returns.                     *)
(***************************************************************************)
EXTENDS CallbackOps

CONSTANTS
    Defs,     \* deferred objects
    Roots,    \* those the page makes and settles itself; then() and when() make the others
    Given,    \* the sets of kinds for which then() is given functions
    MaxOps,   \* bound: calls made by the page
    MayThrow  \* whether a function of the page may throw

RootsAssumption == Roots \subseteq Defs /\ IsFiniteSet(Defs)
GivenAssumption == Given \subseteq SUBSET {"done", "fail", "progress"}
BoundAssumption == MaxOps \in Nat /\ MayThrow \in BOOLEAN

VARIABLES
    cb,         \* the lists of each deferred object
    state,      \* what its state() answers
    used,       \* the objects that have been made
    remaining,  \* when(): how many subordinates each master waits for
    calls,      \* the call stack
    ops,        \* calls made by the page; each names its functions and values
    listeners,  \* history: the functions of the page, with the list they were added to
    told,       \* history: the calls of those of done and fail, with their values
    follows,    \* history: the objects each object made by then() or when() depends on
    diverted    \* history: those that may also follow what a progress function returned

history == <<listeners, told, follows, diverted>>
vars == <<cb, state, used, remaining, calls, ops, history>>

Kinds == {"done", "fail", "progress"}
Lists == Defs \X Kinds
Flags(l) == IF l[2] = "progress" THEN {"memory"} ELSE {"once", "memory"}
Outcome(kind) == IF kind = "done" THEN "resolved" ELSE "rejected"

-----------------------------------------------------------------------------
(* The functions of a list.  The page's own are <<"page", n>>, and those   *)
(* that then() wraps are <<"then", child, kind, n>>, n being 0 if the page *)
(* gave none for this list.  The others are the code's.                    *)

\* Fault: settling does not disable the list of the other outcome.
MadeLists_Undisabled(d) ==
    [k \in Kinds |->
        LET new == NewList(Flags(<<d, k>>)) IN
        IF k = "progress" THEN new
        ELSE [new EXCEPT !.list = << <<"state", d, Outcome(k)>>, <<"lock", d, "progress">> >>]]

\* The lists a deferred object starts with: the first functions called when it
\* is settled set the state, disable the other list and lock the third.
MadeLists(d) ==
    [k \in Kinds |->
        LET new == NewList(Flags(<<d, k>>))
            other == IF k = "done" THEN "fail" ELSE "done"
        IN  IF k = "progress" THEN new
            ELSE [new EXCEPT !.list = << <<"state", d, Outcome(k)>>,
                                         <<"disable", d, other>>,
                                         <<"lock", d, "progress">> >>]]

Top == Last(calls)
InScript == calls # <<>> => Top.at = "call"

Frame(l) == [list |-> l, at |-> "next", todo |-> <<>>]
Script(todo) == [list |-> <<>>, at |-> "script", todo |-> todo]

\* The list's add(f), called while the lists are c and the stack is s.
DoAdd(c, s, l, f) ==
    LET r == c[l]
        q == Pushed(r, Flags(l), f)
    IN
    IF ~r.on
    THEN cb' = c /\ calls' = s
    ELSE IF CatchesUp(r)
    THEN /\ cb' = [c EXCEPT ![l] = Fire(q, Flags(l), r.memory, Len(r.list))]
         /\ calls' = Append(s, Frame(l))
    ELSE cb' = [c EXCEPT ![l] = q] /\ calls' = s

\* The list's fireWith(v): resolve, reject or notify.
DoFire(c, s, l, v) ==
    LET r == c[l] IN
    IF ~CanFire(r)
    THEN cb' = c /\ calls' = s
    ELSE IF r.firing
    THEN cb' = [c EXCEPT ![l].stack = Append(@, v)] /\ calls' = s
    ELSE /\ cb' = [c EXCEPT ![l] = Fire(r, Flags(l), v, 0)]
         /\ calls' = Append(s, Frame(l))

-----------------------------------------------------------------------------
(* What the page calls: from an event, or from a function that is running. *)

PageCalls(todo) ==
    /\ InScript /\ ops < MaxOps
    /\ ops' = ops + 1
    /\ calls' = Append(calls, Script(todo))
    /\ UNCHANGED <<cb, state, told>>

\* resolve, reject or notify.
Signal(d, k) ==
    /\ d \in Roots
    /\ PageCalls(<< <<"fire", <<d, k>>, ops + 1>> >>)
    /\ UNCHANGED <<used, remaining, listeners, follows, diverted>>

\* done, fail or progress.
Listen(d, k) ==
    /\ d \in used
    /\ PageCalls(<< <<"add", <<d, k>>, <<"page", ops + 1>>>> >>)
    /\ listeners' = listeners \cup {<<d, k, ops + 1>>}
    /\ UNCHANGED <<used, remaining, follows, diverted>>

\* always: the same function, added to done and then to fail.
Always(d) ==
    /\ d \in used
    /\ PageCalls([i \in 1 .. 2 |->
          <<"add", <<d, <<"done", "fail">>[i]>>, <<"page", ops + 1>>>>])
    /\ listeners' = listeners \cup {<<d, "done", ops + 1>>, <<d, "fail", ops + 1>>}
    /\ UNCHANGED <<used, remaining, follows, diverted>>

\* The calls of add() by which child c follows d with the functions f.
Following(d, c, f) ==
    [i \in 1 .. 3 |-> LET k == <<"done", "fail", "progress">>[i]
                      IN  <<"add", <<d, k>>, <<"then", c, k, f[k]>>>>]

\* then(), with a function for each of the kinds given.
Then(d, c, given) ==
    /\ d \in used /\ c \in Defs \ used
    /\ PageCalls(Following(d, c, [k \in Kinds |-> IF k \in given THEN ops + 1 ELSE 0]))
    /\ used' = used \cup {c}
    /\ follows' = [follows EXCEPT ![c] = {d}]
    /\ UNCHANGED <<remaining, listeners, diverted>>

\* Fault: only the subordinates that have been looked at are counted.
When_CountsUp(subs, m) ==
    LET s == SetToSeq(subs) IN
    /\ subs \subseteq used /\ m \in Defs \ used
    /\ PageCalls(Append(
          FlattenSeq([i \in 1 .. Len(s) |->
             << <<"expect", m>>,
                <<"add", <<s[i], "done">>, <<"count", m>>>>,
                <<"add", <<s[i], "fail">>, <<"signal", m, "fail">>>>,
                <<"add", <<s[i], "progress">>, <<"signal", m, "progress">>>> >>]),
          <<"resolveIfNone", m>>))
    /\ used' = used \cup {m}
    /\ remaining' = [remaining EXCEPT ![m] = 0]
    /\ follows' = [follows EXCEPT ![m] = subs]
    /\ UNCHANGED <<listeners, diverted>>

\* The calls of add() by which master m waits for the subordinates s.
Awaiting(s, m) ==
    [i \in 1 .. 3 * Len(s) |->
        LET d == s[(i + 2) \div 3] IN
        IF i % 3 = 1 THEN <<"add", <<d, "done">>, <<"count", m>>>>
        ELSE IF i % 3 = 2 THEN <<"add", <<d, "fail">>, <<"signal", m, "fail">>>>
        ELSE <<"add", <<d, "progress">>, <<"signal", m, "progress">>>>]

\* when(), with two or more arguments, those that are no promises left out:
\* they are counted off while the arguments are gone through.
When(subs, m) ==
    /\ subs \subseteq used /\ m \in Defs \ used
    /\ PageCalls(Append(Awaiting(SetToSeq(subs), m), <<"resolveIfNone", m>>))
    /\ used' = used \cup {m}
    /\ remaining' = [remaining EXCEPT ![m] = Cardinality(subs)]
    /\ follows' = [follows EXCEPT ![m] = subs]
    /\ UNCHANGED <<listeners, diverted>>

\* The next call of a script.
RunScript ==
    /\ calls # <<>> /\ Top.at = "script"
    /\ UNCHANGED <<state, used, ops, history>>
    /\ IF Top.todo = <<>>
       THEN calls' = Front(calls) /\ UNCHANGED <<cb, remaining>>
       ELSE LET do == Head(Top.todo)
                s == [calls EXCEPT ![Len(calls)].todo = Tail(@)]
            IN
            \/ do[1] = "add" /\ DoAdd(cb, s, do[2], do[3]) /\ UNCHANGED remaining
            \/ do[1] = "fire" /\ DoFire(cb, s, do[2], do[3]) /\ UNCHANGED remaining
            \/ /\ do[1] = "expect"
               /\ remaining' = [remaining EXCEPT ![do[2]] = @ + 1]
               /\ calls' = s /\ UNCHANGED cb
            \/ /\ do[1] = "resolveIfNone"
               /\ IF remaining[do[2]] = 0
                  THEN DoFire(cb, s, <<do[2], "done">>, ops + 1)
                  ELSE calls' = s /\ UNCHANGED cb
               /\ UNCHANGED remaining

-----------------------------------------------------------------------------
(* The loop of fire(). *)

Firing == calls # <<>> /\ Top.at = "next"
Fn == cb[Top.list].list[cb[Top.list].index + 1]
FiredWith == cb[Top.list].value

\* The lists once the running function has returned.
Passed == [cb EXCEPT ![Top.list].index = @ + 1]

\* A function of the code's own is called and returns.
CallOwn ==
    /\ Firing /\ MoreToCall(cb[Top.list])
    /\ Fn[1] \in {"state", "disable", "lock", "signal", "count"}
    /\ state' = IF Fn[1] = "state" THEN [state EXCEPT ![Fn[2]] = Fn[3]] ELSE state
    /\ remaining' = IF Fn[1] = "count" THEN [remaining EXCEPT ![Fn[2]] = @ - 1] ELSE remaining
    /\ \/ Fn[1] = "state" /\ cb' = Passed /\ UNCHANGED calls
       \/ /\ Fn[1] = "disable"
          /\ cb' = [Passed EXCEPT ![<<Fn[2], Fn[3]>>] = Disabled(@)] /\ UNCHANGED calls
       \/ /\ Fn[1] = "lock"
          /\ cb' = [Passed EXCEPT ![<<Fn[2], Fn[3]>>] = Locked(@)] /\ UNCHANGED calls
       \/ Fn[1] = "signal" /\ DoFire(Passed, calls, <<Fn[2], Fn[3]>>, FiredWith)
       \/ /\ Fn[1] = "count"
          /\ IF remaining[Fn[2]] = 1
             THEN DoFire(Passed, calls, <<Fn[2], "done">>, FiredWith)
             ELSE cb' = Passed /\ UNCHANGED calls
    /\ UNCHANGED <<used, ops, history>>

\* then() without a function: the child is signalled the same way.
Forward ==
    /\ Firing /\ MoreToCall(cb[Top.list])
    /\ Fn[1] = "then" /\ Fn[4] = 0
    /\ DoFire(Passed, calls, <<Fn[2], Fn[3]>>, FiredWith)
    /\ UNCHANGED <<state, used, remaining, ops, history>>

\* A function of the page is called.
CallPage ==
    /\ Firing /\ MoreToCall(cb[Top.list])
    /\ \/ /\ Fn[1] = "page"
          /\ told' = IF Top.list[2] = "progress" THEN told
                     ELSE Append(told, <<Top.list[1], Top.list[2], Fn[2], FiredWith>>)
       \/ Fn[1] = "then" /\ Fn[4] # 0 /\ UNCHANGED told
    /\ calls' = [calls EXCEPT ![Len(calls)].at = "call"]
    /\ UNCHANGED <<cb, state, used, remaining, ops, listeners, follows, diverted>>

PageReturns ==
    LET s == [calls EXCEPT ![Len(calls)].at = "next"] IN
    /\ calls # <<>> /\ Top.at = "call"
    /\ \/ Fn[1] = "page" /\ cb' = Passed /\ calls' = s /\ UNCHANGED <<follows, diverted>>
       \* A value: the child is signalled the way the parent was.
       \/ /\ Fn[1] = "then"
          /\ DoFire(Passed, s, <<Fn[2], Fn[3]>>, Fn[4])
          /\ UNCHANGED <<follows, diverted>>
       \* A promise p, one that the page settles itself: the child follows p.
       \/ /\ Fn[1] = "then"
          /\ \E p \in Roots :
                /\ cb' = Passed
                /\ calls' = Append(s, Script(Following(p, Fn[2], [k \in Kinds |-> 0])))
                /\ IF Fn[3] = "progress"
                   THEN diverted' = diverted \cup {Fn[2]} /\ UNCHANGED follows
                   ELSE follows' = [follows EXCEPT ![Fn[2]] = {p}] /\ UNCHANGED diverted
    /\ UNCHANGED <<state, used, remaining, ops, listeners, told>>

EndOfLoop ==
    LET r == Finished(cb[Top.list], Flags(Top.list)) IN
    /\ Firing /\ ~MoreToCall(cb[Top.list])
    /\ cb' = [cb EXCEPT ![Top.list] = r]
    /\ calls' = IF r.firing THEN calls ELSE Front(calls)
    /\ UNCHANGED <<state, used, remaining, ops, history>>

\* Nobody catches what a function throws: the lists it leaves stay `firing'.
Throw ==
    /\ MayThrow
    /\ calls # <<>> /\ Top.at = "call"
    /\ calls' = <<>>
    /\ UNCHANGED <<cb, state, used, remaining, ops, history>>

Init ==
    /\ cb = [l \in Lists |-> MadeLists(l[1])[l[2]]]
    /\ state = [d \in Defs |-> "pending"]
    /\ used = Roots
    /\ remaining = [d \in Defs |-> 0]
    /\ calls = <<>>
    /\ ops = 0
    /\ listeners = {}
    /\ told = <<>>
    /\ follows = [d \in Defs |-> {}]
    /\ diverted = {}

Next ==
    \/ \E d \in Defs : Always(d) \/ \E k \in Kinds : Signal(d, k) \/ Listen(d, k)
    \/ \E d, c \in Defs : \E given \in Given : Then(d, c, given)
    \/ \E m \in Defs, subs \in SUBSET Defs : When(subs, m)
    \/ RunScript \/ CallOwn \/ Forward \/ CallPage \/ PageReturns \/ EndOfLoop \/ Throw

Spec == Init /\ [][Next]_vars

-----------------------------------------------------------------------------
(* What deferred objects promise. *)

\* Type invariant.
TypeOK ==
    /\ state \in [Defs -> {"pending", "resolved", "rejected"}]
    /\ Roots \subseteq used /\ used \subseteq Defs
    /\ remaining \in [Defs -> 0 .. Cardinality(Defs)]
    /\ \A i \in DOMAIN calls : calls[i].at # "script" => cb[calls[i].list].firing
    /\ \A l \in Lists : cb[l].on /\ cb[l].firing => cb[l].length = Len(cb[l].list)
    /\ listeners \subseteq Defs \X Kinds \X (1 .. MaxOps)
    /\ ToSet(told) \subseteq Defs \X {"done", "fail"} \X (1 .. MaxOps) \X (1 .. MaxOps)
    /\ follows \in [Defs -> SUBSET Defs]
    /\ diverted \subseteq Defs

\* The page is idle, and no function has thrown.
Settled == calls = <<>> /\ \A l \in Lists : ~cb[l].firing

WasTold(l) == \E i \in DOMAIN told : \A j \in 1 .. 3 : told[i][j] = l[j]

\* Whoever listens for the outcome a promise has, whether added before or after
\* it was settled, or while others are being told, has been told.
EveryoneTold ==
    Settled => \A l \in listeners :
        l[2] # "progress" /\ state[l[1]] = Outcome(l[2]) => WasTold(l)

\* Listeners of one list are told in the order in which they were added.
ToldInOrder ==
    \A i, j \in DOMAIN told :
       i < j /\ told[i][1] = told[j][1] /\ told[i][2] = told[j][2] => told[i][3] < told[j][3]

\* What then() returns takes the outcome of the parent, or of the promise the
\* page's function returned; what when() returns is resolved with the last of
\* its subordinates and rejected with the first.
FollowersAgree ==
    Settled => \A c \in used \ (Roots \cup diverted) :
        state[c] = IF \E p \in follows[c] : state[p] = "rejected" THEN "rejected"
                   ELSE IF \A p \in follows[c] : state[p] = "resolved" THEN "resolved"
                   ELSE "pending"

\* Nobody hears news of a promise that were sent after it was settled, not even
\* those that had to wait for a notification under way.
NewsBeforeOutcome ==
    \A d \in Defs :
       cb'[<<d, "progress">>].value # cb[<<d, "progress">>].value
          => state[d] = "pending"

\* done and fail are the listeners of Promises.
Promise == INSTANCE Promises WITH
    value <- [d \in Defs |->
                 IF state[d] = "resolved" THEN cb[<<d, "done">>].memory
                 ELSE IF state[d] = "rejected" THEN cb[<<d, "fail">>].memory ELSE NoValue],
    waiting <- {l \in listeners : l[2] # "progress" /\ ~WasTold(l)}

\* Deferred objects keep what Promises says of them, whatever their listeners
\* call, return or throw.
KeepsPromise == Promise!Spec
=============================================================================
