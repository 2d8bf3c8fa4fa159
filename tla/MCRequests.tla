----------------------------- MODULE MCRequests -----------------------------
(***************************************************************************)
(* What the scripts of the console's pages wait for, one component at a    *)
(* time: callback lists and deferred objects, the requests, queues and     *)
(* animations of jquery.js and the uploads of jquery.form.js.  The         *)
(* components stand side by side; `subject' is the one that moves, and     *)
(* says with which constants.                                              *)
(***************************************************************************)
EXTENDS Integers, Sequences

CONSTANTS
    Subjects,             \* those that are looked at
    l1, f1, f2,           \* a callback list and its functions
    d1, d2, c1,           \* deferred objects
    r1, r2, r3,           \* requests
    u1, u2,               \* uploads
    e1, a1, a2, a3, p1    \* an element, its animations, a call of promise()

VARIABLES
    subject,
    options, listCb, listCalls, listOps, log, emptied,
    defCb, defState, used, remaining, defCalls, defOps, listeners, told, follows, diverted,
    kind, phase, state, transport, live, timer, settled, completed, active, calls, heard, events,
    stage, frame, loads, timers, aborted, frameHeard, processed, promise, handling, uploadCalls,
    called, aborts, uploading, form,
    elem, animKind, astate, animCompleted, queue, hooks, finishing, armed, animTimers, ticking,
    animCalls, awaited

-----------------------------------------------------------------------------

Callbacks == INSTANCE CallbackLists WITH
    Lists <- {l1}, Fns <- {f1, f2}, OptionSets <- SUBSET {"once", "memory", "unique", "stopOnFalse"},
    MaxOps <- 5, MayThrow <- TRUE,
    cb <- listCb, calls <- listCalls, ops <- listOps

\* A deferred object and one made by then(); two, and what when() makes of them
Chained == INSTANCE Deferreds WITH
    Defs <- {d1, c1}, Roots <- {d1}, Given <- {{}, {"done"}, {"done", "fail", "progress"}},
    MaxOps <- 4, MayThrow <- TRUE,
    cb <- defCb, state <- defState, calls <- defCalls, ops <- defOps
Joined == INSTANCE Deferreds WITH
    Defs <- {d1, d2, c1}, Roots <- {d1, d2}, Given <- {{}},
    MaxOps <- 3, MayThrow <- FALSE,
    cb <- defCb, state <- defState, calls <- defCalls, ops <- defOps

\* Three requests of a page whose handlers return; two of one where they need not
Counted == INSTANCE Ajax WITH
    Requests <- {r1, r2, r3}, AbortInSend <- FALSE, MayThrow <- FALSE,
    Kinds <- [global : BOOLEAN, async : {TRUE}, timeout : {FALSE}]
Answered == INSTANCE Ajax WITH
    Requests <- {r1, r2}, AbortInSend <- TRUE, MayThrow <- TRUE,
    Kinds <- [global : BOOLEAN, async : BOOLEAN, timeout : BOOLEAN]

\* Two uploads that are aborted or time out; two that are answered; two whose
\* functions may throw
Raced == INSTANCE FormUpload WITH
    Uploads <- {u1, u2}, Complete <- TRUE, Timeout <- TRUE, Answers <- {"good", "bad"},
    MaxAborts <- 2, MayThrow <- FALSE,
    heard <- frameHeard, calls <- uploadCalls, active <- uploading
Replied == INSTANCE FormUpload WITH
    Uploads <- {u1, u2}, Complete <- TRUE, Timeout <- FALSE, Answers <- {"good", "bad"},
    MaxAborts <- 0, MayThrow <- FALSE,
    heard <- frameHeard, calls <- uploadCalls, active <- uploading
Thrown == INSTANCE FormUpload WITH
    Uploads <- {u1, u2}, Complete <- TRUE, Timeout <- TRUE, Answers <- {"good", "foreign"},
    MaxAborts <- 1, MayThrow <- TRUE,
    heard <- frameHeard, calls <- uploadCalls, active <- uploading

(* Animations: three in the queue of an element; three that ticks go over; *)
(* three of every kind, and promises; two for which the page calls         *)
(* whatever it can, also while it is called.                               *)

AllKinds == {"queued", "instant", "delay", "unqueued", "instantUnqueued", "empty"}

Queued == INSTANCE Animations WITH
    Elems <- {e1}, Anims <- {a1, a2, a3}, Promises <- {p1}, PageCalls <- {"stop"},
    Kinds <- {"queued", "instant", "delay", "empty"}, Nesting <- "none",
    kind <- animKind, completed <- animCompleted, timers <- animTimers, calls <- animCalls
Ticked == INSTANCE Animations WITH
    Elems <- {e1}, Anims <- {a1, a2, a3}, Promises <- {p1}, PageCalls <- {"stop"},
    Kinds <- {"queued", "delay", "unqueued", "empty"}, Nesting <- "tick",
    kind <- animKind, completed <- animCompleted, timers <- animTimers, calls <- animCalls
Promised == INSTANCE Animations WITH
    Elems <- {e1}, Anims <- {a1, a2, a3}, Promises <- {p1}, PageCalls <- {"stop"},
    Kinds <- AllKinds, Nesting <- "none",
    kind <- animKind, completed <- animCompleted, timers <- animTimers, calls <- animCalls
Nested == INSTANCE Animations WITH
    Elems <- {e1}, Anims <- {a1, a2}, Promises <- {p1},
    PageCalls <- {"stop", "stopClear", "clearQueue", "finish"},
    Kinds <- AllKinds, Nesting <- "any",
    kind <- animKind, completed <- animCompleted, timers <- animTimers, calls <- animCalls

-----------------------------------------------------------------------------

ASSUME ComponentsAssumption ==
    /\ Subjects \subseteq {"callbacks", "chained", "joined", "counted", "answered",
                           "raced", "replied", "thrown", "queued", "ticked", "promised", "nested"}
    /\ Callbacks!OptionsAssumption /\ Callbacks!BoundAssumption
    /\ Chained!RootsAssumption /\ Chained!GivenAssumption /\ Chained!BoundAssumption
    /\ Joined!RootsAssumption /\ Joined!GivenAssumption /\ Joined!BoundAssumption
    /\ Counted!KindsAssumption /\ Counted!PageAssumption
    /\ Answered!KindsAssumption /\ Answered!PageAssumption
    /\ Raced!OptionAssumption /\ Replied!OptionAssumption /\ Thrown!OptionAssumption
    /\ Queued!KindsAssumption /\ Queued!CallsAssumption /\ Queued!NestAssumption
    /\ Ticked!KindsAssumption /\ Ticked!CallsAssumption /\ Ticked!NestAssumption
    /\ Promised!KindsAssumption /\ Promised!CallsAssumption /\ Promised!NestAssumption
    /\ Nested!KindsAssumption /\ Nested!CallsAssumption /\ Nested!NestAssumption

-----------------------------------------------------------------------------

lists == <<options, listCb, listCalls, listOps, log, emptied>>
deferreds ==
    <<defCb, defState, used, remaining, defCalls, defOps, listeners, told, follows, diverted>>
requests == <<kind, phase, state, transport, live, timer, settled, completed, active, calls,
              heard, events>>
uploads == <<stage, frame, loads, timers, aborted, frameHeard, processed, promise, handling,
             uploadCalls, called, aborts, uploading, form>>
animations ==
    <<elem, animKind, astate, animCompleted, queue, hooks, finishing, armed, animTimers, ticking,
      animCalls, awaited>>
vars == <<subject, lists, deferreds, requests, uploads, animations>>

\* Which of the animations is which does not matter: it is enough to begin with
\* their kinds in some order.
Ascending(s) == \A i \in 1 .. Len(s) - 1 : s[i] <= s[i + 1]
AnimRank(x) == CASE animKind[x] = "queued" -> 1 [] animKind[x] = "instant" -> 2
                 [] animKind[x] = "delay" -> 3 [] animKind[x] = "unqueued" -> 4
                 [] animKind[x] = "empty" -> 5 [] OTHER -> 6

\* Whatever does not move is in one of its first states.
Init ==
    /\ subject \in Subjects
    /\ Callbacks!Init /\ (subject # "callbacks" => options[l1] = {})
    /\ IF subject = "joined" THEN Joined!Init ELSE Chained!Init
    /\ IF subject = "counted" THEN Counted!Init ELSE Answered!Init
    \* Which of them is which does not matter.
    /\ subject = "counted" => \A q \in {<<r1, r2>>, <<r2, r3>>} :
                                  kind[q[2]].global => kind[q[1]].global
    /\ subject \notin {"counted", "answered"} =>
          \A r \in {r1, r2} : kind[r] = [global |-> TRUE, async |-> TRUE, timeout |-> FALSE]
    /\ Replied!Init  \* of all three
    /\ CASE subject = "ticked" -> Ticked!Init
         [] subject = "promised" -> Promised!Init
         [] subject = "nested" -> Nested!Init
         [] OTHER -> Queued!Init
    /\ IF subject = "nested" THEN Ascending(<<AnimRank(a1), AnimRank(a2)>>)
       ELSE Ascending(<<AnimRank(a1), AnimRank(a2), AnimRank(a3)>>)
    /\ subject \notin {"queued", "ticked", "promised", "nested"} =>
          \A x \in {a1, a2, a3} : animKind[x] = "queued"

Next ==
    \/ /\ \/ subject = "callbacks" /\ Callbacks!Next
       /\ UNCHANGED <<subject, deferreds, requests, uploads, animations>>
    \/ /\ \/ subject = "chained" /\ Chained!Next
          \/ subject = "joined" /\ Joined!Next
       /\ UNCHANGED <<subject, lists, requests, uploads, animations>>
    \/ /\ \/ subject = "counted" /\ Counted!Next
          \/ subject = "answered" /\ Answered!Next
       /\ UNCHANGED <<subject, lists, deferreds, uploads, animations>>
    \/ /\ \/ subject = "raced" /\ Raced!Next
          \/ subject = "replied" /\ Replied!Next
          \/ subject = "thrown" /\ Thrown!Next
       /\ UNCHANGED <<subject, lists, deferreds, requests, animations>>
    \/ /\ \/ subject = "queued" /\ Queued!Next
          \/ subject = "ticked" /\ Ticked!Next
          \/ subject = "promised" /\ Promised!Next
          \/ subject = "nested" /\ Nested!Next
       /\ UNCHANGED <<subject, lists, deferreds, requests, uploads>>

Spec == Init /\ [][Next]_vars

-----------------------------------------------------------------------------
(* What each of them promises, with its type invariant; its module says it *)
(* of the component alone.                                                 *)

\* The functions of a callback list are called with the values in order, once
\* if the list is a "once", and with the latest value if it has "memory"; a loop
\* that they remove functions from skips nothing and repeats nothing, and what
\* they add is called in the same round.
ListsCallAll ==
    /\ [](subject = "callbacks" =>
              /\ Callbacks!TypeOK
              /\ Callbacks!ValuesInOrder /\ Callbacks!OnceIsOnce /\ Callbacks!MemoryReachesAll)
    /\ Callbacks!RemovalKeepsPlace
    /\ Callbacks!AdditionJoinsRound

\* Whoever listens for the outcome of a deferred object is told of it, in the
\* order in which they came; the promises that then() and when() return end as
\* those they follow; progress() hears nothing that was sent after the outcome.
EveryoneHears ==
    /\ [](subject = "chained" =>
              /\ Chained!TypeOK
              /\ Chained!EveryoneTold /\ Chained!ToldInOrder /\ Chained!FollowersAgree)
    /\ [](subject = "joined" => Joined!TypeOK /\ Joined!EveryoneTold /\ Joined!FollowersAgree)
    /\ [][subject = "chained" => Chained!NewsBeforeOutcome]_vars

\* Refinement: a deferred object is a promise as Promises describes it.
KeepsPromise ==
    /\ subject = "chained" => Chained!Promise!Init
    /\ [][subject = "chained" => [Chained!Promise!Next]_(Chained!Promise!vars)]_vars

\* jQuery.active counts the requests under way, and ajaxStart and ajaxStop
\* alternate; the handlers of a request hear of one outcome, whatever they do or
\* throw, and neither an answer nor the timeout comes for one that is done.
RequestsAnswered ==
    /\ subject = "counted" => Counted!TypeOK /\ Counted!ActiveExact /\ Counted!StartStopAlternate
    /\ subject = "answered" => Answered!TypeOK /\ Answered!OneAnswer /\ Answered!NoLateAnswer

\* An upload whose answer, timeout and aborts race, also in the functions that are
\* called, is told of one outcome and of those it is aborted for, nothing comes
\* after its end, its promise tells the same, and the form is as the page made it;
\* jQuery.active counts those that are answered while they are under way, and no
\* frame of them stays; with functions that throw no answer is told twice.
UploadsAnswered ==
    /\ [](subject = "raced" =>
              Raced!TypeOK /\ Raced!OneOutcome /\ Raced!PromiseAgrees /\ Raced!FormAsBefore)
    /\ [](subject = "replied" =>
              Replied!TypeOK /\ Replied!OneOutcome /\ Replied!ActiveExact /\ Replied!FramesGone)
    /\ [](subject = "thrown" => Thrown!TypeOK /\ Thrown!AnsweredOnce)
    /\ Raced!NothingAfterEnd

\* The queue of an element has one animation under way, moves on while it is
\* not empty, and leaves no hooks; a tick whose functions change the timers
\* forgets no animation, and those outside the queue are counted exactly;
\* promise() is kept when all it waits for is over; the interval runs while there
\* is a timer.
QueuesRun ==
    /\ subject = "queued" =>
          Queued!TypeOK /\ Queued!OneAtATime /\ Queued!QueueMovesOn /\ Queued!NoHooksLeft
    /\ subject = "ticked" => Ticked!TypeOK /\ Ticked!NoneForgotten /\ Ticked!UnqueuedExact
    /\ subject = "promised" => Promised!TypeOK /\ Promised!PromiseLast
    /\ subject = "nested" => Nested!TypeOK /\ Nested!TimersTicked
=============================================================================
