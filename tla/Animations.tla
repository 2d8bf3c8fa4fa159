----------------------------- MODULE Animations -----------------------------
(***************************************************************************)
(* The fx queues of jquery-1.10.2.js, the animations and delays in them,   *)
(* and the one timer that drives all animations of the page.               *)
(*                                                                         *)
(* The page has one thread.  A frame of its call stack `calls' is what a   *)
(* call has yet to do; in a "complete" or "promised" frame a function of   *)
(* the page is running, which may start, stop and await animations.        *)
(***************************************************************************)
EXTENDS Integers, Sequences, FiniteSets, SequencesExt

CONSTANTS
    Elems,
    Anims,     \* animations and delays, each made at most once
    Kinds,     \* what they may be: see below
    Promises,  \* calls of promise()
    PageCalls, \* which of "stop", "stopClear", "clearQueue", "finish" the page uses
    Nesting    \* whether it uses them while jQuery is calling it: "none"; "tick",
               \* but not while another of these calls is under way; or "any"

KindsAssumption ==
    Kinds \subseteq {"queued", "instant", "delay", "unqueued", "instantUnqueued", "empty"}
CallsAssumption == PageCalls \subseteq {"stop", "stopClear", "clearQueue", "finish"}
NestAssumption == Nesting \in {"none", "tick", "any"}

VARIABLES
    elem,      \* the element each animation is for, and its kind: "instant" ones
    kind,      \* have no duration, "unqueued" ones are made with queue: false, an
               \* "empty" one has nothing to animate
    astate,    \* none, queued, running; resolved, rejected, dropped
    completed, \* the animations whose complete function has been called
    queue,     \* the fx queue of each element
    hooks,     \* its queueHooks: whether it has them, stop, unqueued, and empty's listeners
    finishing, \* the elements whose data has the finish flag
    armed,     \* the delays whose timeout is running
    timers,    \* jQuery.timers
    ticking,   \* whether jQuery.fx.tick is called at intervals (timerId)
    calls,     \* the call stack
    awaited    \* each promise: none, asked or kept; the elements it waits for; history: the animations

vars == <<elem, kind, astate, completed, queue, hooks, finishing, armed, timers,
          ticking, calls, awaited>>

InProgress == "inprogress"
Nothing == "nothing"
NoHooks == [on |-> FALSE, stop |-> Nothing, unqueued |-> 0, empty |-> <<>>]
Unqueued(a) == kind[a] \in {"unqueued", "instantUnqueued"}
Instant(a) == kind[a] \in {"instant", "instantUnqueued", "empty"}
AtOnce(a) == Unqueued(a) \/ kind[a] = "empty"

Top == Last(calls)
Doing(what) == calls # <<>> /\ Top[1] = what
InPage == calls # <<>> => Top[1] \in {"complete", "promised"}
InStop == \E i \in DOMAIN calls : calls[i][1] \in {"stopLoop", "stopped", "finishLoop", "finished"}
MayStop ==
    /\ InPage
    /\ calls # <<>> => Nesting = "any" \/ (Nesting = "tick" /\ ~InStop)
Then(frames) == calls' = Front(calls) \o frames  \* the last of them comes first

Outstanding(e) == {a \in Anims : elem[a] = e /\ astate[a] \in {"queued", "running"}}

-----------------------------------------------------------------------------
(* Queues *)

\* _queueHooks(): the hooks are made if need be.
Hooked(h) == [h EXCEPT !.on = TRUE]

\* dequeue(): the sentinel gives way to the next function, which is called with
\* a new sentinel in its place; if there is none, hooks.empty is fired.
Dequeue ==
    LET e == Top[2]
        items == IF queue[e] # <<>> /\ Head(queue[e]) = InProgress
                 THEN Tail(queue[e]) ELSE queue[e]
    IN
    /\ Doing("dequeue")
    /\ IF items # <<>>
       THEN /\ queue' = [queue EXCEPT ![e] = <<InProgress>> \o Tail(items)]
            /\ hooks' = [hooks EXCEPT ![e] = [Hooked(@) EXCEPT !.stop = Nothing]]
            /\ Then(<< <<"start", Head(items)>> >>)
       ELSE /\ queue' = [queue EXCEPT ![e] = <<>>]
            /\ hooks' = [hooks EXCEPT ![e] = Hooked(@)]
            /\ Then(<< <<"empty", e>> >>)
    /\ UNCHANGED <<elem, kind, astate, completed, finishing, armed, timers, ticking, awaited>>

\* The promises in s no longer wait for e; those that wait for nobody are kept.
Resolve(s, e) ==
    LET kept == SelectSeq(s, LAMBDA p : awaited[p].left = {e}) IN
    /\ awaited' = [p \in Promises |->
                     IF p \notin ToSet(s) THEN awaited[p]
                     ELSE [awaited[p] EXCEPT !.left = @ \ {e},
                                             !.state = IF p \in ToSet(kept) THEN "kept" ELSE @]]
    /\ Then([i \in DOMAIN kept |-> <<"promised", Reverse(kept)[i]>>])

\* hooks.empty.fire(), unless animations outside the queue are under way: the
\* queue and its hooks are removed, and the promises are resolved.
FireEmpty ==
    LET e == Top[2] IN
    /\ Doing("empty")
    /\ IF hooks[e].unqueued = 0
       THEN /\ queue' = [queue EXCEPT ![e] = <<>>]
            /\ hooks' = [hooks EXCEPT ![e] = NoHooks]
            /\ Resolve(hooks[e].empty, e)
       ELSE Then(<<>>) /\ UNCHANGED <<queue, hooks, awaited>>
    /\ UNCHANGED <<elem, kind, astate, completed, finishing, armed, timers, ticking>>

\* animate() or delay(): the function goes into the queue, which is started if
\* nothing of it is in progress.
Enqueue(a) ==
    LET e == elem[a] IN
    /\ InPage
    /\ astate[a] = "none" /\ ~AtOnce(a)
    /\ astate' = [astate EXCEPT ![a] = "queued"]
    /\ queue' = [queue EXCEPT ![e] = Append(@, a)]
    /\ hooks' = [hooks EXCEPT ![e] = Hooked(@)]
    /\ calls' = IF Head(queue'[e]) = InProgress THEN calls
                ELSE Append(calls, <<"dequeue", e>>)
    /\ UNCHANGED <<elem, kind, completed, finishing, armed, timers, ticking, awaited>>

\* animate() with queue: false, or with nothing to animate: the latter passes by the
\* queue, and its end dequeues all the same.
AnimateNow(a) ==
    /\ InPage
    /\ astate[a] = "none" /\ AtOnce(a)
    /\ calls' = Append(calls, <<"start", a>>)
    /\ UNCHANGED <<elem, kind, astate, completed, queue, hooks, finishing, armed,
                   timers, ticking, awaited>>

\* The timeout of a delay calls next().
DelayOver(d) ==
    /\ calls = <<>> /\ d \in armed
    /\ armed' = armed \ {d}
    /\ astate' = [astate EXCEPT ![d] = "resolved"]
    /\ completed' = completed \cup {d}
    /\ calls' = << <<"dequeue", elem[d]>> >>
    /\ UNCHANGED <<elem, kind, queue, hooks, finishing, timers, ticking, awaited>>

\* Fault: elements that keep no hooks are counted too.
Promise_CountsAll(p, es) ==
    LET busy == {e \in es : hooks[e].on} IN
    /\ InPage
    /\ awaited[p].state = "none"
    /\ hooks' = [e \in Elems |-> IF e \in busy THEN [hooks[e] EXCEPT !.empty = Append(@, p)]
                                ELSE hooks[e]]
    /\ awaited' = [awaited EXCEPT ![p] =
                      [state |-> IF busy = {} THEN "kept" ELSE "asked",
                       left |-> IF busy = {} THEN {} ELSE es, on |-> UNION {Outstanding(e) : e \in es}]]
    /\ calls' = IF busy = {} THEN Append(calls, <<"promised", p>>) ELSE calls
    /\ UNCHANGED <<elem, kind, astate, completed, queue, finishing, armed, timers, ticking>>

\* promise(), of one or more elements: it is resolved when the queues of all of
\* them that keep hooks have been emptied.
Promise(p, es) ==
    LET busy == {e \in es : hooks[e].on} IN
    /\ InPage
    /\ awaited[p].state = "none"
    /\ hooks' = [e \in Elems |-> IF e \in busy THEN [hooks[e] EXCEPT !.empty = Append(@, p)]
                                ELSE hooks[e]]
    /\ awaited' = [awaited EXCEPT ![p] =
                      [state |-> IF busy = {} THEN "kept" ELSE "asked",
                       left |-> busy, on |-> UNION {Outstanding(e) : e \in es}]]
    /\ calls' = IF busy = {} THEN Append(calls, <<"promised", p>>) ELSE calls
    /\ UNCHANGED <<elem, kind, astate, completed, queue, finishing, armed, timers, ticking>>

\* Whoever is taken out of a queue by clearQueue(), stop() or finish().
Drop(s) == [a \in Anims |-> IF a \in ToSet(s) \ {InProgress} THEN "dropped" ELSE astate[a]]

ClearQueue(e) ==
    /\ MayStop
    /\ "clearQueue" \in PageCalls
    /\ queue' = [queue EXCEPT ![e] = <<>>]
    /\ astate' = Drop(queue[e])
    /\ hooks' = [hooks EXCEPT ![e] = Hooked(@)]
    /\ calls' = Append(calls, <<"dequeue", e>>)
    /\ UNCHANGED <<elem, kind, completed, finishing, armed, timers, ticking, awaited>>

-----------------------------------------------------------------------------
(* Animations *)

\* What the end of animation a calls: its complete function, which then
\* dequeues; for one that is in no queue, the hooks come last, or first if it
\* has ended before its complete function was attached.
Ending(a) ==
    IF ~Unqueued(a) THEN << <<"dequeue", elem[a]>>, <<"complete", a>> >>
    ELSE IF Instant(a) THEN << <<"complete", a>>, <<"unqueue", elem[a]>> >>
    ELSE << <<"unqueue", elem[a]>>, <<"complete", a>> >>

\* Animation() or the function of delay(), called by animate() or dequeue().
Start ==
    LET a == Top[2]
        e == elem[a]
        ends == Instant(a) \/ e \in finishing
    IN
    /\ Doing("start")
    /\ IF kind[a] = "delay"
       THEN /\ armed' = armed \cup {a}
            /\ hooks' = [hooks EXCEPT ![e].stop = a]
            /\ astate' = [astate EXCEPT ![a] = "running"]
            /\ Then(<<>>)
            /\ UNCHANGED <<timers, ticking>>
       ELSE /\ astate' = [astate EXCEPT ![a] = IF ends THEN "resolved" ELSE "running"]
            /\ hooks' = IF Unqueued(a)
                        THEN [hooks EXCEPT ![e] = [Hooked(@) EXCEPT !.unqueued = @ + 1]]
                        ELSE hooks
            /\ Then(IF ends THEN Ending(a) ELSE <<>>)
            /\ timers' = IF Instant(a) THEN timers ELSE Append(timers, a)
            /\ ticking' = (ticking \/ ~Instant(a))
            /\ UNCHANGED armed
    /\ UNCHANGED <<elem, kind, completed, queue, finishing, awaited>>

\* The always() function of an animation outside the queue.
Unqueue ==
    LET e == Top[2] IN
    /\ Doing("unqueue")
    /\ hooks' = [hooks EXCEPT ![e].unqueued = @ - 1]
    /\ Then(IF queue[e] = <<>> THEN << <<"empty", e>> >> ELSE <<>>)
    /\ UNCHANGED <<elem, kind, astate, completed, queue, finishing, armed, timers,
                   ticking, awaited>>

\* A function of the page returns; what is below it goes on.
PageReturns ==
    /\ calls # <<>> /\ Top[1] \in {"complete", "promised"}
    /\ completed' = IF Top[1] = "complete" THEN completed \cup {Top[2]} ELSE completed
    /\ Then(<<>>)
    /\ UNCHANGED <<elem, kind, astate, queue, hooks, finishing, armed, timers,
                   ticking, awaited>>

-----------------------------------------------------------------------------
(* jQuery.fx.tick *)

Tick ==
    /\ calls = <<>> /\ ticking
    /\ calls' = << <<"tick", 1>> >>
    /\ UNCHANGED <<elem, kind, astate, completed, queue, hooks, finishing, armed,
                   timers, ticking, awaited>>

\* The end of the loop: without timers the interval is cleared.
TickEnds ==
    /\ Doing("tick") /\ Top[2] > Len(timers)
    /\ ticking' = (timers # <<>>)
    /\ Then(<<>>)
    /\ UNCHANGED <<elem, kind, astate, completed, queue, hooks, finishing, armed,
                   timers, awaited>>

\* The next animation is not over yet, or has been stopped or resolved before.
TickNext ==
    LET i == Top[2] IN
    /\ Doing("tick") /\ i <= Len(timers)
    /\ Then(IF astate[timers[i]] = "running" THEN << <<"tick", i + 1>> >>
            ELSE << <<"ticked", i, timers[i]>> >>)
    /\ UNCHANGED <<elem, kind, astate, completed, queue, hooks, finishing, armed, timers,
                   ticking, awaited>>

\* Its time is over: it is removed when what its end calls has returned.
TickLast(a) ==
    LET i == Top[2] IN
    /\ Doing("tick") /\ i <= Len(timers)
    /\ timers[i] = a /\ astate[a] = "running"
    /\ astate' = [astate EXCEPT ![a] = "resolved"]
    /\ Then(<< <<"ticked", i, a>> >> \o Ending(a))
    /\ UNCHANGED <<elem, kind, completed, queue, hooks, finishing, armed, timers,
                   ticking, awaited>>

\* Fault: whoever has its place by now is removed.
TickRemoves_Place ==
    LET i == Top[2] IN
    /\ Doing("ticked")
    /\ IF i <= Len(timers)
       THEN timers' = RemoveAt(timers, i) /\ Then(<< <<"tick", i>> >>)
       ELSE UNCHANGED timers /\ Then(<< <<"tick", i + 1>> >>)
    /\ UNCHANGED <<elem, kind, astate, completed, queue, hooks, finishing, armed,
                   ticking, awaited>>

TickRemoves ==
    LET i == Top[2] IN
    /\ Doing("ticked")
    /\ IF i <= Len(timers) /\ timers[i] = Top[3]
       THEN timers' = RemoveAt(timers, i) /\ Then(<< <<"tick", i>> >>)
       ELSE UNCHANGED timers /\ Then(<< <<"tick", i + 1>> >>)
    /\ UNCHANGED <<elem, kind, astate, completed, queue, hooks, finishing, armed,
                   ticking, awaited>>

-----------------------------------------------------------------------------
(* stop() and finish() *)

Stop(e, clear, gotoEnd) ==
    /\ MayStop
    /\ (IF clear THEN "stopClear" ELSE "stop") \in PageCalls
    /\ IF clear
       THEN /\ queue' = [queue EXCEPT ![e] = <<>>]
            /\ astate' = Drop(queue[e])
            /\ hooks' = [hooks EXCEPT ![e] = Hooked(@)]
            /\ calls' = calls \o << <<"stopDelay", e, gotoEnd>>, <<"dequeue", e>> >>
       ELSE /\ calls' = Append(calls, <<"stopDelay", e, gotoEnd>>)
            /\ UNCHANGED <<queue, astate, hooks>>
    /\ UNCHANGED <<elem, kind, completed, finishing, armed, timers, ticking, awaited>>

\* hooks.stop clears the timeout of a delay.
StopDelay ==
    LET e == Top[2]
        d == hooks[e].stop
    IN
    /\ Doing("stopDelay")
    /\ armed' = armed \ {d}
    /\ astate' = IF d \in armed THEN [astate EXCEPT ![d] = "rejected"] ELSE astate
    /\ hooks' = [hooks EXCEPT ![e].stop = Nothing]
    /\ Then(<< <<"stopLoop", e, Top[3], Len(timers), TRUE>> >>)
    /\ UNCHANGED <<elem, kind, completed, queue, finishing, timers, ticking, awaited>>

\* The timer at place i is one for e: it forgets its element when it has ended.
TimerOf(i, e) == elem[timers[i]] = e /\ astate[timers[i]] = "running"

\* Animation a is stopped: with gotoEnd it is resolved, otherwise rejected.
StopOne(a, gotoEnd, after) ==
    IF gotoEnd
    THEN /\ astate' = [astate EXCEPT ![a] = "resolved"]
         /\ Then(<<after>> \o Ending(a))
    ELSE /\ astate' = [astate EXCEPT ![a] = "rejected"]
         /\ Then(<<after>> \o (IF Unqueued(a) THEN << <<"unqueue", elem[a]>> >> ELSE <<>>))

\* The loop over the timers, from the last to the first.  Removing animations
\* from within it may have left no timer at this place: then it throws.
StopLoop ==
    LET e == Top[2]
        gotoEnd == Top[3]
        i == Top[4]
        dequeue == Top[5]
    IN
    /\ Doing("stopLoop")
    /\ \/ /\ i = 0
          /\ Then(IF dequeue \/ ~gotoEnd THEN << <<"dequeue", e>> >> ELSE <<>>)
          /\ UNCHANGED astate
       \/ /\ i > Len(timers)
          /\ calls' = <<>> /\ UNCHANGED astate
       \/ /\ i \in DOMAIN timers
          /\ IF TimerOf(i, e)
             THEN StopOne(timers[i], gotoEnd, <<"stopped", e, gotoEnd, i, FALSE>>)
             ELSE Then(<< <<"stopLoop", e, gotoEnd, i - 1, dequeue>> >>) /\ UNCHANGED astate
    /\ UNCHANGED <<elem, kind, completed, queue, hooks, finishing, armed, timers,
                   ticking, awaited>>

\* When the animation's functions have returned, place i is removed.
Stopped ==
    /\ Doing("stopped") \/ Doing("finished")
    /\ timers' = IF Top[4] <= Len(timers) THEN RemoveAt(timers, Top[4]) ELSE timers
    /\ Then(<< [Top EXCEPT ![1] = IF @ = "stopped" THEN "stopLoop" ELSE "finishLoop",
                           ![4] = @ - 1] >>)
    /\ UNCHANGED <<elem, kind, astate, completed, queue, hooks, finishing, armed,
                   ticking, awaited>>

\* finish(): empties the queue and clears the timeout of a delay.
Finish(e) ==
    LET d == hooks[e].stop IN
    /\ MayStop
    /\ "finish" \in PageCalls
    /\ finishing' = finishing \cup {e}
    /\ queue' = [queue EXCEPT ![e] = <<>>]
    /\ armed' = armed \ {d}
    /\ astate' = [a \in Anims |->
                     IF a = d /\ a \in armed THEN "rejected"
                     ELSE IF a \in ToSet(queue[e]) \ {InProgress} /\ kind[a] = "delay"
                     THEN "dropped" ELSE astate[a]]
    /\ calls' = Append(calls, <<"finishLoop", e, queue[e], Len(timers)>>)
    /\ UNCHANGED <<elem, kind, completed, hooks, timers, ticking, awaited>>

\* Its loops: over the timers, and then over the functions the queue held.
FinishLoop ==
    LET e == Top[2]
        old == Top[3]
        i == Top[4]
    IN
    /\ Doing("finishLoop")
    /\ \/ /\ i = 0 /\ old = <<>>
          /\ finishing' = finishing \ {e}
          /\ Then(<<>>) /\ UNCHANGED astate
       \/ /\ i = 0 /\ old # <<>>
          /\ Then(<< <<"finishLoop", e, Tail(old), 0>> >> \o
                  (IF Head(old) \in Anims /\ kind[Head(old)] # "delay"
                   THEN << <<"start", Head(old)>> >> ELSE <<>>))
          /\ UNCHANGED <<astate, finishing>>
       \/ /\ i > Len(timers)
          /\ calls' = <<>> /\ UNCHANGED <<astate, finishing>>
       \/ /\ i \in DOMAIN timers
          /\ IF TimerOf(i, e) /\ ~Unqueued(timers[i])
             THEN StopOne(timers[i], TRUE, <<"finished", e, old, i>>)
             ELSE Then(<< <<"finishLoop", e, old, i - 1>> >>) /\ UNCHANGED astate
          /\ UNCHANGED finishing
    /\ UNCHANGED <<elem, kind, completed, queue, hooks, armed, timers, ticking, awaited>>

Init ==
    /\ elem \in [Anims -> Elems]
    /\ kind \in [Anims -> Kinds]
    /\ astate = [a \in Anims |-> "none"]
    /\ completed = {}
    /\ queue = [e \in Elems |-> <<>>]
    /\ hooks = [e \in Elems |-> NoHooks]
    /\ finishing = {}
    /\ armed = {}
    /\ timers = <<>>
    /\ ticking = FALSE
    /\ calls = <<>>
    /\ awaited = [p \in Promises |-> [state |-> "none", left |-> {}, on |-> {}]]

Steps ==
    Dequeue \/ FireEmpty \/ Start \/ Unqueue \/ PageReturns \/ Tick \/ TickEnds
    \/ TickNext \/ TickRemoves \/ StopDelay \/ StopLoop \/ Stopped \/ FinishLoop

Next ==
    \/ \E a \in Anims : Enqueue(a) \/ AnimateNow(a) \/ DelayOver(a) \/ TickLast(a)
    \/ \E e \in Elems :
          \/ \E clear, gotoEnd \in BOOLEAN : Stop(e, clear, gotoEnd)
          \/ ClearQueue(e) \/ Finish(e)
    \/ \E p \in Promises, es \in SUBSET Elems \ {{}} : Promise(p, es)
    \/ Steps

Spec == Init /\ [][Next]_vars

\* Calls return; the interval timer and the timeouts of delays fire in the end,
\* whatever else the page is called for in between; an animation that is ticked
\* again and again comes to its end.  Each end is that of one of finitely many.
Fairness ==
    WF_vars(Steps) /\ SF_vars(Tick) /\ SF_vars(\E a \in Anims : DelayOver(a) \/ TickLast(a))
FairSpec == Spec /\ Fairness

-----------------------------------------------------------------------------

Idle == calls = <<>>
Over(a) == astate[a] \in {"resolved", "rejected", "dropped"}
Dislodged(e) == \E c \in Anims : elem[c] = e /\ kind[c] = "empty" /\ astate[c] # "none"

\* Type invariant.
TypeOK ==
    /\ elem \in [Anims -> Elems] /\ kind \in [Anims -> Kinds]
    /\ astate \in [Anims -> {"none", "queued", "running", "resolved", "rejected", "dropped"}]
    /\ \A e \in Elems :
          /\ queue[e] \in Seq(Anims \cup {InProgress})
          /\ hooks[e].stop \in Anims \cup {Nothing}
          /\ hooks[e].unqueued \in 0 .. Cardinality(Anims)
          /\ ToSet(hooks[e].empty) \subseteq Promises
    /\ finishing \subseteq Elems
    /\ armed \subseteq Anims /\ completed \subseteq Anims
    /\ timers \in Seq(Anims) /\ ticking \in BOOLEAN
    /\ \A p \in Promises : awaited[p].state = "asked" <=> awaited[p].left # {}

\* The comment in dequeue(): the sentinel is there "to prevent the fx queue from
\* being automatically dequeued", so the queue of an element has one animation
\* or delay under way at a time, as long as no "empty" one was made for it: the end
\* of that takes the sentinel of another away.
OneAtATime ==
    \A a, b \in Anims :
       /\ a # b /\ elem[a] = elem[b]
       /\ astate[a] = "running" /\ astate[b] = "running"
       => Unqueued(a) \/ Unqueued(b) \/ Dislodged(elem[a])

\* Between two events every animation under way is among the timers, and the
\* timers are ticking, whatever was removed from them while they were gone over.
NoneForgotten ==
    Idle => \A a \in Anims :
       astate[a] = "running" /\ kind[a] # "delay" => a \in ToSet(timers) /\ ticking

\* The comment in stop(): if the next in the queue is not started there, then
\* because the complete functions "will dequeue".  A queue that is marked as busy
\* has something under way that will end.
QueueMovesOn ==
    Idle => \A e \in Elems :
       queue[e] # <<>> => \E a \in Anims :
          elem[a] = e /\ astate[a] = "running" /\ ~Unqueued(a)

\* The comment on promise(): it is "resolved when queues of a certain type are
\* emptied", so all that it was to wait for is over and its complete functions
\* have been called; the comment in the prefilter says so of animations that are
\* in no queue.  An "empty" one may empty the queue of its element too early.
PromiseLast ==
    \A p \in Promises : awaited[p].state = "kept" =>
       \A a \in awaited[p].on :
          Dislodged(elem[a]) \/ (Over(a) /\ (astate[a] = "resolved" => a \in completed))

\* An element that nothing is under way for keeps no queue and no hooks.
NoHooksLeft ==
    Idle => \A e \in Elems :
       Outstanding(e) = {} => queue[e] = <<>> /\ hooks[e] = NoHooks

\* The count that keeps an element's promises from being resolved, which the
\* prefilter raises and the end of an animation lowers, is that of the animations
\* under way outside the queue.
UnqueuedExact ==
    Idle => \A e \in Elems :
       hooks[e].unqueued = Cardinality({a \in Anims : elem[a] = e /\ Unqueued(a) /\ astate[a] = "running"})

\* While there is a timer, the interval calls the tick, however the timers came
\* to be removed and added while a tick, a stop() or a finish() went over them.
TimersTicked == timers # <<>> => ticking

\* Every animation comes to an end, also those that are still in the queue: none
\* is waiting or under way for ever.
AllEnd == \A a \in Anims : []<>(astate[a] \notin {"queued", "running"})

\* Every promise is kept: none waits for ever.
PromisesKept == \A p \in Promises : []<>(awaited[p].state # "asked")
=============================================================================
