------------------------------- MODULE Events -------------------------------
(***************************************************************************)
(* jQuery.event of jquery-1.10.2.js: the handlers of the nodes of a page,  *)
(* the one native listener per node and type that stands for them, and the *)
(* events that are dispatched to them, those of the user and those of      *)
(* trigger(), whose default action may raise the native event again.       *)
(*                                                                         *)
(* The page has one thread; `calls' is its call stack.  An "event" frame   *)
(* takes an event up the tree, a "dispatch" frame above it calls the       *)
(* handlers of one node, and in a "page" frame a handler is running, which *)
(* may bind, unbind and trigger.                                           *)
(***************************************************************************)
EXTENDS Integers, Sequences, FiniteSets, SequencesExt

CONSTANTS
    Depth,     \* the nodes, from the innermost, 1, to the document, Depth
    Types,     \* types of events
    Native,    \* those that elements have a method for, such as click()
    Focusing,  \* those whose listener is one of the document (focusin, focusout)
    Inline,    \* the nodes that have an "on..." attribute for the native types
    Handlers,
    Kinds,     \* what handlers are bound as: [home, type, sel, once]
    MaxEvents

Nodes == 1 .. Depth

DepthAssumption == Depth \in Nat \ {0} /\ MaxEvents \in Nat
TypesAssumption == Native \subseteq Types /\ Focusing \subseteq Types \ Native
InlineAssumption == Inline \subseteq Nodes
\* A handler is delegated to the node its selector selects, or to none, 0.
KindsAssumption ==
    /\ Kinds \subseteq [home : Nodes, type : Types, sel : 0 .. Depth - 1, once : BOOLEAN]
    /\ \A k \in Kinds : k.sel < k.home

VARIABLES
    kind,
    list,      \* the handlers of each node and type, those with a selector in front
    delegates, \* delegateCount of each list
    attached,  \* the nodes and types with a native listener
    attaches,  \* how many nodes want the listener of the document, by type
    captured,  \* the types it has been added for
    triggered, \* jQuery.event.triggered
    calls,     \* the call stack
    used,      \* the handlers that have been bound; each is bound once
    events,    \* how many events there have been
    spent,     \* history: the handlers unbound, or of one() and called
    again,     \* history: what was called twice by one event at one node
    late,      \* history: handlers called by an event later than their end
    skipped    \* history: handlers that a dispatch missed

bindings == <<list, delegates, attached, attaches, captured>>
history == <<spent, again, late, skipped>>
vars == <<kind, bindings, triggered, calls, used, events, history>>

None == "none"
OnAttribute == "on..."  \* stands for the function of the attribute
Top == Last(calls)
Doing(what) == calls # <<>> /\ Top.what = what
InPage == calls # <<>> => Top.what = "page"
Push(f) == calls' = Append(calls, f)
Pop == calls' = Front(calls)

\* The event that the handler on top of the stack has been called with.
EventAt == CHOOSE i \in DOMAIN calls :
              calls[i].what = "event" /\ \A j \in i + 1 .. Len(calls) : calls[j].what # "event"
Event == calls[EventAt]

-----------------------------------------------------------------------------
(* on() and off() *)

\* What is left of list s when those in gone are spliced out of it.
Without(s, gone) ==
    LET rest[i \in 0 .. Len(s)] ==
            IF i = 0 THEN <<>>
            ELSE IF s[i] \in gone THEN rest[i - 1] ELSE Append(rest[i - 1], s[i])
    IN rest[Len(s)]

\* jQuery.event.add: with the first handler of its type the node gets a
\* listener, or setup() counts it.
Bind(h) ==
    LET n == kind[h].home
        t == kind[h].type
        d == delegates[n][t]
        first == list[n][t] = <<>>
        direct == kind[h].sel = 0
    IN
    /\ InPage /\ h \notin used
    /\ used' = used \cup {h}
    /\ list' = [list EXCEPT ![n][t] = IF direct THEN Append(@, h) ELSE InsertAt(@, d + 1, h)]
    /\ delegates' = [delegates EXCEPT ![n][t] = IF direct THEN @ ELSE @ + 1]
    /\ attached' = IF first /\ t \notin Focusing THEN attached \cup {<<n, t>>} ELSE attached
    /\ attaches' = [attaches EXCEPT ![t] = IF first /\ t \in Focusing THEN @ + 1 ELSE @]
    /\ captured' = IF first /\ t \in Focusing THEN captured \cup {t} ELSE captured
    /\ UNCHANGED <<kind, triggered, calls, events, history>>

\* jQuery.event.remove of the handlers in gone: where the last one of a list has
\* gone, the listener or teardown() follows.
Removed(gone) ==
    LET left == [n \in Nodes |-> [t \in Types |-> Without(list[n][t], gone)]]
        emptied == {l \in Nodes \X Types : list[l[1]][l[2]] # <<>> /\ left[l[1]][l[2]] = <<>>}
    IN
    /\ list' = left
    /\ delegates' = [n \in Nodes |-> [t \in Types |-> delegates[n][t] -
                        Cardinality({h \in ToSet(list[n][t]) \cap gone : kind[h].sel # 0})]]
    /\ attached' = attached \ emptied
    /\ attaches' = [t \in Types |-> IF t \in Focusing
                                    THEN attaches[t] - Cardinality({n \in Nodes : <<n, t>> \in emptied})
                                    ELSE attaches[t]]
    /\ captured' = {t \in captured : attaches'[t] > 0}
    /\ spent' = spent \cup gone

Bound == UNION {ToSet(list[n][t]) : n \in Nodes, t \in Types}

\* off() of one handler
Unbind(h) ==
    /\ InPage /\ h \in Bound
    /\ Removed({h})
    /\ UNCHANGED <<kind, triggered, calls, used, events, again, late, skipped>>

\* off() of a node, with which cleanData() ends too when the node is removed
UnbindAll(n) ==
    LET gone == UNION {ToSet(list[n][t]) : t \in Types} IN
    /\ InPage /\ gone # {}
    /\ Removed(gone)
    /\ UNCHANGED <<kind, triggered, calls, used, events, again, late, skipped>>

-----------------------------------------------------------------------------
(* Events *)

NewEvent(t, n, native, only) ==
    [what |-> "event", type |-> t, target |-> n, native |-> native, only |-> only,
     refired |-> FALSE, at |-> n, half |-> 1, stop |-> 0, immediate |-> FALSE,
     prevented |-> FALSE, called |-> {}, before |-> spent]

\* What the user does: a native event, or the focus that the document listens to.
UserEvent(t, n) ==
    /\ calls = <<>> /\ events < MaxEvents
    /\ t \in Focusing => t \in captured
    /\ events' = events + 1
    /\ Push(NewEvent(t, n, t \notin Focusing, FALSE))
    /\ UNCHANGED <<kind, bindings, triggered, used, history>>

\* trigger(), and triggerHandler() with only
Trigger(t, n, only) ==
    /\ InPage /\ events < MaxEvents
    /\ events' = events + 1
    /\ Push(NewEvent(t, n, FALSE, only))
    /\ UNCHANGED <<kind, bindings, triggered, used, history>>

\* jQuery.event.handlers: the delegated handlers of the nodes below, from the
\* target up, and a copy of the others.
HandlerQueue(n, t, target) ==
    LET s == list[n][t]
        d == delegates[n][t]
        At(e, hs) == [i \in DOMAIN hs |-> <<e, hs[i]>>]
        Below(e) == At(e, Without(SubSeq(s, 1, d), {h \in Handlers : kind[h].sel # e}))
    IN FlattenSeq([i \in 1 .. n - target |-> Below(target + i - 1)])
       \o At(n, SubSeq(s, d + 1, Len(s)))

DispatchFrame(n, t, target) ==
    [what |-> "dispatch", node |-> n, queue |-> HandlerQueue(n, t, target), cur |-> 0,
     due |-> ToSet(SubSeq(list[n][t], delegates[n][t] + 1, Len(list[n][t])))]

\* The event goes on to its next listener: trigger() calls a node's handlers
\* before its attribute, the browser the other way round.
Onward(ev) == IF ev.half = 1 THEN [ev EXCEPT !.half = 2] ELSE [ev EXCEPT !.half = 1, !.at = @ + 1]
AtHandlers(ev) == (ev.half = 1) = ~ev.native
PathOver(ev) ==
    ev.half = 1 /\ (ev.stop # 0 \/ ev.at > Depth \/ (ev.only /\ ev.at > ev.target))

\* elemData.handle: the event that a default action raises is discarded.
VisitHandlers ==
    LET ev == Top IN
    /\ Doing("event") /\ ~PathOver(ev) /\ AtHandlers(ev)
    /\ LET heard == IF ev.native THEN <<ev.at, ev.type>> \in attached ELSE list[ev.at][ev.type] # <<>>
       IN calls' = Front(calls) \o <<Onward(ev)>> \o
                   (IF heard /\ triggered # ev.type
                    THEN <<DispatchFrame(ev.at, ev.type, ev.target)>> ELSE <<>>)
    /\ UNCHANGED <<kind, bindings, triggered, used, events, history>>

\* The attribute, which the target does not have while trigger() calls its method.
VisitAttribute ==
    LET ev == Top
        there == ev.at \in Inline /\ ev.type \in Native /\ ~(ev.refired /\ ev.at = ev.target)
        call == <<ev.at, OnAttribute>>
    IN
    /\ Doing("event") /\ ~PathOver(ev) /\ ~AtHandlers(ev)
    /\ IF there
       THEN /\ again' = IF call \in ev.called THEN again \cup {call} ELSE again
            /\ calls' = Front(calls) \o << [Onward(ev) EXCEPT !.called = @ \cup {call}],
                                           [what |-> "page", elem |-> ev.at, h |-> OnAttribute] >>
       ELSE calls' = Append(Front(calls), Onward(ev)) /\ UNCHANGED again
    /\ UNCHANGED <<kind, bindings, triggered, used, events, spent, late, skipped>>

\* The end of the path.  Unless it was prevented, trigger() calls the method of
\* the target, and the native event goes up the same path.
PathEnds ==
    LET ev == Top
        method == ~ev.native /\ ~ev.only /\ ~ev.prevented /\ ev.type \in Native
    IN
    /\ Doing("event") /\ PathOver(ev)
    /\ IF method
       THEN /\ triggered' = ev.type
            /\ calls' = Append(Front(calls), [ev EXCEPT !.native = TRUE, !.refired = TRUE,
                                                        !.at = ev.target, !.stop = 0,
                                                        !.immediate = FALSE])
       ELSE /\ triggered' = IF ev.refired THEN None ELSE triggered
            /\ Pop
    /\ UNCHANGED <<kind, bindings, used, events, history>>

-----------------------------------------------------------------------------
(* jQuery.event.dispatch *)

\* The loops over the nodes and over the handlers of each.
MayCall(ev, f) ==
    /\ f.queue # <<>> /\ ~ev.immediate
    /\ ev.stop # 0 => Head(f.queue)[1] = f.cur

\* Fault: the list itself is gone over, and moves up when one() unbinds.
CallHandler_Live ==
    LET ev == Event
        call == Head(Top.queue)
        h == call[2]
        moves == kind[h].once /\ kind[h].sel = 0 /\ Len(Top.queue) > 1
    IN
    /\ Doing("dispatch") /\ MayCall(ev, Top)
    /\ again' = IF call \in ev.called THEN again \cup {call} ELSE again
    /\ late' = IF h \in ev.before THEN late \cup {h} ELSE late
    /\ calls' = [calls EXCEPT ![EventAt].called = @ \cup {call},
                              ![Len(calls)].queue = IF moves THEN Tail(Tail(@)) ELSE Tail(@),
                              ![Len(calls)].cur = call[1]]
                \o << [what |-> "page", elem |-> call[1], h |-> h] >>
    /\ IF kind[h].once THEN Removed({h}) ELSE UNCHANGED <<bindings, spent>>
    /\ UNCHANGED <<kind, triggered, used, events, skipped>>

\* The next handler is called; one() unbinds its handler first.
CallHandler ==
    LET ev == Event
        call == Head(Top.queue)
        h == call[2]
    IN
    /\ Doing("dispatch") /\ MayCall(ev, Top)
    /\ again' = IF call \in ev.called THEN again \cup {call} ELSE again
    /\ late' = IF h \in ev.before THEN late \cup {h} ELSE late
    /\ calls' = [calls EXCEPT ![EventAt].called = @ \cup {call},
                              ![Len(calls)].queue = Tail(@),
                              ![Len(calls)].cur = call[1]]
                \o << [what |-> "page", elem |-> call[1], h |-> h] >>
    /\ IF kind[h].once THEN Removed({h}) ELSE UNCHANGED <<bindings, spent>>
    /\ UNCHANGED <<kind, triggered, used, events, skipped>>

\* The dispatch is over; whatever was bound directly has been called, unless the
\* event was stopped or the handler has been unbound.
DispatchEnds ==
    LET ev == Event
        called == {h \in Handlers : <<Top.node, h>> \in ev.called}
    IN
    /\ Doing("dispatch") /\ ~MayCall(ev, Top)
    /\ skipped' = IF ev.stop # 0 THEN skipped
                  ELSE skipped \cup ((Top.due \cap Bound) \ called)
    /\ Pop
    /\ UNCHANGED <<kind, bindings, triggered, used, events, spent, again, late>>

-----------------------------------------------------------------------------
(* What a handler does with its event *)

StopPropagation(immediate) ==
    /\ Doing("page")
    /\ Event.stop = 0 \/ (immediate /\ ~Event.immediate)
    /\ calls' = [calls EXCEPT ![EventAt].stop = IF @ = 0 THEN Top.elem ELSE @,
                              ![EventAt].immediate = @ \/ immediate]
    /\ UNCHANGED <<kind, bindings, triggered, used, events, history>>

PreventDefault ==
    /\ Doing("page") /\ ~Event.prevented
    /\ calls' = [calls EXCEPT ![EventAt].prevented = TRUE]
    /\ UNCHANGED <<kind, bindings, triggered, used, events, history>>

\* It returns, and may have returned false.
Return ==
    /\ Doing("page")
    /\ Pop
    /\ UNCHANGED <<kind, bindings, triggered, used, events, history>>

Init ==
    /\ kind \in [Handlers -> Kinds]
    /\ list = [n \in Nodes |-> [t \in Types |-> <<>>]]
    /\ delegates = [n \in Nodes |-> [t \in Types |-> 0]]
    /\ attached = {}
    /\ attaches = [t \in Types |-> 0]
    /\ captured = {}
    /\ triggered = None
    /\ calls = <<>>
    /\ used = {}
    /\ events = 0
    /\ spent = {} /\ again = {} /\ late = {} /\ skipped = {}

Next ==
    \/ \E h \in Handlers : Bind(h) \/ Unbind(h)
    \/ \E n \in Nodes : UnbindAll(n)
    \/ \E t \in Types, n \in Nodes :
          UserEvent(t, n) \/ \E only \in BOOLEAN : Trigger(t, n, only)
    \/ VisitHandlers \/ VisitAttribute \/ PathEnds
    \/ CallHandler \/ DispatchEnds
    \/ \E immediate \in BOOLEAN : StopPropagation(immediate)
    \/ PreventDefault \/ Return

Spec == Init /\ [][Next]_vars

-----------------------------------------------------------------------------

\* Type invariant.
TypeOK ==
    /\ kind \in [Handlers -> Kinds]
    /\ \A n \in Nodes, t \in Types :
          /\ list[n][t] \in Seq(Handlers)
          /\ delegates[n][t] \in 0 .. Len(list[n][t])
    /\ attached \subseteq Nodes \X Types
    /\ attaches \in [Types -> 0 .. Depth]
    /\ triggered \in Types \cup {None}
    /\ captured \subseteq Types /\ used \subseteq Handlers /\ events \in 0 .. MaxEvents

\* delegateCount splits each list: dispatch() calls what is before it only for
\* nodes below, and what comes after it always.
DelegatesInFront ==
    \A n \in Nodes, t \in Types : \A i \in DOMAIN list[n][t] :
       (kind[list[n][t][i]].sel # 0) <=> i <= delegates[n][t]

\* A node has a native listener, or is counted for the document's, exactly while
\* it has handlers, however they were bound and unbound while events run.
ListenersMatch ==
    \A t \in Types :
       LET with == {n \in Nodes : list[n][t] # <<>>} IN
       IF t \in Focusing
       THEN attaches[t] = Cardinality(with) /\ (t \in captured <=> with # {})
       ELSE {n \in Nodes : <<n, t>> \in attached} = with

\* The comment in add(): the handle discards "the second event of a
\* jQuery.event.trigger()", and the one in trigger(): the method is called
\* without "re-triggering of the same event, since we already bubbled it above".
\* So one event calls nothing twice at one node.
OncePerEvent == again = {}

\* An event never calls a handler that was unbound, or was of one() and had been
\* called, before the event began.
NoneLate == late = {}

\* A dispatch that nobody stops misses no handler of its node, whatever its
\* handlers bind and unbind.
NoneSkipped == skipped = {}

\* While an event calls a handler, no node below that one has stopped it.
NoneAboveStop ==
    Doing("page") => (Event.stop # 0 => Top.elem <= Event.stop)

\* All of it.  A function in an attribute is called by trigger() and again by the
\* native event, also above the node where a delegated handler has stopped it: the
\* last two are of pages that have none for native types.
HandlersCalled ==
    /\ TypeOK /\ DelegatesInFront /\ ListenersMatch /\ NoneLate /\ NoneSkipped
    /\ Inline = {} => OncePerEvent /\ NoneAboveStop
=============================================================================
