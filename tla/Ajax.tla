-------------------------------- MODULE Ajax --------------------------------
(***************************************************************************)
(* jQuery.ajax of jquery-1.10.2.js with its XMLHttpRequest transport: what *)
(* becomes of a request that the server answers, that times out, that is   *)
(* aborted, or whose handlers do these things to it.                       *)
(*                                                                         *)
(* The page has one thread.  `calls' is its call stack; a frame is a       *)
(* handler of the page that is running on behalf of a request, named after *)
(* the option or the global event it listens for ("settle" stands for the  *)
(* success, error and statusCode functions).  What jQuery does from one    *)
(* handler to the next is one step.  A handler may use any request, and it *)
(* may throw.                                                              *)
(***************************************************************************)
EXTENDS Integers, Sequences, FiniteSets, SequencesExt

CONSTANTS
    Requests,
    Kinds,        \* [global, async, timeout]: the options requests are made with
    AbortInSend,  \* whether an ajaxSend handler may abort the request it is told of
    MayThrow      \* whether a handler may throw

KindsAssumption == Kinds \subseteq [global : BOOLEAN, async : BOOLEAN, timeout : BOOLEAN]
PageAssumption == {AbortInSend, MayThrow} \subseteq BOOLEAN

VARIABLES
    kind,       \* the options of each request
    phase,      \* none; begun; shown: the page has its jqXHR; listening: handlers installed
    state,      \* 0 before it is sent, 1 when it is, 2 when it is done
    transport,  \* whether the request has one
    live,       \* whether the transport still waits for the answer
    timer,      \* whether the timeout is running
    settled,    \* whether the deferred object has been resolved or rejected
    completed,  \* whether completeDeferred has been fired
    active,     \* jQuery.active
    calls,      \* the call stack
    heard,      \* history: what success, error and complete were told
    events      \* history: the ajaxStart and ajaxStop events

request == <<kind, phase, state, transport, live, timer, settled, completed>>
vars == <<request, active, calls, heard, events>>

Top == Last(calls)
Running(h) == calls # <<>> /\ Top.at = h
Frame(r, h) == [req |-> r, at |-> h]
NextHandler(h) == [calls EXCEPT ![Len(calls)].at = h]

Tell(r, what) == heard' = IF phase'[r] = "listening"
                          THEN [heard EXCEPT ![r] = Append(@, what)] ELSE heard

\* Fault: nothing keeps the deferred object from being settled again.
Done_SettlesAgain(s, r, answer, st) ==
    IF st = 2
    THEN calls' = s /\ UNCHANGED <<state, timer, transport, settled, heard>>
    ELSE /\ state' = [state EXCEPT ![r] = 2]
         /\ timer' = [timer EXCEPT ![r] = FALSE]
         /\ transport' = [transport EXCEPT ![r] = FALSE]
         /\ settled' = [settled EXCEPT ![r] = TRUE]
         /\ Tell(r, answer)
         /\ calls' = Append(s, Frame(r, "settle"))

\* done(), called by what s holds while the request's state is st, up to the
\* first handler it calls.  A deferred object that is settled ignores the rest.
Done(s, r, answer, st) ==
    IF st = 2
    THEN calls' = s /\ UNCHANGED <<state, timer, transport, settled, heard>>
    ELSE /\ state' = [state EXCEPT ![r] = 2]
         /\ timer' = [timer EXCEPT ![r] = FALSE]
         /\ transport' = [transport EXCEPT ![r] = FALSE]
         /\ IF settled[r]
            THEN calls' = Append(s, Frame(r, "result")) /\ UNCHANGED <<settled, heard>>
            ELSE /\ settled' = [settled EXCEPT ![r] = TRUE]
                 /\ Tell(r, answer)
                 /\ calls' = Append(s, Frame(r, "settle"))

-----------------------------------------------------------------------------
(* jQuery.ajax *)

\* The request is made, by an event of the page or by a handler.
Begin(r) ==
    LET first == kind[r].global /\ active = 0 IN
    /\ phase[r] = "none"
    /\ phase' = [phase EXCEPT ![r] = IF first THEN "begun" ELSE "shown"]
    /\ active' = IF kind[r].global THEN active + 1 ELSE active
    /\ events' = IF first THEN Append(events, "ajaxStart") ELSE events
    /\ calls' = Append(calls, Frame(r, IF first THEN "ajaxStart" ELSE "beforeSend"))
    /\ UNCHANGED <<kind, state, transport, live, timer, settled, completed, heard>>

AfterStart ==
    /\ Running("ajaxStart")
    /\ phase' = [phase EXCEPT ![Top.req] = "shown"]
    /\ calls' = NextHandler("beforeSend")
    /\ UNCHANGED <<kind, state, transport, live, timer, settled, completed,
                   active, heard, events>>

\* The end of ajax(): the timeout starts, and the transport is told to send.
\* If it is not there any more, or throws, the exception ends the request; a
\* synchronous request is done when send() returns.
Send(s, r, there) ==
    \/ /\ Done(s, r, "error", 1)
       /\ UNCHANGED live
    \/ /\ there /\ ~kind[r].async
       /\ Done(s, r, "success", 1)
       /\ UNCHANGED live
    \/ /\ there /\ kind[r].async
       /\ state' = [state EXCEPT ![r] = 1]
       /\ transport' = [transport EXCEPT ![r] = TRUE]
       /\ live' = [live EXCEPT ![r] = TRUE]
       /\ timer' = [timer EXCEPT ![r] = kind[r].timeout]
       /\ calls' = s
       /\ UNCHANGED <<settled, heard>>

\* beforeSend has returned false, or has aborted the request: its handlers are
\* never installed.
Cancel ==
    /\ Running("beforeSend")
    /\ UNCHANGED phase
    /\ Done(Front(calls), Top.req, "error", state[Top.req])
    /\ UNCHANGED <<kind, live, completed, active, events>>

\* Otherwise they are, and a transport is looked for.
AfterBeforeSend ==
    LET r == Top.req IN
    /\ Running("beforeSend")
    /\ state[r] # 2
    /\ phase' = [phase EXCEPT ![r] = "listening"]
    /\ IF kind[r].global
       THEN \/ /\ transport' = [transport EXCEPT ![r] = TRUE]
               /\ calls' = NextHandler("ajaxSend")
               /\ UNCHANGED <<state, live, timer, settled, heard>>
            \/ Done(Front(calls), r, "error", state[r]) /\ UNCHANGED live
       ELSE Send(Front(calls), r, TRUE)
    /\ UNCHANGED <<kind, completed, active, events>>

AfterAjaxSend ==
    /\ Running("ajaxSend")
    /\ UNCHANGED phase
    /\ Send(Front(calls), Top.req, transport[Top.req])
    /\ UNCHANGED <<kind, completed, active, events>>

-----------------------------------------------------------------------------
(* The ways a request that has been sent ends. *)

\* The answer, or that there will be none: readyState is 4.
Respond(r) ==
    /\ calls = <<>> /\ live[r]
    /\ live' = [live EXCEPT ![r] = FALSE]
    /\ UNCHANGED phase
    /\ \E answer \in {"success", "error"} : Done(<<>>, r, answer, state[r])
    /\ UNCHANGED <<kind, completed, active, events>>

\* Fault: abort() leaves it to the transport to report the end.
Stop_TransportOnly(r) ==
    /\ live' = [live EXCEPT ![r] = @ /\ ~transport[r]]
    /\ UNCHANGED phase
    /\ IF transport[r]
       THEN UNCHANGED <<state, timer, transport, settled, heard, calls>>
       ELSE Done(calls, r, "error", state[r])
    /\ UNCHANGED <<kind, completed, active, events>>

\* abort()
Stop(r) ==
    /\ live' = [live EXCEPT ![r] = @ /\ ~transport[r]]
    /\ UNCHANGED phase
    /\ Done(calls, r, "error", state[r])
    /\ UNCHANGED <<kind, completed, active, events>>

Abort(r) ==
    /\ phase[r] \in {"shown", "listening"}
    /\ AbortInSend \/ Frame(r, "ajaxSend") \notin ToSet(calls)
    /\ Stop(r)

TimeOut(r) ==
    /\ calls = <<>> /\ timer[r]
    /\ Stop(r)

-----------------------------------------------------------------------------
(* done(), from one handler to the next. *)

AfterSettle ==
    LET r == Top.req IN
    /\ Running("settle")
    /\ UNCHANGED phase
    /\ IF kind[r].global
       THEN calls' = NextHandler("result") /\ UNCHANGED <<completed, heard>>
       ELSE /\ completed' = [completed EXCEPT ![r] = TRUE]
            /\ Tell(r, "complete")
            /\ calls' = NextHandler("complete")
    /\ UNCHANGED <<kind, state, transport, live, timer, settled, active, events>>

\* After ajaxSuccess or ajaxError; completeDeferred is fired only once.
AfterResult ==
    LET r == Top.req IN
    /\ Running("result")
    /\ UNCHANGED phase
    /\ IF completed[r]
       THEN calls' = NextHandler("ajaxComplete") /\ UNCHANGED <<completed, heard>>
       ELSE /\ completed' = [completed EXCEPT ![r] = TRUE]
            /\ Tell(r, "complete")
            /\ calls' = NextHandler("complete")
    /\ UNCHANGED <<kind, state, transport, live, timer, settled, active, events>>

AfterComplete ==
    /\ Running("complete")
    /\ calls' = IF kind[Top.req].global THEN NextHandler("ajaxComplete") ELSE Front(calls)
    /\ UNCHANGED <<request, active, heard, events>>

CountOff ==
    LET last == active = 1 IN
    /\ Running("ajaxComplete")
    /\ active' = active - 1
    /\ events' = IF last THEN Append(events, "ajaxStop") ELSE events
    /\ calls' = IF last THEN NextHandler("ajaxStop") ELSE Front(calls)
    /\ UNCHANGED <<request, heard>>

AfterStop ==
    /\ Running("ajaxStop")
    /\ calls' = Front(calls)
    /\ UNCHANGED <<request, active, heard, events>>

\* Nobody catches what a handler throws.
Throw ==
    /\ MayThrow /\ calls # <<>>
    /\ calls' = <<>>
    /\ UNCHANGED <<request, active, heard, events>>

Init ==
    /\ kind \in [Requests -> Kinds]
    /\ phase = [r \in Requests |-> "none"]
    /\ state = [r \in Requests |-> 0]
    /\ transport = [r \in Requests |-> FALSE]
    /\ live = [r \in Requests |-> FALSE]
    /\ timer = [r \in Requests |-> FALSE]
    /\ settled = [r \in Requests |-> FALSE]
    /\ completed = [r \in Requests |-> FALSE]
    /\ active = 0
    /\ calls = <<>>
    /\ heard = [r \in Requests |-> <<>>]
    /\ events = <<>>

Returns ==
    AfterStart \/ Cancel \/ AfterBeforeSend \/ AfterAjaxSend
    \/ AfterSettle \/ AfterResult \/ AfterComplete \/ CountOff \/ AfterStop

Next ==
    \/ \E r \in Requests : Begin(r) \/ Abort(r) \/ Respond(r) \/ TimeOut(r)
    \/ Returns \/ Throw

Spec == Init /\ [][Next]_vars

\* Handlers return, and the browser's timers fire; no server has to answer.
Fairness == WF_vars(Returns) /\ \A r \in Requests : WF_vars(TimeOut(r))
FairSpec == Spec /\ Fairness

-----------------------------------------------------------------------------

\* Type invariant.
TypeOK ==
    /\ kind \in [Requests -> Kinds]
    /\ phase \in [Requests -> {"none", "begun", "shown", "listening"}]
    /\ state \in [Requests -> 0 .. 2]
    /\ {transport, live, timer, settled, completed} \subseteq [Requests -> BOOLEAN]
    /\ active \in -Cardinality(Requests) .. Cardinality(Requests)
    /\ calls \in Seq([req : Requests,
                      at : {"ajaxStart", "beforeSend", "ajaxSend", "settle", "result",
                            "complete", "ajaxComplete", "ajaxStop"}])
    /\ heard \in [Requests -> Seq({"success", "error", "complete"})]
    /\ ToSet(events) \subseteq {"ajaxStart", "ajaxStop"}

\* The handlers of a request hear of one outcome, then that it is complete, and
\* nothing else, whatever they do and however the request ended.
OneAnswer ==
    \A r \in Requests :
       \E full \in {<<"success", "complete">>, <<"error", "complete">>} :
          IsPrefix(heard[r], full)

\* A request that is done cannot be answered, and cannot time out, any more.
NoLateAnswer == \A r \in Requests : live[r] \/ timer[r] => state[r] = 1

\* When no handler is running, jQuery.active is the number of requests under
\* way that raise global events.
ActiveExact ==
    calls = <<>> =>
       active = Cardinality({r \in Requests :
                               kind[r].global /\ phase[r] # "none" /\ state[r] < 2})

\* ajaxStart and ajaxStop alternate, also when their handlers make requests.
StartStopAlternate ==
    \A i \in DOMAIN events : (events[i] = "ajaxStart") <=> (i % 2 = 1)

\* Every request that was sent with a timeout ends: none stays sent for ever.
TimedRequestsEnd ==
    \A r \in Requests : []<>(state[r] = 1 => ~kind[r].timeout)
=============================================================================
