----------------------------- MODULE FormUpload -----------------------------
(***************************************************************************)
(* fileUploadIframe() of jquery.form.js: a form with files is submitted    *)
(* into a hidden frame.  The answer (a load event), the timeout, a look at *)
(* the frame every now and then and the page's calls of abort() race to    *)
(* end an upload; several uploads of one form may be under way.            *)
(*                                                                         *)
(* The page has one thread.  cb() is called by the browser only; what it   *)
(* is doing is `handling'.  `calls' is the stack of what the page's own    *)
(* calls are doing.  Either is at a function of the page, which may submit *)
(* uploads, abort any that it knows, return or throw; what the plugin does *)
(* from one such function to the next is one step.                         *)
(***************************************************************************)
EXTENDS Integers, Sequences, FiniteSets, SequencesExt

CONSTANTS
    Uploads,    \* the calls of ajaxSubmit() for the form
    Complete,   \* whether the form has an action, a method, an encoding and a target
    Timeout,    \* whether the option timeout is set
    Answers,    \* what the server may do: "good", "bad", or "foreign": an error page
                \* of the browser, which the script cannot look into
    MaxAborts,  \* how often the page's aborts of an upload may get through; none if 0
    MayThrow    \* whether a function of the page may throw

OptionAssumption ==
    /\ {Complete, Timeout, MayThrow} \subseteq BOOLEAN
    /\ Answers \subseteq {"good", "bad", "foreign"} /\ MaxAborts \in Nat

VARIABLES
    stage,     \* of each upload: "new"; "begun"; "shown": the page has its xhr; "delayed";
               \* "sent"; "refused" by beforeSend; "cancelled": aborted before that
    frame,     \* what is in its frame: "none", "blank", "waiting", an answer
    loads,     \* whether a load event of the frame is to come
    timers,    \* the pending timers: "submit", "timeout", "look", "remove"
    aborted,   \* xhr.aborted
    heard,     \* whether cb() is a listener of the frame
    processed, \* callbackProcessed
    promise,   \* the state of the deferred object
    handling,  \* the function of the page that cb() is calling, "no" if cb() does not run
    calls,     \* the functions that submissions and the page's aborts are calling
    called,    \* history: how often success, error and complete were called
    aborts,    \* history: how many of the page's aborts have called error
    active,    \* jQuery.active
    form       \* the attributes of the form: "own", "none", or "ours"

vars == <<stage, frame, loads, timers, aborted, heard, processed, promise, handling, calls,
          called, aborts, active, form>>

Attributes == {"action", "target", "method", "encoding"}
Callbacks == {"success", "error", "complete"}

-----------------------------------------------------------------------------

\* No script is running.
Idle == calls = <<>> /\ \A u \in Uploads : handling[u] = "no"

Running(h) == calls # <<>> /\ Last(calls).at = h
Top == Last(calls).up
NextFunction(h) == [calls EXCEPT ![Len(calls)].at = h]

Tell(u, c) == called' = [called EXCEPT ![u][c] = @ + 1]
Handle(u, h) == handling' = [handling EXCEPT ![u] = h]
Settle(u, state) == promise' = [promise EXCEPT ![u] = IF @ = "pending" THEN state ELSE @]

\* abort() looks into the window of the frame first, which fails if there is none or
\* it shows a foreign page: nothing but the mark is done then.
CanLook(u) == frame[u] \notin {"none", "foreign"}

\* Otherwise the frame is sent back to the blank page, and error is called.
BlankAndTell(u) ==
    /\ frame' = [frame EXCEPT ![u] = "blank"]
    /\ loads' = [loads EXCEPT ![u] = TRUE]
    /\ Tell(u, "error")

\* Fault: a call of cb() that comes too late goes on.
Ended_Timeout(u) == processed[u]

\* cb() does nothing for an upload that was aborted or processed.
Ended(u) == aborted[u] \/ processed[u]

\* cb() aborts an upload; `left' are timers that end in any case.
GiveUp(u, left) ==
    /\ aborted' = [aborted EXCEPT ![u] = TRUE]
    /\ timers' = [timers EXCEPT ![u] = @ \ left]
    /\ IF CanLook(u) THEN BlankAndTell(u) /\ Handle(u, "giveUp")
       ELSE UNCHANGED <<frame, loads, called, handling>>
    /\ UNCHANGED <<stage, heard, processed, promise, calls, aborts, active, form>>

-----------------------------------------------------------------------------
(* The page *)

\* fileUploadIframe, up to the ajaxStart handlers, or the ajaxSend handlers and
\* beforeSend ("send")
Begin(u) ==
    LET first == active = 0 IN
    /\ stage[u] = "new"
    /\ stage' = [stage EXCEPT ![u] = IF first THEN "begun" ELSE "shown"]
    /\ active' = active + 1
    /\ calls' = Append(calls, [up |-> u, at |-> IF first THEN "start" ELSE "send"])
    /\ UNCHANGED <<frame, loads, timers, aborted, heard, processed, promise, handling,
                   called, aborts, form>>

AfterStart ==
    /\ Running("start")
    /\ stage' = [stage EXCEPT ![Top] = "shown"]
    /\ calls' = NextFunction("send")
    /\ UNCHANGED <<frame, loads, timers, aborted, heard, processed, promise, handling,
                   called, aborts, active, form>>

\* The rest: beforeSend may have refused, or the upload may be aborted already,
\* and is not taken off jQuery.active then.
AfterSend ==
    /\ Running("send")
    /\ calls' = Front(calls)
    /\ \/ /\ stage' = [stage EXCEPT ![Top] = "refused"]
          /\ active' = active - 1
          /\ Settle(Top, "rejected")
          /\ UNCHANGED timers
       \/ /\ aborted[Top]
          /\ stage' = [stage EXCEPT ![Top] = "cancelled"]
          /\ Settle(Top, "rejected")
          /\ UNCHANGED <<timers, active>>
       \/ /\ ~aborted[Top]
          /\ stage' = [stage EXCEPT ![Top] = "delayed"]
          /\ timers' = [timers EXCEPT ![Top] = {"submit"}]
          /\ UNCHANGED <<promise, active>>
    /\ UNCHANGED <<frame, loads, aborted, heard, processed, handling, called, aborts, form>>

\* xhr.abort, called by the page: nothing keeps it from aborting an upload that has
\* ended, or whose functions are running.
CallerAborts(u) ==
    /\ stage[u] \notin {"new", "begun"} /\ aborts[u] < MaxAborts
    /\ aborted' = [aborted EXCEPT ![u] = TRUE]
    /\ IF CanLook(u)
       THEN /\ BlankAndTell(u)
            /\ aborts' = [aborts EXCEPT ![u] = @ + 1]
            /\ calls' = Append(calls, [up |-> u, at |-> "error"])
       ELSE UNCHANGED <<frame, loads, called, aborts, calls>>
    /\ UNCHANGED <<stage, timers, heard, processed, promise, handling, active, form>>

\* error and the ajaxError handlers have returned to abort().
AfterError ==
    /\ Running("error")
    /\ Tell(Top, "complete")
    /\ calls' = NextFunction("complete")
    /\ UNCHANGED <<stage, frame, loads, timers, aborted, heard, processed, promise, handling,
                   aborts, active, form>>

AfterComplete ==
    /\ Running("complete")
    /\ calls' = Front(calls)
    /\ UNCHANGED <<stage, frame, loads, timers, aborted, heard, processed, promise, handling,
                   called, aborts, active, form>>

\* A function of the page throws; another one, which has called abort() or submitted
\* an upload, may catch it.
Throw ==
    /\ MayThrow
    /\ \/ /\ \E k \in 0 .. Len(calls) - 1 : calls' = SubSeq(calls, 1, k)
          /\ UNCHANGED handling
       \/ /\ ~Idle
          /\ calls' = <<>>
          /\ handling' = [u \in Uploads |-> "no"]
    /\ UNCHANGED <<stage, frame, loads, timers, aborted, heard, processed, promise, called,
                   aborts, active, form>>

-----------------------------------------------------------------------------
(* The browser calls the plugin, when no script is running. *)

\* The end of doSubmit: an action that was not there is set to "undefined", the
\* method and the encoding are left as they are.
Reset(f) == [a \in Attributes |-> IF a \in {"method", "encoding", "action"} /\ f[a] = "none"
                                  THEN "ours" ELSE f[a]]

TimersAtStart(u) == (timers[u] \ {"submit"}) \cup {"look"} \cup IF Timeout THEN {"timeout"} ELSE {}

\* doSubmit, by its timer: it does not ask whether the upload was aborted.
DoSubmit(u) ==
    /\ Idle /\ "submit" \in timers[u]
    /\ stage' = [stage EXCEPT ![u] = "sent"]
    /\ frame' = [frame EXCEPT ![u] = "waiting"]
    /\ loads' = [loads EXCEPT ![u] = TRUE]
    /\ heard' = [heard EXCEPT ![u] = TRUE]
    /\ timers' = [timers EXCEPT ![u] = TimersAtStart(u)]
    /\ form' = Reset(form)
    /\ UNCHANGED <<aborted, processed, promise, handling, calls, called, aborts, active>>

\* The load event of the frame's first page, or of the page abort() sends it to:
\* cb() finds no answer in it.
BlankLoads(u) ==
    /\ Idle /\ loads[u] /\ frame[u] \in {"waiting", "blank"}
    /\ loads' = [loads EXCEPT ![u] = FALSE]
    /\ UNCHANGED <<stage, frame, timers, aborted, heard, processed, promise, handling, calls,
                   called, aborts, active, form>>

\* The server's answer is loaded.
AnswerLoads(u) ==
    /\ Idle /\ frame[u] = "waiting"
    /\ \E a \in Answers : frame' = [frame EXCEPT ![u] = a]
    /\ loads' = [loads EXCEPT ![u] = TRUE]
    /\ UNCHANGED <<stage, timers, aborted, heard, processed, promise, handling, calls, called,
                   aborts, active, form>>

\* cb, called with the answer in the frame: it hears no more, and calls success or error.
Process(u) ==
    LET outcome == IF frame[u] = "good" THEN "success" ELSE "error" IN
    /\ heard' = [heard EXCEPT ![u] = FALSE]
    /\ loads' = [loads EXCEPT ![u] = FALSE]
    /\ Tell(u, outcome)
    /\ Handle(u, outcome)
    /\ UNCHANGED <<stage, frame, timers, aborted, processed, promise, calls, aborts, active, form>>

\* The load event of the answer: cb().
AnswerHeard(u) ==
    /\ Idle /\ loads[u] /\ frame[u] \in Answers
    /\ IF ~heard[u] \/ Ended(u)
       THEN /\ loads' = [loads EXCEPT ![u] = FALSE]
            /\ UNCHANGED <<stage, frame, timers, aborted, heard, processed, promise, handling,
                           calls, called, aborts, active, form>>
       ELSE IF frame[u] = "foreign" THEN GiveUp(u, {}) ELSE Process(u)

\* checkState: may find a foreign page before the load event does.
Look(u) ==
    /\ Idle /\ "look" \in timers[u]
    /\ IF ~CanLook(u) /\ ~Ended(u) THEN GiveUp(u, {"look"})
       ELSE /\ timers' = [timers EXCEPT ![u] = @ \ IF CanLook(u) THEN {"look"} ELSE {"look", "timeout"}]
            /\ UNCHANGED <<stage, frame, loads, aborted, heard, processed, promise, handling,
                           calls, called, aborts, active, form>>

\* The timeout
TimedOut(u) ==
    /\ Idle /\ "timeout" \in timers[u]
    /\ IF ~Ended(u) THEN GiveUp(u, {"timeout"})
       ELSE /\ timers' = [timers EXCEPT ![u] = @ \ {"timeout"}]
            /\ UNCHANGED <<stage, frame, loads, aborted, heard, processed, promise, handling,
                           calls, called, aborts, active, form>>

\* 100 ms after the answer the frame is removed.
RemoveFrame(u) ==
    /\ Idle /\ "remove" \in timers[u]
    /\ timers' = [timers EXCEPT ![u] = @ \ {"remove"}]
    /\ frame' = [frame EXCEPT ![u] = "none"]
    /\ loads' = [loads EXCEPT ![u] = FALSE]
    /\ UNCHANGED <<stage, aborted, heard, processed, promise, handling, calls, called, aborts,
                   active, form>>

-----------------------------------------------------------------------------
(* cb(), from one function of the page to the next. *)

\* The function that cb() has called for u returns.
Returns(u, h) == calls = <<>> /\ handling[u] = h

\* success or error of an answer: the listeners of the deferred object are next,
\* then the ajaxSuccess, ajaxError and ajaxComplete handlers.
AfterOutcome(u) ==
    /\ \/ Returns(u, "success") /\ Settle(u, "resolved")
       \/ Returns(u, "error") /\ Settle(u, "rejected")
    /\ Handle(u, "settled")
    /\ UNCHANGED <<stage, frame, loads, timers, aborted, heard, processed, calls, called, aborts,
                   active, form>>

ActiveAfter(u) == active - 1

\* The upload is counted off; ajaxStop is for the last.
AfterSettled(u) ==
    /\ Returns(u, "settled")
    /\ active' = ActiveAfter(u)
    /\ IF active = 1 THEN Handle(u, "stop") /\ UNCHANGED called
       ELSE Handle(u, "last") /\ Tell(u, "complete")
    /\ UNCHANGED <<stage, frame, loads, timers, aborted, heard, processed, promise, calls, aborts, form>>

AfterStop(u) ==
    /\ Returns(u, "stop")
    /\ Handle(u, "last")
    /\ Tell(u, "complete")
    /\ UNCHANGED <<stage, frame, loads, timers, aborted, heard, processed, promise, calls, aborts,
                   active, form>>

\* The answer is processed: no more timeout, but one that removes the frame.
TimersAfterAnswer(u) == (timers[u] \ {"timeout"}) \cup {"remove"}

AfterLast(u) ==
    /\ Returns(u, "last")
    /\ Handle(u, "no")
    /\ processed' = [processed EXCEPT ![u] = TRUE]
    /\ timers' = [timers EXCEPT ![u] = TimersAfterAnswer(u)]
    /\ UNCHANGED <<stage, frame, loads, aborted, heard, promise, calls, called, aborts, active, form>>

\* The abort that cb() has called: error, complete, and then the listeners.
AfterGiveUp(u) ==
    /\ \/ Returns(u, "giveUp") /\ Handle(u, "gaveUp") /\ Tell(u, "complete") /\ UNCHANGED promise
       \/ Returns(u, "gaveUp") /\ Handle(u, "told") /\ Settle(u, "rejected") /\ UNCHANGED called
       \/ Returns(u, "told") /\ Handle(u, "no") /\ UNCHANGED <<promise, called>>
    /\ UNCHANGED <<stage, frame, loads, timers, aborted, heard, processed, calls, aborts, active, form>>

-----------------------------------------------------------------------------

Init ==
    /\ stage = [u \in Uploads |-> "new"]
    /\ frame = [u \in Uploads |-> "none"]
    /\ loads = [u \in Uploads |-> FALSE]
    /\ timers = [u \in Uploads |-> {}]
    /\ aborted = [u \in Uploads |-> FALSE]
    /\ heard = [u \in Uploads |-> FALSE]
    /\ processed = [u \in Uploads |-> FALSE]
    /\ promise = [u \in Uploads |-> "pending"]
    /\ handling = [u \in Uploads |-> "no"]
    /\ calls = <<>>
    /\ called = [u \in Uploads |-> [c \in Callbacks |-> 0]]
    /\ aborts = [u \in Uploads |-> 0]
    /\ active = 0
    /\ form = [a \in Attributes |-> IF Complete THEN "own" ELSE "none"]

Timer(u) == DoSubmit(u) \/ Look(u) \/ TimedOut(u) \/ RemoveFrame(u)
CbGoesOn(u) ==
    AfterOutcome(u) \/ AfterSettled(u) \/ AfterStop(u) \/ AfterLast(u) \/ AfterGiveUp(u)
CallReturns == AfterStart \/ AfterSend \/ AfterError \/ AfterComplete

Next ==
    \/ \E u \in Uploads :
          \/ Begin(u) \/ CallerAborts(u)
          \/ Timer(u)
          \/ BlankLoads(u) \/ AnswerLoads(u) \/ AnswerHeard(u)
          \/ CbGoesOn(u)
    \/ CallReturns \/ Throw

Spec == Init /\ [][Next]_vars

\* The browser's timers fire, its events are delivered and the functions of the page
\* return or throw; the server may be silent.
Fairness ==
    /\ \A u \in Uploads :
          /\ WF_vars(DoSubmit(u)) /\ WF_vars(Look(u)) /\ WF_vars(TimedOut(u)) /\ WF_vars(RemoveFrame(u))
          /\ WF_vars(AnswerHeard(u))
          /\ WF_vars(CbGoesOn(u))
    /\ WF_vars(CallReturns)
FairSpec == Spec /\ Fairness

-----------------------------------------------------------------------------

Under(u) == stage[u] \in {"begun", "shown", "delayed", "sent"} /\ ~Ended(u)

\* Type invariant.
TypeOK ==
    /\ \A u \in Uploads :
          /\ stage[u] \in {"new", "begun", "shown", "delayed", "sent", "refused", "cancelled"}
          /\ frame[u] \in {"none", "blank", "waiting"} \cup Answers
          /\ timers[u] \subseteq {"submit", "timeout", "look", "remove"}
          /\ promise[u] \in {"pending", "resolved", "rejected"}
          /\ handling[u] \in {"no", "success", "error", "settled", "stop", "last",
                              "giveUp", "gaveUp", "told"}
          /\ aborts[u] \in 0 .. MaxAborts
    /\ calls \in Seq([up : Uploads, at : {"start", "send", "error", "complete"}])
    /\ active \in 0 .. Cardinality(Uploads)
    /\ form \in [Attributes -> {"own", "none", "ours"}]

Told(u) == called[u]["success"] + called[u]["error"]

\* However the answer, the timeout, the look at the frame and the page's aborts
\* race, also in the functions that are called: cb() tells of one outcome, besides
\* the errors the page asks for by aborting; and when nothing runs, that of an answer
\* that was processed was told, and complete was called for every outcome.
OneOutcome == \A u \in Uploads :
    /\ Told(u) - aborts[u] \in 0 .. 1
    /\ Idle => /\ called[u]["complete"] = Told(u)
               /\ processed[u] => Told(u) - aborts[u] = 1
               /\ ~Ended(u) => Told(u) = 0

\* Functions that throw cost an upload its mark that it was processed, and then the
\* timeout tells of a second outcome; never of a third, and no answer is told twice.
AnsweredOnce == \A u \in Uploads :
    /\ called[u]["success"] <= 1
    /\ Told(u) - aborts[u] \in 0 .. 2
    /\ Told(u) - aborts[u] = 2 => aborted[u]

\* An upload that has ended, by its answer, the timeout or an abort, is told
\* nothing more by a late answer or timeout, but by another abort.
NothingAfterEnd ==
    [][\A u \in Uploads :
          Idle /\ Ended(u) /\ aborts'[u] = aborts[u]
          => called'[u] = called[u] /\ promise'[u] = promise[u]]_vars

\* When nothing runs the deferred object tells what cb() has told; an abort by the
\* page leaves it as it is.
PromiseAgrees == \A u \in Uploads : Idle /\ stage[u] = "sent" =>
    /\ promise[u] = "resolved" <=> called[u]["success"] > 0
    /\ promise[u] = "rejected" <=> called[u]["error"] > aborts[u]

\* The comment in fileUploadIframe(): "trigger ajax global events so that activity
\* and block indicators work like normal": they count the uploads under way.
ActiveExact == Idle => active = Cardinality({u \in Uploads : Under(u)})

\* An upload that has ended and waits for nothing has left no frame in the page.
FramesGone == \A u \in Uploads :
    Idle /\ stage[u] = "sent" /\ ~Under(u) /\ "remove" \notin timers[u] => frame[u] = "none"

\* The comment in doSubmit(): "reset attrs": the form is as the page made it.
FormAsBefore == \A a \in Attributes : form[a] = IF Complete THEN "own" ELSE "none"

\* With a timeout every upload that was submitted ends, even if the server is silent
\* or the functions that are told of its answer throw.
EveryUploadEnds == \A u \in Uploads : []<>(stage[u] = "sent" => Ended(u))
=============================================================================
