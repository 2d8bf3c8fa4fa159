----------------------------- MODULE MCLiveness -----------------------------
(***************************************************************************)
(* What must happen in the end, one component at a time: sessions that     *)
(* leave the registries, requests and uploads that end, animations and the *)
(* promises that wait for them.  The components stand side by side;        *)
(* `subject' is the one that moves.  (The push pool has a run of its own.) *)
(***************************************************************************)
EXTENDS Integers, Sequences, TLC

CONSTANTS
    Subjects,                    \* those that are looked at
    NoConn, StreamAddr, c1, c2, addr1, worker,
    r1, r2,                      \* requests
    e1, e2, a1, a2, p1,          \* elements, animations, a call of promise()
    u1, u2                       \* uploads

VARIABLES
    subject,
    sock, streamed, status, addr, avail, preAuth, clientSessions, counter, balance, logins,
    pc, tgt, key, hit, doomed,
    kind, phase, state, transport, live, timer, settled, completed, active, calls, heard, events,
    elem, animKind, astate, animCompleted, queue, hooks, finishing, armed, timers, ticking,
    animCalls, awaited,
    stage, frame, loads, uploadTimers, aborted, frameHeard, processed, promise, handling,
    uploadCalls, called, aborts, uploading, form

\* Two streams of one device, and a thread that writes to its sessions
Registry == INSTANCE Sessions WITH
    Conns <- {c1, c2}, Workers <- {worker}, Hooks <- {}, Addrs <- {addr1},
    Claims <- c1 :> {addr1} @@ c2 :> {addr1}, MaxLogins <- 1,
    WriteMayFail <- TRUE, SaveMayFail <- FALSE

\* Requests of every kind; handlers may throw and make requests, but do not
\* abort a request that is being sent
Requested == INSTANCE Ajax WITH
    Requests <- {r1, r2}, AbortInSend <- FALSE, MayThrow <- TRUE,
    Kinds <- [global : BOOLEAN, async : BOOLEAN, timeout : BOOLEAN]

\* Two animations of two elements
Animated == INSTANCE Animations WITH
    Elems <- {e1, e2}, Anims <- {a1, a2}, Promises <- {p1}, PageCalls <- {"stop"},
    Kinds <- {"queued", "instant", "delay", "empty"}, Nesting <- "none",
    kind <- animKind, completed <- animCompleted, calls <- animCalls

\* Two uploads with a timeout, which servers answer as they like; the functions that
\* are told may throw
Uploaded == INSTANCE FormUpload WITH
    Uploads <- {u1, u2}, Complete <- TRUE, Timeout <- TRUE,
    Answers <- {"good", "bad", "foreign"}, MaxAborts <- 0, MayThrow <- TRUE,
    timers <- uploadTimers, heard <- frameHeard, calls <- uploadCalls, active <- uploading

ASSUME ComponentsAssumption ==
    /\ Subjects \subseteq {"registry", "requested", "animated", "uploaded"}
    /\ NoConn \notin {c1, c2} /\ StreamAddr # addr1
    /\ Requested!KindsAssumption /\ Requested!PageAssumption
    /\ Animated!KindsAssumption /\ Animated!CallsAssumption /\ Animated!NestAssumption
    /\ Uploaded!OptionAssumption

-----------------------------------------------------------------------------

sessions == <<sock, streamed, status, addr, avail, preAuth, clientSessions, counter, balance,
              logins, pc, tgt, key, hit, doomed>>
requests == <<kind, phase, state, transport, live, timer, settled, completed, active, calls,
              heard, events>>
animations == <<elem, animKind, astate, animCompleted, queue, hooks, finishing, armed, timers,
                ticking, animCalls, awaited>>
uploads == <<stage, frame, loads, uploadTimers, aborted, frameHeard, processed, promise, handling,
             uploadCalls, called, aborts, uploading, form>>
vars == <<subject, sessions, requests, animations, uploads>>

\* Whatever does not move is in one of its first states.
Init ==
    /\ subject \in Subjects
    /\ Registry!Init
    /\ Requested!Init
    /\ subject # "requested" => \A r \in {r1, r2} :
          kind[r] = [global |-> TRUE, async |-> TRUE, timeout |-> FALSE]
    /\ Animated!Init
    /\ subject # "animated" => \A a \in {a1, a2} : animKind[a] = "queued" /\ elem[a] = e1
    /\ Uploaded!Init

Next ==
    \/ /\ subject = "registry" /\ Registry!Next
       /\ UNCHANGED <<subject, requests, animations, uploads>>
    \/ /\ subject = "requested" /\ Requested!Next
       /\ UNCHANGED <<subject, sessions, animations, uploads>>
    \/ /\ subject = "animated" /\ Animated!Next
       /\ UNCHANGED <<subject, sessions, requests, uploads>>
    \/ /\ subject = "uploaded" /\ Uploaded!Next
       /\ UNCHANGED <<subject, sessions, requests, animations>>

\* Each component is owed what its module says.  The others stay in a first
\* state, where nothing of theirs that is owed a step can take one.
FairSpec ==
    Init /\ [][Next]_vars
    /\ Registry!Fairness /\ Requested!Fairness /\ Animated!Fairness /\ Uploaded!Fairness

-----------------------------------------------------------------------------

\* A session whose socket is down leaves both registries of SessionManager.
CleanedUp == Registry!CleanedUp

\* A request that was sent with a timeout ends, even if no server answers, and
\* so does an upload with one.
RequestsEnd == Requested!TimedRequestsEnd /\ Uploaded!EveryUploadEnds

\* Every animation comes to an end, also those in the queue, and every promise()
\* of an element is kept.
AnimationsEnd == Animated!AllEnd /\ Animated!PromisesKept
=============================================================================
