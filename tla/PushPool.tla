------------------------------ MODULE PushPool ------------------------------
(***************************************************************************)
(* The push service: the REST requests that submit a push and confirm it,  *)
(* the thread pool that runs the push tasks (PushThreadPool, PushTask) and *)
(* the in-memory record of their status (PushStatusMap), which a quartz    *)
(* job cleans.                                                             *)
(*                                                                         *)
(* A push, its id, its PushTask and the request that submits it are one    *)
(* element of Tasks.  ThreadPoolExecutor is modelled by its documented     *)
(* behaviour.  Who is online, and whether a packet reaches the device, is  *)
(* left open here: the sessions are the subject of module Sessions.        *)
(***************************************************************************)
EXTENDS Naturals, Sequences, FiniteSets

CONSTANTS
    Tasks,        \* pushes
    NoTask,       \* not a push
    Threads,      \* thread slots, as many as PushThreadPool.ThreadCount
    CoreThreads,  \* PushThreadPool.CoreThreadCount
    QueueSize,    \* PushThreadPool.QueueSize
    Callers,      \* HTTP threads that serve callback requests
    SaveMayFail   \* whether saving the message may throw

ASSUME TasksAssumption == NoTask \notin Tasks
ASSUME PoolAssumption ==
    /\ IsFiniteSet(Threads)
    /\ CoreThreads \in 1..Cardinality(Threads)
    /\ QueueSize \in Nat \ {0}
    /\ SaveMayFail \in BOOLEAN

VARIABLES
    req,        \* how far the request that submits each push has come
    statusMap,  \* the keys of PushStatusMap.statusMap
    status,     \* PushTask.status
    aged,       \* pushes submitted more than ten minutes ago
    queue,      \* the work queue of the pool
    alive,      \* the pool's threads
    job,        \* the push each thread works on
    step,       \* how far PushTask.run has come on each thread
    cbTask, cbStatus,  \* the push a callback has found, and its report
    doomed,     \* the list cleanMap is removing
    delivered,  \* history: pushes written to some device
    ended,      \* history: pushes whose run() has returned
    missed      \* history: pushes whose callback was told "No such ID"

poolVars == <<queue, alive, job, step>>
cbVars == <<cbTask, cbStatus>>
history == <<delivered, ended, missed>>
vars == <<req, statusMap, status, aged, poolVars, cbVars, doomed, history>>

Finished == {"FinishedOK", "FinishedError"}
Status == {"Waiting", "Sending", "Sent", "Offline"} \cup Finished

\* Requests of pushes the pool has taken.
Taken == {"accepted", "ok", "failed"}

TypeOK ==
    /\ req \in [Tasks -> {"none", "added", "full"} \cup Taken]
    /\ statusMap \subseteq Tasks
    /\ status \in [Tasks -> Status]
    /\ aged \subseteq Tasks
    /\ queue \in Seq(Tasks) /\ Len(queue) <= QueueSize
    /\ alive \subseteq Threads
    /\ job \in [Threads -> Tasks \cup {NoTask}]
    /\ step \in [Threads -> {"ready", "sending", "online"}]
    /\ cbTask \in [Callers -> Tasks \cup {NoTask}]
    /\ cbStatus \in [Callers -> Finished]
    /\ doomed \subseteq Tasks
    /\ delivered \subseteq Tasks
    /\ ended \subseteq Tasks
    /\ missed \subseteq Tasks

Init ==
    /\ req = [t \in Tasks |-> "none"]
    /\ statusMap = {}
    /\ status = [t \in Tasks |-> "Waiting"]
    /\ aged = {}
    /\ queue = <<>>
    /\ alive = {}
    /\ job = [th \in Threads |-> NoTask]
    /\ step = [th \in Threads |-> "ready"]
    /\ cbTask = [k \in Callers |-> NoTask]
    /\ cbStatus = [k \in Callers |-> "FinishedOK"]
    /\ doomed = {}
    /\ delivered = {}
    /\ ended = {}
    /\ missed = {}

-----------------------------------------------------------------------------
(* POST /xmpp/push: XmppResource.push calls PushThreadPool.push. *)

\* The push is recorded before the pool is asked to take it.
AddNewPush(t) ==
    /\ req[t] = "none"
    /\ req' = [req EXCEPT ![t] = "added"]
    /\ statusMap' = statusMap \cup {t}
    /\ UNCHANGED <<status, aged, poolVars, cbVars, doomed, history>>

StartThread(t) ==
    \E th \in Threads \ alive :
        /\ alive' = alive \cup {th}
        /\ job' = [job EXCEPT ![th] = t]

\* Fault: the queue is tried before the core threads.
Execute_QueueFirst(t) ==
    /\ req[t] = "added"
    /\ \/ /\ Len(queue) < QueueSize
          /\ queue' = Append(queue, t)
          /\ req' = [req EXCEPT ![t] = "accepted"]
          /\ UNCHANGED <<alive, job>>
       \/ /\ Len(queue) >= QueueSize
          /\ StartThread(t)
          /\ req' = [req EXCEPT ![t] = "accepted"]
          /\ UNCHANGED queue
       \/ /\ Len(queue) >= QueueSize /\ alive = Threads
          /\ req' = [req EXCEPT ![t] = "full"]
          /\ UNCHANGED <<queue, alive, job>>
    /\ UNCHANGED <<statusMap, status, aged, step, cbVars, doomed, history>>

\* Fault: a push is queued when the pool is full, and answered as it should be.
Execute_FullButQueued(t) ==
    /\ req[t] = "added"
    /\ \/ /\ Cardinality(alive) < CoreThreads \/ Len(queue) >= QueueSize
          /\ StartThread(t)
          /\ req' = [req EXCEPT ![t] = "accepted"]
          /\ UNCHANGED queue
       \/ /\ Cardinality(alive) >= CoreThreads
          /\ Len(queue) < QueueSize \/ alive = Threads
          /\ queue' = Append(queue, t)
          /\ req' = [req EXCEPT ![t] = IF Len(queue) < QueueSize THEN "accepted" ELSE "full"]
          /\ UNCHANGED <<alive, job>>
    /\ UNCHANGED <<statusMap, status, aged, step, cbVars, doomed, history>>

\* ThreadPoolExecutor.execute: a core thread, else the queue, else a thread
\* beyond the core, else the rejection that push answers with "full".
Execute(t) ==
    LET core == Cardinality(alive) < CoreThreads
        room == Len(queue) < QueueSize
        more == alive # Threads IN
    /\ req[t] = "added"
    /\ \/ /\ core \/ (~room /\ more)
          /\ StartThread(t)
          /\ req' = [req EXCEPT ![t] = "accepted"]
          /\ UNCHANGED queue
       \/ /\ ~core /\ room
          /\ queue' = Append(queue, t)
          /\ req' = [req EXCEPT ![t] = "accepted"]
          /\ UNCHANGED <<alive, job>>
       \/ /\ ~core /\ ~room /\ ~more
          /\ req' = [req EXCEPT ![t] = "full"]
          /\ UNCHANGED <<queue, alive, job>>
    /\ UNCHANGED <<statusMap, status, aged, step, cbVars, doomed, history>>

\* The message is saved once the push is accepted.  If that throws, the
\* submitter gets an error for a push that goes on.
SaveMessage(t) ==
    /\ req[t] = "accepted"
    /\ \/ req' = [req EXCEPT ![t] = "ok"]
       \/ SaveMayFail /\ req' = [req EXCEPT ![t] = "failed"]
    /\ UNCHANGED <<statusMap, status, aged, poolVars, cbVars, doomed, history>>

-----------------------------------------------------------------------------
(* The threads of the pool. *)

TakeNext(th) ==
    /\ th \in alive /\ job[th] = NoTask
    /\ queue # <<>>
    /\ job' = [job EXCEPT ![th] = Head(queue)]
    /\ queue' = Tail(queue)
    /\ UNCHANGED <<req, statusMap, status, aged, alive, step, cbVars, doomed, history>>

\* A thread beyond the core found no task for KeepAliveSeconds.
ThreadExit(th) ==
    /\ th \in alive /\ job[th] = NoTask
    /\ queue = <<>> /\ Cardinality(alive) > CoreThreads
    /\ alive' = alive \ {th}
    /\ UNCHANGED <<req, statusMap, status, aged, queue, job, step, cbVars, doomed, history>>

RunStart(th) ==
    /\ job[th] # NoTask /\ step[th] = "ready"
    /\ status' = [status EXCEPT ![job[th]] = "Sending"]
    /\ step' = [step EXCEPT ![th] = "sending"]
    /\ UNCHANGED <<req, statusMap, aged, queue, alive, job, cbVars, doomed, history>>

\* Fault: the push is sent, but not noted to be.
PushMsg_NotNoted(th) ==
    /\ job[th] # NoTask /\ step[th] # "ready"
    /\ delivered' \in {delivered, delivered \cup {job[th]}}
    /\ UNCHANGED <<req, statusMap, status, aged, poolVars, cbVars, doomed, ended, missed>>

\* pushMsg found an available session whose address matches.  Its connection
\* may be closed by now, and the packet lost.
PushMsg(th) ==
    /\ job[th] # NoTask /\ step[th] # "ready"
    /\ step' = [step EXCEPT ![th] = "online"]
    /\ delivered' \in {delivered, delivered \cup {job[th]}}
    /\ UNCHANGED <<req, statusMap, status, aged, queue, alive, job, cbVars, doomed, ended, missed>>

\* Fault: the result of pushMsg is taken the wrong way round.
RunEnd_Swapped(th) ==
    /\ job[th] # NoTask /\ step[th] # "ready"
    /\ status' = [status EXCEPT ![job[th]] = IF step[th] = "online" THEN "Offline" ELSE "Sent"]
    /\ ended' = ended \cup {job[th]}
    /\ job' = [job EXCEPT ![th] = NoTask]
    /\ step' = [step EXCEPT ![th] = "ready"]
    /\ UNCHANGED <<req, statusMap, aged, queue, alive, cbVars, doomed, delivered, missed>>

\* Fault: a push that found no device is run again.
RunEnd_Again(th) ==
    /\ job[th] # NoTask /\ step[th] # "ready"
    /\ status' = [status EXCEPT ![job[th]] = IF step[th] = "online" THEN "Sent" ELSE "Offline"]
    /\ ended' = ended \cup {job[th]}
    /\ job' = [job EXCEPT ![th] = IF step[th] = "online" THEN NoTask ELSE @]
    /\ step' = [step EXCEPT ![th] = "ready"]
    /\ UNCHANGED <<req, statusMap, aged, queue, alive, cbVars, doomed, delivered, missed>>

RunEnd(th) ==
    /\ job[th] # NoTask /\ step[th] # "ready"
    /\ status' = [status EXCEPT ![job[th]] = IF step[th] = "online" THEN "Sent" ELSE "Offline"]
    /\ ended' = ended \cup {job[th]}
    /\ job' = [job EXCEPT ![th] = NoTask]
    /\ step' = [step EXCEPT ![th] = "ready"]
    /\ UNCHANGED <<req, statusMap, aged, queue, alive, cbVars, doomed, delivered, missed>>

-----------------------------------------------------------------------------
(* POST /xmpp/callback: a device confirms a push it has received.          *)
(* PushStatusMap.changeStatus looks the task up, then changes it.          *)

FindTask(k) ==
    /\ cbTask[k] = NoTask
    /\ \E t \in delivered, report \in Finished :
          \/ /\ t \in statusMap
             /\ cbTask' = [cbTask EXCEPT ![k] = t]
             /\ cbStatus' = [cbStatus EXCEPT ![k] = report]
             /\ UNCHANGED missed
          \/ /\ t \notin statusMap
             /\ missed' = missed \cup {t}
             /\ UNCHANGED cbVars
    /\ UNCHANGED <<req, statusMap, status, aged, poolVars, doomed, delivered, ended>>

SetStatus(k) ==
    /\ cbTask[k] # NoTask
    /\ status' = [status EXCEPT ![cbTask[k]] = cbStatus[k]]
    /\ cbTask' = [cbTask EXCEPT ![k] = NoTask]
    /\ cbStatus' = [cbStatus EXCEPT ![k] = "FinishedOK"]
    /\ UNCHANGED <<req, statusMap, aged, poolVars, doomed, history>>

-----------------------------------------------------------------------------
(* PushStatusCheckJob: cleanMap lists what is old, then removes it. *)

\* Ten minutes pass since the PushTask was made.
Age(t) ==
    /\ req[t] # "none" /\ t \notin aged
    /\ aged' = aged \cup {t}
    /\ UNCHANGED <<req, statusMap, status, poolVars, cbVars, doomed, history>>

\* Fault: the age is not looked at.
ListOld_Any ==
    /\ doomed = {} /\ statusMap # {}
    /\ doomed' = statusMap
    /\ UNCHANGED <<req, statusMap, status, aged, poolVars, cbVars, history>>

\* Fault: only pushes that have been sent are removed.
ListOld_Ended ==
    /\ doomed = {} /\ statusMap \cap aged \cap ended # {}
    /\ doomed' = statusMap \cap aged \cap ended
    /\ UNCHANGED <<req, statusMap, status, aged, poolVars, cbVars, history>>

ListOld ==
    /\ doomed = {} /\ statusMap \cap aged # {}
    /\ doomed' = statusMap \cap aged
    /\ UNCHANGED <<req, statusMap, status, aged, poolVars, cbVars, history>>

RemoveOld(t) ==
    /\ t \in doomed
    /\ statusMap' = statusMap \ {t}
    /\ doomed' = doomed \ {t}
    /\ UNCHANGED <<req, status, aged, poolVars, cbVars, history>>

-----------------------------------------------------------------------------
Request(t) == AddNewPush(t) \/ Execute(t) \/ SaveMessage(t)
Run(th) == TakeNext(th) \/ RunStart(th) \/ RunEnd(th)
Callback(k) == FindTask(k) \/ SetStatus(k)
CleanMap == ListOld \/ \E t \in Tasks : RemoveOld(t)

Next ==
    \/ \E t \in Tasks : Request(t) \/ Age(t)
    \/ \E th \in Threads : Run(th) \/ PushMsg(th) \/ ThreadExit(th)
    \/ \E k \in Callers : Callback(k)
    \/ CleanMap

Spec == Init /\ [][Next]_vars

\* Threads keep running, time passes and the quartz job keeps firing.
Fairness ==
    /\ \A t \in Tasks : WF_vars(Execute(t)) /\ WF_vars(SaveMessage(t)) /\ WF_vars(Age(t))
    /\ \A th \in Threads : WF_vars(Run(th))
    /\ \A k \in Callers : WF_vars(SetStatus(k))
    /\ WF_vars(CleanMap)

FairSpec == Spec /\ Fairness

-----------------------------------------------------------------------------
(* What the service promises. *)

\* The pool loses no accepted push and runs none twice: it waits in one place of
\* the queue, or one thread works on it, or it has ended.
OnePlace ==
    \A t \in Tasks :
        Cardinality({i \in 1..Len(queue) : queue[i] = t})
          + Cardinality({th \in Threads : job[th] = t})
          + (IF t \in ended THEN 1 ELSE 0)
        = (IF req[t] \in Taken THEN 1 ELSE 0)

\* While pushes are queued the pool has its core threads, to take them.
QueueServed == queue # <<>> => Cardinality(alive) >= CoreThreads

\* A push the pool has rejected stays at "Waiting" (the comment of the class
\* PushStatusMap) and is never sent.
RejectedWaits ==
    \A t \in Tasks : req[t] = "full" => status[t] = "Waiting" /\ t \notin delivered

\* Only a push that is more than ten minutes old is unknown to the callback of
\* the device that received it.
OnlyOldUnknown == missed \subseteq aged

\* "Offline" is never shown for a push that was written to a device.
OfflineUnsent == \A t \in Tasks : status[t] = "Offline" => t \notin delivered

\* The report of a device is overwritten by the last write of its own push at
\* most: when run() has returned, it stands.
ReportStands ==
    [][\A t \in ended : status[t] \in Finished => status'[t] \in Finished]_vars

\* What GET /xmpp/PushStatus answers; "Unknown" and "Gone" are both null.
Answer ==
    [t \in Tasks |-> IF t \in statusMap THEN status[t]
                     ELSE IF req[t] = "none" THEN "Unknown" ELSE "Gone"]

Lifecycle == INSTANCE PushLifecycle WITH shown <- Answer

\* The answers of GET /xmpp/PushStatus follow PushLifecycle.
FollowsLifecycle == Lifecycle!Spec

\* Every accepted push is run.
AcceptedEnds == \A t \in Tasks : req[t] = "accepted" ~> t \in ended

\* The record of a push does not stay in memory for ever, whether the push was
\* sent, is still queued or was rejected.
MapDrains == \A t \in Tasks : t \in statusMap ~> t \notin statusMap
=============================================================================
