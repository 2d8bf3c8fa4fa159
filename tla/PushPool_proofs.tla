--------------------------- MODULE PushPool_proofs ---------------------------
(***************************************************************************)
(* Proofs about module PushPool, for any number of pushes and callers and  *)
(* any size of the pool and its queue.                                     *)
(***************************************************************************)
EXTENDS PushPool, FiniteSetTheorems, TLAPS

LEMMA TypeInit == Init => TypeOK
  BY PoolAssumption DEF Init, TypeOK, Status, Finished, Taken

\* The queue after one push has left it.
LEMMA QueueTail ==
  ASSUME NEW q \in Seq(Tasks), q # <<>>
  PROVE  /\ Len(q) \in Nat \ {0} /\ Head(q) = q[1] /\ Head(q) \in Tasks
         /\ Tail(q) \in Seq(Tasks) /\ Len(Tail(q)) = Len(q) - 1
         /\ \A i \in 1..Len(Tail(q)) : Tail(q)[i] = q[i + 1]
  OBVIOUS

\* The queue after one push has joined it.
LEMMA QueueAppend ==
  ASSUME NEW q \in Seq(Tasks), NEW t \in Tasks
  PROVE  /\ Append(q, t) \in Seq(Tasks) /\ Len(Append(q, t)) = Len(q) + 1 /\ Len(q) \in Nat
         /\ \A i \in 1..Len(q) : Append(q, t)[i] = q[i]
         /\ Append(q, t)[Len(q) + 1] = t
  OBVIOUS

LEMMA TypeStep == TypeOK /\ [Next]_vars => TypeOK'
<1> SUFFICES ASSUME TypeOK, [Next]_vars PROVE TypeOK'
  OBVIOUS
<1> USE PoolAssumption, TasksAssumption
<1> USE DEF TypeOK, Status, Finished, Taken, poolVars, cbVars, history
<1>1. ASSUME NEW t \in Tasks, AddNewPush(t) PROVE TypeOK'
  BY <1>1 DEF AddNewPush
<1>2. ASSUME NEW t \in Tasks, Execute(t) PROVE TypeOK'
  <2>0. queue' = queue \/ (queue' = Append(queue, t) /\ Len(queue) < QueueSize)
    BY <1>2 DEF Execute
  <2>1. queue' \in Seq(Tasks) /\ Len(queue') <= QueueSize
    BY <2>0, QueueAppend
  <2>2. alive' \subseteq Threads /\ job' \in [Threads -> Tasks \cup {NoTask}]
    BY <1>2 DEF Execute, StartThread
  <2>3. req' \in [Tasks -> {"none", "added", "full"} \cup Taken]
    BY <1>2, ZenonT(40) DEF Execute
  <2> QED
    BY <1>2, <2>1, <2>2, <2>3 DEF Execute
<1>3. ASSUME NEW t \in Tasks, SaveMessage(t) PROVE TypeOK'
  BY <1>3 DEF SaveMessage
<1>4. ASSUME NEW t \in Tasks, Age(t) PROVE TypeOK'
  BY <1>4 DEF Age
<1>5. ASSUME NEW th \in Threads, TakeNext(th) PROVE TypeOK'
  BY <1>5, QueueTail DEF TakeNext
<1>6. ASSUME NEW th \in Threads, RunStart(th) PROVE TypeOK'
  BY <1>6 DEF RunStart
<1>7. ASSUME NEW th \in Threads, RunEnd(th) PROVE TypeOK'
  BY <1>7 DEF RunEnd
<1>8. ASSUME NEW th \in Threads, PushMsg(th) PROVE TypeOK'
  BY <1>8 DEF PushMsg
<1>9. ASSUME NEW th \in Threads, ThreadExit(th) PROVE TypeOK'
  BY <1>9 DEF ThreadExit
<1>10. ASSUME NEW k \in Callers, FindTask(k) PROVE TypeOK'
  BY <1>10 DEF FindTask
<1>11. ASSUME NEW k \in Callers, SetStatus(k) PROVE TypeOK'
  BY <1>11 DEF SetStatus
<1>12. ASSUME ListOld PROVE TypeOK'
  BY <1>12 DEF ListOld
<1>13. ASSUME NEW t \in Tasks, RemoveOld(t) PROVE TypeOK'
  BY <1>13 DEF RemoveOld
<1>14. CASE UNCHANGED vars
  BY <1>14 DEF vars
<1> QED
  BY <1>1, <1>2, <1>3, <1>4, <1>5, <1>6, <1>7, <1>8, <1>9, <1>10, <1>11,
     <1>12, <1>13, <1>14
  DEF Next, Request, Run, Callback, CleanMap

\* The state of the push service is well-formed: its queue never exceeds its size.
THEOREM PoolTypeCorrect == Spec => []TypeOK
  BY TypeInit, TypeStep, PTL DEF Spec

-----------------------------------------------------------------------------
(* Where a push is.  OnePlace counts; PlaceInv says the same without numbers, *)
(* and that the thread slots StartThread takes are empty.                    *)

PlaceInv ==
    /\ \A i \in 1..Len(queue) : req[queue[i]] \in Taken /\ queue[i] \notin ended
    /\ \A i, j \in 1..Len(queue) : queue[i] = queue[j] => i = j
    /\ \A th \in Threads :
          job[th] # NoTask => /\ req[job[th]] \in Taken
                              /\ job[th] \notin ended
                              /\ th \in alive
    /\ \A th, other \in Threads : job[th] = job[other] => th = other \/ job[th] = NoTask
    /\ \A th \in Threads, i \in 1..Len(queue) : job[th] # queue[i]
    /\ \A t \in ended : req[t] \in Taken
    /\ \A t \in Tasks :
          req[t] \in Taken => \/ t \in ended
                              \/ \E th \in Threads : job[th] = t
                              \/ \E i \in 1..Len(queue) : queue[i] = t

LEMMA PlaceInit == Init => PlaceInv
  BY DEF Init, PlaceInv, Taken

LEMMA PlaceStep ==
  ASSUME TypeOK, PlaceInv, [Next]_vars
  PROVE  PlaceInv'
<1> USE PoolAssumption, TasksAssumption
<1> USE DEF PlaceInv, Taken, poolVars, cbVars, history
<1>t. TypeOK /\ TypeOK' /\ PlaceInv
  BY TypeStep
<1>1. ASSUME NEW t \in Tasks, AddNewPush(t) PROVE PlaceInv'
  BY <1>1, <1>t DEF AddNewPush, TypeOK
<1>2. ASSUME NEW t \in Tasks, Execute(t) PROVE PlaceInv'
  <2>1. /\ req[t] = "added" /\ t \notin ended /\ UNCHANGED ended
        /\ \A i \in 1..Len(queue) : queue[i] # t
        /\ \A th \in Threads : job[th] # t
        /\ \A u \in Tasks \ {t} : req'[u] = req[u]
    BY <1>2, <1>t DEF Execute, TypeOK
  <2>2. ASSUME StartThread(t), req' = [req EXCEPT ![t] = "accepted"], queue' = queue
        PROVE  PlaceInv'
    <3>1. PICK th \in Threads \ alive :
             alive' = alive \cup {th} /\ job' = [job EXCEPT ![th] = t]
      BY <2>2 DEF StartThread
    <3>2. job[th] = NoTask /\ job'[th] = t /\ req'[t] \in Taken
      BY <2>2, <3>1, <1>t DEF TypeOK
    <3>3. \A other \in Threads \ {th} : job'[other] = job[other]
      BY <3>1, <1>t DEF TypeOK
    <3> QED
      BY <2>1, <2>2, <3>1, <3>2, <3>3, <1>t DEF TypeOK
  <2>3. ASSUME queue' = Append(queue, t), req' = [req EXCEPT ![t] = "accepted"],
               UNCHANGED <<alive, job>>
        PROVE  PlaceInv'
    <3>1. /\ Len(queue') = Len(queue) + 1 /\ Len(queue) \in Nat
          /\ \A i \in 1..Len(queue) : queue'[i] = queue[i]
          /\ queue'[Len(queue')] = t
      BY <2>3, <1>t, QueueAppend DEF TypeOK
    <3>2. \A i \in 1..Len(queue') : i = Len(queue') \/ i \in 1..Len(queue)
      BY <3>1
    <3>3. Len(queue') \in 1..Len(queue') /\ 1..Len(queue) \subseteq 1..Len(queue')
      BY <3>1
    <3>4. req'[t] \in Taken
      BY <2>3, <1>t DEF TypeOK
    <3> HIDE DEF Taken
    <3>5. /\ \A i \in 1..Len(queue') : req'[queue'[i]] \in Taken /\ queue'[i] \notin ended'
          /\ \A i, j \in 1..Len(queue') : queue'[i] = queue'[j] => i = j
          /\ \A th \in Threads, i \in 1..Len(queue') : job'[th] # queue'[i]
      BY <2>1, <2>3, <3>1, <3>2, <3>4, <1>t DEF TypeOK
    <3>6. \A u \in Tasks :
             req'[u] \in Taken => \/ u \in ended'
                                  \/ \E th \in Threads : job'[th] = u
                                  \/ \E i \in 1..Len(queue') : queue'[i] = u
      <4>1. ASSUME NEW u \in Tasks \ {t}, req'[u] \in Taken, u \notin ended,
                   \A th \in Threads : job[th] # u
            PROVE  \E i \in 1..Len(queue') : queue'[i] = u
        <5>1. PICK i \in 1..Len(queue) : queue[i] = u
          BY <4>1, <2>1, <1>t
        <5> QED
          BY <5>1, <3>1, <3>3
      <4>2. \E i \in 1..Len(queue') : queue'[i] = t
        BY <3>1, <3>3
      <4>3. job' = job /\ ended' = ended
        BY <2>1, <2>3
      <4>4. ASSUME NEW u \in Tasks, req'[u] \in Taken
            PROVE  \/ u \in ended'
                   \/ \E th \in Threads : job'[th] = u
                   \/ \E i \in 1..Len(queue') : queue'[i] = u
        BY <4>1, <4>2, <4>3, <4>4
      <4> QED
        BY <4>4
    <3>7. /\ \A th \in Threads :
                job'[th] # NoTask => /\ req'[job'[th]] \in Taken
                                     /\ job'[th] \notin ended'
                                     /\ th \in alive'
          /\ \A u \in ended' : req'[u] \in Taken
      BY <2>1, <2>3, <1>t DEF TypeOK
    <3> QED
      BY <2>3, <3>5, <3>6, <3>7, <1>t, SMTT(30)
  <2>4. ASSUME req' = [req EXCEPT ![t] = "full"], UNCHANGED <<queue, alive, job>>
        PROVE  PlaceInv'
    BY <2>1, <2>4, <1>t DEF TypeOK
  <2> QED
    BY <1>2, <2>2, <2>3, <2>4 DEF Execute
<1>3. ASSUME NEW t \in Tasks, SaveMessage(t) PROVE PlaceInv'
  <2>1. UNCHANGED <<queue, alive, job, ended>>
    BY <1>3 DEF SaveMessage
  <2>2. \A u \in Tasks : req'[u] \in Taken <=> req[u] \in Taken
    BY <1>3, <1>t DEF SaveMessage, TypeOK
  <2> HIDE DEF Taken
  <2> QED
    BY <2>1, <2>2, <1>t DEF TypeOK
<1>4. ASSUME NEW t \in Tasks, Age(t) PROVE PlaceInv'
  BY <1>4, <1>t DEF Age, TypeOK
<1>5. ASSUME NEW th \in Threads, TakeNext(th) PROVE PlaceInv'
  <2>1. /\ Len(queue) \in Nat \ {0} /\ Len(queue') = Len(queue) - 1
        /\ \A i \in 1..Len(queue') : i + 1 \in 1..Len(queue) /\ queue'[i] = queue[i + 1]
        /\ 1 \in 1..Len(queue) /\ Head(queue) = queue[1]
    BY <1>5, <1>t, QueueTail DEF TakeNext, TypeOK
  <2>2. \A i \in 1..Len(queue) : i = 1 \/ (i - 1 \in 1..Len(queue') /\ queue'[i - 1] = queue[i])
    BY <2>1
  <2>3. /\ job[th] = NoTask /\ job'[th] = queue[1] /\ th \in alive /\ UNCHANGED <<req, ended, alive>>
        /\ \A other \in Threads \ {th} : job'[other] = job[other]
    BY <1>5, <1>t, <2>1 DEF TakeNext, TypeOK
  <2> HIDE DEF Taken
  <2>4. /\ \A i \in 1..Len(queue') : req'[queue'[i]] \in Taken /\ queue'[i] \notin ended'
        /\ \A i, j \in 1..Len(queue') : queue'[i] = queue'[j] => i = j
    <3>1. ASSUME NEW i \in 1..Len(queue'), NEW j \in 1..Len(queue'), queue'[i] = queue'[j]
          PROVE  i = j
      <4>1. i + 1 = j + 1
        BY <2>1, <3>1, <1>t
      <4> QED
        BY <4>1
    <3> QED
      BY <2>1, <2>3, <3>1, <1>t, SMTT(30)
  <2>5. \A i \in 1..Len(queue') : queue'[i] # queue[1]
    BY <2>1, <1>t
  <2>6. \A x \in Threads, i \in 1..Len(queue') : job'[x] # queue'[i]
    BY <2>1, <2>3, <2>5, <1>t
  <2>7. \A u \in Tasks :
           req'[u] \in Taken => \/ u \in ended'
                                \/ \E x \in Threads : job'[x] = u
                                \/ \E i \in 1..Len(queue') : queue'[i] = u
    <3>1. ASSUME NEW u \in Tasks, req'[u] \in Taken, u \notin ended',
                 NEW x \in Threads, job[x] = u
          PROVE  job'[x] = u
      BY <2>3, <3>1, TasksAssumption
    <3>2. ASSUME NEW u \in Tasks, NEW i \in 1..Len(queue), queue[i] = u
          PROVE  job'[th] = u \/ \E k \in 1..Len(queue') : queue'[k] = u
      BY <2>2, <2>3, <3>2
    <3>3. \A u \in Tasks :
             req[u] \in Taken => \/ u \in ended
                                 \/ \E x \in Threads : job[x] = u
                                 \/ \E i \in 1..Len(queue) : queue[i] = u
      BY <1>t
    <3>4. req' = req /\ ended' = ended
      BY <2>3
    <3> HIDE DEF PlaceInv
    <3> QED
      BY <3>1, <3>2, <3>3, <3>4
  <2>8. /\ \A x \in Threads :
              job'[x] # NoTask => req'[job'[x]] \in Taken /\ job'[x] \notin ended' /\ x \in alive'
        /\ \A x, y \in Threads : job'[x] = job'[y] => x = y \/ job'[x] = NoTask
    BY <2>1, <2>3, <1>t
  <2> QED
    BY <2>3, <2>4, <2>6, <2>7, <2>8, <1>t
<1>6. ASSUME NEW th \in Threads, RunStart(th) PROVE PlaceInv'
  BY <1>6, <1>t DEF RunStart, TypeOK
<1>7. ASSUME NEW th \in Threads, RunEnd(th) PROVE PlaceInv'
  BY <1>7, <1>t DEF RunEnd, TypeOK
<1>8. ASSUME NEW th \in Threads, PushMsg(th) PROVE PlaceInv'
  BY <1>8, <1>t DEF PushMsg, TypeOK
<1>9. ASSUME NEW th \in Threads, ThreadExit(th) PROVE PlaceInv'
  BY <1>9, <1>t DEF ThreadExit, TypeOK
<1>10. ASSUME NEW k \in Callers, FindTask(k) PROVE PlaceInv'
  BY <1>10, <1>t DEF FindTask, TypeOK
<1>11. ASSUME NEW k \in Callers, SetStatus(k) PROVE PlaceInv'
  BY <1>11, <1>t DEF SetStatus, TypeOK
<1>12. ASSUME ListOld PROVE PlaceInv'
  BY <1>12, <1>t DEF ListOld, TypeOK
<1>13. ASSUME NEW t \in Tasks, RemoveOld(t) PROVE PlaceInv'
  BY <1>13, <1>t DEF RemoveOld, TypeOK
<1>14. CASE UNCHANGED vars
  BY <1>14, <1>t DEF vars, TypeOK
<1> QED
  BY <1>1, <1>2, <1>3, <1>4, <1>5, <1>6, <1>7, <1>8, <1>9, <1>10, <1>11,
     <1>12, <1>13, <1>14
  DEF Next, Request, Run, Callback, CleanMap

-----------------------------------------------------------------------------
(* What a push shows. *)

StatusInv ==
    /\ \A th \in Threads : step[th] # "ready" => job[th] # NoTask
    /\ \A th \in Threads :
          job[th] # NoTask =>
             \/ step[th] = "ready" /\ status[job[th]] = "Waiting" /\ job[th] \notin delivered
             \/ step[th] = "sending" /\ status[job[th]] = "Sending" /\ job[th] \notin delivered
             \/ step[th] = "online" /\ status[job[th]] \in {"Sending"} \cup Finished
    /\ \A i \in 1..Len(queue) : status[queue[i]] = "Waiting" /\ queue[i] \notin delivered
    /\ \A t \in Tasks : req[t] \notin Taken => status[t] = "Waiting" /\ t \notin delivered
    /\ \A t \in ended :
          status[t] \in {"Sent"} \cup Finished \/ (status[t] = "Offline" /\ t \notin delivered)
    /\ \A k \in Callers : cbTask[k] # NoTask => cbTask[k] \in delivered

LEMMA StatusInit == Init => StatusInv
  BY DEF Init, StatusInv, Taken

\* A push that some device has received is being sent, or has been.
LEMMA DeliveredStatus ==
  ASSUME TypeOK, PlaceInv, StatusInv, NEW t \in delivered
  PROVE  /\ t \in Tasks /\ req[t] \in Taken
         /\ status[t] \in {"Sending", "Sent"} \cup Finished
         /\ \A th \in Threads : job[th] = t => step[th] = "online"
         /\ \A i \in 1..Len(queue) : queue[i] # t
  BY TasksAssumption DEF TypeOK, PlaceInv, StatusInv

LEMMA StatusStep ==
  ASSUME TypeOK, PlaceInv, StatusInv, [Next]_vars
  PROVE  StatusInv'
<1> USE PoolAssumption, TasksAssumption
<1> USE DEF StatusInv, Taken, Finished, poolVars, cbVars, history
<1>t. TypeOK /\ TypeOK' /\ PlaceInv /\ PlaceInv' /\ StatusInv
  BY TypeStep, PlaceStep
<1>1. ASSUME NEW t \in Tasks, AddNewPush(t) PROVE StatusInv'
  BY <1>1, <1>t DEF AddNewPush, TypeOK, PlaceInv
<1>2. ASSUME NEW t \in Tasks, Execute(t) PROVE StatusInv'
  <2>1. /\ req[t] = "added" /\ UNCHANGED <<status, step, delivered, ended, cbTask>>
        /\ \A u \in Tasks \ {t} : req'[u] = req[u]
        /\ status[t] = "Waiting" /\ t \notin delivered
    BY <1>2, <1>t, SMTT(30) DEF Execute, TypeOK
  <2>2. /\ \A th \in Threads :
              job'[th] = job[th] \/ (job'[th] = t /\ step[th] = "ready")
        /\ \A i \in 1..Len(queue') :
              queue'[i] = t \/ (i \in 1..Len(queue) /\ queue'[i] = queue[i])
    <3>1. CASE StartThread(t) /\ queue' = queue
      <4>1. PICK th \in Threads \ alive : job' = [job EXCEPT ![th] = t]
        BY <3>1 DEF StartThread
      <4>2. step[th] = "ready"
        BY <4>1, <1>t DEF PlaceInv, TypeOK
      <4> QED
        BY <3>1, <4>1, <4>2, <1>t DEF TypeOK
    <3>2. CASE queue' = Append(queue, t) /\ job' = job
      BY <3>2, <1>t, QueueAppend DEF TypeOK
    <3>3. CASE queue' = queue /\ job' = job
      BY <3>3
    <3> QED
      BY <1>2, <3>1, <3>2, <3>3 DEF Execute
  <2>3. \A u \in Tasks : req'[u] \notin Taken => req[u] \notin Taken
    BY <2>1
  <2>4. \A th \in Threads : step'[th] # "ready" => job'[th] # NoTask
    BY <2>1, <2>2, <1>t
  <2>5. \A th \in Threads :
          job'[th] # NoTask =>
             \/ step'[th] = "ready" /\ status'[job'[th]] = "Waiting" /\ job'[th] \notin delivered'
             \/ step'[th] = "sending" /\ status'[job'[th]] = "Sending" /\ job'[th] \notin delivered'
             \/ step'[th] = "online" /\ status'[job'[th]] \in {"Sending"} \cup Finished
    BY <2>1, <2>2, <1>t
  <2> QED
    BY <2>1, <2>2, <2>3, <2>4, <2>5, <1>t
<1>3. ASSUME NEW t \in Tasks, SaveMessage(t) PROVE StatusInv'
  BY <1>3, <1>t DEF SaveMessage, TypeOK, PlaceInv
<1>4. ASSUME NEW t \in Tasks, Age(t) PROVE StatusInv'
  BY <1>4, <1>t DEF Age, TypeOK, PlaceInv
<1>5. ASSUME NEW th \in Threads, TakeNext(th) PROVE StatusInv'
  BY <1>5, <1>t DEF TakeNext, TypeOK, PlaceInv
<1>6. ASSUME NEW th \in Threads, RunStart(th) PROVE StatusInv'
  BY <1>6, <1>t DEF RunStart, TypeOK, PlaceInv
<1>7. ASSUME NEW th \in Threads, RunEnd(th) PROVE StatusInv'
  BY <1>7, <1>t DEF RunEnd, TypeOK, PlaceInv
<1>8. ASSUME NEW th \in Threads, PushMsg(th) PROVE StatusInv'
  BY <1>8, <1>t DEF PushMsg, TypeOK, PlaceInv
<1>9. ASSUME NEW th \in Threads, ThreadExit(th) PROVE StatusInv'
  BY <1>9, <1>t DEF ThreadExit, TypeOK, PlaceInv
<1>10. ASSUME NEW k \in Callers, FindTask(k) PROVE StatusInv'
  BY <1>10, <1>t DEF FindTask, TypeOK, PlaceInv
<1>11. ASSUME NEW k \in Callers, SetStatus(k) PROVE StatusInv'
  BY <1>11, <1>t DEF SetStatus, TypeOK, PlaceInv
<1>12. ASSUME ListOld PROVE StatusInv'
  BY <1>12, <1>t DEF ListOld, TypeOK, PlaceInv
<1>13. ASSUME NEW t \in Tasks, RemoveOld(t) PROVE StatusInv'
  BY <1>13, <1>t DEF RemoveOld, TypeOK, PlaceInv
<1>14. CASE UNCHANGED vars
  BY <1>14, <1>t DEF vars, TypeOK, PlaceInv
<1> QED
  BY <1>1, <1>2, <1>3, <1>4, <1>5, <1>6, <1>7, <1>8, <1>9, <1>10, <1>11,
     <1>12, <1>13, <1>14
  DEF Next, Request, Run, Callback, CleanMap

LEMMA PoolInvariant == Spec => [](TypeOK /\ PlaceInv /\ StatusInv)
<1>1. Init => TypeOK /\ PlaceInv /\ StatusInv
  BY TypeInit, PlaceInit, StatusInit
<1>2. TypeOK /\ PlaceInv /\ StatusInv /\ [Next]_vars => TypeOK' /\ PlaceInv' /\ StatusInv'
  BY TypeStep, PlaceStep, StatusStep
<1> QED
  BY <1>1, <1>2, PTL DEF Spec

\* The pool loses no accepted push and runs none twice.
THEOREM AcceptedInOnePlace == Spec => []OnePlace
<1>1. ASSUME TypeOK, PlaceInv PROVE OnePlace
  <2> SUFFICES ASSUME NEW t \in Tasks
               PROVE  Cardinality({i \in 1..Len(queue) : queue[i] = t})
                        + Cardinality({th \in Threads : job[th] = t})
                        + (IF t \in ended THEN 1 ELSE 0)
                      = (IF req[t] \in Taken THEN 1 ELSE 0)
    BY DEF OnePlace
  <2> DEFINE Q == {i \in 1..Len(queue) : queue[i] = t}
             J == {th \in Threads : job[th] = t}
  <2>1. /\ Q = {} \/ \E i : Q = {i}
        /\ J = {} \/ \E th : J = {th}
    <3>1. ASSUME NEW i \in Q PROVE Q = {i}
      BY <1>1 DEF PlaceInv
    <3>2. ASSUME NEW th \in J PROVE J = {th}
      BY <1>1, TasksAssumption DEF PlaceInv
    <3> QED
      BY <3>1, <3>2
  <2>2. /\ Q = {} \/ J = {}
        /\ t \in ended => Q = {} /\ J = {}
        /\ req[t] \notin Taken => Q = {} /\ J = {} /\ t \notin ended
        /\ req[t] \in Taken => Q # {} \/ J # {} \/ t \in ended
    BY <1>1, TasksAssumption DEF PlaceInv
  <2>3. Cardinality({}) = 0 /\ \A x : Cardinality({x}) = 1
    BY FS_EmptySet, FS_Singleton
  <2>4. /\ Cardinality(Q) = IF Q = {} THEN 0 ELSE 1
        /\ Cardinality(J) = IF J = {} THEN 0 ELSE 1
    BY <2>1, <2>3
  <2> HIDE DEF Q, J
  <2>5. Cardinality(Q) + Cardinality(J) + (IF t \in ended THEN 1 ELSE 0)
          = (IF req[t] \in Taken THEN 1 ELSE 0)
    BY <2>2, <2>4
  <2> QED
    BY <2>5 DEF Q, J
<1> QED
  BY <1>1, PoolInvariant, PTL

\* A rejected push shows "Waiting" and is never sent.
THEOREM RejectedNeverSent == Spec => []RejectedWaits
<1>1. StatusInv => RejectedWaits
  BY DEF StatusInv, RejectedWaits, Taken
<1> QED
  BY <1>1, PoolInvariant, PTL

\* "Offline" is not shown for a push that was written to a device.
THEOREM OfflineNeverSent == Spec => []OfflineUnsent
<1>1. TypeOK /\ PlaceInv /\ StatusInv => OfflineUnsent
  BY DeliveredStatus DEF OfflineUnsent, Finished
<1> QED
  BY <1>1, PoolInvariant, PTL

-----------------------------------------------------------------------------
(* The record of the pushes. *)

MapInv ==
    /\ \A t \in statusMap : req[t] # "none"
    /\ \A t \in Tasks : req[t] # "none" => t \in statusMap \cup aged
    /\ doomed \subseteq statusMap \cap aged
    /\ missed \subseteq aged

LEMMA MapInit == Init => MapInv
  BY DEF Init, MapInv

LEMMA MapStep ==
  ASSUME TypeOK, PlaceInv, StatusInv, MapInv, [Next]_vars
  PROVE  MapInv'
<1> USE DEF MapInv, Taken, poolVars, cbVars, history
<1>t. TypeOK /\ TypeOK' /\ PlaceInv /\ StatusInv /\ MapInv
  BY TypeStep
<1>1. ASSUME NEW t \in Tasks, AddNewPush(t) PROVE MapInv'
  BY <1>1, <1>t DEF AddNewPush, TypeOK
<1>2. ASSUME NEW t \in Tasks, Execute(t) PROVE MapInv'
  BY <1>2, <1>t DEF Execute, TypeOK
<1>3. ASSUME NEW t \in Tasks, SaveMessage(t) PROVE MapInv'
  BY <1>3, <1>t DEF SaveMessage, TypeOK
<1>4. ASSUME NEW t \in Tasks, Age(t) PROVE MapInv'
  BY <1>4, <1>t DEF Age, TypeOK
<1>5. ASSUME NEW th \in Threads, TakeNext(th) PROVE MapInv'
  BY <1>5, <1>t DEF TakeNext, TypeOK
<1>6. ASSUME NEW th \in Threads, RunStart(th) PROVE MapInv'
  BY <1>6, <1>t DEF RunStart, TypeOK
<1>7. ASSUME NEW th \in Threads, RunEnd(th) PROVE MapInv'
  BY <1>7, <1>t DEF RunEnd, TypeOK
<1>8. ASSUME NEW th \in Threads, PushMsg(th) PROVE MapInv'
  BY <1>8, <1>t DEF PushMsg, TypeOK
<1>9. ASSUME NEW th \in Threads, ThreadExit(th) PROVE MapInv'
  BY <1>9, <1>t DEF ThreadExit, TypeOK
<1>10. ASSUME NEW k \in Callers, FindTask(k) PROVE MapInv'
  BY <1>10, <1>t, DeliveredStatus DEF FindTask, TypeOK
<1>11. ASSUME NEW k \in Callers, SetStatus(k) PROVE MapInv'
  BY <1>11, <1>t DEF SetStatus, TypeOK
<1>12. ASSUME ListOld PROVE MapInv'
  BY <1>12, <1>t DEF ListOld, TypeOK
<1>13. ASSUME NEW t \in Tasks, RemoveOld(t) PROVE MapInv'
  BY <1>13, <1>t DEF RemoveOld, TypeOK
<1>14. CASE UNCHANGED vars
  BY <1>14, <1>t DEF vars, TypeOK
<1> QED
  BY <1>1, <1>2, <1>3, <1>4, <1>5, <1>6, <1>7, <1>8, <1>9, <1>10, <1>11,
     <1>12, <1>13, <1>14
  DEF Next, Request, Run, Callback, CleanMap

LEMMA MapInvariant == Spec => [](TypeOK /\ PlaceInv /\ StatusInv /\ MapInv)
  BY MapInit, MapStep, PoolInvariant, PTL DEF Spec

\* Only a push that is more than ten minutes old is unknown to the callback.
THEOREM UnknownAreOld == Spec => []OnlyOldUnknown
<1>1. MapInv => OnlyOldUnknown
  BY DEF MapInv, OnlyOldUnknown
<1> QED
  BY <1>1, MapInvariant, PTL

LEMMA ReportStep ==
  ASSUME TypeOK, PlaceInv, [Next]_vars, NEW t0 \in ended, status[t0] \in Finished
  PROVE  status'[t0] \in Finished
<1> USE DEF Finished, poolVars, cbVars, history
<1>a. TypeOK /\ PlaceInv /\ status[t0] \in Finished
  OBVIOUS
<1>t. t0 \in Tasks
  BY <1>a DEF TypeOK
<1>u. \A th \in Threads : job[th] # NoTask => job[th] # t0
  BY <1>a DEF PlaceInv
<1>1. ASSUME NEW t \in Tasks, AddNewPush(t) PROVE status'[t0] \in Finished
  BY <1>1, <1>a, <1>t, <1>u DEF AddNewPush
<1>2. ASSUME NEW t \in Tasks, Execute(t) PROVE status'[t0] \in Finished
  BY <1>2, <1>a, <1>t, <1>u DEF Execute
<1>3. ASSUME NEW t \in Tasks, SaveMessage(t) PROVE status'[t0] \in Finished
  BY <1>3, <1>a, <1>t, <1>u DEF SaveMessage
<1>4. ASSUME NEW t \in Tasks, Age(t) PROVE status'[t0] \in Finished
  BY <1>4, <1>a, <1>t, <1>u DEF Age
<1>5. ASSUME NEW th \in Threads, TakeNext(th) PROVE status'[t0] \in Finished
  BY <1>5, <1>a, <1>t, <1>u DEF TakeNext
<1>6. ASSUME NEW th \in Threads, RunStart(th) PROVE status'[t0] \in Finished
  BY <1>6, <1>a, <1>t, <1>u DEF RunStart
<1>7. ASSUME NEW th \in Threads, RunEnd(th) PROVE status'[t0] \in Finished
  BY <1>7, <1>a, <1>t, <1>u DEF RunEnd
<1>8. ASSUME NEW th \in Threads, PushMsg(th) PROVE status'[t0] \in Finished
  BY <1>8, <1>a, <1>t, <1>u DEF PushMsg
<1>9. ASSUME NEW th \in Threads, ThreadExit(th) PROVE status'[t0] \in Finished
  BY <1>9, <1>a, <1>t, <1>u DEF ThreadExit
<1>10. ASSUME NEW k \in Callers, FindTask(k) PROVE status'[t0] \in Finished
  BY <1>10, <1>a, <1>t, <1>u DEF FindTask
<1>11. ASSUME NEW k \in Callers, SetStatus(k) PROVE status'[t0] \in Finished
  BY <1>11, <1>a, <1>t, <1>u DEF SetStatus, TypeOK
<1>12. ASSUME ListOld PROVE status'[t0] \in Finished
  BY <1>12, <1>a, <1>t, <1>u DEF ListOld
<1>13. ASSUME NEW t \in Tasks, RemoveOld(t) PROVE status'[t0] \in Finished
  BY <1>13, <1>a, <1>t, <1>u DEF RemoveOld
<1>14. CASE UNCHANGED vars
  BY <1>14, <1>a, <1>t, <1>u DEF vars
<1> QED
  BY <1>1, <1>2, <1>3, <1>4, <1>5, <1>6, <1>7, <1>8, <1>9, <1>10, <1>11,
     <1>12, <1>13, <1>14
  DEF Next, Request, Run, Callback, CleanMap

\* When run() has returned, the report of a device stands.
THEOREM ReportsStand == Spec => ReportStands
<1> DEFINE Stands == \A t \in ended : status[t] \in Finished => status'[t] \in Finished
<1>1. TypeOK /\ PlaceInv /\ [Next]_vars => Stands
  BY ReportStep
<1> HIDE DEF Stands
<1>2. TypeOK /\ PlaceInv /\ [Next]_vars => [Stands]_vars
  BY <1>1
<1>3. Spec => [][Stands]_vars
  BY <1>2, PoolInvariant, PTL DEF Spec
<1> QED
  BY <1>3 DEF ReportStands, Stands

-----------------------------------------------------------------------------
(* The threads behind the queue. *)

LEMMA ThreadsCounted ==
  ASSUME TypeOK
  PROVE  /\ IsFiniteSet(alive) /\ Cardinality(alive) \in Nat
         /\ \A th \in Threads \ alive : Cardinality(alive \cup {th}) = Cardinality(alive) + 1
  BY PoolAssumption, FS_Subset, FS_CardinalityType, FS_AddElement DEF TypeOK

LEMMA QueueServedStep ==
  ASSUME TypeOK, QueueServed, [Next]_vars
  PROVE  QueueServed'
<1> USE PoolAssumption DEF QueueServed, poolVars
<1>t. TypeOK /\ QueueServed /\ CoreThreads \in Int /\ Cardinality(alive) \in Nat
  BY ThreadsCounted
<1>1. ASSUME NEW t \in Tasks, AddNewPush(t) PROVE QueueServed'
  BY <1>1, <1>t DEF AddNewPush
<1>2. ASSUME NEW t \in Tasks, Execute(t) PROVE QueueServed'
  <2>1. ASSUME StartThread(t), queue' = queue PROVE QueueServed'
    BY <2>1, <1>t, ThreadsCounted DEF StartThread
  <2>2. ASSUME ~(Cardinality(alive) < CoreThreads), alive' = alive PROVE QueueServed'
    BY <2>2, <1>t
  <2> QED
    BY <1>2, <2>1, <2>2 DEF Execute
<1>3. ASSUME NEW t \in Tasks, SaveMessage(t) PROVE QueueServed'
  BY <1>3, <1>t DEF SaveMessage
<1>4. ASSUME NEW t \in Tasks, Age(t) PROVE QueueServed'
  BY <1>4, <1>t DEF Age
<1>5. ASSUME NEW th \in Threads, TakeNext(th) PROVE QueueServed'
  BY <1>5, <1>t DEF TakeNext
<1>6. ASSUME NEW th \in Threads, RunStart(th) PROVE QueueServed'
  BY <1>6, <1>t DEF RunStart
<1>7. ASSUME NEW th \in Threads, RunEnd(th) PROVE QueueServed'
  BY <1>7, <1>t DEF RunEnd
<1>8. ASSUME NEW th \in Threads, PushMsg(th) PROVE QueueServed'
  BY <1>8, <1>t DEF PushMsg
<1>9. ASSUME NEW th \in Threads, ThreadExit(th) PROVE QueueServed'
  BY <1>9, <1>t DEF ThreadExit
<1>10. ASSUME NEW k \in Callers, FindTask(k) PROVE QueueServed'
  BY <1>10, <1>t DEF FindTask
<1>11. ASSUME NEW k \in Callers, SetStatus(k) PROVE QueueServed'
  BY <1>11, <1>t DEF SetStatus
<1>12. ASSUME ListOld PROVE QueueServed'
  BY <1>12, <1>t DEF ListOld
<1>13. ASSUME NEW t \in Tasks, RemoveOld(t) PROVE QueueServed'
  BY <1>13, <1>t DEF RemoveOld
<1>14. CASE UNCHANGED vars
  BY <1>14, <1>t DEF vars
<1> QED
  BY <1>1, <1>2, <1>3, <1>4, <1>5, <1>6, <1>7, <1>8, <1>9, <1>10, <1>11,
     <1>12, <1>13, <1>14
  DEF Next, Request, Run, Callback, CleanMap

\* While pushes are queued, the pool has its core threads.
THEOREM CoreThreadsServe == Spec => []QueueServed
<1>1. Init => QueueServed
  BY DEF Init, QueueServed
<1> QED
  BY <1>1, QueueServedStep, PoolTypeCorrect, PTL DEF Spec

-----------------------------------------------------------------------------
(* The answers of PushStatus. *)

\* A step that changes no status, and neither records nor removes a push.
LEMMA SameAnswer ==
  ASSUME UNCHANGED <<statusMap, status>>, \A t \in Tasks : req'[t] = "none" <=> req[t] = "none"
  PROVE  Answer' = Answer
  BY DEF Answer

\* The status of a recorded push is what it shows; changing that of another shows nothing.
LEMMA AnswerOf ==
  ASSUME TypeOK, NEW t \in Tasks, NEW s, status' = [status EXCEPT ![t] = s],
         UNCHANGED <<statusMap, req>>
  PROVE  IF t \in statusMap
         THEN Answer[t] = status[t] /\ Answer' = [Answer EXCEPT ![t] = s]
         ELSE Answer' = Answer
  BY DEF TypeOK, Answer

LEMMA LifecycleStep ==
  ASSUME TypeOK, PlaceInv, StatusInv, MapInv, [Next]_vars
  PROVE  [Lifecycle!Next]_Answer
<1> USE TasksAssumption
<1> USE DEF poolVars, cbVars, history, Lifecycle!Next, Lifecycle!Change, Lifecycle!Reports
<1>t. TypeOK /\ PlaceInv /\ StatusInv /\ MapInv
  OBVIOUS
<1>1. ASSUME NEW t \in Tasks, AddNewPush(t) PROVE [Lifecycle!Next]_Answer
  <2>1. t \notin statusMap /\ status[t] = "Waiting"
    BY <1>1, <1>t DEF AddNewPush, MapInv, StatusInv, Taken
  <2>2. Answer[t] = "Unknown" /\ Answer' = [Answer EXCEPT ![t] = "Waiting"]
    BY <1>1, <1>t, <2>1 DEF AddNewPush, Answer, TypeOK
  <2> QED
    BY <2>2 DEF Lifecycle!Submit
<1>2. ASSUME NEW t \in Tasks, Execute(t) PROVE [Lifecycle!Next]_Answer
  BY <1>2, <1>t, SameAnswer DEF Execute, TypeOK
<1>3. ASSUME NEW t \in Tasks, SaveMessage(t) PROVE [Lifecycle!Next]_Answer
  BY <1>3, <1>t, SameAnswer DEF SaveMessage, TypeOK
<1>4. ASSUME NEW t \in Tasks, Age(t) PROVE [Lifecycle!Next]_Answer
  BY <1>4, <1>t, SameAnswer DEF Age, TypeOK
<1>5. ASSUME NEW th \in Threads, TakeNext(th) PROVE [Lifecycle!Next]_Answer
  BY <1>5, <1>t, SameAnswer DEF TakeNext, TypeOK
<1>6. ASSUME NEW th \in Threads, RunStart(th) PROVE [Lifecycle!Next]_Answer
  <2>1. job[th] \in Tasks /\ status[job[th]] = "Waiting"
    BY <1>6, <1>t DEF RunStart, StatusInv, TypeOK
  <2>2. Answer' = Answer \/ Lifecycle!Start(job[th])
    BY <1>6, <1>t, <2>1, AnswerOf DEF RunStart, Lifecycle!Start
  <2> QED
    BY <2>1, <2>2
<1>7. ASSUME NEW th \in Threads, RunEnd(th) PROVE [Lifecycle!Next]_Answer
  <2>1. /\ job[th] \in Tasks
        /\ step[th] = "online" => status[job[th]] \in {"Sending"} \cup Finished
        /\ step[th] # "online" => status[job[th]] = "Sending"
    BY <1>7, <1>t DEF RunEnd, StatusInv, TypeOK
  <2>2. Answer' = Answer \/ Lifecycle!Finish(job[th]) \/ Lifecycle!Miss(job[th])
    BY <1>7, <1>t, <2>1, AnswerOf DEF RunEnd, Finished, Lifecycle!Finish, Lifecycle!Miss
  <2> QED
    BY <2>1, <2>2
<1>8. ASSUME NEW th \in Threads, PushMsg(th) PROVE [Lifecycle!Next]_Answer
  BY <1>8, <1>t, SameAnswer DEF PushMsg, TypeOK
<1>9. ASSUME NEW th \in Threads, ThreadExit(th) PROVE [Lifecycle!Next]_Answer
  BY <1>9, <1>t, SameAnswer DEF ThreadExit, TypeOK
<1>10. ASSUME NEW k \in Callers, FindTask(k) PROVE [Lifecycle!Next]_Answer
  BY <1>10, <1>t, SameAnswer DEF FindTask, TypeOK
<1>11. ASSUME NEW k \in Callers, SetStatus(k) PROVE [Lifecycle!Next]_Answer
  <2>1. /\ cbTask[k] \in Tasks /\ cbStatus[k] \in Finished
        /\ status[cbTask[k]] \in {"Sending", "Sent"} \cup Finished
    BY <1>11, <1>t, DeliveredStatus DEF SetStatus, StatusInv, TypeOK
  <2>2. Answer' = Answer \/ Lifecycle!Report(cbTask[k])
    BY <1>11, <1>t, <2>1, AnswerOf DEF SetStatus, Finished, Lifecycle!Report
  <2> QED
    BY <2>1, <2>2
<1>12. ASSUME ListOld PROVE [Lifecycle!Next]_Answer
  BY <1>12, <1>t, SameAnswer DEF ListOld, TypeOK
<1>13. ASSUME NEW t \in Tasks, RemoveOld(t) PROVE [Lifecycle!Next]_Answer
  <2>1. t \in statusMap /\ req[t] # "none" /\ status[t] \in Status
    BY <1>13, <1>t DEF RemoveOld, MapInv, TypeOK
  <2>2. Answer[t] = status[t] /\ Answer' = [Answer EXCEPT ![t] = "Gone"]
    BY <1>13, <1>t, <2>1 DEF RemoveOld, Answer, TypeOK
  <2> QED
    BY <2>1, <2>2 DEF Status, Finished, Lifecycle!Forget, Lifecycle!Answers
<1>14. CASE UNCHANGED vars
  BY <1>14, <1>t, SameAnswer DEF vars, TypeOK
<1> QED
  BY <1>1, <1>2, <1>3, <1>4, <1>5, <1>6, <1>7, <1>8, <1>9, <1>10, <1>11,
     <1>12, <1>13, <1>14
  DEF Next, Request, Run, Callback, CleanMap

\* Whoever follows a push by its id sees the life cycle of PushLifecycle.
THEOREM PoolImplementsLifecycle == Spec => FollowsLifecycle
<1>1. Init => Lifecycle!Init
  BY DEF Init, Lifecycle!Init, Answer
<1>2. TypeOK /\ PlaceInv /\ StatusInv /\ MapInv /\ [Next]_vars => [Lifecycle!Next]_Answer
  BY LifecycleStep
<1> QED
  BY <1>1, <1>2, MapInvariant, PTL DEF Spec, FollowsLifecycle, Lifecycle!Spec
=============================================================================
