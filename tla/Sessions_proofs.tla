-------------------------- MODULE Sessions_proofs --------------------------
(***************************************************************************)
(* Proofs about module Sessions, for every set of connections, threads and *)
(* addresses.                                                              *)
(***************************************************************************)
EXTENDS Sessions, FiniteSetTheorems, TLAPS

(***************************************************************************)
(* Type correctness.  Besides the types, TypeOK says that a thread inside  *)
(* a login, a close or a delivery has a session to work on.                *)
(***************************************************************************)
LEMMA TypeInit == Init => TypeOK
  BY ThreadsAssumption, AddrsAssumption DEF Init, TypeOK, Threads, LoginSteps, CloseSteps, HookSteps

\* getSession finds a session or nothing.
LEMMA LookupType ==
  ASSUME TypeOK, NEW c \in Conns
  PROVE  /\ Lookup(c) \in Conns \cup {NoConn}
         /\ Lookup(c) # NoConn => Lookup(c) \in Conns
  BY DEF TypeOK, Lookup

LEMMA TypeStep == TypeOK /\ [Next]_vars => TypeOK'
<1> SUFFICES ASSUME TypeOK, [Next]_vars PROVE TypeOK'
  OBVIOUS
<1> USE ThreadsAssumption, AddrsAssumption, ClientsAssumption
<1> USE DEF connVars, registryVars, threadVars, Goto, Return, CallClose, LoginSteps, CloseSteps, HookSteps
<1>t. Conns \subseteq Threads /\ Workers \subseteq Threads /\ Hooks \subseteq Threads
  BY DEF Threads
<1>1. ASSUME NEW c \in Conns, Open(c) PROVE TypeOK'
  BY <1>1 DEF Open, TypeOK
<1>2. ASSUME NEW c \in Conns, StartStream(c) PROVE TypeOK'
  BY <1>2 DEF StartStream, CreateClientSession, TypeOK
<1>3. ASSUME NEW c \in Conns, NEW available \in BOOLEAN, Presence(c, available) PROVE TypeOK'
  BY <1>3, LookupType DEF Presence, TypeOK
<1>4. ASSUME NEW c \in Conns, BeginLogin(c) PROVE TypeOK'
  <2>1. PICK a \in Claims[c] : key' = [key EXCEPT ![c] = a]
    BY <1>4 DEF BeginLogin
  <2>2. a \in Addrs
    OBVIOUS
  <2> QED
    BY <1>4, <1>t, <2>1, <2>2, LookupType DEF BeginLogin, TypeOK
<1>5. ASSUME NEW c \in Conns, SetAddress(c) PROVE TypeOK'
  BY <1>5, <1>t DEF SetAddress, TypeOK
<1>6. ASSUME NEW c \in Conns, SetStatus(c) PROVE TypeOK'
  BY <1>6, <1>t DEF SetStatus, TypeOK
<1>7. ASSUME NEW c \in Conns, LeavePreAuth(c) PROVE TypeOK'
  BY <1>7, <1>t DEF LeavePreAuth, TypeOK
<1>8. ASSUME NEW c \in Conns, PutSession(c) PROVE TypeOK'
  <2>1. addr[tgt[c]] \in Addrs \cup {StreamAddr} /\ tgt[c] \in Conns
    BY <1>8, <1>t DEF PutSession, TypeOK
  <2>2. clientSessions' \in [Addrs -> Conns \cup {NoConn}] /\ balance' \in [Addrs -> Int]
    <3>1. clientSessions' = [clientSessions EXCEPT ![addr[tgt[c]]] = tgt[c]]
      BY <1>8 DEF PutSession
    <3>2. \/ balance' = [balance EXCEPT ![addr[tgt[c]]] = @ + 1]
          \/ balance' = balance
      BY <1>8 DEF PutSession
    <3>3. balance' \in [Addrs -> Int]
      <4>1. \A a \in Addrs : balance[a] \in Int /\ balance[a] + 1 \in Int
        BY DEF TypeOK
      <4> QED
        BY <3>2, <4>1 DEF TypeOK
    <3> QED
      BY <2>1, <3>1, <3>3 DEF TypeOK
  <2>3. CASE Return(c)
    BY <1>8, <1>t, <2>2, <2>3 DEF PutSession, TypeOK
  <2>4. CASE Goto(c, "close") /\ UNCHANGED <<tgt, key, hit>>
    BY <1>8, <1>t, <2>1, <2>2, <2>4 DEF PutSession, TypeOK
  <2> QED
    BY <1>8, <2>3, <2>4 DEF PutSession
<1>9. ASSUME NEW c \in Conns, IoClose(c) PROVE TypeOK'
  BY <1>9, <1>t DEF IoClose, TypeOK
<1>10. ASSUME NEW c \in Conns, ReplyFails(c) PROVE TypeOK'
  BY <1>10, <1>t, LookupType DEF ReplyFails, TypeOK
<1>11. ASSUME NEW c \in Conns, PeerGone(c) PROVE TypeOK'
  BY <1>11, <1>t DEF PeerGone, TypeOK
<1>12. ASSUME NEW c \in Conns, SocketClosed(c) PROVE TypeOK'
  BY <1>12, <1>t DEF SocketClosed, TypeOK
<1>13. ASSUME NEW t \in Threads, CloseSync(t) PROVE TypeOK'
  <2>1. tgt[t] \in Conns
    BY <1>13 DEF CloseSync, TypeOK
  <2>2. sock' \in [Conns -> {"fresh", "open", "closing", "down"}]
    BY <1>13, <2>1 DEF CloseSync, TypeOK
  <2>3. CASE Return(t) /\ UNCHANGED status
    BY <1>13, <2>2, <2>3 DEF CloseSync, TypeOK
  <2>4. CASE /\ status' = [status EXCEPT ![tgt[t]] = "closed"]
             /\ Goto(t, "remove") /\ UNCHANGED <<tgt, key, hit>>
    BY <1>13, <2>1, <2>2, <2>4 DEF CloseSync, TypeOK
  <2> QED
    BY <1>13, <2>3, <2>4 DEF CloseSync
<1>14. ASSUME NEW t \in Threads, RemoveClient(t) PROVE TypeOK'
  BY <1>14, ZenonT(40) DEF RemoveClient, TypeOK
<1>15. ASSUME NEW t \in Threads, FinishRemove(t) PROVE TypeOK'
  BY <1>15 DEF FinishRemove, TypeOK
<1>16. ASSUME NEW w \in Workers, PickSession(w) PROVE TypeOK'
  BY <1>16, <1>t DEF PickSession, Registered, TypeOK
<1>17. ASSUME NEW w \in Workers, Deliver(w) PROVE TypeOK'
  <2>1. CASE Return(w)
    BY <1>17, <1>t, <2>1 DEF Deliver, TypeOK
  <2>2. CASE Goto(w, "close") /\ UNCHANGED <<tgt, key, hit>>
    BY <1>17, <1>t, <2>2 DEF Deliver, TypeOK
  <2> QED
    BY <1>17, <2>1, <2>2 DEF Deliver
<1>18. ASSUME NEW h \in Hooks, CollectPreAuth(h) PROVE TypeOK'
  BY <1>18, <1>t DEF CollectPreAuth, TypeOK
<1>19. ASSUME NEW h \in Hooks, CollectClients(h) PROVE TypeOK'
  BY <1>19, <1>t DEF CollectClients, Registered, TypeOK
<1>20. ASSUME NEW h \in Hooks, CloseNext(h) PROVE TypeOK'
  BY <1>20, <1>t DEF CloseNext, TypeOK
<1>21. ASSUME NEW h \in Hooks, CloseOver(h) PROVE TypeOK'
  BY <1>21, <1>t DEF CloseOver, TypeOK
<1>22. CASE UNCHANGED vars
  BY <1>22 DEF vars, TypeOK
<1> QED
  BY <1>1, <1>2, <1>3, <1>4, <1>5, <1>6, <1>7, <1>8, <1>9, <1>10, <1>11, <1>12, <1>13, <1>14,
     <1>15, <1>16, <1>17, <1>18, <1>19, <1>20, <1>21, <1>22
  DEF Next, Event, LoginStep, CloseStep, WorkerStep, HookStep

\* Every variable keeps its type, and a thread at work has a session.
THEOREM TypeCorrect == Spec => []TypeOK
  BY TypeInit, TypeStep, PTL DEF Spec

-----------------------------------------------------------------------------
(***************************************************************************)
(* The registries.  The invariants of the registries are not inductive: a  *)
(* step of a login or of a close relies on what the thread's earlier steps *)
(* have done to the session, which no invariant of the runs mentions.      *)
(***************************************************************************)

\* What a thread in the middle of setAuthToken has done so far.
LoginInv(t) ==
    /\ pc[t] \in LoginSteps => t \in Conns /\ key[t] \in Addrs /\ status[tgt[t]] # "none"
    /\ pc[t] \in {"status", "unpre", "put"} => addr[tgt[t]] # StreamAddr
    /\ pc[t] \in {"unpre", "put"} => status[tgt[t]] \in {"authenticated", "closed"}
    /\ pc[t] = "put" => tgt[t] \notin preAuth

\* What a thread in removeSession may rely on.
CloseInv(t) == pc[t] \in {"remove", "finish"} => status[tgt[t]] \in {"authenticated", "closed"}

\* A connection without a session is in no registry.
NoSessionInv(c) ==
    /\ ~streamed[c] => status[c] = "none"
    /\ status[c] = "none" => c \notin preAuth /\ c \notin Registered /\ addr[c] = StreamAddr

RegistryInv ==
    /\ \A t \in Threads : LoginInv(t) /\ CloseInv(t)
    /\ \A c \in Conns : NoSessionInv(c)
    /\ OneRegistry
    /\ RegisteredLoggedIn
    /\ PendingFindable

LEMMA RegistryInit == Init => RegistryInv
  BY ThreadsAssumption
  DEF Init, RegistryInv, LoginInv, CloseInv, NoSessionInv, OneRegistry, RegisteredLoggedIn,
      PendingFindable, Registered, Threads, LoginSteps

LEMMA RegistryStep == TypeOK /\ RegistryInv /\ [Next]_vars => RegistryInv'
<1> SUFFICES ASSUME TypeOK, TypeOK', RegistryInv, [Next]_vars PROVE RegistryInv'
  BY TypeStep
<1> USE ThreadsAssumption, AddrsAssumption, ClientsAssumption
<1> USE DEF connVars, registryVars, threadVars, Goto, Return, CallClose, LoginSteps, CloseSteps, HookSteps
<1> USE DEF RegistryInv, LoginInv, CloseInv, NoSessionInv, OneRegistry, RegisteredLoggedIn,
            PendingFindable, Registered
<1>t. Conns \subseteq Threads /\ Workers \subseteq Threads /\ Hooks \subseteq Threads
  BY DEF Threads
<1>1. ASSUME NEW c \in Conns, Open(c) PROVE RegistryInv'
  BY <1>1, <1>t DEF Open, TypeOK
<1>2. ASSUME NEW c \in Conns, StartStream(c) PROVE RegistryInv'
  BY <1>2, <1>t DEF StartStream, CreateClientSession, TypeOK
<1>3. ASSUME NEW c \in Conns, NEW available \in BOOLEAN, Presence(c, available) PROVE RegistryInv'
  BY <1>3, <1>t DEF Presence, TypeOK
<1>4. ASSUME NEW c \in Conns, BeginLogin(c) PROVE RegistryInv'
  <2> DEFINE s == Lookup(c)
  <2>1. s \in Conns
    BY <1>4, LookupType DEF BeginLogin
  <2>2. status[s] # "none"
    BY <2>1 DEF Lookup, TypeOK
  <2>3. PICK a \in Claims[c] : key' = [key EXCEPT ![c] = a]
    BY <1>4 DEF BeginLogin
  <2>4. a \in Addrs
    OBVIOUS
  <2>5. tgt' = [tgt EXCEPT ![c] = s] /\ pc' = [pc EXCEPT ![c] = "address"]
    BY <1>4 DEF BeginLogin
  <2> HIDE DEF s
  <2> QED
    BY <1>4, <1>t, <2>1, <2>2, <2>3, <2>4, <2>5 DEF BeginLogin, TypeOK
<1>5. ASSUME NEW c \in Conns, SetAddress(c) PROVE RegistryInv'
  BY <1>5, <1>t DEF SetAddress, TypeOK
<1>6. ASSUME NEW c \in Conns, SetStatus(c) PROVE RegistryInv'
  BY <1>6, <1>t DEF SetStatus, TypeOK
<1>7. ASSUME NEW c \in Conns, LeavePreAuth(c) PROVE RegistryInv'
  BY <1>7, <1>t DEF LeavePreAuth, TypeOK
<1>8. ASSUME NEW c \in Conns, PutSession(c) PROVE RegistryInv'
  BY <1>8, <1>t DEF PutSession, TypeOK
<1>9. ASSUME NEW c \in Conns, IoClose(c) PROVE RegistryInv'
  BY <1>9, <1>t DEF IoClose, TypeOK
<1>10. ASSUME NEW c \in Conns, ReplyFails(c) PROVE RegistryInv'
  BY <1>10, <1>t DEF ReplyFails, TypeOK
<1>11. ASSUME NEW c \in Conns, PeerGone(c) PROVE RegistryInv'
  BY <1>11, <1>t DEF PeerGone, TypeOK
<1>12. ASSUME NEW c \in Conns, SocketClosed(c) PROVE RegistryInv'
  BY <1>12, <1>t DEF SocketClosed, TypeOK
<1>13. ASSUME NEW t \in Threads, CloseSync(t) PROVE RegistryInv'
  <2> DEFINE s == tgt[t]
  <2>1. s \in Conns /\ pc[t] = "close" /\ UNCHANGED <<streamed, addr, preAuth, clientSessions>>
    BY <1>13 DEF CloseSync, TypeOK
  <2>2. \/ Return(t) /\ UNCHANGED status
        \/ /\ status[s] # "none" /\ status' = [status EXCEPT ![s] = "closed"]
           /\ Goto(t, "remove") /\ UNCHANGED <<tgt, key>>
    BY <1>13 DEF CloseSync
  <2>3. /\ pc'[t] \in {"idle", "sweep", "remove"}
        /\ pc'[t] = "remove" => tgt'[t] = s /\ status'[s] = "closed"
        /\ \A u \in Threads \ {t} : pc'[u] = pc[u] /\ tgt'[u] = tgt[u] /\ key'[u] = key[u]
    BY <2>1, <2>2 DEF TypeOK
  <2>4. \A c \in Conns : \/ status'[c] = status[c]
                         \/ status[c] # "none" /\ status'[c] = "closed"
    BY <2>1, <2>2 DEF TypeOK
  <2> HIDE DEF s
  <2>5. \A u \in Threads : LoginInv(u)' /\ CloseInv(u)'
    BY <1>t, <2>1, <2>3, <2>4 DEF TypeOK
  <2>6. (\A c \in Conns : NoSessionInv(c))' /\ OneRegistry' /\ RegisteredLoggedIn' /\ PendingFindable'
    BY <2>1, <2>4
  <2> QED
    BY <2>5, <2>6
<1>14. ASSUME NEW t \in Threads, RemoveClient(t) PROVE RegistryInv'
  BY <1>14, <1>t DEF RemoveClient, TypeOK
<1>15. ASSUME NEW t \in Threads, FinishRemove(t) PROVE RegistryInv'
  BY <1>15, <1>t DEF FinishRemove, TypeOK
<1>16. ASSUME NEW w \in Workers, PickSession(w) PROVE RegistryInv'
  BY <1>16, <1>t DEF PickSession, TypeOK
<1>17. ASSUME NEW w \in Workers, Deliver(w) PROVE RegistryInv'
  BY <1>17, <1>t DEF Deliver, TypeOK
<1>18. ASSUME NEW h \in Hooks, CollectPreAuth(h) PROVE RegistryInv'
  BY <1>18, <1>t DEF CollectPreAuth, TypeOK
<1>19. ASSUME NEW h \in Hooks, CollectClients(h) PROVE RegistryInv'
  BY <1>19, <1>t DEF CollectClients, TypeOK
<1>20. ASSUME NEW h \in Hooks, CloseNext(h) PROVE RegistryInv'
  BY <1>20, <1>t DEF CloseNext, TypeOK
<1>21. ASSUME NEW h \in Hooks, CloseOver(h) PROVE RegistryInv'
  BY <1>21, <1>t DEF CloseOver, TypeOK
<1>22. CASE UNCHANGED vars
  BY <1>22 DEF vars, TypeOK
<1> HIDE DEF RegistryInv, LoginInv, CloseInv, NoSessionInv, OneRegistry, RegisteredLoggedIn,
             PendingFindable, Registered
<1> QED
  BY <1>1, <1>2, <1>3, <1>4, <1>5, <1>6, <1>7, <1>8, <1>9, <1>10, <1>11, <1>12, <1>13, <1>14,
     <1>15, <1>16, <1>17, <1>18, <1>19, <1>20, <1>21, <1>22
  DEF Next, Event, LoginStep, CloseStep, WorkerStep, HookStep

\* The invariants of the registries, for every client.
LEMMA RegistryInvariant == Spec => [](TypeOK /\ RegistryInv)
  BY TypeInit, TypeStep, RegistryInit, RegistryStep, PTL DEF Spec

\* A session is never in both registries of SessionManager.
THEOREM NeverInBothRegistries == Spec => []OneRegistry
  BY RegistryInvariant, PTL DEF RegistryInv

\* The sessions that getSessions() and getSession(JID) find under an address have
\* been authenticated.
THEOREM RegisteredAreLoggedIn == Spec => []RegisteredLoggedIn
  BY RegistryInvariant, PTL DEF RegistryInv

\* An open session that has not logged in is in preAuthSessions.
THEOREM PendingAreFindable == Spec => []PendingFindable
  BY RegistryInvariant, PTL DEF RegistryInv

-----------------------------------------------------------------------------
(***************************************************************************)
(* preAuthSessions drains.  removeSession looks for the stream id only if  *)
(* the session's address is still its stream id.  If a login has changed   *)
(* the address in the meantime, that login has yet to take the session out *)
(* (DrainInv): this is what makes PreAuthDrains inductive.                 *)
(***************************************************************************)
LoggingIn(c) == \E t \in Threads : tgt[t] = c /\ pc[t] \in {"status", "unpre"}

DrainInv ==
    /\ PreAuthDrains
    /\ \A c \in preAuth : addr[c] # StreamAddr => LoggingIn(c)

LEMMA DrainInit == Init => DrainInv
  BY DEF Init, DrainInv, PreAuthDrains

\* A thread that starts something new was not taking a session out.
LEMMA StillLeaving ==
  ASSUME NEW x \in Threads, pc[x] = "idle",
         \A t \in Threads \ {x} : pc'[t] = pc[t] /\ tgt'[t] = tgt[t] /\ key'[t] = key[t],
         NEW c \in Conns
  PROVE  (Leaving(c) => Leaving(c)') /\ (LoggingIn(c) => LoggingIn(c)')
  BY DEF Leaving, LoggingIn

\* So it keeps DrainInv if it leaves the sessions alone.
LEMMA IdleKeepsDrain ==
  ASSUME DrainInv, preAuth \subseteq Conns, NEW x \in Threads, pc[x] = "idle",
         \A t \in Threads \ {x} : pc'[t] = pc[t] /\ tgt'[t] = tgt[t] /\ key'[t] = key[t],
         preAuth' = preAuth, status' = status, addr' = addr
  PROVE  DrainInv'
<1>1. ASSUME NEW c \in preAuth
      PROVE  (Leaving(c) => Leaving(c)') /\ (LoggingIn(c) => LoggingIn(c)')
  BY StillLeaving
<1> QED
  BY <1>1 DEF DrainInv, PreAuthDrains

LEMMA DrainStep == TypeOK /\ RegistryInv /\ DrainInv /\ [Next]_vars => DrainInv'
<1> SUFFICES ASSUME TypeOK, TypeOK', RegistryInv, RegistryInv', DrainInv, [Next]_vars PROVE DrainInv'
  BY TypeStep, RegistryStep
<1> USE ThreadsAssumption, AddrsAssumption, ClientsAssumption
<1> USE DEF connVars, registryVars, threadVars, Goto, Return, CallClose, LoginSteps, CloseSteps, HookSteps
<1> USE DEF DrainInv, PreAuthDrains, Leaving, LoggingIn
<1>t. Conns \subseteq Threads /\ Workers \subseteq Threads /\ Hooks \subseteq Threads
  BY DEF Threads
<1>1. ASSUME NEW c \in Conns, Open(c) PROVE DrainInv'
  BY <1>1, <1>t DEF Open, TypeOK
<1>2. ASSUME NEW c \in Conns, StartStream(c) PROVE DrainInv'
  BY <1>2, <1>t DEF StartStream, CreateClientSession, TypeOK, RegistryInv, NoSessionInv
<1>3. ASSUME NEW c \in Conns, NEW available \in BOOLEAN, Presence(c, available) PROVE DrainInv'
  BY <1>3, <1>t DEF Presence, TypeOK
<1>4. ASSUME NEW c \in Conns, BeginLogin(c) PROVE DrainInv'
  <2>1. pc[c] = "idle" /\ preAuth' = preAuth /\ status' = status /\ addr' = addr
    BY <1>4 DEF BeginLogin, CanRun
  <2>2. \A t \in Threads \ {c} : pc'[t] = pc[t] /\ tgt'[t] = tgt[t] /\ key'[t] = key[t]
    BY <1>4, <1>t DEF BeginLogin, TypeOK
  <2>3. preAuth \subseteq Conns /\ c \in Threads
    BY <1>t DEF TypeOK
  <2> HIDE DEF DrainInv
  <2> QED
    BY <2>1, <2>2, <2>3, IdleKeepsDrain
<1>5. ASSUME NEW c \in Conns, SetAddress(c) PROVE DrainInv'
  BY <1>5, <1>t DEF SetAddress, TypeOK
<1>6. ASSUME NEW c \in Conns, SetStatus(c) PROVE DrainInv'
  BY <1>6, <1>t DEF SetStatus, TypeOK
<1>7. ASSUME NEW c \in Conns, LeavePreAuth(c) PROVE DrainInv'
  BY <1>7, <1>t DEF LeavePreAuth, TypeOK
<1>8. ASSUME NEW c \in Conns, PutSession(c) PROVE DrainInv'
  BY <1>8, <1>t, SMTT(30) DEF PutSession, TypeOK
<1>9. ASSUME NEW c \in Conns, IoClose(c) PROVE DrainInv'
  <2>1. pc[c] = "idle" /\ preAuth' = preAuth /\ status' = status /\ addr' = addr
    BY <1>9 DEF IoClose, CanRun
  <2>2. \A t \in Threads \ {c} : pc'[t] = pc[t] /\ tgt'[t] = tgt[t] /\ key'[t] = key[t]
    BY <1>9, <1>t DEF IoClose, TypeOK
  <2>3. preAuth \subseteq Conns /\ c \in Threads
    BY <1>t DEF TypeOK
  <2> HIDE DEF DrainInv
  <2> QED
    BY <2>1, <2>2, <2>3, IdleKeepsDrain
<1>10. ASSUME NEW c \in Conns, ReplyFails(c) PROVE DrainInv'
  <2>1. pc[c] = "idle" /\ preAuth' = preAuth /\ status' = status /\ addr' = addr
    BY <1>10 DEF ReplyFails, CanRun
  <2>2. \A t \in Threads \ {c} : pc'[t] = pc[t] /\ tgt'[t] = tgt[t] /\ key'[t] = key[t]
    BY <1>10, <1>t DEF ReplyFails, TypeOK
  <2>3. preAuth \subseteq Conns /\ c \in Threads
    BY <1>t DEF TypeOK
  <2> HIDE DEF DrainInv
  <2> QED
    BY <2>1, <2>2, <2>3, IdleKeepsDrain
<1>11. ASSUME NEW c \in Conns, PeerGone(c) PROVE DrainInv'
  <2>1. pc[c] = "idle" /\ preAuth' = preAuth /\ status' = status /\ addr' = addr
    BY <1>11 DEF PeerGone, CanRun
  <2>2. \A t \in Threads \ {c} : pc'[t] = pc[t] /\ tgt'[t] = tgt[t] /\ key'[t] = key[t]
    BY <1>11, <1>t DEF PeerGone, TypeOK
  <2>3. preAuth \subseteq Conns /\ c \in Threads
    BY <1>t DEF TypeOK
  <2> HIDE DEF DrainInv
  <2> QED
    BY <2>1, <2>2, <2>3, IdleKeepsDrain
<1>12. ASSUME NEW c \in Conns, SocketClosed(c) PROVE DrainInv'
  <2>1. pc[c] = "idle" /\ preAuth' = preAuth /\ status' = status /\ addr' = addr
    BY <1>12 DEF SocketClosed, CanRun
  <2>2. \A t \in Threads \ {c} : pc'[t] = pc[t] /\ tgt'[t] = tgt[t] /\ key'[t] = key[t]
    BY <1>12, <1>t DEF SocketClosed, TypeOK
  <2>3. preAuth \subseteq Conns /\ c \in Threads
    BY <1>t DEF TypeOK
  <2> HIDE DEF DrainInv
  <2> QED
    BY <2>1, <2>2, <2>3, IdleKeepsDrain
<1>13. ASSUME NEW t \in Threads, CloseSync(t) PROVE DrainInv'
  <2>1. pc[t] = "close" /\ UNCHANGED <<addr, preAuth>>
    BY <1>13 DEF CloseSync
  <2>2. \/ Return(t) /\ UNCHANGED status
        \/ /\ status' = [status EXCEPT ![tgt[t]] = "closed"]
           /\ Goto(t, "remove") /\ UNCHANGED <<tgt, key>>
    BY <1>13 DEF CloseSync
  <2>3. \A u \in Threads \ {t} : pc'[u] = pc[u] /\ tgt'[u] = tgt[u] /\ key'[u] = key[u]
    BY <2>2 DEF TypeOK
  <2>4. \A c \in preAuth : \/ status'[c] = status[c]
                           \/ tgt'[t] = c /\ pc'[t] = "remove"
    BY <2>2 DEF TypeOK
  <2> QED
    BY <2>1, <2>3, <2>4
<1>14. ASSUME NEW t \in Threads, RemoveClient(t) PROVE DrainInv'
  BY <1>14, <1>t DEF RemoveClient, TypeOK
<1>15. ASSUME NEW t \in Threads, FinishRemove(t) PROVE DrainInv'
  BY <1>15, <1>t DEF FinishRemove, TypeOK
<1>16. ASSUME NEW w \in Workers, PickSession(w) PROVE DrainInv'
  BY <1>16, <1>t, SMTT(30) DEF PickSession, TypeOK
<1>17. ASSUME NEW w \in Workers, Deliver(w) PROVE DrainInv'
  BY <1>17, <1>t DEF Deliver, TypeOK
<1>18. ASSUME NEW h \in Hooks, CollectPreAuth(h) PROVE DrainInv'
  BY <1>18, <1>t DEF CollectPreAuth, TypeOK
<1>19. ASSUME NEW h \in Hooks, CollectClients(h) PROVE DrainInv'
  BY <1>19, <1>t DEF CollectClients, TypeOK
<1>20. ASSUME NEW h \in Hooks, CloseNext(h) PROVE DrainInv'
  BY <1>20, <1>t, SMTT(30) DEF CloseNext, TypeOK
<1>21. ASSUME NEW h \in Hooks, CloseOver(h) PROVE DrainInv'
  BY <1>21, <1>t, SMTT(30) DEF CloseOver, TypeOK
<1>22. CASE UNCHANGED vars
  BY <1>22 DEF vars, TypeOK
<1> HIDE DEF DrainInv, PreAuthDrains, Leaving, LoggingIn
<1> QED
  BY <1>1, <1>2, <1>3, <1>4, <1>5, <1>6, <1>7, <1>8, <1>9, <1>10, <1>11, <1>12, <1>13, <1>14,
     <1>15, <1>16, <1>17, <1>18, <1>19, <1>20, <1>21, <1>22
  DEF Next, Event, LoginStep, CloseStep, WorkerStep, HookStep

\* A session that no longer waits for its login is on its way out of
\* preAuthSessions.
THEOREM PreAuthSessionsDrain == Spec => []PreAuthDrains
  BY RegistryInvariant, DrainInit, DrainStep, PTL DEF Spec, DrainInv
-----------------------------------------------------------------------------
(***************************************************************************)
(* Clients that log in at most once on a stream, also while the server is  *)
(* being shut down.  Another thread may close such a session in the middle *)
(* of its login, and the login then sets its status back to authenticated: *)
(* the thread of the connection is still going to close it again.          *)
(***************************************************************************)
EndInv(c) ==
    /\ logins[c] <= 1
    /\ logins[c] = 0 => addr[c] = StreamAddr
    /\ pc[c] \in LoginSteps => tgt[c] = c /\ logins[c] = 1
    /\ sock[c] = "down" =>
          /\ pc[c] \notin LoginSteps
          /\ \/ pc[c] = "close" /\ tgt[c] = c
             \/ status[c] \in {"none", "closed"}

SocketInv == \A c \in Conns : EndInv(c)

LEMMA SocketInit == Init => SocketInv
  BY ThreadsAssumption DEF Init, SocketInv, EndInv, Threads, LoginSteps

\* A thread that is not in a login, and goes into none, keeps the invariant if
\* it leaves the sessions alone and its own connection does not go down unclosed.
LEMMA StepAside ==
  ASSUME TypeOK, SocketInv, NEW x \in Threads, pc'[x] \notin LoginSteps,
         \A t \in Threads \ {x} : pc'[t] = pc[t] /\ tgt'[t] = tgt[t],
         x \in Conns /\ sock'[x] = "down" => pc'[x] = "close" /\ tgt'[x] = x,
         \A c \in Conns \ {x} : sock'[c] = "down" => sock[c] = "down",
         UNCHANGED <<status, addr, logins>>
  PROVE  SocketInv'
  BY DEF SocketInv, EndInv, Threads

LEMMA SocketStep ==
  ASSUME MaxLogins <= 1, TypeOK, SocketInv, [Next]_vars
  PROVE  SocketInv'
<1> USE ThreadsAssumption, AddrsAssumption, ClientsAssumption
<1> USE DEF connVars, registryVars, threadVars, Goto, Return, CallClose, LoginSteps, CloseSteps, HookSteps
<1>t. /\ Conns \subseteq Threads /\ Workers \subseteq Threads /\ Hooks \subseteq Threads
      /\ MaxLogins <= 1 /\ TypeOK /\ SocketInv
  BY DEF Threads
<1>1. ASSUME NEW c \in Conns, Open(c) PROVE SocketInv'
  BY <1>1, <1>t DEF Open, TypeOK, SocketInv, EndInv
<1>2. ASSUME NEW c \in Conns, StartStream(c) PROVE SocketInv'
  BY <1>2, <1>t DEF StartStream, CreateClientSession, CanRun, TypeOK, SocketInv, EndInv
<1>3. ASSUME NEW c \in Conns, NEW available \in BOOLEAN, Presence(c, available) PROVE SocketInv'
  BY <1>3, <1>t DEF Presence, TypeOK, SocketInv, EndInv
<1>4. ASSUME NEW c \in Conns, BeginLogin(c) PROVE SocketInv'
  <2>0. logins[c] < MaxLogins /\ logins[c] \in Nat /\ sock[c] # "down"
    BY <1>4, <1>t DEF BeginLogin, CanRun, TypeOK
  <2>1. logins[c] = 0 /\ addr[c] = StreamAddr /\ sock[c] # "down"
    BY <2>0, <1>t DEF SocketInv, EndInv
  <2>2. Lookup(c) = c
    BY <1>4, <2>1 DEF BeginLogin, Lookup
  <2>3. /\ tgt'[c] = c /\ logins'[c] = 1 /\ UNCHANGED <<sock, status, addr>>
        /\ \A d \in Conns \ {c} : pc'[d] = pc[d] /\ tgt'[d] = tgt[d] /\ logins'[d] = logins[d]
    BY <1>4, <2>1, <2>2, <1>t DEF BeginLogin, TypeOK
  <2> QED
    BY <2>1, <2>3, <1>t DEF SocketInv, EndInv
<1>5. ASSUME NEW c \in Conns, SetAddress(c) PROVE SocketInv'
  BY <1>5, <1>t DEF SetAddress, TypeOK, SocketInv, EndInv
<1>6. ASSUME NEW c \in Conns, SetStatus(c) PROVE SocketInv'
  BY <1>6, <1>t DEF SetStatus, TypeOK, SocketInv, EndInv
<1>7. ASSUME NEW c \in Conns, LeavePreAuth(c) PROVE SocketInv'
  BY <1>7, <1>t DEF LeavePreAuth, TypeOK, SocketInv, EndInv
<1>8. ASSUME NEW c \in Conns, PutSession(c) PROVE SocketInv'
  <2>1. sock[c] # "down" /\ UNCHANGED <<sock, status, addr, logins>>
    BY <1>8, <1>t DEF PutSession, SocketInv, EndInv
  <2>2. /\ pc'[c] \in {"idle", "sweep", "close"}
        /\ \A t \in Threads \ {c} : pc'[t] = pc[t] /\ tgt'[t] = tgt[t]
    BY <1>8, <1>t DEF PutSession, TypeOK
  <2> QED
    BY <2>1, <2>2, <1>t, StepAside
<1>9. ASSUME NEW c \in Conns, IoClose(c) PROVE SocketInv'
  BY <1>9, <1>t, StepAside DEF IoClose, CanRun, TypeOK
<1>10. ASSUME NEW c \in Conns, ReplyFails(c) PROVE SocketInv'
  <2>1. /\ sock[c] # "down" /\ UNCHANGED <<sock, status, addr, logins>>
        /\ pc'[c] = "close" /\ \A t \in Threads \ {c} : pc'[t] = pc[t] /\ tgt'[t] = tgt[t]
    BY <1>10, <1>t DEF ReplyFails, CanRun, TypeOK
  <2> QED
    BY <2>1, <1>t, StepAside
<1>11. ASSUME NEW c \in Conns, PeerGone(c) PROVE SocketInv'
  BY <1>11, <1>t, StepAside DEF PeerGone, CanRun, TypeOK
<1>12. ASSUME NEW c \in Conns, SocketClosed(c) PROVE SocketInv'
  BY <1>12, <1>t, StepAside DEF SocketClosed, CanRun, TypeOK
<1>13. ASSUME NEW t \in Threads, CloseSync(t) PROVE SocketInv'
  <2> DEFINE s == tgt[t]
  <2>1. s \in Conns /\ pc[t] = "close" /\ UNCHANGED <<addr, logins>>
    BY <1>13, <1>t DEF CloseSync, TypeOK
  <2>2. /\ pc'[t] \in {"idle", "sweep", "remove"}
        /\ \A u \in Threads \ {t} : pc'[u] = pc[u] /\ tgt'[u] = tgt[u]
    BY <1>13, <1>t DEF CloseSync, TypeOK
  <2>3. /\ \A c \in Conns \ {s} : sock'[c] = sock[c] /\ status'[c] = status[c]
        /\ sock'[s] = "down" => sock[s] = "down"
        /\ status'[s] \in {"closed", status[s]}
        /\ sock[s] = "down" => status'[s] \in {"none", "closed"}
    BY <1>13, <2>1, <1>t DEF CloseSync, IsClosed, TypeOK
  <2> HIDE DEF s
  <2> QED
    BY <2>1, <2>2, <2>3, <1>t DEF s, SocketInv, EndInv
<1>14. ASSUME NEW t \in Threads, RemoveClient(t) PROVE SocketInv'
  BY <1>14, <1>t DEF RemoveClient, TypeOK, SocketInv, EndInv
<1>15. ASSUME NEW t \in Threads, FinishRemove(t) PROVE SocketInv'
  BY <1>15, <1>t DEF FinishRemove, TypeOK, SocketInv, EndInv
<1>16. ASSUME NEW w \in Workers, PickSession(w) PROVE SocketInv'
  BY <1>16, <1>t, StepAside DEF PickSession, TypeOK
<1>17. ASSUME NEW w \in Workers, Deliver(w) PROVE SocketInv'
  BY <1>17, <1>t, StepAside DEF Deliver, TypeOK
<1>18. ASSUME NEW h \in Hooks, CollectPreAuth(h) \/ CollectClients(h) \/ CloseNext(h) \/ CloseOver(h)
       PROVE  SocketInv'
  BY <1>18, <1>t, StepAside DEF CollectPreAuth, CollectClients, CloseNext, CloseOver, TypeOK
<1>19. CASE UNCHANGED vars
  BY <1>19, <1>t DEF vars, SocketInv, EndInv
<1> QED
  BY <1>1, <1>2, <1>3, <1>4, <1>5, <1>6, <1>7, <1>8, <1>9, <1>10, <1>11, <1>12, <1>13, <1>14,
     <1>15, <1>16, <1>17, <1>18, <1>19, <1>t
  DEF Next, Event, LoginStep, CloseStep, WorkerStep, HookStep

\* No session outlives its socket, for clients that log in at most once on a
\* stream, with any number of writing and shutdown threads.  A second login can
\* break it: it may go on after the end of the socket has been handled.
THEOREM SessionsEndWithSockets == MaxLogins <= 1 => (Spec => []NoneOutlivesSocket)
<1> SUFFICES ASSUME MaxLogins <= 1 PROVE Spec => []NoneOutlivesSocket
  OBVIOUS
<1>1. TypeOK /\ SocketInv /\ [Next]_vars => SocketInv'
  BY SocketStep
<1>2. SocketInv => NoneOutlivesSocket
  BY DEF SocketInv, EndInv, NoneOutlivesSocket, Quiet, Threads
<1> QED
  BY <1>1, <1>2, SocketInit, TypeCorrect, PTL DEF Spec

-----------------------------------------------------------------------------
(***************************************************************************)
(* The rest is for clients that log in once per stream, while the server   *)
(* is not being shut down.  Only then is a session never closed by another *)
(* thread in the middle of its login: other threads find it through        *)
(* clientSessions, where the login's last step puts it.                    *)
(***************************************************************************)

OneLogin == MaxLogins <= 1 /\ Hooks = {}

\* No two connections belong to devices with the same address.
OwnAddresses == \A c, d \in Conns : c # d => Claims[c] \cap Claims[d] = {}

\* The one login of a connection is its own thread's work, on its own session.
OwnLogin(c) ==
    /\ logins[c] <= 1
    /\ logins[c] = 0 => addr[c] = StreamAddr
    /\ pc[c] \in LoginSteps => tgt[c] = c /\ logins[c] = 1
    /\ pc[c] \in {"unpre", "put"} => status[c] = "authenticated"

\* Other threads work on sessions whose login is over.
Visitor(t) ==
    /\ tgt[t] \in Conns \ {t} => addr[tgt[t]] # StreamAddr /\ pc[tgt[t]] \notin LoginSteps
    /\ pc[t] \in {"remove", "finish"} => status[tgt[t]] = "closed"
    /\ pc[t] \notin {"deliver"} \cup LoginSteps \cup CloseSteps => tgt[t] = NoConn

\* A session is registered under its own address, after its login, and whoever
\* has closed it is about to remove it.
Entry(a, c) ==
    clientSessions[a] = c =>
        /\ addr[c] = a
        /\ pc[c] \notin LoginSteps
        /\ status[c] = "closed" => \E t \in Threads : tgt[t] = c /\ pc[t] = "remove"

OneLoginInv ==
    /\ \A c \in Conns : OwnLogin(c)
    /\ \A t \in Threads : Visitor(t)
    /\ \A a \in Addrs, c \in Conns : Entry(a, c)

LEMMA OneLoginInit == Init => OneLoginInv
  BY ThreadsAssumption
  DEF Init, OneLoginInv, OwnLogin, Visitor, Entry, Threads, LoginSteps

\* An idle thread that takes on a session, its own or one past its login,
\* leaves the invariant alone.
LEMMA TakeOn ==
  ASSUME TypeOK, OneLoginInv, NEW x \in Threads, NEW y \in Conns,
         pc[x] = "idle", NEW step \in {"close", "deliver"},
         y # x => addr[y] # StreamAddr /\ pc[y] \notin LoginSteps,
         pc' = [pc EXCEPT ![x] = step], tgt' = [tgt EXCEPT ![x] = y],
         UNCHANGED <<status, addr, logins, clientSessions>>
  PROVE  OneLoginInv'
<1> USE DEF OneLoginInv, OwnLogin, Visitor, Entry, LoginSteps, CloseSteps, TypeOK
<1>1. /\ pc'[x] = step /\ tgt'[x] = y
      /\ \A t \in Threads \ {x} : pc'[t] = pc[t] /\ tgt'[t] = tgt[t]
  OBVIOUS
<1>2. Conns \subseteq Threads /\ \A c \in Conns : pc'[c] \in LoginSteps <=> pc[c] \in LoginSteps
  BY <1>1 DEF Threads
<1>3. \A c \in Conns : OwnLogin(c)'
  BY <1>1, <1>2
<1>4. \A t \in Threads : Visitor(t)'
  BY <1>1, <1>2
<1>5. \A a \in Addrs, c \in Conns : Entry(a, c)'
  BY <1>1, <1>2
<1> QED
  BY <1>3, <1>4, <1>5

LEMMA OneLoginStep ==
  ASSUME OneLogin, TypeOK, RegistryInv, OneLoginInv, [Next]_vars
  PROVE  OneLoginInv'
<1> USE ThreadsAssumption, AddrsAssumption, ClientsAssumption
<1> USE DEF connVars, registryVars, threadVars, Goto, Return, CallClose, LoginSteps, CloseSteps
<1> USE DEF OneLoginInv, OwnLogin, Visitor, Entry
<1>t. /\ Conns \subseteq Threads /\ Workers \subseteq Threads
      /\ MaxLogins <= 1 /\ Hooks = {} /\ TypeOK /\ TypeOK' /\ RegistryInv /\ OneLoginInv
  BY TypeStep DEF Threads, OneLogin
<1>1. ASSUME NEW c \in Conns, Open(c) PROVE OneLoginInv'
  BY <1>1, <1>t DEF Open, TypeOK
<1>2. ASSUME NEW c \in Conns, StartStream(c) PROVE OneLoginInv'
  <2>1. status[c] = "none" /\ pc[c] = "idle"
    BY <1>2, <1>t DEF StartStream, CanRun, RegistryInv, NoSessionInv
  <2>2. \A t \in Threads : tgt[t] = c => pc[t] \notin {"remove", "finish"}
    BY <2>1, <1>t
  <2>3. \A a \in Addrs : clientSessions[a] # c
    BY <2>1, <1>t DEF RegistryInv, NoSessionInv, Registered
  <2>4. /\ UNCHANGED <<pc, tgt, addr, logins, clientSessions>>
        /\ \A d \in Conns \ {c} : status'[d] = status[d]
    BY <1>2, <1>t DEF StartStream, CreateClientSession, TypeOK
  <2>5. \A d \in Conns : OwnLogin(d)'
    BY <2>1, <2>4, <1>t
  <2>6. \A t \in Threads : Visitor(t)'
    BY <2>2, <2>4, <1>t DEF TypeOK
  <2>7. \A a \in Addrs, d \in Conns : Entry(a, d)'
    BY <2>3, <2>4, <1>t
  <2> QED
    BY <2>5, <2>6, <2>7
<1>3. ASSUME NEW c \in Conns, NEW available \in BOOLEAN, Presence(c, available) PROVE OneLoginInv'
  BY <1>3, <1>t DEF Presence, TypeOK
<1>4. ASSUME NEW c \in Conns, BeginLogin(c) PROVE OneLoginInv'
  <2>0. logins[c] < MaxLogins /\ logins[c] \in Nat /\ pc[c] = "idle"
    BY <1>4, <1>t DEF BeginLogin, CanRun, TypeOK
  <2>1. logins[c] = 0 /\ addr[c] = StreamAddr /\ pc[c] = "idle"
    BY <2>0, <1>t
  <2>2. Lookup(c) = c
    BY <1>4, <2>1 DEF BeginLogin, Lookup
  <2>3. /\ pc'[c] = "address" /\ tgt'[c] = c /\ logins'[c] = 1
        /\ \A t \in Threads \ {c} : pc'[t] = pc[t] /\ tgt'[t] = tgt[t]
        /\ \A d \in Conns \ {c} : logins'[d] = logins[d]
        /\ UNCHANGED <<status, addr, clientSessions>>
    BY <1>4, <2>1, <2>2, <1>t DEF BeginLogin, TypeOK
  <2>4. \A t \in Threads \ {c} : tgt[t] # c
    BY <2>1, <1>t
  <2>5. \A a \in Addrs : clientSessions[a] # c
    BY <2>1, <1>t
  <2>6. \A d \in Conns : OwnLogin(d)'
    BY <2>3, <1>t
  <2>7. \A t \in Threads : Visitor(t)'
    BY <2>3, <2>4, <1>t
  <2>8. \A a \in Addrs, d \in Conns : Entry(a, d)'
    BY <2>3, <2>5, <2>1, <1>t
  <2> QED
    BY <2>6, <2>7, <2>8
<1>5. ASSUME NEW c \in Conns, SetAddress(c) PROVE OneLoginInv'
  BY <1>5, <1>t DEF SetAddress, TypeOK
<1>6. ASSUME NEW c \in Conns, SetStatus(c) PROVE OneLoginInv'
  BY <1>6, <1>t DEF SetStatus, TypeOK
<1>7. ASSUME NEW c \in Conns, LeavePreAuth(c) PROVE OneLoginInv'
  BY <1>7, <1>t DEF LeavePreAuth, TypeOK
<1>8. ASSUME NEW c \in Conns, PutSession(c) PROVE OneLoginInv'
  BY <1>8, <1>t DEF PutSession, TypeOK
<1>9. ASSUME NEW c \in Conns, IoClose(c) PROVE OneLoginInv'
  BY <1>9, <1>t, TakeOn DEF IoClose, CanRun
<1>10. ASSUME NEW c \in Conns, ReplyFails(c) PROVE OneLoginInv'
  <2>1. Lookup(c) \in Conns /\ pc[c] = "idle"
    BY <1>10, <1>t, LookupType DEF ReplyFails, CanRun
  <2>2. Lookup(c) # c => \E a \in Addrs : clientSessions[a] = Lookup(c)
    BY <2>1, <1>t DEF Lookup, TypeOK
  <2>3. Lookup(c) # c => addr[Lookup(c)] # StreamAddr /\ pc[Lookup(c)] \notin LoginSteps
    BY <2>1, <2>2, <1>t
  <2> QED
    BY <1>10, <2>1, <2>3, <1>t, TakeOn DEF ReplyFails
<1>11. ASSUME NEW c \in Conns, PeerGone(c) PROVE OneLoginInv'
  BY <1>11, <1>t, TakeOn DEF PeerGone, CanRun
<1>12. ASSUME NEW c \in Conns, SocketClosed(c) PROVE OneLoginInv'
  BY <1>12, <1>t, TakeOn DEF SocketClosed, CanRun
<1>13. ASSUME NEW t \in Threads, CloseSync(t) PROVE OneLoginInv'
  BY <1>13, <1>t, SMTT(30) DEF CloseSync, TypeOK
<1>14. ASSUME NEW t \in Threads, RemoveClient(t) PROVE OneLoginInv'
  BY <1>14, <1>t DEF RemoveClient, TypeOK
<1>15. ASSUME NEW t \in Threads, FinishRemove(t) PROVE OneLoginInv'
  BY <1>15, <1>t DEF FinishRemove, TypeOK
<1>16. ASSUME NEW w \in Workers, PickSession(w) PROVE OneLoginInv'
  <2>1. PICK c \in Registered : tgt' = [tgt EXCEPT ![w] = c]
    BY <1>16 DEF PickSession
  <2>2. PICK a \in Addrs : clientSessions[a] = c
    BY DEF Registered
  <2>3. c \in Conns /\ addr[c] # StreamAddr /\ pc[c] \notin LoginSteps
    BY <2>2, <1>t DEF Registered
  <2> QED
    BY <1>16, <2>1, <2>3, <1>t, TakeOn DEF PickSession
<1>17. ASSUME NEW w \in Workers, Deliver(w) PROVE OneLoginInv'
  BY <1>17, <1>t DEF Deliver, TypeOK
<1>18. CASE UNCHANGED vars
  BY <1>18 DEF vars, TypeOK
<1> QED
  BY <1>1, <1>2, <1>3, <1>4, <1>5, <1>6, <1>7, <1>8, <1>9, <1>10, <1>11,
     <1>12, <1>13, <1>14, <1>15, <1>16, <1>17, <1>18, <1>t
  DEF Next, Event, LoginStep, CloseStep, WorkerStep, HookStep

LEMMA OneLoginInvariant == OneLogin => (Spec => [](TypeOK /\ RegistryInv /\ OneLoginInv))
<1> SUFFICES ASSUME OneLogin PROVE Spec => [](TypeOK /\ RegistryInv /\ OneLoginInv)
  OBVIOUS
<1>1. TypeOK /\ RegistryInv /\ OneLoginInv /\ [Next]_vars => OneLoginInv'
  BY OneLoginStep
<1> QED
  BY <1>1, RegistryInvariant, OneLoginInit, PTL DEF Spec

\* When no thread is at work on it, a session in clientSessions is open: for
\* clients that log in once per stream, the close listener always finds the
\* session under the address it was registered with.
THEOREM ClosedSessionsLeave == OneLogin => (Spec => []NobodyLingers)
<1>1. TypeOK /\ RegistryInv /\ OneLoginInv => NobodyLingers
  <2> SUFFICES ASSUME TypeOK, RegistryInv, OneLoginInv, NEW c \in Registered, Quiet(c)
               PROVE  status[c] = "authenticated"
    BY DEF NobodyLingers
  <2>1. PICK a \in Addrs : clientSessions[a] = c
    BY DEF Registered
  <2>2. Entry(a, c) /\ status[c] \in {"authenticated", "closed"}
    BY DEF OneLoginInv, RegistryInv, RegisteredLoggedIn, Registered
  <2> QED
    BY <2>1, <2>2 DEF Entry, Quiet
<1> QED
  BY <1>1, OneLoginInvariant, PTL

-----------------------------------------------------------------------------
(* Clients that also have an address of their own. *)

\* A session only ever bears its own client's address, and from the end of its
\* login until it is closed it is the one registered there.
Own(c) ==
    /\ addr[c] \in Claims[c] \cup {StreamAddr}
    /\ pc[c] \in LoginSteps => key[c] \in Claims[c]
    /\ pc[c] \in {"status", "unpre", "put"} => addr[c] # StreamAddr
    /\ status[c] = "authenticated" =>
          /\ addr[c] # StreamAddr
          /\ pc[c] \notin LoginSteps => clientSessions[addr[c]] = c

OwnInv == \A c \in Conns : Own(c)

LEMMA OwnInit == Init => OwnInv
  BY ThreadsAssumption DEF Init, OwnInv, Own, Threads, LoginSteps

LEMMA OwnStep ==
  ASSUME OneLogin, OwnAddresses, TypeOK, RegistryInv, OneLoginInv, OwnInv, [Next]_vars
  PROVE  OwnInv'
<1> USE ThreadsAssumption, AddrsAssumption, ClientsAssumption
<1> USE DEF connVars, registryVars, threadVars, Goto, Return, CallClose, LoginSteps, CloseSteps
<1> USE DEF OwnInv, Own
<1>t. /\ Conns \subseteq Threads /\ Workers \subseteq Threads
      /\ MaxLogins <= 1 /\ Hooks = {} /\ TypeOK /\ RegistryInv /\ OneLoginInv /\ OwnInv
      /\ \A c, d \in Conns : c # d => Claims[c] \cap Claims[d] = {}
      /\ \A c \in Conns : Claims[c] \subseteq Addrs
  BY DEF Threads, OneLogin, OwnAddresses
<1>1. ASSUME NEW c \in Conns, Open(c) PROVE OwnInv'
  BY <1>1, <1>t DEF Open, CanRun, TypeOK, OneLoginInv, OwnLogin, Visitor
<1>2. ASSUME NEW c \in Conns, StartStream(c) PROVE OwnInv'
  BY <1>2, <1>t DEF StartStream, CreateClientSession, CanRun, TypeOK, OneLoginInv, OwnLogin, Visitor
<1>3. ASSUME NEW c \in Conns, NEW available \in BOOLEAN, Presence(c, available) PROVE OwnInv'
  BY <1>3, <1>t DEF Presence, TypeOK
<1>4. ASSUME NEW c \in Conns, BeginLogin(c) PROVE OwnInv'
  BY <1>4, <1>t DEF BeginLogin, CanRun, TypeOK, OneLoginInv, OwnLogin, Visitor
<1>5. ASSUME NEW c \in Conns, SetAddress(c) PROVE OwnInv'
  BY <1>5, <1>t DEF SetAddress, CanRun, TypeOK, OneLoginInv, OwnLogin, Visitor
<1>6. ASSUME NEW c \in Conns, SetStatus(c) PROVE OwnInv'
  BY <1>6, <1>t DEF SetStatus, CanRun, TypeOK, OneLoginInv, OwnLogin, Visitor
<1>7. ASSUME NEW c \in Conns, LeavePreAuth(c) PROVE OwnInv'
  BY <1>7, <1>t DEF LeavePreAuth, CanRun, TypeOK, OneLoginInv, OwnLogin, Visitor
<1>8. ASSUME NEW c \in Conns, PutSession(c) PROVE OwnInv'
  BY <1>8, <1>t DEF PutSession, CanRun, TypeOK, OneLoginInv, OwnLogin, Visitor
<1>9. ASSUME NEW c \in Conns, IoClose(c) PROVE OwnInv'
  BY <1>9, <1>t DEF IoClose, CanRun, TypeOK, OneLoginInv, OwnLogin, Visitor
<1>10. ASSUME NEW c \in Conns, ReplyFails(c) PROVE OwnInv'
  BY <1>10, <1>t DEF ReplyFails, CanRun, TypeOK, OneLoginInv, OwnLogin, Visitor
<1>11. ASSUME NEW c \in Conns, PeerGone(c) PROVE OwnInv'
  BY <1>11, <1>t DEF PeerGone, CanRun, TypeOK, OneLoginInv, OwnLogin, Visitor
<1>12. ASSUME NEW c \in Conns, SocketClosed(c) PROVE OwnInv'
  BY <1>12, <1>t DEF SocketClosed, CanRun, TypeOK, OneLoginInv, OwnLogin, Visitor
<1>13. ASSUME NEW t \in Threads, CloseSync(t) PROVE OwnInv'
  BY <1>13, <1>t DEF CloseSync, CanRun, TypeOK, OneLoginInv, OwnLogin, Visitor
<1>14. ASSUME NEW t \in Threads, RemoveClient(t) PROVE OwnInv'
  BY <1>14, <1>t DEF RemoveClient, CanRun, TypeOK, OneLoginInv, OwnLogin, Visitor
<1>15. ASSUME NEW t \in Threads, FinishRemove(t) PROVE OwnInv'
  BY <1>15, <1>t DEF FinishRemove, CanRun, TypeOK, OneLoginInv, OwnLogin, Visitor
<1>16. ASSUME NEW w \in Workers, PickSession(w) PROVE OwnInv'
  BY <1>16, <1>t DEF PickSession, CanRun, TypeOK, OneLoginInv, OwnLogin, Visitor
<1>17. ASSUME NEW w \in Workers, Deliver(w) PROVE OwnInv'
  BY <1>17, <1>t DEF Deliver, CanRun, TypeOK, OneLoginInv, OwnLogin, Visitor
<1>18. CASE UNCHANGED vars
  BY <1>18 DEF vars, TypeOK
<1> QED
  BY <1>1, <1>2, <1>3, <1>4, <1>5, <1>6, <1>7, <1>8, <1>9, <1>10, <1>11,
     <1>12, <1>13, <1>14, <1>15, <1>16, <1>17, <1>18, <1>t
  DEF Next, Event, LoginStep, CloseStep, WorkerStep, HookStep

\* When no thread is at work on it, an authenticated session is listed in
\* clientSessions.  It takes both assumptions: a second login under the same
\* address, or on the same stream, breaks it.
THEOREM AuthenticatedAreListed ==
    OneLogin /\ OwnAddresses => (Spec => []AllAuthenticatedListed)
<1> SUFFICES ASSUME OneLogin, OwnAddresses PROVE Spec => []AllAuthenticatedListed
  OBVIOUS
<1>1. TypeOK /\ RegistryInv /\ OneLoginInv /\ OwnInv /\ [Next]_vars => OwnInv'
  BY OwnStep
<1>2. TypeOK /\ OneLoginInv /\ OwnInv => AllAuthenticatedListed
  <2> SUFFICES ASSUME TypeOK, OneLoginInv, OwnInv, NEW c \in Conns,
                      status[c] = "authenticated", Quiet(c)
               PROVE  c \in Registered
    BY DEF AllAuthenticatedListed
  <2>1. pc[c] \notin LoginSteps
    BY DEF Quiet, OneLoginInv, OwnLogin, LoginSteps, Threads
  <2>2. addr[c] \in Addrs /\ clientSessions[addr[c]] = c
    BY <2>1 DEF OwnInv, Own, TypeOK
  <2> QED
    BY <2>2 DEF Registered
<1> QED
  BY <1>1, <1>2, OwnInit, OneLoginInvariant, PTL DEF Spec

-----------------------------------------------------------------------------
(***************************************************************************)
(* The counter.  What connectionsCounter stands for while logins and       *)
(* closes are under way: a session on its way from one registry to the     *)
(* other is in neither, and one that a close has taken out is counted out  *)
(* by the next step of that thread.                                        *)
(***************************************************************************)
Counted == preAuth \cup Registered \cup {c \in Conns : pc[c] = "put"}
Hits == {t \in Threads : pc[t] = "finish" /\ hit[t]}

\* A session in the first steps of its login is in preAuthSessions, and only
\* a close that found a client under an address has one to count out.
CountSteps ==
    /\ \A c \in Conns : pc[c] \in {"address", "status", "unpre"} => c \in preAuth
    /\ \A t \in Threads : hit[t] => pc[t] = "finish" /\ key[t] # StreamAddr

LEMMA CountStepsInit == Init => CountSteps
  BY ThreadsAssumption DEF Init, CountSteps, Threads

LEMMA CountStepsStep ==
  ASSUME OneLogin, TypeOK, OneLoginInv, CountSteps, [Next]_vars
  PROVE  CountSteps'
<1> USE ThreadsAssumption, AddrsAssumption, ClientsAssumption
<1> USE DEF connVars, registryVars, threadVars, Goto, Return, CallClose, LoginSteps, CloseSteps
<1> USE DEF CountSteps
<1>t. /\ Conns \subseteq Threads /\ Workers \subseteq Threads
      /\ MaxLogins <= 1 /\ Hooks = {} /\ TypeOK /\ OneLoginInv
  BY DEF Threads, OneLogin
<1>1. ASSUME NEW c \in Conns, Open(c) PROVE CountSteps'
  BY <1>1, <1>t DEF Open
<1>2. ASSUME NEW c \in Conns, StartStream(c) PROVE CountSteps'
  BY <1>2, <1>t DEF StartStream, CreateClientSession
<1>3. ASSUME NEW c \in Conns, NEW available \in BOOLEAN, Presence(c, available) PROVE CountSteps'
  BY <1>3, <1>t DEF Presence
<1>4. ASSUME NEW c \in Conns, BeginLogin(c) PROVE CountSteps'
  <2>0. logins[c] < MaxLogins /\ logins[c] \in Nat /\ pc[c] = "idle"
    BY <1>4, <1>t DEF BeginLogin, CanRun, TypeOK
  <2>1. addr[c] = StreamAddr
    BY <2>0, <1>t DEF OneLoginInv, OwnLogin
  <2>2. c \in preAuth
    BY <1>4, <2>1 DEF BeginLogin, Lookup
  <2>3. /\ pc'[c] = "address" /\ UNCHANGED <<preAuth, hit>>
        /\ \A t \in Threads \ {c} : pc'[t] = pc[t] /\ key'[t] = key[t]
    BY <1>4, <1>t DEF BeginLogin, TypeOK
  <2> QED
    BY <2>0, <2>2, <2>3, <1>t
<1>5. ASSUME NEW c \in Conns, SetAddress(c) PROVE CountSteps'
  BY <1>5, <1>t DEF SetAddress, TypeOK
<1>6. ASSUME NEW c \in Conns, SetStatus(c) PROVE CountSteps'
  BY <1>6, <1>t DEF SetStatus, TypeOK
<1>7. ASSUME NEW c \in Conns, LeavePreAuth(c) PROVE CountSteps'
  BY <1>7, <1>t DEF LeavePreAuth, TypeOK, OneLoginInv, OwnLogin
<1>8. ASSUME NEW c \in Conns, PutSession(c) PROVE CountSteps'
  BY <1>8, <1>t DEF PutSession, TypeOK
<1>9. ASSUME NEW c \in Conns, IoClose(c) PROVE CountSteps'
  BY <1>9, <1>t DEF IoClose, CanRun, TypeOK
<1>10. ASSUME NEW c \in Conns, ReplyFails(c) PROVE CountSteps'
  BY <1>10, <1>t DEF ReplyFails, CanRun, TypeOK
<1>11. ASSUME NEW c \in Conns, PeerGone(c) PROVE CountSteps'
  BY <1>11, <1>t DEF PeerGone, CanRun, TypeOK
<1>12. ASSUME NEW c \in Conns, SocketClosed(c) PROVE CountSteps'
  BY <1>12, <1>t DEF SocketClosed, CanRun, TypeOK
<1>13. ASSUME NEW t \in Threads, CloseSync(t) PROVE CountSteps'
  BY <1>13, <1>t DEF CloseSync, TypeOK
<1>14. ASSUME NEW t \in Threads, RemoveClient(t) PROVE CountSteps'
  BY <1>14, <1>t DEF RemoveClient, TypeOK
<1>15. ASSUME NEW t \in Threads, FinishRemove(t) PROVE CountSteps'
  <2>1. pc[t] = "finish" /\ tgt[t] \in Conns
    BY <1>15, <1>t DEF FinishRemove, TypeOK
  <2>2. pc[tgt[t]] \notin LoginSteps
    BY <2>1, <1>t DEF OneLoginInv, Visitor
  <2>3. /\ preAuth \ {tgt[t]} \subseteq preAuth'
        /\ pc'[t] \in {"idle", "sweep"} /\ ~hit'[t]
        /\ \A u \in Threads \ {t} : pc'[u] = pc[u] /\ key'[u] = key[u] /\ hit'[u] = hit[u]
    BY <1>15, <1>t DEF FinishRemove, TypeOK
  <2> QED
    BY <2>1, <2>2, <2>3, <1>t
<1>16. ASSUME NEW w \in Workers, PickSession(w) PROVE CountSteps'
  BY <1>16, <1>t DEF PickSession, TypeOK
<1>17. ASSUME NEW w \in Workers, Deliver(w) PROVE CountSteps'
  BY <1>17, <1>t DEF Deliver, TypeOK
<1>18. CASE UNCHANGED vars
  BY <1>18 DEF vars
<1> QED
  BY <1>1, <1>2, <1>3, <1>4, <1>5, <1>6, <1>7, <1>8, <1>9, <1>10, <1>11,
     <1>12, <1>13, <1>14, <1>15, <1>16, <1>17, <1>18, <1>t
  DEF Next, Event, LoginStep, CloseStep, WorkerStep, HookStep

(***************************************************************************)
(* What a step does to the counter and to what it stands for: nothing, one *)
(* session more, one session from Counted to Hits, or one counted out.     *)
(* Where it loses a decrement, or a login hides another session, the       *)
(* counter stays above.                                                    *)
(***************************************************************************)
CountMove(loses) ==
    \/ Counted' = Counted /\ Hits' = Hits /\ counter' = counter
    \/ \E c \in Conns \ Counted :
          Counted' = Counted \cup {c} /\ Hits' = Hits /\ counter' = counter + 1
    \/ \E c \in Counted, t \in Threads \ Hits :
          Counted' = Counted \ {c} /\ Hits' = Hits \cup {t} /\ counter' = counter
    \/ \E c \in Counted :
          Counted' = Counted \ {c} /\ Hits' = Hits /\ counter' = counter - 1
    \/ \E t \in Hits :
          Counted' = Counted /\ Hits' = Hits \ {t} /\ counter' = counter - 1
    \/ loses /\ Counted' \subseteq Counted /\ Hits' \subseteq Hits /\ counter' = counter

\* A login that puts its session in the place of another one.
Hides == \E c \in Conns : pc[c] = "put" /\ clientSessions[addr[c]] \notin {NoConn, c}

\* A step that leaves the registries alone, and whose thread is at the end of
\* neither a login nor a close, changes nothing.
LEMMA KeepsCount ==
  ASSUME NEW x \in Threads, pc[x] \notin {"put", "finish"}, pc'[x] \notin {"put", "finish"},
         \A t \in Threads \ {x} : pc'[t] = pc[t] /\ hit'[t] = hit[t],
         UNCHANGED <<preAuth, clientSessions, counter>>
  PROVE  CountMove(FALSE)
<1>1. Counted' = Counted
  BY DEF Counted, Registered, Threads
<1>2. Hits' = Hits
  BY DEF Hits
<1> QED
  BY <1>1, <1>2 DEF CountMove

LEMMA CountMoves ==
  ASSUME OneLogin, TypeOK, RegistryInv, OneLoginInv, CountSteps, [Next]_vars
  PROVE  CountMove(SaveMayFail \/ Hides)
<1> USE ThreadsAssumption, AddrsAssumption, ClientsAssumption
<1> USE DEF connVars, registryVars, threadVars, Goto, Return, CallClose, LoginSteps, CloseSteps
<1> DEFINE Goal == CountMove(SaveMayFail \/ Hides)
<1>g. CountMove(FALSE) => Goal
  BY DEF CountMove
<1>t. /\ Conns \subseteq Threads /\ Workers \subseteq Threads
      /\ MaxLogins <= 1 /\ Hooks = {} /\ TypeOK /\ RegistryInv /\ OneLoginInv /\ CountSteps
  BY DEF Threads, OneLogin
<1> HIDE DEF Goal
<1>1. ASSUME NEW c \in Conns, Open(c) PROVE Goal
  BY <1>1, <1>g DEF Open, CountMove, Counted, Hits, Registered
<1>2. ASSUME NEW c \in Conns, StartStream(c) PROVE Goal
  <2>1. status[c] = "none" /\ pc[c] = "idle"
    BY <1>2, <1>t DEF StartStream, CanRun, RegistryInv, NoSessionInv
  <2>2. c \notin Counted
    BY <2>1, <1>t DEF Counted, RegistryInv, NoSessionInv
  <2>3. Hits' = Hits
    BY <1>2 DEF StartStream, Hits
  <2>4. \/ Counted' = Counted /\ counter' = counter
        \/ Counted' = Counted \cup {c} /\ counter' = counter + 1
    BY <1>2 DEF StartStream, CreateClientSession, Counted, Registered
  <2> QED
    BY <2>2, <2>3, <2>4, <1>g DEF CountMove
<1>3. ASSUME NEW c \in Conns, NEW available \in BOOLEAN, Presence(c, available) PROVE Goal
  BY <1>3, <1>g DEF Presence, CountMove, Counted, Hits, Registered
<1>4. ASSUME NEW c \in Conns, BeginLogin(c) PROVE Goal
  BY <1>4, <1>t, <1>g, KeepsCount DEF BeginLogin, CanRun, TypeOK
<1>5. ASSUME NEW c \in Conns, SetAddress(c) PROVE Goal
  BY <1>5, <1>t, <1>g, KeepsCount DEF SetAddress, TypeOK
<1>6. ASSUME NEW c \in Conns, SetStatus(c) PROVE Goal
  BY <1>6, <1>t, <1>g, KeepsCount DEF SetStatus, TypeOK
<1>7. ASSUME NEW c \in Conns, LeavePreAuth(c) PROVE Goal
  <2>1. pc[c] = "unpre" /\ tgt[c] = c /\ c \in preAuth
    BY <1>7, <1>t DEF LeavePreAuth, OneLoginInv, OwnLogin, CountSteps
  <2>2. /\ pc'[c] = "put" /\ \A t \in Threads \ {c} : pc'[t] = pc[t]
        /\ preAuth' = preAuth \ {c} /\ UNCHANGED <<clientSessions, counter, hit>>
    BY <1>7, <2>1, <1>t DEF LeavePreAuth, TypeOK
  <2>3. Counted' = Counted
    BY <2>1, <2>2, <1>t DEF Counted, Registered
  <2>4. Hits' = Hits
    BY <2>1, <2>2, <1>t DEF Hits
  <2> QED
    BY <2>2, <2>3, <2>4, <1>g DEF CountMove
<1>8. ASSUME NEW c \in Conns, PutSession(c) PROVE Goal
  <2>1. /\ pc[c] = "put" /\ tgt[c] = c /\ addr[c] \in Addrs /\ addr[c] # StreamAddr
    BY <1>8, <1>t DEF PutSession, OneLoginInv, OwnLogin, RegistryInv, LoginInv, TypeOK
  <2>2. /\ pc'[c] \in {"idle", "sweep", "close"} /\ ~hit[c] /\ ~hit'[c]
        /\ \A t \in Threads \ {c} : pc'[t] = pc[t] /\ hit'[t] = hit[t]
        /\ clientSessions' = [clientSessions EXCEPT ![addr[c]] = c]
        /\ UNCHANGED <<preAuth, counter>>
    BY <1>8, <2>1, <1>t DEF PutSession, TypeOK, CountSteps
  <2>3. Hits' = Hits
    BY <2>1, <2>2, <1>t DEF Hits
  <2>4. clientSessions \in [Addrs -> Conns \cup {NoConn}]
    BY <1>t DEF TypeOK
  <2>5. Registered' \subseteq Registered \cup {c} /\ c \in Registered'
    BY <2>1, <2>2, <2>4 DEF Registered
  <2>6. Counted' \subseteq Counted
    BY <2>1, <2>2, <2>5, <1>t DEF Counted
  <2>7. CASE clientSessions[addr[c]] \in {NoConn, c}
    <3>1. Registered \subseteq Registered'
      BY <2>1, <2>2, <2>4, <2>7 DEF Registered
    <3>2. Counted \subseteq Counted'
      BY <2>1, <2>2, <2>5, <3>1, <1>t DEF Counted
    <3> QED
      BY <2>2, <2>3, <2>6, <3>2, <1>g DEF CountMove
  <2>8. CASE clientSessions[addr[c]] \notin {NoConn, c}
    BY <2>1, <2>2, <2>3, <2>6, <2>8 DEF Goal, CountMove, Hides
  <2> QED
    BY <2>7, <2>8
<1>9. ASSUME NEW c \in Conns, IoClose(c) PROVE Goal
  BY <1>9, <1>t, <1>g, KeepsCount DEF IoClose, CanRun, TypeOK
<1>10. ASSUME NEW c \in Conns, ReplyFails(c) PROVE Goal
  BY <1>10, <1>t, <1>g, KeepsCount DEF ReplyFails, CanRun, TypeOK
<1>11. ASSUME NEW c \in Conns, PeerGone(c) PROVE Goal
  BY <1>11, <1>t, <1>g, KeepsCount DEF PeerGone, CanRun, TypeOK
<1>12. ASSUME NEW c \in Conns, SocketClosed(c) PROVE Goal
  BY <1>12, <1>t, <1>g, KeepsCount DEF SocketClosed, CanRun, TypeOK
<1>13. ASSUME NEW t \in Threads, CloseSync(t) PROVE Goal
  <2>1. /\ pc[t] = "close" /\ pc'[t] \in {"idle", "sweep", "remove"}
        /\ \A u \in Threads \ {t} : pc'[u] = pc[u] /\ hit'[u] = hit[u]
        /\ UNCHANGED <<preAuth, clientSessions, counter>>
    BY <1>13, <1>t DEF CloseSync, TypeOK
  <2> QED
    BY <2>1, <1>g, KeepsCount
<1>14. ASSUME NEW t \in Threads, RemoveClient(t) PROVE Goal
  <2> DEFINE a == addr[tgt[t]]
             d == clientSessions[a]
  <2>1. /\ pc[t] = "remove" /\ ~hit[t] /\ a \in Addrs \cup {StreamAddr}
        /\ clientSessions \in [Addrs -> Conns \cup {NoConn}]
    BY <1>14, <1>t DEF RemoveClient, CountSteps, TypeOK
  <2>2. /\ pc'[t] = "finish" /\ UNCHANGED <<preAuth, counter>>
        /\ \A u \in Threads \ {t} : pc'[u] = pc[u] /\ hit'[u] = hit[u]
    BY <1>14, <1>t DEF RemoveClient, TypeOK
  <2>3. CASE a = StreamAddr
    <3>1. clientSessions' = clientSessions /\ ~hit'[t]
      BY <1>14, <2>1, <2>3 DEF RemoveClient
    <3>2. Hits' = Hits
      BY <2>1, <2>2, <3>1 DEF Hits
    <3>3. Counted' = Counted
      BY <2>1, <2>2, <3>1, <1>t DEF Counted, Registered
    <3> QED
      BY <2>2, <3>2, <3>3, <1>g DEF CountMove
  <2>4. CASE a # StreamAddr
    <3>1. /\ clientSessions' = [clientSessions EXCEPT ![a] = NoConn]
          /\ hit' = [hit EXCEPT ![t] = d # NoConn] /\ a \in Addrs
      BY <1>14, <2>1, <2>4 DEF RemoveClient
    <3>2. hit'[t] = (d # NoConn)
      BY <3>1, <1>t DEF TypeOK
    <3>3. {c \in Conns : pc'[c] = "put"} = {c \in Conns : pc[c] = "put"}
      BY <2>1, <2>2, <1>t
    <3>4. CASE d = NoConn
      <4>1. Hits' = Hits
        BY <2>1, <2>2, <3>2, <3>4 DEF Hits
      <4>2. clientSessions' = clientSessions
        BY <2>1, <3>1, <3>4
      <4>3. Counted' = Counted
        BY <2>2, <3>3, <4>2 DEF Counted, Registered
      <4> QED
        BY <2>2, <4>1, <4>3, <1>g DEF CountMove
    <3>5. CASE d # NoConn
      <4>1. d \in Conns /\ d \in Registered
        BY <2>1, <3>1, <3>5 DEF Registered
      <4>2. addr[d] = a /\ pc[d] # "put" /\ d \notin preAuth
        BY <3>1, <4>1, <1>t DEF OneLoginInv, Entry, RegistryInv, OneRegistry, LoginSteps
      <4>3. \A b \in Addrs : clientSessions[b] = d => b = a
        BY <4>1, <4>2, <1>t DEF OneLoginInv, Entry
      <4>4. Registered' = Registered \ {d}
        BY <2>1, <3>1, <4>1, <4>3 DEF Registered
      <4>5. Counted' = Counted \ {d} /\ d \in Counted
        BY <2>2, <3>3, <4>1, <4>2, <4>4 DEF Counted
      <4>6. Hits' = Hits \cup {t} /\ t \in Threads \ Hits
        BY <2>1, <2>2, <3>2, <3>5 DEF Hits
      <4> QED
        BY <2>2, <4>5, <4>6, <1>g DEF CountMove
    <3> QED
      BY <3>4, <3>5
  <2> QED
    BY <2>3, <2>4
<1>15. ASSUME NEW t \in Threads, FinishRemove(t) PROVE Goal
  <2> DEFINE c == tgt[t]
             inPreAuth == key[t] = StreamAddr /\ c \in preAuth
  <2>1. pc[t] = "finish" /\ c \in Conns /\ preAuth \subseteq Conns
    BY <1>15, <1>t DEF FinishRemove, TypeOK
  <2>2. /\ pc'[t] \in {"idle", "sweep"} /\ ~hit'[t] /\ clientSessions' = clientSessions
        /\ \A u \in Threads \ {t} : pc'[u] = pc[u] /\ hit'[u] = hit[u]
        /\ preAuth' = IF inPreAuth THEN preAuth \ {c} ELSE preAuth
    BY <1>15, <1>t DEF FinishRemove, TypeOK
  <2>3. \/ counter' = IF hit[t] \/ inPreAuth THEN counter - 1 ELSE counter
        \/ SaveMayFail /\ counter' = counter
    BY <1>15 DEF FinishRemove
  <2>4. {d \in Conns : pc'[d] = "put"} = {d \in Conns : pc[d] = "put"}
    BY <2>1, <2>2, <1>t
  <2>5. Registered' = Registered
    BY <2>2 DEF Registered
  <2>6. hit[t] \in BOOLEAN /\ (hit[t] => ~inPreAuth)
    BY <1>t DEF TypeOK, CountSteps
  <2>7. Hits' = IF hit[t] THEN Hits \ {t} ELSE Hits
    BY <2>1, <2>2 DEF Hits
  <2>8. hit[t] => t \in Hits
    BY <2>1 DEF Hits
  <2>9. Counted' = IF inPreAuth THEN Counted \ {c} ELSE Counted
    <3>1. inPreAuth => c \notin Registered /\ pc[c] # "put"
      BY <2>1, <1>t DEF RegistryInv, OneRegistry, LoginInv, OneLoginInv, OwnLogin, LoginSteps
    <3> QED
      BY <2>2, <2>4, <2>5, <3>1 DEF Counted
  <2>10. inPreAuth => c \in Counted
    BY DEF Counted
  <2> HIDE DEF c, inPreAuth
  <2> QED
    BY <2>3, <2>6, <2>7, <2>8, <2>9, <2>10, <1>g DEF Goal, CountMove
<1>16. ASSUME NEW w \in Workers, PickSession(w) PROVE Goal
  <2>1. /\ w \in Threads /\ pc[w] = "idle" /\ pc'[w] = "deliver"
        /\ \A t \in Threads \ {w} : pc'[t] = pc[t] /\ hit'[t] = hit[t]
        /\ UNCHANGED <<preAuth, clientSessions, counter>>
    BY <1>16, <1>t DEF PickSession, TypeOK
  <2> QED
    BY <2>1, <1>g, KeepsCount
<1>17. ASSUME NEW w \in Workers, Deliver(w) PROVE Goal
  <2>1. /\ w \in Threads /\ pc[w] = "deliver" /\ pc'[w] \in {"idle", "sweep", "close"}
        /\ \A t \in Threads \ {w} : pc'[t] = pc[t] /\ hit'[t] = hit[t]
        /\ UNCHANGED <<preAuth, clientSessions, counter>>
    BY <1>17, <1>t DEF Deliver, TypeOK
  <2> QED
    BY <2>1, <1>g, KeepsCount
<1>18. CASE UNCHANGED vars
  BY <1>18, <1>g DEF vars, CountMove, Counted, Hits, Registered
<1> QED
  BY <1>1, <1>2, <1>3, <1>4, <1>5, <1>6, <1>7, <1>8, <1>9, <1>10, <1>11,
     <1>12, <1>13, <1>14, <1>15, <1>16, <1>17, <1>18, <1>t
  DEF Next, Event, LoginStep, CloseStep, WorkerStep, HookStep, Goal

Surplus == counter - Cardinality(Counted) - Cardinality(Hits)

\* No such step brings the counter below, and one that loses nothing keeps it.
LEMMA SurplusMoves ==
  ASSUME NEW loses \in BOOLEAN, CountMove(loses), IsFiniteSet(Counted), IsFiniteSet(Hits),
         counter \in Int, counter' \in Int
  PROVE  /\ IsFiniteSet(Counted)' /\ IsFiniteSet(Hits)'
         /\ Surplus \in Int /\ Surplus' \in Int
         /\ Surplus' >= Surplus
         /\ ~loses => Surplus' = Surplus
<1>1. Cardinality(Counted) \in Nat /\ Cardinality(Hits) \in Nat
  BY FS_CardinalityType
<1>2. Surplus \in Int
  BY <1>1 DEF Surplus
<1>3. CASE Counted' = Counted /\ Hits' = Hits /\ counter' = counter
  BY <1>2, <1>3 DEF Surplus
<1>4. ASSUME NEW c \in Conns \ Counted,
             Counted' = Counted \cup {c}, Hits' = Hits, counter' = counter + 1
      PROVE  /\ IsFiniteSet(Counted)' /\ IsFiniteSet(Hits)' /\ Surplus' = Surplus
  <2>1. IsFiniteSet(Counted)' /\ Cardinality(Counted)' = Cardinality(Counted) + 1
    BY <1>4, FS_AddElement
  <2> QED
    BY <1>1, <1>4, <2>1 DEF Surplus
<1>5. ASSUME NEW c \in Counted, NEW t \in Threads \ Hits,
             Counted' = Counted \ {c}, Hits' = Hits \cup {t}, counter' = counter
      PROVE  /\ IsFiniteSet(Counted)' /\ IsFiniteSet(Hits)' /\ Surplus' = Surplus
  <2>1. IsFiniteSet(Counted)' /\ Cardinality(Counted)' = Cardinality(Counted) - 1
    BY <1>5, FS_RemoveElement
  <2>2. IsFiniteSet(Hits)' /\ Cardinality(Hits)' = Cardinality(Hits) + 1
    BY <1>5, FS_AddElement
  <2> QED
    BY <1>1, <1>5, <2>1, <2>2 DEF Surplus
<1>6. ASSUME NEW c \in Counted, Counted' = Counted \ {c}, Hits' = Hits, counter' = counter - 1
      PROVE  /\ IsFiniteSet(Counted)' /\ IsFiniteSet(Hits)' /\ Surplus' = Surplus
  <2>1. IsFiniteSet(Counted)' /\ Cardinality(Counted)' = Cardinality(Counted) - 1
    BY <1>6, FS_RemoveElement
  <2> QED
    BY <1>1, <1>6, <2>1 DEF Surplus
<1>7. ASSUME NEW t \in Hits, Counted' = Counted, Hits' = Hits \ {t}, counter' = counter - 1
      PROVE  /\ IsFiniteSet(Counted)' /\ IsFiniteSet(Hits)' /\ Surplus' = Surplus
  <2>1. IsFiniteSet(Hits)' /\ Cardinality(Hits)' = Cardinality(Hits) - 1
    BY <1>7, FS_RemoveElement
  <2> QED
    BY <1>1, <1>7, <2>1 DEF Surplus
<1>8. ASSUME Counted' \subseteq Counted, Hits' \subseteq Hits, counter' = counter
      PROVE  /\ IsFiniteSet(Counted)' /\ IsFiniteSet(Hits)' /\ Surplus' \in Int
             /\ Surplus' >= Surplus
  <2>1. IsFiniteSet(Counted)' /\ Cardinality(Counted)' <= Cardinality(Counted)
    BY <1>8, FS_Subset
  <2>2. IsFiniteSet(Hits)' /\ Cardinality(Hits)' <= Cardinality(Hits)
    BY <1>8, FS_Subset
  <2>3. Cardinality(Counted)' \in Nat /\ Cardinality(Hits)' \in Nat
    BY <2>1, <2>2, FS_CardinalityType
  <2> QED
    BY <1>1, <1>8, <2>1, <2>2, <2>3 DEF Surplus
<1>9. Surplus' = Surplus => Surplus' >= Surplus
  BY <1>2
<1> QED
  BY <1>2, <1>3, <1>4, <1>5, <1>6, <1>7, <1>8, <1>9 DEF CountMove

\* The counter is never below what it stands for.
CountInv ==
    /\ CountSteps
    /\ IsFiniteSet(Counted) /\ IsFiniteSet(Hits)
    /\ Surplus >= 0

LEMMA CountInit == Init => CountInv /\ Surplus = 0
<1> SUFFICES ASSUME Init PROVE CountInv /\ Surplus = 0
  OBVIOUS
<1>1. Counted = {} /\ Hits = {}
  BY ThreadsAssumption DEF Init, Counted, Hits, Registered, Threads
<1> QED
  BY <1>1, CountStepsInit, FS_EmptySet DEF Init, CountInv, Surplus

LEMMA CountStep ==
  ASSUME OneLogin, TypeOK, RegistryInv, OneLoginInv, CountInv, [Next]_vars
  PROVE  CountInv' /\ (~SaveMayFail /\ ~Hides => Surplus' = Surplus)
<1>1. CountSteps' /\ CountMove(SaveMayFail \/ Hides)
  BY CountStepsStep, CountMoves DEF CountInv
<1>2. counter \in Int /\ counter' \in Int
  BY TypeStep DEF TypeOK
<1>3. (SaveMayFail \/ Hides) \in BOOLEAN
  OBVIOUS
<1>4. /\ IsFiniteSet(Counted)' /\ IsFiniteSet(Hits)'
      /\ Surplus \in Int /\ Surplus' \in Int /\ Surplus' >= Surplus
      /\ ~(SaveMayFail \/ Hides) => Surplus' = Surplus
  BY <1>1, <1>2, <1>3, SurplusMoves DEF CountInv
<1>5. Surplus' >= 0
  BY <1>4 DEF CountInv
<1> QED
  BY <1>1, <1>4, <1>5 DEF CountInv

\* When no thread is at work on any session, the counter stands for the two
\* registries alone.
LEMMA QuietCount ==
  ASSUME TypeOK, RegistryInv, OneLoginInv, CountInv, \A c \in Conns : Quiet(c)
  PROVE  /\ Surplus = counter - (Cardinality(preAuth) + Cardinality(Registered))
         /\ Cardinality(preAuth) + Cardinality(Registered) \in Nat
<1>1. Hits = {}
  BY DEF Hits, Quiet, TypeOK, CloseSteps
<1>2. Counted = preAuth \cup Registered
  BY DEF Counted, Quiet, TypeOK, LoginSteps, Threads
<1>3. IsFiniteSet(preAuth) /\ IsFiniteSet(Registered)
  BY <1>2, FS_Subset DEF CountInv
<1>4. preAuth \cap Registered = {}
  BY DEF RegistryInv, OneRegistry
<1>5. /\ Cardinality(preAuth) \in Nat /\ Cardinality(Registered) \in Nat
      /\ Cardinality(Counted) = Cardinality(preAuth) + Cardinality(Registered)
  <2>1. Cardinality(preAuth) \in Nat /\ Cardinality(Registered) \in Nat
    BY <1>3, FS_CardinalityType
  <2>2. Cardinality(preAuth \cap Registered) = 0
    BY <1>4, FS_EmptySet
  <2>3. Cardinality(preAuth \cup Registered) =
           Cardinality(preAuth) + Cardinality(Registered) - Cardinality(preAuth \cap Registered)
    BY <1>3, FS_Union
  <2> QED
    BY <1>2, <2>1, <2>2, <2>3
<1> QED
  BY <1>1, <1>5, FS_EmptySet DEF Surplus, TypeOK

LEMMA CountInvariant == OneLogin => (Spec => [](TypeOK /\ RegistryInv /\ OneLoginInv /\ CountInv))
<1> SUFFICES ASSUME OneLogin
             PROVE  Spec => [](TypeOK /\ RegistryInv /\ OneLoginInv /\ CountInv)
  OBVIOUS
<1>1. TypeOK /\ RegistryInv /\ OneLoginInv /\ CountInv /\ [Next]_vars => CountInv'
  BY CountStep
<1>2. Init => CountInv
  BY CountInit
<1> QED
  BY <1>1, <1>2, OneLoginInvariant, PTL DEF Spec

\* connectionsCounter is never below the number of sessions in the registries,
\* when no thread is at work on one: also when clients reconnect under the same
\* address, and when records cannot be saved.
THEOREM CounterNeverBelow == OneLogin => (Spec => []CounterNotBelow)
<1>1. TypeOK /\ RegistryInv /\ OneLoginInv /\ CountInv => CounterNotBelow
  <2> SUFFICES ASSUME TypeOK, RegistryInv, OneLoginInv, CountInv, \A c \in Conns : Quiet(c)
               PROVE  counter >= Cardinality(preAuth) + Cardinality(Registered)
    BY DEF CounterNotBelow
  <2>1. counter \in Int /\ Surplus >= 0
    BY DEF TypeOK, CountInv
  <2> QED
    BY <2>1, QuietCount
<1> QED
  BY <1>1, CountInvariant, PTL

\* With an address of its own for each client, no login hides a session.
LEMMA NoneHidden ==
  ASSUME OwnAddresses, TypeOK, RegistryInv, OneLoginInv, OwnInv
  PROVE  ~Hides
<1> SUFFICES ASSUME NEW c \in Conns, pc[c] = "put", clientSessions[addr[c]] \notin {NoConn, c}
             PROVE  FALSE
  BY DEF Hides
<1> DEFINE d == clientSessions[addr[c]]
<1>1. addr[c] # StreamAddr /\ addr[c] \in Claims[c] /\ addr[c] \in Addrs
  BY DEF OwnInv, Own, TypeOK
<1>2. d \in Conns /\ d # c
  BY <1>1 DEF TypeOK
<1>3. addr[d] = addr[c]
  BY <1>1, <1>2 DEF OneLoginInv, Entry
<1>4. addr[d] \in Claims[d]
  BY <1>1, <1>2, <1>3 DEF OwnInv, Own
<1> QED
  BY <1>1, <1>2, <1>3, <1>4 DEF OwnAddresses

\* With an address of its own for each client, and records that are saved, the
\* counter is exact.
THEOREM CounterIsExact ==
    OneLogin /\ OwnAddresses /\ ~SaveMayFail => (Spec => []CounterExact)
<1> SUFFICES ASSUME OneLogin, OwnAddresses, ~SaveMayFail PROVE Spec => []CounterExact
  OBVIOUS
<1> DEFINE Known == TypeOK /\ RegistryInv /\ OneLoginInv /\ CountInv
<1>1. Known /\ OwnInv /\ [Next]_vars => OwnInv'
  BY OwnStep
<1>2. Known /\ OwnInv /\ Surplus = 0 /\ [Next]_vars => (Surplus = 0)'
  BY CountStep, NoneHidden
<1>3. Known /\ Surplus = 0 => CounterExact
  <2> SUFFICES ASSUME Known, Surplus = 0, \A c \in Conns : Quiet(c)
               PROVE  counter = Cardinality(preAuth) + Cardinality(Registered)
    BY DEF CounterExact
  <2>1. counter \in Int
    BY DEF TypeOK
  <2> QED
    BY <2>1, QuietCount
<1>4. Init => Surplus = 0
  BY CountInit
<1>5. Spec => []Known
  BY CountInvariant
<1> HIDE DEF Known
<1> QED
  BY <1>1, <1>2, <1>3, <1>4, <1>5, OwnInit, PTL DEF Spec

-----------------------------------------------------------------------------
(***************************************************************************)
(* The online records, when each can be saved.  An address has one login   *)
(* record more than logout records for every session that logged in under  *)
(* it and is open, or on its way out: the close that found the session     *)
(* open writes the logout record in its last step.                         *)
(***************************************************************************)
Recorded(c) ==
    /\ pc[c] \notin LoginSteps
    /\ \/ status[c] = "authenticated"
       \/ \E t \in Threads : tgt[t] = c /\ pc[t] \in {"remove", "finish"}
Lasting(a) == {c \in Conns : addr[c] = a /\ Recorded(c)}

\* Each session is removed by one thread, and a session that has not logged in
\* has no address but its stream id.
RecordSteps ==
    /\ \A t, u \in Threads :
          /\ t # u
          /\ pc[t] \in {"remove", "finish"} /\ pc[u] \in {"remove", "finish"}
          => tgt[t] # tgt[u]
    /\ \A c \in Conns :
          status[c] \in {"none", "connected"} /\ pc[c] \notin LoginSteps => addr[c] = StreamAddr

LEMMA RecordStepsInit == Init => RecordSteps
  BY ThreadsAssumption DEF Init, RecordSteps, Threads

LEMMA RecordStepsStep ==
  ASSUME OneLogin, TypeOK, RegistryInv, OneLoginInv, RecordSteps, [Next]_vars
  PROVE  RecordSteps'
<1> USE ThreadsAssumption, AddrsAssumption, ClientsAssumption
<1> USE DEF connVars, registryVars, threadVars, Goto, Return, CallClose, LoginSteps, CloseSteps
<1> USE DEF RecordSteps
<1>t. /\ Conns \subseteq Threads /\ Workers \subseteq Threads
      /\ MaxLogins <= 1 /\ Hooks = {} /\ TypeOK /\ RegistryInv /\ OneLoginInv
  BY DEF Threads, OneLogin
<1>1. ASSUME NEW c \in Conns, Open(c) PROVE RecordSteps'
  BY <1>1, <1>t DEF Open
<1>2. ASSUME NEW c \in Conns, StartStream(c) PROVE RecordSteps'
  BY <1>2, <1>t DEF StartStream, CreateClientSession, TypeOK, RegistryInv, NoSessionInv
<1>3. ASSUME NEW c \in Conns, NEW available \in BOOLEAN, Presence(c, available) PROVE RecordSteps'
  BY <1>3, <1>t DEF Presence
<1>4. ASSUME NEW c \in Conns, BeginLogin(c) PROVE RecordSteps'
  BY <1>4, <1>t DEF BeginLogin, TypeOK
<1>5. ASSUME NEW c \in Conns, SetAddress(c) PROVE RecordSteps'
  BY <1>5, <1>t DEF SetAddress, TypeOK, OneLoginInv, OwnLogin
<1>6. ASSUME NEW c \in Conns, SetStatus(c) PROVE RecordSteps'
  BY <1>6, <1>t DEF SetStatus, TypeOK, OneLoginInv, OwnLogin
<1>7. ASSUME NEW c \in Conns, LeavePreAuth(c) PROVE RecordSteps'
  BY <1>7, <1>t DEF LeavePreAuth, TypeOK
<1>8. ASSUME NEW c \in Conns, PutSession(c) PROVE RecordSteps'
  <2>1. /\ pc[c] = "put" /\ status[c] = "authenticated"
        /\ pc'[c] \in {"idle", "sweep", "close"} /\ UNCHANGED <<status, addr>>
        /\ \A t \in Threads \ {c} : pc'[t] = pc[t] /\ tgt'[t] = tgt[t]
    BY <1>8, <1>t DEF PutSession, TypeOK, OneLoginInv, OwnLogin
  <2> QED
    BY <2>1, <1>t
<1>9. ASSUME NEW c \in Conns, IoClose(c) PROVE RecordSteps'
  BY <1>9, <1>t DEF IoClose, CanRun, TypeOK
<1>10. ASSUME NEW c \in Conns, ReplyFails(c) PROVE RecordSteps'
  BY <1>10, <1>t DEF ReplyFails, CanRun, TypeOK
<1>11. ASSUME NEW c \in Conns, PeerGone(c) PROVE RecordSteps'
  BY <1>11, <1>t DEF PeerGone, CanRun, TypeOK
<1>12. ASSUME NEW c \in Conns, SocketClosed(c) PROVE RecordSteps'
  BY <1>12, <1>t DEF SocketClosed, CanRun, TypeOK
<1>13. ASSUME NEW t \in Threads, CloseSync(t) PROVE RecordSteps'
  <2>1. PICK s \in Conns : s = tgt[t]
    BY <1>13, <1>t DEF CloseSync, TypeOK
  <2>2. /\ pc[t] = "close" /\ addr' = addr
        /\ \A u \in Threads \ {t} : pc'[u] = pc[u] /\ tgt'[u] = tgt[u]
    BY <1>13, <1>t DEF CloseSync, TypeOK
  <2>3. \/ UNCHANGED status /\ pc'[t] \in {"idle", "sweep"}
        \/ /\ status[s] # "closed" /\ status' = [status EXCEPT ![s] = "closed"]
           /\ pc'[t] = "remove" /\ tgt'[t] = s
    BY <1>13, <2>1, <1>t DEF CloseSync, IsClosed, TypeOK
  <2>4. \A u \in Threads : pc[u] \in {"remove", "finish"} => status[tgt[u]] = "closed"
    BY <1>t DEF OneLoginInv, Visitor
  <2>5. \A c \in Conns : status'[c] \in {status[c], "closed"}
    BY <2>3, <1>t DEF TypeOK
  <2>6. \A c \in Conns : pc'[c] \notin LoginSteps => pc[c] \notin LoginSteps
    BY <2>2, <1>t
  <2>7. \A c \in Conns :
           status'[c] \in {"none", "connected"} /\ pc'[c] \notin LoginSteps => addr'[c] = StreamAddr
    BY <2>2, <2>5, <2>6
  <2> QED
    BY <2>2, <2>3, <2>4, <2>7
<1>14. ASSUME NEW t \in Threads, RemoveClient(t) PROVE RecordSteps'
  BY <1>14, <1>t DEF RemoveClient, TypeOK
<1>15. ASSUME NEW t \in Threads, FinishRemove(t) PROVE RecordSteps'
  BY <1>15, <1>t DEF FinishRemove, TypeOK
<1>16. ASSUME NEW w \in Workers, PickSession(w) PROVE RecordSteps'
  BY <1>16, <1>t DEF PickSession, TypeOK
<1>17. ASSUME NEW w \in Workers, Deliver(w) PROVE RecordSteps'
  <2>1. /\ w \in Threads /\ pc'[w] \in {"idle", "sweep", "close"} /\ UNCHANGED <<status, addr>>
        /\ \A t \in Threads \ {w} : pc'[t] = pc[t] /\ tgt'[t] = tgt[t]
    BY <1>17, <1>t DEF Deliver, TypeOK
  <2>2. pc[w] = "deliver"
    BY <1>17 DEF Deliver
  <2> QED
    BY <2>1, <2>2, <1>t
<1>18. CASE UNCHANGED vars
  BY <1>18 DEF vars
<1> QED
  BY <1>1, <1>2, <1>3, <1>4, <1>5, <1>6, <1>7, <1>8, <1>9, <1>10, <1>11,
     <1>12, <1>13, <1>14, <1>15, <1>16, <1>17, <1>18, <1>t
  DEF Next, Event, LoginStep, CloseStep, WorkerStep, HookStep

\* What a step does to the records: nothing, the login record of a session, or
\* its logout record.
RecordMove ==
    \/ balance' = balance /\ \A a \in Addrs : Lasting(a)' = Lasting(a)
    \/ \E b \in Addrs, c \in Conns :
          /\ c \notin Lasting(b)
          /\ balance' = [balance EXCEPT ![b] = @ + 1]
          /\ \A a \in Addrs : Lasting(a)' = IF a = b THEN Lasting(a) \cup {c} ELSE Lasting(a)
    \/ \E b \in Addrs, c \in Conns :
          /\ c \in Lasting(b)
          /\ balance' = [balance EXCEPT ![b] = @ - 1]
          /\ \A a \in Addrs : Lasting(a)' = IF a = b THEN Lasting(a) \ {c} ELSE Lasting(a)

\* A thread that is neither in a login nor removing a session, before the step
\* and after it, keeps the records if it leaves the sessions alone.
LEMMA KeepsRecords ==
  ASSUME NEW x \in Threads,
         pc[x] \notin LoginSteps \cup {"remove", "finish"},
         pc'[x] \notin LoginSteps \cup {"remove", "finish"},
         \A t \in Threads \ {x} : pc'[t] = pc[t] /\ tgt'[t] = tgt[t],
         UNCHANGED <<status, addr, balance>>
  PROVE  RecordMove
<1>1. ASSUME NEW c \in Conns PROVE Recorded(c)' <=> Recorded(c)
  BY DEF Recorded, Threads
<1> QED
  BY <1>1 DEF RecordMove, Lasting

\* So does a thread at work on the login of its own session.
LEMMA LoginKeepsRecords ==
  ASSUME NEW c \in Conns, pc[c] \in LoginSteps, pc'[c] \in LoginSteps,
         \A t \in Threads \ {c} : pc'[t] = pc[t], UNCHANGED <<tgt, balance>>,
         \A d \in Conns \ {c} : status'[d] = status[d] /\ addr'[d] = addr[d]
  PROVE  RecordMove
<1>1. ASSUME NEW d \in Conns, d # c PROVE Recorded(d)' <=> Recorded(d)
  BY <1>1 DEF Recorded, Threads, LoginSteps
<1>2. ~Recorded(c) /\ ~Recorded(c)'
  BY DEF Recorded
<1> QED
  BY <1>1, <1>2 DEF RecordMove, Lasting

LEMMA RecordMoves ==
  ASSUME OneLogin, ~SaveMayFail, TypeOK, RegistryInv, OneLoginInv, RecordSteps, [Next]_vars
  PROVE  RecordMove
<1> USE ThreadsAssumption, AddrsAssumption, ClientsAssumption
<1> USE DEF connVars, registryVars, threadVars, Goto, Return, CallClose, LoginSteps, CloseSteps
<1>t. /\ Conns \subseteq Threads /\ Workers \subseteq Threads /\ ~SaveMayFail
      /\ MaxLogins <= 1 /\ Hooks = {} /\ TypeOK /\ RegistryInv /\ OneLoginInv /\ RecordSteps
  BY DEF Threads, OneLogin
<1>1. ASSUME NEW c \in Conns, Open(c) PROVE RecordMove
  BY <1>1 DEF Open, RecordMove, Lasting, Recorded
<1>2. ASSUME NEW c \in Conns, StartStream(c) PROVE RecordMove
  <2>1. status[c] = "none" /\ status'[c] \in {"none", "connected"} /\ addr[c] = StreamAddr
    BY <1>2, <1>t DEF StartStream, CreateClientSession, RegistryInv, NoSessionInv, TypeOK
  <2>2. /\ \A d \in Conns \ {c} : status'[d] = status[d]
        /\ UNCHANGED <<pc, tgt, addr, balance>>
    BY <1>2, <1>t DEF StartStream, CreateClientSession, TypeOK
  <2>3. ASSUME NEW a \in Addrs PROVE Lasting(a)' = Lasting(a)
    BY <2>1, <2>2 DEF Lasting, Recorded
  <2> QED
    BY <2>2, <2>3 DEF RecordMove
<1>3. ASSUME NEW c \in Conns, NEW available \in BOOLEAN, Presence(c, available) PROVE RecordMove
  BY <1>3 DEF Presence, RecordMove, Lasting, Recorded
<1>4. ASSUME NEW c \in Conns, BeginLogin(c) PROVE RecordMove
  <2>0. logins[c] < MaxLogins /\ logins[c] \in Nat /\ pc[c] = "idle"
    BY <1>4, <1>t DEF BeginLogin, CanRun, TypeOK
  <2>1. addr[c] = StreamAddr
    BY <2>0, <1>t DEF OneLoginInv, OwnLogin
  <2>2. /\ pc'[c] = "address" /\ UNCHANGED <<status, addr, balance>>
        /\ \A t \in Threads \ {c} : pc'[t] = pc[t] /\ tgt'[t] = tgt[t]
    BY <1>4, <1>t DEF BeginLogin, TypeOK
  <2>3. ASSUME NEW d \in Conns, d # c PROVE Recorded(d)' <=> Recorded(d)
    BY <2>0, <2>2, <2>3, <1>t DEF Recorded
  <2>4. ASSUME NEW a \in Addrs PROVE Lasting(a)' = Lasting(a)
    BY <2>1, <2>2, <2>3 DEF Lasting
  <2> QED
    BY <2>2, <2>4 DEF RecordMove
<1>5. ASSUME NEW c \in Conns, SetAddress(c) PROVE RecordMove
  BY <1>5, <1>t, LoginKeepsRecords DEF SetAddress, TypeOK, OneLoginInv, OwnLogin
<1>6. ASSUME NEW c \in Conns, SetStatus(c) PROVE RecordMove
  BY <1>6, <1>t, LoginKeepsRecords DEF SetStatus, TypeOK, OneLoginInv, OwnLogin
<1>7. ASSUME NEW c \in Conns, LeavePreAuth(c) PROVE RecordMove
  BY <1>7, <1>t, LoginKeepsRecords DEF LeavePreAuth, TypeOK
<1>8. ASSUME NEW c \in Conns, PutSession(c) PROVE RecordMove
  <2>1. /\ pc[c] = "put" /\ tgt[c] = c /\ addr[c] \in Addrs /\ status[c] = "authenticated"
    BY <1>8, <1>t DEF PutSession, OneLoginInv, OwnLogin, RegistryInv, LoginInv, TypeOK
  <2>2. /\ pc'[c] \in {"idle", "sweep", "close"} /\ UNCHANGED <<status, addr>>
        /\ \A t \in Threads \ {c} : pc'[t] = pc[t] /\ tgt'[t] = tgt[t]
        /\ balance' = [balance EXCEPT ![addr[c]] = @ + 1]
    BY <1>8, <2>1, <1>t DEF PutSession, TypeOK
  <2>3. ASSUME NEW d \in Conns, d # c PROVE Recorded(d)' <=> Recorded(d)
    BY <2>1, <2>2, <2>3, <1>t DEF Recorded
  <2>4. ~Recorded(c) /\ Recorded(c)'
    BY <2>1, <2>2 DEF Recorded
  <2>5. ASSUME NEW a \in Addrs
        PROVE  Lasting(a)' = IF a = addr[c] THEN Lasting(a) \cup {c} ELSE Lasting(a)
    BY <2>2, <2>3, <2>4 DEF Lasting
  <2> QED
    <3>1. c \notin Lasting(addr[c])
      BY <2>4 DEF Lasting
    <3> QED
      BY <2>1, <2>2, <2>5, <3>1 DEF RecordMove
<1>9. ASSUME NEW c \in Conns, IoClose(c) PROVE RecordMove
  BY <1>9, <1>t, KeepsRecords DEF IoClose, CanRun, TypeOK
<1>10. ASSUME NEW c \in Conns, ReplyFails(c) PROVE RecordMove
  BY <1>10, <1>t, KeepsRecords DEF ReplyFails, CanRun, TypeOK
<1>11. ASSUME NEW c \in Conns, PeerGone(c) PROVE RecordMove
  BY <1>11, <1>t, KeepsRecords DEF PeerGone, CanRun, TypeOK
<1>12. ASSUME NEW c \in Conns, SocketClosed(c) PROVE RecordMove
  BY <1>12, <1>t, KeepsRecords DEF SocketClosed, CanRun, TypeOK
<1>13. ASSUME NEW t \in Threads, CloseSync(t) PROVE RecordMove
  <2>0. PICK s \in Conns : s = tgt[t]
    BY <1>13, <1>t DEF CloseSync, TypeOK
  <2>1. tgt[t] = s /\ pc[t] = "close" /\ UNCHANGED <<addr, balance>>
    BY <1>13, <2>0 DEF CloseSync
  <2>2. \A u \in Threads \ {t} : pc'[u] = pc[u] /\ tgt'[u] = tgt[u]
    BY <1>13, <1>t DEF CloseSync, TypeOK
  <2>3. CASE UNCHANGED status /\ pc'[t] \in {"idle", "sweep"}
    BY <2>1, <2>2, <2>3, KeepsRecords
  <2>4. CASE /\ status[s] \notin {"none", "closed"} /\ status' = [status EXCEPT ![s] = "closed"]
             /\ pc'[t] = "remove" /\ tgt'[t] = s
    <3>1. pc[s] \notin LoginSteps
      BY <2>1, <1>t DEF OneLoginInv, Visitor
    <3>2. pc'[s] \notin LoginSteps
      BY <3>1, <2>1, <2>2, <2>4, <1>t
    <3>3. ASSUME NEW d \in Conns, d # s PROVE Recorded(d)' <=> Recorded(d)
      BY <2>1, <2>2, <2>4, <3>3, <1>t DEF Recorded, TypeOK
    <3>4. Recorded(s)'
      BY <2>4, <3>2 DEF Recorded
    <3>5. status[s] = "authenticated" \/ addr[s] = StreamAddr
      BY <2>1, <2>4, <3>1, <1>t DEF RecordSteps, TypeOK
    <3>6. addr[s] # StreamAddr => Recorded(s)
      BY <3>1, <3>5 DEF Recorded
    <3>7. ASSUME NEW a \in Addrs PROVE Lasting(a)' = Lasting(a)
      BY <2>1, <3>3, <3>4, <3>6 DEF Lasting
    <3> QED
      BY <2>1, <3>7 DEF RecordMove
  <2> QED
    <3>1. \/ UNCHANGED status /\ pc'[t] \in {"idle", "sweep"}
          \/ /\ status[s] \notin {"none", "closed"} /\ status' = [status EXCEPT ![s] = "closed"]
             /\ pc'[t] = "remove" /\ tgt'[t] = s
      BY <1>13, <2>1, <1>t DEF CloseSync, IsClosed, TypeOK
    <3> QED
      BY <2>3, <2>4, <3>1
<1>14. ASSUME NEW t \in Threads, RemoveClient(t) PROVE RecordMove
  <2>1. /\ pc[t] = "remove" /\ pc'[t] = "finish" /\ UNCHANGED <<tgt, status, addr, balance>>
        /\ \A u \in Threads \ {t} : pc'[u] = pc[u]
    BY <1>14, <1>t DEF RemoveClient, TypeOK
  <2>2. ASSUME NEW c \in Conns PROVE Recorded(c)' <=> Recorded(c)
    BY <2>1, <1>t DEF Recorded
  <2> QED
    BY <2>1, <2>2 DEF RecordMove, Lasting
<1>15. ASSUME NEW t \in Threads, FinishRemove(t) PROVE RecordMove
  <2>0. PICK c \in Conns : c = tgt[t]
    BY <1>15, <1>t DEF FinishRemove, TypeOK
  <2>1. /\ pc[t] = "finish" /\ tgt[t] = c /\ UNCHANGED <<status, addr>>
        /\ pc'[t] \in {"idle", "sweep"} /\ tgt'[t] = NoConn
        /\ \A u \in Threads \ {t} : pc'[u] = pc[u] /\ tgt'[u] = tgt[u]
    BY <1>15, <2>0, <1>t DEF FinishRemove, TypeOK
  <2>2. balance' = IF addr[c] = StreamAddr THEN balance ELSE [balance EXCEPT ![addr[c]] = @ - 1]
    BY <1>15, <2>0, <1>t DEF FinishRemove
  <2>3. status[c] = "closed" /\ pc[c] \notin LoginSteps
    BY <2>1, <1>t DEF OneLoginInv, Visitor
  <2>4. \A u \in Threads \ {t} : pc[u] \in {"remove", "finish"} => tgt[u] # c
    BY <2>1, <1>t DEF RecordSteps
  <2>5. Recorded(c) /\ ~Recorded(c)'
    BY <2>1, <2>3, <2>4 DEF Recorded
  <2>6. ASSUME NEW d \in Conns, d # c PROVE Recorded(d)' <=> Recorded(d)
    BY <2>1, <2>6, <1>t DEF Recorded
  <2>7. ASSUME NEW a \in Addrs
        PROVE  Lasting(a)' = IF a = addr[c] THEN Lasting(a) \ {c} ELSE Lasting(a)
    BY <2>1, <2>5, <2>6 DEF Lasting
  <2>8. addr[c] # StreamAddr => addr[c] \in Addrs /\ c \in Lasting(addr[c])
    BY <2>1, <2>5, <1>t DEF Lasting, TypeOK
  <2> QED
    BY <2>1, <2>2, <2>7, <2>8 DEF RecordMove
<1>16. ASSUME NEW w \in Workers, PickSession(w) PROVE RecordMove
  BY <1>16, <1>t, KeepsRecords DEF PickSession, TypeOK
<1>17. ASSUME NEW w \in Workers, Deliver(w) PROVE RecordMove
  <2>1. /\ w \in Threads /\ pc[w] = "deliver" /\ pc'[w] \in {"idle", "sweep", "close"}
        /\ \A t \in Threads \ {w} : pc'[t] = pc[t] /\ tgt'[t] = tgt[t]
        /\ UNCHANGED <<status, addr, balance>>
    BY <1>17, <1>t DEF Deliver, TypeOK
  <2> QED
    BY <2>1, KeepsRecords
<1>18. CASE UNCHANGED vars
  BY <1>18 DEF vars, RecordMove, Lasting, Recorded
<1> QED
  BY <1>1, <1>2, <1>3, <1>4, <1>5, <1>6, <1>7, <1>8, <1>9, <1>10, <1>11,
     <1>12, <1>13, <1>14, <1>15, <1>16, <1>17, <1>18, <1>t
  DEF Next, Event, LoginStep, CloseStep, WorkerStep, HookStep

RecordInv ==
    /\ RecordSteps
    /\ \A a \in Addrs : IsFiniteSet(Lasting(a)) /\ balance[a] = Cardinality(Lasting(a))

LEMMA RecordInit == Init => RecordInv
<1> SUFFICES ASSUME Init PROVE RecordInv
  OBVIOUS
<1>1. \A a \in Addrs : Lasting(a) = {} /\ balance[a] = 0
  BY AddrsAssumption DEF Init, Lasting
<1> QED
  BY <1>1, RecordStepsInit, FS_EmptySet DEF RecordInv

LEMMA RecordStep ==
  ASSUME OneLogin, ~SaveMayFail, TypeOK, RegistryInv, OneLoginInv, RecordInv, [Next]_vars
  PROVE  RecordInv'
<1>1. RecordSteps' /\ RecordMove
  BY RecordStepsStep, RecordMoves DEF RecordInv
<1>2. \A a \in Addrs : /\ IsFiniteSet(Lasting(a)) /\ balance[a] = Cardinality(Lasting(a))
                       /\ Cardinality(Lasting(a)) \in Nat
  BY FS_CardinalityType DEF RecordInv
<1>3. balance \in [Addrs -> Int]
  BY DEF TypeOK
<1> SUFFICES ASSUME NEW a \in Addrs
             PROVE  IsFiniteSet(Lasting(a))' /\ balance'[a] = Cardinality(Lasting(a))'
  BY <1>1 DEF RecordInv
<1>4. CASE balance' = balance /\ Lasting(a)' = Lasting(a)
  BY <1>2, <1>4
<1>5. ASSUME NEW b \in Addrs, NEW c \in Conns, c \notin Lasting(b),
             balance' = [balance EXCEPT ![b] = @ + 1],
             Lasting(a)' = IF a = b THEN Lasting(a) \cup {c} ELSE Lasting(a)
      PROVE  IsFiniteSet(Lasting(a))' /\ balance'[a] = Cardinality(Lasting(a))'
  <2>1. CASE a = b
    <3>1. balance'[a] = balance[a] + 1
      BY <1>3, <1>5, <2>1
    <3>2. IsFiniteSet(Lasting(a))' /\ Cardinality(Lasting(a))' = Cardinality(Lasting(a)) + 1
      <4>1. c \notin Lasting(a) /\ IsFiniteSet(Lasting(a)) /\ Lasting(a)' = Lasting(a) \cup {c}
        BY <1>2, <1>5, <2>1
      <4> QED
        BY <4>1, FS_AddElement
    <3> QED
      BY <1>2, <3>1, <3>2
  <2>2. CASE a # b
    BY <1>2, <1>3, <1>5, <2>2
  <2> QED
    BY <2>1, <2>2
<1>6. ASSUME NEW b \in Addrs, NEW c \in Conns, c \in Lasting(b),
             balance' = [balance EXCEPT ![b] = @ - 1],
             Lasting(a)' = IF a = b THEN Lasting(a) \ {c} ELSE Lasting(a)
      PROVE  IsFiniteSet(Lasting(a))' /\ balance'[a] = Cardinality(Lasting(a))'
  <2>1. CASE a = b
    <3>1. balance'[a] = balance[a] - 1
      BY <1>3, <1>6, <2>1
    <3>2. IsFiniteSet(Lasting(a))' /\ Cardinality(Lasting(a))' = Cardinality(Lasting(a)) - 1
      <4>1. c \in Lasting(a) /\ IsFiniteSet(Lasting(a)) /\ Lasting(a)' = Lasting(a) \ {c}
        BY <1>2, <1>6, <2>1
      <4> QED
        BY <4>1, FS_RemoveElement
    <3> QED
      BY <1>2, <3>1, <3>2
  <2>2. CASE a # b
    BY <1>2, <1>3, <1>6, <2>2
  <2> QED
    BY <2>1, <2>2
<1> QED
  BY <1>1, <1>4, <1>5, <1>6 DEF RecordMove

\* For clients that log in once per stream, and records that are saved, neither
\* the counter nor the records lose a session that is there, however many clients
\* reconnect under one address.
THEOREM CountsStayBalanced == OneLogin /\ ~SaveMayFail => (Spec => []CountsBalance)
<1> SUFFICES ASSUME OneLogin, ~SaveMayFail PROVE Spec => []CountsBalance
  OBVIOUS
<1>1. TypeOK /\ RegistryInv /\ OneLoginInv /\ RecordInv /\ [Next]_vars => RecordInv'
  BY RecordStep
<1>2. TypeOK /\ OneLoginInv /\ RecordInv => RecordsBalance
  <2> SUFFICES ASSUME TypeOK, OneLoginInv, RecordInv, \A c \in Conns : Quiet(c), NEW a \in Addrs
               PROVE  balance[a] =
                        Cardinality({c \in Conns : status[c] = "authenticated" /\ addr[c] = a})
    BY DEF RecordsBalance
  <2>1. ASSUME NEW c \in Conns PROVE Recorded(c) <=> status[c] = "authenticated"
    <3>1. pc[c] \notin LoginSteps
      BY DEF Quiet, OneLoginInv, OwnLogin, LoginSteps, Threads
    <3> QED
      BY <3>1 DEF Recorded, Quiet
  <2>2. Lasting(a) = {c \in Conns : status[c] = "authenticated" /\ addr[c] = a}
    BY <2>1 DEF Lasting
  <2> QED
    BY <2>2 DEF RecordInv
<1>3. Spec => []CounterNotBelow
  BY CounterNeverBelow
<1> QED
  BY <1>1, <1>2, <1>3, RecordInit, OneLoginInvariant, PTL DEF Spec, CountsBalance
=============================================================================
