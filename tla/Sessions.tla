------------------------------ MODULE Sessions ------------------------------
(***************************************************************************)
(* The life of a client connection in the XMPP server: the registries of   *)
(* SessionManager, the status of each ClientSession, and the threads that  *)
(* run Connection.close() and ClientSession.setAuthToken() concurrently.   *)
(*                                                                         *)
(* A connection, its Connection object, its StanzaHandler and the          *)
(* ClientSession it may own are one element of Conns: the code pairs them  *)
(* one to one and never reuses any of them.  The events of one connection  *)
(* are handled one after the other (the ordered executor of mina.xml), so  *)
(* its I/O thread carries the connection's name.  Workers are the threads  *)
(* that write to sessions they found in the registry (push tasks, console  *)
(* notifications); Hooks holds the thread that shuts the server down.      *)
(*                                                                         *)
(* A step is what one thread does between two points where another thread  *)
(* can see or change the session or a registry.                            *)
(***************************************************************************)
EXTENDS Integers, FiniteSets

CONSTANTS
    Conns,        \* connections, and the I/O thread that serves each of them
    Workers,      \* threads that deliver packets to registered sessions
    Hooks,        \* shutdown threads: none, or one
    Addrs,        \* full addresses, user and resource
    StreamAddr,   \* the address of a session before login: its own stream id
    NoConn,       \* null
    Claims,       \* addresses each connection's client has the password for
    MaxLogins,    \* bound: auth requests sent on one stream
    WriteMayFail, \* whether writing a packet may throw
    SaveMayFail   \* whether saving an online record may throw

Threads == Conns \cup Workers \cup Hooks

ASSUME ThreadsAssumption ==
    /\ Conns \cap Workers = {}
    /\ Conns \cap Hooks = {}
    /\ Workers \cap Hooks = {}
    /\ NoConn \notin Conns
ASSUME AddrsAssumption == StreamAddr \notin Addrs
ASSUME ClientsAssumption ==
    /\ Claims \in [Conns -> SUBSET Addrs]
    /\ MaxLogins \in Nat
    /\ WriteMayFail \in BOOLEAN
    /\ SaveMayFail \in BOOLEAN

VARIABLES
    sock,            \* the IoSession of each connection
    streamed,        \* StanzaHandler.sessionCreated
    status,          \* Session.status, "none" while there is no session
    addr,            \* Session.address
    avail,           \* whether ClientSession.presence is available
    preAuth,         \* SessionManager.preAuthSessions
    clientSessions,  \* SessionManager.clientSessions
    counter,         \* SessionManager.connectionsCounter
    balance,         \* login records minus logout records of each address
    logins,          \* auth requests handled on each stream
    pc, tgt, key, hit,  \* per thread: step, session, address, client removed
    doomed           \* sessions the shutdown thread still has to close

connVars == <<sock, streamed, status, addr, avail, logins>>
registryVars == <<preAuth, clientSessions, counter, balance>>
threadVars == <<pc, tgt, key, hit, doomed>>
vars == <<connVars, registryVars, threadVars>>

LoginSteps == {"address", "status", "unpre", "put"}
CloseSteps == {"close", "remove", "finish"}
HookSteps == {"snapshot", "sweep", "over"}

TypeOK ==
    /\ sock \in [Conns -> {"fresh", "open", "closing", "down"}]
    /\ streamed \in [Conns -> BOOLEAN]
    /\ status \in [Conns -> {"none", "connected", "authenticated", "closed"}]
    /\ addr \in [Conns -> Addrs \cup {StreamAddr}]
    /\ avail \in [Conns -> BOOLEAN]
    /\ preAuth \subseteq Conns
    /\ clientSessions \in [Addrs -> Conns \cup {NoConn}]
    /\ counter \in Int
    /\ balance \in [Addrs -> Int]
    /\ logins \in [Conns -> Nat]
    /\ pc \in [Threads -> {"idle", "deliver"} \cup LoginSteps
                              \cup CloseSteps \cup HookSteps]
    /\ tgt \in [Threads -> Conns \cup {NoConn}]
    /\ key \in [Threads -> Addrs \cup {StreamAddr}]
    /\ hit \in [Threads -> BOOLEAN]
    /\ doomed \subseteq Conns
    /\ \A t \in Threads :
          pc[t] \in {"deliver"} \cup LoginSteps \cup CloseSteps => tgt[t] \in Conns

Init ==
    /\ sock = [c \in Conns |-> "fresh"]
    /\ streamed = [c \in Conns |-> FALSE]
    /\ status = [c \in Conns |-> "none"]
    /\ addr = [c \in Conns |-> StreamAddr]
    /\ avail = [c \in Conns |-> FALSE]
    /\ preAuth = {}
    /\ clientSessions = [a \in Addrs |-> NoConn]
    /\ counter = 0
    /\ balance = [a \in Addrs |-> 0]
    /\ logins = [c \in Conns |-> 0]
    /\ pc = [t \in Threads |-> "idle"]
    /\ tgt = [t \in Threads |-> NoConn]
    /\ key = [t \in Threads |-> StreamAddr]
    /\ hit = [t \in Threads |-> FALSE]
    /\ doomed = {}

-----------------------------------------------------------------------------
(* Helpers. *)

Registered == {c \in Conns : \E a \in Addrs : clientSessions[a] = c}

\* SessionManager.getSession(JID), called with the address of connection c.
Lookup(c) ==
    IF addr[c] = StreamAddr
    THEN IF c \in preAuth THEN c ELSE NoConn
    ELSE clientSessions[addr[c]]

\* Connection.isClosed(); the flag of a connection without a session is set
\* together with the close of its socket.
IsClosed(c) ==
    IF status[c] = "none" THEN sock[c] \in {"closing", "down"}
                          ELSE status[c] = "closed"

\* The I/O thread of c takes its next event; what had arrived before the
\* socket was closed is still handled.
CanRun(c) == pc[c] = "idle" /\ sock[c] \in {"open", "closing"}

\* A thread leaves close(): the shutdown thread goes on to its next session.
Return(t) ==
    /\ pc' = [pc EXCEPT ![t] = IF t \in Hooks THEN "sweep" ELSE "idle"]
    /\ tgt' = [tgt EXCEPT ![t] = NoConn]
    /\ key' = [key EXCEPT ![t] = StreamAddr]
    /\ hit' = [hit EXCEPT ![t] = FALSE]

\* A thread calls Connection.close() on connection c.
CallClose(t, c) ==
    /\ pc' = [pc EXCEPT ![t] = "close"]
    /\ tgt' = [tgt EXCEPT ![t] = c]

Goto(t, step) == pc' = [pc EXCEPT ![t] = step]

-----------------------------------------------------------------------------
(* The events of a connection, on its I/O thread. *)

\* sessionOpened: the Connection and its StanzaHandler are made.
Open(c) ==
    /\ sock[c] = "fresh"
    /\ sock' = [sock EXCEPT ![c] = "open"]
    /\ UNCHANGED <<streamed, status, addr, avail, logins, registryVars, threadVars>>

\* Fault: the new session is counted but not put into preAuthSessions.
CreateClientSession_NotPut(c) ==
    /\ status' = [status EXCEPT ![c] = "connected"]
    /\ counter' = counter + 1
    /\ UNCHANGED preAuth

\* SessionManager.createClientSession.
CreateClientSession(c) ==
    /\ status' = [status EXCEPT ![c] = "connected"]
    /\ preAuth' = preAuth \cup {c}
    /\ counter' = counter + 1

\* The first stream header.  The flag is set before the session exists, and
\* stays set if the namespace is not jabber:client and no session is made.
StartStream(c) ==
    /\ CanRun(c) /\ ~streamed[c]
    /\ streamed' = [streamed EXCEPT ![c] = TRUE]
    /\ \/ CreateClientSession(c)
       \/ UNCHANGED <<status, preAuth, counter>>
    /\ UNCHANGED <<sock, addr, avail, logins, clientSessions, balance, threadVars>>

\* A presence packet acts on the session that owns the sender's address now.
Presence(c, available) ==
    LET s == Lookup(c) IN
    /\ CanRun(c) /\ status[c] # "none"
    /\ available => status[c] # "closed"
    /\ s # NoConn
    /\ status[s] # "connected"
    /\ available => status[s] # "closed"
    /\ avail' = [avail EXCEPT ![s] = available]
    /\ UNCHANGED <<sock, streamed, status, addr, logins, registryVars, threadVars>>

\* Fault: the handler does not check that it has found a session.
BeginLogin_Unchecked(c) ==
    /\ CanRun(c) /\ status[c] # "none"
    /\ logins[c] < MaxLogins
    /\ \E a \in Claims[c] : key' = [key EXCEPT ![c] = a]
    /\ tgt' = [tgt EXCEPT ![c] = Lookup(c)]
    /\ Goto(c, "address")
    /\ logins' = [logins EXCEPT ![c] = @ + 1]
    /\ UNCHANGED <<sock, streamed, status, addr, avail, registryVars, hit, doomed>>

\* An auth request whose password is right: the handler goes on with the
\* session found under the sender's address, logged in or not.
BeginLogin(c) ==
    /\ CanRun(c) /\ status[c] # "none"
    /\ logins[c] < MaxLogins
    /\ Lookup(c) # NoConn
    /\ \E a \in Claims[c] : key' = [key EXCEPT ![c] = a]
    /\ tgt' = [tgt EXCEPT ![c] = Lookup(c)]
    /\ Goto(c, "address")
    /\ logins' = [logins EXCEPT ![c] = @ + 1]
    /\ UNCHANGED <<sock, streamed, status, addr, avail, registryVars, hit, doomed>>

\* ClientSession.setAuthToken: the address, then the status, then addSession.
SetAddress(c) ==
    /\ pc[c] = "address"
    /\ addr' = [addr EXCEPT ![tgt[c]] = key[c]]
    /\ Goto(c, "status")
    /\ UNCHANGED <<sock, streamed, status, avail, logins, registryVars, tgt, key, hit, doomed>>

\* Fault: the status is not set.
SetStatus_Forgotten(c) ==
    /\ pc[c] = "status"
    /\ Goto(c, "unpre")
    /\ UNCHANGED <<connVars, registryVars, tgt, key, hit, doomed>>

SetStatus(c) ==
    /\ pc[c] = "status"
    /\ status' = [status EXCEPT ![tgt[c]] = "authenticated"]
    /\ Goto(c, "unpre")
    /\ UNCHANGED <<sock, streamed, addr, avail, logins, registryVars, tgt, key, hit, doomed>>

\* Fault: the session stays in preAuthSessions.
LeavePreAuth_Kept(c) ==
    /\ pc[c] = "unpre"
    /\ Goto(c, "put")
    /\ UNCHANGED <<connVars, registryVars, tgt, key, hit, doomed>>

\* SessionManager.addSession: out of one registry, into the other.
LeavePreAuth(c) ==
    /\ pc[c] = "unpre"
    /\ preAuth' = preAuth \ {tgt[c]}
    /\ Goto(c, "put")
    /\ UNCHANGED <<connVars, clientSessions, counter, balance, tgt, key, hit, doomed>>

\* The put, the login record and the reply, whose failure closes the session.
\* A record that cannot be saved leaves the session registered.
PutSession(c) ==
    LET s == tgt[c] IN
    /\ pc[c] = "put"
    /\ clientSessions' = [clientSessions EXCEPT ![addr[s]] = s]
    /\ \/ balance' = [balance EXCEPT ![addr[s]] = @ + 1]
       \/ SaveMayFail /\ UNCHANGED balance
    /\ \/ Return(c)
       \/ WriteMayFail /\ ~IsClosed(s) /\ Goto(c, "close") /\ UNCHANGED <<tgt, key, hit>>
    /\ UNCHANGED <<connVars, preAuth, counter, doomed>>

\* The end of the stream, an idle timeout, a bad stanza or an exception.  A
\* second close() of a closed connection does nothing and is left out.
IoClose(c) ==
    /\ CanRun(c) /\ ~IsClosed(c)
    /\ CallClose(c, c)
    /\ UNCHANGED <<connVars, registryVars, key, hit, doomed>>

\* A reply that cannot be written closes the session that owns the address.
ReplyFails(c) ==
    /\ CanRun(c) /\ status[c] # "none" /\ WriteMayFail
    /\ Lookup(c) # NoConn /\ ~IsClosed(Lookup(c))
    /\ CallClose(c, Lookup(c))
    /\ UNCHANGED <<connVars, registryVars, key, hit, doomed>>

\* Fault: only a close by the server is passed on to the Connection.
PeerGone_NotClosed(c) ==
    /\ CanRun(c) /\ sock[c] = "open"
    /\ sock' = [sock EXCEPT ![c] = "down"]
    /\ UNCHANGED <<streamed, status, addr, avail, logins, registryVars, threadVars>>

\* The client is gone, without the server having closed the socket.
PeerGone(c) ==
    /\ CanRun(c) /\ sock[c] = "open"
    /\ sock' = [sock EXCEPT ![c] = "down"]
    /\ CallClose(c, c)
    /\ UNCHANGED <<streamed, status, addr, avail, logins, registryVars, key, hit, doomed>>

\* Fault: a socket that the server closed itself needs no further close().
SocketClosed_NotClosed(c) ==
    /\ CanRun(c) /\ sock[c] = "closing"
    /\ sock' = [sock EXCEPT ![c] = "down"]
    /\ UNCHANGED <<streamed, status, addr, avail, logins, registryVars, threadVars>>

\* sessionClosed for a socket the server closed, the last event of c.
SocketClosed(c) ==
    /\ CanRun(c) /\ sock[c] = "closing"
    /\ sock' = [sock EXCEPT ![c] = "down"]
    /\ CallClose(c, c)
    /\ UNCHANGED <<streamed, status, addr, avail, logins, registryVars, key, hit, doomed>>

-----------------------------------------------------------------------------
(* Connection.close(), on any thread. *)

\* Fault: close() does not check whether the connection is closed already.
CloseSync_Unchecked(t) ==
    LET c == tgt[t] IN
    /\ pc[t] = "close"
    /\ sock' = [sock EXCEPT ![c] = IF @ = "open" THEN "closing" ELSE @]
    /\ IF status[c] = "none"
       THEN Return(t) /\ UNCHANGED status
       ELSE /\ status' = [status EXCEPT ![c] = "closed"]
            /\ Goto(t, "remove")
            /\ UNCHANGED <<tgt, key, hit>>
    /\ UNCHANGED <<streamed, addr, avail, logins, registryVars, doomed>>

\* The synchronized block: only the thread that finds the connection open
\* closes the socket and goes on to the close listener.
CloseSync(t) ==
    LET c == tgt[t] IN
    /\ pc[t] = "close"
    /\ IF IsClosed(c)
       THEN /\ Return(t)
            /\ UNCHANGED <<sock, status>>
       ELSE /\ sock' = [sock EXCEPT ![c] = IF @ = "open" THEN "closing" ELSE @]
            /\ IF status[c] = "none"
               THEN Return(t) /\ UNCHANGED status
               ELSE /\ status' = [status EXCEPT ![c] = "closed"]
                    /\ Goto(t, "remove")
                    /\ UNCHANGED <<tgt, key, hit>>
    /\ UNCHANGED <<streamed, addr, avail, logins, registryVars, doomed>>

\* Fault: the session is removed under its stream id only.
RemoveClient_ByStream(t) ==
    /\ pc[t] = "remove"
    /\ key' = [key EXCEPT ![t] = StreamAddr]
    /\ Goto(t, "finish")
    /\ UNCHANGED <<connVars, registryVars, tgt, hit, doomed>>

\* SessionManager.removeSession: whatever is under the session's address.
RemoveClient(t) ==
    LET a == addr[tgt[t]] IN
    /\ pc[t] = "remove"
    /\ key' = [key EXCEPT ![t] = a]
    /\ IF a = StreamAddr
       THEN UNCHANGED <<clientSessions, hit>>
       ELSE /\ hit' = [hit EXCEPT ![t] = clientSessions[a] # NoConn]
            /\ clientSessions' = [clientSessions EXCEPT ![a] = NoConn]
    /\ Goto(t, "finish")
    /\ UNCHANGED <<connVars, preAuth, counter, balance, tgt, doomed>>

\* Fault: preAuthSessions is left alone.
FinishRemove_PreAuthKept(t) ==
    LET c == tgt[t] IN
    /\ pc[t] = "finish"
    /\ balance' = IF addr[c] = StreamAddr THEN balance ELSE [balance EXCEPT ![addr[c]] = @ - 1]
    /\ counter' = IF hit[t] THEN counter - 1 ELSE counter
    /\ Return(t)
    /\ UNCHANGED <<connVars, preAuth, clientSessions, doomed>>

\* Fault: a session that never logged in is not counted out.
FinishRemove_ClientsOnly(t) ==
    LET c == tgt[t] IN
    /\ pc[t] = "finish"
    /\ preAuth' = IF key[t] = StreamAddr THEN preAuth \ {c} ELSE preAuth
    /\ balance' = IF addr[c] = StreamAddr THEN balance ELSE [balance EXCEPT ![addr[c]] = @ - 1]
    /\ counter' = IF hit[t] THEN counter - 1 ELSE counter
    /\ Return(t)
    /\ UNCHANGED <<connVars, clientSessions, doomed>>

\* The other registry, the logout record and the counter.  A record that
\* cannot be saved throws past the decrement.
FinishRemove(t) ==
    LET c == tgt[t]
        inPreAuth == key[t] = StreamAddr /\ c \in preAuth IN
    /\ pc[t] = "finish"
    /\ preAuth' = IF inPreAuth THEN preAuth \ {c} ELSE preAuth
    /\ \/ /\ balance' = IF addr[c] = StreamAddr THEN balance
                        ELSE [balance EXCEPT ![addr[c]] = @ - 1]
          /\ counter' = IF hit[t] \/ inPreAuth THEN counter - 1 ELSE counter
       \/ /\ SaveMayFail /\ addr[c] # StreamAddr
          /\ UNCHANGED <<balance, counter>>
    /\ Return(t)
    /\ UNCHANGED <<connVars, clientSessions, doomed>>

-----------------------------------------------------------------------------
(* Threads that write to sessions found in the registry. *)

\* A push task, sendBroadcast and sendNotifcationToUser take a session they
\* find registered and available.
PickSession(w) ==
    /\ pc[w] = "idle"
    /\ \E c \in Registered : avail[c] /\ tgt' = [tgt EXCEPT ![w] = c]
    /\ Goto(w, "deliver")
    /\ UNCHANGED <<connVars, registryVars, key, hit, doomed>>

\* Fault: a failed write takes the session out without closing it.
Deliver_RemovesOpen(w) ==
    /\ pc[w] = "deliver"
    /\ \/ Return(w)
       \/ WriteMayFail /\ ~IsClosed(tgt[w]) /\ Goto(w, "remove") /\ UNCHANGED <<tgt, key, hit>>
    /\ UNCHANGED <<connVars, registryVars, doomed>>

\* Session.deliver: nothing for a closed session, and close() if it fails.
Deliver(w) ==
    /\ pc[w] = "deliver"
    /\ \/ Return(w)
       \/ WriteMayFail /\ ~IsClosed(tgt[w]) /\ Goto(w, "close") /\ UNCHANGED <<tgt, key, hit>>
    /\ UNCHANGED <<connVars, registryVars, doomed>>

-----------------------------------------------------------------------------
(* SessionManager.closeAllSessions, on the shutdown thread. *)

CollectPreAuth(h) ==
    /\ pc[h] = "idle"
    /\ doomed' = preAuth
    /\ Goto(h, "snapshot")
    /\ UNCHANGED <<connVars, registryVars, tgt, key, hit>>

CollectClients(h) ==
    /\ pc[h] = "snapshot"
    /\ doomed' = doomed \cup Registered
    /\ Goto(h, "sweep")
    /\ UNCHANGED <<connVars, registryVars, tgt, key, hit>>

CloseNext(h) ==
    /\ pc[h] = "sweep"
    /\ \E c \in doomed : CallClose(h, c) /\ doomed' = doomed \ {c}
    /\ UNCHANGED <<connVars, registryVars, key, hit>>

CloseOver(h) ==
    /\ pc[h] = "sweep" /\ doomed = {}
    /\ Goto(h, "over")
    /\ UNCHANGED <<connVars, registryVars, tgt, key, hit, doomed>>

-----------------------------------------------------------------------------
LoginStep(c) == SetAddress(c) \/ SetStatus(c) \/ LeavePreAuth(c) \/ PutSession(c)
CloseStep(t) == CloseSync(t) \/ RemoveClient(t) \/ FinishRemove(t)
Event(c) ==
    \/ Open(c)
    \/ StartStream(c)
    \/ \E available \in BOOLEAN : Presence(c, available)
    \/ BeginLogin(c)
    \/ IoClose(c)
    \/ ReplyFails(c)
    \/ PeerGone(c)
    \/ SocketClosed(c)
WorkerStep(w) == PickSession(w) \/ Deliver(w)
HookStep(h) == CollectPreAuth(h) \/ CollectClients(h) \/ CloseNext(h) \/ CloseOver(h)

Next ==
    \/ \E c \in Conns : Event(c) \/ LoginStep(c)
    \/ \E t \in Threads : CloseStep(t)
    \/ \E w \in Workers : WorkerStep(w)
    \/ \E h \in Hooks : HookStep(h)

Spec == Init /\ [][Next]_vars

\* A thread inside a method goes on, and the I/O layer reports the end of a
\* socket the server has closed.  Nothing obliges a client to do anything.
Fairness ==
    /\ \A c \in Conns : WF_vars(LoginStep(c)) /\ WF_vars(SocketClosed(c))
    /\ \A t \in Threads : WF_vars(CloseStep(t))
    /\ \A w \in Workers : WF_vars(Deliver(w))

FairSpec == Spec /\ Fairness
-----------------------------------------------------------------------------
(* What the registries promise.  Which clients a property is checked for is *)
(* said in README.md: every client (OneRegistry to PreAuthDrains), clients  *)
(* that log in once per stream (NobodyLingers to CleanedUp), and such       *)
(* clients with an address of their own (AllAuthenticatedListed,            *)
(* CounterExact).                                                           *)

\* No thread is logging c in or closing it.
Quiet(c) == \A t \in Threads : tgt[t] = c => pc[t] = "deliver"

\* A session is never in both registries of SessionManager, although addSession
\* and removeSession update them one after the other and without a lock.
OneRegistry == \A c \in Registered : c \notin preAuth

\* getSessions() and getSession(JID) never hand out a session that has not
\* logged in: it got its address and its status before addSession.
RegisteredLoggedIn ==
    \A c \in Registered : status[c] \in {"authenticated", "closed"} /\ addr[c] # StreamAddr

\* An open session that has not logged in is in preAuthSessions, where its next
\* packet and the shutdown look for it.
PendingFindable == \A c \in Conns : status[c] = "connected" => c \in preAuth

\* A session that is no longer waiting for its login does not stay in
\* preAuthSessions: some thread is still going to take it out.
Leaving(c) ==
    \E t \in Threads :
        /\ tgt[t] = c
        /\ \/ pc[t] \in {"address", "status", "unpre", "remove"}
           \/ pc[t] = "finish" /\ key[t] = StreamAddr
PreAuthDrains == \A c \in preAuth : status[c] = "connected" \/ Leaving(c)

\* No closed session lingers in clientSessions once the threads at work on it
\* are through: its close listener removed it, or a later login replaced it.
NobodyLingers == \A c \in Registered : Quiet(c) => status[c] = "authenticated"

\* No session outlives its socket, even when a login overwrites the closed
\* status another thread has just set: the end of the socket closes it again.
NoneOutlivesSocket ==
    \A c \in Conns : sock[c] = "down" /\ Quiet(c) => status[c] \in {"none", "closed"}

\* connectionsCounter may drift above the sessions in the registries (the second
\* login under an address hides the first), never below them.
CounterNotBelow ==
    (\A c \in Conns : Quiet(c)) =>
        counter >= Cardinality(preAuth) + Cardinality(Registered)

\* The online records balance for every address, also when logins under it
\* overlap: one login without a logout for each open session.
RecordsBalance ==
    (\A c \in Conns : Quiet(c)) =>
        \A a \in Addrs :
            balance[a] = Cardinality({c \in Conns : status[c] = "authenticated" /\ addr[c] = a})

\* So neither the counter nor the records lose a session that is there.
CountsBalance == CounterNotBelow /\ RecordsBalance

\* A connection that went down leaves both registries in the end.
CleanedUp == \A c \in Conns : []<>(sock[c] = "down" => c \notin preAuth \cup Registered)

\* getSessions() lists every authenticated session (what its comment says).
AllAuthenticatedListed ==
    \A c \in Conns : status[c] = "authenticated" /\ Quiet(c) => c \in Registered

\* connectionsCounter is the number of sessions in the registries.
CounterExact ==
    (\A c \in Conns : Quiet(c)) =>
        counter = Cardinality(preAuth) + Cardinality(Registered)
=============================================================================
