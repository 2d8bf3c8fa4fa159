------------------------------ MODULE Delivery ------------------------------
(***************************************************************************)
(* A push and the sessions it finds: PushTask.pushMsg walks the registered *)
(* sessions while streams log in, send presence packets and close.         *)
(*                                                                         *)
(* The steps of a login and of a close are those of module Sessions, told  *)
(* apart only where a push can see the difference.  A device logs in under *)
(* one address; a push names a device, and the code looks for its id       *)
(* anywhere in the address.                                                *)
(***************************************************************************)
EXTENDS FiniteSets

CONSTANTS
    Streams,    \* streams, and their ClientSessions
    Addrs,      \* full addresses
    AddrOf,     \* the address each stream logs in under
    Pushes,     \* pushes, and the pool threads that run them
    DeviceOf,   \* the device each push is for, by its address
    Contains,   \* the devices whose id the text of an address contains
    NoStream    \* null

StreamsAssumption ==
    /\ NoStream \notin Streams
    /\ AddrOf \in [Streams -> Addrs]
    /\ DeviceOf \in [Pushes -> Addrs]
    /\ Contains \in [Addrs -> SUBSET Addrs]
    /\ \A a \in Addrs : a \in Contains[a]

VARIABLES
    state,     \* how far each stream has come
    registry,  \* SessionManager.clientSessions
    avail,     \* whether each session's presence is available
    said,      \* the last presence packet of each stream
    status,    \* PushTask.status
    left,      \* addresses the iterator of a push has yet to come to
    found,     \* the session it has handed out
    online,    \* pushMsg: online
    written,   \* the streams each push was written to
    steady     \* history: sessions listed and available since the push began

streamVars == <<state, registry, avail, said>>
pushVars == <<status, left, found, online, written>>
vars == <<streamVars, pushVars, steady>>

Init ==
    /\ state = [c \in Streams |-> "new"]
    /\ registry = [a \in Addrs |-> NoStream]
    /\ avail = [c \in Streams |-> FALSE]
    /\ said = [c \in Streams |-> FALSE]
    /\ status = [p \in Pushes |-> "Waiting"]
    /\ left = [p \in Pushes |-> {}]
    /\ found = [p \in Pushes |-> NoStream]
    /\ online = [p \in Pushes |-> FALSE]
    /\ written = [p \in Pushes |-> {}]
    /\ steady = [p \in Pushes |-> {}]

Reachable(reg, av) == {c \in Streams : reg[AddrOf[c]] = c /\ av[c]}
\* What is still listed and available after a step of a stream.
Observe == steady' = [p \in Pushes |-> steady[p] \cap Reachable(registry', avail')]

-----------------------------------------------------------------------------
(* Streams. *)

\* SessionManager.addSession: in the place of a session with the same address.
Login(c) ==
    /\ state[c] = "new"
    /\ state' = [state EXCEPT ![c] = "open"]
    /\ registry' = [registry EXCEPT ![AddrOf[c]] = c]
    /\ UNCHANGED <<avail, said, pushVars>>
    /\ Observe

\* PresenceUpdateHandler.process: on the session that has the address now.
Presence(c, available) ==
    LET s == registry[AddrOf[c]] IN
    /\ state[c] # "new" /\ (available => state[c] = "open")
    /\ s # NoStream
    /\ available => state[s] = "open"
    /\ avail' = [avail EXCEPT ![s] = available]
    /\ said' = [said EXCEPT ![c] = available]
    /\ UNCHANGED <<state, registry, pushVars>>
    /\ Observe

\* Connection.close: the status first,
Close(c) ==
    /\ state[c] = "open"
    /\ state' = [state EXCEPT ![c] = "closed"]
    /\ UNCHANGED <<registry, avail, said, pushVars, steady>>

\* then the close listener: whatever is under the session's address.
Unregister(c) ==
    /\ state[c] = "closed"
    /\ state' = [state EXCEPT ![c] = "gone"]
    /\ registry' = [registry EXCEPT ![AddrOf[c]] = NoStream]
    /\ UNCHANGED <<avail, said, pushVars>>
    /\ Observe

-----------------------------------------------------------------------------
(* Pushes.  The iterator of a ConcurrentHashMap comes to every address once, *)
(* and shows what is there, or is not, by then.                              *)

StartPush(p) ==
    /\ status[p] = "Waiting"
    /\ status' = [status EXCEPT ![p] = "Sending"]
    /\ left' = [left EXCEPT ![p] = Addrs]
    /\ steady' = [steady EXCEPT ![p] = Reachable(registry, avail)]
    /\ UNCHANGED <<streamVars, found, online, written>>

NextSession(p) ==
    /\ status[p] = "Sending" /\ found[p] = NoStream
    /\ \E a \in left[p] :
          /\ found' = [found EXCEPT ![p] = registry[a]]
          /\ left' = [left EXCEPT ![p] = @ \ {a}]
    /\ UNCHANGED <<streamVars, status, online, written, steady>>

Matches(p, c) == avail[c] /\ DeviceOf[p] \in Contains[AddrOf[c]]

\* Fault: the last session alone decides.
CheckSession_Last(p) ==
    LET c == found[p] IN
    /\ status[p] = "Sending" /\ c # NoStream
    /\ online' = [online EXCEPT ![p] = Matches(p, c)]
    /\ written' = IF Matches(p, c) /\ state[c] = "open"
                  THEN [written EXCEPT ![p] = @ \cup {c}] ELSE written
    /\ found' = [found EXCEPT ![p] = NoStream]
    /\ UNCHANGED <<streamVars, status, left, steady>>

\* A session that matches makes the device online, whether or not the packet can
\* be written: deliver does nothing for a closed one.
CheckSession(p) ==
    LET c == found[p] IN
    /\ status[p] = "Sending" /\ c # NoStream
    /\ IF Matches(p, c)
       THEN /\ online' = [online EXCEPT ![p] = TRUE]
            /\ written' = IF state[c] = "open"
                          THEN [written EXCEPT ![p] = @ \cup {c}] ELSE written
       ELSE UNCHANGED <<online, written>>
    /\ found' = [found EXCEPT ![p] = NoStream]
    /\ UNCHANGED <<streamVars, status, left, steady>>

EndPush(p) ==
    /\ status[p] = "Sending" /\ left[p] = {} /\ found[p] = NoStream
    /\ status' = [status EXCEPT ![p] = IF online[p] THEN "Sent" ELSE "Offline"]
    /\ UNCHANGED <<streamVars, left, found, online, written, steady>>

-----------------------------------------------------------------------------
StreamStep(c) ==
    \/ Login(c) \/ Close(c) \/ Unregister(c)
    \/ \E available \in BOOLEAN : Presence(c, available)
PushStep(p) == StartPush(p) \/ NextSession(p) \/ CheckSession(p) \/ EndPush(p)
Next == (\E c \in Streams : StreamStep(c)) \/ (\E p \in Pushes : PushStep(p))
Spec == Init /\ [][Next]_vars

-----------------------------------------------------------------------------
TypeOK ==
    /\ state \in [Streams -> {"new", "open", "closed", "gone"}]
    /\ \A a \in Addrs : registry[a] # NoStream =>
          AddrOf[registry[a]] = a /\ state[registry[a]] \in {"open", "closed"}
    /\ avail \in [Streams -> BOOLEAN] /\ said \in [Streams -> BOOLEAN]
    /\ status \in [Pushes -> {"Waiting", "Sending", "Sent", "Offline"}]
    /\ left \in [Pushes -> SUBSET Addrs]
    /\ found \in [Pushes -> Streams \cup {NoStream}]
    /\ online \in [Pushes -> BOOLEAN]
    /\ written \in [Pushes -> SUBSET Streams] /\ steady \in [Pushes -> SUBSET Streams]

\* A push is not answered "offline" while its device has a session that was
\* listed and available all along, however the others come and go meanwhile.
OfflineIsTrue ==
    \A p \in Pushes : status[p] = "Offline" =>
        \A c \in steady[p] : DeviceOf[p] \notin Contains[AddrOf[c]]

\* A device with one stream so far has the presence it announced last, whatever
\* other devices announce meanwhile.
PresenceOfDevice ==
    \A c \in Streams :
        (\A s \in Streams \ {c} : AddrOf[s] = AddrOf[c] => state[s] = "new") => avail[c] = said[c]

=============================================================================
