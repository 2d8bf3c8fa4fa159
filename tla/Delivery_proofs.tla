-------------------------- MODULE Delivery_proofs --------------------------
(***************************************************************************)
(* For any number of streams, addresses and pushes, and whatever ids the   *)
(* text of an address contains: a push answered "offline" found none of    *)
(* the sessions its device had all along, and a device with one stream has *)
(* the presence it announced.                                              *)
(***************************************************************************)
EXTENDS Delivery, TLAPS

States == {"new", "open", "closed", "gone"}

Typed ==
    /\ state \in [Streams -> States]
    /\ registry \in [Addrs -> Streams \cup {NoStream}]
    /\ avail \in [Streams -> BOOLEAN] /\ said \in [Streams -> BOOLEAN]
    /\ status \in [Pushes -> {"Waiting", "Sending", "Sent", "Offline"}]
    /\ left \in [Pushes -> SUBSET Addrs]
    /\ found \in [Pushes -> Streams \cup {NoStream}]
    /\ online \in [Pushes -> BOOLEAN]
    /\ written \in [Pushes -> SUBSET Streams] /\ steady \in [Pushes -> SUBSET Streams]

\* A stream is listed under its own address, from its login to its close.
Listed(a) ==
    registry[a] # NoStream =>
        AddrOf[registry[a]] = a /\ state[registry[a]] \in {"open", "closed"}

For(p, c) == DeviceOf[p] \in Contains[AddrOf[c]]

\* While a push looks for its device, a session the device had all along is
\* still to come, is the one handed out, or has made the device online.
Looking(p) ==
    /\ steady[p] \subseteq Reachable(registry, avail)
    /\ status[p] = "Waiting" => steady[p] = {}
    /\ status[p] = "Sending" =>
          \A c \in steady[p] : For(p, c) => AddrOf[c] \in left[p] \/ found[p] = c \/ online[p]
    /\ status[p] = "Offline" => \A c \in steady[p] : ~For(p, c)

Alone(c) == \A s \in Streams \ {c} : AddrOf[s] = AddrOf[c] => state[s] = "new"
Announced(c) == Alone(c) => avail[c] = said[c]

IInv ==
    /\ Typed
    /\ \A a \in Addrs : Listed(a)
    /\ \A p \in Pushes : Looking(p)
    /\ \A c \in Streams : Announced(c)

-----------------------------------------------------------------------------
LEMMA InvInit ==
  ASSUME StreamsAssumption, Init
  PROVE  IInv
<1>1. Typed
  BY DEF StreamsAssumption, Init, Typed, States
<1>2. \A a \in Addrs : Listed(a)
  BY DEF Init, Listed
<1>3. \A p \in Pushes : Looking(p)
  BY DEF Init, Looking
<1>4. \A c \in Streams : Announced(c)
  BY DEF Init, Announced
<1> QED
  BY <1>1, <1>2, <1>3, <1>4 DEF IInv

\* A step of a stream takes no session away from a push that had it all along
\* and has it still.
LEMMA StreamKeepsLooking ==
  ASSUME StreamsAssumption, IInv, UNCHANGED pushVars, Observe, NEW p \in Pushes
  PROVE  Looking(p)'
<1>1. /\ steady'[p] = steady[p] \cap Reachable(registry', avail')
      /\ status' = status /\ left' = left /\ found' = found /\ online' = online
  BY DEF Observe, pushVars
<1>2. Looking(p)
  BY DEF IInv
<1> QED
  BY <1>1, <1>2 DEF Looking, For, Reachable

LEMMA LoginStep ==
  ASSUME StreamsAssumption, IInv, NEW c \in Streams, Login(c)
  PROVE  IInv'
<1>0. AddrOf[c] \in Addrs /\ c # NoStream /\ Typed /\ \A a \in Addrs : Listed(a)
  BY DEF StreamsAssumption, IInv
<1>1. /\ state' = [state EXCEPT ![c] = "open"]
      /\ registry' = [registry EXCEPT ![AddrOf[c]] = c]
      /\ avail' = avail /\ said' = said /\ state[c] = "new"
      /\ UNCHANGED pushVars /\ Observe
  BY DEF Login
<1>2. Typed'
  BY <1>0, <1>1 DEF Typed, States, pushVars, Observe
<1>3. ASSUME NEW a \in Addrs PROVE Listed(a)'
  BY <1>0, <1>1 DEF Listed, Typed
<1>4. ASSUME NEW d \in Streams PROVE Announced(d)'
  <2>1. Alone(d)' => Alone(d)
    BY <1>0, <1>1 DEF Alone, Typed
  <2> QED
    BY <1>1, <2>1 DEF Announced, IInv
<1> QED
  BY <1>1, <1>2, <1>3, <1>4, StreamKeepsLooking DEF IInv

\* The session under the address of a device that has one stream is that one.
LEMMA PresenceStep ==
  ASSUME StreamsAssumption, IInv, NEW c \in Streams, NEW available \in BOOLEAN, Presence(c, available)
  PROVE  IInv'
<1> DEFINE s == registry[AddrOf[c]]
<1>0. AddrOf[c] \in Addrs /\ Typed /\ \A a \in Addrs : Listed(a)
  BY DEF StreamsAssumption, IInv
<1>1. /\ state' = state /\ registry' = registry
      /\ avail' = [avail EXCEPT ![s] = available]
      /\ said' = [said EXCEPT ![c] = available]
      /\ state[c] # "new" /\ s # NoStream
      /\ UNCHANGED pushVars /\ Observe
  BY DEF Presence
<1>2. s \in Streams /\ AddrOf[s] = AddrOf[c] /\ state[s] # "new"
  BY <1>0, <1>1 DEF Typed, Listed
<1> HIDE DEF s
<1>3. Typed'
  BY <1>0, <1>1, <1>2 DEF Typed, pushVars, Observe
<1>4. ASSUME NEW a \in Addrs PROVE Listed(a)'
  BY <1>0, <1>1 DEF Listed
<1>5. ASSUME NEW d \in Streams PROVE Announced(d)'
  <2>1. SUFFICES ASSUME Alone(d) PROVE avail'[d] = said'[d]
    BY <1>1 DEF Announced, Alone
  <2>2. AddrOf[d] # AddrOf[c] \/ (d = c /\ d = s)
    BY <1>1, <1>2, <2>1 DEF Alone
  <2>3. avail[d] = said[d]
    BY <2>1 DEF IInv, Announced
  <2> QED
    BY <1>0, <1>1, <1>2, <2>2, <2>3 DEF Typed
<1> QED
  BY <1>1, <1>3, <1>4, <1>5, StreamKeepsLooking DEF IInv

LEMMA CloseStep ==
  ASSUME StreamsAssumption, IInv, NEW c \in Streams, Close(c)
  PROVE  IInv'
<1>0. Typed /\ (\A a \in Addrs : Listed(a)) /\ (\A p \in Pushes : Looking(p))
  BY DEF IInv
<1>1. /\ state[c] = "open" /\ state' = [state EXCEPT ![c] = "closed"]
      /\ registry' = registry /\ avail' = avail /\ said' = said
      /\ UNCHANGED pushVars /\ steady' = steady
  BY DEF Close
<1>2. Typed'
  BY <1>0, <1>1 DEF Typed, States, pushVars
<1>3. ASSUME NEW a \in Addrs PROVE Listed(a)'
  BY <1>0, <1>1 DEF Listed, Typed
<1>4. ASSUME NEW p \in Pushes PROVE Looking(p)'
  BY <1>0, <1>1 DEF Looking, For, Reachable, pushVars
<1>5. ASSUME NEW d \in Streams PROVE Announced(d)'
  <2>1. Alone(d)' => Alone(d)
    BY <1>0, <1>1 DEF Alone, Typed
  <2> QED
    BY <1>1, <2>1 DEF Announced, IInv
<1> QED
  BY <1>2, <1>3, <1>4, <1>5 DEF IInv

LEMMA UnregisterStep ==
  ASSUME StreamsAssumption, IInv, NEW c \in Streams, Unregister(c)
  PROVE  IInv'
<1>0. AddrOf[c] \in Addrs /\ Typed /\ \A a \in Addrs : Listed(a)
  BY DEF StreamsAssumption, IInv
<1>1. /\ state[c] = "closed" /\ state' = [state EXCEPT ![c] = "gone"]
      /\ registry' = [registry EXCEPT ![AddrOf[c]] = NoStream]
      /\ avail' = avail /\ said' = said
      /\ UNCHANGED pushVars /\ Observe
  BY DEF Unregister
<1>2. Typed'
  BY <1>0, <1>1 DEF Typed, States, pushVars, Observe
<1>3. ASSUME NEW a \in Addrs PROVE Listed(a)'
  BY <1>0, <1>1 DEF Listed, Typed
<1>4. ASSUME NEW d \in Streams PROVE Announced(d)'
  <2>1. Alone(d)' => Alone(d)
    BY <1>0, <1>1 DEF Alone, Typed
  <2> QED
    BY <1>1, <2>1 DEF Announced, IInv
<1> QED
  BY <1>1, <1>2, <1>3, <1>4, StreamKeepsLooking DEF IInv

\* A step of a push is seen by that push alone.
LEMMA PushKeepsOthers ==
  ASSUME StreamsAssumption, IInv, UNCHANGED streamVars, NEW p \in Pushes, Typed', Looking(p)',
         \A q \in Pushes \ {p} : /\ status'[q] = status[q] /\ left'[q] = left[q]
                                 /\ found'[q] = found[q] /\ online'[q] = online[q]
                                 /\ steady'[q] = steady[q]
  PROVE  IInv'
<1>1. state' = state /\ registry' = registry /\ avail' = avail /\ said' = said
  BY DEF streamVars
<1>2. ASSUME NEW a \in Addrs PROVE Listed(a)'
  BY <1>1 DEF IInv, Listed
<1>3. ASSUME NEW q \in Pushes \ {p} PROVE Looking(q)'
  BY <1>1 DEF IInv, Looking, For, Reachable
<1>4. ASSUME NEW d \in Streams PROVE Announced(d)'
  BY <1>1 DEF IInv, Announced, Alone
<1> QED
  BY <1>2, <1>3, <1>4 DEF IInv

LEMMA StartPushStep ==
  ASSUME StreamsAssumption, IInv, NEW p \in Pushes, StartPush(p)
  PROVE  IInv'
<1>0. Typed /\ AddrOf \in [Streams -> Addrs]
  BY DEF StreamsAssumption, IInv
<1>1. /\ status' = [status EXCEPT ![p] = "Sending"] /\ left' = [left EXCEPT ![p] = Addrs]
      /\ steady' = [steady EXCEPT ![p] = Reachable(registry, avail)]
      /\ UNCHANGED <<streamVars, found, online, written>>
  BY DEF StartPush
<1>2. Reachable(registry, avail) \subseteq Streams
  BY DEF Reachable
<1>3. Typed'
  BY <1>0, <1>1, <1>2 DEF Typed, streamVars
<1>4. Looking(p)'
  BY <1>0, <1>1, <1>2 DEF Looking, Typed, streamVars
<1> QED
  BY <1>0, <1>1, <1>3, <1>4, PushKeepsOthers DEF Typed

\* The iterator comes to the address of a session that has been there all along:
\* it is the one it hands out.
LEMMA NextSessionStep ==
  ASSUME StreamsAssumption, IInv, NEW p \in Pushes, NextSession(p)
  PROVE  IInv'
<1>0. Typed /\ Looking(p)
  BY DEF IInv
<1>1. PICK a \in left[p] : /\ found' = [found EXCEPT ![p] = registry[a]]
                           /\ left' = [left EXCEPT ![p] = @ \ {a}]
  BY DEF NextSession
<1>2. /\ status[p] = "Sending" /\ found[p] = NoStream
      /\ UNCHANGED <<streamVars, status, online, written, steady>>
  BY DEF NextSession
<1>3. a \in Addrs /\ found'[p] = registry[a] /\ left'[p] = left[p] \ {a}
  BY <1>0, <1>1 DEF Typed
<1>4. Typed'
  BY <1>0, <1>1, <1>2, <1>3 DEF Typed, streamVars
<1>5. Looking(p)'
  <2>1. ASSUME NEW c \in steady[p], For(p, c)
        PROVE  AddrOf[c] \in left'[p] \/ found'[p] = c \/ online[p]
    <3>1. registry[AddrOf[c]] = c /\ c # NoStream
      BY <1>0 DEF Looking, Reachable, Typed, StreamsAssumption
    <3>2. AddrOf[c] \in left[p] \/ online[p]
      BY <1>0, <1>2, <2>1, <3>1 DEF Looking
    <3> QED
      BY <1>3, <3>1, <3>2
  <2> QED
    BY <1>0, <1>2, <2>1 DEF Looking, For, Reachable, streamVars
<1> QED
  BY <1>0, <1>1, <1>2, <1>4, <1>5, PushKeepsOthers DEF Typed

LEMMA CheckSessionStep ==
  ASSUME StreamsAssumption, IInv, NEW p \in Pushes, CheckSession(p)
  PROVE  IInv'
<1> DEFINE c == found[p]
<1>0. Typed /\ Looking(p)
  BY DEF IInv
<1>1. /\ status[p] = "Sending" /\ c \in Streams /\ found' = [found EXCEPT ![p] = NoStream]
      /\ UNCHANGED <<streamVars, status, left, steady>>
      /\ \/ /\ Matches(p, c) /\ online' = [online EXCEPT ![p] = TRUE]
            /\ written' \in {written, [written EXCEPT ![p] = @ \cup {c}]}
         \/ ~Matches(p, c) /\ UNCHANGED <<online, written>>
  <2>1. c \in Streams
    BY <1>0 DEF CheckSession, Typed
  <2>2. \/ /\ Matches(p, c) /\ online' = [online EXCEPT ![p] = TRUE]
           /\ \/ written' = [written EXCEPT ![p] = @ \cup {c}]
              \/ written' = written
        \/ ~Matches(p, c) /\ UNCHANGED <<online, written>>
    BY DEF CheckSession
  <2> QED
    BY <2>1, <2>2 DEF CheckSession
<1>2. Typed'
  <2>1. written' \in [Pushes -> SUBSET Streams]
    BY <1>0, <1>1 DEF Typed
  <2>2. online' \in [Pushes -> BOOLEAN] /\ found' \in [Pushes -> Streams \cup {NoStream}]
    BY <1>0, <1>1 DEF Typed
  <2> QED
    BY <1>0, <1>1, <2>1, <2>2 DEF Typed, streamVars
<1>3. Looking(p)'
  <2>1. ASSUME NEW d \in steady[p], For(p, d)
        PROVE  AddrOf[d] \in left[p] \/ online'[p]
    <3>1. AddrOf[d] \in left[p] \/ d = c \/ online[p]
      BY <1>0, <1>1, <2>1 DEF Looking
    <3>2. avail[d]
      BY <1>0 DEF Looking, Reachable
    <3>3. Matches(p, d)
      BY <2>1, <3>2 DEF Matches, For
    <3> QED
      BY <1>0, <1>1, <3>1, <3>3 DEF Typed
  <2> QED
    BY <1>0, <1>1, <2>1 DEF Looking, For, Reachable, streamVars
<1> QED
  BY <1>0, <1>1, <1>2, <1>3, PushKeepsOthers DEF Typed

LEMMA EndPushStep ==
  ASSUME StreamsAssumption, IInv, NEW p \in Pushes, EndPush(p)
  PROVE  IInv'
<1>0. Typed /\ Looking(p)
  BY DEF IInv
<1>1. /\ status[p] = "Sending" /\ left[p] = {} /\ found[p] = NoStream
      /\ status' = [status EXCEPT ![p] = IF online[p] THEN "Sent" ELSE "Offline"]
      /\ UNCHANGED <<streamVars, left, found, online, written, steady>>
  BY DEF EndPush
<1>2. Typed'
  BY <1>0, <1>1 DEF Typed, streamVars
<1>3. ASSUME NEW c \in steady[p], For(p, c) PROVE online[p]
  BY <1>0, <1>1, <1>3 DEF Looking, Typed, StreamsAssumption
<1>4. Looking(p)'
  BY <1>0, <1>1, <1>3 DEF Looking, For, Reachable, Typed, streamVars
<1> QED
  BY <1>0, <1>1, <1>2, <1>4, PushKeepsOthers DEF Typed

LEMMA InvStep ==
  ASSUME StreamsAssumption, IInv, [Next]_vars
  PROVE  IInv'
<1>1. ASSUME NEW c \in Streams, StreamStep(c) PROVE IInv'
  BY <1>1, LoginStep, CloseStep, UnregisterStep, PresenceStep DEF StreamStep
<1>2. ASSUME NEW p \in Pushes, PushStep(p) PROVE IInv'
  BY <1>2, StartPushStep, NextSessionStep, CheckSessionStep, EndPushStep DEF PushStep
<1>3. CASE UNCHANGED vars
  BY <1>3 DEF vars, streamVars, pushVars, IInv, Typed, Listed, Looking, For, Reachable,
     Announced, Alone
<1> QED
  BY <1>1, <1>2, <1>3 DEF Next

\* What the streams and the pushes keep between two steps.
THEOREM DeliveryInvariant == StreamsAssumption => (Spec => []IInv)
<1> SUFFICES ASSUME StreamsAssumption PROVE Spec => []IInv
  OBVIOUS
<1>1. Init => IInv
  BY InvInit
<1>2. IInv /\ [Next]_vars => IInv'
  BY InvStep
<1> QED
  BY <1>1, <1>2, PTL DEF Spec

\* The type invariant: an address has no session, or one that logged in under it
\* and whose close listener has not run.
THEOREM DeliveryTypeCorrect == StreamsAssumption => (Spec => []TypeOK)
<1>1. IInv => TypeOK
  BY DEF IInv, Typed, Listed, States, TypeOK
<1> QED
  BY DeliveryInvariant, <1>1, PTL

\* PushTask.pushMsg answers "Offline" only when its walk over the sessions found
\* none: whatever other streams log in, announce and close during the walk, and
\* in whatever order it comes to the addresses, no session that its device had,
\* listed and available, from the first to the last step is overlooked.
THEOREM OfflineIsNoMistake == StreamsAssumption => (Spec => []OfflineIsTrue)
<1>1. IInv => OfflineIsTrue
  BY DEF IInv, Looking, For, OfflineIsTrue
<1> QED
  BY DeliveryInvariant, <1>1, PTL

\* PresenceUpdateHandler sets the presence of the session that has the address
\* now: for a device with one stream so far that is its own, so the last packet
\* it sent is what a push will see, whatever other devices send.
THEOREM PresenceIsOwn == StreamsAssumption => (Spec => []PresenceOfDevice)
<1>1. IInv => PresenceOfDevice
  BY DEF IInv, Announced, Alone, PresenceOfDevice
<1> QED
  BY DeliveryInvariant, <1>1, PTL
=============================================================================
