----------------------------- MODULE MCSessions -----------------------------
(***************************************************************************)
(* Small instances of Sessions for TLC.                                    *)
(***************************************************************************)
EXTENDS Sessions, TLC

CONSTANTS c1, c2, c3, a1, a2, a3

\* Every device logs in with its own address.
ClaimsOwn == c1 :> {a1} @@ c2 :> {a2} @@ c3 :> {a3}

\* c1 and c2 are two streams of one device: it reconnects before the server
\* has noticed that its first stream is dead.  c3 is another device.
ClaimsReconnect == c1 :> {a1} @@ c2 :> {a1} @@ c3 :> {a2}

\* Two streams whose clients may log in with either address.
ClaimsAny == c1 :> {a1, a2} @@ c2 :> {a1, a2}

\* ClaimsAny treats its streams, and its addresses, alike.
Symmetry == Permutations({c1, c2}) \cup Permutations({a1, a2})

\* The counter and the online records guard no step: runs whose invariants do
\* not mention them may leave them out of the states they tell apart.
ControlView ==
    <<sock, streamed, status, addr, avail, logins, preAuth, clientSessions, threadVars>>
=============================================================================
