---------------------------- MODULE Events_proofs ----------------------------
(***************************************************************************)
(* The handlers of a page are called as its scripts expect, for any nodes, *)
(* types and handlers, however many events are under way within each       *)
(* other: lists of handlers and native listeners agree and no handler is   *)
(* missed or called late.  On a page without attributes for native types   *)
(* none is called twice, or above the node that stopped its event.         *)
(*                                                                         *)
(* A frame of the call stack s is right by itself and by the event it      *)
(* belongs to, which is one or two places below it.                        *)
(***************************************************************************)
EXTENDS Events, SequenceTheorems, FunctionTheorems, FiniteSetTheorems, TLAPS

Assumptions == DepthAssumption /\ TypesAssumption /\ InlineAssumption /\ KindsAssumption

Calls == Nodes \X (Handlers \cup {OnAttribute})
EventFrames ==
    [what : {"event"}, type : Types, target : Nodes, native : BOOLEAN, only : BOOLEAN,
     refired : BOOLEAN, at : 1 .. Depth + 1, half : {1, 2}, stop : 0 .. Depth,
     immediate : BOOLEAN, prevented : BOOLEAN, called : SUBSET Calls, before : SUBSET Handlers]
DispatchFrames ==
    [what : {"dispatch"}, node : Nodes, queue : Seq(Nodes \X Handlers), cur : 0 .. Depth,
     due : SUBSET Handlers]
PageFrames == [what : {"page"}, elem : Nodes, h : Handlers \cup {OnAttribute}]
Frames == EventFrames \cup DispatchFrames \cup PageFrames

\* A list has each handler once, those with a selector in front.
Split(k, l, d) == \A i \in DOMAIN l : (k[l[i]].sel # 0) <=> i <= d
ListRight(k, l, d, n, t, us, sp) ==
    /\ l \in Seq(Handlers) /\ d \in 0 .. Len(l)
    /\ \A i \in DOMAIN l : k[l[i]].home = n /\ k[l[i]].type = t /\ l[i] \in us \ sp
    /\ IsInjective(l)
    /\ Split(k, l, d)
Listed(k, ls, ds, us, sp) ==
    /\ ls \in [Nodes -> [Types -> Seq(Handlers)]] /\ ds \in [Nodes -> [Types -> Nat]]
    /\ \A n \in Nodes, t \in Types : ListRight(k, ls[n][t], ds[n][t], n, t, us, sp)

\* The native listeners, and the counts of the document's.
With(ls, t) == {n \in Nodes : ls[n][t] # <<>>}
Heard(ls, at, as, cp) ==
    /\ at \subseteq Nodes \X Types /\ cp \subseteq Focusing
    /\ \A t \in Types : IF t \in Focusing
                        THEN as[t] = Cardinality(With(ls, t)) /\ (t \in cp <=> With(ls, t) # {})
                        ELSE as[t] = 0 /\ {n \in Nodes : <<n, t>> \in at} = With(ls, t)
    /\ as \in [Types -> Nat]

\* An event has called the handlers of the nodes it has passed.
Passed(ev, n) == n < ev.at \/ (n = ev.at /\ ev.half = 2 /\ ~ev.native)
EventRight(ev, sp) ==
    /\ ev.half = 2 => ev.at <= Depth
    /\ ev.target <= ev.at
    /\ ev.immediate => ev.stop # 0
    /\ ev.before \subseteq sp
    /\ ev.refired => ev.native
\* Which handlers a dispatch may still call, and which it must.
DispatchRight(ev, f, us) ==
    /\ f.node = IF ev.native THEN ev.at - 1 ELSE ev.at
    /\ ev.half = IF ev.native THEN 1 ELSE 2
    /\ \A c \in ToSet(f.queue) : c[2] \in us \ ev.before
    /\ \A h \in f.due : <<f.node, h>> \in ev.called \cup ToSet(f.queue)
Fits(s, i, us, sp) ==
    \/ s[i] \in EventFrames /\ (i > 1 => s[i - 1] \in PageFrames) /\ EventRight(s[i], sp)
    \/ s[i] \in DispatchFrames /\ i > 1 /\ s[i - 1] \in EventFrames /\ DispatchRight(s[i - 1], s[i], us)
    \/ s[i] \in PageFrames /\ i > 1 /\ s[i - 1] \in EventFrames \cup DispatchFrames
Framed(s, us, sp) == s \in Seq(Frames) /\ \A i \in DOMAIN s : Fits(s, i, us, sp)

IInv ==
    /\ kind \in [Handlers -> Kinds] /\ used \subseteq Handlers /\ spent \subseteq used
    /\ triggered \in Types \cup {None} /\ events \in 0 .. MaxEvents
    /\ Listed(kind, list, delegates, used, spent)
    /\ Heard(list, attached, attaches, captured)
    /\ Framed(calls, used, spent)
    /\ late = {} /\ skipped = {}

(* Where no node has an attribute for a native type, *)
OnceCalled(ev, k, i, s, tr) ==
    IF ev.refired THEN i = Len(s) /\ tr = ev.type
    ELSE \A c \in ev.called : c[2] \in Handlers /\ Passed(ev, k[c[2]].home)
OnceDispatched(ev, f, k) ==
    /\ ~ev.refired
    /\ \A c \in ToSet(f.queue) : k[c[2]].home = f.node /\ c \notin ev.called
    /\ IsInjective(f.queue)
    /\ ev.stop # 0 => f.cur <= ev.stop
OnePage(s, i) == s[i - 1] \in DispatchFrames /\ s[i].elem = s[i - 1].cur
OnceAt(s, i, k, tr) ==
    /\ s[i] \in EventFrames => OnceCalled(s[i], k, i, s, tr)
    /\ s[i] \in DispatchFrames => OnceDispatched(s[i - 1], s[i], k)
    /\ s[i] \in PageFrames => OnePage(s, i)
Once(s, k, tr) == \A i \in DOMAIN s : OnceAt(s, i, k, tr)
OInv == IInv /\ Once(calls, kind, triggered) /\ again = {}

-----------------------------------------------------------------------------
(* Induction.  The subsets of a set that are finite are well-founded by     *)
(* inclusion; so are the intervals 0 .. n, and with them the numbers n.      *)

\* A set of natural numbers has a least one: what fails for some number fails for
\* a first one.
LEMMA LeastMember ==
  ASSUME NEW S \in SUBSET Nat, S # {}
  PROVE  \E m \in S : \A k \in S : m <= k
<1> DEFINE T == {0 .. n : n \in S}
<1>1. T \subseteq FiniteSubsetsOf(Nat)
  <2>1. \A n \in S : 0 .. n \in SUBSET Nat /\ IsFiniteSet(0 .. n)
    BY FS_Interval
  <2> QED BY <2>1 DEF FiniteSubsetsOf
<1>2. T # {}  OBVIOUS
<1>3. IsWellFoundedOn(StrictSubsetOrdering(Nat), FiniteSubsetsOf(Nat))
  BY FS_StrictSubsetOrderingWellFounded
<1>4. PICK x \in T : \A y \in T : <<y, x>> \notin StrictSubsetOrdering(Nat)
  <2> HIDE DEF T
  <2> QED BY <1>1, <1>2, <1>3, WFMin
<1>5. PICK m \in S : x = 0 .. m  OBVIOUS
<1>6. ASSUME NEW k \in S PROVE m <= k
  <2>1. SUFFICES ASSUME ~(m <= k) PROVE FALSE  OBVIOUS
  <2>2. 0 .. k \in T /\ 0 .. k \in SUBSET Nat /\ 0 .. m \in SUBSET Nat  OBVIOUS
  <2>3. 0 .. k \subseteq 0 .. m /\ 0 .. k # 0 .. m
    <3>1. m \in Nat /\ k \in Nat  OBVIOUS
    <3>2. m \in 0 .. m /\ m \notin 0 .. k  BY <2>1, <3>1
    <3> QED BY <2>1, <3>1, <3>2
  <2>4. <<0 .. k, x>> \in StrictSubsetOrdering(Nat)
    BY <1>5, <2>2, <2>3 DEF StrictSubsetOrdering
  <2> QED BY <1>4, <2>2, <2>4
<1> QED BY <1>6

\* Induction up to n, for the set G of the numbers that something is true of.
LEMMA UpTo ==
  ASSUME NEW n \in Nat, NEW G, 0 \in G, \A m \in 1 .. n : m - 1 \in G => m \in G
  PROVE  \A m \in 0 .. n : m \in G
<1>1. PICK Bad : Bad = {m \in 0 .. n : m \notin G}  OBVIOUS
<1>2. SUFFICES ASSUME Bad # {} PROVE FALSE  BY <1>1
<1>3. Bad \in SUBSET Nat  BY <1>1
<1>4. PICK m \in Bad : \A k \in Bad : m <= k  BY <1>2, <1>3, LeastMember
<1>5. m \in 0 .. n /\ m \notin G  BY <1>1, <1>4
<1>6. m \in 1 .. n /\ m - 1 \in 0 .. n /\ ~(m <= m - 1)  BY <1>5
<1>7. m - 1 \notin Bad  BY <1>3, <1>4, <1>6
<1> QED BY <1>1, <1>5, <1>6, <1>7

\* What can be done step by step can be done n times.
Steps(n, S) == [(1 .. n) \X S -> S]
Stepwise(f, n, S, start, step) ==
    f \in [0 .. n -> S] /\ f[0] = start /\ \A i \in 1 .. n : f[i] = step[<<i, f[i - 1]>>]

LEMMA Iterates ==
  ASSUME NEW n \in Nat, NEW S, NEW start, start \in S, NEW step, step \in Steps(n, S)
  PROVE  \E f : Stepwise(f, n, S, start, step)
<1>s. step \in [(1 .. n) \X S -> S]  BY DEF Steps
<1> DEFINE Runs(f, m) == /\ f \in [0 .. m -> S] /\ f[0] = start
                         /\ \A i \in 1 .. m : f[i] = step[<<i, f[i - 1]>>]
<1> DEFINE G == {m \in 0 .. n : \E f : Runs(f, m)}
<1>1. 0 \in G
  <2>1. PICK f : f = [i \in 0 .. 0 |-> start]  OBVIOUS
  <2>2. f \in [0 .. 0 -> S] /\ f[0] = start  BY <2>1
  <2>3. Runs(f, 0)  BY <2>2
  <2>4. 0 \in 0 .. n  OBVIOUS
  <2> HIDE DEF Runs
  <2> QED BY <2>3, <2>4
<1>2. ASSUME NEW m \in 1 .. n, m - 1 \in G PROVE m \in G
  <2>1. PICK f : Runs(f, m - 1)
    <3> HIDE DEF Runs
    <3> QED BY <1>2
  <2>f. /\ f \in [0 .. m - 1 -> S] /\ f[0] = start
        /\ \A i \in 1 .. m - 1 : f[i] = step[<<i, f[i - 1]>>]
    BY <2>1
  <2>m. m \in Nat /\ m >= 1 /\ m - 1 \in 0 .. m - 1 /\ m \in 0 .. m /\ 0 \in 0 .. m - 1  OBVIOUS
  <2>2. f[m - 1] \in S  BY <2>f, <2>m
  <2>3. PICK v \in S : v = step[<<m, f[m - 1]>>]  BY <1>s, <2>2
  <2>4. PICK g : g = [i \in 0 .. m |-> IF i = m THEN v ELSE f[i]]  OBVIOUS
  <2>5. \A i \in 0 .. m - 1 : g[i] = f[i]
    <3>1. \A i \in 0 .. m - 1 : i \in 0 .. m /\ i # m  BY <2>m
    <3> QED BY ONLY <2>4, <3>1
  <2>6. g[m] = v  BY ONLY <2>4, <2>m
  <2>7. \A i \in 0 .. m : (IF i = m THEN v ELSE f[i]) \in S
    <3>1. \A i \in 0 .. m : i # m => i \in 0 .. m - 1  BY <2>m
    <3> QED BY <2>f, <2>3, <3>1
  <2>8. g \in [0 .. m -> S]  BY ONLY <2>4, <2>7
  <2>9. g[0] = start  BY ONLY <2>f, <2>5, <2>m
  <2>10. ASSUME NEW i \in 1 .. m PROVE g[i] = step[<<i, g[i - 1]>>]
    <3>0. i - 1 \in 0 .. m - 1  BY <2>m
    <3>1. g[i - 1] = f[i - 1]  BY ONLY <2>5, <3>0
    <3>2. CASE i = m  BY ONLY <2>3, <2>6, <3>1, <3>2
    <3>3. CASE i # m
      <4>1. i \in 1 .. m - 1 /\ i \in 0 .. m - 1  BY <2>m, <3>3
      <4>2. f[i] = step[<<i, f[i - 1]>>]  BY ONLY <2>f, <4>1
      <4> QED BY ONLY <2>5, <3>1, <4>1, <4>2
    <3> QED BY ONLY <3>2, <3>3
  <2>11. Runs(g, m)  BY ONLY <2>8, <2>9, <2>10
  <2>12. m \in 0 .. n  OBVIOUS
  <2> HIDE DEF Runs
  <2> QED BY ONLY <2>11, <2>12
<1>3. \A m \in 1 .. n : m - 1 \in G => m \in G
  <2> HIDE DEF G
  <2> QED BY <1>2
<1>4. n \in G
  <2> HIDE DEF G
  <2>1. \A m \in 0 .. n : m \in G  BY ONLY n \in Nat, <1>1, <1>3, UpTo
  <2>2. n \in 0 .. n  OBVIOUS
  <2> QED BY ONLY <2>1, <2>2
<1> QED BY ONLY <1>4 DEF Stepwise

-----------------------------------------------------------------------------
(* Sequences *)

\* What is left of a list is a part of it in its order: w has, at place i, what is
\* at place p[i] of s.
Places(w, s, gone, p) ==
    /\ p \in [1 .. Len(w) -> 1 .. Len(s)]
    /\ \A i \in 1 .. Len(w) : w[i] = s[p[i]] /\ s[p[i]] \notin gone
    /\ \A i, j \in 1 .. Len(w) : i < j => p[i] < p[j]
    /\ \A j \in 1 .. Len(s) : s[j] \notin gone => \E i \in 1 .. Len(w) : p[i] = j

LEMMA WithoutPlaces ==
  ASSUME NEW T, NEW s \in Seq(T), NEW gone
  PROVE  Without(s, gone) \in Seq(T) /\ \E p : Places(Without(s, gone), s, gone, p)
<1> DEFINE Rest(f) == [i \in 0 .. Len(s) |->
                          IF i = 0 THEN <<>>
                          ELSE IF s[i] \in gone THEN f[i - 1] ELSE Append(f[i - 1], s[i])]
<1>1. \A i \in 1 .. Len(s) : s[i] \in T  OBVIOUS
<1>2. PICK step : step = [x \in (1 .. Len(s)) \X Seq(T) |->
                             IF s[x[1]] \in gone THEN x[2] ELSE Append(x[2], s[x[1]])]
  OBVIOUS
<1>3. step \in [(1 .. Len(s)) \X Seq(T) -> Seq(T)]
  <2>1. \A i \in 1 .. Len(s), r \in Seq(T) : Append(r, s[i]) \in Seq(T)  BY <1>1, AppendProperties
  <2> QED BY <1>2, <2>1
<1>4. PICK g \in [0 .. Len(s) -> Seq(T)] :
         g[0] = <<>> /\ \A i \in 1 .. Len(s) : g[i] = step[<<i, g[i - 1]>>]
  <2>1. Len(s) \in Nat /\ <<>> \in Seq(T)  OBVIOUS
  <2>2. PICK n \in Nat : n = Len(s)  BY <2>1
  <2>3. step \in [(1 .. n) \X Seq(T) -> Seq(T)]  BY <1>3, <2>2
  <2>4. \E g \in [0 .. n -> Seq(T)] :
           g[0] = <<>> /\ \A i \in 1 .. n : g[i] = step[<<i, g[i - 1]>>]
    <3>1. <<>> \in Seq(T) /\ step \in Steps(n, Seq(T))  BY <2>1, <2>3 DEF Steps
    <3>2. \E f : Stepwise(f, n, Seq(T), <<>>, step)  BY ONLY n \in Nat, <3>1, Iterates
    <3> QED BY ONLY <3>2 DEF Stepwise
  <2> QED BY <2>2, <2>4
<1>5. g = Rest(g)
  <2>1. ASSUME NEW i \in 1 .. Len(s)
        PROVE  g[i] = IF s[i] \in gone THEN g[i - 1] ELSE Append(g[i - 1], s[i])
    <3>1. i - 1 \in 0 .. Len(s)  OBVIOUS
    <3>2. g[i - 1] \in Seq(T)  BY <3>1
    <3>3. <<i, g[i - 1]>> \in (1 .. Len(s)) \X Seq(T)  BY <3>2
    <3> QED BY <1>2, <1>4, <3>3
  <2>2. g[0] = <<>>  BY <1>4
  <2>3. \A i \in 0 .. Len(s) : i # 0 => i \in 1 .. Len(s)  OBVIOUS
  <2> QED BY <1>4, <2>1, <2>2, <2>3
<1>6. PICK f : f = Rest(f) /\ Without(s, gone) = f[Len(s)]
  <2>1. PICK h : h = CHOOSE x : x = Rest(x)  OBVIOUS
  <2>2. h = Rest(h)  BY <1>5, <2>1
  <2>3. Without(s, gone) = h[Len(s)]  BY <2>1 DEF Without
  <2> QED BY <2>2, <2>3
<1>7. /\ f[0] = <<>>
      /\ \A i \in 1 .. Len(s) : f[i] = IF s[i] \in gone THEN f[i - 1] ELSE Append(f[i - 1], s[i])
  <2>1. PICK r : r = Rest(f)  OBVIOUS
  <2>2. r[0] = <<>>  BY <2>1
  <2>3. \A i \in 1 .. Len(s) : r[i] = IF s[i] \in gone THEN f[i - 1] ELSE Append(f[i - 1], s[i])
    BY <2>1
  <2> QED BY <1>6, <2>1, <2>2, <2>3
<1> HIDE DEF Rest
<1> DEFINE Part(p, n) ==
              /\ p \in [1 .. Len(f[n]) -> 1 .. n]
              /\ \A i \in 1 .. Len(f[n]) : f[n][i] = s[p[i]] /\ s[p[i]] \notin gone
              /\ \A i, j \in 1 .. Len(f[n]) : i < j => p[i] < p[j]
              /\ \A j \in 1 .. n : s[j] \notin gone => \E i \in 1 .. Len(f[n]) : p[i] = j
<1>8. PICK G : G = {n \in 0 .. Len(s) : f[n] \in Seq(T) /\ \E p : Part(p, n)}  OBVIOUS
<1>9. SUFFICES \A n \in 0 .. Len(s) : n \in G
  <2>1. Len(s) \in 0 .. Len(s)  OBVIOUS
  <2>2. SUFFICES ASSUME Len(s) \in G
        PROVE  f[Len(s)] \in Seq(T) /\ \E p : Part(p, Len(s))
    <3>1. f[Len(s)] \in Seq(T) /\ \E p : Part(p, Len(s))  BY <2>1, <2>2
    <3> QED BY <1>6, <3>1 DEF Places
  <2> QED BY <1>8, <2>2
<1>10. 0 \in G
  <2>1. PICK p : p = <<>>  OBVIOUS
  <2>2. f[0] \in Seq(T) /\ Len(f[0]) = 0  BY <1>7
  <2>3. Part(p, 0)  BY <2>1, <2>2
  <2> QED BY <1>8, <2>2, <2>3
<1>11. SUFFICES ASSUME NEW m \in 1 .. Len(s), m - 1 \in G PROVE m \in G
  <2>1. PICK n \in Nat : n = Len(s)  OBVIOUS
  <2>2. \A m \in 1 .. n : m - 1 \in G => m \in G  BY <1>11, <2>1
  <2>3. \A m \in 0 .. n : m \in G  BY ONLY n \in Nat, <1>10, <2>2, UpTo
  <2> QED BY <2>1, <2>3
<1>12. m \in 0 .. Len(s) /\ m - 1 \in 0 .. Len(s)  OBVIOUS
<1>13. PICK p : f[m - 1] \in Seq(T) /\ Part(p, m - 1)  BY <1>8, <1>11
<1>14. PICK r \in Seq(T) : r = f[m - 1]  BY <1>13
<1>15. PICK l \in Nat : l = Len(r)  OBVIOUS
<1>p. /\ p \in [1 .. l -> 1 .. m - 1]
      /\ \A i \in 1 .. l : r[i] = s[p[i]] /\ s[p[i]] \notin gone
      /\ \A i, j \in 1 .. l : i < j => p[i] < p[j]
      /\ \A j \in 1 .. m - 1 : s[j] \notin gone => \E i \in 1 .. l : p[i] = j
  BY <1>13, <1>14, <1>15
<1>16. CASE s[m] \in gone
  <2>1. f[m] = r  BY <1>7, <1>12, <1>14, <1>16
  <2>2. \A j \in 1 .. m : s[j] \notin gone => j \in 1 .. m - 1  BY <1>12, <1>16
  <2>3. p \in [1 .. l -> 1 .. m]  BY <1>p, <1>12
  <2>4. Part(p, m)  BY <1>p, <1>15, <2>1, <2>2, <2>3
  <2> QED BY <1>8, <1>12, <2>1, <2>4
<1>17. CASE s[m] \notin gone
  <2>1. PICK q \in Seq(T) : q = Append(r, s[m])  BY <1>1, <1>12, AppendProperties
  <2>2. f[m] = q  BY <1>7, <1>12, <1>14, <1>17, <2>1
  <2>3. Len(q) = l + 1 /\ q[l + 1] = s[m] /\ \A i \in 1 .. l : q[i] = r[i]
    BY <1>1, <1>12, <1>15, <2>1, AppendProperties
  <2>4. PICK o : o = [i \in 1 .. l + 1 |-> IF i = l + 1 THEN m ELSE p[i]]  OBVIOUS
  <2>5. \A i \in 1 .. l + 1 : i # l + 1 => i \in 1 .. l /\ o[i] = p[i] /\ o[i] \in 1 .. m - 1
    BY <1>p, <2>4
  <2>6. o[l + 1] = m  BY <2>4
  <2>7. o \in [1 .. l + 1 -> 1 .. m]  BY <1>12, <2>4, <2>5
  <2>8. \A i \in 1 .. l + 1 : q[i] = s[o[i]] /\ s[o[i]] \notin gone
    BY <1>p, <1>17, <2>3, <2>5, <2>6
  <2>9. \A i, j \in 1 .. l + 1 : i < j => o[i] < o[j]
    <3> SUFFICES ASSUME NEW i \in 1 .. l + 1, NEW j \in 1 .. l + 1, i < j PROVE o[i] < o[j]
      OBVIOUS
    <3>1. i # l + 1  OBVIOUS
    <3>2. CASE j = l + 1  BY <1>12, <2>5, <2>6, <3>1, <3>2
    <3>3. CASE j # l + 1  BY <1>p, <2>5, <3>1, <3>3
    <3> QED BY <3>2, <3>3
  <2>10. \A j \in 1 .. m : s[j] \notin gone => \E i \in 1 .. l + 1 : o[i] = j
    <3> SUFFICES ASSUME NEW j \in 1 .. m, s[j] \notin gone PROVE \E i \in 1 .. l + 1 : o[i] = j
      OBVIOUS
    <3>1. CASE j = m  BY <2>6, <3>1
    <3>2. CASE j # m
      <4>1. PICK i \in 1 .. l : p[i] = j
        <5>1. j \in 1 .. m - 1  BY <1>12, <3>2
        <5> QED BY <1>p, <5>1
      <4>2. i \in 1 .. l + 1 /\ i # l + 1  OBVIOUS
      <4> QED BY ONLY <2>5, <4>1, <4>2
    <3> QED BY <3>1, <3>2
  <2>11. Part(o, m)  BY <2>2, <2>3, <2>7, <2>8, <2>9, <2>10
  <2> QED BY <1>8, <1>12, <2>2, <2>11
<1> QED BY <1>16, <1>17

\* The list l2 is the list l with h put in at place p.
Inserted(l2, l, p, h) ==
    /\ p \in 1 .. Len(l) + 1 /\ Len(l2) = Len(l) + 1
    /\ \A j \in 1 .. Len(l) + 1 : l2[j] = IF j < p THEN l[j] ELSE IF j = p THEN h ELSE l[j - 1]

LEMMA AppendInserts ==
  ASSUME NEW T, NEW l \in Seq(T), NEW h \in T
  PROVE  Append(l, h) \in Seq(T) /\ Inserted(Append(l, h), l, Len(l) + 1, h)
BY AppendProperties DEF Inserted

LEMMA InsertAtInserts ==
  ASSUME NEW T, NEW l \in Seq(T), NEW p \in 1 .. Len(l) + 1, NEW h \in T
  PROVE  InsertAt(l, p, h) \in Seq(T) /\ Inserted(InsertAt(l, p, h), l, p, h)
<1>1. PICK n \in Nat : n = Len(l)  OBVIOUS
<1>2. \A i \in 1 .. n : l[i] \in T  BY <1>1
<1>3. PICK u : u = SubSeq(l, 1, p - 1)  OBVIOUS
<1>4. u \in Seq(T) /\ Len(u) = p - 1 /\ \A i \in 1 .. p - 1 : u[i] = l[i]
  <2>1. \A i \in 1 .. p - 1 : l[i] \in T  BY <1>1, <1>2
  <2>2. p - 1 \in Int /\ 1 \in Int /\ (p - 1 < 1 => p - 1 = 0) /\ (p - 1) - 1 + 1 = p - 1  OBVIOUS
  <2>3. \A i \in Int : 1 + i - 1 = i  OBVIOUS
  <2> QED BY <1>3, <2>1, <2>2, <2>3, SubSeqProperties
<1>5. PICK v : v = SubSeq(l, p, n)  OBVIOUS
<1>6. v \in Seq(T) /\ Len(v) = n - p + 1 /\ \A i \in 1 .. n - p + 1 : v[i] = l[p + i - 1]
  <2>1. \A i \in p .. n : l[i] \in T  BY <1>1, <1>2
  <2>2. n \in Int /\ p \in Int /\ (p <= n \/ n - p + 1 = 0)  BY <1>1
  <2> QED BY <1>5, <2>1, <2>2, SubSeqProperties
<1>7. PICK w : w = u \o <<h>>  OBVIOUS
<1>8. w \in Seq(T) /\ Len(w) = p /\ \A i \in 1 .. p : w[i] = IF i < p THEN l[i] ELSE h
  <2>1. <<h>> \in Seq(T) /\ Len(<<h>>) = 1 /\ <<h>>[1] = h  OBVIOUS
  <2>2. /\ w \in Seq(T) /\ Len(w) = Len(u) + 1
        /\ \A i \in 1 .. Len(u) + 1 : w[i] = IF i <= Len(u) THEN u[i] ELSE <<h>>[i - Len(u)]
    BY <1>4, <1>7, <2>1, ConcatProperties
  <2>3. ASSUME NEW i \in 1 .. p PROVE w[i] = IF i < p THEN l[i] ELSE h
    <3>1. i \in 1 .. Len(u) + 1  BY <1>4
    <3>2. CASE i < p
      <4>1. i \in 1 .. p - 1 /\ i <= Len(u)  BY <1>4, <3>2
      <4> QED BY ONLY <1>4, <2>2, <3>1, <3>2, <4>1
    <3>3. CASE ~(i < p)
      <4>1. i - Len(u) = 1 /\ ~(i <= Len(u))  BY <1>4, <3>3
      <4> QED BY ONLY <2>1, <2>2, <3>1, <3>3, <4>1
    <3> QED BY ONLY <3>2, <3>3
  <2>4. Len(u) + 1 = p  BY <1>4
  <2> QED BY ONLY <2>2, <2>3, <2>4
<1>9. PICK x : x = w \o v  OBVIOUS
<1>10. x = InsertAt(l, p, h)  BY <1>1, <1>3, <1>5, <1>7, <1>9 DEF InsertAt
<1>11. /\ x \in Seq(T) /\ Len(x) = p + (n - p + 1)
       /\ \A i \in 1 .. p + (n - p + 1) : x[i] = IF i <= p THEN w[i] ELSE v[i - p]
  BY <1>6, <1>8, <1>9, ConcatProperties
<1>12. p + (n - p + 1) = n + 1 /\ p \in 1 .. n + 1  BY <1>1
<1>13. ASSUME NEW j \in 1 .. n + 1
       PROVE  x[j] = IF j < p THEN l[j] ELSE IF j = p THEN h ELSE l[j - 1]
  <2>1. x[j] = IF j <= p THEN w[j] ELSE v[j - p]  BY <1>11, <1>12
  <2>2. CASE j <= p
    <3>1. j \in 1 .. p  BY <2>2
    <3> QED BY <1>8, <2>1, <2>2, <3>1
  <2>3. CASE ~(j <= p)
    <3>1. j - p \in 1 .. n - p + 1 /\ p + (j - p) - 1 = j - 1  BY <1>12, <2>3
    <3>2. v[j - p] = l[j - 1]  BY ONLY <1>6, <3>1
    <3>3. x[j] = v[j - p] /\ ~(j < p) /\ j # p  BY ONLY <2>1, <2>3, p \in Nat, j \in Nat
    <3> QED BY ONLY <3>2, <3>3
  <2> QED BY ONLY <2>2, <2>3
<1> QED BY <1>1, <1>10, <1>11, <1>12, <1>13 DEF Inserted

-----------------------------------------------------------------------------
(* Lists of handlers *)

\* Where a handler is put into a list, and how many are in front then.
Slot(k, h, l, d, p, d2) ==
    IF k[h].sel = 0 THEN p = Len(l) + 1 /\ d2 = d ELSE p = d + 1 /\ d2 = d + 1

\* A list that a handler is put into has it too, and is right.
LEMMA InsertedRight ==
  ASSUME NEW k \in [Handlers -> Kinds], NEW l, NEW d, NEW n, NEW t, NEW us, NEW sp,
         sp \subseteq us, ListRight(k, l, d, n, t, us, sp),
         NEW h \in Handlers \ us, k[h].home = n, k[h].type = t,
         NEW l2 \in Seq(Handlers), NEW p, Inserted(l2, l, p, h),
         NEW d2, Slot(k, h, l, d, p, d2)
  PROVE  /\ ListRight(k, l2, d2, n, t, us \cup {h}, sp)
         /\ l2 # <<>>
<1>s. IF k[h].sel = 0 THEN p = Len(l) + 1 /\ d2 = d ELSE p = d + 1 /\ d2 = d + 1
  BY DEF Slot
<1>1. /\ l \in Seq(Handlers) /\ d \in 0 .. Len(l)
      /\ \A i \in DOMAIN l : k[l[i]].home = n /\ k[l[i]].type = t /\ l[i] \in us \ sp
      /\ IsInjective(l) /\ Split(k, l, d)
  BY DEF ListRight
<1>2. PICK m \in Nat : m = Len(l) /\ DOMAIN l = 1 .. m  BY <1>1
<1>3. /\ p \in 1 .. m + 1 /\ Len(l2) = m + 1 /\ DOMAIN l2 = 1 .. m + 1
      /\ \A j \in 1 .. m + 1 : l2[j] = IF j < p THEN l[j] ELSE IF j = p THEN h ELSE l[j - 1]
  BY <1>2 DEF Inserted
<1>p. p \in 1 .. m + 1  BY <1>3
<1>4. \A j \in 1 .. m + 1 :
         /\ j = p => l2[j] = h
         /\ j < p => j \in 1 .. m /\ l2[j] = l[j]
         /\ j > p => j - 1 \in 1 .. m /\ l2[j] = l[j - 1]
         /\ j = p \/ j < p \/ j > p
  <2> SUFFICES ASSUME NEW j \in 1 .. m + 1
               PROVE  /\ j = p => l2[j] = h
                      /\ j < p => j \in 1 .. m /\ l2[j] = l[j]
                      /\ j > p => j - 1 \in 1 .. m /\ l2[j] = l[j - 1]
                      /\ j = p \/ j < p \/ j > p
    OBVIOUS
  <2>1. /\ j < p => j \in 1 .. m /\ ~(j > p) /\ j # p
        /\ j > p => j - 1 \in 1 .. m /\ ~(j < p) /\ j # p
        /\ j = p => ~(j < p)
        /\ j = p \/ j < p \/ j > p
    BY ONLY m \in Nat, j \in 1 .. m + 1, <1>p
  <2> QED BY ONLY <1>3, <2>1, j \in 1 .. m + 1
<1>5. \A j \in 1 .. m : l[j] \in us \ sp /\ l[j] # h  BY <1>1, <1>2
<1>6. ASSUME NEW j \in DOMAIN l2
      PROVE  k[l2[j]].home = n /\ k[l2[j]].type = t /\ l2[j] \in (us \cup {h}) \ sp
  <2>1. j \in 1 .. m + 1  BY <1>3
  <2>2. l2[j] = h \/ \E i \in 1 .. m : l2[j] = l[i]  BY ONLY <1>4, <2>1
  <2>3. CASE l2[j] = h  BY <2>3
  <2>4. CASE \E i \in 1 .. m : l2[j] = l[i]
    <3>1. PICK i \in DOMAIN l : l2[j] = l[i]  BY <1>2, <2>4
    <3> QED BY <1>1, <3>1
  <2> QED BY <2>2, <2>3, <2>4
<1>7. IsInjective(l2)
  <2> SUFFICES ASSUME NEW i \in 1 .. m + 1, NEW j \in 1 .. m + 1, l2[i] = l2[j] PROVE i = j
    BY <1>3 DEF IsInjective
  <2>1. \A a, b \in 1 .. m : l[a] = l[b] => a = b  BY <1>1, <1>2 DEF IsInjective
  <2>2. CASE i = p  BY ONLY <1>4, <1>5, <2>2, l2[i] = l2[j], i \in 1 .. m + 1, j \in 1 .. m + 1
  <2>3. CASE j = p  BY ONLY <1>4, <1>5, <2>3, l2[i] = l2[j], i \in 1 .. m + 1, j \in 1 .. m + 1
  <2>4. CASE i < p /\ j < p  BY ONLY <1>4, <2>1, <2>4, l2[i] = l2[j], i \in 1 .. m + 1, j \in 1 .. m + 1
  <2>5. CASE i > p /\ j > p
    <3>1. i - 1 \in 1 .. m /\ l2[i] = l[i - 1]  BY ONLY <1>4, <2>5, i \in 1 .. m + 1, j \in 1 .. m + 1
    <3>2. j - 1 \in 1 .. m /\ l2[j] = l[j - 1]  BY ONLY <1>4, <2>5, i \in 1 .. m + 1, j \in 1 .. m + 1
    <3>3. i - 1 = j - 1  BY <2>1, <3>1, <3>2
    <3> QED BY <3>3
  <2>6. CASE i < p /\ j > p
    <3>1. i \in 1 .. m /\ l2[i] = l[i]  BY ONLY <1>4, <2>6, i \in 1 .. m + 1, j \in 1 .. m + 1
    <3>2. j - 1 \in 1 .. m /\ l2[j] = l[j - 1]  BY ONLY <1>4, <2>6, i \in 1 .. m + 1, j \in 1 .. m + 1
    <3>3. i = j - 1  BY <2>1, <3>1, <3>2
    <3> QED BY <1>3, <2>6, <3>3
  <2>7. CASE i > p /\ j < p
    <3>1. i - 1 \in 1 .. m /\ l2[i] = l[i - 1]  BY ONLY <1>4, <2>7, i \in 1 .. m + 1, j \in 1 .. m + 1
    <3>2. j \in 1 .. m /\ l2[j] = l[j]  BY ONLY <1>4, <2>7, i \in 1 .. m + 1, j \in 1 .. m + 1
    <3>3. i - 1 = j  BY <2>1, <3>1, <3>2
    <3> QED BY <1>3, <2>7, <3>3
  <2> QED BY <1>3, <2>2, <2>3, <2>4, <2>5, <2>6, <2>7
<1>8. d2 \in 0 .. m + 1  BY <1>s, <1>1, <1>2
<1>9. Split(k, l2, d2)
  <2> SUFFICES ASSUME NEW j \in 1 .. m + 1 PROVE (k[l2[j]].sel # 0) <=> j <= d2
    BY <1>3 DEF Split
  <2>1. \A i \in 1 .. m : (k[l[i]].sel # 0) <=> i <= d  BY <1>1, <1>2 DEF Split
  <2>2. d \in 0 .. m  BY <1>1, <1>2
  <2>3. CASE k[h].sel = 0
    <3>1. p = m + 1 /\ d2 = d  BY <1>s, <1>2, <2>3
    <3>2. j = p \/ (j \in 1 .. m /\ l2[j] = l[j])  BY <1>4, <3>1
    <3> QED BY <1>4, <2>1, <2>2, <2>3, <3>1, <3>2
  <2>4. CASE k[h].sel # 0
    <3>1. p = d + 1 /\ d2 = d + 1  BY <1>s, <2>4
    <3>2. CASE j = p  BY <1>4, <2>4, <3>1, <3>2
    <3>3. CASE j < p
      <4>1. j \in 1 .. m /\ l2[j] = l[j]  BY ONLY <1>4, <3>3, j \in 1 .. m + 1
      <4> QED BY <2>1, <2>2, <3>1, <3>3, <4>1
    <3>4. CASE j > p
      <4>1. j - 1 \in 1 .. m /\ l2[j] = l[j - 1]  BY ONLY <1>4, <3>4, j \in 1 .. m + 1
      <4> QED BY <2>1, <2>2, <3>1, <3>4, <4>1
    <3> QED BY <1>3, <3>2, <3>3, <3>4
  <2> QED BY <2>3, <2>4
<1> QED BY <1>3, <1>6, <1>7, <1>8, <1>9 DEF ListRight

\* A list stays right while more handlers are bound, and handlers that it does not
\* have are unbound.
LEMMA ListStays ==
  ASSUME NEW k, NEW l, NEW d, NEW n, NEW t, NEW us, NEW sp, ListRight(k, l, d, n, t, us, sp),
         NEW us2, us \subseteq us2
  PROVE  ListRight(k, l, d, n, t, us2, sp)
BY DEF ListRight

\* The numbers of a list up to which strictly increasing places are not above d.
LEMMA Cut ==
  ASSUME NEW m \in Nat, NEW p \in [1 .. m -> Nat], NEW d \in Nat,
         \A i, j \in 1 .. m : i < j => p[i] < p[j]
  PROVE  \E e \in 0 .. m : \A i \in 1 .. m : p[i] <= d <=> i <= e
<1>1. PICK S : S = {i \in 1 .. m + 1 : i = m + 1 \/ p[i] > d}  OBVIOUS
<1>2. S \in SUBSET Nat /\ S # {}
  <2>1. m + 1 \in S  BY <1>1
  <2> QED BY <1>1, <2>1
<1>3. PICK c \in S : \A i \in S : c <= i  BY <1>2, LeastMember
<1>4. c \in 1 .. m + 1 /\ (c = m + 1 \/ p[c] > d)  BY <1>1
<1>5. ASSUME NEW i \in 1 .. m PROVE p[i] <= d <=> i <= c - 1
  <2>1. p[i] \in Nat  OBVIOUS
  <2>2. CASE i < c
    <3>1. i \notin S  BY <1>2, <1>3, <2>2
    <3> QED BY <1>1, <1>4, <2>1, <2>2, <3>1
  <2>3. CASE i >= c
    <3>1. c \in 1 .. m /\ p[c] > d /\ p[c] \in Nat  BY <1>4, <2>3
    <3>2. i = c \/ p[c] < p[i]  BY <2>3, <3>1
    <3> QED BY <1>4, <2>1, <2>3, <3>1, <3>2
  <2> QED BY <1>4, <2>2, <2>3
<1>6. c - 1 \in 0 .. m  BY <1>4
<1> QED BY <1>5, <1>6

\* As many handlers as places.
LEMMA CountPlaces ==
  ASSUME NEW l, IsInjective(l), NEW e \in Nat, 1 .. e \subseteq DOMAIN l
  PROVE  IsFiniteSet({l[i] : i \in 1 .. e}) /\ Cardinality({l[i] : i \in 1 .. e}) = e
<1>1. PICK S, T : S = 1 .. e /\ T = {l[i] : i \in 1 .. e}  OBVIOUS
<1>2. PICK f : f = [i \in S |-> l[i]]  OBVIOUS
<1>3. f \in Bijection(S, T)
  <2>1. f \in [S -> T] /\ \A i, j \in S : f[i] = f[j] => i = j  BY <1>1, <1>2 DEF IsInjective
  <2>2. \A y \in T : \E x \in S : f[x] = y  BY <1>1, <1>2
  <2> QED BY <2>1, <2>2, Fun_IsBij
<1>4. ExistsBijection(S, T)  BY <1>3 DEF ExistsBijection
<1>5. IsFiniteSet(S) /\ Cardinality(S) = e  BY <1>1, FS_Interval
<1> QED BY ONLY <1>1, <1>4, <1>5, FS_Bijection

\* What is left of a list: what is not gone, once if it was there once.
LEMMA WithoutKeeps ==
  ASSUME NEW T, NEW s \in Seq(T), NEW gone
  PROVE  /\ Without(s, gone) \in Seq(T)
         /\ ToSet(Without(s, gone)) = ToSet(s) \ gone
         /\ IsInjective(s) => IsInjective(Without(s, gone))
<1>1. PICK m \in Nat : m = Len(s) /\ DOMAIN s = 1 .. m  OBVIOUS
<1>2. PICK w \in Seq(T) : w = Without(s, gone)  BY WithoutPlaces
<1>3. PICK r \in Nat : r = Len(w) /\ DOMAIN w = 1 .. r  OBVIOUS
<1>4. PICK p : /\ p \in [1 .. r -> 1 .. m]
               /\ \A i \in 1 .. r : w[i] = s[p[i]] /\ s[p[i]] \notin gone
               /\ \A i, j \in 1 .. r : i < j => p[i] < p[j]
               /\ \A j \in 1 .. m : s[j] \notin gone => \E i \in 1 .. r : p[i] = j
  <2>1. PICK p : Places(Without(s, gone), s, gone, p)  BY ONLY s \in Seq(T), WithoutPlaces
  <2>2. Places(w, s, gone, p)  BY ONLY <1>2, <2>1
  <2>len. Len(w) = r /\ Len(s) = m  BY ONLY <1>1, <1>3
  <2>a. p \in [1 .. r -> 1 .. m]  BY ONLY <2>len, <2>2 DEF Places
  <2>b. \A i \in 1 .. r : w[i] = s[p[i]] /\ s[p[i]] \notin gone
    BY ONLY <2>len, <2>2 DEF Places
  <2>c. \A i, j \in 1 .. r : i < j => p[i] < p[j]  BY ONLY <2>len, <2>2 DEF Places
  <2>d. \A j \in 1 .. m : s[j] \notin gone => \E i \in 1 .. r : p[i] = j
    BY ONLY <2>len, <2>2 DEF Places
  <2> QED BY ONLY <2>a, <2>b, <2>c, <2>d
<1>5. \A i \in 1 .. r : p[i] \in 1 .. m  BY <1>4
<1>6. ToSet(w) = ToSet(s) \ gone
  <2>1. ASSUME NEW h \in ToSet(w) PROVE h \in ToSet(s) \ gone
    <3>1. PICK i \in 1 .. r : h = w[i]  BY <1>3 DEF ToSet
    <3>2. p[i] \in DOMAIN s /\ h = s[p[i]] /\ h \notin gone  BY <1>1, <1>4, <1>5, <3>1
    <3> QED BY <3>2 DEF ToSet
  <2>2. ASSUME NEW h \in ToSet(s) \ gone PROVE h \in ToSet(w)
    <3>1. PICK j \in 1 .. m : h = s[j]  BY <1>1 DEF ToSet
    <3>2. PICK i \in 1 .. r : p[i] = j  BY <1>4, <3>1
    <3>3. h = w[i] /\ i \in DOMAIN w  BY <1>3, <1>4, <3>1, <3>2
    <3> QED BY <3>3 DEF ToSet
  <2> QED BY <2>1, <2>2
<1>7. ASSUME IsInjective(s) PROVE IsInjective(w)
  <2> SUFFICES ASSUME NEW i \in 1 .. r, NEW j \in 1 .. r, w[i] = w[j], i # j PROVE FALSE
    BY <1>3 DEF IsInjective
  <2>1. s[p[i]] = s[p[j]] /\ p[i] \in 1 .. m /\ p[j] \in 1 .. m  BY <1>4, <1>5
  <2>2. p[i] = p[j]  BY <1>1, <1>7, <2>1 DEF IsInjective
  <2>3. i < j \/ j < i  OBVIOUS
  <2>4. p[i] < p[j] \/ p[j] < p[i]  BY ONLY <1>4, <2>3, i \in 1 .. r, j \in 1 .. r
  <2> QED BY <2>1, <2>2, <2>4
<1> QED BY <1>2, <1>6, <1>7

\* What is left of a list is right, and is the handlers that are not gone.
LEMMA WithoutRight ==
  ASSUME NEW k \in [Handlers -> Kinds], NEW l, NEW d, NEW n, NEW t, NEW us, NEW sp,
         ListRight(k, l, d, n, t, us, sp), NEW gone
  PROVE  /\ ListRight(k, Without(l, gone),
                      d - Cardinality({h \in ToSet(l) \cap gone : k[h].sel # 0}), n, t, us, sp \cup gone)
         /\ ToSet(Without(l, gone)) = ToSet(l) \ gone
<1>1. /\ l \in Seq(Handlers) /\ d \in 0 .. Len(l)
      /\ \A i \in DOMAIN l : k[l[i]].home = n /\ k[l[i]].type = t /\ l[i] \in us \ sp
      /\ IsInjective(l) /\ Split(k, l, d)
  BY DEF ListRight
<1>2. PICK m \in Nat : m = Len(l) /\ DOMAIN l = 1 .. m  BY <1>1
<1>3. PICK w \in Seq(Handlers) : w = Without(l, gone)  BY <1>1, WithoutPlaces
<1>4. PICK r \in Nat : r = Len(w) /\ DOMAIN w = 1 .. r  OBVIOUS
<1>5. PICK p : /\ p \in [1 .. r -> 1 .. m]
               /\ \A i \in 1 .. r : w[i] = l[p[i]] /\ l[p[i]] \notin gone
               /\ \A i, j \in 1 .. r : i < j => p[i] < p[j]
               /\ \A j \in 1 .. m : l[j] \notin gone => \E i \in 1 .. r : p[i] = j
  <2>1. l \in Seq(Handlers)  BY <1>1
  <2>2. PICK p : Places(Without(l, gone), l, gone, p)  BY ONLY <2>1, WithoutPlaces
  <2>3. Places(w, l, gone, p)  BY ONLY <1>3, <2>2
  <2>len. Len(w) = r /\ Len(l) = m  BY ONLY <1>2, <1>4
  <2>a. p \in [1 .. r -> 1 .. m]  BY ONLY <2>len, <2>3 DEF Places
  <2>b. \A i \in 1 .. r : w[i] = l[p[i]] /\ l[p[i]] \notin gone
    BY ONLY <2>len, <2>3 DEF Places
  <2>c. \A i, j \in 1 .. r : i < j => p[i] < p[j]  BY ONLY <2>len, <2>3 DEF Places
  <2>d. \A j \in 1 .. m : l[j] \notin gone => \E i \in 1 .. r : p[i] = j
    BY ONLY <2>len, <2>3 DEF Places
  <2> QED BY ONLY <2>a, <2>b, <2>c, <2>d
<1>p. \A i \in 1 .. r : p[i] \in 1 .. m  BY <1>5
<1>6. ToSet(w) = ToSet(l) \ gone  BY <1>1, <1>3, WithoutKeeps
<1>7. ASSUME NEW i \in 1 .. r
      PROVE  k[w[i]].home = n /\ k[w[i]].type = t /\ w[i] \in us \ (sp \cup gone)
  <2>1. p[i] \in DOMAIN l /\ w[i] = l[p[i]] /\ l[p[i]] \notin gone  BY <1>2, <1>5, <1>p
  <2> QED BY <1>1, <2>1
<1>8. IsInjective(w)  BY <1>1, <1>3, WithoutKeeps
<1>9. PICK e \in 0 .. r : \A i \in 1 .. r : p[i] <= d <=> i <= e
  <2>1. p \in [1 .. r -> Nat]  BY <1>5
  <2>2. d \in Nat  BY <1>1
  <2>3. \A i, j \in 1 .. r : i < j => p[i] < p[j]  BY ONLY <1>5
  <2> QED BY ONLY r \in Nat, <2>1, <2>2, <2>3, Cut
<1>10. Split(k, w, e)
  <2> SUFFICES ASSUME NEW i \in 1 .. r PROVE (k[w[i]].sel # 0) <=> i <= e
    BY <1>4 DEF Split
  <2>1. p[i] \in DOMAIN l /\ w[i] = l[p[i]]  BY <1>2, <1>5, <1>p
  <2>2. (k[l[p[i]]].sel # 0) <=> p[i] <= d  BY <1>1, <2>1 DEF Split
  <2> QED BY <1>9, <2>1, <2>2
<1>11. PICK A, B, C : /\ A = {h \in ToSet(l) : k[h].sel # 0}
                      /\ B = {h \in ToSet(l) \cap gone : k[h].sel # 0}
                      /\ C = {h \in ToSet(w) : k[h].sel # 0}
  OBVIOUS
<1>12. IsFiniteSet(A) /\ Cardinality(A) = d
  <2>1. A = {l[i] : i \in 1 .. d}
    <3>1. ASSUME NEW h \in A PROVE \E i \in 1 .. d : h = l[i]
      <4>1. PICK i \in 1 .. m : h = l[i]  BY <1>2, <1>11 DEF ToSet
      <4>2. i <= d  BY <1>1, <1>2, <1>11, <4>1 DEF Split
      <4>3. i \in 1 .. d  BY <1>1, <4>2
      <4> QED BY <4>1, <4>3
    <3>2. ASSUME NEW i \in 1 .. d PROVE l[i] \in A
      <4>1. i \in DOMAIN l /\ i <= d  BY <1>1, <1>2
      <4> QED BY <1>1, <1>11, <4>1 DEF Split, ToSet
    <3> QED BY <3>1, <3>2
  <2>2. d \in Nat /\ 1 .. d \subseteq DOMAIN l  BY <1>1, <1>2
  <2> QED BY <1>1, <2>1, <2>2, CountPlaces
<1>13. IsFiniteSet(C) /\ Cardinality(C) = e
  <2>1. C = {w[i] : i \in 1 .. e}
    <3>1. ASSUME NEW h \in C PROVE \E i \in 1 .. e : h = w[i]
      <4>1. PICK i \in 1 .. r : h = w[i]  BY <1>4, <1>11 DEF ToSet
      <4>2. i <= e  BY <1>4, <1>10, <1>11, <4>1 DEF Split
      <4>3. i \in 1 .. e  BY <1>9, <4>2
      <4> QED BY <4>1, <4>3
    <3>2. ASSUME NEW i \in 1 .. e PROVE w[i] \in C
      <4>1. i \in DOMAIN w /\ i <= e  BY <1>4, <1>9
      <4> QED BY <1>10, <1>11, <4>1 DEF Split, ToSet
    <3> QED BY <3>1, <3>2
  <2>2. e \in Nat /\ 1 .. e \subseteq DOMAIN w  BY <1>4, <1>9
  <2> QED BY <1>8, <2>1, <2>2, CountPlaces
<1>14. d - Cardinality(B) = e
  <2>1. C = A \ B /\ B \subseteq A  BY <1>6, <1>11
  <2>2. B \in SUBSET A /\ A \cap B = B  BY <2>1
  <2>3. IsFiniteSet(B)  BY <1>12, <2>2, FS_Subset
  <2>4. Cardinality(A \ B) = Cardinality(A) - Cardinality(A \cap B)  BY <1>12, FS_Difference
  <2>5. Cardinality(B) \in Nat  BY <2>3, FS_CardinalityType
  <2>6. d \in Int /\ e \in Int  BY <1>1, <1>9
  <2> QED BY <1>12, <1>13, <2>1, <2>2, <2>4, <2>5, <2>6
<1>15. ListRight(k, w, e, n, t, us, sp \cup gone)
  BY <1>4, <1>7, <1>8, <1>9, <1>10 DEF ListRight
<1> QED BY <1>3, <1>6, <1>11, <1>14, <1>15

-----------------------------------------------------------------------------
(* The queue of a dispatch *)

\* Lists one after the other have the elements of both, each once if they share none.
LEMMA ConcatKeeps ==
  ASSUME NEW T, NEW u \in Seq(T), NEW v \in Seq(T)
  PROVE  /\ u \o v \in Seq(T)
         /\ ToSet(u \o v) = ToSet(u) \cup ToSet(v)
         /\ IsInjective(u) /\ IsInjective(v) /\ ToSet(u) \cap ToSet(v) = {} => IsInjective(u \o v)
<1>1. PICK a \in Nat, b \in Nat : a = Len(u) /\ b = Len(v) /\ DOMAIN u = 1 .. a /\ DOMAIN v = 1 .. b
  OBVIOUS
<1>2. PICK w \in Seq(T) : w = u \o v  BY ConcatProperties
<1>3. /\ DOMAIN w = 1 .. a + b
      /\ \A i \in 1 .. a + b : w[i] = IF i <= a THEN u[i] ELSE v[i - a]
  BY <1>1, <1>2, ConcatProperties
<1>4. \A i \in 1 .. a + b : /\ i <= a => i \in 1 .. a /\ w[i] = u[i]
                            /\ ~(i <= a) => i - a \in 1 .. b /\ w[i] = v[i - a]
  BY <1>3
<1>5. \A i \in 1 .. a : i \in 1 .. a + b /\ w[i] = u[i]
  <2>1. \A i \in 1 .. a : i \in 1 .. a + b /\ i <= a  OBVIOUS
  <2> QED BY <1>3, <2>1
<1>6. \A i \in 1 .. b : a + i \in 1 .. a + b /\ w[a + i] = v[i]
  <2>1. \A i \in 1 .. b : a + i \in 1 .. a + b /\ ~(a + i <= a) /\ (a + i) - a = i  OBVIOUS
  <2> QED BY <1>3, <2>1
<1>7. ToSet(w) = ToSet(u) \cup ToSet(v)
  <2>1. ASSUME NEW x \in ToSet(w) PROVE x \in ToSet(u) \cup ToSet(v)
    <3>1. PICK i \in 1 .. a + b : x = w[i]  BY <1>3 DEF ToSet
    <3>2. CASE i <= a
      <4>1. i \in DOMAIN u /\ x = u[i]  BY <1>1, <1>4, <3>1, <3>2
      <4> QED BY <4>1 DEF ToSet
    <3>3. CASE ~(i <= a)
      <4>1. i - a \in DOMAIN v /\ x = v[i - a]  BY <1>1, <1>4, <3>1, <3>3
      <4> QED BY <4>1 DEF ToSet
    <3> QED BY <3>2, <3>3
  <2>2. ASSUME NEW x \in ToSet(u) PROVE x \in ToSet(w)
    <3>1. PICK i \in 1 .. a : x = u[i]  BY <1>1 DEF ToSet
    <3>2. i \in DOMAIN w /\ x = w[i]  BY <1>3, <1>5, <3>1
    <3> QED BY <3>2 DEF ToSet
  <2>3. ASSUME NEW x \in ToSet(v) PROVE x \in ToSet(w)
    <3>1. PICK i \in 1 .. b : x = v[i]  BY <1>1 DEF ToSet
    <3>2. a + i \in DOMAIN w /\ x = w[a + i]  BY <1>3, <1>6, <3>1
    <3> QED BY <3>2 DEF ToSet
  <2> QED BY <2>1, <2>2, <2>3
<1>8. ASSUME IsInjective(u), IsInjective(v), ToSet(u) \cap ToSet(v) = {} PROVE IsInjective(w)
  <2>1. \A i \in 1 .. a, j \in 1 .. b : u[i] # v[j]
    <3>1. \A i \in 1 .. a, j \in 1 .. b : u[i] \in ToSet(u) /\ v[j] \in ToSet(v)  BY <1>1 DEF ToSet
    <3> QED BY <1>8, <3>1
  <2>2. /\ \A i, j \in 1 .. a : u[i] = u[j] => i = j
        /\ \A i, j \in 1 .. b : v[i] = v[j] => i = j
    BY <1>1, <1>8 DEF IsInjective
  <2> SUFFICES ASSUME NEW i \in 1 .. a + b, NEW j \in 1 .. a + b, w[i] = w[j] PROVE i = j
    BY <1>3 DEF IsInjective
  <2>3. CASE i <= a /\ j <= a  BY <1>4, <2>2, <2>3
  <2>4. CASE ~(i <= a) /\ ~(j <= a)
    <3>1. i - a = j - a  BY <1>4, <2>2, <2>4
    <3> QED BY <3>1
  <2>5. CASE i <= a /\ ~(j <= a)  BY <1>4, <2>1, <2>5
  <2>6. CASE ~(i <= a) /\ j <= a  BY <1>4, <2>1, <2>6
  <2> QED BY <2>3, <2>4, <2>5, <2>6
<1> QED BY <1>2, <1>7, <1>8

\* And so have many lists.
Apart(q, n) ==
    /\ \A j \in 1 .. n : IsInjective(q[j])
    /\ \A i, j \in 1 .. n : i # j => ToSet(q[i]) \cap ToSet(q[j]) = {}

LEMMA FlattenKeeps ==
  ASSUME NEW T, NEW n \in Nat, NEW q \in [1 .. n -> Seq(T)]
  PROVE  /\ FlattenSeq(q) \in Seq(T)
         /\ ToSet(FlattenSeq(q)) = UNION {ToSet(q[j]) : j \in 1 .. n}
         /\ Apart(q, n) => IsInjective(FlattenSeq(q))
<1>q. q \in Seq(Seq(T)) /\ Len(q) = n  OBVIOUS
<1>1. CASE n = 0
  <2>1. FlattenSeq(q) = q  BY <1>q, <1>1 DEF FlattenSeq
  <2>2. q = <<>> /\ q \in Seq(T) /\ DOMAIN q = {}  BY <1>q, <1>1
  <2>3. ToSet(q) = {} /\ IsInjective(q)  BY <2>2 DEF ToSet, IsInjective
  <2>4. UNION {ToSet(q[j]) : j \in 1 .. n} = {}  BY <1>1
  <2> QED BY ONLY <2>1, <2>2, <2>3, <2>4
<1>2. CASE n # 0
  <2> DEFINE Flat(f) == [i \in 1 .. Len(q) |-> IF i = 1 THEN q[i] ELSE f[i - 1] \o q[i]]
  <2>1. PICK step : step = [x \in (1 .. n) \X Seq(T) |-> x[2] \o q[x[1]]]  OBVIOUS
  <2>2. step \in Steps(n, Seq(T))
    <3>1. \A i \in 1 .. n, r \in Seq(T) : r \o q[i] \in Seq(T)  BY ConcatProperties
    <3> QED BY <2>1, <3>1 DEF Steps
  <2>3. PICK g : Stepwise(g, n, Seq(T), <<>>, step)
    <3>1. <<>> \in Seq(T)  OBVIOUS
    <3> QED BY ONLY n \in Nat, <2>2, <3>1, Iterates
  <2>4. \A i \in 0 .. n : g[i] \in Seq(T)  BY <2>3 DEF Stepwise
  <2>5. ASSUME NEW i \in 1 .. n PROVE g[i] = g[i - 1] \o q[i]
    <3>1. i - 1 \in 0 .. n  OBVIOUS
    <3>2. <<i, g[i - 1]>> \in (1 .. n) \X Seq(T)  BY <2>4, <3>1
    <3>3. g[i] = step[<<i, g[i - 1]>>]  BY <2>3 DEF Stepwise
    <3> QED BY <2>1, <3>2, <3>3
  <2>6. g[0] = <<>>  BY <2>3 DEF Stepwise
  <2>7. g[1] = q[1]
    <3>1. 1 \in 1 .. n /\ 1 - 1 = 0  BY <1>2
    <3>2. g[1] = <<>> \o q[1]  BY <2>5, <2>6, <3>1
    <3>3. q[1] \in Seq(T)  BY <3>1
    <3> QED BY <3>2, <3>3, ConcatEmptySeq
  <2>8. PICK f : f = [i \in 1 .. n |-> g[i]]  OBVIOUS
  <2>9. f = Flat(f)
    <3>1. ASSUME NEW i \in 1 .. n PROVE g[i] = IF i = 1 THEN q[i] ELSE f[i - 1] \o q[i]
      <4>1. i # 1 => i - 1 \in 1 .. n  OBVIOUS
      <4> QED BY <2>5, <2>7, <2>8, <4>1
    <3> QED BY <1>q, <2>8, <3>1
  <2>10. PICK h : h = Flat(h) /\ FlattenSeq(q) = h[n]
    <3>1. PICK h : h = CHOOSE x : x = Flat(x)  OBVIOUS
    <3>2. h = Flat(h)  BY <2>9, <3>1
    <3>3. FlattenSeq(q) = h[n]
      <4>1. Len(q) # 0  BY <1>q, <1>2
      <4>2. FlattenSeq(q) = h[Len(q)]  BY <3>1, <4>1 DEF FlattenSeq
      <4> QED BY <1>q, <4>2
    <3> QED BY <3>2, <3>3
  <2>11. \A i \in 1 .. n : h[i] = IF i = 1 THEN q[i] ELSE h[i - 1] \o q[i]
    <3>1. PICK r : r = Flat(h)  OBVIOUS
    <3>2. \A i \in 1 .. n : r[i] = IF i = 1 THEN q[i] ELSE h[i - 1] \o q[i]  BY <1>q, <3>1
    <3> QED BY <2>10, <3>1, <3>2
  <2> HIDE DEF Flat
  <2> DEFINE Kept(m) == /\ h[m] \in Seq(T)
                        /\ ToSet(h[m]) = UNION {ToSet(q[j]) : j \in 1 .. m}
                        /\ Apart(q, m) => IsInjective(h[m])
  <2>12. PICK G : G = {m \in 0 .. n : m = 0 \/ Kept(m)}  OBVIOUS
  <2>13. ASSUME NEW m \in 1 .. n, m - 1 \in G PROVE Kept(m)
    <3>1. CASE m = 1
      <4>1. h[1] = q[1] /\ q[1] \in Seq(T)  BY <2>11, <3>1
      <4>2. UNION {ToSet(q[j]) : j \in 1 .. 1} = ToSet(q[1])
        <5>1. 1 .. 1 = {1}  OBVIOUS
        <5> QED BY <5>1
      <4>3. Apart(q, 1) => IsInjective(q[1])  BY DEF Apart
      <4> QED BY <3>1, <4>1, <4>2, <4>3
    <3>2. CASE m # 1
      <4>1. PICK l : l = m - 1 /\ l \in 1 .. n /\ l # 0 /\ m = l + 1  BY <3>2
      <4>2. Kept(l)  BY <2>12, <2>13, <4>1
      <4>3. h[m] = h[l] \o q[m]  BY <2>11, <3>2, <4>1
      <4>4. 1 .. m = (1 .. l) \cup {m}  BY <4>1
      <4>5. PICK u \in Seq(T), v \in Seq(T) : u = h[l] /\ v = q[m]  BY <4>2
      <4>6. /\ h[m] \in Seq(T) /\ ToSet(h[m]) = ToSet(u) \cup ToSet(v)
            /\ IsInjective(u) /\ IsInjective(v) /\ ToSet(u) \cap ToSet(v) = {} => IsInjective(h[m])
        BY <4>3, <4>5, ConcatKeeps
      <4>7. ToSet(h[m]) = UNION {ToSet(q[j]) : j \in 1 .. m}  BY <4>2, <4>4, <4>5, <4>6
      <4>8. ASSUME Apart(q, m) PROVE IsInjective(h[m])
        <5>1. Apart(q, l) /\ IsInjective(v)  BY <4>4, <4>5, <4>8 DEF Apart
        <5>2. \A j \in 1 .. l : ToSet(q[j]) \cap ToSet(q[m]) = {}
          <6>1. \A j \in 1 .. l : j \in 1 .. m /\ m \in 1 .. m /\ j # m  BY <4>1
          <6> QED BY <4>8, <6>1 DEF Apart
        <5>3. ToSet(u) \cap ToSet(v) = {}  BY <4>2, <4>5, <5>2
        <5> QED BY <4>2, <4>5, <4>6, <5>1, <5>3
      <4> QED BY <4>6, <4>7, <4>8
    <3> QED BY <3>1, <3>2
  <2>14. \A m \in 0 .. n : m \in G
    <3> HIDE DEF Kept
    <3>1. 0 \in G  BY <2>12
    <3>2. \A m \in 1 .. n : m - 1 \in G => m \in G
      <4>1. \A m \in 1 .. n : m \in 0 .. n  OBVIOUS
      <4> QED BY <2>12, <2>13, <4>1
    <3> QED BY ONLY n \in Nat, <3>1, <3>2, UpTo
  <2>15. Kept(n)
    <3>1. n \in 0 .. n  OBVIOUS
    <3> HIDE DEF Kept
    <3> QED BY <1>2, <2>12, <2>14, <3>1
  <2> QED BY <2>10, <2>15
<1> QED BY <1>1, <1>2

\* A piece of a list,
LEMMA PieceKeeps ==
  ASSUME NEW T, NEW s \in Seq(T), NEW a \in Nat \ {0}, NEW b \in 0 .. Len(s)
  PROVE  /\ SubSeq(s, a, b) \in Seq(T)
         /\ ToSet(SubSeq(s, a, b)) = {s[i] : i \in a .. b}
         /\ IsInjective(s) => IsInjective(SubSeq(s, a, b))
<1>1. PICK m \in Nat : m = Len(s) /\ DOMAIN s = 1 .. m  OBVIOUS
<1>2. PICK w : w = SubSeq(s, a, b)  OBVIOUS
<1>3. \A i \in a .. b : i \in 1 .. m  BY <1>1
<1>4. /\ w \in Seq(T)
      /\ Len(w) = IF a <= b THEN b - a + 1 ELSE 0
      /\ \A i \in 1 .. b - a + 1 : w[i] = s[a + i - 1]
  <2>1. \A i \in a .. b : s[i] \in T  BY <1>1, <1>3
  <2>2. a \in Int /\ b \in Int  OBVIOUS
  <2> QED BY ONLY <1>2, <2>1, <2>2, SubSeqProperties
<1>5. DOMAIN w = 1 .. b - a + 1  BY <1>4
<1>6. ToSet(w) = {s[i] : i \in a .. b}
  <2>1. ASSUME NEW x \in ToSet(w) PROVE x \in {s[i] : i \in a .. b}
    <3>1. PICK i \in 1 .. b - a + 1 : x = w[i]  BY <1>5 DEF ToSet
    <3>2. a + i - 1 \in a .. b  BY <1>1
    <3> QED BY <1>4, <3>1, <3>2
  <2>2. ASSUME NEW i \in a .. b PROVE s[i] \in ToSet(w)
    <3>1. PICK j : j = i - a + 1 /\ j \in 1 .. b - a + 1 /\ a + j - 1 = i  BY <1>1
    <3>2. w[j] = s[i]  BY <1>4, <3>1
    <3>3. j \in DOMAIN w  BY <1>5, <3>1
    <3> QED BY <3>2, <3>3 DEF ToSet
  <2> QED BY <2>1, <2>2
<1>7. ASSUME IsInjective(s) PROVE IsInjective(w)
  <2> SUFFICES ASSUME NEW i \in 1 .. b - a + 1, NEW j \in 1 .. b - a + 1, w[i] = w[j] PROVE i = j
    BY <1>5 DEF IsInjective
  <2>1. PICK x, y : x = a + i - 1 /\ y = a + j - 1  OBVIOUS
  <2>2. x \in 1 .. m /\ y \in 1 .. m  BY <1>1, <2>1
  <2>3. s[x] = s[y]  BY <1>4, <2>1
  <2>4. x = y  BY <1>1, <1>7, <2>2, <2>3 DEF IsInjective
  <2> QED BY <2>1, <2>4
<1> QED BY <1>2, <1>4, <1>6, <1>7

\* and a list of handlers with the node they are called for.
Paired(e, hs) == [i \in DOMAIN hs |-> <<e, hs[i]>>]

LEMMA PairedKeeps ==
  ASSUME NEW e, NEW hs \in Seq(Handlers)
  PROVE  /\ \A N : e \in N => Paired(e, hs) \in Seq(N \X Handlers)
         /\ ToSet(Paired(e, hs)) = {<<e, h>> : h \in ToSet(hs)}
         /\ IsInjective(hs) => IsInjective(Paired(e, hs))
<1>1. PICK m \in Nat : m = Len(hs) /\ DOMAIN hs = 1 .. m  OBVIOUS
<1>2. PICK w : w = [i \in 1 .. m |-> <<e, hs[i]>>]  OBVIOUS
<1>3. w = Paired(e, hs)  BY <1>1, <1>2 DEF Paired
<1>4. ASSUME NEW N, e \in N PROVE w \in Seq(N \X Handlers)
  <2>1. \A i \in 1 .. m : <<e, hs[i]>> \in N \X Handlers  BY <1>1, <1>4
  <2> QED BY <1>2, <2>1
<1>5. ToSet(w) = {<<e, h>> : h \in ToSet(hs)}
  <2>1. ToSet(w) = {<<e, hs[i]>> : i \in 1 .. m}  BY <1>2 DEF ToSet
  <2>2. ToSet(hs) = {hs[i] : i \in 1 .. m}  BY <1>1 DEF ToSet
  <2> QED BY <2>1, <2>2
<1>6. ASSUME IsInjective(hs) PROVE IsInjective(w)
  <2> SUFFICES ASSUME NEW i \in 1 .. m, NEW j \in 1 .. m, w[i] = w[j] PROVE i = j
    BY <1>2 DEF IsInjective
  <2>1. hs[i] = hs[j]  BY <1>2
  <2> QED BY <1>1, <1>6, <2>1 DEF IsInjective
<1> QED BY <1>3, <1>4, <1>5, <1>6

\* The queue of a dispatch at node n has handlers of n, each once, and those that
\* were bound directly for n itself.
LEMMA QueueRight ==
  ASSUME DepthAssumption, kind \in [Handlers -> Kinds], Listed(kind, list, delegates, used, spent),
         NEW n \in Nodes, NEW t \in Types, NEW target \in 1 .. n
  PROVE  /\ HandlerQueue(n, t, target) \in Seq(Nodes \X Handlers)
         /\ \A c \in ToSet(HandlerQueue(n, t, target)) :
               c[2] \in used \ spent /\ kind[c[2]].home = n
         /\ IsInjective(HandlerQueue(n, t, target))
         /\ \A h \in ToSet(SubSeq(list[n][t], delegates[n][t] + 1, Len(list[n][t]))) :
               <<n, h>> \in ToSet(HandlerQueue(n, t, target))
<1>0. Depth \in Nat /\ n \in 1 .. Depth /\ Nodes = 1 .. Depth  BY DEF DepthAssumption, Nodes
<1>1. PICK s \in Seq(Handlers), d \in Nat : s = list[n][t] /\ d = delegates[n][t] /\ d <= Len(s)
  BY DEF Listed, ListRight
<1>2. IsInjective(s)  BY <1>1 DEF Listed, ListRight
<1>3. \A h \in ToSet(s) : h \in used \ spent /\ kind[h].home = n
  BY <1>1 DEF Listed, ListRight, ToSet
<1>4. PICK front : front = SubSeq(s, 1, d)  OBVIOUS
<1>5. front \in Seq(Handlers) /\ IsInjective(front) /\ ToSet(front) \subseteq ToSet(s)
  <2>1. d \in 0 .. Len(s) /\ 1 \in Nat \ {0}  BY <1>1
  <2>2. /\ front \in Seq(Handlers) /\ ToSet(front) = {s[i] : i \in 1 .. d}
        /\ IsInjective(s) => IsInjective(front)
    <3>1. /\ SubSeq(s, 1, d) \in Seq(Handlers) /\ ToSet(SubSeq(s, 1, d)) = {s[i] : i \in 1 .. d}
          /\ IsInjective(s) => IsInjective(SubSeq(s, 1, d))
      BY ONLY <2>1, s \in Seq(Handlers), PieceKeeps
    <3> QED BY ONLY <1>4, <3>1
  <2>3. 1 .. d \subseteq DOMAIN s  BY <1>1
  <2> QED BY <1>2, <2>2, <2>3 DEF ToSet
<1>6. PICK direct : direct = SubSeq(s, d + 1, Len(s))  OBVIOUS
<1>7. direct \in Seq(Handlers) /\ IsInjective(direct) /\ ToSet(direct) \subseteq ToSet(s)
  <2>1. d + 1 \in Nat \ {0} /\ Len(s) \in 0 .. Len(s)  BY <1>1
  <2>2. /\ direct \in Seq(Handlers) /\ ToSet(direct) = {s[i] : i \in d + 1 .. Len(s)}
        /\ IsInjective(s) => IsInjective(direct)
    <3>1. /\ SubSeq(s, d + 1, Len(s)) \in Seq(Handlers)
          /\ ToSet(SubSeq(s, d + 1, Len(s))) = {s[i] : i \in d + 1 .. Len(s)}
          /\ IsInjective(s) => IsInjective(SubSeq(s, d + 1, Len(s)))
      BY ONLY <2>1, s \in Seq(Handlers), PieceKeeps
    <3> QED BY ONLY <1>6, <3>1
  <2>3. d + 1 .. Len(s) \subseteq DOMAIN s  BY <1>1
  <2> QED BY <1>2, <2>2, <2>3 DEF ToSet
<1> DEFINE Gone(e) == {h \in Handlers : kind[h].sel # e}
           Below(e) == Paired(e, Without(front, Gone(e)))
<1>8. ASSUME NEW e \in 1 .. n
      PROVE  /\ Below(e) \in Seq(Nodes \X Handlers)
             /\ \A c \in ToSet(Below(e)) : c[1] = e /\ c[2] \in ToSet(s)
             /\ IsInjective(Below(e))
  <2>1. PICK w \in Seq(Handlers) : w = Without(front, Gone(e))  BY <1>5, WithoutKeeps
  <2>2. ToSet(w) \subseteq ToSet(s) /\ IsInjective(w)
    <3>1. ToSet(w) = ToSet(front) \ Gone(e) /\ (IsInjective(front) => IsInjective(w))
      <4> HIDE DEF Gone
      <4> QED BY ONLY <1>5, <2>1, WithoutKeeps
    <3> QED BY <1>5, <3>1
  <2>3. e \in Nodes  BY <1>0
  <2>4. /\ Paired(e, w) \in Seq(Nodes \X Handlers)
        /\ ToSet(Paired(e, w)) = {<<e, h>> : h \in ToSet(w)}
        /\ IsInjective(Paired(e, w))
    BY ONLY <2>2, <2>3, w \in Seq(Handlers), PairedKeeps
  <2> QED BY <2>1, <2>2, <2>4
<1>9. PICK q : q = [i \in 1 .. n - target |-> Below(target + i - 1)]  OBVIOUS
<1>10. HandlerQueue(n, t, target) = FlattenSeq(q) \o Paired(n, direct)
  BY <1>1, <1>4, <1>6, <1>9 DEF HandlerQueue, Paired
<1> HIDE DEF Below
<1>11. PICK m \in Nat : m = n - target  BY <1>0
<1>12. \A i \in 1 .. m : /\ target + i - 1 \in 1 .. n /\ target + i - 1 # n
                         /\ q[i] = Below(target + i - 1)
  <2>1. \A i \in 1 .. m : target + i - 1 \in 1 .. n /\ target + i - 1 # n  BY <1>0, <1>11
  <2> QED BY <1>9, <1>11, <2>1
<1>13. q \in [1 .. m -> Seq(Nodes \X Handlers)]
  <2>1. \A i \in 1 .. m : Below(target + i - 1) \in Seq(Nodes \X Handlers)  BY <1>8, <1>12
  <2> QED BY ONLY <1>9, <1>11, <2>1
<1>14. \A i \in 1 .. m : \A c \in ToSet(q[i]) : c[1] = target + i - 1 /\ c[2] \in ToSet(s)
  BY <1>8, <1>12
<1>15. Apart(q, m)
  <2>1. \A i \in 1 .. m : IsInjective(q[i])  BY <1>8, <1>12
  <2>2. ASSUME NEW i \in 1 .. m, NEW j \in 1 .. m, i # j, NEW c \in ToSet(q[i]) \cap ToSet(q[j])
        PROVE FALSE
    <3>1. c[1] = target + i - 1 /\ c[1] = target + j - 1  BY <1>14, <2>2
    <3> QED BY <1>0, <2>2, <3>1
  <2> QED BY <2>1, <2>2 DEF Apart
<1>16. PICK u \in Seq(Nodes \X Handlers) : u = FlattenSeq(q)
  BY ONLY m \in Nat, <1>13, FlattenKeeps
<1>17. ToSet(u) = UNION {ToSet(q[j]) : j \in 1 .. m} /\ IsInjective(u)
  BY ONLY m \in Nat, <1>13, <1>15, <1>16, FlattenKeeps
<1>18. \A c \in ToSet(u) : c[1] # n /\ c[2] \in ToSet(s)
  <2> SUFFICES ASSUME NEW c \in ToSet(u) PROVE c[1] # n /\ c[2] \in ToSet(s)
    OBVIOUS
  <2>1. PICK i \in 1 .. m : c \in ToSet(q[i])  BY <1>17
  <2> QED BY <1>12, <1>14, <2>1
<1>19. PICK v : v = Paired(n, direct)  OBVIOUS
<1>20. v \in Seq(Nodes \X Handlers) /\ ToSet(v) = {<<n, h>> : h \in ToSet(direct)} /\ IsInjective(v)
  BY ONLY <1>7, <1>19, n \in Nodes, PairedKeeps
<1>21. ToSet(u) \cap ToSet(v) = {}
  <2> SUFFICES ASSUME NEW c \in ToSet(u), c \in ToSet(v) PROVE FALSE
    OBVIOUS
  <2>1. c[1] = n  BY <1>20
  <2> QED BY <1>18, <2>1
<1>22. u \o v \in Seq(Nodes \X Handlers) /\ ToSet(u \o v) = ToSet(u) \cup ToSet(v) /\ IsInjective(u \o v)
  <2>1. IsInjective(u) /\ IsInjective(v)  BY ONLY <1>17, <1>20
  <2>2. u \in Seq(Nodes \X Handlers) /\ v \in Seq(Nodes \X Handlers)  BY ONLY <1>20, u \in Seq(Nodes \X Handlers)
  <2> QED BY ONLY <1>21, <2>1, <2>2, ConcatKeeps
<1>23. \A c \in ToSet(u \o v) : c[2] \in ToSet(s)
  <2> SUFFICES ASSUME NEW c \in ToSet(u \o v) PROVE c[2] \in ToSet(s)
    OBVIOUS
  <2>1. CASE c \in ToSet(u)  BY <1>18, <2>1
  <2>2. CASE c \in ToSet(v)
    <3>1. PICK h \in ToSet(direct) : c = <<n, h>>  BY <1>20, <2>2
    <3> QED BY <1>7, <3>1
  <2> QED BY <1>22, <2>1, <2>2
<1>24. HandlerQueue(n, t, target) = u \o v  BY <1>10, <1>16, <1>19
<1>25. \A h \in ToSet(direct) : <<n, h>> \in ToSet(u \o v)  BY <1>20, <1>22
<1> QED BY <1>1, <1>3, <1>6, <1>22, <1>23, <1>24, <1>25

-----------------------------------------------------------------------------
(* on() and off() *)

\* Binding a handler keeps the lists right, and a listener for each that is not empty.
LEMMA BindKeeps ==
  ASSUME Assumptions, kind \in [Handlers -> Kinds], used \subseteq Handlers, spent \subseteq used,
         Listed(kind, list, delegates, used, spent), Heard(list, attached, attaches, captured),
         NEW h \in Handlers, Bind(h)
  PROVE  /\ Listed(kind, list', delegates', used', spent)
         /\ Heard(list', attached', attaches', captured')
<1>0. Depth \in Nat /\ Nodes = 1 .. Depth /\ Focusing \subseteq Types
  BY DEF Assumptions, DepthAssumption, TypesAssumption, Nodes
<1>1. kind[h].home \in Nodes /\ kind[h].type \in Types /\ kind[h].sel \in Int
  BY DEF Assumptions, KindsAssumption
<1>2. PICK n \in Nodes, t \in Types : n = kind[h].home /\ t = kind[h].type  BY <1>1
<1>3. PICK l \in Seq(Handlers), d \in Nat :
         l = list[n][t] /\ d = delegates[n][t] /\ d <= Len(l) /\ ListRight(kind, l, d, n, t, used, spent)
  BY DEF Listed, ListRight
<1>4. PICK l2, d2 : /\ l2 = IF kind[h].sel = 0 THEN Append(l, h) ELSE InsertAt(l, d + 1, h)
                    /\ d2 = IF kind[h].sel = 0 THEN d ELSE d + 1
  OBVIOUS
<1>5. h \notin used /\ used' = used \cup {h}  BY DEF Bind
<1>6. list' = [list EXCEPT ![n][t] = l2] /\ delegates' = [delegates EXCEPT ![n][t] = d2]
  BY <1>2, <1>3, <1>4 DEF Bind
<1>7. list \in [Nodes -> [Types -> Seq(Handlers)]] /\ delegates \in [Nodes -> [Types -> Nat]]
  BY DEF Listed
<1>8. /\ l2 \in Seq(Handlers) /\ d2 \in Nat
      /\ ListRight(kind, l2, d2, n, t, used', spent) /\ l2 # <<>>
  <2>1. CASE kind[h].sel = 0
    <3>1. PICK p : p = Len(l) + 1  OBVIOUS
    <3>2. l2 \in Seq(Handlers) /\ Inserted(l2, l, p, h)  BY <1>4, <2>1, <3>1, AppendInserts
    <3>3. Slot(kind, h, l, d, p, d2)  BY <1>4, <2>1, <3>1 DEF Slot
    <3>4. h \in Handlers \ used /\ kind[h].home = n /\ kind[h].type = t  BY <1>2, <1>5
    <3>5. ListRight(kind, l2, d2, n, t, used \cup {h}, spent) /\ l2 # <<>>
      BY ONLY kind \in [Handlers -> Kinds], spent \subseteq used, <1>3, <3>2, <3>3, <3>4, InsertedRight
    <3> QED BY <1>4, <1>5, <3>2, <3>5
  <2>2. CASE kind[h].sel # 0
    <3>1. PICK p \in 1 .. Len(l) + 1 : p = d + 1  BY <1>3
    <3>2. l2 \in Seq(Handlers) /\ Inserted(l2, l, p, h)  BY <1>4, <2>2, <3>1, InsertAtInserts
    <3>3. Slot(kind, h, l, d, p, d2)  BY <1>4, <2>2, <3>1 DEF Slot
    <3>4. h \in Handlers \ used /\ kind[h].home = n /\ kind[h].type = t  BY <1>2, <1>5
    <3>5. ListRight(kind, l2, d2, n, t, used \cup {h}, spent) /\ l2 # <<>>
      BY ONLY kind \in [Handlers -> Kinds], spent \subseteq used, <1>3, <3>2, <3>3, <3>4, InsertedRight
    <3> QED BY <1>4, <1>5, <3>2, <3>5
  <2> QED BY <2>1, <2>2
<1>9. \A a \in Nodes, b \in Types :
         /\ list'[a][b] = IF a = n /\ b = t THEN l2 ELSE list[a][b]
         /\ delegates'[a][b] = IF a = n /\ b = t THEN d2 ELSE delegates[a][b]
  BY <1>6, <1>7
<1>10. /\ list' \in [Nodes -> [Types -> Seq(Handlers)]]
       /\ delegates' \in [Nodes -> [Types -> Nat]]
  BY <1>6, <1>7, <1>8
<1>11. Listed(kind, list', delegates', used', spent)
  <2>1. ASSUME NEW a \in Nodes, NEW b \in Types
        PROVE  ListRight(kind, list'[a][b], delegates'[a][b], a, b, used', spent)
    <3>1. CASE a = n /\ b = t  BY <1>8, <1>9, <3>1
    <3>2. CASE ~(a = n /\ b = t)
      <4>1. ListRight(kind, list[a][b], delegates[a][b], a, b, used, spent)  BY DEF Listed
      <4>2. ListRight(kind, list[a][b], delegates[a][b], a, b, used', spent)
        BY <1>5, <4>1, ListStays
      <4> QED BY <1>9, <3>2, <4>2
    <3> QED BY <3>1, <3>2
  <2> QED BY <1>10, <2>1 DEF Listed
<1>12. ASSUME NEW b \in Types
       PROVE  With(list', b) = IF b = t THEN With(list, b) \cup {n} ELSE With(list, b)
  BY <1>8, <1>9 DEF With
<1>13. n \in With(list, t) <=> l # <<>>  BY <1>3 DEF With
<1>14. /\ attached' = IF l = <<>> /\ t \notin Focusing THEN attached \cup {<<n, t>>} ELSE attached
       /\ attaches' = [attaches EXCEPT ![t] = IF l = <<>> /\ t \in Focusing THEN @ + 1 ELSE @]
       /\ captured' = IF l = <<>> /\ t \in Focusing THEN captured \cup {t} ELSE captured
  BY <1>2, <1>3 DEF Bind
<1>15. attaches \in [Types -> Nat] /\ attached \subseteq Nodes \X Types /\ captured \subseteq Focusing
  BY DEF Heard
<1>16. Heard(list', attached', attaches', captured')
  <2>1. attached' \subseteq Nodes \X Types /\ captured' \subseteq Focusing
        /\ attaches' \in [Types -> Nat]
    BY <1>14, <1>15
  <2>2. ASSUME NEW b \in Types, b # t
        PROVE  IF b \in Focusing
               THEN /\ attaches'[b] = Cardinality(With(list', b))
                    /\ (b \in captured' <=> With(list', b) # {})
               ELSE attaches'[b] = 0 /\ {a \in Nodes : <<a, b>> \in attached'} = With(list', b)
    <3>1. With(list', b) = With(list, b)  BY <1>12, <2>2
    <3>2. attaches'[b] = attaches[b] /\ (b \in captured' <=> b \in captured)  BY <1>14, <1>15, <2>2
    <3>3. \A a \in Nodes : <<a, b>> \in attached' <=> <<a, b>> \in attached  BY <1>14, <2>2
    <3>4. {a \in Nodes : <<a, b>> \in attached'} = {a \in Nodes : <<a, b>> \in attached}  BY <3>3
    <3> QED BY <3>1, <3>2, <3>4 DEF Heard
  <2>3. CASE t \in Focusing
    <3>1. With(list', t) = With(list, t) \cup {n}  BY <1>12
    <3>2. attaches[t] = Cardinality(With(list, t)) /\ (t \in captured <=> With(list, t) # {})
      BY <2>3 DEF Heard
    <3>3. IsFiniteSet(With(list, t))
      <4>1. IsFiniteSet(Nodes)  BY <1>0, FS_Interval
      <4>2. With(list, t) \in SUBSET Nodes  BY DEF With
      <4> QED BY <4>1, <4>2, FS_Subset
    <3>4. Cardinality(With(list', t)) =
             IF n \in With(list, t) THEN Cardinality(With(list, t)) ELSE Cardinality(With(list, t)) + 1
      BY <3>1, <3>3, FS_AddElement
    <3>5. attaches'[t] = IF l = <<>> THEN attaches[t] + 1 ELSE attaches[t]  BY <1>14, <1>15, <2>3
    <3>6. attaches'[t] = Cardinality(With(list', t))  BY <1>13, <3>2, <3>4, <3>5
    <3>7. t \in captured' <=> With(list', t) # {}  BY <1>13, <1>14, <2>3, <3>1, <3>2
    <3> QED BY <2>1, <2>2, <2>3, <3>6, <3>7 DEF Heard
  <2>4. CASE t \notin Focusing
    <3>1. With(list', t) = With(list, t) \cup {n}  BY <1>12
    <3>2. attaches[t] = 0 /\ {a \in Nodes : <<a, t>> \in attached} = With(list, t)
      BY <2>4 DEF Heard
    <3>3. attaches'[t] = 0  BY <1>14, <1>15, <2>4, <3>2
    <3>4. {a \in Nodes : <<a, t>> \in attached'} = With(list', t)
      BY <1>13, <1>14, <2>4, <3>1, <3>2
    <3> QED BY <2>1, <2>2, <2>4, <3>3, <3>4 DEF Heard
  <2> QED BY <2>3, <2>4
<1> QED BY <1>11, <1>16

\* Unbinding handlers does too.
LEMMA RemovedKeeps ==
  ASSUME Assumptions, kind \in [Handlers -> Kinds],
         Listed(kind, list, delegates, used, spent), Heard(list, attached, attaches, captured),
         NEW gone, Removed(gone)
  PROVE  /\ Listed(kind, list', delegates', used, spent')
         /\ Heard(list', attached', attaches', captured')
<1>0. Depth \in Nat /\ Nodes = 1 .. Depth /\ Focusing \subseteq Types
  BY DEF Assumptions, DepthAssumption, TypesAssumption, Nodes
<1>1. PICK left : left = [n \in Nodes |-> [t \in Types |-> Without(list[n][t], gone)]]  OBVIOUS
<1>2. PICK emptied : emptied = {l \in Nodes \X Types : list[l[1]][l[2]] # <<>> /\ left[l[1]][l[2]] = <<>>}
  OBVIOUS
<1>3. /\ list' = left
      /\ delegates' = [n \in Nodes |-> [t \in Types |-> delegates[n][t] -
                          Cardinality({h \in ToSet(list[n][t]) \cap gone : kind[h].sel # 0})]]
      /\ attached' = attached \ emptied
      /\ attaches' = [t \in Types |-> IF t \in Focusing
                                      THEN attaches[t] - Cardinality({n \in Nodes : <<n, t>> \in emptied})
                                      ELSE attaches[t]]
      /\ captured' = {t \in captured : attaches'[t] > 0}
      /\ spent' = spent \cup gone
  BY <1>1, <1>2 DEF Removed
<1>4. ASSUME NEW n \in Nodes, NEW t \in Types
      PROVE  /\ left[n][t] \in Seq(Handlers) /\ delegates'[n][t] \in Nat
             /\ ListRight(kind, left[n][t], delegates'[n][t], n, t, used, spent')
             /\ ToSet(left[n][t]) = ToSet(list[n][t]) \ gone
  <2>1. PICK l, d : l = list[n][t] /\ d = delegates[n][t]  OBVIOUS
  <2>2. ListRight(kind, l, d, n, t, used, spent)  BY <2>1 DEF Listed
  <2>3. left[n][t] = Without(l, gone)  BY <1>1, <2>1
  <2>4. delegates'[n][t] = d - Cardinality({h \in ToSet(l) \cap gone : kind[h].sel # 0})
    BY <1>3, <2>1
  <2>5. /\ ListRight(kind, left[n][t], delegates'[n][t], n, t, used, spent \cup gone)
        /\ ToSet(left[n][t]) = ToSet(l) \ gone
    <3>1. ListRight(kind, Without(l, gone),
                    d - Cardinality({h \in ToSet(l) \cap gone : kind[h].sel # 0}), n, t, used, spent \cup gone)
          /\ ToSet(Without(l, gone)) = ToSet(l) \ gone
      BY ONLY kind \in [Handlers -> Kinds], <2>2, WithoutRight
    <3>2. ToSet(left[n][t]) = ToSet(l) \ gone  BY ONLY <2>3, <3>1
    <3>3. ListRight(kind, left[n][t], delegates'[n][t], n, t, used, spent \cup gone)
      BY ONLY <2>3, <2>4, <3>1
    <3> QED BY ONLY <3>2, <3>3
  <2> QED BY <1>3, <2>1, <2>5 DEF ListRight
<1>5. Listed(kind, list', delegates', used, spent')
  <2>1. list' \in [Nodes -> [Types -> Seq(Handlers)]]  BY <1>1, <1>3, <1>4
  <2>2. delegates' \in [Nodes -> [Types -> Nat]]  BY <1>3, <1>4
  <2> QED BY <1>3, <1>4, <2>1, <2>2 DEF Listed
<1>6. \A n \in Nodes, t \in Types :
         <<n, t>> \in emptied <=> list[n][t] # <<>> /\ list'[n][t] = <<>>
  BY <1>2, <1>3
<1>7. ASSUME NEW n \in Nodes, NEW t \in Types, list[n][t] = <<>> PROVE list'[n][t] = <<>>
  <2>0. ToSet(list[n][t]) = {}  BY <1>7 DEF ToSet
  <2>1. ToSet(list'[n][t]) = {}  BY <1>3, <1>4, <2>0
  <2>2. list'[n][t] \in Seq(Handlers)  BY <1>3, <1>4
  <2>3. \A i \in DOMAIN list'[n][t] : list'[n][t][i] \in ToSet(list'[n][t])  BY DEF ToSet
  <2>4. DOMAIN list'[n][t] = {}  BY <2>1, <2>3
  <2> QED BY <2>2, <2>4
<1>8. ASSUME NEW t \in Types
      PROVE  /\ With(list', t) = With(list, t) \ {n \in Nodes : <<n, t>> \in emptied}
             /\ {n \in Nodes : <<n, t>> \in emptied} \subseteq With(list, t)
  BY <1>6, <1>7 DEF With
<1>9. attaches \in [Types -> Nat] /\ attached \subseteq Nodes \X Types /\ captured \subseteq Focusing
  BY DEF Heard
<1>10. ASSUME NEW t \in Types
       PROVE  IF t \in Focusing
              THEN attaches'[t] = Cardinality(With(list', t)) /\ (t \in captured' <=> With(list', t) # {})
              ELSE attaches'[t] = 0 /\ {n \in Nodes : <<n, t>> \in attached'} = With(list', t)
  <2>1. PICK W, E, V : W = With(list, t) /\ E = {n \in Nodes : <<n, t>> \in emptied} /\ V = With(list', t)
    OBVIOUS
  <2>2. V = W \ E /\ E \subseteq W /\ W \cap E = E  BY <1>8, <2>1
  <2>3. CASE t \in Focusing
    <3>1. IsFiniteSet(W)
      <4>1. IsFiniteSet(Nodes)  BY <1>0, FS_Interval
      <4>2. W \in SUBSET Nodes  BY <2>1 DEF With
      <4> QED BY <4>1, <4>2, FS_Subset
    <3>2. IsFiniteSet(V) /\ Cardinality(V) = Cardinality(W) - Cardinality(E)
      <4>1. IsFiniteSet(W \ E) /\ Cardinality(W \ E) = Cardinality(W) - Cardinality(W \cap E)
        BY ONLY <3>1, FS_Difference
      <4> QED BY ONLY <2>2, <4>1
    <3>3. attaches[t] = Cardinality(W) /\ (t \in captured <=> W # {})  BY <2>1, <2>3 DEF Heard
    <3>4. attaches'[t] = attaches[t] - Cardinality(E)  BY <1>3, <2>1, <2>3
    <3>5. attaches'[t] = Cardinality(V)  BY <3>2, <3>3, <3>4
    <3>6. Cardinality(V) \in Nat /\ (Cardinality(V) = 0 <=> V = {})
      BY <3>2, FS_CardinalityType, FS_EmptySet
    <3>7. t \in captured' <=> V # {}
      <4>1. t \in captured' <=> t \in captured /\ Cardinality(V) > 0  BY <1>3, <3>5
      <4>2. V # {} => W # {}  BY <2>2
      <4> QED BY <3>3, <3>6, <4>1, <4>2
    <3> QED BY <2>1, <2>3, <3>5, <3>7
  <2>4. CASE t \notin Focusing
    <3>1. attaches[t] = 0 /\ {n \in Nodes : <<n, t>> \in attached} = W  BY <2>1, <2>4 DEF Heard
    <3>2. attaches'[t] = 0  BY <1>3, <2>4, <3>1
    <3>3. {n \in Nodes : <<n, t>> \in attached'} = W \ E  BY <1>3, <2>1, <3>1
    <3> QED BY <2>1, <2>2, <2>4, <3>2, <3>3
  <2> QED BY <2>3, <2>4
<1>11. attaches' \in [Types -> Nat]
  <2>1. ASSUME NEW t \in Types PROVE attaches'[t] \in Nat
    <3>1. CASE t \in Focusing
      <4>1. IsFiniteSet(Nodes)  BY <1>0, FS_Interval
      <4>2. With(list', t) \in SUBSET Nodes  BY DEF With
      <4>3. Cardinality(With(list', t)) \in Nat  BY <4>1, <4>2, FS_Subset, FS_CardinalityType
      <4> QED BY <1>10, <3>1, <4>3
    <3>2. CASE t \notin Focusing  BY <1>10, <3>2
    <3> QED BY <3>1, <3>2
  <2>2. PICK f : f = attaches'  OBVIOUS
  <2> QED BY <1>3, <2>1
<1>12. attached' \subseteq Nodes \X Types /\ captured' \subseteq Focusing  BY <1>3, <1>9
<1>13. Heard(list', attached', attaches', captured')
  BY <1>10, <1>11, <1>12 DEF Heard
<1> QED BY <1>5, <1>13

-----------------------------------------------------------------------------
(* The call stack *)

\* A frame says what it is.
LEMMA FrameKinds ==
  ASSUME NEW f \in Frames
  PROVE  /\ f.what = "event" <=> f \in EventFrames
         /\ f.what = "dispatch" <=> f \in DispatchFrames
         /\ f.what = "page" <=> f \in PageFrames
         /\ f.what \in {"event", "dispatch", "page"}
BY DEF Frames, EventFrames, DispatchFrames, PageFrames

\* The frames stay right while handlers are bound and unbound,
LEMMA FramedStays ==
  ASSUME NEW s, NEW us, NEW sp, NEW us2, NEW sp2, us \subseteq us2, sp \subseteq sp2,
         Framed(s, us, sp)
  PROVE  Framed(s, us2, sp2)
BY DEF Framed, Fits, EventRight, DispatchRight

\* when one is left,
LEMMA PopFits ==
  ASSUME NEW s, NEW us, NEW sp, Framed(s, us, sp), s # <<>>
  PROVE  /\ Framed(Front(s), us, sp)
         /\ Len(Front(s)) = Len(s) - 1
         /\ \A i \in 1 .. Len(s) - 1 : Front(s)[i] = s[i]
<1>1. PICK n \in Nat : n = Len(s) /\ DOMAIN s = 1 .. n /\ n > 0  BY DEF Framed
<1>2. PICK r : r = Front(s)  OBVIOUS
<1>3. r \in Seq(Frames) /\ Len(r) = n - 1 /\ \A i \in 1 .. n - 1 : r[i] = s[i]
  <2>1. \A i \in 1 .. n - 1 : s[i] \in Frames  BY <1>1 DEF Framed
  <2>2. r = SubSeq(s, 1, n - 1)  BY <1>1, <1>2 DEF Front
  <2>3. 1 \in Int /\ n - 1 \in Int /\ (n - 1 < 1 => n - 1 = 0) /\ (n - 1) - 1 + 1 = n - 1
        /\ \A i \in Int : 1 + i - 1 = i
    BY <1>1
  <2> QED BY ONLY <2>1, <2>2, <2>3, SubSeqProperties
<1>4. ASSUME NEW i \in 1 .. n - 1 PROVE Fits(r, i, us, sp)
  <2>1. i \in DOMAIN s /\ r[i] = s[i]  BY <1>1, <1>3
  <2>2. i > 1 => r[i - 1] = s[i - 1]  BY <1>3
  <2>3. Fits(s, i, us, sp)  BY <2>1 DEF Framed
  <2> QED BY <2>1, <2>2, <2>3 DEF Fits
<1> QED BY <1>1, <1>2, <1>3, <1>4 DEF Framed

\* when one that fits is called,
LEMMA PushFits ==
  ASSUME NEW s, NEW us, NEW sp, Framed(s, us, sp), NEW f \in Frames,
         \/ f \in EventFrames /\ (s # <<>> => s[Len(s)] \in PageFrames) /\ EventRight(f, sp)
         \/ f \in DispatchFrames /\ s # <<>> /\ s[Len(s)] \in EventFrames /\ DispatchRight(s[Len(s)], f, us)
         \/ f \in PageFrames /\ s # <<>> /\ s[Len(s)] \in EventFrames \cup DispatchFrames
  PROVE  /\ Framed(Append(s, f), us, sp)
         /\ Len(Append(s, f)) = Len(s) + 1
         /\ Append(s, f)[Len(s) + 1] = f /\ \A i \in 1 .. Len(s) : Append(s, f)[i] = s[i]
<1>1. PICK n \in Nat : n = Len(s) /\ DOMAIN s = 1 .. n /\ (s # <<>> <=> n > 0)  BY DEF Framed
<1>2. PICK r : r = Append(s, f)  OBVIOUS
<1>3. r \in Seq(Frames) /\ Len(r) = n + 1 /\ r[n + 1] = f /\ \A i \in 1 .. n : r[i] = s[i]
  BY <1>1, <1>2, AppendProperties DEF Framed
<1>4. ASSUME NEW i \in 1 .. n PROVE Fits(r, i, us, sp)
  <2>1. r[i] = s[i] /\ (i > 1 => r[i - 1] = s[i - 1])  BY <1>3
  <2>2. Fits(s, i, us, sp)  BY <1>1 DEF Framed
  <2> QED BY <2>1, <2>2 DEF Fits
<1>5. Fits(r, n + 1, us, sp)
  <2>1. n + 1 > 1 => s # <<>> /\ r[n + 1 - 1] = s[Len(s)]  BY <1>1, <1>3
  <2>2. s # <<>> => n + 1 > 1  BY <1>1
  <2> QED BY <1>3, <2>1, <2>2 DEF Fits
<1>6. \A i \in DOMAIN r : Fits(r, i, us, sp)
  <2>1. DOMAIN r = 1 .. n + 1  BY <1>3
  <2>2. \A i \in 1 .. n + 1 : i \in 1 .. n \/ i = n + 1  OBVIOUS
  <2> QED BY <1>4, <1>5, <2>1, <2>2
<1> QED BY <1>1, <1>2, <1>3, <1>6 DEF Framed

\* and when an event is told to stop, or of what it has called.
Retouched(ev, ev2) ==
    /\ ev2.native = ev.native /\ ev2.at = ev.at /\ ev2.half = ev.half /\ ev2.before = ev.before
    /\ ev.called \subseteq ev2.called

LEMMA RetouchFits ==
  ASSUME NEW s, NEW us, NEW sp, Framed(s, us, sp), NEW e \in DOMAIN s, s[e] \in EventFrames,
         NEW ev \in EventFrames, EventRight(ev, sp), Retouched(s[e], ev)
  PROVE  /\ Framed([s EXCEPT ![e] = ev], us, sp)
         /\ Len([s EXCEPT ![e] = ev]) = Len(s)
         /\ \A i \in DOMAIN s : [s EXCEPT ![e] = ev][i] = IF i = e THEN ev ELSE s[i]
<1>1. PICK n \in Nat : n = Len(s) /\ DOMAIN s = 1 .. n  BY DEF Framed
<1>2. PICK r : r = [s EXCEPT ![e] = ev]  OBVIOUS
<1>3. r \in Seq(Frames) /\ Len(r) = n /\ \A i \in 1 .. n : r[i] = IF i = e THEN ev ELSE s[i]
  <2>1. s \in Seq(Frames) /\ ev \in Frames /\ e \in 1 .. Len(s)  BY <1>1 DEF Framed, Frames
  <2> QED BY <1>1, <1>2, <2>1, ExceptSeq
<1>4. ASSUME NEW i \in 1 .. n PROVE Fits(r, i, us, sp)
  <2>1. Fits(s, i, us, sp)  BY <1>1 DEF Framed
  <2>2. s[e].what = "event"  BY DEF EventFrames
  <2>3. e \in 1 .. n  BY <1>1
  <2>4. i > 1 => i - 1 \in 1 .. n  OBVIOUS
  <2>5. CASE i = e
    <3>1. s[i] \notin DispatchFrames /\ s[i] \notin PageFrames
      BY <2>2, <2>5 DEF DispatchFrames, PageFrames
    <3>2. i > 1 => r[i - 1] = s[i - 1]  BY <1>3, <2>4, <2>5
    <3> QED BY <1>3, <2>1, <2>5, <3>1, <3>2 DEF Fits
  <2>6. CASE i # e /\ i - 1 = e
    <3>1. i > 1 /\ r[i] = s[i] /\ r[i - 1] = ev /\ s[i - 1] = s[e]  BY <1>3, <2>3, <2>4, <2>6
    <3>2. s[i - 1] \notin PageFrames  BY <2>2, <3>1 DEF PageFrames
    <3>3. CASE s[i] \in DispatchFrames /\ DispatchRight(s[e], s[i], us)
      <4>1. DispatchRight(ev, s[i], us)  BY <3>3 DEF DispatchRight, Retouched
      <4> QED BY <3>1, <3>3, <4>1 DEF Fits
    <3>4. CASE s[i] \in PageFrames  BY <3>1, <3>4 DEF Fits
    <3> QED BY <2>1, <3>1, <3>2, <3>3, <3>4 DEF Fits
  <2>7. CASE i # e /\ i - 1 # e
    <3>1. r[i] = s[i] /\ (i > 1 => r[i - 1] = s[i - 1])  BY <1>3, <2>4, <2>7
    <3> QED BY <2>1, <3>1 DEF Fits
  <2> QED BY <2>5, <2>6, <2>7
<1> QED BY <1>1, <1>2, <1>3, <1>4 DEF Framed

\* The event of the frame on top is the one below it, or two below.
LEMMA EventIs ==
  ASSUME Framed(calls, used, spent)
  PROVE  /\ Doing("dispatch") => /\ EventAt = Len(calls) - 1 /\ EventAt \in DOMAIN calls
                                 /\ Top \in DispatchFrames /\ Event \in EventFrames
                                 /\ Event = calls[Len(calls) - 1]
         /\ Doing("page") => /\ EventAt \in DOMAIN calls /\ Event \in EventFrames
                             /\ Top \in PageFrames /\ EventAt # Len(calls)
                             /\ \/ EventAt = Len(calls) - 1
                                \/ EventAt = Len(calls) - 2 /\ calls[Len(calls) - 1] \in DispatchFrames
<1>1. PICK n \in Nat : n = Len(calls) /\ DOMAIN calls = 1 .. n /\ (calls # <<>> <=> n > 0)
  BY DEF Framed
<1>2. \A i \in 1 .. n : calls[i] \in Frames /\ Fits(calls, i, used, spent)  BY <1>1 DEF Framed
<1>3. ASSUME NEW e \in 1 .. n, calls[e].what = "event", \A j \in e + 1 .. n : calls[j].what # "event"
      PROVE  EventAt = e
  <2>1. PICK x : x = CHOOSE i \in 1 .. n :
                        calls[i].what = "event" /\ \A j \in i + 1 .. n : calls[j].what # "event"
    OBVIOUS
  <2>2. x \in 1 .. n /\ calls[x].what = "event" /\ \A j \in x + 1 .. n : calls[j].what # "event"
    BY <1>3, <2>1
  <2>3. x = EventAt  BY <1>1, <2>1 DEF EventAt
  <2>4. ~(x < e)
    <3>1. x < e => e \in x + 1 .. n  BY <2>2
    <3> QED BY <1>3, <2>2, <3>1
  <2>5. ~(e < x)
    <3>1. e < x => x \in e + 1 .. n  BY <2>2
    <3> QED BY <1>3, <2>2, <3>1
  <2> QED BY <2>2, <2>3, <2>4, <2>5
<1>4. ASSUME Doing("dispatch")
      PROVE  /\ EventAt = n - 1 /\ n - 1 \in 1 .. n
             /\ Top \in DispatchFrames /\ calls[n - 1] \in EventFrames
  <2>1. n > 0 /\ calls[n].what = "dispatch" /\ n \in 1 .. n /\ Top = calls[n]
    BY <1>1, <1>4 DEF Doing, Top, Last
  <2>2. calls[n] \in DispatchFrames  BY <1>2, <2>1, FrameKinds
  <2>3. n > 1 /\ calls[n - 1] \in EventFrames
    <3>1. Fits(calls, n, used, spent)  BY <1>2, <2>1
    <3>2. calls[n] \notin EventFrames /\ calls[n] \notin PageFrames
      BY <2>1 DEF EventFrames, PageFrames
    <3> QED BY <3>1, <3>2 DEF Fits
  <2>4. n - 1 \in 1 .. n /\ calls[n - 1].what = "event"  BY <2>3 DEF EventFrames
  <2>5. \A j \in (n - 1) + 1 .. n : calls[j].what # "event"
    <3>1. \A j \in (n - 1) + 1 .. n : j = n  OBVIOUS
    <3> QED BY <2>1, <3>1
  <2>6. EventAt = n - 1  BY ONLY <1>3, <2>4, <2>5
  <2> QED BY <2>1, <2>2, <2>3, <2>4, <2>6
<1>5. ASSUME Doing("page")
      PROVE  /\ EventAt \in 1 .. n /\ calls[EventAt] \in EventFrames
             /\ Top \in PageFrames /\ EventAt # n
             /\ EventAt = n - 1 \/ (EventAt = n - 2 /\ calls[n - 1] \in DispatchFrames)
  <2>1. n > 0 /\ calls[n].what = "page" /\ n \in 1 .. n /\ Top = calls[n]
    BY <1>1, <1>5 DEF Doing, Top, Last
  <2>2. calls[n] \in PageFrames  BY <1>2, <2>1, FrameKinds
  <2>3. n > 1 /\ calls[n - 1] \in EventFrames \cup DispatchFrames
    <3>1. Fits(calls, n, used, spent)  BY <1>2, <2>1
    <3>2. calls[n] \notin EventFrames /\ calls[n] \notin DispatchFrames
      BY <2>1 DEF EventFrames, DispatchFrames
    <3> QED BY <3>1, <3>2 DEF Fits
  <2>4. n - 1 \in 1 .. n  BY <2>3
  <2>5. CASE calls[n - 1] \in EventFrames
    <3>1. calls[n - 1].what = "event"  BY <2>5 DEF EventFrames
    <3>2. \A j \in (n - 1) + 1 .. n : calls[j].what # "event"
      <4>1. \A j \in (n - 1) + 1 .. n : j = n  OBVIOUS
      <4> QED BY <2>1, <4>1
    <3>3. EventAt = n - 1  BY ONLY <1>3, <2>4, <3>1, <3>2
    <3> QED BY <2>1, <2>2, <2>4, <2>5, <3>3
  <2>6. CASE calls[n - 1] \in DispatchFrames
    <3>1. calls[n - 1].what = "dispatch"  BY <2>6 DEF DispatchFrames
    <3>2. n - 1 > 1 /\ calls[n - 1 - 1] \in EventFrames
      <4>1. Fits(calls, n - 1, used, spent)  BY <1>2, <2>4
      <4>2. calls[n - 1] \notin EventFrames /\ calls[n - 1] \notin PageFrames
        BY <3>1 DEF EventFrames, PageFrames
      <4> QED BY <4>1, <4>2 DEF Fits
    <3>3. n - 1 - 1 = n - 2 /\ n - 2 \in 1 .. n  BY <3>2
    <3>4. calls[n - 2] \in EventFrames /\ calls[n - 2].what = "event"  BY <3>2, <3>3 DEF EventFrames
    <3>5. \A j \in (n - 2) + 1 .. n : calls[j].what # "event"
      <4>1. \A j \in (n - 2) + 1 .. n : j = n \/ j = n - 1  OBVIOUS
      <4> QED BY <2>1, <3>1, <4>1
    <3>6. EventAt = n - 2  BY ONLY <1>3, <3>3, <3>4, <3>5
    <3> QED BY <2>1, <2>2, <2>6, <3>3, <3>4, <3>6
  <2> QED BY <2>3, <2>5, <2>6
<1> QED BY <1>1, <1>4, <1>5 DEF Event

-----------------------------------------------------------------------------
(* The steps *)

\* A step that leaves the handlers alone.
LEMMA SameBindings ==
  ASSUME IInv, UNCHANGED <<kind, bindings, used, spent>>, Framed(calls', used, spent),
         triggered' \in Types \cup {None}, events' \in 0 .. MaxEvents, late' = {}, skipped' = {}
  PROVE  IInv'
<1>1. /\ kind' = kind /\ used' = used /\ spent' = spent
      /\ list' = list /\ delegates' = delegates
      /\ attached' = attached /\ attaches' = attaches /\ captured' = captured
  BY DEF bindings
<1>2. Listed(kind', list', delegates', used', spent')  BY <1>1 DEF IInv
<1>3. Heard(list', attached', attaches', captured')  BY <1>1 DEF IInv
<1>4. Framed(calls', used', spent')  BY <1>1
<1>5. kind' \in [Handlers -> Kinds] /\ used' \subseteq Handlers /\ spent' \subseteq used'
  BY <1>1 DEF IInv
<1> QED BY <1>2, <1>3, <1>4, <1>5 DEF IInv

LEMMA BindStep ==
  ASSUME Assumptions, IInv, NEW h \in Handlers, Bind(h)
  PROVE  IInv'
<1>1. Listed(kind, list', delegates', used', spent) /\ Heard(list', attached', attaches', captured')
  BY BindKeeps DEF IInv
<1>2. /\ kind' = kind /\ triggered' = triggered /\ calls' = calls /\ events' = events
      /\ spent' = spent /\ late' = late /\ skipped' = skipped
      /\ used' = used \cup {h}
  BY DEF Bind, history
<1>3. Framed(calls', used', spent')
  <2>1. used \subseteq used' /\ spent \subseteq spent /\ Framed(calls, used, spent)  BY <1>2 DEF IInv
  <2>2. Framed(calls, used', spent)  BY ONLY <2>1, FramedStays
  <2> QED BY <1>2, <2>2
<1>4. kind' \in [Handlers -> Kinds] /\ used' \subseteq Handlers /\ spent' \subseteq used'
      /\ triggered' \in Types \cup {None} /\ events' \in 0 .. MaxEvents
      /\ late' = {} /\ skipped' = {}
  BY <1>2 DEF IInv
<1>5. Listed(kind', list', delegates', used', spent')  BY <1>1, <1>2
<1> QED BY <1>1, <1>3, <1>4, <1>5 DEF IInv

\* Unbinding, of handlers that have been bound.
LEMMA RemovedStep ==
  ASSUME Assumptions, IInv, NEW gone \in SUBSET used, Removed(gone),
         UNCHANGED <<kind, triggered, used, events>>, Framed(calls', used, spent),
         late' = {}, skipped' = {}
  PROVE  IInv'
<1>1. Listed(kind, list', delegates', used, spent') /\ Heard(list', attached', attaches', captured')
  BY RemovedKeeps DEF IInv
<1>2. spent' = spent \cup gone  BY DEF Removed
<1>3. Framed(calls', used', spent')
  <2>1. used \subseteq used /\ spent \subseteq spent'  BY <1>2
  <2>2. Framed(calls', used, spent')  BY ONLY <2>1, Framed(calls', used, spent), FramedStays
  <2> QED BY <2>2
<1>4. kind' \in [Handlers -> Kinds] /\ used' \subseteq Handlers /\ spent' \subseteq used'
      /\ triggered' \in Types \cup {None} /\ events' \in 0 .. MaxEvents
  BY <1>2 DEF IInv
<1>5. Listed(kind', list', delegates', used', spent')  BY <1>1
<1> QED BY <1>1, <1>3, <1>4, <1>5 DEF IInv

\* The handlers of a list have been bound, and not unbound.
LEMMA ListUsed ==
  ASSUME IInv, NEW n \in Nodes, NEW t \in Types
  PROVE  ToSet(list[n][t]) \subseteq used \ spent
BY DEF IInv, Listed, ListRight, ToSet

LEMMA UnbindStep ==
  ASSUME Assumptions, IInv, (\E h \in Handlers : Unbind(h)) \/ (\E n \in Nodes : UnbindAll(n))
  PROVE  IInv'
<1>1. ASSUME NEW h \in Handlers, Unbind(h) PROVE IInv'
  <2>1. {h} \in SUBSET used
    <3>1. PICK n \in Nodes, t \in Types : h \in ToSet(list[n][t])  BY <1>1 DEF Unbind, Bound
    <3> QED BY <3>1, ListUsed
  <2>2. /\ Removed({h}) /\ UNCHANGED <<kind, triggered, used, events>> /\ calls' = calls
        /\ late' = late /\ skipped' = skipped
    BY <1>1 DEF Unbind
  <2>3. Framed(calls', used, spent) /\ late' = {} /\ skipped' = {}  BY <2>2 DEF IInv
  <2> QED BY <2>1, <2>2, <2>3, RemovedStep
<1>2. ASSUME NEW n \in Nodes, UnbindAll(n) PROVE IInv'
  <2>1. PICK gone : gone = UNION {ToSet(list[n][t]) : t \in Types}  OBVIOUS
  <2>2. gone \in SUBSET used  BY <2>1, ListUsed
  <2>3. /\ Removed(gone) /\ UNCHANGED <<kind, triggered, used, events>> /\ calls' = calls
        /\ late' = late /\ skipped' = skipped
    BY <1>2, <2>1 DEF UnbindAll
  <2>4. Framed(calls', used, spent) /\ late' = {} /\ skipped' = {}  BY <2>3 DEF IInv
  <2> QED BY <2>2, <2>3, <2>4, RemovedStep
<1> QED BY <1>1, <1>2

\* A new event is right.
LEMMA NewEventRight ==
  ASSUME Assumptions, IInv, NEW t \in Types, NEW n \in Nodes, NEW native \in BOOLEAN,
         NEW only \in BOOLEAN
  PROVE  /\ NewEvent(t, n, native, only) \in EventFrames
         /\ EventRight(NewEvent(t, n, native, only), spent)
<1>1. Depth \in Nat /\ n \in 1 .. Depth  BY DEF Assumptions, DepthAssumption, Nodes
<1>2. PICK ev : ev = NewEvent(t, n, native, only)  OBVIOUS
<1>3. ev = [what |-> "event", type |-> t, target |-> n, native |-> native, only |-> only,
            refired |-> FALSE, at |-> n, half |-> 1, stop |-> 0, immediate |-> FALSE,
            prevented |-> FALSE, called |-> {}, before |-> spent]
  BY <1>2 DEF NewEvent
<1>4. spent \subseteq Handlers  BY DEF IInv
<1>5. ev \in EventFrames  BY <1>1, <1>3, <1>4 DEF EventFrames
<1>6. EventRight(ev, spent)  BY <1>1, <1>3 DEF EventRight
<1> QED BY <1>2, <1>5, <1>6

LEMMA StartStep ==
  ASSUME Assumptions, IInv, NEW t \in Types, NEW n \in Nodes,
         UserEvent(t, n) \/ \E only \in BOOLEAN : Trigger(t, n, only)
  PROVE  IInv'
<1>1. PICK native \in BOOLEAN, only \in BOOLEAN :
         /\ InPage /\ events < MaxEvents /\ events' = events + 1
         /\ calls' = Append(calls, NewEvent(t, n, native, only))
         /\ UNCHANGED <<kind, bindings, triggered, used, history>>
  <2>1. CASE UserEvent(t, n)
    <3>1. calls = <<>> => InPage  BY DEF InPage
    <3> QED BY <2>1, <3>1 DEF UserEvent, Push
  <2>2. CASE \E only \in BOOLEAN : Trigger(t, n, only)  BY <2>2 DEF Trigger, Push
  <2> QED BY <2>1, <2>2
<1>2. PICK ev : ev = NewEvent(t, n, native, only)  OBVIOUS
<1>3. ev \in EventFrames /\ EventRight(ev, spent)  BY <1>2, NewEventRight
<1>4. Framed(calls, used, spent)  BY DEF IInv
<1>5. calls # <<>> => calls[Len(calls)] \in PageFrames
  <2>1. calls # <<>> => Len(calls) \in DOMAIN calls  BY <1>4 DEF Framed
  <2>2. calls # <<>> => calls[Len(calls)] \in Frames  BY <1>4, <2>1 DEF Framed
  <2> QED BY <1>1, <2>2, FrameKinds DEF InPage, Top, Last
<1>6. Framed(calls', used, spent)
  <2>1. ev \in Frames  BY <1>3 DEF Frames
  <2>2. Framed(Append(calls, ev), used, spent)  BY ONLY <1>3, <1>4, <1>5, <2>1, PushFits
  <2> QED BY <1>1, <1>2, <2>2
<1>7. /\ UNCHANGED <<kind, bindings, used, spent>> /\ triggered' \in Types \cup {None}
      /\ late' = {} /\ skipped' = {}
  BY <1>1 DEF IInv, history
<1>8. events' \in 0 .. MaxEvents  BY <1>1 DEF IInv, Assumptions, DepthAssumption
<1> QED BY <1>6, <1>7, <1>8, SameBindings

\* The event on top,
LEMMA TopEvent ==
  ASSUME IInv, Doing("event")
  PROVE  /\ Top \in EventFrames /\ EventRight(Top, spent) /\ calls # <<>>
         /\ Framed(Front(calls), used, spent)
         /\ Front(calls) # <<>> => Front(calls)[Len(Front(calls))] \in PageFrames
<1>1. Framed(calls, used, spent) /\ calls # <<>> /\ Top.what = "event"  BY DEF IInv, Doing
<1>2. PICK n \in Nat : n = Len(calls) /\ DOMAIN calls = 1 .. n /\ n > 0  BY <1>1 DEF Framed
<1>3. n \in 1 .. n /\ Top = calls[n]  BY <1>2 DEF Top, Last
<1>4. Top \in Frames /\ Fits(calls, n, used, spent)  BY <1>1, <1>2, <1>3 DEF Framed
<1>5. Top \notin DispatchFrames /\ Top \notin PageFrames  BY <1>1 DEF DispatchFrames, PageFrames
<1>6. Top \in EventFrames /\ EventRight(Top, spent) /\ (n > 1 => calls[n - 1] \in PageFrames)
  BY <1>3, <1>4, <1>5 DEF Fits
<1>7. PICK r : r = Front(calls)  OBVIOUS
<1>8. Framed(r, used, spent) /\ Len(r) = n - 1 /\ \A i \in 1 .. n - 1 : r[i] = calls[i]
  BY ONLY <1>1, <1>2, <1>7, PopFits
<1>9. r # <<>> => n > 1 /\ r[Len(r)] = calls[n - 1]
  <2>1. r # <<>> => Len(r) > 0  BY <1>8 DEF Framed
  <2> QED BY <1>2, <1>8, <2>1
<1> QED BY <1>1, <1>6, <1>7, <1>8, <1>9

\* and another in its place.
LEMMA ReplaceEvent ==
  ASSUME IInv, Doing("event"), NEW ev \in EventFrames, EventRight(ev, spent)
  PROVE  /\ Framed(Append(Front(calls), ev), used, spent)
         /\ Len(Append(Front(calls), ev)) = Len(calls)
         /\ Append(Front(calls), ev)[Len(calls)] = ev
         /\ \A i \in 1 .. Len(calls) - 1 : Append(Front(calls), ev)[i] = calls[i]
<1>1. Framed(calls, used, spent) /\ calls # <<>>  BY TopEvent DEF IInv
<1>2. PICK r : r = Front(calls)  OBVIOUS
<1>3. Framed(r, used, spent) /\ (r # <<>> => r[Len(r)] \in PageFrames)  BY <1>2, TopEvent
<1>4. Len(r) = Len(calls) - 1 /\ \A i \in 1 .. Len(calls) - 1 : r[i] = calls[i]
  BY ONLY <1>1, <1>2, PopFits
<1>5. ev \in Frames  BY DEF Frames
<1>6. /\ Framed(Append(r, ev), used, spent) /\ Len(Append(r, ev)) = Len(r) + 1
      /\ Append(r, ev)[Len(r) + 1] = ev /\ \A i \in 1 .. Len(r) : Append(r, ev)[i] = r[i]
  BY ONLY <1>3, <1>5, ev \in EventFrames, EventRight(ev, spent), PushFits
<1>7. Len(calls) \in Nat  BY <1>1 DEF Framed
<1> QED BY <1>2, <1>4, <1>6, <1>7

LEMMA OnwardRight ==
  ASSUME DepthAssumption, NEW ev \in EventFrames, NEW sp, EventRight(ev, sp), ~PathOver(ev)
  PROVE  /\ Onward(ev) \in EventFrames /\ EventRight(Onward(ev), sp) /\ ev.at \in Nodes
         /\ Onward(ev).native = ev.native /\ Onward(ev).called = ev.called
         /\ Onward(ev).before = ev.before /\ Onward(ev).refired = ev.refired
         /\ Onward(ev).type = ev.type /\ Onward(ev).stop = ev.stop
         /\ IF ev.half = 1 THEN Onward(ev).half = 2 /\ Onward(ev).at = ev.at
                           ELSE Onward(ev).half = 1 /\ Onward(ev).at = ev.at + 1
<1>1. Depth \in Nat  BY DEF DepthAssumption
<1>2. ev.at \in 1 .. Depth
  <2>1. ev.at \in 1 .. Depth + 1 /\ ev.half \in {1, 2}  BY DEF EventFrames
  <2>2. ev.half = 1 => ~(ev.at > Depth)  BY DEF PathOver
  <2>3. ev.half = 2 => ev.at <= Depth  BY DEF EventRight
  <2> QED BY <1>1, <2>1, <2>2, <2>3
<1>3. CASE ev.half = 1
  <2>1. PICK o : o = [ev EXCEPT !.half = 2]  OBVIOUS
  <2>2. o = Onward(ev)  BY <1>3, <2>1 DEF Onward
  <2>3. o \in EventFrames  BY <2>1 DEF EventFrames
  <2>4. /\ o.half = 2 /\ o.at = ev.at /\ o.native = ev.native /\ o.called = ev.called
        /\ o.before = ev.before /\ o.refired = ev.refired /\ o.type = ev.type /\ o.stop = ev.stop
        /\ o.target = ev.target /\ o.immediate = ev.immediate
    BY <2>1 DEF EventFrames
  <2>5. EventRight(o, sp)  BY <1>1, <1>2, <2>4 DEF EventRight
  <2> QED BY <1>2, <1>3, <2>2, <2>3, <2>4, <2>5 DEF Nodes
<1>4. CASE ev.half # 1
  <2>1. PICK o : o = [ev EXCEPT !.half = 1, !.at = @ + 1]  OBVIOUS
  <2>2. o = Onward(ev)  BY <1>4, <2>1 DEF Onward
  <2>3. ev.at + 1 \in 1 .. Depth + 1  BY <1>1, <1>2
  <2>4. o \in EventFrames  BY <2>1, <2>3 DEF EventFrames
  <2>5. /\ o.half = 1 /\ o.at = ev.at + 1 /\ o.native = ev.native /\ o.called = ev.called
        /\ o.before = ev.before /\ o.refired = ev.refired /\ o.type = ev.type /\ o.stop = ev.stop
        /\ o.target = ev.target /\ o.immediate = ev.immediate
    BY <2>1 DEF EventFrames
  <2>6. EventRight(o, sp)
    <3>1. ev.target \in 1 .. Depth  BY DEF EventFrames, Nodes
    <3> QED BY <1>1, <1>2, <2>5, <3>1 DEF EventRight
  <2> QED BY <1>2, <1>4, <2>2, <2>4, <2>5, <2>6 DEF Nodes
<1> QED BY <1>3, <1>4

\* The dispatch that an event comes to is right.
LEMMA DispatchFrameRight ==
  ASSUME Assumptions, IInv, NEW ev \in EventFrames, EventRight(ev, spent), ~PathOver(ev), AtHandlers(ev)
  PROVE  /\ DispatchFrame(ev.at, ev.type, ev.target) \in DispatchFrames
         /\ DispatchRight(Onward(ev), DispatchFrame(ev.at, ev.type, ev.target), used)
<1>1. DepthAssumption /\ Depth \in Nat  BY DEF Assumptions, DepthAssumption
<1>2. PICK n \in Nodes, t \in Types, target \in Nodes : n = ev.at /\ t = ev.type /\ target = ev.target
  BY <1>1, OnwardRight DEF EventFrames
<1>3. target \in 1 .. n
  <2>1. target \in 1 .. Depth /\ n \in 1 .. Depth /\ target <= n
    BY <1>2 DEF EventFrames, EventRight, Nodes
  <2> QED BY <1>1, <2>1
<1>4. PICK q, D : q = HandlerQueue(n, t, target)
                  /\ D = ToSet(SubSeq(list[n][t], delegates[n][t] + 1, Len(list[n][t])))
  OBVIOUS
<1>5. /\ q \in Seq(Nodes \X Handlers) /\ \A c \in ToSet(q) : c[2] \in used \ spent
      /\ \A h \in D : <<n, h>> \in ToSet(q)
  BY <1>1, <1>3, <1>4, QueueRight DEF IInv
<1>6. D \subseteq Handlers
  <2>1. \A h \in D : <<n, h>> \in Nodes \X Handlers  BY <1>5 DEF ToSet
  <2> QED BY <2>1
<1>7. PICK f : f = [what |-> "dispatch", node |-> n, queue |-> q, cur |-> 0, due |-> D]  OBVIOUS
<1>8. f = DispatchFrame(ev.at, ev.type, ev.target)  BY <1>2, <1>4, <1>7 DEF DispatchFrame
<1>9. f \in DispatchFrames  BY <1>1, <1>5, <1>6, <1>7 DEF DispatchFrames
<1>10. PICK o : o = Onward(ev)  OBVIOUS
<1>11. /\ o.native = ev.native /\ o.before = ev.before
       /\ IF ev.half = 1 THEN o.half = 2 /\ o.at = ev.at ELSE o.half = 1 /\ o.at = ev.at + 1
  BY <1>1, <1>10, OnwardRight
<1>12. ev.native \in BOOLEAN /\ ev.half \in {1, 2} /\ (ev.half = 1) = ~ev.native
  BY DEF EventFrames, AtHandlers
<1>13. f.node = IF o.native THEN o.at - 1 ELSE o.at
  <2>1. n \in Nat /\ f.node = n  BY <1>7 DEF Nodes
  <2>2. CASE ev.native  BY <1>2, <1>11, <1>12, <2>1, <2>2
  <2>3. CASE ~ev.native  BY <1>2, <1>11, <1>12, <2>1, <2>3
  <2> QED BY <2>2, <2>3
<1>14. o.half = IF o.native THEN 1 ELSE 2  BY <1>11, <1>12
<1>15. o.before \subseteq spent  BY <1>11 DEF EventRight
<1>16. DispatchRight(o, f, used)  BY <1>5, <1>7, <1>13, <1>14, <1>15 DEF DispatchRight
<1> QED BY <1>8, <1>9, <1>10, <1>16

\* What is on the stack when an event comes to the handlers of a node: the event o,
\* s up to it, and the dispatch f if there is one.
ReachedWith(o, f, s) ==
    /\ o = Onward(Top) /\ o \in EventFrames
    /\ f = DispatchFrame(Top.at, Top.type, Top.target) /\ f \in DispatchFrames
    /\ Framed(s, used, spent) /\ Len(s) = Len(calls)
    /\ s[Len(calls)] = o /\ \A i \in 1 .. Len(calls) - 1 : s[i] = calls[i]

LEMMA Reached ==
  ASSUME Assumptions, IInv, VisitHandlers
  PROVE  \E o, f, s : /\ ReachedWith(o, f, s) /\ Framed(calls', used, spent)
                      /\ calls' = s \/ (calls' = Append(s, f) /\ triggered # Top.type)
<1>1. Doing("event") /\ DepthAssumption  BY DEF VisitHandlers, Assumptions
<1>2. PICK ev \in EventFrames : ev = Top /\ EventRight(ev, spent)  BY <1>1, TopEvent
<1>3. PICK o \in EventFrames : o = Onward(ev) /\ EventRight(o, spent)
  BY <1>1, <1>2, OnwardRight DEF VisitHandlers
<1>4. PICK f : f = DispatchFrame(ev.at, ev.type, ev.target)  OBVIOUS
<1>5. f \in DispatchFrames /\ DispatchRight(o, f, used)
  BY <1>2, <1>3, <1>4, DispatchFrameRight DEF VisitHandlers
<1>6. PICK s : s = Append(Front(calls), o)  OBVIOUS
<1>7. /\ Framed(s, used, spent) /\ Len(s) = Len(calls) /\ s[Len(calls)] = o
      /\ \A i \in 1 .. Len(calls) - 1 : s[i] = calls[i]
  BY ONLY IInv, <1>1, <1>3, <1>6, o \in EventFrames, ReplaceEvent
<1>8. s # <<>> /\ s[Len(s)] = o
  <2>1. calls # <<>> /\ Framed(calls, used, spent)  BY <1>1 DEF IInv, Doing
  <2>2. Len(calls) > 0  BY <2>1 DEF Framed
  <2> QED BY <1>7, <2>2
<1>9. calls' = s \/ (calls' = Append(s, f) /\ triggered # Top.type)
  <2>1. PICK r \in Seq(Frames) : r = Front(calls)  BY <1>1, TopEvent DEF Framed
  <2>2. r \o <<o>> = s /\ s \in Seq(Frames)
    <3>1. o \in Frames  BY DEF Frames
    <3> QED BY <1>6, <1>7, <2>1, <3>1, AppendIsConcat DEF Framed
  <2>3. PICK b \in BOOLEAN : /\ calls' = r \o <<o>> \o (IF b THEN <<f>> ELSE <<>>)
                             /\ b => triggered # Top.type
    <3>1. PICK b \in BOOLEAN : b <=> /\ IF ev.native THEN <<ev.at, ev.type>> \in attached
                                                     ELSE list[ev.at][ev.type] # <<>>
                                     /\ triggered # ev.type
      OBVIOUS
    <3>2. calls' = r \o <<o>> \o (IF b THEN <<f>> ELSE <<>>)
      BY <1>2, <1>3, <1>4, <2>1, <3>1 DEF VisitHandlers
    <3> QED BY <1>2, <3>1, <3>2
  <2>4. CASE b
    <3>1. f \in Frames  BY <1>5 DEF Frames
    <3> QED BY <2>2, <2>3, <2>4, <3>1, AppendIsConcat
  <2>5. CASE ~b  BY <2>2, <2>3, <2>5, ConcatEmptySeq
  <2> QED BY <2>4, <2>5
<1>10. Framed(calls', used, spent)
  <2>1. f \in Frames  BY <1>5 DEF Frames
  <2>2. f \in DispatchFrames /\ s # <<>> /\ s[Len(s)] \in EventFrames /\ DispatchRight(s[Len(s)], f, used)
    BY <1>5, <1>8
  <2>3. Framed(Append(s, f), used, spent)  BY ONLY <1>7, <2>1, <2>2, PushFits
  <2> QED BY <1>7, <1>9, <2>3
<1>11. ReachedWith(o, f, s)
  BY <1>2, <1>3, <1>4, <1>5, <1>7 DEF ReachedWith
<1> QED BY <1>9, <1>10, <1>11

LEMMA VisitHandlersStep ==
  ASSUME Assumptions, IInv, VisitHandlers
  PROVE  IInv'
<1>1. Framed(calls', used, spent)  BY Reached
<1>2. /\ UNCHANGED <<kind, bindings, used, spent>> /\ triggered' = triggered /\ events' = events
      /\ late' = late /\ skipped' = skipped
  BY DEF VisitHandlers, history
<1>3. triggered' \in Types \cup {None} /\ events' \in 0 .. MaxEvents /\ late' = {} /\ skipped' = {}
  BY <1>2 DEF IInv
<1> QED BY <1>1, <1>2, <1>3, SameBindings

LEMMA VisitAttributeStep ==
  ASSUME Assumptions, IInv, VisitAttribute
  PROVE  IInv'
<1>1. Doing("event") /\ DepthAssumption  BY DEF VisitAttribute, Assumptions
<1>2. PICK ev \in EventFrames : ev = Top /\ EventRight(ev, spent)  BY <1>1, TopEvent
<1>3. ev.at \in Nodes /\ ~PathOver(ev)  BY <1>1, <1>2, OnwardRight DEF VisitAttribute
<1>4. PICK o \in EventFrames : o = Onward(ev) /\ EventRight(o, spent)
  BY <1>1, <1>2, <1>3, OnwardRight
<1>5. PICK c, o2, f : /\ c = <<ev.at, OnAttribute>> /\ o2 = [o EXCEPT !.called = @ \cup {c}]
                      /\ f = [what |-> "page", elem |-> ev.at, h |-> OnAttribute]
  OBVIOUS
<1>6. o2 \in EventFrames /\ EventRight(o2, spent)
  <2>1. c \in Calls  BY <1>3, <1>5 DEF Calls
  <2> QED BY <1>4, <1>5, <2>1 DEF EventFrames, EventRight
<1>7. f \in PageFrames  BY <1>3, <1>5 DEF PageFrames
<1>8. calls' = Append(Append(Front(calls), o2), f) \/ calls' = Append(Front(calls), o)
  <2>1. PICK r \in Seq(Frames) : r = Front(calls)  BY <1>1, TopEvent DEF Framed
  <2>2. calls' = r \o <<o2, f>> \/ calls' = Append(r, o)
    BY <1>2, <1>4, <1>5, <2>1 DEF VisitAttribute
  <2>3. o2 \in Frames /\ f \in Frames  BY <1>6, <1>7 DEF Frames
  <2>4. r \o <<o2, f>> = Append(Append(r, o2), f)
    <3>1. Append(r, o2) = r \o <<o2>> /\ Append(r, o2) \in Seq(Frames)  BY <2>3, AppendIsConcat
    <3>2. Append(Append(r, o2), f) = (r \o <<o2>>) \o <<f>>  BY <2>3, <3>1, AppendIsConcat
    <3>3. <<o2>> \in Seq(Frames) /\ <<f>> \in Seq(Frames)  BY <2>3
    <3>4. (r \o <<o2>>) \o <<f>> = r \o (<<o2>> \o <<f>>)  BY ONLY r \in Seq(Frames), <3>3, ConcatAssociative
    <3>5. <<o2>> \o <<f>> = <<o2, f>>
      <4>1. PICK u, v, w : u = <<o2>> /\ v = <<f>> /\ w = <<o2, f>>  OBVIOUS
      <4>2. /\ u \in Seq(Frames) /\ v \in Seq(Frames) /\ w \in Seq(Frames)
            /\ Len(u) = 1 /\ Len(v) = 1 /\ Len(w) = 2
            /\ u[1] = o2 /\ v[1] = f /\ w[1] = o2 /\ w[2] = f
        BY ONLY <2>3, <4>1
      <4>3. /\ u \o v \in Seq(Frames) /\ Len(u \o v) = 1 + 1
            /\ \A i \in 1 .. 1 + 1 : (u \o v)[i] = IF i <= 1 THEN u[i] ELSE v[i - 1]
        <5>1. /\ u \o v \in Seq(Frames) /\ Len(u \o v) = Len(u) + Len(v)
              /\ \A i \in 1 .. Len(u) + Len(v) :
                    (u \o v)[i] = IF i <= Len(u) THEN u[i] ELSE v[i - Len(u)]
          BY ONLY <4>2, ConcatProperties
        <5>2. Len(u) = 1 /\ Len(v) = 1  BY ONLY <4>2
        <5> QED BY ONLY <5>1, <5>2
      <4>4. 1 \in 1 .. 1 + 1 /\ 2 \in 1 .. 1 + 1 /\ 1 + 1 = 2 /\ 2 - 1 = 1 /\ ~(2 <= 1) /\ 1 <= 1
        OBVIOUS
      <4>5. \A i \in 1 .. Len(u \o v) : (u \o v)[i] = w[i]
        <5>1. \A i \in 1 .. 2 : i = 1 \/ i = 2  OBVIOUS
        <5> QED BY ONLY <4>2, <4>3, <4>4, <5>1
      <4>6. u \o v = w  BY ONLY <4>2, <4>3, <4>4, <4>5, SeqEqual
      <4> QED BY ONLY <4>1, <4>6
    <3> QED BY ONLY <3>2, <3>4, <3>5
  <2> QED BY <2>1, <2>2, <2>4
<1>9. Framed(Append(Front(calls), o), used, spent)
  BY ONLY IInv, <1>1, <1>4, o \in EventFrames, ReplaceEvent
<1>10. Framed(Append(Append(Front(calls), o2), f), used, spent)
  <2>1. PICK s : s = Append(Front(calls), o2)  OBVIOUS
  <2>2. Framed(s, used, spent) /\ Len(s) = Len(calls) /\ s[Len(calls)] = o2
    BY ONLY IInv, <1>1, <1>6, <2>1, ReplaceEvent
  <2>3. s # <<>> /\ s[Len(s)] \in EventFrames
    <3>1. calls # <<>> /\ Framed(calls, used, spent)  BY <1>1 DEF IInv, Doing
    <3>2. Len(calls) > 0  BY <3>1 DEF Framed
    <3> QED BY <1>6, <2>2, <3>2
  <2>4. f \in Frames  BY <1>7 DEF Frames
  <2>5. Framed(Append(s, f), used, spent)  BY ONLY <1>7, <2>2, <2>3, <2>4, PushFits
  <2> QED BY <2>1, <2>5
<1>11. /\ UNCHANGED <<kind, bindings, used, spent>> /\ triggered' = triggered /\ events' = events
       /\ late' = late /\ skipped' = skipped
  BY DEF VisitAttribute
<1>12. triggered' \in Types \cup {None} /\ events' \in 0 .. MaxEvents /\ late' = {} /\ skipped' = {}
  BY <1>11 DEF IInv
<1> QED BY <1>8, <1>9, <1>10, <1>11, <1>12, SameBindings

LEMMA PathEndsStep ==
  ASSUME Assumptions, IInv, PathEnds
  PROVE  IInv'
<1>1. Doing("event")  BY DEF PathEnds
<1>2. PICK ev \in EventFrames : ev = Top /\ EventRight(ev, spent)  BY <1>1, TopEvent
<1>3. PICK o : o = [ev EXCEPT !.native = TRUE, !.refired = TRUE, !.at = ev.target, !.stop = 0,
                              !.immediate = FALSE]
  OBVIOUS
<1>4. o \in EventFrames /\ EventRight(o, spent)
  <2>1. Depth \in Nat /\ ev.target \in 1 .. Depth
    BY DEF Assumptions, DepthAssumption, EventFrames, Nodes
  <2>2. ev.target \in 1 .. Depth + 1 /\ ev.target <= Depth  BY <2>1
  <2>3. o \in EventFrames
    <3>1. 0 \in 0 .. Depth  BY <2>1
    <3> QED BY ONLY <1>3, <2>2, <3>1, ev \in EventFrames DEF EventFrames
  <2>4. /\ o.half = ev.half /\ o.at = ev.target /\ o.target = ev.target /\ o.immediate = FALSE
        /\ o.before = ev.before /\ o.native
    BY <1>3 DEF EventFrames
  <2>5. EventRight(o, spent)  BY <1>2, <2>1, <2>2, <2>4 DEF EventRight
  <2> QED BY <2>3, <2>5
<1>5. \/ calls' = Append(Front(calls), o) /\ triggered' = ev.type
      \/ calls' = Front(calls) /\ triggered' \in {triggered, None}
  BY <1>2, <1>3 DEF PathEnds, Pop
<1>6. Framed(Append(Front(calls), o), used, spent)
  BY ONLY IInv, <1>1, <1>4, ReplaceEvent
<1>7. Framed(Front(calls), used, spent)  BY <1>1, TopEvent
<1>8. /\ UNCHANGED <<kind, bindings, used, spent>> /\ events' = events
      /\ late' = late /\ skipped' = skipped
  BY DEF PathEnds, history
<1>9. triggered' \in Types \cup {None}  BY <1>5 DEF IInv, EventFrames
<1>10. events' \in 0 .. MaxEvents /\ late' = {} /\ skipped' = {}  BY <1>8 DEF IInv
<1> QED BY <1>5, <1>6, <1>7, <1>8, <1>9, <1>10, SameBindings

\* What a handler does to its event, in frame e: it is o then.
ToldWith(e, o) ==
    /\ e = EventAt /\ e \in DOMAIN calls /\ calls[e] \in EventFrames /\ o \in EventFrames
    /\ Retouched(calls[e], o) /\ o.called = calls[e].called /\ o.refired = calls[e].refired
    /\ o.stop = calls[e].stop \/ (calls[e].stop = 0 /\ o.stop = Top.elem)

LEMMA EventTold ==
  ASSUME Assumptions, IInv, PreventDefault \/ \E immediate \in BOOLEAN : StopPropagation(immediate)
  PROVE  \E e, o : /\ ToldWith(e, o) /\ calls' = [calls EXCEPT ![e] = o]
                   /\ Framed(calls', used, spent)
<1>1. Doing("page") /\ Framed(calls, used, spent)  BY DEF PreventDefault, StopPropagation, IInv
<1>2. PICK e \in DOMAIN calls : e = EventAt /\ calls[e] \in EventFrames /\ Top \in PageFrames
  BY <1>1, EventIs DEF Event
<1>3. PICK ev \in EventFrames : ev = calls[e] /\ EventRight(ev, spent)
  <2>1. calls[e].what = "event" /\ Fits(calls, e, used, spent)
    BY <1>1, <1>2 DEF Framed, EventFrames
  <2>2. calls[e] \notin DispatchFrames /\ calls[e] \notin PageFrames
    BY <2>1 DEF DispatchFrames, PageFrames
  <2> QED BY <1>2, <2>1, <2>2 DEF Fits
<1>4. Top.elem \in 1 .. Depth /\ Depth \in Nat
  BY <1>2 DEF PageFrames, Nodes, Assumptions, DepthAssumption
<1> DEFINE Told(o) == /\ o \in EventFrames /\ EventRight(o, spent) /\ Retouched(ev, o)
                      /\ o.called = ev.called /\ o.refired = ev.refired
                      /\ o.stop = ev.stop \/ (ev.stop = 0 /\ o.stop = Top.elem)
                      /\ calls' = [calls EXCEPT ![e] = o]
<1>5. PICK o : Told(o)
  <2>1. ASSUME PreventDefault
        PROVE  \E o : Told(o)
    <3>1. PICK o : o = [ev EXCEPT !.prevented = TRUE]  OBVIOUS
    <3>2. o \in EventFrames  BY <3>1 DEF EventFrames
    <3>3. EventRight(o, spent) /\ Retouched(ev, o)
      BY <1>3, <3>1 DEF EventFrames, EventRight, Retouched
    <3>4. calls' = [calls EXCEPT ![e] = o]  BY <1>2, <1>3, <2>1, <3>1 DEF PreventDefault
    <3>5. o.called = ev.called /\ o.refired = ev.refired /\ o.stop = ev.stop
      BY <3>1 DEF EventFrames
    <3> QED BY <3>2, <3>3, <3>4, <3>5
  <2>2. ASSUME NEW immediate \in BOOLEAN, StopPropagation(immediate)
        PROVE  \E o : Told(o)
    <3>0. PICK x \in 1 .. Depth, y \in BOOLEAN :
             x = (IF ev.stop = 0 THEN Top.elem ELSE ev.stop) /\ y = (ev.immediate \/ immediate)
      <4>1. ev.stop \in 0 .. Depth  BY DEF EventFrames
      <4>2. (IF ev.stop = 0 THEN Top.elem ELSE ev.stop) \in 1 .. Depth  BY <1>4, <4>1
      <4> QED BY <4>2
    <3>1. PICK o : o = [ev EXCEPT !.stop = x, !.immediate = y]  OBVIOUS
    <3>2. o \in EventFrames
      <4>1. x \in 0 .. Depth  BY <1>4
      <4> QED BY ONLY <3>1, <4>1, y \in BOOLEAN, ev \in EventFrames DEF EventFrames
    <3>3. o.stop # 0  BY <1>4, <3>1 DEF EventFrames
    <3>4. EventRight(o, spent) /\ Retouched(ev, o)
      BY <1>3, <3>1, <3>3 DEF EventFrames, EventRight, Retouched
    <3>5. calls' = [calls EXCEPT ![e].stop = IF @ = 0 THEN Top.elem ELSE @,
                                 ![e].immediate = @ \/ immediate]
      BY <1>2, <2>2 DEF StopPropagation
    <3>6. calls' = [calls EXCEPT ![e] = o]
      <4>1. calls \in [DOMAIN calls -> Frames]  BY <1>1 DEF Framed
      <4> QED BY <1>2, <1>3, <3>0, <3>1, <3>5, <4>1
    <3>7. o.called = ev.called /\ o.refired = ev.refired /\ o.stop = x  BY <3>1 DEF EventFrames
    <3>8. o.stop = ev.stop \/ (ev.stop = 0 /\ o.stop = Top.elem)  BY <3>0, <3>7
    <3> QED BY <3>2, <3>4, <3>6, <3>7, <3>8
  <2> QED BY <2>1, <2>2
<1>6. Framed(calls', used, spent)
  <2>1. calls[e] \in EventFrames /\ Retouched(calls[e], o)  BY ONLY <1>2, <1>3, <1>5
  <2>2. Framed([calls EXCEPT ![e] = o], used, spent)
    BY ONLY <1>1, <1>5, <2>1, e \in DOMAIN calls, RetouchFits
  <2> QED BY <1>5, <2>2
<1>7. ToldWith(e, o)  BY <1>2, <1>3, <1>5 DEF ToldWith
<1> QED BY <1>5, <1>6, <1>7

LEMMA TellStep ==
  ASSUME Assumptions, IInv, PreventDefault \/ \E immediate \in BOOLEAN : StopPropagation(immediate)
  PROVE  IInv'
<1>1. Framed(calls', used, spent)  BY EventTold
<1>2. /\ UNCHANGED <<kind, bindings, used, spent>> /\ triggered' = triggered /\ events' = events
      /\ late' = late /\ skipped' = skipped
  BY DEF PreventDefault, StopPropagation, history
<1>3. triggered' \in Types \cup {None} /\ events' \in 0 .. MaxEvents /\ late' = {} /\ skipped' = {}
  BY <1>2 DEF IInv
<1> QED BY <1>1, <1>2, <1>3, SameBindings

LEMMA ReturnStep ==
  ASSUME IInv, Return
  PROVE  IInv'
<1>1. Framed(calls, used, spent) /\ calls # <<>> /\ calls' = Front(calls)
  BY DEF IInv, Return, Doing, Pop
<1>2. Framed(calls', used, spent)  BY <1>1, PopFits
<1>3. /\ UNCHANGED <<kind, bindings, used, spent>> /\ triggered' = triggered /\ events' = events
      /\ late' = late /\ skipped' = skipped
  BY DEF Return, history
<1>4. triggered' \in Types \cup {None} /\ events' \in 0 .. MaxEvents /\ late' = {} /\ skipped' = {}
  BY <1>3 DEF IInv
<1> QED BY <1>2, <1>3, <1>4, SameBindings

\* A dispatch goes on.
LEMMA RetopFits ==
  ASSUME NEW s, NEW us, NEW sp, Framed(s, us, sp), s # <<>>, s[Len(s)] \in DispatchFrames,
         NEW f \in DispatchFrames, DispatchRight(s[Len(s) - 1], f, us)
  PROVE  /\ Framed([s EXCEPT ![Len(s)] = f], us, sp)
         /\ Len([s EXCEPT ![Len(s)] = f]) = Len(s)
         /\ \A i \in DOMAIN s : [s EXCEPT ![Len(s)] = f][i] = IF i = Len(s) THEN f ELSE s[i]
<1>1. PICK n \in Nat : n = Len(s) /\ DOMAIN s = 1 .. n /\ n \in 1 .. n  BY DEF Framed
<1>2. PICK r : r = [s EXCEPT ![Len(s)] = f]  OBVIOUS
<1>3. r \in Seq(Frames) /\ Len(r) = n /\ \A i \in 1 .. n : r[i] = IF i = n THEN f ELSE s[i]
  <2>1. s \in Seq(Frames) /\ f \in Frames /\ n \in 1 .. Len(s)  BY <1>1 DEF Framed, Frames
  <2> QED BY <1>1, <1>2, <2>1, ExceptSeq
<1>4. s[n].what = "dispatch" /\ s[n] = s[Len(s)]  BY <1>1 DEF DispatchFrames
<1>5. ASSUME NEW i \in 1 .. n PROVE Fits(r, i, us, sp)
  <2>1. Fits(s, i, us, sp)  BY <1>1 DEF Framed
  <2>2. i > 1 => i - 1 \in 1 .. n /\ i - 1 # n  OBVIOUS
  <2>3. i > 1 => r[i - 1] = s[i - 1]  BY <1>3, <2>2
  <2>4. CASE i = n
    <3>1. s[i] \notin EventFrames /\ s[i] \notin PageFrames
      BY <1>4, <2>4 DEF EventFrames, PageFrames
    <3>2. i > 1 /\ s[i - 1] \in EventFrames  BY <2>1, <3>1 DEF Fits
    <3>3. DispatchRight(r[i - 1], r[i], us)  BY <1>1, <1>3, <2>3, <2>4, <3>2
    <3> QED BY <1>3, <2>3, <2>4, <3>2, <3>3 DEF Fits
  <2>5. CASE i # n  BY <1>3, <2>1, <2>3, <2>5 DEF Fits
  <2> QED BY <2>4, <2>5
<1> QED BY <1>1, <1>2, <1>3, <1>5 DEF Framed

\* What is in a queue is its head or in its tail.
LEMMA HeadOrTail ==
  ASSUME NEW T, NEW q \in Seq(T), q # <<>>
  PROVE  /\ Head(q) \in T /\ Tail(q) \in Seq(T) /\ Head(q) \in ToSet(q)
         /\ ToSet(q) = {Head(q)} \cup ToSet(Tail(q))
         /\ IsInjective(q) => IsInjective(Tail(q)) /\ Head(q) \notin ToSet(Tail(q))
<1>1. PICK n \in Nat : n = Len(q) /\ DOMAIN q = 1 .. n /\ n > 0  OBVIOUS
<1>2. PICK h \in T, r \in Seq(T) : h = Head(q) /\ r = Tail(q)  BY HeadTailProperties
<1>3. Len(r) = n - 1 /\ DOMAIN r = 1 .. n - 1 /\ \A i \in 1 .. n - 1 : r[i] = q[i + 1]
  BY <1>1, <1>2, HeadTailProperties
<1>4. h = q[1] /\ 1 \in 1 .. n  BY <1>1, <1>2
<1>5. ToSet(q) = {h} \cup ToSet(r)
  <2>1. ASSUME NEW x \in ToSet(q) PROVE x \in {h} \cup ToSet(r)
    <3>1. PICK i \in 1 .. n : x = q[i]  BY <1>1 DEF ToSet
    <3>2. CASE i = 1  BY <1>4, <3>1, <3>2
    <3>3. CASE i # 1
      <4>1. i - 1 \in 1 .. n - 1 /\ (i - 1) + 1 = i  BY <3>3
      <4>2. r[i - 1] = x /\ i - 1 \in DOMAIN r  BY <1>3, <3>1, <4>1
      <4> QED BY <4>2 DEF ToSet
    <3> QED BY <3>2, <3>3
  <2>2. ASSUME NEW x \in ToSet(r) PROVE x \in ToSet(q)
    <3>1. PICK i \in 1 .. n - 1 : x = r[i]  BY <1>3 DEF ToSet
    <3>2. i + 1 \in DOMAIN q /\ x = q[i + 1]  BY <1>1, <1>3, <3>1
    <3> QED BY <3>2 DEF ToSet
  <2>3. h \in ToSet(q)  BY <1>1, <1>4 DEF ToSet
  <2> QED BY <2>1, <2>2, <2>3
<1>6. ASSUME IsInjective(q) PROVE IsInjective(r) /\ h \notin ToSet(r)
  <2>1. \A i, j \in 1 .. n : q[i] = q[j] => i = j  BY <1>1, <1>6 DEF IsInjective
  <2>2. \A i \in 1 .. n - 1 : i + 1 \in 1 .. n /\ i + 1 # 1  OBVIOUS
  <2>3. \A i, j \in 1 .. n - 1 : r[i] = r[j] => i = j
    <3> SUFFICES ASSUME NEW i \in 1 .. n - 1, NEW j \in 1 .. n - 1, r[i] = r[j] PROVE i = j
      OBVIOUS
    <3>1. i + 1 = j + 1  BY <1>3, <2>1, <2>2
    <3> QED BY <3>1
  <2>4. h \notin ToSet(r)
    <3> SUFFICES ASSUME NEW i \in 1 .. n - 1, h = r[i] PROVE FALSE
      BY <1>3 DEF ToSet
    <3>1. q[1] = q[i + 1]  BY <1>3, <1>4
    <3> QED BY <1>4, <2>1, <2>2, <3>1
  <2> QED BY <1>3, <2>3, <2>4 DEF IsInjective
<1> QED BY <1>2, <1>5, <1>6

\* The dispatch on top, and its event.
LEMMA TopDispatch ==
  ASSUME IInv, Doing("dispatch")
  PROVE  /\ EventAt = Len(calls) - 1 /\ EventAt \in DOMAIN calls /\ EventAt # Len(calls)
         /\ Len(calls) \in DOMAIN calls /\ calls # <<>>
         /\ Top \in DispatchFrames /\ Event \in EventFrames
         /\ Top = calls[Len(calls)] /\ Event = calls[Len(calls) - 1]
         /\ EventRight(Event, spent) /\ DispatchRight(Event, Top, used)
<1>1. Framed(calls, used, spent) /\ calls # <<>> /\ Top.what = "dispatch"  BY DEF IInv, Doing
<1>2. PICK n \in Nat : n = Len(calls) /\ DOMAIN calls = 1 .. n /\ n \in 1 .. n  BY <1>1 DEF Framed
<1>3. EventAt = n - 1 /\ n - 1 \in 1 .. n /\ Top \in DispatchFrames /\ Event \in EventFrames
      /\ Event = calls[n - 1]
  BY <1>1, <1>2, EventIs
<1>4. Top = calls[n] /\ n - 1 # n  BY <1>2 DEF Top, Last
<1>5. DispatchRight(Event, Top, used)
  <2>1. Fits(calls, n, used, spent)  BY <1>1, <1>2 DEF Framed
  <2>2. Top \notin EventFrames /\ Top \notin PageFrames  BY <1>1 DEF EventFrames, PageFrames
  <2> QED BY <1>3, <1>4, <2>1, <2>2 DEF Fits
<1>6. EventRight(Event, spent)
  <2>1. Fits(calls, n - 1, used, spent)  BY <1>1, <1>2, <1>3 DEF Framed
  <2>2. Event \notin DispatchFrames /\ Event \notin PageFrames
    BY <1>3 DEF EventFrames, DispatchFrames, PageFrames
  <2> QED BY <1>3, <2>1, <2>2 DEF Fits
<1> QED BY <1>1, <1>2, <1>3, <1>4, <1>5, <1>6

\* What is on the stack when a handler is called, for c: its event ev, the dispatch
\* f, with s up to it, and the handler's frame p.
CalledWith(c, ev, f, p, s) ==
    /\ ev \in EventFrames /\ f \in DispatchFrames /\ p \in PageFrames /\ c \in Nodes \X Handlers
    /\ Top.queue # <<>> /\ c = Head(Top.queue)
    /\ ev = [Event EXCEPT !.called = @ \cup {c}]
    /\ f = [Top EXCEPT !.queue = Tail(@), !.cur = c[1]]
    /\ p = [what |-> "page", elem |-> c[1], h |-> c[2]]
    /\ Framed(s, used, spent) /\ Len(s) = Len(calls)
    /\ s[Len(calls) - 1] = ev /\ s[Len(calls)] = f
    /\ \A i \in 1 .. Len(calls) - 2 : s[i] = calls[i]

LEMMA Called ==
  ASSUME IInv, CallHandler
  PROVE  \E c, ev, f, p, s : /\ CalledWith(c, ev, f, p, s)
                             /\ calls' = Append(s, p) /\ Framed(calls', used, spent)
<1>1. Doing("dispatch") /\ MayCall(Event, Top) /\ Framed(calls, used, spent)
  BY DEF CallHandler, IInv
<1>2. PICK n \in Nat, e \in Nat :
         n = Len(calls) /\ DOMAIN calls = 1 .. n /\ n \in 1 .. n /\ e = n - 1 /\ e \in 1 .. n /\ e # n
  BY <1>1, TopDispatch DEF Framed
<1>3. PICK ev0 \in EventFrames, f0 \in DispatchFrames :
         /\ ev0 = Event /\ f0 = Top /\ ev0 = calls[e] /\ f0 = calls[n] /\ EventAt = e
         /\ EventRight(ev0, spent) /\ DispatchRight(ev0, f0, used)
  BY <1>1, <1>2, TopDispatch
<1>4. PICK q \in Seq(Nodes \X Handlers) : q = f0.queue /\ q # <<>>
  BY <1>1, <1>3 DEF DispatchFrames, MayCall
<1>5. PICK c \in Nodes \X Handlers : c = Head(q) /\ ToSet(q) = {c} \cup ToSet(Tail(q))
  BY <1>4, HeadOrTail
<1>6. PICK ev : ev = [ev0 EXCEPT !.called = @ \cup {c}]  OBVIOUS
<1>7. /\ ev \in EventFrames /\ EventRight(ev, spent) /\ Retouched(ev0, ev)
      /\ ev.called = ev0.called \cup {c}
  <2>1. c \in Calls  BY DEF Calls
  <2>2. ev \in EventFrames  BY <1>6, <2>1 DEF EventFrames
  <2> QED BY <1>3, <1>6, <2>2 DEF EventFrames, EventRight, Retouched
<1>8. PICK f : f = [f0 EXCEPT !.queue = Tail(@), !.cur = c[1]]  OBVIOUS
<1>9. f \in DispatchFrames /\ f.node = f0.node /\ f.due = f0.due /\ f.queue = Tail(q)
  <2>1. Tail(q) \in Seq(Nodes \X Handlers)  BY <1>4, HeadOrTail
  <2>2. c[1] \in 0 .. Depth  BY DEF Nodes
  <2> QED BY <1>4, <1>8, <2>1, <2>2 DEF DispatchFrames
<1>10. DispatchRight(ev, f, used)
  BY <1>3, <1>4, <1>5, <1>7, <1>9 DEF DispatchRight, Retouched
<1>11. PICK s1 : s1 = [calls EXCEPT ![e] = ev]  OBVIOUS
<1>12. /\ Framed(s1, used, spent) /\ Len(s1) = Len(calls)
       /\ \A i \in DOMAIN calls : s1[i] = IF i = e THEN ev ELSE calls[i]
  <2>1. e \in DOMAIN calls /\ calls[e] \in EventFrames /\ Retouched(calls[e], ev)
    BY <1>2, <1>3, <1>7
  <2>2. /\ Framed([calls EXCEPT ![e] = ev], used, spent)
        /\ Len([calls EXCEPT ![e] = ev]) = Len(calls)
        /\ \A i \in DOMAIN calls : [calls EXCEPT ![e] = ev][i] = IF i = e THEN ev ELSE calls[i]
    BY ONLY <1>1, <1>7, <2>1, RetouchFits
  <2> QED BY ONLY <1>11, <2>2
<1>13. DOMAIN s1 = 1 .. n /\ Len(s1) = n /\ s1[n] = f0 /\ s1[n - 1] = ev /\ s1 # <<>>
  <2>1. Len(s1) = n /\ s1 \in Seq(Frames) /\ n > 0  BY <1>2, <1>12 DEF Framed
  <2>2. DOMAIN s1 = 1 .. n /\ s1 # <<>>  BY ONLY <2>1, n \in Nat
  <2>3. n \in DOMAIN calls /\ n - 1 \in DOMAIN calls /\ e = n - 1 /\ n # e  BY <1>2
  <2> QED BY ONLY <1>3, <1>12, <2>1, <2>2, <2>3
<1>14. PICK s : s = [s1 EXCEPT ![n] = f]  OBVIOUS
<1>15. /\ Framed(s, used, spent) /\ Len(s) = n
       /\ \A i \in DOMAIN s1 : s[i] = IF i = n THEN f ELSE s1[i]
  <2>1. /\ s1[Len(s1)] \in DispatchFrames /\ DispatchRight(s1[Len(s1) - 1], f, used)
        /\ s = [s1 EXCEPT ![Len(s1)] = f]
    BY <1>10, <1>13, <1>14
  <2>2. /\ Framed([s1 EXCEPT ![Len(s1)] = f], used, spent)
        /\ Len([s1 EXCEPT ![Len(s1)] = f]) = Len(s1)
        /\ \A i \in DOMAIN s1 : [s1 EXCEPT ![Len(s1)] = f][i] = IF i = Len(s1) THEN f ELSE s1[i]
    BY ONLY <1>9, <1>12, <1>13, <2>1, RetopFits
  <2> QED BY ONLY <1>13, <2>1, <2>2
<1>16. s[n - 1] = ev /\ s[n] = f /\ \A i \in 1 .. n - 2 : s[i] = calls[i]
  <2>1. n - 1 \in 1 .. n /\ n - 1 # n /\ n \in 1 .. n  BY <1>2
  <2>2. \A i \in 1 .. n - 2 : i \in 1 .. n /\ i # n /\ i # e  BY <1>2
  <2> QED BY <1>2, <1>12, <1>13, <1>15, <2>1, <2>2
<1>17. PICK p \in PageFrames : p = [what |-> "page", elem |-> c[1], h |-> c[2]]
  BY DEF PageFrames
<1>18. calls' = Append(s, p)
  <2>1. calls' = [calls EXCEPT ![e].called = @ \cup {c}, ![n].queue = Tail(@), ![n].cur = c[1]] \o <<p>>
    BY <1>2, <1>3, <1>4, <1>5, <1>17 DEF CallHandler
  <2>2. [calls EXCEPT ![e].called = @ \cup {c}, ![n].queue = Tail(@), ![n].cur = c[1]] = s
    <3>1. calls \in [1 .. n -> Frames]  BY <1>1, <1>2 DEF Framed
    <3> QED BY <1>2, <1>3, <1>6, <1>8, <1>11, <1>14, <3>1
  <2>3. p \in Frames /\ s \in Seq(Frames)  BY <1>15 DEF Frames, Framed
  <2> QED BY <2>1, <2>2, <2>3, AppendIsConcat
<1>19. Framed(calls', used, spent)
  <2>1. p \in Frames  BY DEF Frames
  <2>2. s # <<>> /\ s[Len(s)] \in EventFrames \cup DispatchFrames
    BY <1>2, <1>9, <1>15, <1>16 DEF Framed
  <2>3. Framed(Append(s, p), used, spent)
    BY ONLY <1>15, <2>1, <2>2, p \in PageFrames, PushFits
  <2> QED BY <1>18, <2>3
<1>20. CalledWith(c, ev, f, p, s)
  <2>1. Top.queue # <<>> /\ c = Head(Top.queue)  BY <1>3, <1>4, <1>5
  <2>2. ev = [Event EXCEPT !.called = @ \cup {c}]  BY <1>3, <1>6
  <2>3. f = [Top EXCEPT !.queue = Tail(@), !.cur = c[1]]  BY <1>3, <1>8
  <2>4. s[Len(calls) - 1] = ev /\ s[Len(calls)] = f /\ \A i \in 1 .. Len(calls) - 2 : s[i] = calls[i]
    BY <1>2, <1>16
  <2> QED BY <1>2, <1>7, <1>9, <1>15, <1>17, <2>1, <2>2, <2>3, <2>4 DEF CalledWith
<1> QED BY <1>18, <1>19, <1>20

LEMMA CallHandlerStep ==
  ASSUME Assumptions, IInv, CallHandler
  PROVE  IInv'
<1>1. PICK c, ev, f, p, s : /\ CalledWith(c, ev, f, p, s)
                            /\ calls' = Append(s, p) /\ Framed(calls', used, spent)
  BY Called
<1>2. Doing("dispatch")  BY DEF CallHandler
<1>3. c \in ToSet(Top.queue) /\ c[2] \in used \ Event.before
  <2>1. Top.queue \in Seq(Nodes \X Handlers) /\ Top.queue # <<>> /\ c = Head(Top.queue)
    BY <1>1, <1>2, TopDispatch DEF CalledWith, DispatchFrames
  <2>2. c \in ToSet(Top.queue)  BY <2>1, HeadOrTail
  <2>3. DispatchRight(Event, Top, used)  BY <1>2, TopDispatch
  <2> QED BY <2>2, <2>3 DEF DispatchRight
<1>4. /\ UNCHANGED <<kind, triggered, used, events>> /\ late' = late /\ skipped' = skipped
      /\ Removed({c[2]}) \/ UNCHANGED <<bindings, spent>>
  BY <1>1, <1>3 DEF CallHandler, CalledWith
<1>5. late' = {} /\ skipped' = {} /\ triggered' \in Types \cup {None} /\ events' \in 0 .. MaxEvents
  BY <1>4 DEF IInv
<1>6. CASE Removed({c[2]})
  <2>1. {c[2]} \in SUBSET used  BY <1>3
  <2> QED BY <1>1, <1>4, <1>5, <1>6, <2>1, RemovedStep
<1>7. CASE UNCHANGED <<bindings, spent>>
  <2>1. UNCHANGED <<kind, bindings, used, spent>>  BY <1>4, <1>7
  <2> QED BY <1>1, <1>5, <2>1, SameBindings
<1> QED BY <1>4, <1>6, <1>7

LEMMA DispatchEndsStep ==
  ASSUME Assumptions, IInv, DispatchEnds
  PROVE  IInv'
<1>1. Doing("dispatch") /\ ~MayCall(Event, Top) /\ calls' = Front(calls)  BY DEF DispatchEnds, Pop
<1>2. PICK ev \in EventFrames, f \in DispatchFrames :
         ev = Event /\ f = Top /\ EventRight(ev, spent) /\ DispatchRight(ev, f, used)
  BY <1>1, TopDispatch
<1>3. ASSUME ev.stop = 0 PROVE \A h \in f.due : <<f.node, h>> \in ev.called
  <2>1. ~ev.immediate  BY <1>2, <1>3 DEF EventRight
  <2>2. f.queue = <<>>  BY <1>1, <1>2, <1>3, <2>1 DEF MayCall
  <2>3. ToSet(f.queue) = {}  BY <2>2 DEF ToSet
  <2> QED BY <1>2, <2>3 DEF DispatchRight
<1>4. skipped' = skipped
  <2>1. CASE ev.stop # 0  BY <1>2, <2>1 DEF DispatchEnds
  <2>2. CASE ev.stop = 0
    <3>1. PICK called : called = {h \in Handlers : <<f.node, h>> \in ev.called}  OBVIOUS
    <3>2. f.due \subseteq called  BY <1>3, <2>2, <3>1 DEF DispatchFrames
    <3>3. skipped' = skipped \cup ((f.due \cap Bound) \ called)
      BY <1>2, <2>2, <3>1 DEF DispatchEnds
    <3> QED BY <3>2, <3>3
  <2> QED BY <2>1, <2>2
<1>5. /\ UNCHANGED <<kind, bindings, used, spent>> /\ triggered' = triggered /\ events' = events
      /\ late' = late
  BY DEF DispatchEnds
<1>6. triggered' \in Types \cup {None} /\ events' \in 0 .. MaxEvents /\ late' = {} /\ skipped' = {}
  BY <1>4, <1>5 DEF IInv
<1>7. Framed(calls', used, spent)  BY <1>1, PopFits DEF IInv, Doing
<1> QED BY <1>5, <1>6, <1>7, SameBindings

-----------------------------------------------------------------------------

LEMMA InitRight ==
  ASSUME Assumptions, Init
  PROVE  IInv
<1>1. Listed(kind, list, delegates, used, spent)
  <2>1. ASSUME NEW n \in Nodes, NEW t \in Types
        PROVE  ListRight(kind, list[n][t], delegates[n][t], n, t, used, spent)
    <3>1. list[n][t] = <<>> /\ delegates[n][t] = 0  BY DEF Init
    <3>2. <<>> \in Seq(Handlers) /\ Len(<<>>) = 0 /\ DOMAIN <<>> = {} /\ 0 \in 0 .. 0  OBVIOUS
    <3>3. IsInjective(<<>>) /\ Split(kind, <<>>, 0)  BY DEF IsInjective, Split
    <3> QED BY <3>1, <3>2, <3>3 DEF ListRight
  <2>2. list \in [Nodes -> [Types -> Seq(Handlers)]] /\ delegates \in [Nodes -> [Types -> Nat]]
    BY DEF Init
  <2> QED BY <2>1, <2>2 DEF Listed
<1>2. Heard(list, attached, attaches, captured)
  <2>1. \A t \in Types : With(list, t) = {}  BY DEF Init, With
  <2>2. Cardinality({}) = 0  BY FS_EmptySet
  <2> QED BY <2>1, <2>2 DEF Heard, Init
<1>3. Framed(calls, used, spent)
  <2>1. calls = <<>> /\ DOMAIN calls = {}  BY DEF Init
  <2> QED BY <2>1 DEF Framed
<1>4. MaxEvents \in Nat  BY DEF Assumptions, DepthAssumption
<1> QED BY <1>1, <1>2, <1>3, <1>4 DEF IInv, Init

LEMMA NextRight ==
  ASSUME Assumptions, IInv, [Next]_vars
  PROVE  IInv'
<1>1. CASE \E h \in Handlers : Bind(h)  BY <1>1, BindStep
<1>2. CASE (\E h \in Handlers : Unbind(h)) \/ (\E n \in Nodes : UnbindAll(n))  BY <1>2, UnbindStep
<1>3. CASE \E t \in Types, n \in Nodes :
              UserEvent(t, n) \/ \E only \in BOOLEAN : Trigger(t, n, only)
  BY <1>3, StartStep
<1>4. CASE VisitHandlers  BY <1>4, VisitHandlersStep
<1>5. CASE VisitAttribute  BY <1>5, VisitAttributeStep
<1>6. CASE PathEnds  BY <1>6, PathEndsStep
<1>7. CASE CallHandler  BY <1>7, CallHandlerStep
<1>8. CASE DispatchEnds  BY <1>8, DispatchEndsStep
<1>9. CASE PreventDefault \/ \E immediate \in BOOLEAN : StopPropagation(immediate)
  BY <1>9, TellStep
<1>10. CASE Return  BY <1>10, ReturnStep
<1>11. CASE UNCHANGED vars  BY <1>11 DEF vars, bindings, history, IInv
<1> QED BY <1>1, <1>2, <1>3, <1>4, <1>5, <1>6, <1>7, <1>8, <1>9, <1>10, <1>11 DEF Next

\* The invariant.
THEOREM EventsInvariant == Assumptions => (Spec => []IInv)
<1> SUFFICES ASSUME Assumptions PROVE Spec => []IInv
  OBVIOUS
<1>1. Init => IInv  BY InitRight
<1>2. IInv /\ [Next]_vars => IInv'  BY NextRight
<1> QED BY <1>1, <1>2, PTL DEF Spec

\* Every variable has its type.
THEOREM TypeCorrect == Assumptions => (Spec => []TypeOK)
<1> SUFFICES ASSUME Assumptions PROVE Spec => []TypeOK
  OBVIOUS
<1>1. IInv => TypeOK
  <2> SUFFICES ASSUME IInv PROVE TypeOK
    OBVIOUS
  <2>1. Depth \in Nat /\ Nodes = 1 .. Depth /\ Focusing \subseteq Types
    BY DEF Assumptions, DepthAssumption, TypesAssumption, Nodes
  <2>2. ASSUME NEW t \in Types PROVE attaches[t] \in 0 .. Depth
    <3>1. CASE t \in Focusing
      <4>1. IsFiniteSet(Nodes) /\ Cardinality(Nodes) = Depth
        <5>1. 1 \in Int /\ Depth \in Int /\ (1 > Depth => Depth = 0) /\ Depth - 1 + 1 = Depth  BY <2>1
        <5> QED BY <2>1, <5>1, FS_Interval
      <4>2. With(list, t) \in SUBSET Nodes  BY DEF With
      <4>3. /\ IsFiniteSet(With(list, t)) /\ Cardinality(With(list, t)) <= Depth
            /\ Cardinality(With(list, t)) \in Nat
        BY <4>1, <4>2, FS_Subset, FS_CardinalityType
      <4>4. attaches[t] = Cardinality(With(list, t))  BY <3>1 DEF IInv, Heard
      <4> QED BY <2>1, <4>3, <4>4
    <3>2. CASE t \notin Focusing
      <4>1. attaches[t] = 0  BY <3>2 DEF IInv, Heard
      <4> QED BY <2>1, <4>1
    <3> QED BY <3>1, <3>2
  <2>3. attaches \in [Types -> 0 .. Depth]  BY <2>2 DEF IInv, Heard
  <2>4. attached \subseteq Nodes \X Types /\ captured \subseteq Types  BY <2>1 DEF IInv, Heard
  <2>5. \A n \in Nodes, t \in Types :
           list[n][t] \in Seq(Handlers) /\ delegates[n][t] \in 0 .. Len(list[n][t])
    BY DEF IInv, Listed, ListRight
  <2> QED BY <2>3, <2>4, <2>5 DEF TypeOK, IInv
<1> QED BY <1>1, EventsInvariant, PTL

\* The handlers with a selector are the first of their list, as many as
\* delegateCount says, in whatever order handlers are bound and unbound.
THEOREM Delegated == Assumptions => (Spec => []DelegatesInFront)
<1> SUFFICES ASSUME Assumptions PROVE Spec => []DelegatesInFront
  OBVIOUS
<1>1. IInv => DelegatesInFront
  BY DEF IInv, Listed, ListRight, Split, DelegatesInFront
<1> QED BY <1>1, EventsInvariant, PTL

\* A node has a native listener, or is counted for the one of the document, exactly
\* while it has handlers.
THEOREM Listening == Assumptions => (Spec => []ListenersMatch)
<1> SUFFICES ASSUME Assumptions PROVE Spec => []ListenersMatch
  OBVIOUS
<1>1. IInv => ListenersMatch
  BY DEF IInv, Heard, With, ListenersMatch
<1> QED BY <1>1, EventsInvariant, PTL

\* No event calls a handler that was unbound before it began.
THEOREM NeverLate == Assumptions => (Spec => []NoneLate)
<1> SUFFICES ASSUME Assumptions PROVE Spec => []NoneLate
  OBVIOUS
<1>1. IInv => NoneLate  BY DEF IInv, NoneLate
<1> QED BY <1>1, EventsInvariant, PTL

\* A dispatch that is not stopped calls every handler that its node had when it
\* began and has still, whatever handlers bind, unbind and trigger.
THEOREM NeverSkipped == Assumptions => (Spec => []NoneSkipped)
<1> SUFFICES ASSUME Assumptions PROVE Spec => []NoneSkipped
  OBVIOUS
<1>1. IInv => NoneSkipped  BY DEF IInv, NoneSkipped
<1> QED BY <1>1, EventsInvariant, PTL

-----------------------------------------------------------------------------
(* Where no node has an attribute for a native type *)

\* What has been called stays so below a frame that has changed.
LEMMA OnceBelow ==
  ASSUME NEW s, NEW us, NEW sp, Framed(s, us, sp), NEW k, NEW tr, Once(s, k, tr),
         NEW m \in 0 .. Len(s), m = Len(s) => m = 0 \/ s[m] \notin EventFrames \/ ~s[m].refired,
         NEW s2, \A i \in 1 .. m : s2[i] = s[i], NEW tr2
  PROVE  \A i \in 1 .. m : OnceAt(s2, i, k, tr2)
<1> SUFFICES ASSUME NEW i \in 1 .. m PROVE OnceAt(s2, i, k, tr2)
  OBVIOUS
<1>1. PICK n \in Nat : n = Len(s) /\ DOMAIN s = 1 .. n /\ m \in 0 .. n  BY DEF Framed
<1>2. i \in 1 .. n /\ s2[i] = s[i] /\ (i > 1 => i - 1 \in 1 .. m /\ s2[i - 1] = s[i - 1])
  BY <1>1
<1>3. OnceAt(s, i, k, tr) /\ Fits(s, i, us, sp)  BY <1>1, <1>2 DEF Once, Framed
<1>4. CASE s[i] \in EventFrames
  <2>1. s[i] \notin DispatchFrames /\ s[i] \notin PageFrames
    BY <1>4 DEF EventFrames, DispatchFrames, PageFrames
  <2>2. OnceCalled(s[i], k, i, s, tr)  BY <1>3, <1>4 DEF OnceAt
  <2>3. ~s[i].refired
    <3>1. ASSUME s[i].refired PROVE i = n  BY <1>1, <2>2, <3>1 DEF OnceCalled
    <3>2. i = n => i = m /\ m = Len(s) /\ m # 0  BY <1>1
    <3> QED BY <1>4, <3>1, <3>2
  <2>4. OnceCalled(s[i], k, i, s2, tr2)  BY <2>2, <2>3 DEF OnceCalled
  <2> QED BY <1>2, <2>1, <2>4 DEF OnceAt
<1>5. CASE s[i] \notin EventFrames
  <2>1. i > 1  BY <1>3, <1>5 DEF Fits
  <2> QED BY <1>2, <1>3, <1>5, <2>1 DEF OnceAt, OnePage
<1> QED BY <1>4, <1>5

LEMMA OnceAll ==
  ASSUME NEW s, NEW us, NEW sp, Framed(s, us, sp), NEW k, NEW tr, NEW m \in 0 .. Len(s),
         \A i \in 1 .. m : OnceAt(s, i, k, tr), \A i \in m + 1 .. Len(s) : OnceAt(s, i, k, tr)
  PROVE  Once(s, k, tr)
<1>1. PICK n \in Nat : n = Len(s) /\ DOMAIN s = 1 .. n /\ m \in 0 .. n  BY DEF Framed
<1>2. \A i \in 1 .. n : i \in 1 .. m \/ i \in m + 1 .. n  BY <1>1
<1> QED BY <1>1, <1>2 DEF Once

\* A handler runs, or nothing does, when something is bound or begins.
LEMMA PageOnTop ==
  ASSUME IInv, InPage
  PROVE  Len(calls) \in Nat /\ (Len(calls) = 0 \/ calls[Len(calls)] \notin EventFrames)
<1>1. Framed(calls, used, spent)  BY DEF IInv
<1>2. calls \in Seq(Frames) /\ (Len(calls) # 0 => calls # <<>>)  BY <1>1 DEF Framed
<1>3. calls # <<>> => calls[Len(calls)].what = "page"  BY DEF InPage, Top, Last
<1> QED BY <1>2, <1>3 DEF EventFrames

LEMMA BindOnce ==
  ASSUME Assumptions, OInv,
         \/ \E h \in Handlers : Bind(h) \/ Unbind(h)
         \/ \E n \in Nodes : UnbindAll(n)
  PROVE  Once(calls', kind', triggered') /\ again' = {}
<1>1. kind' = kind /\ calls' = calls /\ triggered' = triggered /\ again' = again
  BY DEF Bind, Unbind, UnbindAll, history
<1> QED BY <1>1 DEF OInv

LEMMA StartOnce ==
  ASSUME Assumptions, OInv, IInv', NEW t \in Types, NEW n \in Nodes,
         UserEvent(t, n) \/ \E only \in BOOLEAN : Trigger(t, n, only)
  PROVE  Once(calls', kind', triggered') /\ again' = {}
<1>1. PICK native \in BOOLEAN, only \in BOOLEAN :
         /\ InPage /\ calls' = Append(calls, NewEvent(t, n, native, only))
         /\ UNCHANGED <<kind, triggered, again>>
  <2>1. CASE UserEvent(t, n)
    <3>1. calls = <<>> => InPage  BY DEF InPage
    <3> QED BY <2>1, <3>1 DEF UserEvent, Push, history
  <2>2. CASE \E only \in BOOLEAN : Trigger(t, n, only)  BY <2>2 DEF Trigger, Push, history
  <2> QED BY <2>1, <2>2
<1>2. PICK m \in Nat : m = Len(calls)  BY <1>1, PageOnTop DEF OInv
<1>3. PICK ev \in EventFrames : ev = NewEvent(t, n, native, only)  BY NewEventRight DEF OInv
<1>4. PICK s : s = Append(calls, ev)  OBVIOUS
<1>5. Len(s) = m + 1 /\ s[m + 1] = ev /\ \A i \in 1 .. m : s[i] = calls[i]
  <2>1. calls \in Seq(Frames) /\ ev \in Frames  BY DEF OInv, IInv, Framed, Frames
  <2> QED BY <1>2, <1>4, <2>1, AppendProperties
<1>6. Framed(s, used', spent')  BY <1>1, <1>3, <1>4 DEF IInv
<1>7. \A i \in 1 .. m : OnceAt(s, i, kind, triggered)
  <2>1. m \in 0 .. Len(calls) /\ (m = Len(calls) => m = 0 \/ calls[m] \notin EventFrames \/ ~calls[m].refired)
    BY <1>1, <1>2, PageOnTop DEF OInv
  <2>2. Framed(calls, used, spent) /\ Once(calls, kind, triggered)  BY DEF OInv, IInv
  <2>3. \A i \in 1 .. m : s[i] = calls[i]  BY <1>5
  <2> QED BY ONLY <2>1, <2>2, <2>3, OnceBelow
<1>8. \A i \in m + 1 .. Len(s) : OnceAt(s, i, kind, triggered)
  <2>1. \A i \in m + 1 .. Len(s) : i = m + 1  BY <1>5
  <2>2. ev.called = {} /\ ev.refired = FALSE  BY <1>3 DEF NewEvent
  <2>3. s[m + 1] \notin DispatchFrames /\ s[m + 1] \notin PageFrames
    BY <1>5 DEF EventFrames, DispatchFrames, PageFrames
  <2>4. OnceAt(s, m + 1, kind, triggered)  BY <1>5, <2>2, <2>3 DEF OnceAt, OnceCalled
  <2> QED BY <2>1, <2>4
<1>9. Once(s, kind, triggered)
  <2>1. m \in 0 .. Len(s)  BY <1>5
  <2> QED BY ONLY <1>6, <1>7, <1>8, <2>1, OnceAll
<1> QED BY <1>1, <1>3, <1>4, <1>9 DEF OInv

\* Going on, an event leaves behind what it has passed.
LEMMA PassedOn ==
  ASSUME NEW ev \in EventFrames, NEW n \in Nat, Passed(ev, n),
         NEW o, o.native = ev.native,
         IF ev.half = 1 THEN o.half = 2 /\ o.at = ev.at ELSE o.half = 1 /\ o.at = ev.at + 1
  PROVE  Passed(o, n)
<1>1. ev.at \in Int /\ ev.half \in {1, 2}  BY DEF EventFrames
<1>2. CASE ev.half = 1  BY <1>1, <1>2 DEF Passed
<1>3. CASE ev.half = 2  BY <1>1, <1>3 DEF Passed
<1> QED BY <1>1, <1>2, <1>3

LEMMA HomeIs ==
  ASSUME Assumptions, IInv, NEW h \in Handlers
  PROVE  kind[h].home \in Nat
BY DEF Assumptions, KindsAssumption, DepthAssumption, IInv, Nodes

LEMMA VisitHandlersOnce ==
  ASSUME Assumptions, OInv, IInv', VisitHandlers
  PROVE  Once(calls', kind', triggered') /\ again' = {}
<1>1. PICK o, f, s : /\ ReachedWith(o, f, s) /\ Framed(calls', used, spent)
                     /\ calls' = s \/ (calls' = Append(s, f) /\ triggered # Top.type)
  BY Reached DEF OInv
<1>2. Doing("event") /\ ~PathOver(Top) /\ AtHandlers(Top) /\ DepthAssumption
      /\ UNCHANGED <<kind, triggered, again>>
  BY DEF VisitHandlers, Assumptions, history
<1>3. PICK ev \in EventFrames : ev = Top /\ EventRight(ev, spent) /\ calls # <<>>
  BY <1>2, TopEvent DEF OInv
<1>4. PICK n \in Nat : n = Len(calls) /\ DOMAIN calls = 1 .. n /\ n \in 1 .. n /\ calls[n] = ev
  BY <1>3 DEF OInv, IInv, Framed, Top, Last
<1>5. /\ o.native = ev.native /\ o.called = ev.called /\ o.refired = ev.refired
      /\ o.type = ev.type /\ o.stop = ev.stop /\ ev.at \in Nodes
      /\ IF ev.half = 1 THEN o.half = 2 /\ o.at = ev.at ELSE o.half = 1 /\ o.at = ev.at + 1
  BY <1>1, <1>2, <1>3, OnwardRight DEF ReachedWith
<1>6. OnceCalled(ev, kind, n, calls, triggered)
  BY <1>4 DEF OInv, Once, OnceAt
<1>7. \A i \in 1 .. n - 1 : calls'[i] = calls[i]
      /\ n - 1 \in 0 .. Len(calls) /\ n - 1 # Len(calls)
  <2>1. Len(s) = n /\ s \in Seq(Frames) /\ \A i \in 1 .. n - 1 : s[i] = calls[i]
    BY <1>1, <1>4 DEF ReachedWith, Framed
  <2>2. f \in Frames  BY <1>1 DEF ReachedWith, Frames
  <2>3. \A i \in 1 .. n - 1 : i \in 1 .. n  OBVIOUS
  <2>4. \A i \in 1 .. n : Append(s, f)[i] = s[i]  BY <2>1, <2>2, AppendProperties
  <2> QED BY <1>1, <1>4, <2>1, <2>3, <2>4
<1>8. \A i \in 1 .. n - 1 : OnceAt(calls', i, kind, triggered)
  <2>1. PICK s2 : s2 = calls'  OBVIOUS
  <2>2. Framed(calls, used, spent) /\ Once(calls, kind, triggered)  BY DEF OInv, IInv
  <2>3. /\ n - 1 \in 0 .. Len(calls) /\ \A i \in 1 .. n - 1 : s2[i] = calls[i]
        /\ n - 1 = Len(calls) => n - 1 = 0 \/ calls[n - 1] \notin EventFrames \/ ~calls[n - 1].refired
    BY <1>4, <1>7, <2>1
  <2>4. PICK m : m = n - 1  OBVIOUS
  <2>5. /\ m \in 0 .. Len(calls) /\ \A i \in 1 .. m : s2[i] = calls[i]
        /\ m = Len(calls) => m = 0 \/ calls[m] \notin EventFrames \/ ~calls[m].refired
    BY <2>3, <2>4
  <2>6. \A i \in 1 .. m : OnceAt(s2, i, kind, triggered)  BY ONLY <2>2, <2>5, OnceBelow
  <2> QED BY <2>1, <2>4, <2>6
<1>9. ~ev.refired => \A c \in o.called : c[2] \in Handlers /\ Passed(o, kind[c[2]].home)
  <2> SUFFICES ASSUME ~ev.refired, NEW c \in ev.called
               PROVE  c[2] \in Handlers /\ Passed(o, kind[c[2]].home)
    BY <1>5
  <2>1. c[2] \in Handlers /\ Passed(ev, kind[c[2]].home)  BY <1>6 DEF OnceCalled
  <2>2. kind[c[2]].home \in Nat  BY <2>1, HomeIs DEF OInv
  <2> QED BY ONLY <1>5, <2>1, <2>2, ev \in EventFrames, PassedOn
<1>10. o \in EventFrames /\ o \notin DispatchFrames /\ o \notin PageFrames
  BY <1>1 DEF ReachedWith, EventFrames, DispatchFrames, PageFrames
<1>11. CASE calls' = s
  <2>1. Len(s) = n /\ s[n] = o  BY <1>1, <1>4 DEF ReachedWith
  <2>2. OnceCalled(o, kind, n, s, triggered)  BY <1>5, <1>6, <1>4, <1>9, <2>1 DEF OnceCalled
  <2>3. OnceAt(s, n, kind, triggered)  BY <1>10, <2>1, <2>2 DEF OnceAt
  <2>4. PICK m \in Nat : m = n - 1  BY <1>4
  <2>5. m \in 0 .. Len(s) /\ \A i \in m + 1 .. Len(s) : i = n  BY <2>1, <2>4
  <2>6. /\ \A i \in 1 .. m : OnceAt(s, i, kind, triggered)
        /\ \A i \in m + 1 .. Len(s) : OnceAt(s, i, kind, triggered)
    BY <1>8, <1>11, <2>3, <2>4, <2>5
  <2>7. Framed(s, used, spent)  BY <1>1 DEF ReachedWith
  <2>8. Once(s, kind, triggered)  BY ONLY <2>5, <2>6, <2>7, OnceAll
  <2> QED BY <1>2, <1>11, <2>8 DEF OInv
<1>12. CASE calls' = Append(s, f) /\ triggered # ev.type
  <2>1. ~ev.refired  BY <1>6, <1>12 DEF OnceCalled
  <2>2. PICK s2 : s2 = calls'  OBVIOUS
  <2>3. Len(s2) = n + 1 /\ s2[n] = o /\ s2[n + 1] = f
    <3>1. Len(s) = n /\ s \in Seq(Frames) /\ s[n] = o  BY <1>1, <1>4 DEF ReachedWith, Framed
    <3>2. f \in Frames  BY <1>1 DEF ReachedWith, Frames
    <3> QED BY <1>4, <1>12, <2>2, <3>1, <3>2, AppendProperties
  <2>4. OnceAt(s2, n, kind, triggered)
    <3>1. OnceCalled(o, kind, n, s2, triggered)  BY <1>5, <1>9, <2>1 DEF OnceCalled
    <3> QED BY <1>10, <2>3, <3>1 DEF OnceAt
  <2>5. OnceAt(s2, n + 1, kind, triggered)
    <3>1. f \in DispatchFrames /\ f.what = "dispatch" /\ f = DispatchFrame(ev.at, ev.type, ev.target)
      BY <1>1, <1>3 DEF ReachedWith, DispatchFrames
    <3>2. f \notin EventFrames /\ f \notin PageFrames  BY <3>1 DEF EventFrames, PageFrames
    <3>3. ev.target \in 1 .. ev.at /\ ev.type \in Types
      <4>1. ev.target \in 1 .. Depth /\ ev.at \in 1 .. Depth /\ Depth \in Nat
        BY <1>2, <1>5 DEF EventFrames, Nodes, DepthAssumption
      <4> QED BY <1>3, <4>1 DEF EventRight, EventFrames
    <3>4. PICK q : q = HandlerQueue(ev.at, ev.type, ev.target)  OBVIOUS
    <3>5. (\A c \in ToSet(q) : c[2] \in used \ spent /\ kind[c[2]].home = ev.at) /\ IsInjective(q)
      BY <1>2, <1>5, <3>3, <3>4, QueueRight DEF OInv, IInv
    <3>6. f.queue = q /\ f.node = ev.at /\ f.cur = 0  BY <3>1, <3>4 DEF DispatchFrame
    <3>7. ASSUME NEW c \in ToSet(q), c \in ev.called PROVE FALSE
      <4>1. Passed(ev, ev.at)
        <5>1. Passed(ev, kind[c[2]].home)  BY <1>6, <2>1, <3>7 DEF OnceCalled
        <5>2. kind[c[2]].home = ev.at  BY <3>5, <3>7
        <5> QED BY <5>1, <5>2
      <4>2. ev.at \in Int /\ ev.native \in BOOLEAN /\ ev.half \in {1, 2}  BY DEF EventFrames
      <4>3. ev.half = 2 /\ ~ev.native  BY <4>1, <4>2 DEF Passed
      <4> QED BY <1>2, <1>3, <4>3 DEF AtHandlers
    <3>8. o.stop \in Nat  BY <1>2, <1>10 DEF EventFrames, DepthAssumption
    <3>9. OnceDispatched(o, f, kind)  BY <1>5, <2>1, <3>5, <3>6, <3>7, <3>8 DEF OnceDispatched
    <3>10. (n + 1) - 1 = n  BY <1>4
    <3> QED BY <2>3, <3>2, <3>9, <3>10 DEF OnceAt
  <2>6. PICK m \in Nat : m = n - 1  BY <1>4
  <2>7. m \in 0 .. Len(s2) /\ \A i \in m + 1 .. Len(s2) : i = n \/ i = n + 1  BY <2>3, <2>6
  <2>8. /\ \A i \in 1 .. m : OnceAt(s2, i, kind, triggered)
        /\ \A i \in m + 1 .. Len(s2) : OnceAt(s2, i, kind, triggered)
    BY <1>8, <2>2, <2>4, <2>5, <2>6, <2>7
  <2>9. Framed(s2, used, spent)  BY <1>1, <2>2
  <2>10. Once(s2, kind, triggered)  BY ONLY <2>7, <2>8, <2>9, OnceAll
  <2> QED BY <1>2, <2>2, <2>10 DEF OInv
<1> QED BY <1>1, <1>3, <1>11, <1>12

\* A frame has replaced the one on top, or that one is left.
LEMMA OnceReplaced ==
  ASSUME NEW s, NEW us, NEW sp, Framed(s, us, sp), NEW k, NEW tr, Once(s, k, tr),
         NEW n \in Nat, n = Len(s), n > 0,
         NEW s2, Framed(s2, us, sp), Len(s2) \in {n - 1, n}, \A i \in 1 .. n - 1 : s2[i] = s[i],
         NEW tr2, Len(s2) = n => OnceAt(s2, n, k, tr2)
  PROVE  Once(s2, k, tr2)
<1>1. PICK m \in Nat : m = n - 1 /\ m \in 0 .. Len(s) /\ m \in 0 .. Len(s2) /\ m # Len(s)
  <2>1. PICK l \in Nat : l = Len(s2) /\ l \in {n - 1, n}  OBVIOUS
  <2>2. n - 1 \in Nat /\ n - 1 \in 0 .. n /\ n - 1 \in 0 .. l /\ n - 1 # n
    BY ONLY <2>1, n \in Nat, n > 0
  <2> QED BY <2>1, <2>2
<1>2. \A i \in 1 .. m : s2[i] = s[i]  BY <1>1
<1>3. m = Len(s) => m = 0 \/ s[m] \notin EventFrames \/ ~s[m].refired  BY <1>1
<1>4. \A i \in 1 .. m : OnceAt(s2, i, k, tr2)
  BY ONLY Framed(s, us, sp), Once(s, k, tr), <1>1, <1>2, <1>3, OnceBelow
<1>5. \A i \in m + 1 .. Len(s2) : OnceAt(s2, i, k, tr2)
  <2>1. \A i \in m + 1 .. Len(s2) : i = n /\ Len(s2) = n  BY <1>1
  <2> QED BY <2>1
<1> QED BY ONLY Framed(s2, us, sp), <1>1, <1>4, <1>5, OnceAll

LEMMA VisitAttributeOnce ==
  ASSUME Assumptions, Inline = {}, OInv, VisitAttribute
  PROVE  Once(calls', kind', triggered') /\ again' = {}
<1>1. Doing("event") /\ DepthAssumption /\ UNCHANGED <<kind, triggered>>
  BY DEF VisitAttribute, Assumptions
<1>2. PICK ev \in EventFrames : ev = Top /\ EventRight(ev, spent) /\ calls # <<>>
  BY <1>1, TopEvent DEF OInv
<1>3. PICK n \in Nat : n = Len(calls) /\ DOMAIN calls = 1 .. n /\ n > 0 /\ n \in 1 .. n
                       /\ calls[n] = ev
  BY <1>2 DEF OInv, IInv, Framed, Top, Last
<1>4. ~PathOver(ev)  BY <1>2 DEF VisitAttribute
<1>5. PICK o \in EventFrames :
         /\ o = Onward(ev) /\ EventRight(o, spent)
         /\ o.native = ev.native /\ o.called = ev.called /\ o.refired = ev.refired
         /\ o.type = ev.type
         /\ IF ev.half = 1 THEN o.half = 2 /\ o.at = ev.at ELSE o.half = 1 /\ o.at = ev.at + 1
  BY <1>1, <1>2, <1>4, OnwardRight
<1>6. calls' = Append(Front(calls), o) /\ again' = again
  BY <1>2, <1>5 DEF VisitAttribute
<1>7. PICK s : s = Append(Front(calls), o)  OBVIOUS
<1>8. /\ Framed(s, used, spent) /\ Len(s) = n /\ s[n] = o
      /\ \A i \in 1 .. n - 1 : s[i] = calls[i]
  <2>1. IInv  BY DEF OInv
  <2>2. /\ Framed(s, used, spent) /\ Len(s) = Len(calls) /\ s[Len(calls)] = o
        /\ \A i \in 1 .. Len(calls) - 1 : s[i] = calls[i]
    BY ONLY <2>1, <1>1, <1>5, o \in EventFrames, <1>7, ReplaceEvent
  <2> QED BY <1>3, <2>2
<1>9. OnceAt(s, n, kind, triggered)
  <2>1. OnceCalled(ev, kind, n, calls, triggered)  BY <1>3 DEF OInv, Once, OnceAt
  <2>2. o \notin DispatchFrames /\ o \notin PageFrames
    BY DEF EventFrames, DispatchFrames, PageFrames
  <2>3. ASSUME ~ev.refired, NEW c \in ev.called
        PROVE  c[2] \in Handlers /\ Passed(o, kind[c[2]].home)
    <3>1. c[2] \in Handlers /\ Passed(ev, kind[c[2]].home)  BY <2>1, <2>3 DEF OnceCalled
    <3>2. kind[c[2]].home \in Nat  BY <3>1, HomeIs DEF OInv
    <3> QED BY ONLY <1>5, <3>1, <3>2, ev \in EventFrames, PassedOn
  <2>4. OnceCalled(o, kind, n, s, triggered)  BY <1>3, <1>5, <1>8, <2>1, <2>3 DEF OnceCalled
  <2> QED BY <1>8, <2>2, <2>4 DEF OnceAt
<1>10. Once(s, kind, triggered)
  <2>1. Framed(calls, used, spent) /\ Once(calls, kind, triggered)  BY DEF OInv, IInv
  <2>2. Len(s) \in {n - 1, n} /\ n = Len(calls) /\ n > 0  BY <1>3, <1>8
  <2> QED BY ONLY <1>8, <1>9, <2>1, <2>2, n \in Nat, OnceReplaced
<1> QED BY <1>1, <1>6, <1>7, <1>10 DEF OInv

LEMMA PathEndsOnce ==
  ASSUME Assumptions, OInv, PathEnds
  PROVE  Once(calls', kind', triggered') /\ again' = {}
<1>1. Doing("event") /\ kind' = kind /\ again' = again  BY DEF PathEnds, history
<1>2. PICK ev \in EventFrames : ev = Top /\ EventRight(ev, spent) /\ calls # <<>>
  BY <1>1, TopEvent DEF OInv
<1>3. PICK n \in Nat : n = Len(calls) /\ n > 0
  BY <1>2 DEF OInv, IInv, Framed
<1>4. PICK o : o = [ev EXCEPT !.native = TRUE, !.refired = TRUE, !.at = ev.target, !.stop = 0,
                              !.immediate = FALSE]
  OBVIOUS
<1>5. \/ calls' = Append(Front(calls), o) /\ triggered' = ev.type
      \/ calls' = Front(calls)
  BY <1>2, <1>4 DEF PathEnds, Pop
<1>6. PICK s, tr : s = calls' /\ tr = triggered'  OBVIOUS
<1>7. Framed(calls, used, spent) /\ Once(calls, kind, triggered) /\ IInv  BY DEF OInv, IInv
<1>8. CASE calls' = Append(Front(calls), o) /\ triggered' = ev.type
  <2>1. o \in EventFrames /\ EventRight(o, spent) /\ o.refired /\ o.type = ev.type
    <3>1. Depth \in Nat /\ ev.target \in 1 .. Depth
      BY DEF Assumptions, DepthAssumption, EventFrames, Nodes
    <3>2. ev.target \in 1 .. Depth + 1 /\ ev.target <= Depth  BY <3>1
    <3>3. o \in EventFrames
      <4>1. 0 \in 0 .. Depth  BY <3>1
      <4> QED BY ONLY <1>4, <3>2, <4>1, ev \in EventFrames DEF EventFrames
    <3>4. /\ o.half = ev.half /\ o.at = ev.target /\ o.target = ev.target /\ o.immediate = FALSE
          /\ o.before = ev.before /\ o.native /\ o.refired /\ o.type = ev.type
      BY <1>4 DEF EventFrames
    <3>5. EventRight(o, spent)  BY <1>2, <3>1, <3>2, <3>4 DEF EventRight
    <3> QED BY <3>3, <3>4, <3>5
  <2>2. /\ Framed(s, used, spent) /\ Len(s) = Len(calls) /\ s[Len(calls)] = o
        /\ \A i \in 1 .. Len(calls) - 1 : s[i] = calls[i]
    <3>1. s = Append(Front(calls), o)  BY <1>6, <1>8
    <3> QED BY ONLY <1>1, <1>7, <2>1, <3>1, ReplaceEvent
  <2>3. OnceAt(s, n, kind, tr)
    <3>1. o \notin DispatchFrames /\ o \notin PageFrames
      BY <2>1 DEF EventFrames, DispatchFrames, PageFrames
    <3>2. OnceCalled(o, kind, n, s, tr)  BY <1>3, <1>6, <1>8, <2>1, <2>2 DEF OnceCalled
    <3> QED BY <1>3, <2>2, <3>1, <3>2 DEF OnceAt
  <2>4. Len(s) \in {n - 1, n} /\ \A i \in 1 .. n - 1 : s[i] = calls[i]  BY <1>3, <2>2
  <2>5. Once(s, kind, tr)
    BY ONLY <1>3, <1>7, <2>2, <2>3, <2>4, n \in Nat, OnceReplaced
  <2> QED BY <1>1, <1>6, <2>5 DEF OInv
<1>9. CASE calls' = Front(calls)
  <2>1. /\ Framed(s, used, spent) /\ Len(s) = Len(calls) - 1
        /\ \A i \in 1 .. Len(calls) - 1 : s[i] = calls[i]
    <3>1. s = Front(calls)  BY <1>6, <1>9
    <3> QED BY ONLY <1>2, <1>7, <3>1, PopFits
  <2>2. /\ Len(s) \in {n - 1, n} /\ \A i \in 1 .. n - 1 : s[i] = calls[i]
        /\ Len(s) = n => OnceAt(s, n, kind, tr)
    BY <1>3, <2>1
  <2>3. Once(s, kind, tr)
    BY ONLY <1>3, <1>7, <2>1, <2>2, n \in Nat, OnceReplaced
  <2> QED BY <1>1, <1>6, <2>3 DEF OInv
<1> QED BY <1>5, <1>8, <1>9

LEMMA PopOnce ==
  ASSUME OInv, DispatchEnds \/ Return
  PROVE  Once(calls', kind', triggered') /\ again' = {}
<1>1. /\ calls # <<>> /\ calls' = Front(calls) /\ kind' = kind /\ triggered' = triggered
      /\ again' = again
  BY DEF DispatchEnds, Return, Doing, Pop, history
<1>2. Framed(calls, used, spent) /\ Once(calls, kind, triggered)  BY DEF OInv, IInv
<1>3. PICK n \in Nat : n = Len(calls) /\ n > 0  BY <1>1, <1>2 DEF Framed
<1>4. PICK s : s = Front(calls)  OBVIOUS
<1>5. /\ Framed(s, used, spent) /\ Len(s) = Len(calls) - 1
      /\ \A i \in 1 .. Len(calls) - 1 : s[i] = calls[i]
  BY ONLY <1>1, <1>2, <1>4, PopFits
<1>6. /\ Len(s) \in {n - 1, n} /\ \A i \in 1 .. n - 1 : s[i] = calls[i]
      /\ Len(s) = n => OnceAt(s, n, kind, triggered)
  BY <1>3, <1>5
<1>7. Once(s, kind, triggered)
  BY ONLY <1>2, <1>3, <1>5, <1>6, n \in Nat, OnceReplaced
<1> QED BY <1>1, <1>4, <1>7 DEF OInv

LEMMA CallHandlerOnce ==
  ASSUME Assumptions, OInv, CallHandler
  PROVE  Once(calls', kind', triggered') /\ again' = {}
<1>1. PICK c, ev, f, p, s : /\ CalledWith(c, ev, f, p, s)
                            /\ calls' = Append(s, p) /\ Framed(calls', used, spent)
  BY Called DEF OInv
<1>2. Doing("dispatch") /\ MayCall(Event, Top) /\ UNCHANGED <<kind, triggered>> /\ IInv
  BY DEF CallHandler, OInv
<1>3. PICK n \in Nat : n = Len(calls) /\ DOMAIN calls = 1 .. n /\ n \in 1 .. n
                       /\ n - 1 \in 1 .. n /\ n - 1 # n
  BY <1>2, TopDispatch DEF IInv, Framed
<1>4. PICK ev0 \in EventFrames, f0 \in DispatchFrames :
         /\ ev0 = Event /\ f0 = Top /\ ev0 = calls[n - 1] /\ f0 = calls[n]
         /\ DispatchRight(ev0, f0, used)
  BY <1>2, <1>3, TopDispatch
<1>5. PICK q \in Seq(Nodes \X Handlers) : q = f0.queue /\ q # <<>>
  BY <1>2, <1>4 DEF DispatchFrames, MayCall
<1>6. c = Head(q) /\ c \in Nodes \X Handlers /\ c \in ToSet(q) /\ ToSet(q) = {c} \cup ToSet(Tail(q))
      /\ (IsInjective(q) => IsInjective(Tail(q)) /\ c \notin ToSet(Tail(q)))
  <2>1. c = Head(q)  BY <1>1, <1>4, <1>5 DEF CalledWith
  <2> QED BY <1>5, <2>1, HeadOrTail
<1>7. /\ ev \in EventFrames /\ ev.called = ev0.called \cup {c} /\ ev.refired = ev0.refired
      /\ ev.at = ev0.at /\ ev.half = ev0.half /\ ev.native = ev0.native /\ ev.stop = ev0.stop
  <2>1. ev = [ev0 EXCEPT !.called = @ \cup {c}] /\ ev \in EventFrames
    BY <1>1, <1>4 DEF CalledWith
  <2> QED BY ONLY <2>1, ev0 \in EventFrames DEF EventFrames
<1>8. f \in DispatchFrames /\ f.queue = Tail(q) /\ f.cur = c[1] /\ f.node = f0.node
  BY <1>1, <1>4, <1>5 DEF CalledWith, DispatchFrames
<1>9. p \in PageFrames /\ p.elem = c[1]  BY <1>1 DEF CalledWith
<1>10. OnceCalled(ev0, kind, n - 1, calls, triggered) /\ OnceDispatched(ev0, f0, kind)
  BY <1>3, <1>4 DEF OInv, Once, OnceAt
<1>11. ~ev0.refired /\ IsInjective(q)
       /\ \A x \in ToSet(q) : kind[x[2]].home = f0.node /\ x \notin ev0.called
  BY <1>5, <1>10 DEF OnceDispatched
<1>12. again' = {}  BY <1>4, <1>5, <1>6, <1>11 DEF CallHandler, OInv
<1>13. PICK s2 : s2 = calls'  OBVIOUS
<1>14. /\ Framed(s2, used, spent) /\ Len(s2) = n + 1
       /\ s2[n - 1] = ev /\ s2[n] = f /\ s2[n + 1] = p
       /\ \A i \in 1 .. n - 2 : s2[i] = calls[i]
  <2>1. s \in Seq(Frames) /\ Len(s) = n /\ s[n - 1] = ev /\ s[n] = f
        /\ \A i \in 1 .. n - 2 : s[i] = calls[i]
    BY <1>1, <1>3 DEF CalledWith, Framed
  <2>2. p \in Frames  BY <1>9 DEF Frames
  <2>3. \A i \in 1 .. n : Append(s, p)[i] = s[i]  BY <2>1, <2>2, AppendProperties
  <2>4. Len(Append(s, p)) = n + 1 /\ Append(s, p)[n + 1] = p  BY <2>1, <2>2, AppendProperties
  <2>5. \A i \in 1 .. n - 2 : i \in 1 .. n  BY <1>3
  <2> QED BY <1>1, <1>3, <1>13, <2>1, <2>3, <2>4, <2>5
<1>15. PICK m \in Nat : m = n - 2 /\ m \in 0 .. Len(calls) /\ m # Len(calls) /\ m \in 0 .. Len(s2)
  <2>1. /\ n - 2 \in Nat /\ n - 2 \in 0 .. n /\ n - 2 # n /\ n - 2 \in 0 .. n + 1
    BY ONLY <1>3, n \in Nat
  <2> QED BY <1>3, <1>14, <2>1
<1>16. \A i \in 1 .. m : OnceAt(s2, i, kind, triggered)
  <2>1. Framed(calls, used, spent) /\ Once(calls, kind, triggered)  BY DEF OInv, IInv
  <2>2. /\ \A i \in 1 .. m : s2[i] = calls[i]
        /\ m = Len(calls) => m = 0 \/ calls[m] \notin EventFrames \/ ~calls[m].refired
    BY <1>14, <1>15
  <2> QED BY ONLY <1>15, <2>1, <2>2, OnceBelow
<1>17. OnceAt(s2, n - 1, kind, triggered)
  <2>1. kind[c[2]].home = f0.node  BY <1>6, <1>11
  <2>2. f0.node = IF ev0.native THEN ev0.at - 1 ELSE ev0.at  BY <1>4 DEF DispatchRight
  <2>3. ev0.half = IF ev0.native THEN 1 ELSE 2  BY <1>4 DEF DispatchRight
  <2>4. ev0.at \in Int /\ ev0.native \in BOOLEAN  BY DEF EventFrames
  <2>5. Passed(ev, kind[c[2]].home)  BY <1>7, <2>1, <2>2, <2>3, <2>4 DEF Passed
  <2>6. \A x \in ev0.called : x[2] \in Handlers /\ Passed(ev0, kind[x[2]].home)
    BY <1>10, <1>11 DEF OnceCalled
  <2>7. \A x \in ev.called : x[2] \in Handlers /\ Passed(ev, kind[x[2]].home)
    BY <1>6, <1>7, <2>5, <2>6 DEF Passed
  <2>8. OnceCalled(ev, kind, n - 1, s2, triggered)  BY <1>7, <1>11, <2>7 DEF OnceCalled
  <2>9. ev \notin DispatchFrames /\ ev \notin PageFrames
    BY <1>7 DEF EventFrames, DispatchFrames, PageFrames
  <2> QED BY <1>14, <2>8, <2>9 DEF OnceAt
<1>18. OnceAt(s2, n, kind, triggered)
  <2>1. \A x \in ToSet(f.queue) : kind[x[2]].home = f.node /\ x \notin ev.called
    BY <1>6, <1>7, <1>8, <1>11
  <2>2. IsInjective(f.queue)  BY <1>6, <1>8, <1>11
  <2>3. ev.stop # 0 => f.cur <= ev.stop
    <3>1. ASSUME ev0.stop # 0 PROVE c[1] = f0.cur
      BY <1>2, <1>4, <1>5, <1>6, <3>1 DEF MayCall
    <3>2. ev0.stop # 0 => f0.cur <= ev0.stop  BY <1>10 DEF OnceDispatched
    <3> QED BY <1>7, <1>8, <3>1, <3>2
  <2>4. OnceDispatched(ev, f, kind)  BY <1>7, <1>11, <2>1, <2>2, <2>3 DEF OnceDispatched
  <2>5. f \notin EventFrames /\ f \notin PageFrames
    BY <1>8 DEF EventFrames, DispatchFrames, PageFrames
  <2> QED BY <1>14, <2>4, <2>5 DEF OnceAt
<1>19. OnceAt(s2, n + 1, kind, triggered)
  <2>1. (n + 1) - 1 = n  OBVIOUS
  <2>2. OnePage(s2, n + 1)  BY <1>8, <1>9, <1>14, <2>1 DEF OnePage
  <2>3. p \notin EventFrames /\ p \notin DispatchFrames
    BY <1>9 DEF EventFrames, DispatchFrames, PageFrames
  <2> QED BY <1>14, <2>2, <2>3 DEF OnceAt
<1>20. \A i \in m + 1 .. Len(s2) : OnceAt(s2, i, kind, triggered)
  <2>1. \A i \in m + 1 .. Len(s2) : i = n - 1 \/ i = n \/ i = n + 1  BY <1>14, <1>15
  <2> QED BY <1>17, <1>18, <1>19, <2>1
<1>21. Once(s2, kind, triggered)  BY ONLY <1>14, <1>15, <1>16, <1>20, OnceAll
<1> QED BY <1>2, <1>12, <1>13, <1>21

LEMMA TellOnce ==
  ASSUME Assumptions, OInv, PreventDefault \/ \E immediate \in BOOLEAN : StopPropagation(immediate)
  PROVE  Once(calls', kind', triggered') /\ again' = {}
<1>1. PICK e, o : ToldWith(e, o) /\ calls' = [calls EXCEPT ![e] = o] /\ Framed(calls', used, spent)
  BY EventTold DEF OInv
<1>2. /\ Doing("page") /\ UNCHANGED <<kind, triggered, again>>
      /\ Framed(calls, used, spent) /\ Once(calls, kind, triggered)
  BY DEF PreventDefault, StopPropagation, history, OInv, IInv
<1>3. PICK n \in Nat : n = Len(calls) /\ DOMAIN calls = 1 .. n /\ n \in 1 .. n /\ Top = calls[n]
  BY <1>2 DEF Framed, Doing, Top, Last
<1>4. /\ e \in 1 .. n /\ Top \in PageFrames /\ e # n
      /\ e = n - 1 \/ (e = n - 2 /\ calls[n - 1] \in DispatchFrames)
  BY <1>1, <1>2, <1>3, EventIs DEF ToldWith
<1>5. PICK ev \in EventFrames :
         /\ ev = calls[e] /\ o \in EventFrames /\ o.called = ev.called /\ o.refired = ev.refired
         /\ o.native = ev.native /\ o.at = ev.at /\ o.half = ev.half
         /\ o.stop = ev.stop \/ (ev.stop = 0 /\ o.stop = Top.elem)
  BY <1>1 DEF ToldWith, Retouched
<1>6. PICK s : s = calls'  OBVIOUS
<1>7. Framed(s, used, spent) /\ Len(s) = n /\ DOMAIN s = 1 .. n
      /\ \A i \in 1 .. n : s[i] = IF i = e THEN o ELSE calls[i]
  <2>1. Framed(s, used, spent) /\ s = [calls EXCEPT ![e] = o]  BY <1>1, <1>6
  <2>2. calls \in Seq(Frames) /\ o \in Frames /\ e \in 1 .. Len(calls)
    BY <1>2, <1>3, <1>4, <1>5 DEF Framed, Frames
  <2>3. Len(s) = n /\ s \in Seq(Frames) /\ \A i \in 1 .. n : s[i] = IF i = e THEN o ELSE calls[i]
    BY <1>3, <2>1, <2>2, ExceptSeq
  <2> QED BY <2>1, <2>3
<1>8. \A i \in 1 .. n : OnceAt(calls, i, kind, triggered)  BY <1>2, <1>3 DEF Once
<1>9. OnePage(calls, n) /\ calls[n - 1] \in DispatchFrames /\ Top.elem = calls[n - 1].cur
  BY <1>3, <1>4, <1>8 DEF OnceAt, OnePage
<1>10. ev.what = "event" /\ o.what = "event" /\ e = n - 2
  BY <1>4, <1>5, <1>9 DEF EventFrames, DispatchFrames
<1>11. ASSUME NEW i \in 1 .. n PROVE OnceAt(s, i, kind, triggered)
  <2>1. CASE i = e
    <3>1. OnceCalled(ev, kind, e, calls, triggered)  BY <1>4, <1>5, <1>8 DEF OnceAt
    <3>2. OnceCalled(o, kind, e, s, triggered)
      BY <1>3, <1>4, <1>5, <3>1 DEF OnceCalled, Passed
    <3>3. o \notin DispatchFrames /\ o \notin PageFrames
      BY <1>10 DEF DispatchFrames, PageFrames
    <3> QED BY <1>7, <2>1, <3>2, <3>3 DEF OnceAt
  <2>2. CASE i = n - 1
    <3>1. s[i] = calls[n - 1] /\ s[i - 1] = o /\ calls[i - 1] = ev
      <4>1. i - 1 = e /\ i # e  BY <1>10, <2>2
      <4> QED BY <1>4, <1>5, <1>7, <2>2, <4>1
    <3>2. s[i] \notin EventFrames /\ s[i] \notin PageFrames
      BY <1>9, <3>1 DEF EventFrames, DispatchFrames, PageFrames
    <3>3. OnceDispatched(ev, s[i], kind)  BY <1>8, <1>9, <2>2, <3>1 DEF OnceAt
    <3>4. o.stop # 0 => s[i].cur <= o.stop
      <4>1. CASE o.stop = ev.stop  BY <3>3, <4>1 DEF OnceDispatched
      <4>2. CASE o.stop = Top.elem
        <5>1. s[i].cur = Top.elem /\ Top.elem \in Int  BY <1>4, <1>9, <3>1 DEF PageFrames, Nodes
        <5> QED BY <4>2, <5>1
      <4> QED BY <1>5, <4>1, <4>2
    <3>5. OnceDispatched(o, s[i], kind)  BY <1>5, <3>3, <3>4 DEF OnceDispatched
    <3> QED BY <3>1, <3>2, <3>5 DEF OnceAt
  <2>3. CASE i # e /\ i # n - 1
    <3>1. s[i] = calls[i] /\ i - 1 # e  BY <1>7, <1>10, <2>3
    <3>2. Fits(calls, i, used, spent)  BY <1>2, <1>3 DEF Framed
    <3>3. i > 1 => s[i - 1] = calls[i - 1]
      <4>1. i > 1 => i - 1 \in 1 .. n  OBVIOUS
      <4> QED BY <1>7, <3>1, <4>1
    <3>4. OnceAt(calls, i, kind, triggered)  BY <1>8
    <3>5. OnceCalled(calls[i], kind, i, calls, triggered) =>
             OnceCalled(calls[i], kind, i, s, triggered)
      BY <1>3, <1>7 DEF OnceCalled
    <3>6. CASE calls[i] \in EventFrames
      <4>1. calls[i] \notin DispatchFrames /\ calls[i] \notin PageFrames
        BY <3>6 DEF EventFrames, DispatchFrames, PageFrames
      <4> QED BY <3>1, <3>4, <3>5, <3>6, <4>1 DEF OnceAt
    <3>7. CASE calls[i] \notin EventFrames
      <4>1. i > 1  BY <3>2, <3>7 DEF Fits
      <4> QED BY <3>1, <3>3, <3>4, <3>7, <4>1 DEF OnceAt, OnePage
    <3> QED BY <3>6, <3>7
  <2> QED BY <2>1, <2>2, <2>3
<1>12. Once(s, kind, triggered)  BY <1>7, <1>11 DEF Once
<1> QED BY <1>2, <1>6, <1>12 DEF OInv

-----------------------------------------------------------------------------

LEMMA OnceInit ==
  ASSUME Assumptions, Init
  PROVE  OInv
<1>1. IInv  BY InitRight
<1>2. Once(calls, kind, triggered)
  <2>1. calls = <<>>  BY DEF Init
  <2>2. DOMAIN calls = {}  BY <2>1
  <2> QED BY <2>2 DEF Once
<1> QED BY <1>1, <1>2 DEF OInv, Init

LEMMA OnceNext ==
  ASSUME Assumptions, Inline = {}, OInv, [Next]_vars
  PROVE  OInv'
<1>1. IInv'  BY NextRight DEF OInv
<1>2. Once(calls', kind', triggered') /\ again' = {}
  <2>1. CASE \/ \E h \in Handlers : Bind(h) \/ Unbind(h)
             \/ \E n \in Nodes : UnbindAll(n)
    BY <2>1, BindOnce
  <2>2. CASE \E t \in Types, n \in Nodes :
                UserEvent(t, n) \/ \E only \in BOOLEAN : Trigger(t, n, only)
    BY <1>1, <2>2, StartOnce
  <2>3. CASE VisitHandlers  BY <1>1, <2>3, VisitHandlersOnce
  <2>4. CASE VisitAttribute  BY <2>4, VisitAttributeOnce
  <2>5. CASE PathEnds  BY <2>5, PathEndsOnce
  <2>6. CASE CallHandler  BY <2>6, CallHandlerOnce
  <2>7. CASE PreventDefault \/ \E immediate \in BOOLEAN : StopPropagation(immediate)
    BY <2>7, TellOnce
  <2>8. CASE DispatchEnds \/ Return  BY <2>8, PopOnce
  <2>9. CASE UNCHANGED vars  BY <2>9 DEF vars, history, OInv
  <2> QED BY <2>1, <2>2, <2>3, <2>4, <2>5, <2>6, <2>7, <2>8, <2>9 DEF Next
<1> QED BY <1>1, <1>2 DEF OInv

\* The invariant where no node has an attribute.
THEOREM OnceInvariant == Assumptions /\ Inline = {} => (Spec => []OInv)
<1> SUFFICES ASSUME Assumptions, Inline = {} PROVE Spec => []OInv
  OBVIOUS
<1>1. Init => OInv  BY OnceInit
<1>2. OInv /\ [Next]_vars => OInv'  BY OnceNext
<1> QED BY <1>1, <1>2, PTL DEF Spec

\* No event calls a handler twice at one node: not when its own default action
\* raises it again, nor when handlers trigger others within it.
THEOREM CalledOnce == Assumptions /\ Inline = {} => (Spec => []OncePerEvent)
<1> SUFFICES ASSUME Assumptions, Inline = {} PROVE Spec => []OncePerEvent
  OBVIOUS
<1>1. OInv => OncePerEvent  BY DEF OInv, OncePerEvent
<1> QED BY <1>1, OnceInvariant, PTL

\* While an event calls a handler, no node below that one has stopped it.
THEOREM NeverAbove == Assumptions /\ Inline = {} => (Spec => []NoneAboveStop)
<1> SUFFICES ASSUME Assumptions, Inline = {} PROVE Spec => []NoneAboveStop
  OBVIOUS
<1>1. OInv => NoneAboveStop
  <2> SUFFICES ASSUME OInv, Doing("page"), Event.stop # 0 PROVE Top.elem <= Event.stop
    BY DEF NoneAboveStop
  <2>1. Framed(calls, used, spent) /\ Once(calls, kind, triggered)  BY DEF OInv, IInv
  <2>2. PICK n \in Nat : n = Len(calls) /\ DOMAIN calls = 1 .. n /\ n \in 1 .. n /\ Top = calls[n]
    BY <2>1 DEF Framed, Doing, Top, Last
  <2>3. /\ EventAt \in 1 .. n /\ Event \in EventFrames /\ Top \in PageFrames
        /\ EventAt = n - 1 \/ (EventAt = n - 2 /\ calls[n - 1] \in DispatchFrames)
    BY <2>1, <2>2, EventIs
  <2>4. calls[n - 1] \in DispatchFrames /\ Top.elem = calls[n - 1].cur
    BY <2>1, <2>2, <2>3 DEF Once, OnceAt, OnePage
  <2>5. EventAt = n - 2
    BY <2>3, <2>4 DEF Event, EventFrames, DispatchFrames
  <2>6. n - 1 \in 1 .. n /\ (n - 1) - 1 = n - 2  BY <2>3, <2>5
  <2>7. OnceDispatched(Event, calls[n - 1], kind)
    BY <2>1, <2>2, <2>4, <2>5, <2>6 DEF Once, OnceAt, Event
  <2> QED BY <2>4, <2>7 DEF OnceDispatched
<1> QED BY <1>1, OnceInvariant, PTL

\* Handlers are called as they are bound: all that the module says of it.
THEOREM CalledAsBound == Assumptions => (Spec => []HandlersCalled)
<1> SUFFICES ASSUME Assumptions PROVE Spec => []HandlersCalled
  OBVIOUS
<1>1. CASE Inline = {}
  <2>1. /\ TypeOK /\ DelegatesInFront /\ ListenersMatch /\ NoneLate /\ NoneSkipped
        /\ OncePerEvent /\ NoneAboveStop
        => HandlersCalled
    BY DEF HandlersCalled
  <2>2. Spec => []OncePerEvent /\ []NoneAboveStop  BY <1>1, CalledOnce, NeverAbove
  <2> QED BY <2>1, <2>2, TypeCorrect, Delegated, Listening, NeverLate, NeverSkipped, PTL
<1>2. CASE Inline # {}
  <2>1. TypeOK /\ DelegatesInFront /\ ListenersMatch /\ NoneLate /\ NoneSkipped => HandlersCalled
    BY <1>2 DEF HandlersCalled
  <2> QED BY <2>1, TypeCorrect, Delegated, Listening, NeverLate, NeverSkipped, PTL
<1> QED BY <1>1, <1>2
=============================================================================
