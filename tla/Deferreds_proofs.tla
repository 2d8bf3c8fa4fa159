-------------------------- MODULE Deferreds_proofs --------------------------
(***************************************************************************)
(* Deferred objects keep what Promises says: an outcome is never changed,  *)
(* and a function added with done or fail is called at most once for every *)
(* time it was added, with that outcome and its value, whatever it and the *)
(* others call, return or throw.  Nobody who listens is forgotten either,  *)
(* unless a function threw, no news of progress is heard after the         *)
(* outcome, and those who listen to one list are told in the order in      *)
(* which they were added.                                                  *)
(*                                                                         *)
(* The invariant is about the lists c, the call stack s, the states st,    *)
(* the listeners ls, the calls td made of them and the number n0 of calls  *)
(* the page has made, so that it can be stated between two parts of a step. *)
(***************************************************************************)
EXTENDS Deferreds, SequenceTheorems, FiniteSetTheorems, TLAPS

Numbers == Nat \ {0}
Ends == {"done", "fail"}
Other(k) == IF k = "done" THEN "fail" ELSE "done"

\* The functions that are added to lists, and those that lists are made with.
Added ==
    {<<"page", n>> : n \in Numbers}
    \cup {<<"then", c, k, n>> : c \in Defs, k \in Kinds, n \in Nat}
    \cup {<<"signal", m, k>> : m \in Defs, k \in Kinds}
    \cup {<<"count", m>> : m \in Defs}
Own ==
    {<<"state", d, st>> : d \in Defs, st \in {"resolved", "rejected"}}
    \cup {<<"disable", d, k>> : d \in Defs, k \in Ends}
    \cup {<<"lock", d, "progress">> : d \in Defs}

Records ==
    [list : Seq(Added \cup Own), on : BOOLEAN, memory : Nat, fired : BOOLEAN, firing : BOOLEAN,
     index : Nat, length : Nat, value : Nat, stack : Seq(Numbers), repeat : BOOLEAN]

Todo ==
    {<<"add", l, f>> : l \in Lists, f \in Added}
    \cup {<<"fire", l, v>> : l \in Lists, v \in Numbers}
    \cup {<<"resolveIfNone", m>> : m \in Defs}
Frames ==
    [list : Lists, at : {"next", "call"}, todo : {<<>>}]
    \cup [list : {<<>>}, at : {"script"}, todo : Seq(Todo)]

-----------------------------------------------------------------------------
(* The lists and the stack. *)

\* A list that is off has nothing to call; one that fires remembers the value it
\* is fired with.
ListRight(r, l) ==
    /\ ~r.on => ~r.firing /\ r.list = <<>> /\ r.memory = 0
    /\ r.on /\ r.firing => r.fired /\ r.value > 0 /\ r.memory = r.value /\ r.length = Len(r.list)
    /\ l[2] = "progress" => \A i \in DOMAIN r.list : r.list[i] \in Added
    /\ l[2] \in Ends => ~r.repeat

Right(c) == c \in [Lists -> Records] /\ \A l \in Lists : ListRight(c[l], l)

IsPage(g) == g[1] = "page" \/ (g[1] = "then" /\ g[4] # 0)

\* A frame of a list is there only while the list fires; at a call it stands at a
\* function of the page.
FrameRight(c, f) ==
    f.at # "script" =>
       /\ c[f.list].on /\ c[f.list].firing
       /\ f.at = "call" => /\ c[f.list].index < Len(c[f.list].list)
                           /\ c[f.list].list[c[f.list].index + 1] \in Added
                           /\ IsPage(c[f.list].list[c[f.list].index + 1])

Stacked(c, s) ==
    /\ s \in Seq(Frames)
    /\ \A i \in DOMAIN s : FrameRight(c, s[i])
    /\ \A i, j \in DOMAIN s :
          i # j /\ s[i].at # "script" /\ s[j].at # "script" => s[i].list # s[j].list

-----------------------------------------------------------------------------
(* The stages of a deferred object: nothing has fired; a list begins to    *)
(* fire and has yet to disable the other; it has an outcome.               *)

Begins(list, d, k) ==
    /\ Len(list) >= 3
    /\ list[1] = <<"state", d, Outcome(k)>> /\ list[2] = <<"disable", d, Other(k)>>
    /\ list[3] = <<"lock", d, "progress">>
    /\ \A i \in DOMAIN list : i > 3 => list[i] \in Added
Untouched(r, d, k) == r.on /\ ~r.fired /\ ~r.firing /\ r.memory = 0 /\ Begins(r.list, d, k)

Open(c, st, d) == st[d] = "pending" /\ \A k \in Ends : Untouched(c[<<d, k>>], d, k)

Starting(c, s, st, d, k) ==
    /\ s # <<>> /\ s[Len(s)].at = "next" /\ s[Len(s)].list = <<d, k>>
    /\ Begins(c[<<d, k>>].list, d, k)
    /\ Untouched(c[<<d, Other(k)>>], d, Other(k))
    /\ \/ c[<<d, k>>].index = 0 /\ st[d] = "pending"
       \/ c[<<d, k>>].index = 1 /\ st[d] = Outcome(k)

Decided(c, st, d, k) ==
    LET r == c[<<d, k>>] IN
    /\ st[d] = Outcome(k)
    /\ ~c[<<d, Other(k)>>].on
    /\ r.on /\ r.fired /\ r.memory > 0
    /\ ~r.firing => r.list = <<>>
    /\ \A i \in DOMAIN r.list : i > r.index => r.list[i] \in Added \cup {<<"lock", d, "progress">>}

Steady(c, st, d) == Open(c, st, d) \/ \E k \in Ends : Decided(c, st, d, k)
Begun(c, s, st, d) == \E k \in Ends : Starting(c, s, st, d, k)

\* No list is about to disable the other.
Calm(c, st) == \A d \in Defs : Steady(c, st, d)
Staged(c, s, st) ==
    /\ st \in [Defs -> {"pending", "resolved", "rejected"}]
    /\ \A d \in Defs : Steady(c, st, d) \/ Begun(c, s, st, d)

-----------------------------------------------------------------------------
(* Where the page's function n may be that is to hear of the outcome k of d: *)
(* on the list, or in a call of add() that is still to be made.            *)

OnList(c, d, k, n, p) == p \in DOMAIN c[<<d, k>>].list /\ c[<<d, k>>].list[p] = <<"page", n>>
Scripted(s, d, k, n, i, j) ==
    /\ i \in DOMAIN s /\ s[i].at = "script" /\ j \in DOMAIN s[i].todo
    /\ s[i].todo[j] = <<"add", <<d, k>>, <<"page", n>>>>
Told(td, l) == \E i \in DOMAIN td : \A j \in 1 .. 3 : td[i][j] = l[j]

\* The loop over a list has passed place p, or is there.
Past(c, s, d, k, p) ==
    /\ c[<<d, k>>].firing /\ p <= c[<<d, k>>].index + 1
    /\ \A i \in DOMAIN s : s[i].at = "next" /\ s[i].list = <<d, k>> => p <= c[<<d, k>>].index

\* It is in one place, and has been told only if the loop has passed that.
Token(c, s, ls, td, n0, d, k, n) ==
    /\ \A p \in Nat : OnList(c, d, k, n, p) => n <= n0 /\ <<d, k, n>> \in ls
    /\ \A i, j \in Nat : Scripted(s, d, k, n, i, j) => n <= n0 /\ <<d, k, n>> \in ls
    /\ \A i, j \in Nat : Scripted(s, d, k, n, i, j) =>
          /\ \A x, y \in Nat : Scripted(s, d, k, n, x, y) => i = x /\ j = y
          /\ \A p \in Nat : ~OnList(c, d, k, n, p)
    /\ \A p, q \in Nat : OnList(c, d, k, n, p) /\ OnList(c, d, k, n, q) => p = q
    /\ Told(td, <<d, k, n>>) =>
          /\ n <= n0
          /\ \A i, j \in Nat : ~Scripted(s, d, k, n, i, j)
          /\ \A p \in Nat : OnList(c, d, k, n, p) => Past(c, s, d, k, p)

Tokens(c, s, ls, td, n0) ==
    /\ n0 \in Nat
    /\ \A d \in Defs, k \in Ends, n \in Numbers : Token(c, s, ls, td, n0, d, k, n)

Tellings == Defs \X Ends \X Numbers \X Numbers

\* The inductive invariant.
Good(c, s, st, ls, td, n0) ==
    Right(c) /\ Stacked(c, s) /\ Staged(c, s, st) /\ Tokens(c, s, ls, td, n0)
IInv == Good(cb, calls, state, listeners, told, ops) /\ told \in Seq(Tellings)

-----------------------------------------------------------------------------
(* What the methods of a list do to it. *)

LEMMA FlagsOf == \A l : "unique" \notin Flags(l) /\ "memory" \in Flags(l)
BY DEF Flags

\* add() appends, and a loop under way will reach what is added.
LEMMA PushedFacts ==
  ASSUME NEW r \in Records, NEW l, NEW f \in Added
  PROVE  LET q == Pushed(r, Flags(l), f) IN
         /\ q \in Records
         /\ Len(q.list) = Len(r.list) + 1 /\ q.list[Len(r.list) + 1] = f
         /\ \A i \in DOMAIN r.list : i \in DOMAIN q.list /\ q.list[i] = r.list[i]
         /\ DOMAIN q.list = 1 .. Len(r.list) + 1 /\ DOMAIN r.list = 1 .. Len(r.list)
         /\ q.on = r.on /\ q.memory = r.memory /\ q.fired = r.fired /\ q.firing = r.firing
         /\ q.index = r.index /\ q.value = r.value /\ q.stack = r.stack /\ q.repeat = r.repeat
         /\ r.firing => q.length = Len(q.list)
<1> DEFINE q == Pushed(r, Flags(l), f)
           list == Append(r.list, f)
<1>1. /\ list \in Seq(Added \cup Own) /\ Len(list) = Len(r.list) + 1
      /\ list[Len(r.list) + 1] = f /\ \A i \in DOMAIN r.list : list[i] = r.list[i]
      /\ DOMAIN list = 1 .. Len(r.list) + 1 /\ DOMAIN r.list = 1 .. Len(r.list)
      /\ Len(r.list) \in Nat
  <2>1. r.list \in Seq(Added \cup Own) /\ f \in Added \cup Own  BY DEF Records
  <2> QED BY <2>1, AppendProperties, LenProperties
<1>2. q = IF r.firing THEN [[r EXCEPT !.list = list] EXCEPT !.length = Len(list)]
                      ELSE [r EXCEPT !.list = list]
  BY FlagsOf DEF Pushed, Records
<1> HIDE DEF list
<1>3. CASE r.firing
  <2>1. q = [[r EXCEPT !.list = list] EXCEPT !.length = Len(list)]  BY <1>2, <1>3
  <2> DEFINE p == [r EXCEPT !.list = list]
  <2>0. p \in Records /\ p.list = list  BY <1>1 DEF Records
  <2>2. q \in Records /\ q.list = list /\ q.length = Len(list)
    <3> HIDE DEF q, p
    <3>1. q = [p EXCEPT !.length = Len(list)]  BY <2>1 DEF p
    <3>2. Len(list) \in Nat  BY <1>1
    <3> QED BY <2>0, <3>1, <3>2 DEF Records
  <2> HIDE DEF q, p
  <2>3. /\ q.on = r.on /\ q.memory = r.memory /\ q.fired = r.fired /\ q.firing = r.firing
        /\ q.index = r.index /\ q.value = r.value /\ q.stack = r.stack /\ q.repeat = r.repeat
    BY <2>1 DEF Records
  <2> QED BY <1>1, <2>2, <2>3 DEF q
<1>4. CASE ~r.firing
  <2>1. q = [r EXCEPT !.list = list]  BY <1>2, <1>4
  <2> HIDE DEF q
  <2>2. q \in Records /\ q.list = list  BY <1>1, <2>1 DEF Records
  <2>3. /\ q.on = r.on /\ q.memory = r.memory /\ q.fired = r.fired /\ q.firing = r.firing
        /\ q.index = r.index /\ q.value = r.value /\ q.stack = r.stack /\ q.repeat = r.repeat
    BY <2>1 DEF Records
  <2> QED BY <1>1, <1>4, <2>2, <2>3 DEF q
<1> QED BY <1>3, <1>4

\* fire() sets up a loop over the whole list.
LEMMA FireFacts ==
  ASSUME NEW r \in Records, NEW l, NEW v \in Nat, NEW start \in Nat
  PROVE  LET q == Fire(r, Flags(l), v, start) IN
         /\ q \in Records
         /\ q.list = r.list /\ q.on = r.on /\ q.memory = v /\ q.fired /\ q.firing
         /\ q.index = start /\ q.length = Len(r.list) /\ q.value = v
         /\ q.stack = r.stack /\ q.repeat = r.repeat
<1>1. Len(r.list) \in Nat  BY LenProperties DEF Records
<1> QED BY <1>1, FlagsOf DEF Fire, Records

\* It is remembered.
LEMMA FireRemembers ==
  ASSUME NEW r \in Records, NEW l, NEW v \in Nat, NEW start \in Nat
  PROVE  Fire(r, Flags(l), v, start).memory = v
BY FireFacts

\* Only the place of the loop changes.
LEMMA PassedFacts ==
  ASSUME NEW r \in Records
  PROVE  LET q == [r EXCEPT !.index = @ + 1] IN
         /\ q \in Records
         /\ q.list = r.list /\ q.on = r.on /\ q.memory = r.memory /\ q.fired = r.fired
         /\ q.firing = r.firing /\ q.index = r.index + 1 /\ q.length = r.length
         /\ q.value = r.value /\ q.stack = r.stack /\ q.repeat = r.repeat
<1> DEFINE q == [r EXCEPT !.index = @ + 1]
<1>1. r.index \in Nat /\ r.index + 1 \in Nat  BY DEF Records
<1>2. q \in Records  BY <1>1 DEF Records
<1>3. /\ q.list = r.list /\ q.on = r.on /\ q.memory = r.memory /\ q.fired = r.fired
      /\ q.firing = r.firing /\ q.index = r.index + 1
  BY DEF Records
<1>4. /\ q.length = r.length /\ q.value = r.value /\ q.stack = r.stack /\ q.repeat = r.repeat
  BY DEF Records
<1> QED BY <1>2, <1>3, <1>4

\* disable() leaves nothing to call and nothing to remember.
LEMMA DisabledFacts ==
  ASSUME NEW r \in Records
  PROVE  LET q == Disabled(r) IN
         /\ q \in Records
         /\ q.list = <<>> /\ ~q.on /\ q.memory = 0 /\ q.fired = r.fired
         /\ q.firing = r.firing /\ q.index = r.index /\ q.length = r.length
         /\ q.value = r.value /\ ~q.repeat
BY EmptySeq DEF Records, Disabled, NoValue

\* lock() disables a list that was never fired, and keeps one that was.
LEMMA LockedFacts ==
  ASSUME NEW r \in Records
  PROVE  LET q == Locked(r) IN
         /\ q \in Records
         /\ q.fired = r.fired /\ q.memory = r.memory
         /\ q.firing = r.firing /\ q.index = r.index /\ q.length = r.length
         /\ q.value = r.value /\ ~q.repeat
         /\ r.memory = 0 => q.list = <<>> /\ ~q.on
         /\ r.memory # 0 => q.list = r.list /\ q.on = r.on
<1> DEFINE s == [r EXCEPT !.stack = <<>>, !.repeat = FALSE]
<1>1. s \in Records /\ s.memory = r.memory /\ s.list = r.list /\ s.on = r.on /\ s.fired = r.fired
      /\ s.firing = r.firing /\ s.index = r.index /\ s.length = r.length /\ s.value = r.value
      /\ ~s.repeat
  BY EmptySeq DEF Records
<1>2. Locked(r) = IF r.memory = 0 THEN Disabled(s) ELSE s  BY DEF Locked, NoValue
<1> HIDE DEF s
<1> QED BY <1>1, <1>2, DisabledFacts

\* A list that is on and remembers what it was fired with.
LEMMA FinishedFacts ==
  ASSUME NEW r \in Records, NEW l, r.on, r.memory # 0
  PROVE  LET q == Finished(r, Flags(l)) IN
         /\ q \in Records /\ q.on /\ q.repeat = r.repeat
         /\ q.firing => /\ r.repeat /\ q.fired /\ q.list = r.list /\ q.value \in Numbers
                        /\ q.memory = q.value /\ q.length = Len(q.list) /\ q.index = 0
         /\ ~q.firing => /\ q.memory = r.memory /\ q.value = r.value /\ q.fired = r.fired
                         /\ q.list \in {r.list, <<>>}
         /\ ~r.repeat => ~q.firing /\ q.list = <<>>
<1> DEFINE s == [r EXCEPT !.firing = FALSE]
           t == [s EXCEPT !.stack = Tail(@)]
<1>1. s \in Records /\ ~s.firing /\ s.memory = r.memory /\ s.list = r.list /\ s.on = r.on
      /\ s.fired = r.fired /\ s.repeat = r.repeat /\ s.stack = r.stack /\ s.value = r.value
  BY DEF Records
<1>2. CASE r.repeat /\ r.stack # <<>>
  <2>1. Head(r.stack) \in Numbers /\ Tail(r.stack) \in Seq(Numbers)
    BY <1>2, HeadTailProperties DEF Records
  <2>2. t \in Records /\ t.list = r.list /\ t.on = r.on /\ t.repeat = r.repeat
    BY <1>1, <2>1 DEF Records
  <2>3. PICK u \in Records, v \in Numbers : u = t /\ v = Head(r.stack)  BY <2>1, <2>2
  <2>4. Finished(r, Flags(l)) = Fire(u, Flags(l), v, 0)  BY <1>1, <1>2, <2>3 DEF Finished
  <2>5. u.list = r.list /\ u.on = r.on /\ u.repeat = r.repeat  BY <2>2, <2>3
  <2> HIDE DEF s, t
  <2> DEFINE q == Fire(u, Flags(l), v, 0)
  <2>6. v \in Nat /\ v # 0  BY DEF Numbers
  <2>7. /\ q \in Records /\ q.list = u.list /\ q.on = u.on /\ q.memory = v
        /\ q.length = Len(u.list) /\ q.value = v /\ q.repeat = u.repeat /\ q.fired /\ q.firing
        /\ q.index = 0
    BY <2>6, FireFacts
  <2> HIDE DEF q
  <2> QED BY <1>2, <2>4, <2>5, <2>7 DEF q
<1>3. CASE r.repeat /\ r.stack = <<>>
  BY <1>1, <1>3 DEF Finished
<1>4. CASE ~r.repeat
  <2>1. Finished(r, Flags(l)) = [s EXCEPT !.list = <<>>]  BY <1>1, <1>4 DEF Finished, NoValue
  <2>2. <<>> \in Seq(Added \cup Own)  BY EmptySeq
  <2> HIDE DEF s
  <2> QED BY <1>1, <1>4, <2>1, <2>2 DEF Records
<1> QED BY <1>2, <1>3, <1>4

-----------------------------------------------------------------------------
(* When one list l changes. *)

\* The lists c2 are the lists c but for l.
But(c, c2, l) ==
    c \in [Lists -> Records] /\ c2 \in [Lists -> Records] /\ \A m \in Lists \ {l} : c2[m] = c[m]

\* An assignment to one list changes no other.
LEMMA ButOne ==
  ASSUME NEW c \in [Lists -> Records], NEW l \in Lists, NEW r \in Records
  PROVE  But(c, [c EXCEPT ![l] = r], l) /\ [c EXCEPT ![l] = r][l] = r
BY DEF But

\* Lists are named by a deferred object and a kind.
LEMMA OfLists ==
  /\ \A d \in Defs, k \in Ends : <<d, k>> \in Lists /\ Other(k) \in Ends /\ k # Other(k)
                                 /\ <<d, k>> # <<d, Other(k)>> /\ Other(Other(k)) = k
                                 /\ Outcome(k) # Outcome(Other(k)) /\ Outcome(k) # "pending"
                                 /\ Outcome(k) \in {"resolved", "rejected"}
  /\ \A l \in Lists : /\ l = <<l[1], l[2]>> /\ l[1] \in Defs /\ l[2] \in Kinds
                      /\ l[2] \in Ends \/ l[2] = "progress"
  /\ \A d, e \in Defs, k, i \in Kinds : <<d, k>> = <<e, i>> => d = e /\ k = i
  /\ Ends \subseteq Kinds /\ "progress" \notin Ends
BY DEF Lists, Kinds, Ends, Other, Outcome

\* What the fields of a list are.
LEMMA RecordTypes ==
  ASSUME NEW r \in Records
  PROVE  /\ r.index \in Nat /\ r.length \in Nat /\ r.memory \in Nat /\ r.value \in Nat
         /\ Len(r.list) \in Nat /\ DOMAIN r.list = 1 .. Len(r.list)
         /\ r.list \in Seq(Added \cup Own) /\ r.stack \in Seq(Numbers)
         /\ \A i \in DOMAIN r.list : r.list[i] \in Added \cup Own
         /\ r.list = <<>> => DOMAIN r.list = {} /\ Len(r.list) = 0
<1>1. r.list \in Seq(Added \cup Own)  BY DEF Records
<1> QED BY <1>1, LenProperties, ElementOfSeq DEF Records

\* What the fields of a frame are.
LEMMA FrameTypes ==
  ASSUME NEW f \in Frames
  PROVE  /\ f.at \in {"next", "call", "script"}
         /\ f.at # "script" => f.list \in Lists /\ f.todo = <<>>
         /\ f.at = "script" => f.todo \in Seq(Todo)
BY DEF Frames

\* A stack is a sequence of frames.
LEMMA StackTypes ==
  ASSUME NEW s \in Seq(Frames)
  PROVE  /\ Len(s) \in Nat /\ DOMAIN s = 1 .. Len(s)
         /\ \A i \in DOMAIN s : s[i] \in Frames
         /\ s # <<>> => Len(s) \in DOMAIN s
         /\ s = <<>> => DOMAIN s = {}
BY LenProperties, ElementOfSeq, EmptySeq

\* The lists are right if the one that changed is.
LEMMA RightKept ==
  ASSUME NEW c, NEW c2, NEW l \in Lists, Right(c), But(c, c2, l), ListRight(c2[l], l)
  PROVE  Right(c2)
BY DEF Right, But

\* So are the frames, if those of the list that changed are.
LEMMA FramesKept ==
  ASSUME NEW c, NEW c2, NEW l \in Lists, NEW s, Right(c), But(c, c2, l), Stacked(c, s),
         \A i \in DOMAIN s : s[i].at # "script" /\ s[i].list = l => FrameRight(c2, s[i])
  PROVE  Stacked(c2, s)
<1>1. ASSUME NEW i \in DOMAIN s PROVE FrameRight(c2, s[i])
  <2>1. s[i] \in Frames /\ FrameRight(c, s[i])  BY StackTypes DEF Stacked
  <2>2. CASE s[i].at # "script" /\ s[i].list # l
    <3>1. c2[s[i].list] = c[s[i].list]  BY <2>1, <2>2, FrameTypes DEF But
    <3> QED BY <2>1, <2>2, <3>1 DEF FrameRight
  <2> QED BY <2>2 DEF FrameRight
<1> QED BY <1>1 DEF Stacked

\* An object whose two lists stay is as steady as it was.
LEMMA SteadyKept ==
  ASSUME NEW c, NEW c2, NEW st, NEW d, \A k \in Ends : c2[<<d, k>>] = c[<<d, k>>], Steady(c, st, d)
  PROVE  Steady(c2, st, d)
<1>1. CASE Open(c, st, d)
  BY <1>1 DEF Steady, Open
<1>2. ASSUME NEW k \in Ends, Decided(c, st, d, k) PROVE Steady(c2, st, d)
  <2>1. Other(k) \in Ends  BY DEF Other, Ends
  <2>2. Decided(c2, st, d, k)  BY <1>2, <2>1 DEF Decided
  <2> QED BY <2>2 DEF Steady
<1> QED BY <1>1, <1>2 DEF Steady

\* Only the deferred object of the list that changed is another one.
LEMMA CalmKept ==
  ASSUME NEW c, NEW c2, NEW st, NEW l \in Lists, But(c, c2, l), Calm(c, st),
         l[2] \in Ends => Steady(c2, st, l[1])
  PROVE  Calm(c2, st)
<1> SUFFICES ASSUME NEW d \in Defs PROVE Steady(c2, st, d)  BY DEF Calm
<1>1. CASE l[2] \in Ends /\ d = l[1]
  BY <1>1
<1>2. CASE ~(l[2] \in Ends /\ d = l[1])
  <2>1. \A k \in Ends : <<d, k>> \in Lists \ {l}  BY <1>2, OfLists
  <2> QED BY <2>1, SteadyKept DEF But, Calm
<1> QED BY <1>1, <1>2

\* No function is in a new place, and the loop is past those it was past.
LEMMA TokenKept ==
  ASSUME NEW c, NEW s, NEW c2, NEW s2, NEW ls, NEW td, NEW n0, NEW d, NEW k, NEW n,
         Token(c, s, ls, td, n0, d, k, n),
         \A p \in Nat : OnList(c2, d, k, n, p) => OnList(c, d, k, n, p),
         \A i, j \in Nat : Scripted(s2, d, k, n, i, j) => Scripted(s, d, k, n, i, j),
         \A p \in Nat : OnList(c2, d, k, n, p) /\ Past(c, s, d, k, p) => Past(c2, s2, d, k, p)
  PROVE  Token(c2, s2, ls, td, n0, d, k, n)
BY DEF Token

\* A function that is in no place, and nobody was told of.
Free(c, s, ls, td, n0, d, k, n) ==
    /\ n <= n0 /\ <<d, k, n>> \in ls /\ ~Told(td, <<d, k, n>>)
    /\ \A p \in Nat : ~OnList(c, d, k, n, p)
    /\ \A i, j \in Nat : ~Scripted(s, d, k, n, i, j)

\* A function that was in no place is in one place of a list now.
LEMMA TokenAdded ==
  ASSUME NEW c, NEW s, NEW c2, NEW s2, NEW ls, NEW td, NEW n0, NEW d, NEW k, NEW n, NEW m \in Nat,
         Free(c, s, ls, td, n0, d, k, n),
         \A p \in Nat : OnList(c2, d, k, n, p) => p = m,
         \A i, j \in Nat : Scripted(s2, d, k, n, i, j) => Scripted(s, d, k, n, i, j)
  PROVE  Token(c2, s2, ls, td, n0, d, k, n)
BY DEF Token, Free

\* A frame is added that no script is in.
LEMMA FramePushed ==
  ASSUME NEW s \in Seq(Frames), NEW l \in Lists
  PROVE  LET s2 == Append(s, Frame(l)) IN
         /\ s2 \in Seq(Frames) /\ Len(s2) = Len(s) + 1 /\ s2 # <<>>
         /\ s2[Len(s) + 1].at = "next" /\ s2[Len(s) + 1].list = l
         /\ \A i \in DOMAIN s : i \in DOMAIN s2 /\ s2[i] = s[i]
         /\ \A i \in DOMAIN s2 : i \in DOMAIN s \/ i = Len(s) + 1
         /\ \A d, k, n, i, j : Scripted(s2, d, k, n, i, j) => Scripted(s, d, k, n, i, j)
<1> DEFINE s2 == Append(s, Frame(l))
<1>1. Frame(l) \in Frames /\ Frame(l).at = "next" /\ Frame(l).list = l  BY DEF Frame, Frames
<1>2. /\ s2 \in Seq(Frames) /\ Len(s2) = Len(s) + 1 /\ s2[Len(s) + 1] = Frame(l)
      /\ \A i \in 1 .. Len(s) : s2[i] = s[i]
  BY <1>1, AppendProperties
<1>3. /\ Len(s) \in Nat /\ DOMAIN s = 1 .. Len(s) /\ DOMAIN s2 = 1 .. Len(s) + 1
  BY <1>2, LenProperties
<1> HIDE DEF s2
<1>4. s2 # <<>>  BY <1>2, <1>3, EmptySeq
<1>5. /\ \A i \in DOMAIN s : i \in DOMAIN s2 /\ s2[i] = s[i]
      /\ \A i \in DOMAIN s2 : i \in DOMAIN s \/ i = Len(s) + 1
  BY <1>2, <1>3
<1>6. \A d, k, n, i, j : Scripted(s2, d, k, n, i, j) => Scripted(s, d, k, n, i, j)
  BY <1>1, <1>2, <1>5 DEF Scripted
<1> QED BY <1>1, <1>2, <1>4, <1>5, <1>6 DEF s2

-----------------------------------------------------------------------------
(* add() and fireWith(). *)

\* While no list is about to disable the other, a list of an object that is being
\* fired, or was, belongs to the outcome of the object.
LEMMA FiredDecides ==
  ASSUME NEW c, NEW st, NEW d \in Defs, NEW k \in Ends, Steady(c, st, d), c[<<d, k>>].on
  PROVE  \/ Decided(c, st, d, k) /\ c[<<d, k>>].fired /\ c[<<d, k>>].memory > 0
         \/ /\ Open(c, st, d) /\ Untouched(c[<<d, k>>], d, k)
            /\ ~c[<<d, k>>].fired /\ ~c[<<d, k>>].firing /\ c[<<d, k>>].memory = 0
<1>1. CASE Open(c, st, d)
  BY <1>1 DEF Open, Untouched
<1>2. ASSUME NEW i \in Ends, Decided(c, st, d, i) PROVE Decided(c, st, d, k)
  BY <1>2 DEF Decided, Ends, Other
<1> QED BY <1>1, <1>2 DEF Steady, Decided

\* The list has another function, and is not fired for it.
LEMMA GrownGood ==
  ASSUME NEW c, NEW s, NEW st, NEW ls, NEW td, NEW n0, NEW l \in Lists, NEW f \in Added, NEW c2,
         Good(c, s, st, ls, td, n0), Calm(c, st),
         c[l].on, ~CatchesUp(c[l]), c2 = [c EXCEPT ![l] = Pushed(c[l], Flags(l), f)],
         \A k \in Ends, n \in Numbers :
            l[2] = k /\ f = <<"page", n>> => Free(c, s, ls, td, n0, l[1], k, n)
  PROVE  Good(c2, s, st, ls, td, n0) /\ Calm(c2, st)
<1>1. PICK r \in Records : r = c[l]  BY DEF Good, Right
<1>2. PICK q \in Records : q = Pushed(r, Flags(l), f)  BY PushedFacts
<1>3. c2[l] = q /\ But(c, c2, l) /\ ListRight(r, l)
  BY <1>1, <1>2, ButOne DEF Good, Right
<1>a. /\ Len(q.list) = Len(r.list) + 1 /\ q.list[Len(r.list) + 1] = f
      /\ \A i \in DOMAIN r.list : i \in DOMAIN q.list /\ q.list[i] = r.list[i]
      /\ DOMAIN q.list = 1 .. Len(r.list) + 1 /\ DOMAIN r.list = 1 .. Len(r.list)
      /\ q.on = r.on /\ q.memory = r.memory /\ q.fired = r.fired /\ q.firing = r.firing
      /\ q.index = r.index /\ q.value = r.value /\ q.stack = r.stack /\ q.repeat = r.repeat
      /\ r.firing => q.length = Len(q.list)
  BY <1>2, PushedFacts
<1>b. r.on /\ r.index \in Nat /\ Len(r.list) \in Nat /\ r.memory \in Nat  BY <1>1, RecordTypes
<1>c. /\ \A i \in DOMAIN r.list : q.list[i] = r.list[i]
      /\ \A i \in DOMAIN q.list : i \in DOMAIN r.list \/ i = Len(r.list) + 1
      /\ \A i \in Nat : i < Len(r.list) => i + 1 \in DOMAIN r.list
  BY ONLY <1>a, <1>b
<1>d. q.list[Len(r.list) + 1] = f  BY ONLY <1>a
<1>4. ListRight(q, l)
  BY <1>3, <1>a, <1>b DEF ListRight
<1>5. Right(c2)
  BY <1>3, <1>4, RightKept DEF Good
<1>6. Stacked(c2, s)
  <2>1. ASSUME NEW i \in DOMAIN s, s[i].at # "script", s[i].list = l PROVE FrameRight(c2, s[i])
    <3>1. FrameRight(c, s[i])  BY DEF Good, Stacked
    <3>0. q.index = r.index  BY ONLY <1>a
    <3>2. q.index < Len(r.list) => q.list[q.index + 1] = r.list[q.index + 1]
      BY ONLY <1>b, <1>c, <3>0
    <3> QED BY <1>1, <1>3, <1>a, <1>b, <2>1, <3>1, <3>2 DEF FrameRight
  <2> QED BY <1>3, <2>1, FramesKept DEF Good
<1>7. Calm(c2, st)
  <2>1. ASSUME l[2] \in Ends PROVE Steady(c2, st, l[1])
    <3> DEFINE d == l[1]
               k == l[2]
    <3>1. d \in Defs /\ l = <<d, k>> /\ Steady(c, st, d)  BY OfLists DEF Calm
    <3>2. c2[<<d, Other(k)>>] = c[<<d, Other(k)>>]  BY <1>3, <2>1, <3>1, OfLists DEF But
    <3> HIDE DEF d, k
    <3>3. CASE Decided(c, st, d, k)
      <4>1. r.firing  BY <1>1, <1>b, <3>1, <3>3 DEF Decided, CatchesUp, NoValue
      <4>2. c[<<d, k>>] = r /\ c2[<<d, k>>] = q  BY <1>1, <1>3, <3>1
      <4>3. \A i \in DOMAIN q.list : i > q.index =>
               q.list[i] \in Added \cup {<<"lock", d, "progress">>}
        BY <1>a, <1>b, <3>3, <4>2 DEF Decided
      <4>4. Decided(c2, st, d, k)
        BY <1>a, <3>2, <3>3, <4>1, <4>2, <4>3 DEF Decided
      <4> QED BY <2>1, <4>4 DEF Steady, k, d
    <3>4. CASE Open(c, st, d) /\ Untouched(r, d, k)
      <4>0. Begins(q.list, d, k)
        <5>1. Begins(r.list, d, k)  BY <3>4 DEF Untouched
        <5>2. Len(r.list) >= 3 /\ 1 \in DOMAIN r.list /\ 2 \in DOMAIN r.list /\ 3 \in DOMAIN r.list
          BY ONLY <1>a, <1>b, <5>1 DEF Begins
        <5>3. q.list[1] = r.list[1] /\ q.list[2] = r.list[2] /\ q.list[3] = r.list[3]
          BY ONLY <1>a, <5>2
        <5>4. ASSUME NEW i \in DOMAIN q.list, i > 3 PROVE q.list[i] \in Added
          <6>1. CASE i \in DOMAIN r.list  BY ONLY <1>c, <5>1, <5>4, <6>1 DEF Begins
          <6> QED BY ONLY <1>c, <1>d, <5>4, <6>1, f \in Added
        <5>5. Len(q.list) >= 3  BY ONLY <1>a, <1>b, <5>2
        <5> QED BY ONLY <5>1, <5>3, <5>4, <5>5 DEF Begins
      <4>1. Untouched(q, d, k)  BY ONLY <1>a, <3>4, <4>0 DEF Untouched
      <4>2. \A i \in Ends : i = k \/ i = Other(k)  BY <2>1 DEF Ends, Other, k
      <4>3. Open(c2, st, d)  BY <1>3, <3>1, <3>2, <3>4, <4>1, <4>2 DEF Open
      <4> QED BY <4>3 DEF Steady, d
    <3> QED BY <1>1, <1>b, <2>1, <3>1, <3>3, <3>4, FiredDecides DEF k
  <2> QED BY <1>3, <2>1, CalmKept
<1>8. Tokens(c2, s, ls, td, n0)
  <2>1. ASSUME NEW d \in Defs, NEW k \in Ends, NEW n \in Numbers
        PROVE  Token(c2, s, ls, td, n0, d, k, n)
    <3>1. Token(c, s, ls, td, n0, d, k, n)  BY DEF Good, Tokens
    <3>2. CASE l # <<d, k>>
      <4>1. c2[<<d, k>>] = c[<<d, k>>]  BY <1>3, <3>2, OfLists DEF But
      <4> QED BY <3>1, <4>1, TokenKept DEF OnList, Past
    <3>3. CASE l = <<d, k>> /\ f # <<"page", n>>
      <4>1. \A p \in Nat : OnList(c2, d, k, n, p) => OnList(c, d, k, n, p)
        BY ONLY <1>1, <1>3, <1>c, <1>d, <3>3 DEF OnList
      <4>2. \A p \in Nat : Past(c, s, d, k, p) => Past(c2, s, d, k, p)
        BY <1>1, <1>3, <1>a, <3>3 DEF Past
      <4> QED BY <3>1, <4>1, <4>2, TokenKept
    <3>4. CASE l = <<d, k>> /\ f = <<"page", n>>
      <4>1. Free(c, s, ls, td, n0, d, k, n)  BY <3>4
      <4>0. c[<<d, k>>] = r /\ c2[<<d, k>>] = q  BY <1>1, <1>3, <3>4
      <4>2. ASSUME NEW p \in Nat, OnList(c2, d, k, n, p) PROVE p = Len(r.list) + 1
        <5>1. p \in DOMAIN r.list => q.list[p] = r.list[p]  BY <1>a
        <5>2. ~OnList(c, d, k, n, p)  BY <4>1 DEF Free
        <5> QED BY <1>a, <1>b, <4>0, <4>2, <5>1, <5>2 DEF OnList
      <4> QED BY <1>b, <4>1, <4>2, TokenAdded
    <3> QED BY <3>2, <3>3, <3>4
  <2> QED BY <2>1 DEF Good, Tokens
<1> QED BY <1>5, <1>6, <1>7, <1>8 DEF Good, Staged, Calm

\* A loop over the list begins.
LEMMA LoopPushed ==
  ASSUME NEW c, NEW s, NEW st, NEW ls, NEW td, NEW n0, NEW l \in Lists, NEW c2,
         Good(c, s, st, ls, td, n0), But(c, c2, l), ListRight(c2[l], l),
         ~c[l].firing, c2[l].on, c2[l].firing
  PROVE  LET s2 == Append(s, Frame(l)) IN
         /\ Right(c2) /\ Stacked(c2, s2)
         /\ \A d \in Defs, k \in Ends, n \in Numbers :
               l # <<d, k>> => Token(c2, s2, ls, td, n0, d, k, n)
<1>1. s \in Seq(Frames)  BY DEF Good, Stacked
<1>2. PICK s2 : s2 = Append(s, Frame(l))  OBVIOUS
<1>a. /\ s2 \in Seq(Frames) /\ Len(s2) = Len(s) + 1
      /\ s2[Len(s) + 1].at = "next" /\ s2[Len(s) + 1].list = l
      /\ \A i \in DOMAIN s : i \in DOMAIN s2 /\ s2[i] = s[i]
      /\ \A i \in DOMAIN s2 : i \in DOMAIN s \/ i = Len(s) + 1
  BY <1>1, <1>2, FramePushed
<1>b. \A d, k, n, i, j : Scripted(s2, d, k, n, i, j) => Scripted(s, d, k, n, i, j)
  BY <1>1, <1>2, FramePushed
<1>3. Right(c2)  BY RightKept DEF Good
<1>4. ASSUME NEW i \in DOMAIN s, s[i].at # "script" PROVE s[i].list # l
  <2>1. FrameRight(c, s[i])  BY DEF Good, Stacked
  <2> QED BY <1>4, <2>1 DEF FrameRight
<1>5. Stacked(c2, s)  BY <1>4, FramesKept DEF Good
<1>6. Stacked(c2, s2)
  <2>1. \A i \in DOMAIN s2 : FrameRight(c2, s2[i])
    BY <1>a, <1>5 DEF Stacked, FrameRight
  <2>2. ASSUME NEW i \in DOMAIN s2, NEW j \in DOMAIN s2, i # j,
               s2[i].at # "script", s2[j].at # "script"
        PROVE  s2[i].list # s2[j].list
    BY <1>a, <1>4, <1>5, <2>2 DEF Stacked
  <2> QED BY <1>a, <2>1, <2>2 DEF Stacked
<1>7. ASSUME NEW d \in Defs, NEW k \in Ends, NEW n \in Numbers, l # <<d, k>>
      PROVE  Token(c2, s2, ls, td, n0, d, k, n)
  <2>1. Token(c, s, ls, td, n0, d, k, n)  BY DEF Good, Tokens
  <2>2. c2[<<d, k>>] = c[<<d, k>>]  BY <1>7, OfLists DEF But
  <2>3. \A p \in Nat : Past(c, s, d, k, p) => Past(c2, s2, d, k, p)
    BY <1>a, <1>7, <2>2 DEF Past
  <2>4. \A p \in Nat : OnList(c2, d, k, n, p) => OnList(c, d, k, n, p)  BY <2>2 DEF OnList
  <2> QED BY <1>b, <2>1, <2>3, <2>4, TokenKept
<1> QED BY <1>2, <1>3, <1>6, <1>7

\* A list that has been fired is fired again for what was added.
LEMMA CaughtUpGood ==
  ASSUME NEW c, NEW s, NEW st, NEW ls, NEW td, NEW n0, NEW l \in Lists, NEW f \in Added, NEW c2,
         Good(c, s, st, ls, td, n0), Calm(c, st), CatchesUp(c[l]),
         c2 = [c EXCEPT ![l] = Fire(Pushed(c[l], Flags(l), f), Flags(l), c[l].memory, Len(c[l].list))],
         \A k \in Ends, n \in Numbers :
            l[2] = k /\ f = <<"page", n>> => Free(c, s, ls, td, n0, l[1], k, n)
  PROVE  Good(c2, Append(s, Frame(l)), st, ls, td, n0) /\ Calm(c2, st)
<1>1. PICK r \in Records : r = c[l]  BY DEF Good, Right
<1>2. r.on /\ ~r.firing /\ r.memory \in Nat /\ r.memory # 0 /\ Len(r.list) \in Nat
  BY <1>1, RecordTypes DEF CatchesUp, NoValue
<1>3. PICK p \in Records : p = Pushed(r, Flags(l), f)  BY PushedFacts
<1>4. /\ Len(p.list) = Len(r.list) + 1 /\ p.list[Len(r.list) + 1] = f
      /\ \A i \in DOMAIN r.list : i \in DOMAIN p.list /\ p.list[i] = r.list[i]
      /\ DOMAIN p.list = 1 .. Len(r.list) + 1 /\ DOMAIN r.list = 1 .. Len(r.list)
      /\ p.on = r.on /\ p.repeat = r.repeat
  BY <1>3, PushedFacts
<1>5. PICK q \in Records : q = Fire(p, Flags(l), r.memory, Len(r.list))  BY <1>2, FireFacts
<1>6. /\ q.list = p.list /\ q.on = p.on /\ q.memory = r.memory /\ q.fired /\ q.firing
      /\ q.index = Len(r.list) /\ q.length = Len(p.list) /\ q.value = r.memory
      /\ q.repeat = p.repeat
  BY <1>2, <1>5, FireFacts
<1>7. c2[l] = q /\ But(c, c2, l) /\ ListRight(r, l)
  BY <1>1, <1>3, <1>5, ButOne DEF Good, Right
<1>8. ListRight(q, l)
  <2>1. ASSUME l[2] = "progress", NEW i \in DOMAIN q.list PROVE q.list[i] \in Added
    <3>1. \A j \in DOMAIN r.list : r.list[j] \in Added  BY <1>7, <2>1 DEF ListRight
    <3>2. i \in DOMAIN r.list \/ i = Len(r.list) + 1  BY ONLY <1>2, <1>4, <1>6, <2>1
    <3> QED BY ONLY <1>4, <1>6, <3>1, <3>2, f \in Added
  <2>2. l[2] \in Ends => ~q.repeat  BY <1>4, <1>6, <1>7 DEF ListRight
  <2>3. q.on /\ q.fired /\ q.value > 0 /\ q.memory = q.value /\ q.length = Len(q.list)
    BY <1>2, <1>4, <1>6
  <2> QED BY <2>1, <2>2, <2>3 DEF ListRight
<1>9. q.on /\ q.firing  BY <1>2, <1>4, <1>6
<1>10. /\ Right(c2) /\ Stacked(c2, Append(s, Frame(l)))
       /\ \A d \in Defs, k \in Ends, n \in Numbers :
             l # <<d, k>> => Token(c2, Append(s, Frame(l)), ls, td, n0, d, k, n)
  BY <1>1, <1>2, <1>7, <1>8, <1>9, LoopPushed
\* The list was empty.
<1>11. ASSUME l[2] \in Ends
       PROVE  Decided(c, st, l[1], l[2]) /\ r.list = <<>> /\ Len(r.list) = 0
  <2>1. l[1] \in Defs /\ l = <<l[1], l[2]>> /\ Steady(c, st, l[1])  BY OfLists DEF Calm
  <2>2. Decided(c, st, l[1], l[2])  BY <1>1, <1>2, <1>11, <2>1, FiredDecides
  <2>3. r.list = <<>>  BY <1>1, <1>2, <2>1, <2>2 DEF Decided
  <2> QED BY <2>2, <2>3, RecordTypes
<1>12. Calm(c2, st)
  <2>1. ASSUME l[2] \in Ends PROVE Steady(c2, st, l[1])
    <3>1. PICK d \in Defs, k \in Ends : l = <<d, k>> /\ d = l[1] /\ k = l[2]  BY <2>1, OfLists
    <3>2. c2[<<d, Other(k)>>] = c[<<d, Other(k)>>]  BY <1>7, <3>1, OfLists DEF But
    <3>3. Decided(c, st, d, k)  BY <1>11, <2>1, <3>1
    <3>4. c[<<d, k>>] = r /\ c2[<<d, k>>] = q  BY <1>1, <1>7, <3>1
    <3>5. \A i \in DOMAIN q.list : i > q.index => q.list[i] \in Added
      BY <1>4, <1>6, <1>11, <2>1
    <3>6. q.on /\ q.fired /\ q.memory > 0 /\ q.firing  BY <1>2, <1>4, <1>6
    <3>7. Decided(c2, st, d, k)  BY <3>2, <3>3, <3>4, <3>5, <3>6 DEF Decided
    <3> QED BY <3>1, <3>7 DEF Steady
  <2> QED BY <1>7, <2>1, CalmKept
<1>13. ASSUME NEW d \in Defs, NEW k \in Ends, NEW n \in Numbers, l = <<d, k>>
       PROVE  Token(c2, Append(s, Frame(l)), ls, td, n0, d, k, n)
  <2>1. l[2] \in Ends /\ l[1] = d /\ l[2] = k  BY <1>13
  <2>0. PICK s2 : s2 = Append(s, Frame(l))  OBVIOUS
  <2>2. \A i, j \in Nat : Scripted(s2, d, k, n, i, j) => Scripted(s, d, k, n, i, j)
    <3>1. s \in Seq(Frames)  BY DEF Good, Stacked
    <3> QED BY <2>0, <3>1, FramePushed
  <2>3. c2[<<d, k>>] = q  BY <1>7, <1>13
  <2>4. \A m \in Nat : OnList(c2, d, k, n, m) => m = 1 /\ f = <<"page", n>>
    BY <1>4, <1>6, <1>11, <2>1, <2>3 DEF OnList
  <2>5. CASE f = <<"page", n>>
    <3>1. Free(c, s, ls, td, n0, d, k, n)  BY <2>1, <2>5
    <3>2. Token(c2, s2, ls, td, n0, d, k, n)  BY ONLY <2>2, <2>4, <3>1, TokenAdded, 1 \in Nat
    <3> QED BY <2>0, <3>2
  <2>6. CASE f # <<"page", n>>
    <3>1. Token(c, s, ls, td, n0, d, k, n)  BY DEF Good, Tokens
    <3>2. \A m \in Nat : ~OnList(c2, d, k, n, m)  BY <2>4, <2>6
    <3>3. Token(c2, s2, ls, td, n0, d, k, n)  BY ONLY <2>2, <3>1, <3>2, TokenKept
    <3> QED BY <2>0, <3>3
  <2> QED BY <2>5, <2>6
<1> QED BY <1>10, <1>12, <1>13 DEF Good, Staged, Calm, Tokens

\* fireWith() of a list that is fired for the first time, or is one of the
\* progress lists, which are fired again and again.
LEMMA FiredGood ==
  ASSUME NEW c, NEW s, NEW st, NEW ls, NEW td, NEW n0, NEW l \in Lists, NEW v \in Numbers, NEW c2,
         Good(c, s, st, ls, td, n0), Calm(c, st), CanFire(c[l]), ~c[l].firing,
         c2 = [c EXCEPT ![l] = Fire(c[l], Flags(l), v, 0)]
  PROVE  Good(c2, Append(s, Frame(l)), st, ls, td, n0)
<1>0. v \in Nat /\ v # 0  BY DEF Numbers
<1>1. PICK r \in Records : r = c[l]  BY DEF Good, Right
<1>2. r.on /\ ~r.firing /\ (~r.fired \/ r.repeat) /\ Len(r.list) \in Nat
  BY <1>1, RecordTypes DEF CanFire
<1>3. PICK q \in Records : q = Fire(r, Flags(l), v, 0)  BY <1>0, FireFacts
<1>4. /\ q.list = r.list /\ q.on = r.on /\ q.memory = v /\ q.fired /\ q.firing
      /\ q.index = 0 /\ q.length = Len(r.list) /\ q.value = v /\ q.repeat = r.repeat
  BY <1>0, <1>3, FireFacts
<1>5. c2[l] = q /\ But(c, c2, l) /\ ListRight(r, l)
  BY <1>1, <1>3, ButOne DEF Good, Right
<1>6. ListRight(q, l)  BY <1>0, <1>2, <1>4, <1>5 DEF ListRight
<1>7. q.on /\ q.firing  BY <1>2, <1>4
<1>8. PICK s2 : s2 = Append(s, Frame(l))  OBVIOUS
<1>9. /\ Right(c2) /\ Stacked(c2, s2)
      /\ \A d \in Defs, k \in Ends, n \in Numbers :
            l # <<d, k>> => Token(c2, s2, ls, td, n0, d, k, n)
  BY <1>1, <1>2, <1>5, <1>6, <1>7, <1>8, LoopPushed
<1>10. Calm(c, st)  OBVIOUS
<1>11. ASSUME NEW d \in Defs PROVE Steady(c2, st, d) \/ Begun(c2, s2, st, d)
  <2>1. CASE l[2] \in Ends /\ d = l[1]
    <3>1. PICK k \in Ends : l = <<d, k>>  BY <2>1, OfLists
    <3>2. c[<<d, k>>] = r /\ c2[<<d, k>>] = q  BY <1>1, <1>5, <3>1
    <3>3. ~r.repeat  BY <1>5, <3>1 DEF ListRight
    <3>4. Open(c, st, d)
      BY ONLY <1>2, <1>10, <3>2, <3>3, FiredDecides DEF Calm
    <3>5. Begins(q.list, d, k)  BY <1>4, <3>2, <3>4 DEF Open, Untouched
    <3>6. Other(k) \in Ends /\ c2[<<d, Other(k)>>] = c[<<d, Other(k)>>]
      BY <1>5, <3>1, OfLists DEF But
    <3>7. Untouched(c2[<<d, Other(k)>>], d, Other(k))  BY <3>4, <3>6 DEF Open
    <3>8. s2 # <<>> /\ s2[Len(s2)].at = "next" /\ s2[Len(s2)].list = <<d, k>>
      <4>1. s \in Seq(Frames)  BY DEF Good, Stacked
      <4>2. /\ s2 # <<>> /\ Len(s2) = Len(s) + 1
            /\ s2[Len(s) + 1].at = "next" /\ s2[Len(s) + 1].list = l
        BY ONLY <1>8, <4>1, l \in Lists, FramePushed
      <4> QED BY ONLY <3>1, <4>2
    <3>9. q.index = 0 /\ st[d] = "pending"  BY <1>4, <3>4 DEF Open
    <3> QED BY <3>2, <3>5, <3>7, <3>8, <3>9 DEF Begun, Starting
  <2>2. CASE ~(l[2] \in Ends /\ d = l[1])
    <3>1. \A k \in Ends : c2[<<d, k>>] = c[<<d, k>>]  BY <1>5, <2>2, OfLists DEF But
    <3>2. Steady(c, st, d)  BY DEF Calm
    <3> QED BY ONLY <3>1, <3>2, SteadyKept
  <2> QED BY <2>1, <2>2
<1>12. ASSUME NEW d \in Defs, NEW k \in Ends, NEW n \in Numbers, l = <<d, k>>
       PROVE  Token(c2, s2, ls, td, n0, d, k, n)
  <2>1. c[<<d, k>>] = r /\ c2[<<d, k>>] = q  BY <1>1, <1>5, <1>12
  <2>2. \A i, j \in Nat : Scripted(s2, d, k, n, i, j) => Scripted(s, d, k, n, i, j)
    <3>1. s \in Seq(Frames)  BY DEF Good, Stacked
    <3> QED BY <1>8, <3>1, FramePushed
  <2>3. \A p \in Nat : OnList(c2, d, k, n, p) => OnList(c, d, k, n, p)
    BY <1>4, <2>1 DEF OnList
  <2>4. \A p \in Nat : ~Past(c, s, d, k, p)  BY <1>2, <2>1 DEF Past
  <2>5. Token(c, s, ls, td, n0, d, k, n)  BY DEF Good, Tokens
  <2> QED BY ONLY <2>2, <2>3, <2>4, <2>5, TokenKept
<1>13. Staged(c2, s2, st) /\ Tokens(c2, s2, ls, td, n0)
  BY <1>9, <1>11, <1>12 DEF Good, Staged, Tokens
<1> QED BY <1>8, <1>9, <1>13 DEF Good

\* The lists of the outcomes are the same.
Alike(c, c2) == \A d \in Defs, k \in Ends : c2[<<d, k>>] = c[<<d, k>>]

\* What happens to the lists of the news leaves the outcomes alone.
LEMMA AlikeGood ==
  ASSUME NEW c, NEW s, NEW st, NEW ls, NEW td, NEW n0, NEW c2,
         Good(c, s, st, ls, td, n0), Alike(c, c2), Right(c2), Stacked(c2, s)
  PROVE  Good(c2, s, st, ls, td, n0) /\ (Calm(c, st) => Calm(c2, st))
<1>1. ASSUME NEW d \in Defs, Steady(c, st, d) PROVE Steady(c2, st, d)
  <2>1. \A k \in Ends : c2[<<d, k>>] = c[<<d, k>>]  BY DEF Alike
  <2> QED BY ONLY <1>1, <2>1, SteadyKept
<1>2. Staged(c2, s, st)
  <2>1. ASSUME NEW d \in Defs, NEW k \in Ends, Starting(c, s, st, d, k)
        PROVE  Starting(c2, s, st, d, k)
    BY <2>1, OfLists DEF Starting, Alike
  <2> QED BY <1>1, <2>1 DEF Good, Staged, Begun
<1>3. Tokens(c2, s, ls, td, n0)
  <2>1. ASSUME NEW d \in Defs, NEW k \in Ends, NEW n \in Numbers
        PROVE  Token(c2, s, ls, td, n0, d, k, n)
    <3>1. Token(c, s, ls, td, n0, d, k, n)  BY DEF Good, Tokens
    <3>2. c2[<<d, k>>] = c[<<d, k>>]  BY DEF Alike
    <3>3. \A p \in Nat : OnList(c2, d, k, n, p) => OnList(c, d, k, n, p)  BY <3>2 DEF OnList
    <3>4. \A p \in Nat : Past(c, s, d, k, p) => Past(c2, s, d, k, p)  BY <3>2 DEF Past
    <3> QED BY ONLY <3>1, <3>3, <3>4, TokenKept
  <2> QED BY <2>1 DEF Good, Tokens
<1> QED BY <1>1, <1>2, <1>3 DEF Good, Calm

\* fireWith() of a list that fires: the value waits for the loop to end.
Waits(c, c2, l, v) == c2 = [c EXCEPT ![l].stack = Append(@, v)]

\* Only the list of the news can be fired while it fires.
LEMMA WaitsGood ==
  ASSUME NEW c, NEW s, NEW st, NEW ls, NEW td, NEW n0, NEW l \in Lists, NEW v \in Numbers, NEW c2,
         Good(c, s, st, ls, td, n0), CanFire(c[l]), c[l].firing,
         Waits(c, c2, l, v)
  PROVE  Good(c2, s, st, ls, td, n0) /\ Alike(c, c2)
<1>1. PICK r \in Records : r = c[l]  BY DEF Good, Right
<1>2. Append(r.stack, v) \in Seq(Numbers)  BY AppendProperties, RecordTypes
<1>3. PICK q \in Records : q = [r EXCEPT !.stack = Append(r.stack, v)]  BY <1>2 DEF Records
<1>4. /\ q.list = r.list /\ q.on = r.on /\ q.memory = r.memory /\ q.fired = r.fired
      /\ q.firing = r.firing /\ q.index = r.index /\ q.length = r.length
      /\ q.value = r.value /\ q.repeat = r.repeat
  BY <1>3 DEF Records
<1>5. c2 = [c EXCEPT ![l] = q]  BY <1>1, <1>3 DEF Waits
<1>6. c2[l] = q /\ But(c, c2, l) /\ ListRight(r, l)
  <2>1. c \in [Lists -> Records] /\ ListRight(r, l)  BY <1>1 DEF Good, Right
  <2> QED BY ONLY <1>5, <2>1, q \in Records, l \in Lists, ButOne
<1>7. ListRight(q, l)  BY <1>4, <1>6 DEF ListRight
<1>8. Right(c2)  BY <1>6, <1>7, RightKept DEF Good
<1>9. Stacked(c2, s)
  <2>1. ASSUME NEW i \in DOMAIN s, s[i].at # "script", s[i].list = l PROVE FrameRight(c2, s[i])
    <3>1. FrameRight(c, s[i])  BY DEF Good, Stacked
    <3> QED BY <1>1, <1>4, <1>6, <2>1, <3>1 DEF FrameRight
  <2>2. Right(c) /\ Stacked(c, s)  BY DEF Good
  <2> QED BY ONLY <1>6, <2>1, <2>2, FramesKept
\* It is no list of an outcome.
<1>10. ASSUME NEW d \in Defs, NEW k \in Ends PROVE c2[<<d, k>>] = c[<<d, k>>]
  <2>1. l # <<d, k>>
    <3>1. l = <<d, k>> => ~r.repeat /\ r.fired /\ r.on
      BY <1>1, <1>6, OfLists DEF ListRight, CanFire
    <3> QED BY <1>1, <3>1 DEF CanFire
  <2> QED BY <1>6, <2>1, OfLists DEF But
<1>11. Alike(c, c2)  BY <1>10 DEF Alike
<1> QED BY <1>8, <1>9, <1>11, AlikeGood

-----------------------------------------------------------------------------
(* What a promise was settled with stays. *)

Worth(c, st, d) ==
    IF st[d] = "resolved" THEN c[<<d, "done">>].memory
    ELSE IF st[d] = "rejected" THEN c[<<d, "fail">>].memory ELSE NoValue
Keeps(c, c2, st) == \A d \in Defs : Worth(c2, st, d) = Worth(c, st, d)

\* The value a settled object has is the one its list remembers.
LEMMA WorthOf ==
  ASSUME NEW c, NEW st, NEW d
  PROVE  /\ \A k \in Ends : st[d] = Outcome(k) => Worth(c, st, d) = c[<<d, k>>].memory
         /\ st[d] = "pending" => Worth(c, st, d) = NoValue
BY DEF Worth, Ends, Outcome

\* No value changes if the list that changed remembers what it did.
LEMMA WorthKept ==
  ASSUME NEW c, NEW c2, NEW st, NEW l \in Lists, But(c, c2, l), Calm(c, st),
         c[l].on /\ c[l].fired => c2[l].memory = c[l].memory
  PROVE  Keeps(c, c2, st)
<1> SUFFICES ASSUME NEW d \in Defs PROVE Worth(c2, st, d) = Worth(c, st, d)  BY DEF Keeps
<1>1. CASE Open(c, st, d)
  BY <1>1, WorthOf DEF Open
<1>2. ASSUME NEW k \in Ends, Decided(c, st, d, k) PROVE Worth(c2, st, d) = Worth(c, st, d)
  <2>1. c2[<<d, k>>].memory = c[<<d, k>>].memory
    BY <1>2, OfLists DEF Decided, But
  <2> QED BY <1>2, <2>1, WorthOf DEF Decided
<1> QED BY <1>1, <1>2 DEF Calm, Steady

\* DoAdd and DoFire, for the lists c2 and the stack s2 that they lead to.
Adds(c, s, l, f, c2, s2) ==
    LET r == c[l]
        q == Pushed(r, Flags(l), f)
    IN
    IF ~r.on
    THEN c2 = c /\ s2 = s
    ELSE IF CatchesUp(r)
    THEN /\ c2 = [c EXCEPT ![l] = Fire(q, Flags(l), r.memory, Len(r.list))]
         /\ s2 = Append(s, Frame(l))
    ELSE c2 = [c EXCEPT ![l] = q] /\ s2 = s
Fires(c, s, l, v, c2, s2) ==
    LET r == c[l] IN
    IF ~CanFire(r)
    THEN c2 = c /\ s2 = s
    ELSE IF r.firing
    THEN c2 = [c EXCEPT ![l].stack = Append(@, v)] /\ s2 = s
    ELSE /\ c2 = [c EXCEPT ![l] = Fire(r, Flags(l), v, 0)]
         /\ s2 = Append(s, Frame(l))

LEMMA KeepsSame == ASSUME NEW c, NEW st PROVE Keeps(c, c, st)
BY DEF Keeps

\* add() keeps the invariant.
LEMMA AddGood ==
  ASSUME NEW c, NEW s, NEW st, NEW ls, NEW td, NEW n0, NEW l \in Lists, NEW f \in Added,
         NEW c2, NEW s2,
         Good(c, s, st, ls, td, n0), Calm(c, st), Adds(c, s, l, f, c2, s2),
         \A k \in Ends, n \in Numbers :
            l[2] = k /\ f = <<"page", n>> => Free(c, s, ls, td, n0, l[1], k, n)
  PROVE  Good(c2, s2, st, ls, td, n0) /\ Keeps(c, c2, st)
<1>1. PICK r \in Records : r = c[l]  BY DEF Good, Right
<1>2. PICK p \in Records : p = Pushed(r, Flags(l), f) /\ p.memory = r.memory  BY PushedFacts
<1>3. c \in [Lists -> Records]  BY DEF Good, Right
<1>4. CASE ~r.on
  BY <1>1, <1>4, KeepsSame DEF Adds
<1>5. CASE r.on /\ CatchesUp(r)
  <2>0. PICK m \in Nat, n \in Nat : m = r.memory /\ n = Len(r.list)  BY RecordTypes
  <2>a. PICK q \in Records : q = Fire(p, Flags(l), m, n)  BY FireFacts
  <2>b. q.memory = m  BY <2>a, FireRemembers
  <2>1. q = Fire(p, Flags(l), r.memory, Len(r.list)) /\ q.memory = r.memory
    BY <2>0, <2>a, <2>b
  <2>2. c2 = [c EXCEPT ![l] = q]  BY <1>1, <1>2, <1>5, <2>1 DEF Adds
  <2>3. But(c, c2, l) /\ c2[l] = q  BY ONLY <1>3, <2>2, l \in Lists, q \in Records, ButOne
  <2>4. Keeps(c, c2, st)  BY ONLY <1>1, <2>1, <2>3, l \in Lists, Calm(c, st), WorthKept
  <2>5. /\ c2 = [c EXCEPT ![l] = Fire(Pushed(c[l], Flags(l), f), Flags(l), c[l].memory, Len(c[l].list))]
        /\ s2 = Append(s, Frame(l)) /\ CatchesUp(c[l])
    BY <1>1, <1>5 DEF Adds
  <2>6. Good(c2, Append(s, Frame(l)), st, ls, td, n0)  BY <2>5, CaughtUpGood
  <2> QED BY <2>4, <2>5, <2>6
<1>6. CASE r.on /\ ~CatchesUp(r)
  <2>1. c2 = [c EXCEPT ![l] = p] /\ s2 = s  BY <1>1, <1>2, <1>6 DEF Adds
  <2>2. But(c, c2, l) /\ c2[l] = p  BY ONLY <1>3, <2>1, l \in Lists, p \in Records, ButOne
  <2>3. Keeps(c, c2, st)  BY ONLY <1>1, <1>2, <2>2, l \in Lists, Calm(c, st), WorthKept
  <2>4. c2 = [c EXCEPT ![l] = Pushed(c[l], Flags(l), f)] /\ c[l].on /\ ~CatchesUp(c[l])
    BY <1>1, <1>2, <1>6, <2>1
  <2>5. Good(c2, s, st, ls, td, n0)  BY <2>4, GrownGood
  <2> QED BY <2>1, <2>3, <2>5
<1> QED BY <1>4, <1>5, <1>6

\* fireWith() keeps the invariant.
LEMMA FireGood ==
  ASSUME NEW c, NEW s, NEW st, NEW ls, NEW td, NEW n0, NEW l \in Lists, NEW v \in Numbers,
         NEW c2, NEW s2,
         Good(c, s, st, ls, td, n0), Calm(c, st), Fires(c, s, l, v, c2, s2)
  PROVE  Good(c2, s2, st, ls, td, n0) /\ Keeps(c, c2, st)
<1>1. PICK r \in Records : r = c[l]  BY DEF Good, Right
<1>2. c \in [Lists -> Records] /\ ListRight(r, l)  BY <1>1 DEF Good, Right
<1>3. CASE ~CanFire(r)
  BY <1>1, <1>3, KeepsSame DEF Fires
<1>4. CASE CanFire(r) /\ r.firing
  <2>1. Waits(c, c2, l, v) /\ s2 = s /\ CanFire(c[l]) /\ c[l].firing
    BY <1>1, <1>4 DEF Fires, Waits
  <2>2. Good(c2, s, st, ls, td, n0) /\ Alike(c, c2)
    BY <2>1, WaitsGood
  <2>3. Keeps(c, c2, st)  BY <2>2 DEF Keeps, Worth, Ends, Alike
  <2> QED BY <2>1, <2>2, <2>3
<1>5. CASE CanFire(r) /\ ~r.firing
  <2>1. /\ c2 = [c EXCEPT ![l] = Fire(c[l], Flags(l), v, 0)] /\ s2 = Append(s, Frame(l))
        /\ CanFire(c[l]) /\ ~c[l].firing
    BY <1>1, <1>5 DEF Fires
  <2>2. Good(c2, Append(s, Frame(l)), st, ls, td, n0)  BY <2>1, FiredGood
  <2>3. v \in Nat  BY DEF Numbers
  <2>4. PICK q \in Records : q = Fire(r, Flags(l), v, 0)  BY <2>3, FireFacts
  <2>5. c2 = [c EXCEPT ![l] = q]  BY <1>1, <2>1, <2>4
  <2>6. But(c, c2, l) /\ c2[l] = q  BY ONLY <1>2, <2>5, l \in Lists, q \in Records, ButOne
  \* A list of an outcome has not been fired, a progress list has no say.
  <2>7. ASSUME NEW d \in Defs PROVE Worth(c2, st, d) = Worth(c, st, d)
    <3>1. ASSUME NEW k \in Ends, Decided(c, st, d, k) PROVE c2[<<d, k>>] = c[<<d, k>>]
      <4>1. l # <<d, k>>
        BY <1>1, <1>2, <1>5, <3>1, OfLists DEF CanFire, Decided, ListRight
      <4> QED BY <2>6, <4>1, OfLists DEF But
    <3>2. Steady(c, st, d)  BY DEF Calm
    <3>3. st[d] = "pending" \/ \E k \in Ends : st[d] = Outcome(k) /\ c2[<<d, k>>] = c[<<d, k>>]
      BY <3>1, <3>2 DEF Steady, Open, Decided
    <3>4. /\ \A k \in Ends : st[d] = Outcome(k) =>
                /\ Worth(c, st, d) = c[<<d, k>>].memory
                /\ Worth(c2, st, d) = c2[<<d, k>>].memory
          /\ st[d] = "pending" => Worth(c, st, d) = NoValue /\ Worth(c2, st, d) = NoValue
      BY ONLY WorthOf
    <3>5. CASE st[d] = "pending"
      BY ONLY <3>4, <3>5
    <3>6. CASE \E k \in Ends : st[d] = Outcome(k) /\ c2[<<d, k>>] = c[<<d, k>>]
      BY ONLY <3>4, <3>6
    <3> QED BY <3>3, <3>5, <3>6
  <2> QED BY <2>1, <2>2, <2>7 DEF Keeps
<1> QED BY <1>3, <1>4, <1>5

-----------------------------------------------------------------------------
(* A function of the list has returned, and the loop goes on. *)

AtList(s, l) == s # <<>> /\ s[Len(s)].at # "script" /\ s[Len(s)].list = l
Resumed(s, s2) ==
    /\ s2 \in Seq(Frames) /\ Len(s2) = Len(s)
    /\ \A i \in DOMAIN s : i # Len(s) => s2[i] = s[i]
    /\ s2[Len(s2)].at = "next" /\ s2[Len(s2)].list = s[Len(s)].list
Stepped(c, c2, l) == c2 = [c EXCEPT ![l].index = @ + 1]

\* What a list is while there is a frame of it on the stack.
LEMMA Loops ==
  ASSUME NEW c, NEW s, NEW st, NEW ls, NEW td, NEW n0, NEW l, Good(c, s, st, ls, td, n0), AtList(s, l)
  PROVE  /\ l \in Lists /\ c[l] \in Records /\ ListRight(c[l], l)
         /\ c[l].on /\ c[l].firing /\ c[l].fired
         /\ c[l].memory = c[l].value /\ c[l].value \in Numbers /\ c[l].length = Len(c[l].list)
         /\ Len(s) \in DOMAIN s /\ FrameRight(c, s[Len(s)])
         /\ \A i \in DOMAIN s : i # Len(s) /\ s[i].at # "script" => s[i].list # l
<1>1. s \in Seq(Frames) /\ s # <<>>  BY DEF Good, Stacked, AtList
<1>2. Len(s) \in DOMAIN s /\ s[Len(s)] \in Frames  BY <1>1, StackTypes
<1>3. l \in Lists  BY <1>2, FrameTypes DEF AtList
<1>4. PICK r \in Records : r = c[l]  BY <1>3 DEF Good, Right
<1>5. ListRight(r, l)  BY <1>3, <1>4 DEF Good, Right
<1>6. FrameRight(c, s[Len(s)])  BY <1>2 DEF Good, Stacked
<1>7. r.on /\ r.firing  BY <1>4, <1>6 DEF FrameRight, AtList
<1>8. r.fired /\ r.value > 0 /\ r.memory = r.value /\ r.length = Len(r.list)
  BY <1>5, <1>7 DEF ListRight
<1>9. r.value \in Numbers  BY <1>8, RecordTypes DEF Numbers
<1>10. ASSUME NEW i \in DOMAIN s, i # Len(s), s[i].at # "script" PROVE s[i].list # l
  BY <1>2, <1>10 DEF Good, Stacked, AtList
<1> QED BY <1>2, <1>3, <1>4, <1>5, <1>6, <1>7, <1>8, <1>9, <1>10

\* The loop over a list goes one place further.
LEMMA SteppedFacts ==
  ASSUME NEW c \in [Lists -> Records], NEW l \in Lists, NEW c2, Stepped(c, c2, l)
  PROVE  /\ But(c, c2, l) /\ c2[l] \in Records
         /\ c2[l].index = c[l].index + 1 /\ c2[l].list = c[l].list /\ c2[l].on = c[l].on
         /\ c2[l].memory = c[l].memory /\ c2[l].fired = c[l].fired
         /\ c2[l].firing = c[l].firing /\ c2[l].length = c[l].length
         /\ c2[l].value = c[l].value /\ c2[l].repeat = c[l].repeat
<1>1. PICK r \in Records : r = c[l]  OBVIOUS
<1>a. PICK n \in Nat : n = r.index + 1  BY RecordTypes
<1>2. PICK q \in Records : q = [r EXCEPT !.index = n]  BY DEF Records
<1>3. /\ q \in Records
      /\ q.list = r.list /\ q.on = r.on /\ q.memory = r.memory /\ q.fired = r.fired
      /\ q.firing = r.firing /\ q.index = r.index + 1 /\ q.length = r.length
      /\ q.value = r.value /\ q.repeat = r.repeat
  BY <1>a, <1>2 DEF Records
<1>4. c2 = [c EXCEPT ![l] = q]  BY <1>1, <1>a, <1>2 DEF Stepped
<1>5. But(c, c2, l) /\ c2[l] = q
  BY ONLY <1>3, <1>4, c \in [Lists -> Records], l \in Lists, ButOne
<1> QED BY <1>1, <1>3, <1>5

\* When it does, lists, stack and places stay right.
LEMMA PassParts ==
  ASSUME NEW c, NEW s, NEW st, NEW ls, NEW td, NEW n0, NEW l, NEW c2, NEW s2,
         Good(c, s, st, ls, td, n0), AtList(s, l), Resumed(s, s2), Stepped(c, c2, l)
  PROVE  Right(c2) /\ Stacked(c2, s2) /\ Tokens(c2, s2, ls, td, n0)
<1>1. l \in Lists /\ c \in [Lists -> Records] /\ Right(c) /\ Stacked(c, s) /\ ListRight(c[l], l)
  BY Loops DEF Good, Right
<1>2. PICK r \in Records : r = c[l]  BY <1>1
<1>3. PICK q \in Records : q = c2[l]  BY <1>1, SteppedFacts
<1>4. /\ But(c, c2, l)
      /\ q.index = r.index + 1 /\ q.list = r.list /\ q.on = r.on
      /\ q.memory = r.memory /\ q.fired = r.fired /\ q.firing = r.firing
      /\ q.length = r.length /\ q.value = r.value /\ q.repeat = r.repeat
  BY <1>1, <1>2, <1>3, SteppedFacts
<1>5. r.on /\ r.firing /\ r.index \in Nat  BY <1>2, Loops, RecordTypes
<1>6. Right(c2)
  <2>1. ListRight(q, l)  BY <1>1, <1>2, <1>4 DEF ListRight
  <2> QED BY <1>1, <1>3, <1>4, <2>1, RightKept
<1>7. /\ \A i \in DOMAIN s : i # Len(s) /\ s[i].at # "script" => s[i].list # l
      /\ Len(s) \in DOMAIN s
  BY Loops
<1>8. /\ s2 \in Seq(Frames) /\ Len(s2) = Len(s) /\ DOMAIN s2 = DOMAIN s
      /\ \A i \in DOMAIN s : i # Len(s) => s2[i] = s[i]
      /\ s2[Len(s)].at = "next" /\ s2[Len(s)].list = l
      /\ s[Len(s)].at # "script" /\ s[Len(s)].list = l
  BY <1>1, StackTypes DEF Resumed, AtList, Stacked
<1>9. Stacked(c2, s2)
  <2>1. ASSUME NEW i \in DOMAIN s2 PROVE FrameRight(c2, s2[i])
    <3>1. CASE i = Len(s)
      BY <1>3, <1>4, <1>5, <1>8, <3>1 DEF FrameRight
    <3>2. CASE i # Len(s) /\ s[i].at # "script"
      <4>1. s[i].list \in Lists \ {l} /\ FrameRight(c, s[i])
        BY <1>1, <1>7, <1>8, <3>2, StackTypes, FrameTypes DEF Stacked
      <4>2. c2[s[i].list] = c[s[i].list]  BY <1>4, <4>1 DEF But
      <4> QED BY <1>8, <3>2, <4>1, <4>2 DEF FrameRight
    <3> QED BY <1>8, <3>1, <3>2 DEF FrameRight
  <2>2. ASSUME NEW i \in DOMAIN s2, NEW j \in DOMAIN s2, i # j,
               s2[i].at # "script", s2[j].at # "script"
        PROVE  s2[i].list # s2[j].list
    <3>1. /\ s2[i].list = s[i].list /\ s[i].at # "script"
          /\ s2[j].list = s[j].list /\ s[j].at # "script"
      BY <1>8, <2>2
    <3> QED BY <1>1, <1>8, <2>2, <3>1 DEF Stacked
  <2> QED BY <1>8, <2>1, <2>2 DEF Stacked
<1>10. ASSUME NEW d \in Defs, NEW k \in Ends, NEW n \in Numbers
       PROVE  Token(c2, s2, ls, td, n0, d, k, n)
  <2>1. Token(c, s, ls, td, n0, d, k, n)  BY DEF Good, Tokens
  <2>2. \A i, j \in Nat : Scripted(s2, d, k, n, i, j) => Scripted(s, d, k, n, i, j)
    BY <1>8 DEF Scripted
  <2>3. CASE l # <<d, k>>
    <3>1. c2[<<d, k>>] = c[<<d, k>>]  BY <1>4, <2>3, OfLists DEF But
    <3>2. \A p \in Nat : OnList(c2, d, k, n, p) => OnList(c, d, k, n, p)  BY <3>1 DEF OnList
    <3>3. \A p \in Nat : Past(c, s, d, k, p) => Past(c2, s2, d, k, p)
      BY <1>8, <2>3, <3>1 DEF Past
    <3> QED BY ONLY <2>1, <2>2, <3>2, <3>3, TokenKept
  <2>4. CASE l = <<d, k>>
    <3>1. c2[<<d, k>>] = q /\ c[<<d, k>>] = r  BY <1>2, <1>3, <2>4
    <3>2. \A p \in Nat : OnList(c2, d, k, n, p) => OnList(c, d, k, n, p)
      BY <1>4, <3>1 DEF OnList
    <3>3. \A p \in Nat : Past(c, s, d, k, p) => Past(c2, s2, d, k, p)
      <4>1. ASSUME NEW p \in Nat, Past(c, s, d, k, p) PROVE Past(c2, s2, d, k, p)
        <5>1. p <= r.index + 1  BY <3>1, <4>1 DEF Past
        <5>2. p <= q.index /\ p <= q.index + 1 /\ q.firing  BY <1>4, <1>5, <5>1
        <5> QED BY ONLY <3>1, <5>2 DEF Past
      <4> QED BY <4>1
    <3> QED BY ONLY <2>1, <2>2, <3>2, <3>3, TokenKept
  <2> QED BY <2>3, <2>4
<1> QED BY <1>6, <1>9, <1>10 DEF Good, Tokens

\* When no list is about to disable another, all of the invariant does.
LEMMA PassGood ==
  ASSUME NEW c, NEW s, NEW st, NEW ls, NEW td, NEW n0, NEW l, NEW c2, NEW s2,
         Good(c, s, st, ls, td, n0), AtList(s, l), Resumed(s, s2), Stepped(c, c2, l), Calm(c, st)
  PROVE  Good(c2, s2, st, ls, td, n0) /\ Calm(c2, st) /\ Keeps(c, c2, st)
<1>1. l \in Lists /\ c \in [Lists -> Records]  BY Loops DEF Good, Right
<1>2. PICK r \in Records : r = c[l]  BY <1>1
<1>3. PICK q \in Records : q = c2[l]  BY <1>1, SteppedFacts
<1>4. /\ But(c, c2, l)
      /\ q.index = r.index + 1 /\ q.list = r.list /\ q.on = r.on
      /\ q.memory = r.memory /\ q.fired = r.fired /\ q.firing = r.firing
  BY <1>1, <1>2, <1>3, SteppedFacts
<1>5. r.on /\ r.firing /\ r.index \in Nat /\ DOMAIN r.list \subseteq Nat
  BY <1>2, Loops, RecordTypes
<1>6. Calm(c2, st)
  <2>1. ASSUME l[2] \in Ends PROVE Steady(c2, st, l[1])
    <3>1. PICK d \in Defs, k \in Ends : l = <<d, k>> /\ d = l[1] /\ k = l[2]
      BY <1>1, <2>1, OfLists
    <3>2. c2[<<d, Other(k)>>] = c[<<d, Other(k)>>]  BY <1>4, <3>1, OfLists DEF But
    <3>3. c2[<<d, k>>] = q /\ c[<<d, k>>] = r  BY <1>2, <1>3, <3>1
    <3>4. Decided(c, st, d, k)
      <4>1. Steady(c, st, d) /\ c[<<d, k>>].on /\ c[<<d, k>>].firing  BY <1>5, <3>3 DEF Calm
      <4> QED BY ONLY d \in Defs, k \in Ends, <4>1, FiredDecides
    <3>5. \A i \in DOMAIN q.list : i > q.index => i > r.index  BY <1>4, <1>5
    <3>6. Decided(c2, st, d, k)  BY <1>4, <1>5, <3>2, <3>3, <3>4, <3>5 DEF Decided
    <3> QED BY <3>1, <3>6 DEF Steady
  <2> QED BY ONLY <1>1, <1>4, <2>1, Calm(c, st), CalmKept
<1>7. Keeps(c, c2, st)
  BY ONLY <1>1, <1>2, <1>3, <1>4, Calm(c, st), WorthKept
<1>8. Right(c2) /\ Stacked(c2, s2) /\ Tokens(c2, s2, ls, td, n0)  BY PassParts
<1> QED BY <1>6, <1>7, <1>8 DEF Good, Staged, Calm

-----------------------------------------------------------------------------
(* The functions a deferred object is made with. *)

\* The loop over list l stands at function g, and may call it.
AtFunction(c, s, l, g) ==
    /\ AtList(s, l) /\ s[Len(s)].at = "next"
    /\ c[l].index < Len(c[l].list) /\ g = c[l].list[c[l].index + 1]

\* The functions that set the state and disable the other list are called first,
\* and by a list that is fired for the first time.
LEMMA OwnStages ==
  ASSUME NEW c, NEW s, NEW st, NEW ls, NEW td, NEW n0, NEW l, NEW g,
         Good(c, s, st, ls, td, n0), AtFunction(c, s, l, g)
  PROVE  /\ g \in Added \cup Own
         /\ \/ /\ Calm(c, st) /\ g[1] \notin {"state", "disable"}
            \/ \E d \in Defs, k \in Ends :
                  /\ l = <<d, k>> /\ Starting(c, s, st, d, k)
                  /\ \/ c[l].index = 0 /\ g = <<"state", d, Outcome(k)>> /\ st[d] = "pending"
                     \/ /\ c[l].index = 1 /\ g = <<"disable", d, Other(k)>>
                        /\ st[d] = Outcome(k)
<1>1. AtList(s, l)  BY DEF AtFunction
<1>2. l \in Lists /\ c[l] \in Records /\ ListRight(c[l], l) /\ c[l].on /\ c[l].firing
  BY <1>1, Loops
<1>3. PICK r \in Records : r = c[l]  BY <1>2
<1>4. /\ r.index \in Nat /\ r.index + 1 \in DOMAIN r.list
      /\ r.list[r.index + 1] \in Added \cup Own
      /\ g = r.list[r.index + 1]
  <2>1. r.index \in Nat /\ Len(r.list) \in Nat /\ DOMAIN r.list = 1 .. Len(r.list)  BY RecordTypes
  <2>2. r.index + 1 \in DOMAIN r.list  BY <1>3, <2>1 DEF AtFunction
  <2> QED BY <1>3, <2>1, <2>2, RecordTypes DEF AtFunction
<1>5. \A h \in Added : h[1] \notin {"state", "disable"}  BY DEF Added
<1>6. CASE Calm(c, st)
  <2>1. CASE l[2] = "progress"
    BY <1>2, <1>3, <1>4, <1>5, <1>6, <2>1 DEF ListRight
  <2>2. CASE l[2] \in Ends
    <3>1. PICK d \in Defs, k \in Ends : l = <<d, k>>  BY <1>2, <2>2, OfLists
    <3>2. Steady(c, st, d) /\ c[<<d, k>>].on /\ c[<<d, k>>].firing  BY <1>2, <1>6, <3>1 DEF Calm
    <3>3. Decided(c, st, d, k)  BY ONLY d \in Defs, k \in Ends, <3>2, FiredDecides
    <3>4. g \in Added \cup {<<"lock", d, "progress">>}
      BY <1>3, <1>4, <3>1, <3>3 DEF Decided
    <3> QED BY <1>4, <1>5, <1>6, <3>4
  <2> QED BY <1>2, <2>1, <2>2, OfLists
<1>7. CASE ~Calm(c, st)
  <2>1. PICK d \in Defs, k \in Ends : Starting(c, s, st, d, k)
    BY <1>7 DEF Good, Staged, Calm, Begun
  <2>2. l = <<d, k>>  BY <1>1, <2>1 DEF Starting, AtList
  <2>3. Begins(r.list, d, k)  BY <1>3, <2>1, <2>2 DEF Starting
  <2>4. CASE r.index = 0 /\ st[d] = "pending"
    <3>1. g = <<"state", d, Outcome(k)>>  BY <1>4, <2>3, <2>4 DEF Begins
    <3> QED BY <1>3, <1>4, <2>1, <2>2, <2>4, <3>1
  <2>5. CASE r.index = 1 /\ st[d] = Outcome(k)
    <3>1. g = <<"disable", d, Other(k)>>  BY <1>4, <2>3, <2>5 DEF Begins
    <3> QED BY <1>3, <1>4, <2>1, <2>2, <2>5, <3>1
  <2> QED BY <1>3, <2>1, <2>2, <2>4, <2>5 DEF Starting
<1> QED BY <1>6, <1>7

Assigned(st, st2, d, v) == st2 = [st EXCEPT ![d] = v]

\* The first sets the state.
LEMMA StateGood ==
  ASSUME NEW c, NEW s, NEW st, NEW ls, NEW td, NEW n0, NEW d \in Defs, NEW k \in Ends,
         NEW c2, NEW st2,
         Good(c, s, st, ls, td, n0), Starting(c, s, st, d, k), c[<<d, k>>].index = 0,
         st[d] = "pending",
         Stepped(c, c2, <<d, k>>), Assigned(st, st2, d, Outcome(k))
  PROVE  /\ Good(c2, s, st2, ls, td, n0)
         /\ Worth(c2, st2, d) = c[<<d, k>>].value /\ c[<<d, k>>].value \in Numbers
         /\ \A e \in Defs \ {d} : Worth(c2, st2, e) = Worth(c, st, e)
<1> DEFINE l == <<d, k>>
<1>1. AtList(s, l) /\ s[Len(s)].at = "next"  BY DEF AtList, Starting
<1>2. l \in Lists /\ c \in [Lists -> Records]  BY OfLists DEF Good, Right
<1>3. PICK r \in Records : r = c[l]  BY <1>2
<1>4. PICK q \in Records : q = c2[l]  BY <1>2, SteppedFacts
<1>5. /\ But(c, c2, l)
      /\ q.index = r.index + 1 /\ q.list = r.list /\ q.memory = r.memory
  BY <1>2, <1>3, <1>4, SteppedFacts
<1>6. r.memory = r.value /\ r.value \in Numbers /\ r.index = 0  BY <1>1, <1>3, Loops
<1>7. /\ st2[d] = Outcome(k) /\ \A e \in Defs \ {d} : st2[e] = st[e]
      /\ st2 \in [Defs -> {"pending", "resolved", "rejected"}]
  BY OfLists DEF Assigned, Good, Staged
<1>8. Resumed(s, s)  BY <1>1 DEF Resumed, Good, Stacked
<1>9. Right(c2) /\ Stacked(c2, s) /\ Tokens(c2, s, ls, td, n0)  BY ONLY <1>1, <1>8, PassParts,
  Good(c, s, st, ls, td, n0), Stepped(c, c2, <<d, k>>)
<1>10. Starting(c2, s, st2, d, k)
  <2>1. c2[<<d, Other(k)>>] = c[<<d, Other(k)>>]  BY <1>5, OfLists DEF But
  <2> QED BY <1>3, <1>4, <1>5, <1>6, <1>7, <2>1 DEF Starting
<1>11. ASSUME NEW e \in Defs \ {d}
       PROVE  Steady(c2, st2, e) /\ Worth(c2, st2, e) = Worth(c, st, e)
  <2>1. \A i \in Ends : c2[<<e, i>>] = c[<<e, i>>]  BY <1>5, OfLists DEF But
  <2>2. Steady(c, st, e)
    <3>1. ASSUME NEW i \in Ends PROVE ~Starting(c, s, st, e, i)
      <4>1. s[Len(s)].list = <<d, k>> /\ <<d, k>> # <<e, i>>  BY DEF Starting
      <4> QED BY <4>1 DEF Starting
    <3> QED BY <3>1 DEF Good, Staged, Begun
  <2>3. Steady(c, st2, e)  BY <1>7, <2>2 DEF Steady, Open, Decided
  <2>4. Steady(c2, st2, e)  BY ONLY <2>1, <2>3, SteadyKept
  <2>5. Worth(c2, st2, e) = Worth(c, st, e)  BY <1>7, <2>1 DEF Worth, Ends
  <2> QED BY <2>4, <2>5
<1>12. Staged(c2, s, st2)  BY <1>7, <1>10, <1>11 DEF Staged, Begun
<1>13. Worth(c2, st2, d) = q.memory  BY <1>4, <1>7, WorthOf
<1> QED BY <1>3, <1>5, <1>6, <1>9, <1>11, <1>12, <1>13 DEF Good

\* The second disables the other list.
LEMMA DisableGood ==
  ASSUME NEW c, NEW s, NEW st, NEW ls, NEW td, NEW n0, NEW d \in Defs, NEW k \in Ends,
         NEW c1, NEW c2,
         Good(c, s, st, ls, td, n0), Starting(c, s, st, d, k), c[<<d, k>>].index = 1,
         st[d] = Outcome(k),
         Stepped(c, c1, <<d, k>>), Assigned(c1, c2, <<d, Other(k)>>, Disabled(c[<<d, Other(k)>>]))
  PROVE  Good(c2, s, st, ls, td, n0) /\ Keeps(c, c2, st)
<1> DEFINE l == <<d, k>>
           o == <<d, Other(k)>>
<1>1. AtList(s, l) /\ s[Len(s)].at = "next"  BY DEF AtList, Starting
<1>2. l \in Lists /\ o \in Lists /\ l # o /\ c \in [Lists -> Records]
  BY OfLists DEF Good, Right
<1>3. PICK r \in Records : r = c[l]  BY <1>2
<1>4. PICK q \in Records : q = c1[l]  BY <1>2, SteppedFacts
<1>5. /\ But(c, c1, l)
      /\ q.index = r.index + 1 /\ q.list = r.list /\ q.memory = r.memory
      /\ q.on = r.on /\ q.fired = r.fired /\ q.firing = r.firing
  BY <1>2, <1>3, <1>4, SteppedFacts
<1>6. /\ r.memory = r.value /\ r.value > 0 /\ r.index = 1 /\ r.on /\ r.fired /\ r.firing
  BY <1>1, <1>3, Loops DEF Numbers
<1>7. Resumed(s, s)  BY <1>1 DEF Resumed, Good, Stacked
<1>8. Right(c1) /\ Stacked(c1, s) /\ Tokens(c1, s, ls, td, n0)  BY ONLY <1>1, <1>7, PassParts,
  Good(c, s, st, ls, td, n0), Stepped(c, c1, <<d, k>>)
<1>9. PICK x \in Records : x = c[o]  BY <1>2
<1>10. PICK y \in Records : y = Disabled(x)  BY DisabledFacts
<1>11. y.list = <<>> /\ ~y.on /\ y.memory = 0 /\ y.firing = x.firing /\ ~y.repeat
  BY ONLY <1>10, x \in Records, DisabledFacts
<1>12. c1[o] = x /\ ~x.firing  BY <1>2, <1>5, <1>9 DEF But, Starting, Untouched
<1>13. c2 = [c1 EXCEPT ![o] = y]  BY <1>9, <1>10 DEF Assigned
<1>14. But(c1, c2, o) /\ c2[o] = y
  <2>1. c1 \in [Lists -> Records]  BY <1>5 DEF But
  <2> QED BY ONLY <1>2, <1>13, <2>1, y \in Records, ButOne
<1>15. Right(c2)
  <2>1. ListRight(y, o)  BY <1>11, <1>12, OfLists DEF ListRight
  <2>2. ListRight(c2[o], o)  BY <1>14, <2>1
  <2> QED BY ONLY <1>2, <1>8, <1>14, <2>2, RightKept
<1>16. Stacked(c2, s)
  <2>1. ASSUME NEW i \in DOMAIN s, s[i].at # "script", s[i].list = o PROVE FrameRight(c2, s[i])
    BY <1>8, <1>12, <2>1 DEF Stacked, FrameRight
  <2> QED BY ONLY <1>2, <1>8, <1>14, <2>1, FramesKept
<1>17. Decided(c2, st, d, k)
  <2>1. c2[l] = q /\ c2[o] = y  BY <1>2, <1>4, <1>14 DEF But
  <2>2. Begins(q.list, d, k) /\ DOMAIN q.list \subseteq Nat
    <3>1. DOMAIN q.list = 1 .. Len(q.list)  BY RecordTypes
    <3>2. Begins(q.list, d, k)  BY <1>3, <1>5 DEF Starting
    <3> QED BY <3>1, <3>2
  <2>3. \A i \in DOMAIN q.list : i > q.index => q.list[i] \in Added \cup {<<"lock", d, "progress">>}
    <3>1. ASSUME NEW i \in DOMAIN q.list, i > q.index
          PROVE  q.list[i] \in Added \cup {<<"lock", d, "progress">>}
      <4>1. i = 3 \/ i > 3  BY <1>5, <1>6, <2>2, <3>1
      <4> QED BY <2>2, <4>1 DEF Begins
    <3> QED BY <3>1
  <2> QED BY <1>5, <1>6, <1>11, <2>1, <2>3 DEF Decided
<1>18. ASSUME NEW e \in Defs \ {d}
       PROVE  Steady(c2, st, e) /\ Worth(c2, st, e) = Worth(c, st, e)
  <2>1. \A i \in Ends : c2[<<e, i>>] = c[<<e, i>>]  BY <1>5, <1>14, OfLists DEF But
  <2>2. Steady(c, st, e)
    <3>1. ASSUME NEW i \in Ends PROVE ~Starting(c, s, st, e, i)
      <4>1. s[Len(s)].list = <<d, k>> /\ <<d, k>> # <<e, i>>  BY DEF Starting
      <4> QED BY <4>1 DEF Starting
    <3> QED BY <3>1 DEF Good, Staged, Begun
  <2>3. Steady(c2, st, e)  BY ONLY <2>1, <2>2, SteadyKept
  <2>4. Worth(c2, st, e) = Worth(c, st, e)  BY <2>1 DEF Worth, Ends
  <2> QED BY <2>3, <2>4
<1>19. Worth(c2, st, d) = Worth(c, st, d)
  <2>1. Worth(c2, st, d) = c2[l].memory /\ Worth(c, st, d) = c[l].memory  BY WorthOf
  <2>2. c2[l] = q  BY <1>2, <1>4, <1>14 DEF But
  <2> QED BY <1>3, <1>5, <2>1, <2>2
<1>20. Staged(c2, s, st)  BY <1>17, <1>18 DEF Good, Staged, Steady
<1>21. Tokens(c2, s, ls, td, n0)
  <2>1. ASSUME NEW e \in Defs, NEW i \in Ends, NEW n \in Numbers
        PROVE  Token(c2, s, ls, td, n0, e, i, n)
    <3>1. Token(c1, s, ls, td, n0, e, i, n)  BY <1>8 DEF Tokens
    <3>2. CASE <<e, i>> = o
      <4>1. \A p \in Nat : ~OnList(c2, e, i, n, p)  BY <1>11, <1>14, <3>2 DEF OnList
      <4> QED BY ONLY <3>1, <4>1, TokenKept
    <3>3. CASE <<e, i>> # o
      <4>1. c2[<<e, i>>] = c1[<<e, i>>]  BY <1>14, <3>3, OfLists DEF But
      <4>2. \A p \in Nat : OnList(c2, e, i, n, p) => OnList(c1, e, i, n, p)  BY <4>1 DEF OnList
      <4>3. \A p \in Nat : Past(c1, s, e, i, p) => Past(c2, s, e, i, p)  BY <4>1 DEF Past
      <4> QED BY ONLY <3>1, <4>2, <4>3, TokenKept
    <3> QED BY <3>2, <3>3
  <2> QED BY <1>8, <2>1 DEF Tokens
<1> QED BY <1>15, <1>16, <1>18, <1>19, <1>20, <1>21 DEF Good, Keeps

\* The third locks the list of the news.
LEMMA LockGood ==
  ASSUME NEW c, NEW s, NEW st, NEW ls, NEW td, NEW n0, NEW d \in Defs, NEW c2,
         Good(c, s, st, ls, td, n0), Calm(c, st),
         Assigned(c, c2, <<d, "progress">>, Locked(c[<<d, "progress">>]))
  PROVE  Good(c2, s, st, ls, td, n0) /\ Keeps(c, c2, st)
<1> DEFINE l == <<d, "progress">>
<1>1. l \in Lists /\ c \in [Lists -> Records] /\ ListRight(c[l], l) /\ Stacked(c, s) /\ Right(c)
  BY DEF Lists, Kinds, Good, Right
<1>2. PICK r \in Records : r = c[l]  BY <1>1
<1>3. PICK q \in Records : q = Locked(r)  BY LockedFacts
<1>4. /\ q.fired = r.fired /\ q.memory = r.memory
      /\ q.firing = r.firing /\ q.index = r.index /\ q.length = r.length
      /\ q.value = r.value
  BY ONLY <1>3, r \in Records, LockedFacts
<1>5. /\ r.memory = 0 => q.list = <<>> /\ ~q.on
      /\ r.memory # 0 => q.list = r.list /\ q.on = r.on
  BY ONLY <1>3, r \in Records, LockedFacts
<1>6. c2 = [c EXCEPT ![l] = q]  BY <1>2, <1>3 DEF Assigned
<1>7. But(c, c2, l) /\ c2[l] = q  BY ONLY <1>1, <1>6, q \in Records, ButOne
<1>8. r.on /\ r.firing => r.memory # 0  BY <1>1, <1>2 DEF ListRight
<1>9. ListRight(q, l)
  <2>1. CASE r.memory = 0
    BY <1>1, <1>2, <1>4, <1>5, <1>8, <2>1, OfLists DEF ListRight
  <2>2. CASE r.memory # 0
    BY <1>1, <1>2, <1>4, <1>5, <2>2, OfLists DEF ListRight
  <2> QED BY <2>1, <2>2
<1>10. Right(c2)  BY ONLY <1>1, <1>7, <1>9, RightKept
<1>11. Stacked(c2, s)
  <2>1. ASSUME NEW i \in DOMAIN s, s[i].at # "script", s[i].list = l PROVE FrameRight(c2, s[i])
    <3>1. FrameRight(c, s[i])  BY <1>1 DEF Stacked
    <3>2. r.on /\ r.firing  BY <1>2, <2>1, <3>1 DEF FrameRight
    <3>3. q.list = r.list /\ q.on = r.on  BY <1>5, <1>8, <3>2
    <3> QED BY <1>2, <1>4, <1>7, <2>1, <3>1, <3>3 DEF FrameRight
  <2> QED BY ONLY <1>1, <1>7, <2>1, FramesKept
<1>12. Alike(c, c2)  BY <1>7, OfLists DEF Alike, But
<1>13. Good(c2, s, st, ls, td, n0)  BY <1>10, <1>11, <1>12, AlikeGood
<1>14. Keeps(c, c2, st)  BY <1>12 DEF Keeps, Worth, Ends, Alike
<1> QED BY <1>13, <1>14

-----------------------------------------------------------------------------
(* The call stack. *)

LEMMA CalmOutside ==
  ASSUME NEW c, NEW s, NEW st, Staged(c, s, st), s = <<>> \/ s[Len(s)].at # "next"
  PROVE  Calm(c, st)
BY DEF Staged, Begun, Starting, Calm

\* Frames are left.
LEMMA LeftGood ==
  ASSUME NEW c, NEW s, NEW st, NEW ls, NEW td, NEW n0, NEW s2 \in Seq(Frames),
         Good(c, s, st, ls, td, n0), Calm(c, st),
         \A i \in DOMAIN s2 : i \in DOMAIN s /\ s2[i] = s[i]
  PROVE  Good(c, s2, st, ls, td, n0)
<1>1. Stacked(c, s2)  BY DEF Good, Stacked
<1>2. ASSUME NEW d \in Defs, NEW k \in Ends, NEW n \in Numbers
      PROVE  Token(c, s2, ls, td, n0, d, k, n)
  <2>1. Token(c, s, ls, td, n0, d, k, n)  BY DEF Good, Tokens
  <2>2. \A i, j \in Nat : Scripted(s2, d, k, n, i, j) => Scripted(s, d, k, n, i, j)
    BY DEF Scripted
  <2>3. \A p \in Nat : Past(c, s, d, k, p) => Past(c, s2, d, k, p)  BY DEF Past
  <2> QED BY ONLY <2>1, <2>2, <2>3, TokenKept
<1> QED BY <1>1, <1>2 DEF Good, Staged, Calm, Tokens

\* The stack without its last frame.
LEMMA FrontFacts ==
  ASSUME NEW s \in Seq(Frames), s # <<>>
  PROVE  /\ Front(s) \in Seq(Frames) /\ Len(Front(s)) = Len(s) - 1
         /\ \A i \in DOMAIN Front(s) : i \in DOMAIN s /\ i # Len(s) /\ Front(s)[i] = s[i]
<1>1. Len(s) \in Nat /\ Len(s) # 0 /\ DOMAIN s = 1 .. Len(s)  BY StackTypes, EmptySeq
<1>2. \A i \in 1 .. Len(s) - 1 : s[i] \in Frames  BY <1>1, StackTypes
<1>3. /\ Front(s) \in Seq(Frames) /\ Len(Front(s)) = Len(s) - 1
      /\ \A i \in 1 .. Len(s) - 1 : Front(s)[i] = s[i]
  BY <1>1, <1>2, SubSeqProperties DEF Front
<1>4. DOMAIN Front(s) = 1 .. Len(s) - 1  BY <1>3, LenProperties
<1> QED BY <1>1, <1>3, <1>4

\* The page makes calls.  It adds a function to two lists only to hear of both outcomes
\* of one object.
ScriptPushed(s, s2, todo) == s2 = Append(s, Script(todo))
Foremost(todo, j, d, k, n) ==
    j = 1 \/ (j = 2 /\ todo[1] = <<"add", <<d, Other(k)>>, <<"page", n>>>>)
Fresh(todo, n0, n1, ls) ==
    \A j \in DOMAIN todo, d \in Defs, k \in Ends, n \in Numbers :
       todo[j] = <<"add", <<d, k>>, <<"page", n>>>> =>
          /\ n0 < n /\ n <= n1 /\ <<d, k, n>> \in ls
          /\ \A x \in DOMAIN todo : todo[x] = <<"add", <<d, k>>, <<"page", n>>>> => x = j
          /\ Foremost(todo, j, d, k, n)

\* A script that adds fresh functions of the page keeps the invariant.
LEMMA PushGood ==
  ASSUME NEW c, NEW s, NEW st, NEW ls, NEW td, NEW n0, NEW todo \in Seq(Todo), NEW s2,
         NEW ls2, NEW n1 \in Nat,
         Good(c, s, st, ls, td, n0), Calm(c, st), ScriptPushed(s, s2, todo),
         ls \subseteq ls2, n0 <= n1, Fresh(todo, n0, n1, ls2)
  PROVE  Good(c, s2, st, ls2, td, n1)
<1>0. PICK f : f = Script(todo)  OBVIOUS
<1>1. f \in Frames /\ f.at = "script" /\ f.todo = todo  BY <1>0 DEF Script, Frames
<1>2. s \in Seq(Frames)  BY DEF Good, Stacked
<1>3. s2 \in Seq(Frames) /\ Len(s2) = Len(s) + 1 /\ s2[Len(s) + 1] = f
      /\ \A i \in 1 .. Len(s) : s2[i] = s[i]
  BY <1>0, <1>1, <1>2, AppendProperties DEF ScriptPushed
<1>4. /\ Len(s) \in Nat /\ DOMAIN s = 1 .. Len(s) /\ DOMAIN s2 = 1 .. Len(s) + 1
  BY <1>2, <1>3, StackTypes
<1>5. /\ \A i \in DOMAIN s2 :
            (i \in DOMAIN s /\ s2[i] = s[i]) \/ (i = Len(s) + 1 /\ s2[i] = f)
      /\ Len(s) + 1 \notin DOMAIN s
  BY <1>3, <1>4
<1>6. Stacked(c, s2)
  <2>1. \A i \in DOMAIN s2 : FrameRight(c, s2[i])
    BY <1>1, <1>5 DEF Good, Stacked, FrameRight
  <2>2. \A i, j \in DOMAIN s2 : i # j /\ s2[i].at # "script" /\ s2[j].at # "script" =>
           s2[i].list # s2[j].list
    BY <1>1, <1>5 DEF Good, Stacked
  <2> QED BY <1>3, <2>1, <2>2 DEF Stacked
<1>7. ASSUME NEW d \in Defs, NEW k \in Ends, NEW n \in Numbers
      PROVE  Token(c, s2, ls2, td, n1, d, k, n)
  <2>1. Token(c, s, ls, td, n0, d, k, n) /\ n0 \in Nat  BY DEF Good, Tokens
  <2>2. \A i, j \in Nat : Scripted(s2, d, k, n, i, j) =>
           \/ Scripted(s, d, k, n, i, j)
           \/ /\ i = Len(s) + 1 /\ j \in DOMAIN todo
              /\ todo[j] = <<"add", <<d, k>>, <<"page", n>>>>
    BY <1>1, <1>5 DEF Scripted
  <2>3. \A p \in Nat : Past(c, s, d, k, p) => Past(c, s2, d, k, p)
    BY <1>1, <1>5 DEF Past
  <2>4. CASE n <= n0
    <3>1. \A i, j \in Nat : Scripted(s2, d, k, n, i, j) => Scripted(s, d, k, n, i, j)
      <4>1. \A j \in DOMAIN todo : todo[j] # <<"add", <<d, k>>, <<"page", n>>>>
        <5>1. ~(n0 < n)  BY <2>1, <2>4 DEF Numbers
        <5> QED BY <5>1 DEF Fresh
      <4> QED BY <2>2, <4>1
    <3>2. Token(c, s2, ls, td, n0, d, k, n)  BY ONLY <2>1, <2>3, <3>1, TokenKept
    <3>3. n <= n1  BY <2>1, <2>4 DEF Numbers
    <3> QED BY <3>2, <3>3 DEF Token
  <2>5. CASE ~(n <= n0)
    <3>1. /\ \A p \in Nat : ~OnList(c, d, k, n, p)
          /\ \A i, j \in Nat : ~Scripted(s, d, k, n, i, j)
          /\ ~Told(td, <<d, k, n>>)
      BY <2>1, <2>5 DEF Token
    <3>2. \A i, j \in Nat : Scripted(s2, d, k, n, i, j) =>
             /\ n <= n1 /\ <<d, k, n>> \in ls2
             /\ \A x, y \in Nat : Scripted(s2, d, k, n, x, y) => i = x /\ j = y
      <4>1. ASSUME NEW i \in Nat, NEW j \in Nat, Scripted(s2, d, k, n, i, j)
            PROVE  /\ n <= n1 /\ <<d, k, n>> \in ls2
                   /\ \A x, y \in Nat : Scripted(s2, d, k, n, x, y) => i = x /\ j = y
        <5>1. /\ i = Len(s) + 1 /\ j \in DOMAIN todo
              /\ todo[j] = <<"add", <<d, k>>, <<"page", n>>>>
          BY <2>2, <3>1, <4>1
        <5>2. /\ n <= n1 /\ <<d, k, n>> \in ls2
              /\ \A x \in DOMAIN todo : todo[x] = <<"add", <<d, k>>, <<"page", n>>>> => x = j
          BY <5>1 DEF Fresh
        <5> QED BY <2>2, <3>1, <5>1, <5>2
      <4> QED BY <4>1
    <3> QED BY <3>1, <3>2 DEF Token
  <2> QED BY <2>4, <2>5
<1> QED BY <1>6, <1>7 DEF Good, Staged, Calm, Tokens

\* The script goes on to its next call.
Advanced(s, s2) == s2 = [s EXCEPT ![Len(s)].todo = Tail(@)]

\* The next call is taken from a script; what it is to add is in no place then.
LEMMA AdvanceGood ==
  ASSUME NEW c, NEW s, NEW st, NEW ls, NEW td, NEW n0, NEW s2,
         Good(c, s, st, ls, td, n0), s # <<>>, s[Len(s)].at = "script", s[Len(s)].todo # <<>>,
         Advanced(s, s2)
  PROVE  LET do == Head(s[Len(s)].todo) IN
         /\ Good(c, s2, st, ls, td, n0) /\ Calm(c, st) /\ do \in Todo
         /\ \A d \in Defs, k \in Ends, n \in Numbers :
               do = <<"add", <<d, k>>, <<"page", n>>>> => Free(c, s2, ls, td, n0, d, k, n)
<1>1. s \in Seq(Frames)  BY DEF Good, Stacked
<1>2. Len(s) \in Nat /\ DOMAIN s = 1 .. Len(s) /\ Len(s) \in DOMAIN s  BY <1>1, StackTypes
<1>3. PICK top \in Frames : top = s[Len(s)]  BY <1>1, <1>2, StackTypes
<1>4. top.at = "script" /\ top.todo \in Seq(Todo) /\ top.todo # <<>>  BY <1>3, FrameTypes
<1>5. PICK todo \in Seq(Todo) : todo = top.todo  BY <1>4
<1>6. /\ Head(todo) \in Todo /\ Tail(todo) \in Seq(Todo) /\ Len(Tail(todo)) = Len(todo) - 1
      /\ \A i \in 1 .. Len(Tail(todo)) : Tail(todo)[i] = todo[i + 1]
  BY <1>4, <1>5, HeadTailProperties
<1>7. PICK rest \in Seq(Todo) : rest = Tail(todo)  BY <1>6
<1>8. /\ Len(todo) \in Nat /\ DOMAIN todo = 1 .. Len(todo) /\ Len(rest) \in Nat
      /\ DOMAIN rest = 1 .. Len(rest) /\ Len(rest) = Len(todo) - 1
      /\ \A i \in DOMAIN rest : rest[i] = todo[i + 1] /\ i + 1 \in DOMAIN todo
      /\ Len(todo) # 0 /\ Head(todo) = todo[1] /\ 1 \in DOMAIN todo
  <2>1. /\ Len(todo) \in Nat /\ DOMAIN todo = 1 .. Len(todo) /\ Len(rest) \in Nat
        /\ DOMAIN rest = 1 .. Len(rest) /\ Len(todo) # 0
    BY <1>4, <1>5, LenProperties, EmptySeq
  <2>2. Head(todo) = todo[1]  BY <1>4, <1>5
  <2> QED BY <1>6, <1>7, <2>1, <2>2
<1>9. PICK f : f = [top EXCEPT !.todo = rest]  OBVIOUS
<1>10. f \in Frames /\ f.at = "script" /\ f.todo = rest  BY <1>4, <1>9 DEF Frames
<1>11. /\ s2 \in Seq(Frames) /\ Len(s2) = Len(s) /\ DOMAIN s2 = DOMAIN s
       /\ \A i \in DOMAIN s : i # Len(s) => s2[i] = s[i]
       /\ s2[Len(s)] = f
  <2>1. s2 = [s EXCEPT ![Len(s)] = f]  BY <1>3, <1>5, <1>7, <1>9 DEF Advanced
  <2>2. s2 \in Seq(Frames) /\ Len(s2) = Len(s)  BY <1>1, <1>2, <1>10, <2>1, ExceptSeq
  <2>3. DOMAIN s2 = DOMAIN s  BY <1>2, <2>2, StackTypes
  <2> QED BY <1>2, <2>1, <2>2, <2>3
<1>12. Calm(c, st)  BY CalmOutside DEF Good
<1>13. Stacked(c, s2)
  <2>1. \A i \in DOMAIN s2 : FrameRight(c, s2[i])
    BY <1>10, <1>11 DEF Good, Stacked, FrameRight
  <2>2. \A i, j \in DOMAIN s2 : i # j /\ s2[i].at # "script" /\ s2[j].at # "script" =>
           s2[i].list # s2[j].list
    <3>1. ASSUME NEW i \in DOMAIN s2, s2[i].at # "script"
          PROVE  i \in DOMAIN s /\ s2[i] = s[i] /\ s[i].at # "script"
      BY <1>10, <1>11, <3>1
    <3> QED BY <3>1 DEF Good, Stacked
  <2> QED BY <1>11, <2>1, <2>2 DEF Stacked
\* What is left to call was to be called before.
<1>14. ASSUME NEW d, NEW k, NEW n, NEW i \in Nat, NEW j \in Nat, Scripted(s2, d, k, n, i, j)
       PROVE  IF i = Len(s) THEN j >= 1 /\ Scripted(s, d, k, n, i, j + 1)
              ELSE Scripted(s, d, k, n, i, j)
  <2>1. CASE i = Len(s)
    <3>1. j \in DOMAIN rest /\ rest[j] = <<"add", <<d, k>>, <<"page", n>>>>
      BY <1>10, <1>11, <1>14, <2>1 DEF Scripted
    <3>2. j + 1 \in DOMAIN todo /\ todo[j + 1] = rest[j] /\ j >= 1
      <4>1. j \in DOMAIN rest /\ j \in 1 .. Len(rest)  BY <1>8, <3>1
      <4>2. j + 1 \in DOMAIN todo /\ todo[j + 1] = rest[j]  BY <1>8, <4>1
      <4> QED BY <1>8, <4>1, <4>2
    <3> QED BY <1>2, <1>3, <1>4, <1>5, <2>1, <3>1, <3>2 DEF Scripted
  <2>2. CASE i # Len(s)
    BY <1>11, <1>14, <2>2 DEF Scripted
  <2> QED BY <2>1, <2>2
<1>15. ASSUME NEW d \in Defs, NEW k \in Ends, NEW n \in Numbers
       PROVE  Token(c, s2, ls, td, n0, d, k, n)
  <2>1. Token(c, s, ls, td, n0, d, k, n)  BY DEF Good, Tokens
  <2>2. \A p \in Nat : Past(c, s, d, k, p) => Past(c, s2, d, k, p)
    BY <1>10, <1>11 DEF Past
  <2>3. ASSUME NEW i \in Nat, NEW j \in Nat, Scripted(s2, d, k, n, i, j)
        PROVE  /\ n <= n0 /\ <<d, k, n>> \in ls /\ ~Told(td, <<d, k, n>>)
               /\ \A x, y \in Nat : Scripted(s2, d, k, n, x, y) => i = x /\ j = y
               /\ \A p \in Nat : ~OnList(c, d, k, n, p)
    <3>1. PICK z \in Nat : Scripted(s, d, k, n, i, z) /\ z = IF i = Len(s) THEN j + 1 ELSE j
      BY <1>14, <2>3
    <3>2. \A x, y \in Nat : Scripted(s, d, k, n, x, y) => i = x /\ z = y
      BY <2>1, <3>1 DEF Token
    <3>3. ASSUME NEW x \in Nat, NEW y \in Nat, Scripted(s2, d, k, n, x, y)
          PROVE  i = x /\ j = y
      <4>1. PICK w \in Nat : Scripted(s, d, k, n, x, w) /\ w = IF x = Len(s) THEN y + 1 ELSE y
        BY <1>14, <3>3
      <4>2. i = x /\ z = w  BY <3>2, <4>1
      <4> QED BY <3>1, <4>1, <4>2
    <3> QED BY <2>1, <3>1, <3>3 DEF Token
  <2> QED BY <2>1, <2>2, <2>3 DEF Token
<1>16. ASSUME NEW d \in Defs, NEW k \in Ends, NEW n \in Numbers,
              Head(todo) = <<"add", <<d, k>>, <<"page", n>>>>
       PROVE  Free(c, s2, ls, td, n0, d, k, n)
  <2>1. Token(c, s, ls, td, n0, d, k, n)  BY DEF Good, Tokens
  <2>2. Scripted(s, d, k, n, Len(s), 1)
    BY <1>2, <1>3, <1>4, <1>5, <1>8, <1>16 DEF Scripted
  <2>3. /\ n <= n0 /\ <<d, k, n>> \in ls /\ ~Told(td, <<d, k, n>>)
        /\ \A p \in Nat : ~OnList(c, d, k, n, p)
        /\ \A x, y \in Nat : Scripted(s, d, k, n, x, y) => x = Len(s) /\ y = 1
    BY <1>2, <2>1, <2>2 DEF Token
  <2>4. \A i, j \in Nat : ~Scripted(s2, d, k, n, i, j)
    <3>1. ASSUME NEW i \in Nat, NEW j \in Nat, Scripted(s2, d, k, n, i, j) PROVE FALSE
      BY <1>14, <2>3, <3>1
    <3> QED BY <3>1
  <2> QED BY <2>3, <2>4 DEF Free
<1>17. Good(c, s2, st, ls, td, n0)
  BY <1>12, <1>13, <1>15 DEF Good, Staged, Calm, Tokens
<1> QED BY <1>3, <1>5, <1>6, <1>12, <1>16, <1>17

-----------------------------------------------------------------------------
(* A function of the page is called; the loop ends. *)

Called(s, s2) == s2 = [s EXCEPT ![Len(s)].at = "call"]
Tells(c, td, td2, l, g) ==
    IF l[2] = "progress" \/ g[1] # "page" THEN td2 = td
    ELSE td2 = Append(td, <<l[1], l[2], g[2], c[l].value>>)

Hears(td, td2, a, b, n, v) == td2 = Append(td, <<a, b, n, v>>)

\* One more listener was told, and no other.
LEMMA ToldOnce ==
  ASSUME NEW td \in Seq(Tellings), NEW a \in Defs, NEW b \in Ends, NEW n \in Numbers,
         NEW v \in Numbers, NEW td2, Hears(td, td2, a, b, n, v)
  PROVE  /\ td2 \in Seq(Tellings)
         /\ \A x, y, z : Told(td2, <<x, y, z>>) <=>
               Told(td, <<x, y, z>>) \/ (x = a /\ y = b /\ z = n)
<1>0. <<a, b, n, v>> \in Tellings /\ td2 = Append(td, <<a, b, n, v>>)  BY DEF Tellings, Hears
<1>1. /\ td2 \in Seq(Tellings)
      /\ Len(td) \in Nat /\ DOMAIN td = 1 .. Len(td) /\ DOMAIN td2 = 1 .. Len(td) + 1
      /\ \A i \in 1 .. Len(td) : td2[i] = td[i]
      /\ td2[Len(td) + 1] = <<a, b, n, v>>
  BY <1>0, AppendProperties, LenProperties
<1>2. \A i \in DOMAIN td2 : i \in DOMAIN td \/ i = Len(td) + 1  BY ONLY <1>1
<1>3. \A i \in DOMAIN td : i \in DOMAIN td2  BY ONLY <1>1
<1>4. Len(td) + 1 \in DOMAIN td2 BY ONLY <1>1
<1>5. ASSUME NEW x, NEW y, NEW z
      PROVE  Told(td2, <<x, y, z>>) <=> Told(td, <<x, y, z>>) \/ (x = a /\ y = b /\ z = n)
  <2>1. \A i : (\A j \in 1 .. 3 : td2[i][j] = <<x, y, z>>[j]) <=>
                (td2[i][1] = x /\ td2[i][2] = y /\ td2[i][3] = z)
    OBVIOUS
  <2>2. \A i : (\A j \in 1 .. 3 : td[i][j] = <<x, y, z>>[j]) <=>
                (td[i][1] = x /\ td[i][2] = y /\ td[i][3] = z)
    OBVIOUS
  <2> QED BY ONLY <1>1, <1>2, <1>3, <1>4, <2>1, <2>2 DEF Told
<1> QED BY ONLY <1>1, <1>5

\* A listener that nobody has told yet is told of the outcome.
ToldOf(c, st, ls, td, td2) ==
    \E d \in Defs, k \in Ends, n \in Numbers :
       /\ td2 = Append(td, <<d, k, n, Worth(c, st, d)>>) /\ Worth(c, st, d) \in Numbers
       /\ st[d] = Outcome(k) /\ <<d, k, n>> \in ls /\ ~Told(td, <<d, k, n>>)

\* A listener that is told was not told before.
LEMMA CallGood ==
  ASSUME NEW c, NEW s, NEW st, NEW ls, NEW td \in Seq(Tellings), NEW n0, NEW l, NEW g, NEW s2, NEW td2,
         Good(c, s, st, ls, td, n0), AtFunction(c, s, l, g), IsPage(g), g \in Added \cup Own,
         Called(s, s2), Tells(c, td, td2, l, g)
  PROVE  /\ Good(c, s2, st, ls, td2, n0) /\ td2 \in Seq(Tellings)
         /\ td2 = td \/ ToldOf(c, st, ls, td, td2)
<1>1. AtList(s, l) /\ s[Len(s)].at = "next"  BY DEF AtFunction
<1>2. l \in Lists /\ c[l] \in Records  BY <1>1, Loops
<1>3. PICK r \in Records : r = c[l]  BY <1>2
<1>4. /\ r.on /\ r.firing /\ r.memory = r.value /\ r.value \in Numbers
      /\ Len(s) \in DOMAIN s
      /\ \A i \in DOMAIN s : i # Len(s) /\ s[i].at # "script" => s[i].list # l
  BY <1>1, <1>3, Loops
<1>5. /\ r.index \in Nat /\ r.index < Len(r.list) /\ r.index + 1 \in DOMAIN r.list
      /\ g = r.list[r.index + 1]
  <2>1. r.index \in Nat /\ Len(r.list) \in Nat /\ DOMAIN r.list = 1 .. Len(r.list)  BY RecordTypes
  <2> QED BY <1>3, <2>1 DEF AtFunction
<1>6. g \in Added  BY DEF Own, IsPage
<1>7. Calm(c, st)
  <2>1. g[1] \notin {"state", "disable"}  BY DEF IsPage
  <2> QED BY <2>1, OwnStages
<1>8. s \in Seq(Frames) /\ Stacked(c, s)  BY DEF Good, Stacked
<1>9. PICK top \in Frames : top = s[Len(s)]  BY <1>4, <1>8, StackTypes
<1>10. PICK f : f = [top EXCEPT !.at = "call"]  OBVIOUS
<1>11. f \in Frames /\ f.at = "call" /\ f.list = l
  BY <1>1, <1>9, <1>10 DEF Frames, AtList
<1>12. /\ s2 \in Seq(Frames) /\ Len(s2) = Len(s) /\ DOMAIN s2 = DOMAIN s
       /\ \A i \in DOMAIN s : i # Len(s) => s2[i] = s[i]
       /\ s2[Len(s)] = f
  <2>1. s2 = [s EXCEPT ![Len(s)] = f]  BY <1>9, <1>10 DEF Called
  <2>2. Len(s) \in 1 .. Len(s) /\ DOMAIN s = 1 .. Len(s)  BY <1>4, <1>8, StackTypes
  <2>3. s2 \in Seq(Frames) /\ Len(s2) = Len(s)  BY <1>8, <1>11, <2>1, <2>2, ExceptSeq
  <2>4. DOMAIN s2 = DOMAIN s  BY <2>2, <2>3, StackTypes
  <2> QED BY <1>4, <2>1, <2>2, <2>3, <2>4
<1>13. Stacked(c, s2)
  <2>1. FrameRight(c, f)  BY <1>3, <1>4, <1>5, <1>6, <1>11 DEF FrameRight
  <2>2. \A i \in DOMAIN s2 : FrameRight(c, s2[i])  BY <1>8, <1>12, <2>1 DEF Stacked
  <2>3. ASSUME NEW i \in DOMAIN s2, NEW j \in DOMAIN s2, i # j,
               s2[i].at # "script", s2[j].at # "script"
        PROVE  s2[i].list # s2[j].list
    <3>1. CASE i = Len(s)
      BY <1>4, <1>11, <1>12, <2>3, <3>1
    <3>2. CASE j = Len(s)
      BY <1>4, <1>11, <1>12, <2>3, <3>2
    <3>3. CASE i # Len(s) /\ j # Len(s)
      BY <1>8, <1>12, <2>3, <3>3 DEF Stacked
    <3> QED BY <3>1, <3>2, <3>3
  <2> QED BY <1>12, <2>2, <2>3 DEF Stacked
<1>14. /\ \A d, k, n : \A i, j \in Nat : Scripted(s2, d, k, n, i, j) => Scripted(s, d, k, n, i, j)
       /\ \A d, k : \A p \in Nat : Past(c, s, d, k, p) => Past(c, s2, d, k, p)
  <2>1. \A d, k, n : \A i, j \in Nat : Scripted(s2, d, k, n, i, j) => Scripted(s, d, k, n, i, j)
    BY <1>11, <1>12 DEF Scripted
  <2>2. \A d, k : \A p \in Nat : Past(c, s, d, k, p) => Past(c, s2, d, k, p)
    BY <1>11, <1>12 DEF Past
  <2> QED BY <2>1, <2>2
<1>15. ASSUME NEW d \in Defs, NEW k \in Ends, NEW n \in Numbers
       PROVE  Token(c, s2, ls, td, n0, d, k, n)
  <2>1. Token(c, s, ls, td, n0, d, k, n)  BY DEF Good, Tokens
  <2> QED BY ONLY <1>14, <2>1, TokenKept
<1>16. CASE td2 = td
  BY <1>7, <1>13, <1>15, <1>16 DEF Good, Staged, Calm, Tokens
<1>17. CASE td2 # td
  <2>1. l[2] # "progress" /\ g[1] = "page"  BY <1>17 DEF Tells
  <2>2. PICK d \in Defs, k \in Ends : l = <<d, k>> /\ d = l[1] /\ k = l[2]
    BY <1>2, <2>1, OfLists
  <2>3. PICK n \in Numbers : g = <<"page", n>> /\ g[2] = n  BY <1>6, <2>1 DEF Added
  <2>4. PICK v \in Numbers : v = r.value  BY <1>4
  <2>5. td2 = Append(td, <<d, k, n, v>>)  BY <1>3, <1>17, <2>2, <2>3, <2>4 DEF Tells
  <2>6. Decided(c, st, d, k)
    <3>1. Steady(c, st, d) /\ c[<<d, k>>].on /\ c[<<d, k>>].firing
      BY <1>3, <1>4, <1>7, <2>2 DEF Calm
    <3> QED BY ONLY d \in Defs, k \in Ends, <3>1, FiredDecides
  <2>7. Worth(c, st, d) = v
    <3>1. Worth(c, st, d) = c[<<d, k>>].memory  BY <2>6, WorthOf DEF Decided
    <3> QED BY <1>3, <1>4, <2>2, <2>4, <3>1
  <2>8. OnList(c, d, k, n, r.index + 1)  BY <1>3, <1>5, <2>2, <2>3 DEF OnList
  <2>9. Token(c, s, ls, td, n0, d, k, n) /\ r.index + 1 \in Nat  BY <1>5 DEF Good, Tokens
  <2>10. ~Told(td, <<d, k, n>>)
    <3>1. ~Past(c, s, d, k, r.index + 1)
      <4>1. s[Len(s)].at = "next" /\ s[Len(s)].list = <<d, k>>  BY <1>1, <2>2 DEF AtList
      <4>2. ~(r.index + 1 <= r.index)  BY <1>5
      <4> QED BY <1>3, <1>4, <2>2, <4>1, <4>2 DEF Past
    <3> QED BY <2>8, <2>9, <3>1 DEF Token
  <2>11. /\ n <= n0 /\ <<d, k, n>> \in ls
         /\ \A i, j \in Nat : ~Scripted(s, d, k, n, i, j)
         /\ \A p \in Nat : OnList(c, d, k, n, p) => p = r.index + 1
    BY <2>8, <2>9 DEF Token
  <2>12. Past(c, s2, d, k, r.index + 1)
    <3>1. ASSUME NEW i \in DOMAIN s2, s2[i].at = "next" PROVE s2[i].list # <<d, k>>
      <4>1. i # Len(s) /\ s2[i] = s[i] /\ i \in DOMAIN s  BY <1>11, <1>12, <3>1
      <4> QED BY <1>4, <2>2, <3>1, <4>1
    <3>2. r.firing /\ r.index + 1 <= r.index + 1  BY <1>4, <1>5
    <3> QED BY <1>3, <2>2, <3>1, <3>2 DEF Past
  <2>13. /\ td2 \in Seq(Tellings)
         /\ \A x, y, z : Told(td2, <<x, y, z>>) <=>
               Told(td, <<x, y, z>>) \/ (x = d /\ y = k /\ z = n)
    <3>1. Hears(td, td2, d, k, n, v)  BY <2>5 DEF Hears
    <3> QED BY ONLY td \in Seq(Tellings), d \in Defs, k \in Ends, n \in Numbers, v \in Numbers,
               <3>1, ToldOnce
  <2>14. ASSUME NEW e \in Defs, NEW i \in Ends, NEW m \in Numbers
         PROVE  Token(c, s2, ls, td2, n0, e, i, m)
    <3>1. Token(c, s2, ls, td, n0, e, i, m)  BY <1>15
    <3>2. CASE e = d /\ i = k /\ m = n
      <4>1. \A x, y \in Nat : ~Scripted(s2, d, k, n, x, y)  BY <1>14, <2>11
      <4>2. \A p \in Nat : OnList(c, d, k, n, p) => Past(c, s2, d, k, p)  BY <2>11, <2>12
      <4> QED BY <2>11, <3>1, <3>2, <4>1, <4>2 DEF Token
    <3>3. CASE ~(e = d /\ i = k /\ m = n)
      <4>1. Told(td2, <<e, i, m>>) <=> Told(td, <<e, i, m>>)  BY <2>13, <3>3
      <4> QED BY <3>1, <4>1 DEF Token
    <3> QED BY <3>2, <3>3
  <2>15. Good(c, s2, st, ls, td2, n0)
    BY <1>7, <1>13, <2>14 DEF Good, Staged, Calm, Tokens
  <2>16. ToldOf(c, st, ls, td, td2)  BY <2>5, <2>6, <2>7, <2>10, <2>11 DEF Decided, ToldOf
  <2> QED BY <2>13, <2>15, <2>16
<1> QED BY <1>16, <1>17

\* The loop over a list ends: the list is fired again, or needs its functions no more.
Finishes(c, c2, l) == c2 = [c EXCEPT ![l] = Finished(c[l], Flags(l))]
Leaves(s, s2, r) == s2 = IF r.firing THEN s ELSE Front(s)

\* The end of a loop keeps the invariant.
LEMMA EndGood ==
  ASSUME NEW c, NEW s, NEW st, NEW ls, NEW td, NEW n0, NEW l, NEW c2, NEW s2,
         Good(c, s, st, ls, td, n0), AtList(s, l), s[Len(s)].at = "next", ~MoreToCall(c[l]),
         Finishes(c, c2, l), Leaves(s, s2, c2[l])
  PROVE  Good(c2, s2, st, ls, td, n0) /\ Keeps(c, c2, st)
<1>1. /\ l \in Lists /\ c[l] \in Records /\ c \in [Lists -> Records] /\ ListRight(c[l], l)
      /\ c[l].on /\ c[l].firing /\ c[l].fired
      /\ c[l].memory = c[l].value /\ c[l].value \in Numbers /\ c[l].length = Len(c[l].list)
      /\ Len(s) \in DOMAIN s
      /\ \A i \in DOMAIN s : i # Len(s) /\ s[i].at # "script" => s[i].list # l
  BY Loops DEF Good, Right
<1>2. PICK r \in Records : r = c[l]  BY <1>1
<1>3. PICK q \in Records : q = Finished(r, Flags(l))
  BY <1>1, <1>2, FinishedFacts DEF Numbers
<1>4. /\ r.on /\ r.firing /\ r.fired /\ r.memory > 0 /\ r.memory # 0 /\ ListRight(r, l)
      /\ r.length = Len(r.list)
  BY <1>1, <1>2 DEF Numbers
<1>5. /\ q.on /\ q.repeat = r.repeat
      /\ q.firing => /\ r.repeat /\ q.fired /\ q.list = r.list /\ q.value \in Numbers
                     /\ q.memory = q.value /\ q.length = Len(q.list)
      /\ ~q.firing => q.memory = r.memory /\ q.fired = r.fired /\ q.list \in {r.list, <<>>}
      /\ ~r.repeat => ~q.firing /\ q.list = <<>>
  BY <1>3, <1>4, FinishedFacts
<1>6. c2[l] = q /\ But(c, c2, l)
  <2>1. c2 = [c EXCEPT ![l] = q]  BY <1>2, <1>3 DEF Finishes
  <2> QED BY <1>1, <2>1, ButOne
<1>7. ~(r.index < Len(r.list)) /\ r.index \in Nat /\ Len(r.list) \in Nat
  BY <1>2, <1>4, RecordTypes DEF MoreToCall
<1>8. Calm(c, st)
  <2>1. ASSUME NEW d \in Defs, NEW k \in Ends, Starting(c, s, st, d, k) PROVE FALSE
    <3>1. l = <<d, k>>  BY <2>1 DEF Starting, AtList
    <3>2. Len(r.list) >= 3 /\ r.index \in {0, 1}  BY <1>2, <2>1, <3>1 DEF Starting, Begins
    <3> QED BY <1>7, <3>2
  <2> QED BY <2>1 DEF Good, Staged, Begun, Calm
<1>9. ListRight(q, l)
  <2>1. q.firing => q.value > 0  BY <1>5 DEF Numbers
  <2>2. DOMAIN (<<>>) = {}  BY EmptySeq
  <2>3. l[2] = "progress" => \A i \in DOMAIN q.list : q.list[i] \in Added
    BY <1>4, <1>5, <2>2 DEF ListRight
  <2> QED BY <1>4, <1>5, <2>1, <2>3 DEF ListRight
<1>10. Right(c2)  BY <1>1, <1>6, <1>9, RightKept DEF Good
<1>11. CASE q.firing
  <2>1. s2 = s  BY <1>6, <1>11 DEF Leaves
  <2>2. l[2] \notin Ends  BY <1>4, <1>5, <1>11 DEF ListRight
  <2>3. Alike(c, c2)
    <3>1. \A d \in Defs, k \in Ends : <<d, k>> \in Lists \ {l}  BY <2>2, OfLists
    <3> QED BY <1>6, <3>1 DEF But, Alike
  <2>4. Stacked(c2, s)
    <3>1. ASSUME NEW i \in DOMAIN s, s[i].at # "script", s[i].list = l PROVE FrameRight(c2, s[i])
      <4>1. s[i].at = "next"  BY <1>1, <3>1
      <4> QED BY <1>5, <1>6, <1>11, <3>1, <4>1 DEF FrameRight
    <3> QED BY <1>1, <1>6, <3>1, FramesKept DEF Good
  <2>5. Good(c2, s, st, ls, td, n0)  BY <1>10, <2>3, <2>4, AlikeGood
  <2>6. Keeps(c, c2, st)  BY <2>3 DEF Keeps, Worth, Alike, Ends
  <2> QED BY <2>1, <2>5, <2>6
<1>12. CASE ~q.firing
  <2>1. s2 = Front(s)  BY <1>6, <1>12 DEF Leaves
  <2>2. s \in Seq(Frames) /\ s # <<>>  BY DEF Good, Stacked, AtList
  <2>3. /\ s2 \in Seq(Frames)
        /\ \A i \in DOMAIN s2 : i \in DOMAIN s /\ i # Len(s) /\ s2[i] = s[i]
    BY <2>1, <2>2, FrontFacts
  <2>4. Good(c, s2, st, ls, td, n0)
    <3>1. \A i \in DOMAIN s2 : i \in DOMAIN s /\ s2[i] = s[i]  BY <2>3
    <3> QED BY ONLY Good(c, s, st, ls, td, n0), <1>8, <2>3, <3>1, LeftGood
  <2>5. Stacked(c2, s2)
    <3>1. ASSUME NEW i \in DOMAIN s2, s2[i].at # "script", s2[i].list = l PROVE FALSE
      BY <1>1, <2>3, <3>1
    <3>2. Stacked(c, s2) /\ Right(c)  BY <2>4 DEF Good
    <3> QED BY <1>1, <1>6, <3>1, <3>2, FramesKept
  <2>6. Keeps(c, c2, st)
    <3>1. c2[l].memory = c[l].memory  BY <1>2, <1>5, <1>6, <1>12
    <3> QED BY <1>1, <1>6, <1>8, <3>1, WorthKept
  <2>7. l[2] \in Ends => q.list = <<>> /\ DOMAIN q.list = {}
    BY <1>4, <1>5, EmptySeq DEF ListRight
  <2>8. Calm(c2, st)
    <3>1. ASSUME l[2] \in Ends PROVE Steady(c2, st, l[1])
      <4>1. PICK d \in Defs, k \in Ends : l = <<d, k>> /\ d = l[1] /\ k = l[2]
        BY <1>1, <3>1, OfLists
      <4>2. Decided(c, st, d, k)
        <5>1. Steady(c, st, d) /\ c[<<d, k>>].on /\ c[<<d, k>>].firing
          BY <1>2, <1>4, <1>8, <4>1 DEF Calm
        <5> QED BY ONLY d \in Defs, k \in Ends, <5>1, FiredDecides
      <4>3. c2[<<d, Other(k)>>] = c[<<d, Other(k)>>]  BY <1>6, <4>1, OfLists DEF But
      <4>4. c2[<<d, k>>] = q  BY <1>6, <4>1
      <4>5. /\ q.on /\ q.fired /\ q.memory > 0 /\ q.list = <<>> /\ DOMAIN q.list = {}
        BY <1>4, <1>5, <1>12, <2>7, <3>1
      <4>6. Decided(c2, st, d, k)
        BY ONLY <4>2, <4>3, <4>4, <4>5 DEF Decided
      <4> QED BY <4>1, <4>6 DEF Steady
    <3> QED BY <1>1, <1>6, <1>8, <3>1, CalmKept
  <2>9. ASSUME NEW d \in Defs, NEW k \in Ends, NEW n \in Numbers
        PROVE  Token(c2, s2, ls, td, n0, d, k, n)
    <3>1. Token(c, s2, ls, td, n0, d, k, n)  BY <2>4 DEF Good, Tokens
    <3>2. CASE l # <<d, k>>
      <4>1. c2[<<d, k>>] = c[<<d, k>>]  BY <1>6, <3>2, OfLists DEF But
      <4> QED BY <3>1, <4>1, TokenKept DEF OnList, Past
    <3>3. CASE l = <<d, k>>
      <4>1. \A p \in Nat : ~OnList(c2, d, k, n, p)  BY <1>6, <2>7, <3>3 DEF OnList
      <4> QED BY <3>1, <4>1, TokenKept
    <3> QED BY <3>2, <3>3
  <2> QED BY <1>10, <2>4, <2>5, <2>6, <2>8, <2>9 DEF Good, Staged, Calm, Tokens
<1> QED BY <1>11, <1>12

-----------------------------------------------------------------------------
(* The invariant holds at the start. *)

\* A list is made empty.
LEMMA NewFacts ==
  ASSUME NEW l \in Lists
  PROVE  LET r == NewList(Flags(l)) IN
         /\ r \in Records /\ r.on /\ ~r.fired /\ ~r.firing /\ r.memory = 0
         /\ r.list = <<>> /\ (l[2] \in Ends => ~r.repeat)
<1>1. <<>> \in Seq(Added \cup Own) /\ <<>> \in Seq(Numbers)  BY EmptySeq
<1> QED BY <1>1 DEF NewList, Flags, Ends, NoValue, Records

\* The lists of an object are made with the three functions of the code's own.
LEMMA MadeFacts ==
  ASSUME NEW d \in Defs, NEW k \in Kinds
  PROVE  LET r == MadeLists(d)[k] IN
         /\ r \in Records /\ ListRight(r, <<d, k>>) /\ ~r.firing /\ r.memory = 0
         /\ k \in Ends => Untouched(r, d, k)
         /\ k = "progress" => r.list = <<>>
         /\ \A i \in DOMAIN r.list : r.list[i] \in Own
<1>1. <<d, k>> \in Lists  BY DEF Lists
<1>2. PICK n : n = NewList(Flags(<<d, k>>))  OBVIOUS
<1>3. /\ n \in Records /\ n.on /\ ~n.fired /\ ~n.firing /\ n.memory = 0
      /\ n.list = <<>> /\ (k \in Ends => ~n.repeat)
  BY <1>1, <1>2, NewFacts
<1>4. PICK r : r = MadeLists(d)[k]  OBVIOUS
<1>5. CASE k = "progress"
  <2>1. r = n  BY <1>2, <1>4, <1>5 DEF MadeLists
  <2>2. DOMAIN r.list = {}  BY <1>3, <2>1, EmptySeq
  <2> QED BY <1>3, <1>4, <1>5, <2>1, <2>2 DEF ListRight, Ends
<1>6. CASE k \in Ends
  <2>1. PICK list : list = << <<"state", d, Outcome(k)>>, <<"disable", d, Other(k)>>,
                              <<"lock", d, "progress">> >>
    OBVIOUS
  <2>2. r = [n EXCEPT !.list = list]
    BY <1>2, <1>4, <1>6, <2>1 DEF MadeLists, Other, Ends
  <2>3. /\ Len(list) = 3 /\ DOMAIN list = 1 .. 3
        /\ list[1] = <<"state", d, Outcome(k)>> /\ list[2] = <<"disable", d, Other(k)>>
        /\ list[3] = <<"lock", d, "progress">>
    BY <2>1
  <2>4. list[1] \in Own /\ list[2] \in Own /\ list[3] \in Own
    <3>1. \A v \in {"resolved", "rejected"} : <<"state", d, v>> \in Own  BY DEF Own
    <3>2. \A i \in Ends : <<"disable", d, i>> \in Own  BY DEF Own
    <3>3. <<"lock", d, "progress">> \in Own  BY DEF Own
    <3>4. Outcome(k) \in {"resolved", "rejected"} /\ Other(k) \in Ends  BY <1>6, OfLists
    <3> QED BY <2>3, <3>1, <3>2, <3>3, <3>4
  <2>5. list \in Seq(Added \cup Own)  BY <2>1, <2>3, <2>4
  <2>6. /\ r \in Records /\ r.on /\ ~r.fired /\ ~r.firing /\ r.memory = 0
        /\ r.list = list /\ ~r.repeat
    BY <1>3, <1>6, <2>2, <2>5 DEF Records
  <2>7. Begins(list, d, k)  BY <2>3 DEF Begins
  <2>8. \A i \in DOMAIN list : list[i] \in Own
    <3>1. \A i \in DOMAIN list : i = 1 \/ i = 2 \/ i = 3  BY <2>3
    <3> QED BY <2>4, <3>1
  <2>9. k # "progress"  BY <1>6, OfLists
  <2> QED BY <1>4, <2>6, <2>7, <2>8, <2>9 DEF ListRight, Untouched
<1> QED BY <1>5, <1>6 DEF Kinds, Ends

\* The invariant holds at the start.
LEMMA InitGood == Init => IInv
<1> SUFFICES ASSUME Init PROVE IInv  OBVIOUS
<1>1. \A d \in Defs, k \in Kinds : cb[<<d, k>>] = MadeLists(d)[k]
  BY DEF Init, Lists
<1>2. cb \in [Lists -> Records]
  <2>1. ASSUME NEW l \in Lists PROVE cb[l] \in Records
    BY <1>1, OfLists, MadeFacts
  <2>2. cb = [l \in Lists |-> cb[l]]  BY DEF Init
  <2> QED BY <2>1, <2>2
<1>3. Right(cb)
  <2>1. ASSUME NEW l \in Lists PROVE ListRight(cb[l], l)
    <3>1. PICK d \in Defs, k \in Kinds : l = <<d, k>>  BY OfLists
    <3> QED BY <1>1, <3>1, MadeFacts
  <2> QED BY <1>2, <2>1 DEF Right
<1>4. Stacked(cb, calls)
  <2>1. calls \in Seq(Frames) /\ DOMAIN calls = {}  BY EmptySeq DEF Init
  <2> QED BY <2>1 DEF Stacked
<1>5. Staged(cb, calls, state)
  <2>1. ASSUME NEW d \in Defs PROVE Steady(cb, state, d)
    <3>1. ASSUME NEW k \in Ends PROVE Untouched(cb[<<d, k>>], d, k)
      <4>1. k \in Kinds  BY OfLists
      <4> QED BY <1>1, <4>1, MadeFacts
    <3> QED BY <3>1 DEF Steady, Open, Init
  <2> QED BY <2>1 DEF Staged, Init
<1>6. Tokens(cb, calls, listeners, told, ops)
  <2>1. ASSUME NEW d \in Defs, NEW k \in Ends, NEW n \in Numbers
        PROVE  Token(cb, calls, listeners, told, ops, d, k, n)
    <3>1. \A p \in Nat : ~OnList(cb, d, k, n, p)
      <4>1. k \in Kinds  BY OfLists
      <4>2. \A p \in DOMAIN cb[<<d, k>>].list : cb[<<d, k>>].list[p] \in Own
        BY <1>1, <4>1, MadeFacts
      <4>3. <<"page", n>> \notin Own  BY DEF Own
      <4> QED BY <4>2, <4>3 DEF OnList
    <3>2. \A i, j \in Nat : ~Scripted(calls, d, k, n, i, j)
      BY EmptySeq DEF Init, Scripted
    <3>3. ~Told(told, <<d, k, n>>)  BY EmptySeq DEF Init, Told
    <3> QED BY <3>1, <3>2, <3>3 DEF Token
  <2>2. ops \in Nat  BY DEF Init
  <2> QED BY <2>1, <2>2 DEF Tokens
<1>7. told \in Seq(Tellings)  BY EmptySeq DEF Init
<1> QED BY <1>3, <1>4, <1>5, <1>6, <1>7 DEF IInv, Good

-----------------------------------------------------------------------------
(* What the actions do to promises. *)

\* Nothing, but that there may be more listeners.
Listens ==
    /\ state' = state /\ told' = told /\ Keeps(cb, cb', state)
    /\ listeners \subseteq listeners'

\* One is settled.
Settles ==
    \E d \in Defs, k \in Ends :
       /\ state[d] = "pending" /\ Assigned(state, state', d, Outcome(k))
       /\ Worth(cb', state', d) \in Numbers
       /\ \A e \in Defs \ {d} : Worth(cb', state', e) = Worth(cb, state, e)
       /\ told' = told /\ listeners' = listeners

\* A listener is told of the outcome.
Hearing ==
    /\ ToldOf(cb, state, listeners, told, told')
    /\ state' = state /\ Keeps(cb, cb', state) /\ listeners' = listeners

\* Two steps that change no value are one.
LEMMA KeepsOn ==
  ASSUME NEW c, NEW c1, NEW c2, NEW st, Keeps(c, c1, st), Keeps(c1, c2, st)
  PROVE  Keeps(c, c2, st)
BY DEF Keeps

\* The page makes calls: each listener of an outcome waits in them to be added, and
\* no other function of the page does.
Asked(todo, ls, ls2) ==
    \A d \in Defs, k \in Ends, n \in Numbers : <<d, k, n>> \in ls2 =>
       \/ <<d, k, n>> \in ls
       \/ \E j \in DOMAIN todo : todo[j] = <<"add", <<d, k>>, <<"page", n>>>>
Calling ==
    \E todo \in Seq(Todo) :
       /\ PageCalls(todo) /\ listeners \subseteq listeners'
       /\ Fresh(todo, ops, ops + 1, listeners') /\ Asked(todo, listeners, listeners')

LEMMA PageGood ==
  ASSUME IInv, Calling
  PROVE  IInv' /\ Listens
<1>0. PICK todo \in Seq(Todo) : PageCalls(todo) /\ listeners \subseteq listeners'
                               /\ Fresh(todo, ops, ops + 1, listeners')
  BY DEF Calling
<1>1. /\ InScript /\ ops' = ops + 1 /\ ScriptPushed(calls, calls', todo)
      /\ cb' = cb /\ state' = state /\ told' = told
  BY <1>0 DEF PageCalls, ScriptPushed
<1>2. Good(cb, calls, state, listeners, told, ops) /\ told \in Seq(Tellings)  BY DEF IInv
<1>3. Calm(cb, state)
  <2>1. calls = <<>> \/ calls[Len(calls)].at # "next"
    BY <1>1 DEF InScript, Top, Last
  <2> QED BY <1>2, <2>1, CalmOutside DEF Good
<1>4. ops + 1 \in Nat /\ ops <= ops + 1  BY <1>2 DEF Good, Tokens
<1>5. Good(cb, calls', state, listeners', told, ops + 1)
  BY ONLY todo \in Seq(Todo), <1>0, <1>1, <1>2, <1>3, <1>4, PushGood
<1> QED BY <1>0, <1>1, <1>2, <1>5, KeepsSame DEF IInv, Listens

\* A function on 1 .. n is a sequence.
LEMMA SeqMade ==
  ASSUME NEW n \in Nat, NEW S, NEW f \in [1 .. n -> S]
  PROVE  f \in Seq(S) /\ Len(f) = n /\ DOMAIN f = 1 .. n
<1>1. f \in Seq(S)  BY SeqDef
<1> QED BY <1>1, LenProperties

LEMMA OneCall ==
  ASSUME NEW do \in Todo
  PROVE  <<do>> \in Seq(Todo) /\ DOMAIN <<do>> = 1 .. 1 /\ <<do>>[1] = do
OBVIOUS

LEMMA OpsNumber == ASSUME IInv PROVE ops \in Nat /\ ops + 1 \in Numbers
<1>1. ops \in Nat  BY DEF IInv, Good, Tokens
<1> QED BY <1>1 DEF Numbers

\* resolve, reject and notify.
LEMMA SignalCalls ==
  ASSUME IInv, NEW d \in Defs, NEW k \in Kinds, Signal(d, k)
  PROVE  Calling
<1>1. PICK do : do = <<"fire", <<d, k>>, ops + 1>>  OBVIOUS
<1>2. do \in Todo  BY <1>1, OpsNumber DEF Todo, Lists
<1>3. PICK todo \in Seq(Todo) : todo = <<do>> /\ DOMAIN todo = 1 .. 1 /\ todo[1] = do
  BY <1>2, OneCall
<1>4. PageCalls(todo) /\ listeners' = listeners  BY <1>1, <1>3 DEF Signal
<1>5. Fresh(todo, ops, ops + 1, listeners')
  <2>1. \A j \in DOMAIN todo : todo[j][1] = "fire"  BY <1>1, <1>3
  <2> QED BY <2>1 DEF Fresh
<1>6. Asked(todo, listeners, listeners')  BY <1>4 DEF Asked
<1> QED BY <1>4, <1>5, <1>6 DEF Calling

\* done, fail and progress.
LEMMA ListenCalls ==
  ASSUME IInv, NEW d \in Defs, NEW k \in Kinds, Listen(d, k)
  PROVE  Calling
<1>0. ops \in Nat /\ ops + 1 \in Numbers  BY OpsNumber
<1>1. PICK do : do = <<"add", <<d, k>>, <<"page", ops + 1>>>>  OBVIOUS
<1>2. do \in Todo
  <2>1. <<"page", ops + 1>> \in Added  BY <1>0 DEF Added
  <2> QED BY <1>1, <2>1 DEF Todo, Lists
<1>3. PICK todo \in Seq(Todo) : todo = <<do>> /\ DOMAIN todo = 1 .. 1 /\ todo[1] = do
  BY <1>2, OneCall
<1>4. PageCalls(todo) /\ listeners' = listeners \cup {<<d, k, ops + 1>>}
  BY <1>1, <1>3 DEF Listen
<1>5. Fresh(todo, ops, ops + 1, listeners')
  <2>1. ASSUME NEW j \in DOMAIN todo, NEW e \in Defs, NEW i \in Ends, NEW n \in Numbers,
               todo[j] = <<"add", <<e, i>>, <<"page", n>>>>
        PROVE  e = d /\ i = k /\ n = ops + 1 /\ j = 1
    BY <1>1, <1>3, <2>1
  <2>2. \A j \in DOMAIN todo : j = 1  BY <1>3
  <2>3. ops < ops + 1 /\ ops + 1 <= ops + 1  BY <1>0
  <2>4. \A j \in DOMAIN todo : \A e, i, n : Foremost(todo, j, e, i, n)  BY <2>2 DEF Foremost
  <2> QED BY <1>4, <2>1, <2>2, <2>3, <2>4 DEF Fresh
<1>6. Asked(todo, listeners, listeners')
  <2>1. ASSUME NEW e \in Defs, NEW i \in Ends, NEW n \in Numbers, <<e, i, n>> \in listeners',
               <<e, i, n>> \notin listeners
        PROVE  1 \in DOMAIN todo /\ todo[1] = <<"add", <<e, i>>, <<"page", n>>>>
    BY <1>1, <1>3, <1>4, <2>1
  <2> QED BY <2>1 DEF Asked
<1> QED BY <1>4, <1>5, <1>6 DEF Calling

\* always: the same function for two lists, of which one can tell it.
LEMMA AlwaysCalls ==
  ASSUME IInv, NEW d \in Defs, Always(d)
  PROVE  Calling
<1>0. ops \in Nat /\ ops + 1 \in Numbers  BY OpsNumber
<1>1. PICK todo : todo = [i \in 1 .. 2 |->
                             <<"add", <<d, <<"done", "fail">>[i]>>, <<"page", ops + 1>>>>]
  OBVIOUS
<1>2. \A i \in 1 .. 2 : <<"done", "fail">>[i] \in Ends /\ <<"done", "fail">>[i] \in Kinds
  <2>1. \A i \in 1 .. 2 : i = 1 \/ i = 2  OBVIOUS
  <2> QED BY <2>1 DEF Ends, Kinds
<1>3. todo \in Seq(Todo)
  <2>1. <<"page", ops + 1>> \in Added  BY <1>0 DEF Added
  <2>2. ASSUME NEW i \in 1 .. 2 PROVE todo[i] \in Todo
    <3>1. <<d, <<"done", "fail">>[i]>> \in Lists  BY <1>2 DEF Lists
    <3> QED BY <1>1, <2>1, <3>1 DEF Todo
  <2>3. todo = [i \in 1 .. 2 |-> todo[i]]  BY <1>1
  <2>4. todo \in [1 .. 2 -> Todo]  BY <2>2, <2>3
  <2> QED BY <2>4, SeqMade
<1>4. /\ PageCalls(todo)
      /\ listeners' = listeners \cup {<<d, "done", ops + 1>>, <<d, "fail", ops + 1>>}
  BY <1>1 DEF Always
<1>5. Fresh(todo, ops, ops + 1, listeners')
  <2>1. ASSUME NEW j \in DOMAIN todo, NEW e \in Defs, NEW i \in Ends, NEW n \in Numbers,
               todo[j] = <<"add", <<e, i>>, <<"page", n>>>>
        PROVE  e = d /\ i = <<"done", "fail">>[j] /\ n = ops + 1
    BY <1>1, <2>1
  <2>2. \A i, j \in DOMAIN todo : <<"done", "fail">>[i] = <<"done", "fail">>[j] => i = j
    <3>1. \A i \in DOMAIN todo : i = 1 \/ i = 2  BY <1>1
    <3> QED BY <3>1
  <2>3. ops < ops + 1 /\ ops + 1 <= ops + 1  BY <1>0
  <2>4. \A i \in Ends : <<d, i, ops + 1>> \in listeners'  BY <1>4 DEF Ends
  <2>5. ASSUME NEW j \in DOMAIN todo
        PROVE  \/ j = 1
               \/ j = 2 /\ todo[1] = <<"add", <<d, Other(<<"done", "fail">>[j])>>, <<"page", ops + 1>>>>
    <3>1. j = 1 \/ j = 2  BY <1>1
    <3>2. todo[1] = <<"add", <<d, "done">>, <<"page", ops + 1>>>>  BY <1>1
    <3>3. Other(<<"done", "fail">>[2]) = "done"  BY DEF Other
    <3> QED BY <3>1, <3>2, <3>3
  <2>6. ASSUME NEW j \in DOMAIN todo, NEW e \in Defs, NEW i \in Ends, NEW n \in Numbers,
               todo[j] = <<"add", <<e, i>>, <<"page", n>>>>
        PROVE  Foremost(todo, j, e, i, n)
    BY <2>1, <2>5, <2>6 DEF Foremost
  <2> QED BY <2>1, <2>2, <2>3, <2>4, <2>6 DEF Fresh
<1>6. Asked(todo, listeners, listeners')
  <2>1. ASSUME NEW e \in Defs, NEW i \in Ends, NEW n \in Numbers, <<e, i, n>> \in listeners',
               <<e, i, n>> \notin listeners
        PROVE  \E j \in DOMAIN todo : todo[j] = <<"add", <<e, i>>, <<"page", n>>>>
    <3>1. e = d /\ n = ops + 1  BY <1>4, <2>1
    <3>2. PICK j \in 1 .. 2 : <<"done", "fail">>[j] = i
      <4>1. 1 \in 1 .. 2 /\ 2 \in 1 .. 2 /\ (i = "done" \/ i = "fail")  BY DEF Ends
      <4> QED BY <4>1
    <3> QED BY <1>1, <3>1, <3>2
  <2> QED BY <2>1 DEF Asked
<1> QED BY <1>3, <1>4, <1>5, <1>6 DEF Calling

\* The functions of then() are no functions of the page's own.
LEMMA FollowingCalls ==
  ASSUME NEW d \in Defs, NEW c \in Defs, NEW f, \A k \in Kinds : f[k] \in Nat
  PROVE  LET todo == Following(d, c, f) IN
         todo \in Seq(Todo) /\ \A n0, n1, ls : Fresh(todo, n0, n1, ls)
<1>1. PICK todo : todo = Following(d, c, f)  OBVIOUS
<1>2. todo = [i \in 1 .. 3 |->
                 LET k == <<"done", "fail", "progress">>[i]
                 IN  <<"add", <<d, k>>, <<"then", c, k, f[k]>>>>]
  BY <1>1 DEF Following
<1>3. ASSUME NEW i \in 1 .. 3 PROVE todo[i] \in Todo /\ todo[i][3][1] = "then"
  <2>1. i = 1 \/ i = 2 \/ i = 3  OBVIOUS
  <2>2. PICK k \in Kinds : k = <<"done", "fail", "progress">>[i]  BY <2>1 DEF Kinds
  <2>3. todo[i] = <<"add", <<d, k>>, <<"then", c, k, f[k]>>>>  BY <1>2, <2>2
  <2>4. PICK n \in Nat : n = f[k]  OBVIOUS
  <2>5. <<"then", c, k, n>> \in Added /\ <<d, k>> \in Lists  BY DEF Added, Lists
  <2> QED BY <2>3, <2>4, <2>5 DEF Todo
<1>4. todo = [i \in 1 .. 3 |-> todo[i]]  BY <1>2
<1>5. todo \in [1 .. 3 -> Todo] /\ DOMAIN todo = 1 .. 3  BY <1>3, <1>4
<1>6. todo \in Seq(Todo)  BY <1>5, SeqMade
<1>7. \A n0, n1, ls : Fresh(todo, n0, n1, ls)  BY <1>3, <1>5 DEF Fresh
<1> QED BY <1>1, <1>6, <1>7

\* then.
LEMMA ThenCalls ==
  ASSUME IInv, NEW d \in Defs, NEW c \in Defs, NEW given, Then(d, c, given)
  PROVE  Calling
<1>1. PICK f : f = [k \in Kinds |-> IF k \in given THEN ops + 1 ELSE 0]  OBVIOUS
<1>2. \A k \in Kinds : f[k] \in Nat  BY <1>1, OpsNumber
<1>3. PICK todo : todo = Following(d, c, f)  OBVIOUS
<1>4. todo \in Seq(Todo) /\ Fresh(todo, ops, ops + 1, listeners')
  BY <1>2, <1>3, FollowingCalls
<1>5. PageCalls(todo) /\ listeners' = listeners  BY <1>1, <1>3 DEF Then
<1>6. Asked(todo, listeners, listeners')  BY <1>5 DEF Asked
<1> QED BY <1>4, <1>5, <1>6 DEF Calling

\* The subordinates of when(), one after the other.
LEMMA SetSequence ==
  ASSUME NEW S, IsFiniteSet(S)
  PROVE  SetToSeq(S) \in Seq(S)
<1>1. Cardinality(S) \in Nat /\ ExistsBijection(1 .. Cardinality(S), S)
  BY FS_CardinalityType
<1>2. \E f \in [1 .. Cardinality(S) -> S] : IsInjective(f)
  BY <1>1 DEF ExistsBijection, Bijection, Injection
<1>3. SetToSeq(S) \in [1 .. Cardinality(S) -> S]  BY <1>2 DEF SetToSeq
<1> QED BY <1>1, <1>3, SeqMade

\* Nor are those of when().
LEMMA AwaitingCalls ==
  ASSUME NEW s \in Seq(Defs), NEW m \in Defs
  PROVE  LET todo == Append(Awaiting(s, m), <<"resolveIfNone", m>>) IN
         todo \in Seq(Todo) /\ \A n0, n1, ls : Fresh(todo, n0, n1, ls)
<1>0. PICK n \in Nat : n = Len(s)  BY LenProperties
<1>1. PICK a : a = Awaiting(s, m)  OBVIOUS
<1>2. a = [i \in 1 .. 3 * n |->
              LET d == s[(i + 2) \div 3] IN
              IF i % 3 = 1 THEN <<"add", <<d, "done">>, <<"count", m>>>>
              ELSE IF i % 3 = 2 THEN <<"add", <<d, "fail">>, <<"signal", m, "fail">>>>
              ELSE <<"add", <<d, "progress">>, <<"signal", m, "progress">>>>]
  BY <1>0, <1>1 DEF Awaiting
<1>3. /\ <<"count", m>> \in Added /\ <<"signal", m, "fail">> \in Added
      /\ <<"signal", m, "progress">> \in Added
  BY DEF Added, Kinds
<1>4. ASSUME NEW i \in 1 .. 3 * n PROVE a[i] \in Todo /\ a[i][3][1] \in {"count", "signal"}
  <2>1. (i + 2) \div 3 \in 1 .. n  OBVIOUS
  <2>2. PICK d \in Defs : d = s[(i + 2) \div 3]  BY <1>0, <2>1, ElementOfSeq
  <2>3. \/ a[i] = <<"add", <<d, "done">>, <<"count", m>>>>
        \/ a[i] = <<"add", <<d, "fail">>, <<"signal", m, "fail">>>>
        \/ a[i] = <<"add", <<d, "progress">>, <<"signal", m, "progress">>>>
    BY <1>2, <2>2
  <2>4. <<d, "done">> \in Lists /\ <<d, "fail">> \in Lists /\ <<d, "progress">> \in Lists
    BY DEF Lists, Kinds
  <2>5. \A l \in Lists, f \in Added : <<"add", l, f>> \in Todo  BY DEF Todo
  <2>6. /\ <<"add", <<d, "done">>, <<"count", m>>>> \in Todo
        /\ <<"add", <<d, "fail">>, <<"signal", m, "fail">>>> \in Todo
        /\ <<"add", <<d, "progress">>, <<"signal", m, "progress">>>> \in Todo
    BY ONLY <1>3, <2>4, <2>5
  <2>7. a[i] \in Todo  BY ONLY <2>3, <2>6
  <2>8. a[i][3][1] \in {"count", "signal"}  BY ONLY <2>3
  <2> QED BY <2>7, <2>8
<1>5. a = [i \in 1 .. 3 * n |-> a[i]]  BY <1>2
<1>6. PICK w \in Nat : w = 3 * n  OBVIOUS
<1>a. a \in [1 .. w -> Todo]  BY <1>4, <1>5, <1>6
<1>7. a \in Seq(Todo) /\ Len(a) = w  BY <1>a, SeqMade
<1>b. <<"resolveIfNone", m>> \in Todo
  <2>1. <<"resolveIfNone", m>> \in {<<"resolveIfNone", x>> : x \in Defs}  OBVIOUS
  <2> QED BY <2>1 DEF Todo
<1>8. PICK none \in Todo : none = <<"resolveIfNone", m>>  BY <1>b
<1>9. PICK todo : todo = Append(a, none)  OBVIOUS
<1>10. /\ todo \in Seq(Todo) /\ Len(todo) = w + 1 /\ todo[w + 1] = none
       /\ \A i \in 1 .. w : todo[i] = a[i]
  BY <1>7, <1>9, AppendProperties
<1>11. DOMAIN todo = 1 .. w + 1  BY <1>10, LenProperties
<1>12. \A i \in DOMAIN todo : i \in 1 .. w \/ i = w + 1  BY <1>6, <1>11
<1>13. \A i \in DOMAIN todo : todo[i][1] = "resolveIfNone" \/ todo[i][3][1] \in {"count", "signal"}
  BY <1>4, <1>6, <1>8, <1>10, <1>12
<1>14. \A n0, n1, ls : Fresh(todo, n0, n1, ls)  BY <1>13 DEF Fresh
<1> QED BY <1>1, <1>8, <1>9, <1>10, <1>14

\* when.
LEMMA WhenCalls ==
  ASSUME RootsAssumption, IInv, NEW m \in Defs, NEW subs \in SUBSET Defs, When(subs, m)
  PROVE  Calling
<1>1. IsFiniteSet(subs)  BY FS_Subset DEF RootsAssumption
<1>2. SetToSeq(subs) \in Seq(Defs)
  BY <1>1, SetSequence, SeqMonotonic
<1>3. PICK todo : todo = Append(Awaiting(SetToSeq(subs), m), <<"resolveIfNone", m>>)  OBVIOUS
<1>4. todo \in Seq(Todo) /\ Fresh(todo, ops, ops + 1, listeners')
  BY <1>2, <1>3, AwaitingCalls
<1>5. PageCalls(todo) /\ listeners' = listeners  BY <1>3 DEF When
<1>6. Asked(todo, listeners, listeners')  BY <1>5 DEF Asked
<1> QED BY <1>4, <1>5, <1>6 DEF Calling

-----------------------------------------------------------------------------
(* What the code does by itself. *)

LEMMA CalmThere ==
  ASSUME IInv, calls # <<>>, Top.at # "next"
  PROVE  Calm(cb, state)
<1>1. Staged(cb, calls, state) /\ calls[Len(calls)].at # "next"
  BY DEF IInv, Good, Top, Last
<1> QED BY <1>1, CalmOutside

\* The frames that a step leaves are taken off the stack.
LEMMA LeftStep ==
  ASSUME IInv, calls' \in Seq(Frames), calls # <<>>, Top.at # "next",
         \A i \in DOMAIN calls' : i \in DOMAIN calls /\ calls'[i] = calls[i],
         UNCHANGED <<cb, state, ops, history>>
  PROVE  IInv' /\ Listens
<1>1. Good(cb, calls, state, listeners, told, ops)  BY DEF IInv
<1>2. Calm(cb, state)  BY CalmThere
<1>3. PICK s2 \in Seq(Frames) : s2 = calls'  OBVIOUS
<1>4. \A i \in DOMAIN s2 : i \in DOMAIN calls /\ s2[i] = calls[i]  BY <1>3
<1>5. Good(cb, s2, state, listeners, told, ops)
  BY ONLY s2 \in Seq(Frames), <1>1, <1>2, <1>4, LeftGood
<1>6. /\ cb' = cb /\ state' = state /\ ops' = ops /\ listeners' = listeners /\ told' = told
  BY DEF history
<1> QED BY <1>3, <1>5, <1>6, KeepsSame DEF IInv, Listens

\* A call of a script, or its end.
LEMMA ScriptStep ==
  ASSUME IInv, RunScript
  PROVE  IInv' /\ Listens
<1>1. /\ Good(cb, calls, state, listeners, told, ops) /\ told \in Seq(Tellings)
      /\ calls \in Seq(Frames)
  BY DEF IInv, Good, Stacked
<1>2. /\ calls # <<>> /\ Top = calls[Len(calls)] /\ Top.at = "script"
      /\ UNCHANGED <<state, ops, history>>
  BY DEF RunScript, Top, Last
<1>3. state' = state /\ ops' = ops /\ listeners' = listeners /\ told' = told
  BY <1>2 DEF history
<1>4. CASE Top.todo = <<>>
  <2>1. calls' = Front(calls) /\ cb' = cb  BY <1>4 DEF RunScript
  <2>2. /\ calls' \in Seq(Frames)
        /\ \A i \in DOMAIN calls' : i \in DOMAIN calls /\ calls'[i] = calls[i]
    BY <1>1, <1>2, <2>1, FrontFacts
  <2> QED BY <1>2, <2>1, <2>2, LeftStep
<1>5. CASE Top.todo # <<>>
  <2>1. PICK do : do = Head(Top.todo)  OBVIOUS
  <2>2. PICK s : s = [calls EXCEPT ![Len(calls)].todo = Tail(@)]  OBVIOUS
  <2>3. /\ Good(cb, s, state, listeners, told, ops) /\ Calm(cb, state) /\ do \in Todo
        /\ \A d \in Defs, k \in Ends, n \in Numbers :
              do = <<"add", <<d, k>>, <<"page", n>>>> => Free(cb, s, listeners, told, ops, d, k, n)
    <3>1. Advanced(calls, s) /\ calls[Len(calls)].todo # <<>> /\ calls[Len(calls)].at = "script"
      BY <1>2, <1>5, <2>2 DEF Advanced
    <3>2. do = Head(calls[Len(calls)].todo)  BY <1>2, <2>1
    <3> QED BY <1>1, <1>2, <3>1, <3>2, AdvanceGood
  <2>4. \/ do[1] = "add" /\ DoAdd(cb, s, do[2], do[3])
        \/ do[1] = "fire" /\ DoFire(cb, s, do[2], do[3])
        \/ do[1] = "expect"
        \/ /\ do[1] = "resolveIfNone"
           /\ IF remaining[do[2]] = 0
              THEN DoFire(cb, s, <<do[2], "done">>, ops + 1)
              ELSE calls' = s /\ cb' = cb
    BY <1>5, <2>1, <2>2 DEF RunScript
  <2>5. SUFFICES Good(cb', calls', state, listeners, told, ops) /\ Keeps(cb, cb', state)
    BY <1>1, <1>3 DEF IInv, Listens
  <2>6. CASE do[1] = "add"
    <3>1. PICK l \in Lists, f \in Added : do = <<"add", l, f>>  BY <2>3, <2>6 DEF Todo
    <3>2. Adds(cb, s, l, f, cb', calls')  BY <2>4, <3>1 DEF DoAdd, Adds
    <3>3. ASSUME NEW k \in Ends, NEW n \in Numbers, l[2] = k, f = <<"page", n>>
          PROVE  Free(cb, s, listeners, told, ops, l[1], k, n)
      <4>1. l = <<l[1], k>> /\ l[1] \in Defs  BY <3>3, OfLists
      <4> QED BY <2>3, <3>1, <3>3, <4>1
    <3> QED BY ONLY l \in Lists, f \in Added, <2>3, <3>2, <3>3, AddGood
  <2>7. CASE do[1] = "fire"
    <3>1. PICK l \in Lists, v \in Numbers : do = <<"fire", l, v>>  BY <2>3, <2>7 DEF Todo
    <3>2. Fires(cb, s, l, v, cb', calls')  BY <2>4, <3>1 DEF DoFire, Fires
    <3> QED BY ONLY l \in Lists, v \in Numbers, <2>3, <3>2, FireGood
  <2>8. CASE do[1] = "resolveIfNone"
    <3>1. PICK m \in Defs : do = <<"resolveIfNone", m>>  BY <2>3, <2>8 DEF Todo
    <3>2. PICK l \in Lists : l = <<m, "done">>  BY DEF Lists, Kinds
    <3>3. PICK v \in Numbers : v = ops + 1  BY OpsNumber
    <3>4. CASE remaining[m] = 0
      <4>1. Fires(cb, s, l, v, cb', calls')
        BY <2>4, <3>1, <3>2, <3>3, <3>4 DEF DoFire, Fires
      <4> QED BY ONLY l \in Lists, v \in Numbers, <2>3, <4>1, FireGood
    <3>5. CASE remaining[m] # 0
      <4>1. calls' = s /\ cb' = cb  BY <2>4, <3>1, <3>5
      <4> QED BY <2>3, <4>1, KeepsSame
    <3> QED BY <3>4, <3>5
  <2>9. do[1] # "expect"  BY <2>3 DEF Todo
  <2> QED BY <2>4, <2>6, <2>7, <2>8, <2>9
<1> QED BY <1>4, <1>5

\* The loop stands at the function Fn.
LEMMA AtFn ==
  ASSUME IInv, Firing, MoreToCall(cb[Top.list])
  PROVE  /\ AtFunction(cb, calls, Top.list, Fn) /\ AtList(calls, Top.list)
         /\ Top.list \in Lists /\ FiredWith \in Numbers
         /\ Resumed(calls, calls) /\ Stepped(cb, Passed, Top.list)
<1>1. Good(cb, calls, state, listeners, told, ops) /\ calls \in Seq(Frames)
  BY DEF IInv, Good, Stacked
<1>2. PICK l : l = Top.list  OBVIOUS
<1>3. calls # <<>> /\ Top = calls[Len(calls)] /\ Top.at = "next"  BY DEF Firing, Top, Last
<1>4. AtList(calls, l)  BY <1>2, <1>3 DEF AtList
<1>5. /\ l \in Lists /\ cb[l].length = Len(cb[l].list) /\ cb[l].value \in Numbers
  BY <1>1, <1>4, Loops
<1>6. AtFunction(cb, calls, l, Fn)
  BY <1>2, <1>3, <1>4, <1>5 DEF AtFunction, MoreToCall, Fn
<1>7. Resumed(calls, calls)  BY <1>1, <1>3 DEF Resumed
<1>8. Stepped(cb, Passed, l)  BY <1>2 DEF Stepped, Passed
<1> QED BY <1>2, <1>4, <1>5, <1>6, <1>7, <1>8 DEF FiredWith

\* A function fires another list, or the same one, while the loop goes on.
LEMMA SignalGood ==
  ASSUME IInv, Firing, MoreToCall(cb[Top.list]), Fn[1] \notin {"state", "disable"}
  PROVE  /\ Good(Passed, calls, state, listeners, told, ops)
         /\ Calm(Passed, state) /\ Keeps(cb, Passed, state)
<1>1. Good(cb, calls, state, listeners, told, ops)  BY DEF IInv
<1>2. PICK l, g : l = Top.list /\ g = Fn  OBVIOUS
<1>3. /\ AtFunction(cb, calls, l, g) /\ AtList(calls, l)
      /\ Resumed(calls, calls) /\ Stepped(cb, Passed, l)
  BY <1>2, AtFn
<1>4. Calm(cb, state)
  <2>1. \/ Calm(cb, state)
        \/ \E d \in Defs, k \in Ends :
              g = <<"state", d, Outcome(k)>> \/ g = <<"disable", d, Other(k)>>
    BY <1>1, <1>3, OwnStages
  <2> QED BY <1>2, <2>1
<1>5. PICK c : c = Passed  OBVIOUS
<1>6. Stepped(cb, c, l)  BY <1>3, <1>5
<1>7. /\ Good(c, calls, state, listeners, told, ops) /\ Calm(c, state) /\ Keeps(cb, c, state)
  BY ONLY <1>1, <1>3, <1>4, <1>6, PassGood
<1> QED BY <1>5, <1>7

\* A function of the code's own.
LEMMA OwnStep ==
  ASSUME IInv, CallOwn
  PROVE  IInv' /\ (Listens \/ Settles)
<1>1. /\ Good(cb, calls, state, listeners, told, ops) /\ told \in Seq(Tellings)
      /\ Firing /\ MoreToCall(cb[Top.list]) /\ ops' = ops /\ listeners' = listeners /\ told' = told
  BY DEF IInv, CallOwn, history
<1>2. PICK l, g : l = Top.list /\ g = Fn  OBVIOUS
<1>3. /\ AtFunction(cb, calls, l, g) /\ AtList(calls, l) /\ FiredWith \in Numbers
      /\ Resumed(calls, calls) /\ Stepped(cb, Passed, l)
  BY <1>1, <1>2, AtFn
<1>4. PICK c : c = Passed  OBVIOUS
<1>5. Stepped(cb, c, l)  BY <1>3, <1>4
<1>6. /\ g \in Added \cup Own
      /\ \/ /\ Calm(cb, state) /\ g[1] \notin {"state", "disable"}
         \/ \E d \in Defs, k \in Ends :
               /\ l = <<d, k>> /\ Starting(cb, calls, state, d, k)
               /\ \/ cb[l].index = 0 /\ g = <<"state", d, Outcome(k)>> /\ state[d] = "pending"
                  \/ /\ cb[l].index = 1 /\ g = <<"disable", d, Other(k)>>
                     /\ state[d] = Outcome(k)
  BY <1>1, <1>3, OwnStages
\* The first function of the list of an outcome sets the state.
<1>7. ASSUME NEW d \in Defs, NEW k \in Ends, l = <<d, k>>, Starting(cb, calls, state, d, k),
             cb[l].index = 0, g = <<"state", d, Outcome(k)>>, state[d] = "pending"
      PROVE  IInv' /\ Settles
  <2>1. state' = [state EXCEPT ![d] = Outcome(k)] /\ cb' = c /\ calls' = calls
    BY <1>2, <1>4, <1>7 DEF CallOwn
  <2>2. Assigned(state, state', d, Outcome(k))  BY <2>1 DEF Assigned
  <2>3. Stepped(cb, c, <<d, k>>) /\ cb[<<d, k>>].index = 0  BY <1>5, <1>7
  <2>a. PICK st2 : st2 = state'  OBVIOUS
  <2>b. Assigned(state, st2, d, Outcome(k))  BY <2>2, <2>a
  <2>c. Good(cb, calls, state, listeners, told, ops)  BY <1>1
  <2>d. Starting(cb, calls, state, d, k) /\ state[d] = "pending"  BY <1>7
  <2>e. /\ Good(c, calls, st2, listeners, told, ops)
        /\ Worth(c, st2, d) = cb[<<d, k>>].value /\ cb[<<d, k>>].value \in Numbers
        /\ \A e \in Defs \ {d} : Worth(c, st2, e) = Worth(cb, state, e)
    BY ONLY d \in Defs, k \in Ends, <2>b, <2>c, <2>d, <2>3, StateGood
  <2>4. /\ Good(c, calls, state', listeners, told, ops)
        /\ Worth(c, state', d) = cb[<<d, k>>].value /\ cb[<<d, k>>].value \in Numbers
        /\ \A e \in Defs \ {d} : Worth(c, state', e) = Worth(cb, state, e)
    BY ONLY <2>a, <2>e
  <2>5. Good(cb', calls', state', listeners', told', ops')  BY <1>1, <2>1, <2>4
  <2>6. Settles  BY <1>1, <1>7, <2>1, <2>2, <2>4 DEF Settles
  <2> QED BY <1>1, <2>5, <2>6 DEF IInv
\* The second disables the list of the other outcome.
<1>8. ASSUME NEW d \in Defs, NEW k \in Ends, l = <<d, k>>, Starting(cb, calls, state, d, k),
             cb[l].index = 1, g = <<"disable", d, Other(k)>>, state[d] = Outcome(k)
      PROVE  IInv' /\ Listens
  <2>1. /\ state' = state /\ calls' = calls
        /\ cb' = [c EXCEPT ![<<d, Other(k)>>] = Disabled(c[<<d, Other(k)>>])]
    BY <1>2, <1>4, <1>8 DEF CallOwn
  <2>2. c[<<d, Other(k)>>] = cb[<<d, Other(k)>>]
    <3>1. cb \in [Lists -> Records] /\ l \in Lists  BY <1>1, <1>8, OfLists DEF Good, Right
    <3>2. But(cb, c, l)  BY ONLY <1>5, <3>1, SteppedFacts
    <3> QED BY <1>8, <3>2, OfLists DEF But
  <2>3. Assigned(c, cb', <<d, Other(k)>>, Disabled(cb[<<d, Other(k)>>]))
    BY <2>1, <2>2 DEF Assigned
  <2>4. Stepped(cb, c, <<d, k>>) /\ cb[<<d, k>>].index = 1  BY <1>5, <1>8
  <2>5. Good(cb', calls, state, listeners, told, ops) /\ Keeps(cb, cb', state)
    BY ONLY d \in Defs, k \in Ends, <1>1, <1>8, <2>3, <2>4, DisableGood
  <2> QED BY <1>1, <2>1, <2>5 DEF IInv, Listens
\* The other ones.
<1>9. ASSUME g[1] \notin {"state", "disable"}
      PROVE  IInv' /\ Listens
  <2>1. /\ Good(c, calls, state, listeners, told, ops) /\ Calm(c, state) /\ Keeps(cb, c, state)
    BY <1>1, <1>2, <1>4, <1>9, SignalGood
  <2>2. state' = state  BY <1>2, <1>9 DEF CallOwn
  <2>3. SUFFICES Good(cb', calls', state, listeners, told, ops) /\ Keeps(c, cb', state)
    <3>1. Keeps(c, cb', state) => Keeps(cb, cb', state)  BY <2>1, KeepsOn
    <3> QED BY <1>1, <2>2, <3>1 DEF IInv, Listens
  <2>4. \/ /\ g[1] = "lock" /\ calls' = calls
           /\ cb' = [c EXCEPT ![<<g[2], g[3]>>] = Locked(c[<<g[2], g[3]>>])]
        \/ g[1] = "signal" /\ DoFire(c, calls, <<g[2], g[3]>>, FiredWith)
        \/ /\ g[1] = "count"
           /\ IF remaining[g[2]] = 1
              THEN DoFire(c, calls, <<g[2], "done">>, FiredWith)
              ELSE cb' = c /\ calls' = calls
    BY <1>2, <1>4, <1>9 DEF CallOwn
  <2>5. PICK v \in Numbers : v = FiredWith  BY <1>3
  <2>6. CASE g[1] = "lock"
    <3>1. PICK d \in Defs : g = <<"lock", d, "progress">>  BY <1>6, <2>6 DEF Added, Own
    <3>2. Assigned(c, cb', <<d, "progress">>, Locked(c[<<d, "progress">>])) /\ calls' = calls
      BY <2>4, <3>1 DEF Assigned
    <3>3. Good(cb', calls, state, listeners, told, ops) /\ Keeps(c, cb', state)
      BY ONLY d \in Defs, <2>1, <3>2, LockGood
    <3> QED BY <3>2, <3>3
  <2>7. CASE g[1] = "signal"
    <3>a. PICK d \in Defs, k \in Kinds : g = <<"signal", d, k>>  BY <1>6, <2>7 DEF Added, Own
    <3>b. <<g[2], g[3]>> = <<d, k>> /\ <<d, k>> \in Lists  BY <3>a DEF Lists
    <3>1. PICK m \in Lists : m = <<g[2], g[3]>>  BY <3>b
    <3>2. Fires(c, calls, m, v, cb', calls')  BY <2>4, <2>5, <2>7, <3>1 DEF DoFire, Fires
    <3> QED BY ONLY m \in Lists, v \in Numbers, <2>1, <3>2, FireGood
  <2>8. CASE g[1] = "count"
    <3>1. g[2] \in Defs  BY <1>6, <2>8 DEF Added, Own
    <3>2. PICK m \in Lists : m = <<g[2], "done">>  BY <3>1 DEF Lists, Kinds
    <3>3. CASE remaining[g[2]] = 1
      <4>1. Fires(c, calls, m, v, cb', calls')
        BY <2>4, <2>5, <2>8, <3>2, <3>3 DEF DoFire, Fires
      <4> QED BY ONLY m \in Lists, v \in Numbers, <2>1, <4>1, FireGood
    <3>4. CASE remaining[g[2]] # 1
      <4>1. cb' = c /\ calls' = calls  BY <2>4, <2>8, <3>4
      <4> QED BY <2>1, <4>1, KeepsSame
    <3> QED BY <3>3, <3>4
  <2> QED BY <2>4, <2>6, <2>7, <2>8
<1> QED BY <1>6, <1>7, <1>8, <1>9

\* then() without a function.
LEMMA ForwardStep ==
  ASSUME IInv, Forward
  PROVE  IInv' /\ Listens
<1>1. /\ Firing /\ MoreToCall(cb[Top.list]) /\ ops' = ops /\ listeners' = listeners
      /\ told' = told /\ state' = state /\ told \in Seq(Tellings)
      /\ Good(cb, calls, state, listeners, told, ops)
  BY DEF IInv, Forward, history
<1>2. PICK g : g = Fn  OBVIOUS
<1>3. g[1] = "then" /\ DoFire(Passed, calls, <<g[2], g[3]>>, FiredWith)
  BY <1>2 DEF Forward
<1>4. PICK c : c = Passed  OBVIOUS
<1>5. /\ Good(c, calls, state, listeners, told, ops) /\ Calm(c, state) /\ Keeps(cb, c, state)
  BY <1>1, <1>2, <1>3, <1>4, SignalGood
<1>6. g \in Added \cup Own
  <2>1. AtFunction(cb, calls, Top.list, g)  BY <1>1, <1>2, AtFn
  <2> QED BY <1>1, <2>1, OwnStages
<1>7. PICK m \in Lists : m = <<g[2], g[3]>>  BY <1>3, <1>6 DEF Added, Own, Lists
<1>8. PICK v \in Numbers : v = FiredWith  BY <1>1, AtFn
<1>9. Fires(c, calls, m, v, cb', calls')  BY <1>3, <1>4, <1>7, <1>8 DEF DoFire, Fires
<1>10. Good(cb', calls', state, listeners, told, ops) /\ Keeps(c, cb', state)
  BY ONLY m \in Lists, v \in Numbers, <1>5, <1>9, FireGood
<1> QED BY <1>1, <1>5, <1>10, KeepsOn DEF IInv, Listens

\* A function of the page is called.
LEMMA CallStep ==
  ASSUME IInv, CallPage
  PROVE  IInv' /\ (Listens \/ Hearing)
<1>1. /\ Firing /\ MoreToCall(cb[Top.list]) /\ ops' = ops /\ listeners' = listeners
      /\ state' = state /\ cb' = cb /\ told \in Seq(Tellings)
      /\ Good(cb, calls, state, listeners, told, ops)
  BY DEF IInv, CallPage
<1>2. PICK l, g : l = Top.list /\ g = Fn  OBVIOUS
<1>3. AtFunction(cb, calls, l, g)  BY <1>1, <1>2, AtFn
<1>4. g \in Added \cup Own  BY <1>1, <1>3, OwnStages
<1>5. IsPage(g) /\ Called(calls, calls')  BY <1>2 DEF CallPage, IsPage, Called
<1>6. Tells(cb, told, told', l, g)
  BY <1>2 DEF CallPage, Tells, FiredWith
<1>a. PICK s2, td2 : s2 = calls' /\ td2 = told'  OBVIOUS
<1>b. Called(calls, s2) /\ Tells(cb, told, td2, l, g)  BY <1>5, <1>6, <1>a
<1>c. Good(cb, calls, state, listeners, told, ops) /\ told \in Seq(Tellings) /\ IsPage(g)
  BY <1>1, <1>5
<1>d. /\ Good(cb, s2, state, listeners, td2, ops) /\ td2 \in Seq(Tellings)
      /\ td2 = told \/ ToldOf(cb, state, listeners, told, td2)
  BY ONLY <1>b, <1>c, <1>3, <1>4, CallGood
<1>7. /\ Good(cb, calls', state, listeners, told', ops) /\ told' \in Seq(Tellings)
      /\ told' = told \/ ToldOf(cb, state, listeners, told, told')
  BY ONLY <1>a, <1>d
<1>8. Good(cb', calls', state', listeners', told', ops')  BY <1>1, <1>7
<1>9. Keeps(cb, cb', state)  BY <1>1, KeepsSame
<1>10. CASE told' = told
  BY <1>1, <1>7, <1>8, <1>9, <1>10 DEF IInv, Listens
<1>11. CASE told' # told
  BY <1>1, <1>7, <1>8, <1>9, <1>11 DEF IInv, Hearing
<1> QED BY <1>10, <1>11

\* The loop goes on after a function of the page.
Returned(s, s2) == s2 = [s EXCEPT ![Len(s)].at = "next"]

\* Only the place of the last frame changes.
LEMMA ReturnedFacts ==
  ASSUME NEW s \in Seq(Frames), NEW l, AtList(s, l), NEW s2, Returned(s, s2)
  PROVE  Resumed(s, s2)
<1>1. s # <<>> /\ Len(s) \in DOMAIN s /\ Len(s) \in Nat /\ DOMAIN s = 1 .. Len(s)
  BY StackTypes DEF AtList
<1>2. PICK top \in Frames : top = s[Len(s)]  BY <1>1, StackTypes
<1>3. PICK f : f = [top EXCEPT !.at = "next"]  OBVIOUS
<1>4. f \in Frames /\ f.at = "next" /\ f.list = top.list
  BY <1>2, <1>3 DEF Frames, AtList
<1>5. s2 = [s EXCEPT ![Len(s)] = f]  BY <1>2, <1>3 DEF Returned
<1>6. s2 \in Seq(Frames) /\ Len(s2) = Len(s)  BY <1>1, <1>4, <1>5, ExceptSeq
<1>7. s2[Len(s)] = f /\ \A i \in DOMAIN s : i # Len(s) => s2[i] = s[i]  BY <1>1, <1>5
<1> QED BY <1>2, <1>4, <1>6, <1>7 DEF Resumed

\* It returns, a value or a promise.
LEMMA ReturnStep ==
  ASSUME RootsAssumption, IInv, PageReturns
  PROVE  IInv' /\ Listens
<1>1. /\ Good(cb, calls, state, listeners, told, ops) /\ told \in Seq(Tellings)
      /\ calls \in Seq(Frames)
  BY DEF IInv, Good, Stacked
<1>2. /\ calls # <<>> /\ Top = calls[Len(calls)] /\ Top.at = "call"
      /\ state' = state /\ ops' = ops /\ listeners' = listeners /\ told' = told
  BY DEF PageReturns, Top, Last
<1>3. PICK l, g : l = Top.list /\ g = Fn  OBVIOUS
<1>4. AtList(calls, l)  BY <1>2, <1>3 DEF AtList
<1>5. Calm(cb, state)  BY <1>2, CalmThere
<1>6. g \in Added /\ IsPage(g)
  <2>1. FrameRight(cb, calls[Len(calls)])  BY <1>1, <1>4, Loops
  <2> QED BY <1>2, <1>3, <2>1 DEF FrameRight, Fn
<1>7. PICK s : s = [calls EXCEPT ![Len(calls)].at = "next"]  OBVIOUS
<1>8. Resumed(calls, s)
  <2>1. Returned(calls, s)  BY <1>7 DEF Returned
  <2> QED BY ONLY <1>1, <1>4, <2>1, ReturnedFacts
<1>9. PICK c : c = Passed  OBVIOUS
<1>10. Stepped(cb, c, l)  BY <1>3, <1>9 DEF Stepped, Passed
<1>11. Good(c, s, state, listeners, told, ops) /\ Calm(c, state) /\ Keeps(cb, c, state)
  BY ONLY <1>1, <1>4, <1>5, <1>8, <1>10, PassGood
<1>12. SUFFICES Good(cb', calls', state, listeners, told, ops) /\ Keeps(c, cb', state)
  <2>1. Keeps(c, cb', state) => Keeps(cb, cb', state)  BY <1>11, KeepsOn
  <2> QED BY <1>1, <1>2, <2>1 DEF IInv, Listens
<1>13. \/ cb' = c /\ calls' = s
       \/ g[1] = "then" /\ DoFire(c, s, <<g[2], g[3]>>, g[4])
       \/ /\ g[1] = "then"
          /\ \E p \in Roots :
                cb' = c /\ calls' = Append(s, Script(Following(p, g[2], [k \in Kinds |-> 0])))
  BY <1>3, <1>7, <1>9 DEF PageReturns
<1>14. CASE cb' = c /\ calls' = s
  BY <1>11, <1>14, KeepsSame
<1>15. ASSUME g[1] = "then"
       PROVE  \E e \in Defs, k \in Kinds, n \in Numbers : g = <<"then", e, k, n>>
  <2>1. PICK e \in Defs, k \in Kinds, n \in Nat : g = <<"then", e, k, n>>
    BY <1>6, <1>15 DEF Added
  <2>2. n # 0  BY <1>6, <1>15, <2>1 DEF IsPage
  <2> QED BY <2>1, <2>2 DEF Numbers
<1>16. CASE g[1] = "then" /\ DoFire(c, s, <<g[2], g[3]>>, g[4])
  <2>1. PICK e \in Defs, k \in Kinds, v \in Numbers : g = <<"then", e, k, v>>  BY <1>15, <1>16
  <2>2. PICK m \in Lists : m = <<e, k>>  BY DEF Lists
  <2>3. Fires(c, s, m, v, cb', calls')  BY <1>16, <2>1, <2>2 DEF DoFire, Fires
  <2> QED BY ONLY m \in Lists, v \in Numbers, <1>11, <2>3, FireGood
<1>17. ASSUME g[1] = "then", NEW p \in Roots, cb' = c,
              calls' = Append(s, Script(Following(p, g[2], [k \in Kinds |-> 0])))
       PROVE  Good(cb', calls', state, listeners, told, ops) /\ Keeps(c, cb', state)
  <2>1. PICK e \in Defs : e = g[2]  BY <1>15, <1>17
  <2>2. PICK f : f = [k \in Kinds |-> 0]  OBVIOUS
  <2>3. \A k \in Kinds : f[k] \in Nat  BY <2>2
  <2>4. PICK todo : todo = Following(p, e, f)  OBVIOUS
  <2>5. p \in Defs  BY DEF RootsAssumption
  <2>6. todo \in Seq(Todo) /\ Fresh(todo, ops, ops, listeners)
    BY <2>3, <2>4, <2>5, FollowingCalls
  <2>7. PICK s2 : s2 = calls'  OBVIOUS
  <2>8. ScriptPushed(s, s2, todo)  BY <1>17, <2>1, <2>2, <2>4, <2>7 DEF ScriptPushed
  <2>9. ops \in Nat /\ ops <= ops /\ listeners \subseteq listeners  BY OpsNumber
  <2>10. Good(c, s2, state, listeners, told, ops)
    BY ONLY <1>11, <2>6, <2>8, <2>9, PushGood
  <2> QED BY <1>17, <2>7, <2>10, KeepsSame
<1> QED BY <1>13, <1>14, <1>16, <1>17

\* The loop ends.
LEMMA EndStep ==
  ASSUME IInv, EndOfLoop
  PROVE  IInv' /\ Listens
<1>1. /\ Good(cb, calls, state, listeners, told, ops) /\ told \in Seq(Tellings)
      /\ calls # <<>> /\ Top = calls[Len(calls)] /\ Top.at = "next"
      /\ state' = state /\ ops' = ops /\ listeners' = listeners /\ told' = told
  BY DEF IInv, EndOfLoop, Firing, Top, Last, history
<1>2. PICK l : l = Top.list  OBVIOUS
<1>3. AtList(calls, l) /\ calls[Len(calls)].at = "next"  BY <1>1, <1>2 DEF AtList
<1>4. ~MoreToCall(cb[l])  BY <1>2 DEF EndOfLoop
<1>5. l \in Lists /\ cb \in [Lists -> Records]
  BY <1>1, <1>3, Loops DEF Good, Right
<1>6. PICK r : r = Finished(cb[l], Flags(l))  OBVIOUS
<1>7. PICK c : c = [cb EXCEPT ![l] = r]  OBVIOUS
<1>8. cb' = c /\ calls' = IF r.firing THEN calls ELSE Front(calls)
  BY <1>2, <1>6, <1>7 DEF EndOfLoop
<1>9. PICK s : s = calls'  OBVIOUS
<1>10. c[l] = r  BY <1>5, <1>7
<1>11. Finishes(cb, c, l) /\ Leaves(calls, s, c[l])
  BY <1>6, <1>7, <1>8, <1>9, <1>10 DEF Finishes, Leaves
<1>12. Good(c, s, state, listeners, told, ops) /\ Keeps(cb, c, state)
  BY ONLY <1>1, <1>3, <1>4, <1>11, EndGood
<1> QED BY <1>1, <1>8, <1>9, <1>12 DEF IInv, Listens

\* A function throws, and every frame is left.
LEMMA ThrowStep ==
  ASSUME IInv, Throw
  PROVE  IInv' /\ Listens
<1>1. calls' = <<>> /\ calls' \in Seq(Frames) /\ DOMAIN calls' = {}
  BY EmptySeq DEF Throw
<1>2. calls # <<>> /\ Top.at # "next" /\ UNCHANGED <<cb, state, ops, history>>
  BY DEF Throw
<1> QED BY <1>1, <1>2, LeftStep

\* Every step keeps the invariant, and does to promises one of three things.
LEMMA InvariantKept ==
  ASSUME RootsAssumption, IInv, [Next]_vars
  PROVE  IInv' /\ (Listens \/ Settles \/ Hearing)
<1>1. ASSUME NEW d \in Defs, Always(d) PROVE IInv' /\ Listens
  BY <1>1, AlwaysCalls, PageGood
<1>2. ASSUME NEW d \in Defs, NEW k \in Kinds, Signal(d, k) PROVE IInv' /\ Listens
  BY <1>2, SignalCalls, PageGood
<1>3. ASSUME NEW d \in Defs, NEW k \in Kinds, Listen(d, k) PROVE IInv' /\ Listens
  BY <1>3, ListenCalls, PageGood
<1>4. ASSUME NEW d \in Defs, NEW c \in Defs, NEW given \in Given, Then(d, c, given)
      PROVE  IInv' /\ Listens
  BY <1>4, ThenCalls, PageGood
<1>5. ASSUME NEW m \in Defs, NEW subs \in SUBSET Defs, When(subs, m) PROVE IInv' /\ Listens
  BY <1>5, WhenCalls, PageGood
<1>6. CASE RunScript  BY <1>6, ScriptStep
<1>7. CASE CallOwn  BY <1>7, OwnStep
<1>8. CASE Forward  BY <1>8, ForwardStep
<1>9. CASE CallPage  BY <1>9, CallStep
<1>10. CASE PageReturns  BY <1>10, ReturnStep
<1>11. CASE EndOfLoop  BY <1>11, EndStep
<1>12. CASE Throw  BY <1>12, ThrowStep
<1>13. CASE UNCHANGED vars
  <2>1. /\ cb' = cb /\ calls' = calls /\ state' = state /\ listeners' = listeners
        /\ told' = told /\ ops' = ops
    BY <1>13 DEF vars, history
  <2> QED BY <2>1, KeepsSame DEF IInv, Listens
<1> QED
  BY <1>1, <1>2, <1>3, <1>4, <1>5, <1>6, <1>7, <1>8, <1>9, <1>10, <1>11, <1>12, <1>13 DEF Next

-----------------------------------------------------------------------------
(* The theorems. *)

Heeding == listeners \subseteq Defs \X Kinds \X Numbers

\* Listeners are promises with kinds and numbers.
LEMMA HeedingKept ==
  ASSUME IInv, Heeding, [Next]_vars
  PROVE  Heeding'
<1>1. ops + 1 \in Numbers  BY OpsNumber
<1>2. ASSUME NEW d \in Defs, NEW k \in Kinds, Listen(d, k) PROVE Heeding'
  BY <1>1, <1>2 DEF Heeding, Listen
<1>3. ASSUME NEW d \in Defs, Always(d) PROVE Heeding'
  BY <1>1, <1>3 DEF Heeding, Always, Kinds
<1>4. ASSUME listeners' = listeners PROVE Heeding'
  BY <1>4 DEF Heeding
<1> QED
  BY <1>2, <1>3, <1>4 DEF Next, vars, history, Signal, Then, When, RunScript, CallOwn, Forward,
     CallPage, PageReturns, EndOfLoop, Throw

\* The first states are first states of Promises.
LEMMA StartsAsPromises == Init => Promise!Init
<1> SUFFICES ASSUME Init PROVE Promise!Init  OBVIOUS
<1>1. state = [d \in Defs |-> "pending"] /\ listeners = {} /\ told = <<>>  BY DEF Init
<1> QED BY <1>1 DEF Promise!Init, NoValue

\* What a step does to promises, Promises allows.
LEMMA StepsAsPromises ==
  ASSUME IInv, Heeding, Listens \/ Settles \/ Hearing
  PROVE  [Promise!Next]_(Promise!vars)
<1> DEFINE V == [d \in Defs |->
                    IF state[d] = "resolved" THEN cb[<<d, "done">>].memory
                    ELSE IF state[d] = "rejected" THEN cb[<<d, "fail">>].memory ELSE NoValue]
           W == {l \in listeners : l[2] # "progress" /\ ~WasTold(l)}
<1>1. V = [d \in Defs |-> Worth(cb, state, d)] /\ V' = [d \in Defs |-> Worth(cb', state', d)]
  BY DEF Worth
<1>2. W = {l \in listeners : l[2] # "progress" /\ ~Told(told, l)}
  BY DEF WasTold, Told
<1>3. W' = {l \in listeners' : l[2] # "progress" /\ ~Told(told', l)}
  BY DEF WasTold, Told
<1>4. told \in Seq(Tellings) /\ state \in [Defs -> {"pending", "resolved", "rejected"}]
  BY DEF IInv, Good, Staged
<1>5. CASE Listens
  <2>1. V' = V  BY <1>1, <1>5 DEF Listens, Keeps
  <2>2. W \subseteq W'  BY <1>2, <1>3, <1>5 DEF Listens
  <2>3. state' = state /\ told' = told  BY <1>5 DEF Listens
  <2>4. Promise!Listen  BY <2>1, <2>2, <2>3 DEF Promise!Listen
  <2> QED BY <2>4 DEF Promise!Next
<1>6. CASE Settles
  <2>1. PICK d \in Defs, k \in Ends :
           /\ state[d] = "pending" /\ Assigned(state, state', d, Outcome(k))
           /\ Worth(cb', state', d) \in Numbers
           /\ \A e \in Defs \ {d} : Worth(cb', state', e) = Worth(cb, state, e)
           /\ told' = told /\ listeners' = listeners
    BY <1>6 DEF Settles
  <2>2. V'[d] # 0 /\ V' = [V EXCEPT ![d] = V'[d]]
    <3>1. PICK v, v2 : v = V /\ v2 = V'  OBVIOUS
    <3>2. /\ v = [e \in Defs |-> Worth(cb, state, e)]
          /\ v2 = [e \in Defs |-> Worth(cb', state', e)]
      BY <1>1, <3>1
    <3>3. v2[d] # 0 /\ v2 = [v EXCEPT ![d] = v2[d]]
      <4>1. v2[d] \in Numbers /\ \A e \in Defs \ {d} : v2[e] = v[e]  BY <2>1, <3>2
      <4>2. \A e \in Defs : v2[e] = [v EXCEPT ![d] = v2[d]][e]  BY <3>2, <4>1
      <4>3. v2[d] # 0  BY <4>1 DEF Numbers
      <4> QED BY ONLY <3>2, <4>2, <4>3
    <3> QED BY <3>1, <3>3
  <2>3. W' = W  BY <1>2, <1>3, <2>1
  <2>4. k \in {"done", "fail"} /\ state' = [state EXCEPT ![d] = Promise!Outcome(k)]
    BY <2>1 DEF Assigned, Ends, Outcome, Promise!Outcome
  <2>5. state[d] = "pending" /\ told' = told  BY <2>1
  <2>6. Promise!Settle(d)  BY <2>2, <2>3, <2>4, <2>5 DEF Promise!Settle
  <2> QED BY <2>6 DEF Promise!Next
<1>7. CASE Hearing
  <2>1. PICK d \in Defs, k \in Ends, n \in Numbers :
           /\ told' = Append(told, <<d, k, n, Worth(cb, state, d)>>)
           /\ Worth(cb, state, d) \in Numbers
           /\ state[d] = Outcome(k) /\ <<d, k, n>> \in listeners /\ ~Told(told, <<d, k, n>>)
    BY <1>7 DEF Hearing, ToldOf
  <2>2. state' = state /\ listeners' = listeners /\ V' = V
    BY <1>1, <1>7 DEF Hearing, Keeps
  <2>3. PICK m : m = <<d, k, n>>  OBVIOUS
  <2>4. PICK v \in Numbers : v = Worth(cb, state, d)  BY <2>1
  <2>5. /\ m[1] = d /\ m[2] = k /\ m[3] = n /\ m \in listeners /\ k # "progress"
        /\ m[2] \in {"done", "fail"} /\ ~Told(told, m)
    BY <2>1, <2>3 DEF Ends
  <2>6. m \in W  BY <1>2, <2>5
  <2>7. \A x, y, z : Told(told', <<x, y, z>>) <=>
           Told(told, <<x, y, z>>) \/ (x = d /\ y = k /\ z = n)
    <3>0. told \in Seq(Tellings)  BY <1>4
    <3>1. PICK td2 : td2 = told'  OBVIOUS
    <3>2. Hears(told, td2, d, k, n, v)  BY <2>1, <2>4, <3>1 DEF Hears
    <3>3. /\ td2 \in Seq(Tellings)
          /\ \A x, y, z : Told(td2, <<x, y, z>>) <=>
                Told(told, <<x, y, z>>) \/ (x = d /\ y = k /\ z = n)
      BY ONLY <3>0, d \in Defs, k \in Ends, n \in Numbers, v \in Numbers, <3>2, ToldOnce
    <3> QED BY ONLY <3>1, <3>3
  <2>8. W' = W \ {m}
    <3>1. \A l \in listeners : l = <<l[1], l[2], l[3]>>  BY DEF Heeding
    <3>2. \A l \in listeners : Told(told', l) <=> Told(told, l) \/ l = m
      <4>1. ASSUME NEW l \in listeners PROVE Told(told', l) <=> Told(told, l) \/ l = m
        <5>1. l = <<l[1], l[2], l[3]>>  BY <3>1
        <5>2. Told(told', l) <=> Told(told, l) \/ (l[1] = d /\ l[2] = k /\ l[3] = n)
          BY <2>7, <5>1
        <5>3. l = m <=> l[1] = d /\ l[2] = k /\ l[3] = n  BY <2>3, <5>1
        <5> QED BY <5>2, <5>3
      <4> QED BY <4>1
    <3>3. W' = {l \in listeners : l[2] # "progress" /\ ~Told(told', l)}  BY <1>3, <2>2
    <3> HIDE DEF W
    <3> QED BY ONLY <1>2, <3>2, <3>3
  <2>9. state[m[1]] = Promise!Outcome(m[2])
    BY <2>1, <2>5 DEF Outcome, Promise!Outcome
  <2>10. told' = Append(told, <<m[1], m[2], m[3], V[m[1]]>>)  BY <1>1, <2>1, <2>5
  <2>11. Promise!Tell(m)  BY <2>2, <2>6, <2>8, <2>9, <2>10 DEF Promise!Tell
  <2> QED BY <2>6, <2>11 DEF Promise!Next
<1> QED BY <1>5, <1>6, <1>7

\* What a deferred object, its lists and the call stack look like in every state.
THEOREM DeferredsInvariant == RootsAssumption => (Spec => [](IInv /\ Heeding))
<1> SUFFICES ASSUME RootsAssumption PROVE Spec => [](IInv /\ Heeding)
  OBVIOUS
<1>1. Init => IInv /\ Heeding
  BY InitGood DEF Init, Heeding
<1>2. IInv /\ Heeding /\ [Next]_vars => (IInv /\ Heeding)'
  BY InvariantKept, HeedingKept
<1> QED
  BY <1>1, <1>2, PTL DEF Spec

\* jQuery's deferred objects keep the promise of their interface: they are settled
\* once, with one value, and call each of the functions given to done(), fail() and
\* always() at most once, with the outcome it is for and that value, whatever the
\* functions call, return or throw.
THEOREM PromisesAreKept == RootsAssumption => (Spec => KeepsPromise)
<1> SUFFICES ASSUME RootsAssumption PROVE Spec => KeepsPromise
  OBVIOUS
<1>1. Init => Promise!Init
  BY StartsAsPromises
<1>2. IInv /\ Heeding /\ [Next]_vars => [Promise!Next]_(Promise!vars)
  BY InvariantKept, StepsAsPromises
<1>3. Spec => [](IInv /\ Heeding)
  BY DeferredsInvariant
<1> QED
  BY <1>1, <1>2, <1>3, PTL DEF Spec, KeepsPromise, Promise!Spec

-----------------------------------------------------------------------------
(* Everyone is told: what a listener still has to come.                    *)

\* Function n, which is to hear of the outcome k of d, has been told; or it is on
\* the list and the loop is not past it; or it is still to be added; or the list
\* is off, and the outcome is another one.
Awaits(c, s, td, d, k, n) ==
    \/ ~c[<<d, k>>].on
    \/ Told(td, <<d, k, n>>)
    \/ \E i, j \in Nat : Scripted(s, d, k, n, i, j)
    \/ \E p \in Nat : OnList(c, d, k, n, p) /\ ~Past(c, s, d, k, p)
Await(c, s, td, ls) ==
    \A d \in Defs, k \in Ends, n \in Numbers : <<d, k, n>> \in ls => Awaits(c, s, td, d, k, n)

\* A function has thrown, and the list is left `firing' although no loop goes on.
Stuck(c, s, l) == c[l].firing /\ \A i \in DOMAIN s : s[i].at # "script" => s[i].list # l
Lost(c, s) == \E l \in Lists : Stuck(c, s, l)

\* No loop is further than the end of its list.
Tame(c) == \A l \in Lists : c[l].firing => c[l].index <= c[l].length

\* What is added to the inductive invariant for the listeners that have to be told.
Telling(c, s, td, ls) == Tame(c) /\ (Lost(c, s) \/ Await(c, s, td, ls))

\* A step leaves nobody behind.
Onward(c, s, td, c2, s2, td2) ==
    /\ Tame(c2)
    /\ Lost(c, s) => Lost(c2, s2)
    /\ \A d \in Defs, k \in Ends, n \in Numbers :
          Awaits(c, s, td, d, k, n) => Awaits(c2, s2, td2, d, k, n)

\* Nor do two.
LEMMA OnwardTwice ==
  ASSUME NEW c, NEW s, NEW td, NEW c1, NEW s1, NEW td1, NEW c2, NEW s2, NEW td2,
         Onward(c, s, td, c1, s1, td1), Onward(c1, s1, td1, c2, s2, td2)
  PROVE  Onward(c, s, td, c2, s2, td2)
BY DEF Onward

LEMMA OnwardTells ==
  ASSUME NEW c, NEW s, NEW td, NEW c2, NEW s2, NEW td2, NEW ls,
         Telling(c, s, td, ls), Onward(c, s, td, c2, s2, td2)
  PROVE  Telling(c2, s2, td2, ls)
BY DEF Telling, Onward, Await

\* The loops are where they were, and lists that stay on keep their functions.
SameLoops(c, c2) ==
    \A l \in Lists :
       /\ c2[l].firing = c[l].firing /\ c2[l].index = c[l].index
       /\ ~c[l].on => ~c2[l].on
       /\ l[2] \in Ends /\ c2[l].on =>
             \A i \in DOMAIN c[l].list : i \in DOMAIN c2[l].list /\ c2[l].list[i] = c[l].list[i]

LEMMA SameOnward ==
  ASSUME NEW c, NEW c2, NEW s, NEW td, SameLoops(c, c2), Tame(c2)
  PROVE  Onward(c, s, td, c2, s, td)
<1>1. Lost(c, s) => Lost(c2, s)  BY DEF SameLoops, Lost, Stuck
<1>2. ASSUME NEW d \in Defs, NEW k \in Ends, NEW n \in Numbers, Awaits(c, s, td, d, k, n)
      PROVE  Awaits(c2, s, td, d, k, n)
  <2>1. <<d, k>> \in Lists /\ <<d, k>>[2] = k  BY OfLists
  <2>2. \A p \in Nat : Past(c2, s, d, k, p) => Past(c, s, d, k, p)
    BY <2>1 DEF SameLoops, Past
  <2>3. c2[<<d, k>>].on => \A p \in Nat : OnList(c, d, k, n, p) => OnList(c2, d, k, n, p)
    BY <2>1 DEF SameLoops, OnList
  <2>4. ~c[<<d, k>>].on => ~c2[<<d, k>>].on  BY <2>1 DEF SameLoops
  <2> QED BY <1>2, <2>2, <2>3, <2>4 DEF Awaits
<1> QED BY <1>1, <1>2 DEF Onward

\* If only list l changes, that is seen on l.
LEMMA SameButOne ==
  ASSUME NEW c, NEW c2, NEW l \in Lists, But(c, c2, l), Tame(c),
         c2[l].firing = c[l].firing, c2[l].index = c[l].index, ~c[l].on => ~c2[l].on,
         l[2] \in Ends /\ c2[l].on =>
            \A i \in DOMAIN c[l].list : i \in DOMAIN c2[l].list /\ c2[l].list[i] = c[l].list[i],
         c2[l].firing => c2[l].index <= c2[l].length
  PROVE  SameLoops(c, c2) /\ Tame(c2)
<1>1. \A m \in Lists : m = l \/ c2[m] = c[m]  BY DEF But
<1>2. SameLoops(c, c2)  BY <1>1 DEF SameLoops
<1>3. Tame(c2)  BY <1>1 DEF Tame
<1> QED BY <1>2, <1>3

\* A loop begins over a list; nothing that it does not reach was to be called.
Starts(c, c2, l) ==
    /\ But(c, c2, l) /\ ~c[l].firing /\ c2[l].firing /\ c2[l].on = c[l].on
    /\ c2[l].index <= c2[l].length
    /\ l[2] \in Ends => \A i \in DOMAIN c[l].list :
          i \in DOMAIN c2[l].list /\ c2[l].list[i] = c[l].list[i] /\ ~(i <= c2[l].index)
LEMMA StartOnward ==
  ASSUME NEW c, NEW s \in Seq(Frames), NEW td, NEW l \in Lists, NEW c2, Tame(c), Starts(c, c2, l)
  PROVE  Onward(c, s, td, c2, Append(s, Frame(l)), td)
<1>1. PICK s2 : s2 = Append(s, Frame(l))  OBVIOUS
<1>2. /\ s2[Len(s) + 1].at = "next" /\ s2[Len(s) + 1].list = l /\ Len(s) + 1 \in DOMAIN s2
      /\ \A i \in DOMAIN s : i \in DOMAIN s2 /\ s2[i] = s[i]
      /\ \A i \in DOMAIN s2 : i \in DOMAIN s \/ i = Len(s) + 1
      /\ DOMAIN s \subseteq Nat
  <2>1. /\ s2 \in Seq(Frames) /\ Len(s2) = Len(s) + 1
        /\ s2[Len(s) + 1].at = "next" /\ s2[Len(s) + 1].list = l
        /\ \A i \in DOMAIN s : i \in DOMAIN s2 /\ s2[i] = s[i]
        /\ \A i \in DOMAIN s2 : i \in DOMAIN s \/ i = Len(s) + 1
    BY <1>1, FramePushed
  <2>2. /\ Len(s) \in Nat /\ DOMAIN s = 1 .. Len(s) /\ DOMAIN s2 = 1 .. Len(s2)
    BY <2>1, StackTypes
  <2>3. Len(s) + 1 \in DOMAIN s2 /\ DOMAIN s \subseteq Nat  BY ONLY <2>1, <2>2
  <2> QED BY ONLY <2>1, <2>3
<1>3. \A m \in Lists : m # l => c2[m] = c[m]  BY DEF Starts, But
<1>4. Tame(c2)
  <2>1. ASSUME NEW m \in Lists, c2[m].firing PROVE c2[m].index <= c2[m].length
    BY <1>3, <2>1 DEF Starts, Tame
  <2> QED BY <2>1 DEF Tame
<1>5. ASSUME NEW m \in Lists, Stuck(c, s, m) PROVE Stuck(c2, s2, m)
  <2>1. m # l /\ c2[m] = c[m]  BY <1>3, <1>5 DEF Starts, Stuck
  <2> QED BY <1>2, <1>5, <2>1 DEF Stuck
<1>6. ASSUME NEW d \in Defs, NEW k \in Ends, NEW n \in Numbers, Awaits(c, s, td, d, k, n)
      PROVE  Awaits(c2, s2, td, d, k, n)
  <2>1. \A i, j \in Nat : Scripted(s, d, k, n, i, j) => Scripted(s2, d, k, n, i, j)
    BY <1>2 DEF Scripted
  <2>2. <<d, k>> \in Lists /\ <<d, k>>[2] = k  BY OfLists
  <2>3. CASE <<d, k>> # l
    <3>1. c2[<<d, k>>] = c[<<d, k>>]  BY <1>3, <2>2, <2>3
    <3>2. \A p \in Nat : Past(c2, s2, d, k, p) => Past(c, s, d, k, p)
      BY <1>2, <3>1 DEF Past
    <3> QED BY <1>6, <2>1, <3>1, <3>2 DEF Awaits, OnList
  <2>4. CASE <<d, k>> = l
    <3>1. \A p \in Nat : OnList(c, d, k, n, p) =>
             OnList(c2, d, k, n, p) /\ ~(p <= c2[<<d, k>>].index)
      BY <2>2, <2>4 DEF Starts, OnList
    <3>2. \A p \in Nat : Past(c2, s2, d, k, p) => p <= c2[<<d, k>>].index
      BY <1>2, <2>4 DEF Past
    <3>3. c2[<<d, k>>].on = c[<<d, k>>].on  BY <2>4 DEF Starts
    <3> QED BY <1>6, <2>1, <3>1, <3>2, <3>3 DEF Awaits
  <2> QED BY <2>3, <2>4
<1> QED BY <1>1, <1>4, <1>5, <1>6 DEF Onward, Lost

\* What fire() sets up.
LEMMA FireLoops ==
  ASSUME NEW r \in Records, NEW l, NEW v \in Nat, NEW start \in Nat
  PROVE  \E q \in Records : /\ q = Fire(r, Flags(l), v, start)
                            /\ q.list = r.list /\ q.on = r.on /\ q.firing
                            /\ q.index = start /\ q.length = Len(r.list)
                            /\ q.memory = v /\ q.value = v /\ q.fired /\ q.repeat = r.repeat
<1> DEFINE q == Fire(r, Flags(l), v, start)
<1>1. /\ q \in Records /\ q.list = r.list /\ q.on = r.on /\ q.firing
      /\ q.index = start /\ q.length = Len(r.list)
      /\ q.memory = v /\ q.value = v /\ q.fired /\ q.repeat = r.repeat
  BY FireFacts
<1>2. q = Fire(r, Flags(l), v, start)  OBVIOUS
<1> HIDE DEF q
<1> QED BY ONLY <1>1, <1>2

\* add() of a list that is not fired for it.
LEMMA GrownOnward ==
  ASSUME NEW c, NEW s, NEW st, NEW ls, NEW td, NEW n0, NEW l \in Lists, NEW f \in Added, NEW c2,
         Good(c, s, st, ls, td, n0), Tame(c), c[l].on, ~CatchesUp(c[l]), Adds(c, s, l, f, c2, s)
  PROVE  /\ Onward(c, s, td, c2, s, td)
         /\ \A k \in Ends, n \in Numbers :
               l[2] = k /\ f = <<"page", n>> => Lost(c, s) \/ Awaits(c2, s, td, l[1], k, n)
<1>1. PICK r \in Records : r = c[l]  BY DEF Good, Right
<1>2. PICK q \in Records : q = Pushed(r, Flags(l), f)  BY PushedFacts
<1>3. c2 = [c EXCEPT ![l] = q]  BY <1>1, <1>2 DEF Adds
<1>4. c2[l] = q /\ But(c, c2, l) /\ ListRight(r, l)
  <2>1. c \in [Lists -> Records] /\ ListRight(r, l)  BY <1>1 DEF Good, Right
  <2> QED BY ONLY <1>3, <2>1, q \in Records, l \in Lists, ButOne
<1>5. /\ Len(q.list) = Len(r.list) + 1 /\ q.list[Len(r.list) + 1] = f
      /\ \A i \in DOMAIN r.list : i \in DOMAIN q.list /\ q.list[i] = r.list[i]
      /\ DOMAIN q.list = 1 .. Len(r.list) + 1 /\ DOMAIN r.list = 1 .. Len(r.list)
      /\ q.on = r.on /\ q.firing = r.firing /\ q.index = r.index
      /\ r.firing => q.length = Len(q.list)
  BY <1>2, PushedFacts
<1>6. r.on /\ r.index \in Nat /\ Len(r.list) \in Nat  BY <1>1, RecordTypes
<1>7. r.firing => r.index <= Len(r.list)
  <2>1. r.firing => r.length = Len(r.list)  BY <1>4, <1>6 DEF ListRight
  <2> QED BY <1>1, <2>1 DEF Tame
<1>8. q.firing => q.index <= q.length  BY ONLY <1>5, <1>6, <1>7
<1>9. SameLoops(c, c2) /\ Tame(c2)
  BY ONLY l \in Lists, Tame(c), <1>1, <1>4, <1>5, <1>6, <1>8, SameButOne
<1>10. Onward(c, s, td, c2, s, td)  BY ONLY <1>9, SameOnward
\* The loop is not past the place of what is new.
<1>11. ASSUME NEW k \in Ends, NEW n \in Numbers, l[2] = k, f = <<"page", n>>, ~Lost(c, s)
       PROVE  Awaits(c2, s, td, l[1], k, n)
  <2>1. PICK d \in Defs : d = l[1] /\ l = <<d, k>>  BY <1>11, OfLists
  <2>2. PICK p \in Nat : p = Len(r.list) + 1  BY <1>6
  <2>3. OnList(c2, d, k, n, p)
    <3>1. p \in DOMAIN q.list /\ q.list[p] = f  BY ONLY <1>5, <1>6, <2>2
    <3> QED BY <1>4, <1>11, <2>1, <3>1 DEF OnList
  <2>4. ~Past(c2, s, d, k, p)
    <3>1. CASE ~r.firing
      BY <1>4, <1>5, <2>1, <3>1 DEF Past
    <3>2. CASE r.firing
      <4>1. PICK i \in DOMAIN s : s[i].at # "script" /\ s[i].list = l
        BY <1>1, <1>11, <3>2 DEF Lost, Stuck
      <4>2. s[i].at \in {"next", "call"}
        <5>1. s[i] \in Frames  BY StackTypes DEF Good, Stacked
        <5> QED BY <4>1, <5>1, FrameTypes
      <4>3. FrameRight(c, s[i])  BY DEF Good, Stacked
      <4>4. s[i].at = "call" => r.index < Len(r.list)  BY <1>1, <4>1, <4>3 DEF FrameRight
      <4>5. s[i].at = "call" => ~(p <= q.index + 1)  BY ONLY <1>5, <1>6, <2>2, <4>4
      <4>6. ~(p <= q.index)  BY ONLY <1>5, <1>6, <1>7, <2>2, <3>2
      <4> QED BY <1>4, <2>1, <4>1, <4>2, <4>5, <4>6 DEF Past
    <3> QED BY <3>1, <3>2
  <2> QED BY <2>1, <2>3, <2>4 DEF Awaits
<1> QED BY <1>10, <1>11

\* add() of a list that has been fired.
LEMMA CaughtUpOnward ==
  ASSUME NEW c, NEW s, NEW st, NEW ls, NEW td, NEW n0, NEW l \in Lists, NEW f \in Added,
         NEW c2, NEW s2,
         Good(c, s, st, ls, td, n0), Calm(c, st), Tame(c), CatchesUp(c[l]), Adds(c, s, l, f, c2, s2)
  PROVE  /\ Onward(c, s, td, c2, s2, td)
         /\ \A k \in Ends, n \in Numbers :
               l[2] = k /\ f = <<"page", n>> => Awaits(c2, s2, td, l[1], k, n)
<1>1. PICK r \in Records : r = c[l]  BY DEF Good, Right
<1>2. r.on /\ ~r.firing /\ r.memory \in Nat /\ r.memory # 0 /\ Len(r.list) \in Nat
  BY <1>1, RecordTypes DEF CatchesUp, NoValue
<1>3. PICK p \in Records : p = Pushed(r, Flags(l), f)  BY PushedFacts
<1>4. /\ Len(p.list) = Len(r.list) + 1 /\ p.list[Len(r.list) + 1] = f
      /\ \A i \in DOMAIN r.list : i \in DOMAIN p.list /\ p.list[i] = r.list[i]
      /\ DOMAIN p.list = 1 .. Len(r.list) + 1
      /\ p.on = r.on
  BY <1>3, PushedFacts
<1>a. PICK w \in Nat, z \in Nat : w = r.memory /\ z = Len(r.list)  BY <1>2
<1>b. PICK q \in Records : /\ q = Fire(p, Flags(l), w, z)
                          /\ q.list = p.list /\ q.on = p.on /\ q.firing
                          /\ q.index = z /\ q.length = Len(p.list)
  BY ONLY p \in Records, w \in Nat, z \in Nat, FireLoops
<1>5. q = Fire(p, Flags(l), r.memory, Len(r.list))  BY ONLY <1>a, <1>b
<1>6. /\ q.list = p.list /\ q.on = p.on /\ q.firing
      /\ q.index = Len(r.list) /\ q.length = Len(p.list)
  BY ONLY <1>a, <1>b
<1>7. c2 = [c EXCEPT ![l] = q] /\ s2 = Append(s, Frame(l))
  BY <1>1, <1>2, <1>3, <1>5 DEF Adds
<1>8. c2[l] = q /\ But(c, c2, l)
  <2>1. c \in [Lists -> Records]  BY DEF Good, Right
  <2> QED BY ONLY <1>7, <2>1, q \in Records, l \in Lists, ButOne
<1>9. l[2] \in Ends => r.list = <<>>
  <2>1. ASSUME l[2] \in Ends PROVE r.list = <<>>
    <3>1. PICK d \in Defs, k \in Ends : l = <<d, k>>  BY <2>1, OfLists
    <3>2. Steady(c, st, d) /\ c[<<d, k>>].on  BY <1>1, <1>2, <3>1 DEF Calm
    <3>3. Decided(c, st, d, k)
      <4>1. c[<<d, k>>].memory # 0  BY <1>1, <1>2, <3>1
      <4> QED BY ONLY d \in Defs, k \in Ends, <3>2, <4>1, FiredDecides
    <3> QED BY <1>1, <1>2, <3>1, <3>3 DEF Decided
  <2> QED BY <2>1
<1>10. q.index <= q.length  BY ONLY <1>2, <1>4, <1>6
<1>11. l[2] \in Ends => DOMAIN r.list = {}  BY <1>9, RecordTypes
<1>12. Starts(c, c2, l)
  BY ONLY <1>1, <1>2, <1>4, <1>6, <1>8, <1>10, <1>11 DEF Starts
<1>13. s \in Seq(Frames)  BY DEF Good, Stacked
<1>14. Onward(c, s, td, c2, s2, td)
  BY ONLY l \in Lists, Tame(c), <1>7, <1>12, <1>13, StartOnward
<1>15. ASSUME NEW k \in Ends, NEW n \in Numbers, l[2] = k, f = <<"page", n>>
       PROVE  Awaits(c2, s2, td, l[1], k, n)
  <2>1. PICK d \in Defs : d = l[1] /\ l = <<d, k>>  BY <1>15, OfLists
  <2>2. PICK m \in Nat : m = Len(r.list) + 1  BY <1>2
  <2>3. m \in DOMAIN q.list /\ q.list[m] = f /\ ~(m <= q.index)
    BY ONLY <1>2, <1>4, <1>6, <2>2
  <2>4. OnList(c2, d, k, n, m)  BY <1>8, <1>15, <2>1, <2>3 DEF OnList
  <2>5. ~Past(c2, s2, d, k, m)
    <3>1. PICK t : t = Append(s, Frame(l))  OBVIOUS
    <3>2. /\ t \in Seq(Frames) /\ Len(t) = Len(s) + 1 /\ t # <<>>
          /\ t[Len(s) + 1].at = "next" /\ t[Len(s) + 1].list = l
      BY <1>13, <3>1, FramePushed
    <3>3. Len(t) \in DOMAIN t  BY <3>2, StackTypes
    <3> QED BY <1>7, <1>8, <2>1, <2>3, <3>1, <3>2, <3>3 DEF Past
  <2> QED BY <2>1, <2>4, <2>5 DEF Awaits
<1> QED BY <1>14, <1>15

\* add().
LEMMA AddOnward ==
  ASSUME NEW c, NEW s, NEW st, NEW ls, NEW td, NEW n0, NEW l \in Lists, NEW f \in Added,
         NEW c2, NEW s2,
         Good(c, s, st, ls, td, n0), Calm(c, st), Tame(c), Adds(c, s, l, f, c2, s2)
  PROVE  /\ Onward(c, s, td, c2, s2, td)
         /\ \A k \in Ends, n \in Numbers :
               l[2] = k /\ f = <<"page", n>> => Lost(c, s) \/ Awaits(c2, s2, td, l[1], k, n)
<1>1. CASE ~c[l].on
  <2>1. c2 = c /\ s2 = s  BY <1>1 DEF Adds
  <2>2. Onward(c, s, td, c2, s2, td)  BY <2>1 DEF Onward
  <2>3. \A k \in Ends : l[2] = k => c2[<<l[1], k>>] = c2[l]  BY OfLists
  <2> QED BY <1>1, <2>1, <2>2, <2>3 DEF Awaits
<1>2. CASE c[l].on /\ CatchesUp(c[l])
  BY <1>2, CaughtUpOnward
<1>3. CASE c[l].on /\ ~CatchesUp(c[l])
  <2>1. s2 = s  BY <1>3 DEF Adds
  <2>2. Adds(c, s, l, f, c2, s)  BY <2>1
  <2>3. /\ Onward(c, s, td, c2, s, td)
        /\ \A k \in Ends, n \in Numbers :
              l[2] = k /\ f = <<"page", n>> => Lost(c, s) \/ Awaits(c2, s, td, l[1], k, n)
    BY ONLY l \in Lists, f \in Added, Good(c, s, st, ls, td, n0), Tame(c), <1>3, <2>2, GrownOnward
  <2> QED BY <2>1, <2>3
<1> QED BY <1>1, <1>2, <1>3

\* fireWith().
LEMMA FireOnward ==
  ASSUME NEW c, NEW s, NEW st, NEW ls, NEW td, NEW n0, NEW l \in Lists, NEW v \in Numbers,
         NEW c2, NEW s2,
         Good(c, s, st, ls, td, n0), Tame(c), Fires(c, s, l, v, c2, s2)
  PROVE  Onward(c, s, td, c2, s2, td)
<1>0. PICK r \in Records : r = c[l]  BY DEF Good, Right
<1>a. c \in [Lists -> Records] /\ s \in Seq(Frames)  BY DEF Good, Right, Stacked
<1>b. /\ Len(r.list) \in Nat /\ DOMAIN r.list = 1 .. Len(r.list) /\ r.stack \in Seq(Numbers)
  BY RecordTypes
<1>1. CASE ~CanFire(r)
  <2>1. c2 = c /\ s2 = s  BY <1>0, <1>1 DEF Fires
  <2> QED BY <2>1 DEF Onward
<1>2. CASE CanFire(r) /\ r.firing
  <2>1. PICK q \in Records : q = [r EXCEPT !.stack = Append(r.stack, v)]
    <3>1. Append(r.stack, v) \in Seq(Numbers)  BY <1>b, AppendProperties
    <3> QED BY <3>1 DEF Records
  <2>2. q.list = r.list /\ q.on = r.on /\ q.firing = r.firing /\ q.index = r.index
        /\ q.length = r.length
    BY <2>1 DEF Records
  <2>3. c2 = [c EXCEPT ![l] = q] /\ s2 = s  BY <1>0, <1>2, <2>1 DEF Fires
  <2>4. c2[l] = q /\ But(c, c2, l)  BY ONLY <1>a, <2>3, q \in Records, l \in Lists, ButOne
  <2>5. q.firing => q.index <= q.length  BY <1>0, <2>2 DEF Tame
  <2>6. SameLoops(c, c2) /\ Tame(c2)
    BY ONLY l \in Lists, Tame(c), <1>0, <2>2, <2>4, <2>5, SameButOne
  <2> QED BY ONLY <2>3, <2>6, SameOnward
<1>3. CASE CanFire(r) /\ ~r.firing
  <2>1. v \in Nat  BY DEF Numbers
  <2>a. PICK z \in Nat : z = 0  OBVIOUS
  <2>b. PICK q \in Records : /\ q = Fire(r, Flags(l), v, z)
                            /\ q.list = r.list /\ q.on = r.on /\ q.firing
                            /\ q.index = z /\ q.length = Len(r.list)
    BY ONLY r \in Records, z \in Nat, <2>1, FireLoops
  <2>2. q = Fire(r, Flags(l), v, 0)  BY ONLY <2>a, <2>b
  <2>3. q.list = r.list /\ q.on = r.on /\ q.firing /\ q.index = 0 /\ q.length = Len(r.list)
    BY ONLY <2>a, <2>b
  <2>4. c2 = [c EXCEPT ![l] = q] /\ s2 = Append(s, Frame(l))  BY <1>0, <1>3, <2>2 DEF Fires
  <2>5. c2[l] = q /\ But(c, c2, l)  BY ONLY <1>a, <2>4, q \in Records, l \in Lists, ButOne
  <2>6. q.index <= q.length /\ \A i \in DOMAIN r.list : ~(i <= q.index)  BY ONLY <1>b, <2>3
  <2>7. Starts(c, c2, l)  BY ONLY <1>0, <1>3, <2>3, <2>5, <2>6 DEF Starts
  <2> QED BY ONLY l \in Lists, Tame(c), <1>a, <2>4, <2>7, StartOnward
<1> QED BY <1>1, <1>2, <1>3

\* A function of a list has returned: it was not one of the page's that are to
\* hear of the outcome, or it was called.
LEMMA PassOnward ==
  ASSUME NEW c, NEW s, NEW st, NEW ls, NEW td, NEW n0, NEW l, NEW c2, NEW s2,
         Good(c, s, st, ls, td, n0), Tame(c), AtList(s, l), Resumed(s, s2), Stepped(c, c2, l),
         c[l].index < Len(c[l].list),
         s[Len(s)].at = "call" \/ c[l].list[c[l].index + 1][1] # "page"
  PROVE  Onward(c, s, td, c2, s2, td)
<1>1. /\ l \in Lists /\ c \in [Lists -> Records] /\ c[l].on /\ c[l].firing
      /\ c[l].length = Len(c[l].list) /\ Len(s) \in DOMAIN s
      /\ \A i \in DOMAIN s : i # Len(s) /\ s[i].at # "script" => s[i].list # l
  BY Loops DEF Good, Right
<1>2. PICK r \in Records : r = c[l]  BY <1>1
<1>3. PICK q \in Records : q = c2[l]  BY <1>1, SteppedFacts
<1>4. /\ But(c, c2, l) /\ q.index = r.index + 1 /\ q.list = r.list /\ q.on = r.on
      /\ q.firing = r.firing /\ q.length = r.length
  BY <1>1, <1>2, <1>3, SteppedFacts
<1>5. /\ r.index \in Nat /\ Len(r.list) \in Nat /\ DOMAIN r.list = 1 .. Len(r.list)
      /\ r.index < Len(r.list) /\ r.length = Len(r.list)
  BY <1>1, <1>2, RecordTypes
<1>6. \A m \in Lists : m # l => c2[m] = c[m]  BY <1>4 DEF But
<1>7. /\ s \in Seq(Frames) /\ s2 \in Seq(Frames) /\ DOMAIN s2 = DOMAIN s
      /\ \A i \in DOMAIN s : i # Len(s) => s2[i] = s[i]
      /\ s2[Len(s)].at = "next" /\ s2[Len(s)].list = l
      /\ s[Len(s)].at # "script" /\ s[Len(s)].list = l
  <2>1. s \in Seq(Frames) /\ s2 \in Seq(Frames) /\ Len(s2) = Len(s)
    BY DEF Good, Stacked, Resumed
  <2>2. DOMAIN s2 = DOMAIN s
    <3>1. DOMAIN s = 1 .. Len(s) /\ DOMAIN s2 = 1 .. Len(s2)  BY <2>1, StackTypes
    <3> QED BY <2>1, <3>1
  <2> QED BY <2>1, <2>2 DEF Resumed, AtList
<1>8. Tame(c2)
  <2>1. q.index <= q.length  BY ONLY <1>4, <1>5
  <2>2. ASSUME NEW m \in Lists, c2[m].firing PROVE c2[m].index <= c2[m].length
    BY <1>3, <1>6, <2>1, <2>2 DEF Tame
  <2> QED BY <2>2 DEF Tame
<1>9. ASSUME NEW m \in Lists, Stuck(c, s, m) PROVE Stuck(c2, s2, m)
  <2>1. m # l  BY <1>1, <1>7, <1>9 DEF Stuck
  <2>2. \A i \in DOMAIN s2 : s2[i].at # "script" => s2[i].list # m
    BY <1>7, <1>9, <2>1 DEF Stuck
  <2> QED BY <1>6, <1>9, <2>1, <2>2 DEF Stuck
<1>10. ASSUME NEW d \in Defs, NEW k \in Ends, NEW n \in Numbers, Awaits(c, s, td, d, k, n)
       PROVE  Awaits(c2, s2, td, d, k, n)
  <2>1. \A i, j \in Nat : Scripted(s, d, k, n, i, j) => Scripted(s2, d, k, n, i, j)
    BY <1>7 DEF Scripted
  <2>2. <<d, k>> \in Lists  BY OfLists
  <2>3. CASE <<d, k>> # l
    <3>1. c2[<<d, k>>] = c[<<d, k>>]  BY <1>6, <2>2, <2>3
    <3>2. \A p \in Nat : Past(c2, s2, d, k, p) => Past(c, s, d, k, p)
      BY <1>7, <2>3, <3>1 DEF Past
    <3> QED BY <1>10, <2>1, <3>1, <3>2 DEF Awaits, OnList
  <2>4. CASE <<d, k>> = l
    <3>1. ASSUME NEW p \in Nat, OnList(c, d, k, n, p), ~Past(c, s, d, k, p)
          PROVE  OnList(c2, d, k, n, p) /\ ~Past(c2, s2, d, k, p)
      <4>1. OnList(c2, d, k, n, p)  BY <1>2, <1>3, <1>4, <2>4, <3>1 DEF OnList
      <4>2. ~(p <= r.index)  BY <1>1, <1>2, <1>5, <2>4, <3>1 DEF Past
      <4>3. p # r.index + 1
        <5>1. CASE s[Len(s)].at = "call"
          <6>1. \A i \in DOMAIN s : s[i].at = "next" => s[i].list # l  BY <1>1, <5>1
          <6>2. ~(p <= r.index + 1)  BY <1>1, <1>2, <2>4, <3>1, <6>1 DEF Past
          <6> QED BY <1>5, <6>2
        <5>2. CASE c[l].list[c[l].index + 1][1] # "page"
          BY <1>2, <2>4, <3>1, <5>2 DEF OnList
        <5> QED BY <5>1, <5>2
      <4>4. ~(p <= q.index)  BY ONLY p \in Nat, <1>4, <1>5, <4>2, <4>3
      <4>5. ~Past(c2, s2, d, k, p)  BY <1>1, <1>3, <1>7, <2>4, <4>4 DEF Past
      <4> QED BY <4>1, <4>5
    <3>2. c2[<<d, k>>].on  BY <1>1, <1>2, <1>3, <1>4, <2>4
    <3>3. c[<<d, k>>].on  BY <1>1, <2>4
    <3> QED BY <1>10, <2>1, <3>1, <3>2, <3>3 DEF Awaits
  <2> QED BY <2>3, <2>4
<1> QED BY <1>8, <1>9, <1>10 DEF Onward, Lost

\* A list is disabled, or the one of the news is locked.
LEMMA FadeOnward ==
  ASSUME NEW c \in [Lists -> Records], NEW s, NEW td, NEW l \in Lists, NEW r \in Records, NEW c2,
         Tame(c), Assigned(c, c2, l, r), r.firing = c[l].firing, r.index = c[l].index,
         r.length = c[l].length, ~r.on \/ (l[2] \notin Ends /\ r.on = c[l].on)
  PROVE  Onward(c, s, td, c2, s, td)
<1>1. But(c, c2, l) /\ c2[l] = r  BY ButOne DEF Assigned
<1>2. r.firing => r.index <= r.length  BY DEF Tame
<1>3. ~c[l].on => ~r.on  OBVIOUS
<1>4. l[2] \in Ends /\ r.on => \A i \in DOMAIN c[l].list : i \in DOMAIN r.list /\ r.list[i] = c[l].list[i]
  OBVIOUS
<1>5. SameLoops(c, c2) /\ Tame(c2)
  BY ONLY l \in Lists, Tame(c), <1>1, <1>2, <1>3, <1>4, r.firing = c[l].firing,
     r.index = c[l].index, SameButOne
<1> QED BY ONLY <1>5, SameOnward

\* A function of the page is called: the listener it is has been told.
LEMMA CallOnward ==
  ASSUME NEW c, NEW s, NEW st, NEW ls, NEW td \in Seq(Tellings), NEW n0, NEW l, NEW g, NEW s2, NEW td2,
         Good(c, s, st, ls, td, n0), Tame(c), AtFunction(c, s, l, g), g \in Added \cup Own,
         Called(s, s2), Tells(c, td, td2, l, g)
  PROVE  Onward(c, s, td, c, s2, td2)
<1>1. AtList(s, l) /\ s[Len(s)].at = "next" /\ g = c[l].list[c[l].index + 1]  BY DEF AtFunction
<1>2. /\ l \in Lists /\ c[l] \in Records /\ Len(s) \in DOMAIN s /\ c[l].value \in Numbers
      /\ \A i \in DOMAIN s : i # Len(s) /\ s[i].at # "script" => s[i].list # l
  BY <1>1, Loops
<1>3. PICK r \in Records : r = c[l]  BY <1>2
<1>4. s \in Seq(Frames) /\ Len(s) \in Nat /\ DOMAIN s = 1 .. Len(s)
  <2>1. s \in Seq(Frames)  BY DEF Good, Stacked
  <2> QED BY <2>1, StackTypes
<1>5. PICK top \in Frames : top = s[Len(s)]  BY <1>2, <1>4, StackTypes
<1>6. PICK f : f = [top EXCEPT !.at = "call"]  OBVIOUS
<1>7. f \in Frames /\ f.at = "call" /\ f.list = l
  BY <1>1, <1>5, <1>6 DEF Frames, AtList
<1>8. s2 = [s EXCEPT ![Len(s)] = f]  BY <1>5, <1>6 DEF Called
<1>9. /\ DOMAIN s2 = DOMAIN s /\ s2[Len(s)] = f
      /\ \A i \in DOMAIN s : i # Len(s) => s2[i] = s[i]
  <2>1. s2 \in Seq(Frames) /\ Len(s2) = Len(s)  BY <1>2, <1>4, <1>7, <1>8, ExceptSeq
  <2>2. DOMAIN s2 = 1 .. Len(s2)  BY <2>1, StackTypes
  <2> QED BY <1>2, <1>4, <1>8, <2>1, <2>2
<1>10. ASSUME NEW m \in Lists, Stuck(c, s, m) PROVE Stuck(c, s2, m)
  BY <1>1, <1>2, <1>7, <1>9, <1>10 DEF Stuck, AtList
<1>11. \A d, k, n : Told(td, <<d, k, n>>) => Told(td2, <<d, k, n>>)
  <2>1. CASE td2 = td
    BY <2>1
  <2>2. CASE td2 # td
    <3>1. PICK x : td2 = Append(td, x)  BY <2>2 DEF Tells
    <3>2. \A i \in DOMAIN td : i \in DOMAIN td2 /\ td2[i] = td[i]
      BY <3>1
    <3> QED BY <3>2 DEF Told
  <2> QED BY <2>1, <2>2
<1>12. ASSUME NEW d \in Defs, NEW k \in Ends, NEW n \in Numbers, l = <<d, k>>, g = <<"page", n>>
       PROVE  Told(td2, <<d, k, n>>)
  <2>1. l[2] # "progress" /\ g[1] = "page"  BY <1>12, OfLists
  <2>2. PICK v \in Numbers : v = c[l].value  BY <1>2
  <2>3. td2 = Append(td, <<d, k, n, v>>)  BY <1>12, <2>1, <2>2 DEF Tells
  <2>4. Hears(td, td2, d, k, n, v)  BY <2>3 DEF Hears
  <2> QED BY ONLY td \in Seq(Tellings), d \in Defs, k \in Ends, n \in Numbers, v \in Numbers,
             <2>4, ToldOnce
<1>13. ASSUME NEW d \in Defs, NEW k \in Ends, NEW n \in Numbers, Awaits(c, s, td, d, k, n)
       PROVE  Awaits(c, s2, td2, d, k, n)
  <2>1. \A i, j \in Nat : Scripted(s, d, k, n, i, j) => Scripted(s2, d, k, n, i, j)
    BY <1>1, <1>9 DEF Scripted
  <2>2. <<d, k>> \in Lists  BY OfLists
  <2>3. CASE <<d, k>> # l
    <3>1. \A p \in Nat : Past(c, s2, d, k, p) => Past(c, s, d, k, p)
      BY <1>1, <1>9, <2>3 DEF Past, AtList
    <3> QED BY <1>11, <1>13, <2>1, <3>1 DEF Awaits
  <2>4. CASE <<d, k>> = l
    <3>1. ASSUME NEW p \in Nat, OnList(c, d, k, n, p), ~Past(c, s, d, k, p)
          PROVE  ~Past(c, s2, d, k, p) \/ Told(td2, <<d, k, n>>)
      <4>1. r.index \in Nat  BY RecordTypes
      <4>2. CASE p = r.index + 1
        <5>1. g = <<"page", n>>  BY <1>1, <1>3, <2>4, <3>1, <4>2 DEF OnList
        <5> QED BY <1>12, <2>4, <5>1
      <4>3. CASE p # r.index + 1
        <5>1. c[l].firing /\ p <= r.index + 1 => ~(p <= r.index)
          BY <1>1, <1>2, <1>3, <2>4, <3>1 DEF Past, AtList
        <5>2. ~(c[l].firing /\ p <= r.index + 1)  BY ONLY p \in Nat, <4>1, <4>3, <5>1
        <5> QED BY <1>3, <2>4, <5>2 DEF Past
      <4> QED BY <4>2, <4>3
    <3> QED BY <1>11, <1>13, <2>1, <3>1 DEF Awaits
  <2> QED BY <2>3, <2>4
<1> QED BY <1>10, <1>13 DEF Onward, Lost

\* The loop over a list ends when everyone on it has been told.
LEMMA EndOnward ==
  ASSUME NEW c, NEW s, NEW st, NEW ls, NEW td, NEW n0, NEW l, NEW c2, NEW s2,
         Good(c, s, st, ls, td, n0), Tame(c), AtList(s, l), s[Len(s)].at = "next",
         ~MoreToCall(c[l]), Finishes(c, c2, l), Leaves(s, s2, c2[l])
  PROVE  Onward(c, s, td, c2, s2, td)
<1>1. /\ l \in Lists /\ c[l] \in Records /\ c \in [Lists -> Records] /\ ListRight(c[l], l)
      /\ c[l].on /\ c[l].firing /\ c[l].memory = c[l].value /\ c[l].value \in Numbers
      /\ c[l].length = Len(c[l].list) /\ Len(s) \in DOMAIN s
      /\ \A i \in DOMAIN s : i # Len(s) /\ s[i].at # "script" => s[i].list # l
  BY Loops DEF Good, Right
<1>2. PICK r \in Records : r = c[l]  BY <1>1
<1>3. r.on /\ r.firing /\ r.memory # 0  BY <1>1, <1>2 DEF Numbers
<1>4. PICK q \in Records : q = Finished(r, Flags(l))  BY <1>3, FinishedFacts
<1>5. /\ q.firing => q.index = 0 /\ q.length = Len(q.list)
      /\ ~r.repeat => ~q.firing
  BY <1>3, <1>4, FinishedFacts
<1>6. c2 = [c EXCEPT ![l] = q]  BY <1>2, <1>4 DEF Finishes
<1>7. But(c, c2, l) /\ c2[l] = q  BY ONLY <1>1, <1>6, q \in Records, ButOne
<1>8. \A m \in Lists : m # l => c2[m] = c[m]  BY <1>7 DEF But
<1>9. s \in Seq(Frames) /\ s # <<>> /\ s[Len(s)].list = l  BY DEF Good, Stacked, AtList
<1>10. /\ \A i \in DOMAIN s2 : i \in DOMAIN s /\ s2[i] = s[i]
       /\ \A i \in DOMAIN s : i # Len(s) => i \in DOMAIN s2
  <2>1. CASE q.firing
    <3>1. s2 = s  BY <1>7, <2>1 DEF Leaves
    <3> QED BY <3>1
  <2>2. CASE ~q.firing
    <3>1. s2 = Front(s)  BY <1>7, <2>2 DEF Leaves
    <3>2. /\ Front(s) \in Seq(Frames) /\ Len(Front(s)) = Len(s) - 1
          /\ \A i \in DOMAIN Front(s) : i \in DOMAIN s /\ i # Len(s) /\ Front(s)[i] = s[i]
      BY <1>9, FrontFacts
    <3>3. DOMAIN Front(s) = 1 .. Len(Front(s)) /\ Len(s) \in Nat /\ DOMAIN s = 1 .. Len(s)
      BY <1>9, <3>2, StackTypes
    <3>4. \A i \in DOMAIN s : i # Len(s) => i \in DOMAIN Front(s)  BY ONLY <3>2, <3>3
    <3> QED BY ONLY <3>1, <3>2, <3>4
  <2> QED BY <2>1, <2>2
<1>11. Tame(c2)
  <2>1. q.firing => q.index <= q.length
    <3>1. Len(q.list) \in Nat  BY RecordTypes
    <3> QED BY ONLY <1>5, <3>1
  <2>2. ASSUME NEW m \in Lists, c2[m].firing PROVE c2[m].index <= c2[m].length
    BY <1>7, <1>8, <2>1, <2>2 DEF Tame
  <2> QED BY <2>2 DEF Tame
<1>12. ASSUME NEW m \in Lists, Stuck(c, s, m) PROVE Stuck(c2, s2, m)
  <2>1. m # l  BY <1>1, <1>9, <1>12 DEF Stuck
  <2> QED BY <1>8, <1>10, <1>12, <2>1 DEF Stuck
<1>13. ASSUME NEW d \in Defs, NEW k \in Ends, NEW n \in Numbers, Awaits(c, s, td, d, k, n)
       PROVE  Awaits(c2, s2, td, d, k, n)
  <2>1. \A i, j \in Nat : Scripted(s, d, k, n, i, j) => Scripted(s2, d, k, n, i, j)
    <3>1. \A i \in DOMAIN s : s[i].at = "script" => i \in DOMAIN s2 /\ s2[i] = s[i]
      BY <1>10
    <3> QED BY <3>1 DEF Scripted
  <2>2. <<d, k>> \in Lists /\ <<d, k>>[2] = k  BY OfLists
  <2>3. CASE <<d, k>> # l
    <3>1. c2[<<d, k>>] = c[<<d, k>>]  BY <1>8, <2>2, <2>3
    <3>2. \A i \in DOMAIN s : s[i].at = "next" /\ s[i].list = <<d, k>> =>
             i \in DOMAIN s2 /\ s2[i] = s[i]
      BY <1>9, <1>10, <2>3
    <3>3. \A p \in Nat : Past(c2, s2, d, k, p) => Past(c, s, d, k, p)
      BY <3>1, <3>2 DEF Past
    <3> QED BY <1>13, <2>1, <3>1, <3>3 DEF Awaits, OnList
  <2>4. CASE <<d, k>> = l
    <3>1. ASSUME NEW p \in Nat, OnList(c, d, k, n, p) PROVE Past(c, s, d, k, p)
      <4>1. r.index \in Nat /\ Len(r.list) \in Nat /\ DOMAIN r.list = 1 .. Len(r.list)
        BY RecordTypes
      <4>2. ~(r.index < Len(r.list))  BY <1>1, <1>2 DEF MoreToCall
      <4>3. p \in DOMAIN r.list  BY <1>2, <2>4, <3>1 DEF OnList
      <4>4. p <= r.index /\ p <= r.index + 1  BY ONLY <4>1, <4>2, <4>3
      <4> QED BY <1>2, <1>3, <2>4, <4>4 DEF Past
    <3>2. c[<<d, k>>].on  BY <1>1, <2>4
    <3> QED BY <1>13, <2>1, <3>1, <3>2 DEF Awaits
  <2> QED BY <2>3, <2>4
<1> QED BY <1>11, <1>12, <1>13 DEF Onward, Lost

\* The page makes calls: whom it makes listen waits in the script.
LEMMA PushOnward ==
  ASSUME NEW c, NEW s \in Seq(Frames), NEW td, NEW ls, NEW ls2, NEW todo \in Seq(Todo), NEW s2,
         Telling(c, s, td, ls), ScriptPushed(s, s2, todo), Asked(todo, ls, ls2)
  PROVE  Telling(c, s2, td, ls2)
<1>1. PICK f : f = Script(todo)  OBVIOUS
<1>2. f \in Frames /\ f.at = "script" /\ f.todo = todo  BY <1>1 DEF Script, Frames
<1>3. /\ s2 \in Seq(Frames) /\ Len(s2) = Len(s) + 1 /\ s2[Len(s) + 1] = f
      /\ \A i \in 1 .. Len(s) : s2[i] = s[i]
  BY <1>1, <1>2, AppendProperties DEF ScriptPushed
<1>4. Len(s) \in Nat /\ DOMAIN s = 1 .. Len(s) /\ DOMAIN s2 = 1 .. Len(s) + 1
  BY <1>3, StackTypes
<1>5. /\ \A i \in DOMAIN s : i \in DOMAIN s2 /\ s2[i] = s[i]
      /\ \A i \in DOMAIN s2 : i \in DOMAIN s \/ i = Len(s) + 1
      /\ Len(s) + 1 \in DOMAIN s2 /\ Len(s) + 1 \in Nat
  BY ONLY <1>3, <1>4
<1>6. DOMAIN todo \subseteq Nat
  <2>1. DOMAIN todo = 1 .. Len(todo)  BY LenProperties
  <2> QED BY <2>1
<1>7. ASSUME NEW m \in Lists, Stuck(c, s, m) PROVE Stuck(c, s2, m)
  BY <1>2, <1>3, <1>5, <1>7 DEF Stuck
<1>8. ASSUME NEW d \in Defs, NEW k \in Ends, NEW n \in Numbers, Awaits(c, s, td, d, k, n)
      PROVE  Awaits(c, s2, td, d, k, n)
  <2>1. \A i, j \in Nat : Scripted(s, d, k, n, i, j) => Scripted(s2, d, k, n, i, j)
    BY <1>5 DEF Scripted
  <2>2. \A p \in Nat : Past(c, s2, d, k, p) => Past(c, s, d, k, p)  BY <1>5 DEF Past
  <2> QED BY <1>8, <2>1, <2>2 DEF Awaits
<1>9. ASSUME NEW d \in Defs, NEW k \in Ends, NEW n \in Numbers,
             NEW j \in DOMAIN todo, todo[j] = <<"add", <<d, k>>, <<"page", n>>>>
      PROVE  Awaits(c, s2, td, d, k, n)
  <2>1. Scripted(s2, d, k, n, Len(s) + 1, j)  BY <1>2, <1>3, <1>5, <1>9 DEF Scripted
  <2> QED BY <1>5, <1>6, <2>1 DEF Awaits
<1> QED BY <1>7, <1>8, <1>9 DEF Telling, Lost, Await, Asked

\* A script ends that has no call left to make.
LEMMA LeaveOnward ==
  ASSUME NEW c, NEW s \in Seq(Frames), NEW td, Tame(c), s # <<>>,
         s[Len(s)].at = "script", s[Len(s)].todo = <<>>
  PROVE  Onward(c, s, td, c, Front(s), td)
<1>1. PICK s2 : s2 = Front(s)  OBVIOUS
<1>2. /\ s2 \in Seq(Frames) /\ Len(s2) = Len(s) - 1
      /\ \A i \in DOMAIN s2 : i \in DOMAIN s /\ i # Len(s) /\ s2[i] = s[i]
  BY <1>1, FrontFacts
<1>3. DOMAIN s2 = 1 .. Len(s2) /\ Len(s) \in Nat /\ DOMAIN s = 1 .. Len(s)
  BY <1>2, StackTypes
<1>4. \A i \in DOMAIN s : i # Len(s) => i \in DOMAIN s2 /\ s2[i] = s[i]  BY ONLY <1>2, <1>3
<1>5. ASSUME NEW m \in Lists, Stuck(c, s, m) PROVE Stuck(c, s2, m)
  BY <1>2, <1>5 DEF Stuck
<1>6. ASSUME NEW d \in Defs, NEW k \in Ends, NEW n \in Numbers, Awaits(c, s, td, d, k, n)
      PROVE  Awaits(c, s2, td, d, k, n)
  <2>1. \A i, j \in Nat : Scripted(s, d, k, n, i, j) => Scripted(s2, d, k, n, i, j)
    BY <1>4 DEF Scripted
  <2>2. \A p \in Nat : Past(c, s2, d, k, p) => Past(c, s, d, k, p)  BY <1>4 DEF Past
  <2> QED BY <1>6, <2>1, <2>2 DEF Awaits
<1> QED BY <1>1, <1>5, <1>6 DEF Onward, Lost

\* The next call is taken from a script: only whom it makes listen waits no more.
LEMMA AdvanceOnward ==
  ASSUME NEW c, NEW s \in Seq(Frames), NEW td, NEW s2, s # <<>>,
         s[Len(s)].at = "script", s[Len(s)].todo # <<>>, Advanced(s, s2)
  PROVE  /\ Lost(c, s) => Lost(c, s2)
         /\ \A d \in Defs, k \in Ends, n \in Numbers :
               /\ Awaits(c, s, td, d, k, n)
               /\ Head(s[Len(s)].todo) # <<"add", <<d, k>>, <<"page", n>>>>
               => Awaits(c, s2, td, d, k, n)
<1>2. Len(s) \in Nat /\ DOMAIN s = 1 .. Len(s) /\ Len(s) \in DOMAIN s  BY StackTypes
<1>3. PICK top \in Frames : top = s[Len(s)]  BY <1>2, StackTypes
<1>4. top.at = "script" /\ top.todo \in Seq(Todo) /\ top.todo # <<>>  BY <1>3, FrameTypes
<1>5. PICK todo \in Seq(Todo) : todo = top.todo  BY <1>4
<1>6. /\ Tail(todo) \in Seq(Todo) /\ Len(Tail(todo)) = Len(todo) - 1
      /\ \A i \in 1 .. Len(Tail(todo)) : Tail(todo)[i] = todo[i + 1]
  BY <1>4, <1>5, HeadTailProperties
<1>7. PICK rest \in Seq(Todo) : rest = Tail(todo)  BY <1>6
<1>8. /\ Len(todo) \in Nat /\ DOMAIN todo = 1 .. Len(todo) /\ Len(rest) \in Nat
      /\ DOMAIN rest = 1 .. Len(rest) /\ Len(todo) # 0
  BY <1>4, <1>5, LenProperties, EmptySeq
<1>9. Head(todo) = todo[1]  BY <1>4, <1>5
<1>10. \A j \in DOMAIN todo : j # 1 =>
          j - 1 \in DOMAIN rest /\ j - 1 \in Nat /\ rest[j - 1] = todo[j]
  <2>1. ASSUME NEW j \in DOMAIN todo, j # 1 PROVE j - 1 \in 1 .. Len(rest) /\ (j - 1) + 1 = j
    BY ONLY <1>6, <1>7, <1>8, <2>1
  <2>2. ASSUME NEW j \in DOMAIN todo, j # 1
        PROVE  j - 1 \in DOMAIN rest /\ j - 1 \in Nat /\ rest[j - 1] = todo[j]
    <3>1. PICK i \in 1 .. Len(rest) : i = j - 1 /\ i + 1 = j  BY <2>1, <2>2
    <3>2. rest[i] = todo[i + 1]  BY <1>6, <1>7
    <3> QED BY <1>8, <3>1, <3>2
  <2> QED BY <2>2
<1>11. PICK f : f = [top EXCEPT !.todo = rest]  OBVIOUS
<1>12. f \in Frames /\ f.at = "script" /\ f.todo = rest  BY <1>4, <1>11 DEF Frames
<1>13. /\ DOMAIN s2 = DOMAIN s /\ s2[Len(s)] = f
       /\ \A i \in DOMAIN s : i # Len(s) => s2[i] = s[i]
  <2>1. s2 = [s EXCEPT ![Len(s)] = f]  BY <1>3, <1>5, <1>7, <1>11 DEF Advanced
  <2>2. s2 \in Seq(Frames) /\ Len(s2) = Len(s)  BY <1>2, <1>12, <2>1, ExceptSeq
  <2>3. DOMAIN s2 = DOMAIN s  BY <1>2, <2>2, StackTypes
  <2> QED BY <1>2, <2>1, <2>3
<1>14. ASSUME NEW m \in Lists, Stuck(c, s, m) PROVE Stuck(c, s2, m)
  BY <1>12, <1>13, <1>14 DEF Stuck
<1>15. ASSUME NEW d \in Defs, NEW k \in Ends, NEW n \in Numbers, Awaits(c, s, td, d, k, n),
              Head(s[Len(s)].todo) # <<"add", <<d, k>>, <<"page", n>>>>
       PROVE  Awaits(c, s2, td, d, k, n)
  <2>1. ASSUME NEW i \in Nat, NEW j \in Nat, Scripted(s, d, k, n, i, j)
        PROVE  \E x, y \in Nat : Scripted(s2, d, k, n, x, y)
    <3>1. CASE i # Len(s)
      <4>1. Scripted(s2, d, k, n, i, j)  BY <1>13, <2>1, <3>1 DEF Scripted
      <4> QED BY <4>1
    <3>2. CASE i = Len(s)
      <4>1. j \in DOMAIN todo /\ todo[j] = <<"add", <<d, k>>, <<"page", n>>>>
        BY <1>3, <1>5, <2>1, <3>2 DEF Scripted
      <4>2. j # 1  BY <1>3, <1>5, <1>9, <1>15, <4>1
      <4>3. PICK y \in Nat : y \in DOMAIN rest /\ rest[y] = <<"add", <<d, k>>, <<"page", n>>>>
        BY <1>10, <4>1, <4>2
      <4>4. Scripted(s2, d, k, n, i, y)  BY <1>2, <1>12, <1>13, <3>2, <4>3 DEF Scripted
      <4> QED BY <4>4
    <3> QED BY <3>1, <3>2
  <2>2. \A p \in Nat : Past(c, s2, d, k, p) => Past(c, s, d, k, p)
    BY <1>3, <1>4, <1>13 DEF Past
  <2> QED BY <1>15, <2>1, <2>2 DEF Awaits
<1> QED BY <1>14, <1>15 DEF Lost

-----------------------------------------------------------------------------
(* No step leaves anyone behind. *)

AllTelling == Telling(cb, calls, told, listeners)
Ahead == Onward(cb, calls, told, cb', calls', told') /\ listeners' = listeners

LEMMA AheadTells ==
  ASSUME AllTelling, Ahead
  PROVE  AllTelling'
<1>1. PICK c2, s2, td2 : c2 = cb' /\ s2 = calls' /\ td2 = told'  OBVIOUS
<1>2. Telling(cb, calls, told, listeners) /\ Onward(cb, calls, told, c2, s2, td2)
  BY <1>1 DEF AllTelling, Ahead
<1>3. Telling(c2, s2, td2, listeners)  BY ONLY <1>2, OnwardTells
<1> QED BY <1>1, <1>3 DEF AllTelling, Ahead

\* The page makes calls.
LEMMA PageTells ==
  ASSUME IInv, AllTelling, Calling
  PROVE  AllTelling'
<1>1. PICK todo \in Seq(Todo) : PageCalls(todo) /\ Asked(todo, listeners, listeners')
  BY DEF Calling
<1>2. calls \in Seq(Frames)  BY DEF IInv, Good, Stacked
<1>3. PICK s2, ls2 : s2 = calls' /\ ls2 = listeners'  OBVIOUS
<1>4. ScriptPushed(calls, s2, todo) /\ cb' = cb /\ told' = told
  BY <1>1, <1>3 DEF PageCalls, ScriptPushed
<1>5. Telling(cb, calls, told, listeners) /\ Asked(todo, listeners, ls2)
  BY <1>1, <1>3 DEF AllTelling
<1>6. Telling(cb, s2, told, ls2)
  BY ONLY todo \in Seq(Todo), <1>2, <1>4, <1>5, PushOnward
<1> QED BY <1>3, <1>4, <1>6 DEF AllTelling

\* A call of a script: whom it is to make listen is on the list then.
LEMMA ScriptTells ==
  ASSUME IInv, AllTelling, RunScript
  PROVE  AllTelling'
<1>1. /\ Good(cb, calls, state, listeners, told, ops) /\ calls \in Seq(Frames)
      /\ Telling(cb, calls, told, listeners) /\ Tame(cb)
  BY DEF IInv, Good, Stacked, AllTelling, Telling
<1>2. /\ calls # <<>> /\ Top = calls[Len(calls)] /\ calls[Len(calls)].at = "script"
      /\ listeners' = listeners /\ told' = told
  BY DEF RunScript, Top, Last, history
<1>3. PICK c2, s2 : c2 = cb' /\ s2 = calls'  OBVIOUS
<1>4. CASE Top.todo = <<>>
  <2>1. s2 = Front(calls) /\ c2 = cb  BY <1>3, <1>4 DEF RunScript
  <2>2. calls[Len(calls)].todo = <<>>  BY <1>2, <1>4
  <2>3. Onward(cb, calls, told, cb, Front(calls), told)
    BY ONLY <1>1, <1>2, <2>2, LeaveOnward
  <2>4. Ahead  BY <1>2, <1>3, <2>1, <2>3 DEF Ahead
  <2> QED BY <2>4, AheadTells
<1>5. CASE Top.todo # <<>>
  <2>1. PICK do : do = Head(Top.todo)  OBVIOUS
  <2>2. PICK s : s = [calls EXCEPT ![Len(calls)].todo = Tail(@)]  OBVIOUS
  <2>3. Advanced(calls, s) /\ calls[Len(calls)].todo # <<>> /\ do = Head(calls[Len(calls)].todo)
    BY <1>2, <1>5, <2>1, <2>2 DEF Advanced
  <2>4. Good(cb, s, state, listeners, told, ops) /\ Calm(cb, state) /\ do \in Todo
    BY <1>1, <1>2, <2>3, AdvanceGood
  <2>5. /\ Lost(cb, calls) => Lost(cb, s)
        /\ \A d \in Defs, k \in Ends, n \in Numbers :
              Awaits(cb, calls, told, d, k, n) /\ do # <<"add", <<d, k>>, <<"page", n>>>>
              => Awaits(cb, s, told, d, k, n)
    <3>1. /\ Lost(cb, calls) => Lost(cb, s)
          /\ \A d \in Defs, k \in Ends, n \in Numbers :
                /\ Awaits(cb, calls, told, d, k, n)
                /\ Head(calls[Len(calls)].todo) # <<"add", <<d, k>>, <<"page", n>>>>
                => Awaits(cb, s, told, d, k, n)
      BY ONLY <1>1, <1>2, <2>3, AdvanceOnward
    <3> QED BY <2>3, <3>1
  <2>6. \/ do[1] = "add" /\ DoAdd(cb, s, do[2], do[3])
        \/ do[1] = "fire" /\ DoFire(cb, s, do[2], do[3])
        \/ do[1] = "expect"
        \/ /\ do[1] = "resolveIfNone"
           /\ IF remaining[do[2]] = 0
              THEN DoFire(cb, s, <<do[2], "done">>, ops + 1)
              ELSE calls' = s /\ cb' = cb
    BY <1>5, <2>1, <2>2 DEF RunScript
  <2>7. do[1] # "expect"  BY <2>4 DEF Todo
  <2>8. ASSUME Onward(cb, s, told, c2, s2, told), do[1] # "add"
        PROVE  AllTelling'
    <3>1. \A d, k, n : do # <<"add", <<d, k>>, <<"page", n>>>>  BY <2>8
    <3>2. Onward(cb, calls, told, c2, s2, told)  BY <2>5, <2>8, <3>1 DEF Onward
    <3>3. Ahead  BY <1>2, <1>3, <3>2 DEF Ahead
    <3> QED BY <3>3, AheadTells
  <2>9. CASE do[1] = "add"
    <3>1. PICK l \in Lists, f \in Added : do = <<"add", l, f>>  BY <2>4, <2>9 DEF Todo
    <3>2. Adds(cb, s, l, f, c2, s2)  BY <1>3, <2>6, <3>1 DEF DoAdd, Adds
    <3>3. /\ Onward(cb, s, told, c2, s2, told)
          /\ \A k \in Ends, n \in Numbers :
                l[2] = k /\ f = <<"page", n>> => Lost(cb, s) \/ Awaits(c2, s2, told, l[1], k, n)
      BY ONLY l \in Lists, f \in Added, <1>1, <2>4, <3>2, AddOnward
    <3>4. Tame(c2) /\ (Lost(cb, s) => Lost(c2, s2))  BY <3>3 DEF Onward
    <3>5. ASSUME ~Lost(cb, s), NEW d \in Defs, NEW k \in Ends, NEW n \in Numbers,
                 <<d, k, n>> \in listeners
          PROVE  Awaits(c2, s2, told, d, k, n)
      <4>1. Awaits(cb, calls, told, d, k, n)  BY <1>1, <2>5, <3>5 DEF Telling, Await
      <4>2. CASE do = <<"add", <<d, k>>, <<"page", n>>>>
        <5>1. l[1] = d /\ l[2] = k /\ f = <<"page", n>>  BY <3>1, <4>2
        <5> QED BY <3>3, <3>5, <5>1
      <4>3. CASE do # <<"add", <<d, k>>, <<"page", n>>>>
        <5>1. Awaits(cb, s, told, d, k, n)  BY <2>5, <4>1, <4>3
        <5> QED BY <3>3, <5>1 DEF Onward
      <4> QED BY <4>2, <4>3
    <3>6. Telling(c2, s2, told, listeners)  BY <3>4, <3>5 DEF Telling, Await
    <3> QED BY <1>2, <1>3, <3>6 DEF AllTelling
  <2>10. CASE do[1] = "fire"
    <3>1. PICK l \in Lists, v \in Numbers : do = <<"fire", l, v>>  BY <2>4, <2>10 DEF Todo
    <3>2. Fires(cb, s, l, v, c2, s2)  BY <1>3, <2>6, <3>1 DEF DoFire, Fires
    <3>3. Onward(cb, s, told, c2, s2, told)
      BY ONLY l \in Lists, v \in Numbers, <1>1, <2>4, <3>2, FireOnward
    <3> QED BY <2>8, <2>10, <3>3
  <2>11. CASE do[1] = "resolveIfNone"
    <3>1. PICK m \in Defs : do = <<"resolveIfNone", m>>  BY <2>4, <2>11 DEF Todo
    <3>2. PICK l \in Lists : l = <<m, "done">>  BY DEF Lists, Kinds
    <3>3. PICK v \in Numbers : v = ops + 1  BY OpsNumber
    <3>4. CASE remaining[m] = 0
      <4>1. Fires(cb, s, l, v, c2, s2)
        BY <1>3, <2>6, <3>1, <3>2, <3>3, <3>4 DEF DoFire, Fires
      <4>2. Onward(cb, s, told, c2, s2, told)
        BY ONLY l \in Lists, v \in Numbers, <1>1, <2>4, <4>1, FireOnward
      <4> QED BY <2>8, <2>11, <4>2
    <3>5. CASE remaining[m] # 0
      <4>1. s2 = s /\ c2 = cb  BY <1>3, <2>6, <3>1, <3>5
      <4>2. Onward(cb, s, told, c2, s2, told)  BY <1>1, <4>1 DEF Onward
      <4> QED BY <2>8, <2>11, <4>2
    <3> QED BY <3>4, <3>5
  <2> QED BY <2>6, <2>7, <2>9, <2>10, <2>11
<1> QED BY <1>4, <1>5

\* A loop goes on after a function of the code's own.
LEMMA OwnPassed ==
  ASSUME IInv, AllTelling, Firing, MoreToCall(cb[Top.list]), Fn[1] # "page"
  PROVE  Onward(cb, calls, told, Passed, calls, told)
<1>1. Good(cb, calls, state, listeners, told, ops) /\ Tame(cb)
  BY DEF IInv, AllTelling, Telling
<1>2. PICK l, g : l = Top.list /\ g = Fn  OBVIOUS
<1>3. /\ AtFunction(cb, calls, l, g) /\ AtList(calls, l)
      /\ Resumed(calls, calls) /\ Stepped(cb, Passed, l)
  BY <1>2, AtFn
<1>4. PICK c : c = Passed  OBVIOUS
<1>5. Stepped(cb, c, l)  BY <1>3, <1>4
<1>6. cb[l].index < Len(cb[l].list) /\ cb[l].list[cb[l].index + 1][1] # "page"
  BY <1>2, <1>3 DEF AtFunction
<1>7. Onward(cb, calls, told, c, calls, told)
  BY ONLY <1>1, <1>3, <1>5, <1>6, PassOnward
<1> QED BY <1>4, <1>7

\* A function of the code's own.
LEMMA OwnTells ==
  ASSUME IInv, AllTelling, CallOwn
  PROVE  AllTelling'
<1>1. /\ Good(cb, calls, state, listeners, told, ops)
      /\ Firing /\ MoreToCall(cb[Top.list]) /\ listeners' = listeners /\ told' = told
  BY DEF IInv, CallOwn, history
<1>2. PICK l, g : l = Top.list /\ g = Fn  OBVIOUS
<1>3. /\ AtFunction(cb, calls, l, g) /\ l \in Lists /\ Stepped(cb, Passed, l)
      /\ g \in Added \cup Own
  <2>1. AtFunction(cb, calls, l, g) /\ l \in Lists /\ Stepped(cb, Passed, l)
    BY <1>1, <1>2, AtFn
  <2> QED BY ONLY <1>1, <2>1, OwnStages
<1>4. PICK c, c2, s2 : c = Passed /\ c2 = cb' /\ s2 = calls'  OBVIOUS
<1>5. g[1] \in {"state", "disable", "lock", "signal", "count"}  BY <1>2 DEF CallOwn
<1>6. Onward(cb, calls, told, c, calls, told) /\ Tame(c)
  BY <1>1, <1>2, <1>4, <1>5, OwnPassed DEF Onward
<1>7. c \in [Lists -> Records]
  <2>1. Stepped(cb, c, l) /\ cb \in [Lists -> Records]
    BY <1>1, <1>3, <1>4 DEF Good, Right
  <2>2. But(cb, c, l)  BY ONLY <1>3, <2>1, SteppedFacts
  <2> QED BY <2>2 DEF But
<1>8. SUFFICES Onward(c, calls, told, c2, s2, told)
  <2>1. ASSUME Onward(c, calls, told, c2, s2, told) PROVE AllTelling'
    <3>1. Onward(cb, calls, told, c2, s2, told)  BY ONLY <1>6, <2>1, OnwardTwice
    <3>2. Ahead  BY <1>1, <1>4, <3>1 DEF Ahead
    <3> QED BY <3>2, AheadTells
  <2> QED BY <2>1
<1>9. CASE c2 = c /\ s2 = calls
  BY <1>6, <1>9 DEF Onward
<1>10. g[1] = "state" => c2 = c /\ s2 = calls
  BY <1>2, <1>4 DEF CallOwn
<1>11. CASE g[1] = "disable"
  <2>1. c2 = [c EXCEPT ![<<g[2], g[3]>>] = Disabled(c[<<g[2], g[3]>>])] /\ s2 = calls
    BY <1>2, <1>4, <1>11 DEF CallOwn
  <2>2. <<g[2], g[3]>> \in Lists  BY <1>3, <1>11 DEF Added, Own, Lists, Kinds, Ends
  <2>3. PICK m \in Lists : m = <<g[2], g[3]>>  BY <2>2
  <2>4. PICK p \in Records : p = c[m]  BY <1>7
  <2>5. PICK q \in Records : q = Disabled(p)  BY DisabledFacts
  <2>6. ~q.on /\ q.firing = p.firing /\ q.index = p.index /\ q.length = p.length
    BY <2>5, DisabledFacts
  <2>7. Assigned(c, c2, m, q)  BY <2>1, <2>3, <2>4, <2>5 DEF Assigned
  <2>8. Onward(c, calls, told, c2, calls, told)
    BY ONLY <1>6, <1>7, m \in Lists, q \in Records, <2>4, <2>6, <2>7, FadeOnward
  <2> QED BY <2>1, <2>8
<1>12. CASE g[1] = "lock"
  <2>1. c2 = [c EXCEPT ![<<g[2], g[3]>>] = Locked(c[<<g[2], g[3]>>])] /\ s2 = calls
    BY <1>2, <1>4, <1>12 DEF CallOwn
  <2>2. PICK d \in Defs : g = <<"lock", d, "progress">>  BY <1>3, <1>12 DEF Added, Own
  <2>3. PICK m \in Lists : m = <<d, "progress">>  BY DEF Lists, Kinds
  <2>4. PICK p \in Records : p = c[m]  BY <1>7
  <2>5. PICK q \in Records : q = Locked(p)  BY LockedFacts
  <2>6. /\ q.firing = p.firing /\ q.index = p.index /\ q.length = p.length
        /\ p.memory = 0 => ~q.on
        /\ p.memory # 0 => q.on = p.on
    BY <2>5, LockedFacts
  <2>7. Assigned(c, c2, m, q)  BY <2>1, <2>2, <2>3, <2>4, <2>5 DEF Assigned
  <2>8. m[2] \notin Ends  BY <2>3 DEF Ends
  <2>9. ~q.on \/ (m[2] \notin Ends /\ q.on = c[m].on)  BY <2>4, <2>6, <2>8
  <2>10. Onward(c, calls, told, c2, calls, told)
    BY ONLY <1>6, <1>7, m \in Lists, q \in Records, <2>4, <2>6, <2>7, <2>9, FadeOnward
  <2> QED BY <2>1, <2>10
<1>13. ASSUME NEW m \in Lists, g[1] \in {"signal", "count"}, DoFire(c, calls, m, FiredWith)
       PROVE  Onward(c, calls, told, c2, s2, told)
  <2>1. Good(c, calls, state, listeners, told, ops)
    BY <1>1, <1>2, <1>4, <1>13, SignalGood
  <2>2. PICK v \in Numbers : v = FiredWith  BY <1>1, AtFn
  <2>3. Fires(c, calls, m, v, c2, s2)  BY <1>4, <1>13, <2>2 DEF DoFire, Fires
  <2> QED BY ONLY m \in Lists, v \in Numbers, <1>6, <2>1, <2>3, FireOnward
<1>14. CASE g[1] = "signal"
  <2>1. DoFire(c, calls, <<g[2], g[3]>>, FiredWith)  BY <1>2, <1>4, <1>14 DEF CallOwn
  <2>2. <<g[2], g[3]>> \in Lists  BY <1>3, <1>14 DEF Added, Own, Lists
  <2> QED BY <1>13, <1>14, <2>1, <2>2
<1>15. CASE g[1] = "count"
  <2>1. IF remaining[g[2]] = 1
        THEN DoFire(c, calls, <<g[2], "done">>, FiredWith)
        ELSE c2 = c /\ s2 = calls
    BY <1>2, <1>4, <1>15 DEF CallOwn
  <2>2. <<g[2], "done">> \in Lists  BY <1>3, <1>15 DEF Added, Own, Lists, Kinds
  <2> QED BY <1>9, <1>13, <1>15, <2>1, <2>2
<1> QED BY <1>5, <1>9, <1>10, <1>11, <1>12, <1>14, <1>15

\* then() without a function.
LEMMA ForwardTells ==
  ASSUME IInv, AllTelling, Forward
  PROVE  AllTelling'
<1>1. /\ Firing /\ MoreToCall(cb[Top.list]) /\ listeners' = listeners /\ told' = told
      /\ Good(cb, calls, state, listeners, told, ops)
  BY DEF IInv, Forward, history
<1>2. PICK g : g = Fn  OBVIOUS
<1>3. g[1] = "then" /\ DoFire(Passed, calls, <<g[2], g[3]>>, FiredWith)
  BY <1>2 DEF Forward
<1>4. PICK c, c2, s2 : c = Passed /\ c2 = cb' /\ s2 = calls'  OBVIOUS
<1>5. Onward(cb, calls, told, c, calls, told) /\ Tame(c)
  BY <1>1, <1>2, <1>3, <1>4, OwnPassed DEF Onward
<1>6. Good(c, calls, state, listeners, told, ops)
  BY <1>1, <1>2, <1>3, <1>4, SignalGood
<1>7. g \in Added \cup Own
  <2>1. AtFunction(cb, calls, Top.list, g)  BY <1>1, <1>2, AtFn
  <2> QED BY <1>1, <2>1, OwnStages
<1>8. PICK m \in Lists : m = <<g[2], g[3]>>  BY <1>3, <1>7 DEF Added, Own, Lists
<1>9. PICK v \in Numbers : v = FiredWith  BY <1>1, AtFn
<1>10. Fires(c, calls, m, v, c2, s2)  BY <1>3, <1>4, <1>8, <1>9 DEF DoFire, Fires
<1>11. Onward(c, calls, told, c2, s2, told)
  BY ONLY m \in Lists, v \in Numbers, <1>5, <1>6, <1>10, FireOnward
<1>12. Onward(cb, calls, told, c2, s2, told)  BY ONLY <1>5, <1>11, OnwardTwice
<1>13. Ahead  BY <1>1, <1>4, <1>12 DEF Ahead
<1> QED BY <1>13, AheadTells

\* A function of the page is called.
LEMMA CallTells ==
  ASSUME IInv, AllTelling, CallPage
  PROVE  AllTelling'
<1>1. /\ Firing /\ MoreToCall(cb[Top.list]) /\ cb' = cb /\ listeners' = listeners
      /\ told \in Seq(Tellings) /\ Tame(cb) /\ Good(cb, calls, state, listeners, told, ops)
  BY DEF IInv, CallPage, AllTelling, Telling
<1>2. PICK l, g : l = Top.list /\ g = Fn  OBVIOUS
<1>3. AtFunction(cb, calls, l, g)  BY <1>1, <1>2, AtFn
<1>4. g \in Added \cup Own  BY ONLY <1>1, <1>3, OwnStages
<1>5. PICK s2, td2 : s2 = calls' /\ td2 = told'  OBVIOUS
<1>6. Called(calls, s2)  BY <1>5 DEF CallPage, Called
<1>7. Tells(cb, told, td2, l, g)
  BY <1>2, <1>5 DEF CallPage, Tells, FiredWith
<1>8. Onward(cb, calls, told, cb, s2, td2)
  BY ONLY <1>1, <1>3, <1>4, <1>6, <1>7, CallOnward
<1>9. Ahead  BY <1>1, <1>5, <1>8 DEF Ahead
<1> QED BY <1>9, AheadTells

\* It returns, a value or a promise.
LEMMA ReturnTells ==
  ASSUME RootsAssumption, IInv, AllTelling, PageReturns
  PROVE  AllTelling'
<1>1. /\ Good(cb, calls, state, listeners, told, ops) /\ calls \in Seq(Frames)
      /\ Tame(cb) /\ Telling(cb, calls, told, listeners)
  BY DEF IInv, Good, Stacked, AllTelling, Telling
<1>2. /\ calls # <<>> /\ Top = calls[Len(calls)] /\ calls[Len(calls)].at = "call"
      /\ listeners' = listeners /\ told' = told
  BY DEF PageReturns, Top, Last
<1>3. PICK l, g : l = Top.list /\ g = Fn  OBVIOUS
<1>4. AtList(calls, l) /\ Calm(cb, state)
  BY <1>2, <1>3, CalmThere DEF AtList
<1>5. g \in Added /\ IsPage(g) /\ cb[l].index < Len(cb[l].list)
  <2>1. FrameRight(cb, calls[Len(calls)])  BY <1>1, <1>4, Loops
  <2> QED BY <1>2, <1>3, <2>1 DEF FrameRight, Fn
<1>6. PICK s : s = [calls EXCEPT ![Len(calls)].at = "next"]  OBVIOUS
<1>7. Resumed(calls, s)
  <2>1. Returned(calls, s)  BY <1>6 DEF Returned
  <2> QED BY ONLY <1>1, <1>4, <2>1, ReturnedFacts
<1>8. PICK c, c2, s2 : c = Passed /\ c2 = cb' /\ s2 = calls'  OBVIOUS
<1>9. Stepped(cb, c, l)  BY <1>3, <1>8 DEF Stepped, Passed
<1>10. Good(c, s, state, listeners, told, ops)
  BY ONLY <1>1, <1>4, <1>7, <1>9, PassGood
<1>11. Onward(cb, calls, told, c, s, told)
  BY ONLY <1>1, <1>2, <1>4, <1>5, <1>7, <1>9, PassOnward
<1>12. Telling(c, s, told, listeners) /\ Tame(c)
  <2>1. Telling(c, s, told, listeners)  BY ONLY <1>1, <1>11, OnwardTells
  <2> QED BY <2>1 DEF Telling
<1>13. SUFFICES Telling(c2, s2, told, listeners)
  BY <1>2, <1>8 DEF AllTelling
<1>14. \/ c2 = c /\ s2 = s
       \/ g[1] = "then" /\ DoFire(c, s, <<g[2], g[3]>>, g[4])
       \/ /\ g[1] = "then"
          /\ \E p \in Roots :
                c2 = c /\ s2 = Append(s, Script(Following(p, g[2], [k \in Kinds |-> 0])))
  BY <1>3, <1>6, <1>8 DEF PageReturns
<1>15. CASE c2 = c /\ s2 = s
  BY <1>12, <1>15
<1>16. ASSUME g[1] = "then"
       PROVE  \E e \in Defs, k \in Kinds, n \in Numbers : g = <<"then", e, k, n>>
  <2>1. PICK e \in Defs, k \in Kinds, n \in Nat : g = <<"then", e, k, n>>
    BY <1>5, <1>16 DEF Added
  <2>2. n # 0  BY <1>5, <1>16, <2>1 DEF IsPage
  <2> QED BY <2>1, <2>2 DEF Numbers
<1>17. CASE g[1] = "then" /\ DoFire(c, s, <<g[2], g[3]>>, g[4])
  <2>1. PICK e \in Defs, k \in Kinds, v \in Numbers : g = <<"then", e, k, v>>  BY <1>16, <1>17
  <2>2. PICK m \in Lists : m = <<e, k>>  BY DEF Lists
  <2>3. Fires(c, s, m, v, c2, s2)  BY <1>8, <1>17, <2>1, <2>2 DEF DoFire, Fires
  <2>4. Onward(c, s, told, c2, s2, told)
    BY ONLY m \in Lists, v \in Numbers, <1>10, <1>12, <2>3, FireOnward
  <2> QED BY ONLY <1>12, <2>4, OnwardTells
<1>18. ASSUME g[1] = "then", NEW p \in Roots, c2 = c,
              s2 = Append(s, Script(Following(p, g[2], [k \in Kinds |-> 0])))
       PROVE  Telling(c2, s2, told, listeners)
  <2>1. PICK e \in Defs : e = g[2]  BY <1>16, <1>18
  <2>2. PICK f : f = [k \in Kinds |-> 0]  OBVIOUS
  <2>3. \A k \in Kinds : f[k] \in Nat  BY <2>2
  <2>4. PICK todo : todo = Following(p, e, f)  OBVIOUS
  <2>5. p \in Defs  BY DEF RootsAssumption
  <2>6. todo \in Seq(Todo)  BY <2>3, <2>4, <2>5, FollowingCalls
  <2>7. ScriptPushed(s, s2, todo)  BY <1>18, <2>1, <2>2, <2>4 DEF ScriptPushed
  <2>8. s \in Seq(Frames) /\ Asked(todo, listeners, listeners)
    BY <1>10 DEF Good, Stacked, Asked
  <2>9. Telling(c, s2, told, listeners)
    BY ONLY <1>12, <2>6, <2>7, <2>8, PushOnward
  <2> QED BY <1>18, <2>9
<1> QED BY <1>14, <1>15, <1>17, <1>18

\* The loop ends.
LEMMA EndTells ==
  ASSUME IInv, AllTelling, EndOfLoop
  PROVE  AllTelling'
<1>1. /\ Good(cb, calls, state, listeners, told, ops) /\ Tame(cb)
      /\ calls # <<>> /\ Top = calls[Len(calls)] /\ Top.at = "next"
      /\ listeners' = listeners /\ told' = told
  BY DEF IInv, AllTelling, Telling, EndOfLoop, Firing, Top, Last, history
<1>2. PICK l : l = Top.list  OBVIOUS
<1>3. AtList(calls, l) /\ calls[Len(calls)].at = "next"  BY <1>1, <1>2 DEF AtList
<1>4. ~MoreToCall(cb[l])  BY <1>2 DEF EndOfLoop
<1>5. l \in Lists /\ cb \in [Lists -> Records]
  BY <1>1, <1>3, Loops DEF Good, Right
<1>6. PICK r : r = Finished(cb[l], Flags(l))  OBVIOUS
<1>7. PICK c : c = [cb EXCEPT ![l] = r]  OBVIOUS
<1>8. cb' = c /\ calls' = IF r.firing THEN calls ELSE Front(calls)
  BY <1>2, <1>6, <1>7 DEF EndOfLoop
<1>9. PICK s : s = calls'  OBVIOUS
<1>10. c[l] = r  BY <1>5, <1>7
<1>11. Finishes(cb, c, l) /\ Leaves(calls, s, c[l])
  BY <1>6, <1>7, <1>8, <1>9, <1>10 DEF Finishes, Leaves
<1>12. Onward(cb, calls, told, c, s, told)
  BY ONLY <1>1, <1>3, <1>4, <1>11, EndOnward
<1>13. Ahead  BY <1>1, <1>8, <1>9, <1>12 DEF Ahead
<1> QED BY <1>13, AheadTells

\* What is thrown leaves a list `firing'.
LEMMA ThrowTells ==
  ASSUME IInv, AllTelling, Throw
  PROVE  AllTelling'
<1>1. /\ calls # <<>> /\ calls[Len(calls)].at = "call"
      /\ cb' = cb /\ calls' = <<>> /\ told' = told /\ listeners' = listeners
  BY DEF Throw, Top, Last, history
<1>2. Good(cb, calls, state, listeners, told, ops) /\ Tame(cb)
  BY DEF IInv, AllTelling, Telling
<1>3. PICK l : l = calls[Len(calls)].list  OBVIOUS
<1>4. AtList(calls, l)  BY <1>1, <1>3 DEF AtList
<1>5. l \in Lists /\ cb[l].firing  BY <1>2, <1>4, Loops
<1>6. Lost(cb, <<>>)
  <2>1. DOMAIN <<>> = {}  OBVIOUS
  <2> QED BY <1>5, <2>1 DEF Lost, Stuck
<1> QED BY <1>1, <1>2, <1>6 DEF AllTelling, Telling

\* Whoever listens for an outcome waits in one of the places, in every state.
LEMMA TellingKept ==
  ASSUME RootsAssumption, IInv, AllTelling, [Next]_vars
  PROVE  AllTelling'
<1>1. ASSUME NEW d \in Defs, Always(d) PROVE AllTelling'
  BY <1>1, AlwaysCalls, PageTells
<1>2. ASSUME NEW d \in Defs, NEW k \in Kinds, Signal(d, k) PROVE AllTelling'
  BY <1>2, SignalCalls, PageTells
<1>3. ASSUME NEW d \in Defs, NEW k \in Kinds, Listen(d, k) PROVE AllTelling'
  BY <1>3, ListenCalls, PageTells
<1>4. ASSUME NEW d \in Defs, NEW c \in Defs, NEW given \in Given, Then(d, c, given)
      PROVE  AllTelling'
  BY <1>4, ThenCalls, PageTells
<1>5. ASSUME NEW m \in Defs, NEW subs \in SUBSET Defs, When(subs, m) PROVE AllTelling'
  BY <1>5, WhenCalls, PageTells
<1>6. CASE RunScript  BY <1>6, ScriptTells
<1>7. CASE CallOwn  BY <1>7, OwnTells
<1>8. CASE Forward  BY <1>8, ForwardTells
<1>9. CASE CallPage  BY <1>9, CallTells
<1>10. CASE PageReturns  BY <1>10, ReturnTells
<1>11. CASE EndOfLoop  BY <1>11, EndTells
<1>12. CASE Throw  BY <1>12, ThrowTells
<1>13. CASE UNCHANGED vars
  BY <1>13 DEF vars, history, AllTelling
<1> QED
  BY <1>1, <1>2, <1>3, <1>4, <1>5, <1>6, <1>7, <1>8, <1>9, <1>10, <1>11, <1>12, <1>13 DEF Next

\* Nobody listens at first, and no list is fired.
LEMMA TellingStarts == Init => AllTelling
<1> SUFFICES ASSUME Init PROVE AllTelling  OBVIOUS
<1>1. ASSUME NEW l \in Lists PROVE ~cb[l].firing
  <2>1. PICK d \in Defs, k \in Kinds : l = <<d, k>>  BY OfLists
  <2>2. cb[l] = MadeLists(d)[k]  BY <2>1 DEF Init, Lists
  <2> QED BY <2>2, MadeFacts
<1>2. Tame(cb)  BY <1>1 DEF Tame
<1>3. listeners = {}  BY DEF Init
<1> QED BY <1>2, <1>3 DEF AllTelling, Telling, Await

\* When the page is idle there is no place left to wait in but a list that is off.
LEMMA IdleTold == IInv /\ Heeding /\ AllTelling => EveryoneTold
<1> SUFFICES ASSUME IInv, Heeding, AllTelling, Settled, NEW l \in listeners, l[2] # "progress",
                    state[l[1]] = Outcome(l[2])
             PROVE  WasTold(l)
  BY DEF EveryoneTold
<1>1. PICK d \in Defs, k \in Kinds, n \in Numbers : l = <<d, k, n>>
  BY DEF Heeding
<1>2. k \in Ends /\ state[d] = Outcome(k)  BY <1>1 DEF Kinds, Ends
<1>3. Settled /\ calls = <<>> /\ \A m \in Lists : ~cb[m].firing  BY DEF Settled
<1>4. Awaits(cb, calls, told, d, k, n)
  <2>1. ~Lost(cb, calls)  BY <1>3 DEF Lost, Stuck
  <2> QED BY <1>1, <1>2, <2>1 DEF AllTelling, Telling, Await
<1>5. \A i, j \in Nat : ~Scripted(calls, d, k, n, i, j)
  <2>1. DOMAIN calls = {}  BY <1>3
  <2> QED BY <2>1 DEF Scripted
<1>6. Decided(cb, state, d, k)
  <2>1. Staged(cb, calls, state)  BY DEF IInv, Good
  <2>2. Steady(cb, state, d)  BY <1>3, <2>1, CalmOutside DEF Calm
  <2>3. ~Open(cb, state, d)  BY <1>2, OfLists DEF Open
  <2>4. PICK i \in Ends : Decided(cb, state, d, i)  BY <2>2, <2>3 DEF Steady
  <2>5. i = k  BY <1>2, <2>4 DEF Decided, Outcome, Ends
  <2> QED BY <2>4, <2>5
<1>7. cb[<<d, k>>].on /\ cb[<<d, k>>].list = <<>>
  BY <1>2, <1>3, <1>6, OfLists DEF Decided
<1>8. \A p \in Nat : ~OnList(cb, d, k, n, p)
  <2>1. DOMAIN cb[<<d, k>>].list = {}  BY <1>7
  <2> QED BY <2>1 DEF OnList
<1>9. Told(told, l)  BY <1>1, <1>4, <1>5, <1>7, <1>8 DEF Awaits
<1> QED BY <1>9 DEF Told, WasTold

\* When the page is idle and nothing has been thrown, everyone who listens for the
\* outcome that a deferred object has was told of it, whether added before it was
\* settled, after, or while others were told.
THEOREM EveryoneIsTold == RootsAssumption => (Spec => []EveryoneTold)
<1> SUFFICES ASSUME RootsAssumption PROVE Spec => []EveryoneTold
  OBVIOUS
<1>1. Init => AllTelling
  BY TellingStarts
<1>2. IInv /\ AllTelling /\ [Next]_vars => AllTelling'
  BY TellingKept
<1>3. IInv /\ Heeding /\ AllTelling => EveryoneTold
  BY IdleTold
<1>4. Spec => [](IInv /\ Heeding)
  BY DeferredsInvariant
<1> QED
  BY <1>1, <1>2, <1>3, <1>4, PTL DEF Spec

-----------------------------------------------------------------------------
(* No news after the outcome: a list that has been locked is not fired again. *)

\* A list that is off, or was fired and is not to be fired again.
Quiet(r) == ~r.on \/ (r.fired /\ ~r.repeat)

\* What a list remembers is what it was fired with.
Mindful(r) == r.on /\ r.memory # 0 => r.fired /\ r.value = r.memory

\* A step leaves a quiet list quiet, and its value alone.
Calms(r, q) ==
    /\ Mindful(r) => Mindful(q)
    /\ Quiet(r) => Quiet(q)
    /\ Mindful(r) /\ Quiet(r) => q.value = r.value
AllCalm(c, c2) == \A l \in Lists : Calms(c[l], c2[l])

LEMMA CalmTwice ==
  ASSUME NEW c, NEW c1, NEW c2, AllCalm(c, c1), AllCalm(c1, c2)
  PROVE  AllCalm(c, c2)
BY DEF AllCalm, Calms

LEMMA CalmSame == ASSUME NEW c PROVE AllCalm(c, c)
BY DEF AllCalm, Calms

\* If only list l changes, that is seen on l.
LEMMA CalmButOne ==
  ASSUME NEW c \in [Lists -> Records], NEW l \in Lists, NEW q \in Records, NEW c2,
         Assigned(c, c2, l, q), Calms(c[l], q)
  PROVE  AllCalm(c, c2)
<1>1. But(c, c2, l) /\ c2[l] = q  BY ButOne DEF Assigned
<1>2. ASSUME NEW m \in Lists PROVE Calms(c[m], c2[m])
  <2>1. m # l => c2[m] = c[m]  BY <1>1 DEF But
  <2> QED BY <1>1, <2>1 DEF Calms
<1> QED BY <1>2 DEF AllCalm

\* add(): a list that is fired for what is new is fired with what it remembers.
LEMMA AddCalm ==
  ASSUME NEW c \in [Lists -> Records], NEW s, NEW l \in Lists, NEW f \in Added, NEW c2, NEW s2,
         Adds(c, s, l, f, c2, s2)
  PROVE  AllCalm(c, c2)
<1>1. PICK r \in Records : r = c[l]  OBVIOUS
<1>2. PICK p \in Records : p = Pushed(r, Flags(l), f)  BY PushedFacts
<1>3. /\ p.on = r.on /\ p.memory = r.memory /\ p.fired = r.fired
      /\ p.value = r.value /\ p.repeat = r.repeat
  BY <1>2, PushedFacts
<1>4. CASE ~r.on
  <2>1. c2 = c  BY <1>1, <1>4 DEF Adds
  <2> QED BY <2>1, CalmSame
<1>5. CASE r.on /\ ~CatchesUp(r)
  <2>1. Assigned(c, c2, l, p)  BY <1>1, <1>2, <1>5 DEF Adds, Assigned
  <2>2. Calms(r, p)  BY <1>3 DEF Calms, Mindful, Quiet
  <2> QED BY ONLY c \in [Lists -> Records], l \in Lists, p \in Records, <1>1, <2>1, <2>2, CalmButOne
<1>6. CASE CatchesUp(r)
  <2>1. r.on /\ r.memory # 0  BY <1>6 DEF CatchesUp, NoValue
  <2>2. PICK w \in Nat, z \in Nat : w = r.memory /\ z = Len(r.list)  BY RecordTypes
  <2>3. PICK q \in Records : /\ q = Fire(p, Flags(l), w, z)
                            /\ q.on = p.on /\ q.memory = w /\ q.fired /\ q.value = w
                            /\ q.repeat = p.repeat
    BY ONLY p \in Records, w \in Nat, z \in Nat, FireLoops
  <2>5. Assigned(c, c2, l, q)
    BY <1>1, <1>2, <1>6, <2>1, <2>2, <2>3 DEF Adds, Assigned
  <2>6. Calms(r, q)  BY <1>3, <2>1, <2>2, <2>3 DEF Calms, Mindful, Quiet
  <2> QED BY ONLY c \in [Lists -> Records], l \in Lists, q \in Records, <1>1, <2>5, <2>6,
             CalmButOne
<1> QED BY <1>4, <1>5, <1>6

\* fireWith(): a quiet list cannot be fired.
LEMMA FireCalm ==
  ASSUME NEW c \in [Lists -> Records], NEW s, NEW l \in Lists, NEW v \in Numbers, NEW c2, NEW s2,
         Fires(c, s, l, v, c2, s2)
  PROVE  AllCalm(c, c2)
<1>1. PICK r \in Records : r = c[l]  OBVIOUS
<1>2. CASE ~CanFire(r)
  <2>1. c2 = c  BY <1>1, <1>2 DEF Fires
  <2> QED BY <2>1, CalmSame
<1>3. CASE CanFire(r)
  <2>1. ~Quiet(r)  BY <1>3 DEF CanFire, Quiet
  <2>2. CASE r.firing
    <3>1. Append(r.stack, v) \in Seq(Numbers)  BY RecordTypes, AppendProperties
    <3>2. PICK q \in Records : q = [r EXCEPT !.stack = Append(r.stack, v)]
      BY <3>1 DEF Records
    <3>3. q.on = r.on /\ q.memory = r.memory /\ q.fired = r.fired /\ q.value = r.value
      BY <3>2 DEF Records
    <3>4. Assigned(c, c2, l, q)  BY <1>1, <1>3, <2>2, <3>2 DEF Fires, Assigned
    <3>5. Calms(r, q)  BY <2>1, <3>3 DEF Calms, Mindful
    <3> QED
      BY ONLY c \in [Lists -> Records], l \in Lists, q \in Records, <1>1, <3>4, <3>5, CalmButOne
  <2>3. CASE ~r.firing
    <3>1. v \in Nat /\ 0 \in Nat  BY DEF Numbers
    <3>2. PICK q \in Records : q = Fire(r, Flags(l), v, 0) /\ q.memory = v /\ q.fired /\ q.value = v
      BY ONLY r \in Records, <3>1, FireLoops
    <3>3. Assigned(c, c2, l, q)  BY <1>1, <1>3, <2>3, <3>2 DEF Fires, Assigned
    <3>4. Calms(r, q)  BY <2>1, <3>2 DEF Calms, Mindful
    <3> QED
      BY ONLY c \in [Lists -> Records], l \in Lists, q \in Records, <1>1, <3>3, <3>4, CalmButOne
  <2> QED BY <2>2, <2>3
<1> QED BY <1>2, <1>3

\* A list is disabled, or locked, or a loop goes on.
LEMMA FadeCalm ==
  ASSUME NEW c \in [Lists -> Records], NEW l \in Lists, NEW c2,
         \/ Assigned(c, c2, l, Disabled(c[l]))
         \/ Assigned(c, c2, l, Locked(c[l]))
         \/ Stepped(c, c2, l)
  PROVE  AllCalm(c, c2)
<1>1. PICK r \in Records : r = c[l]  OBVIOUS
<1>2. CASE Assigned(c, c2, l, Disabled(c[l]))
  <2>1. PICK q : q = Disabled(r)  OBVIOUS
  <2>2. q \in Records /\ ~q.on /\ q.value = r.value  BY <2>1, DisabledFacts
  <2>3. Assigned(c, c2, l, q)  BY <1>1, <1>2, <2>1
  <2>4. Calms(r, q)  BY <2>2 DEF Calms, Mindful, Quiet
  <2> QED BY ONLY c \in [Lists -> Records], l \in Lists, <1>1, <2>2, <2>3, <2>4, CalmButOne
<1>3. CASE Assigned(c, c2, l, Locked(c[l]))
  <2>1. PICK q : q = Locked(r)  OBVIOUS
  <2>2. /\ q \in Records /\ q.fired = r.fired /\ q.memory = r.memory /\ q.value = r.value
        /\ ~q.repeat
        /\ r.memory = 0 => ~q.on
        /\ r.memory # 0 => q.on = r.on
    BY <2>1, LockedFacts
  <2>3. Assigned(c, c2, l, q)  BY <1>1, <1>3, <2>1
  <2>4. Calms(r, q)  BY <2>2 DEF Calms, Mindful, Quiet
  <2> QED BY ONLY c \in [Lists -> Records], l \in Lists, <1>1, <2>2, <2>3, <2>4, CalmButOne
<1>4. CASE Stepped(c, c2, l)
  <2>1. /\ But(c, c2, l)
        /\ c2[l].on = c[l].on /\ c2[l].memory = c[l].memory /\ c2[l].fired = c[l].fired
        /\ c2[l].value = c[l].value /\ c2[l].repeat = c[l].repeat
    BY ONLY c \in [Lists -> Records], l \in Lists, <1>4, SteppedFacts
  <2>2. Calms(c[l], c2[l])  BY <2>1 DEF Calms, Mindful, Quiet
  <2>3. ASSUME NEW m \in Lists PROVE Calms(c[m], c2[m])
    <3>1. m # l => c2[m] = c[m]  BY <2>1 DEF But
    <3> QED BY <2>2, <3>1 DEF Calms
  <2> QED BY <2>3 DEF AllCalm
<1> QED BY <1>2, <1>3, <1>4

\* A lock leaves a list quiet.
LEMMA LockQuiet ==
  ASSUME NEW r \in Records, Mindful(r)
  PROVE  Quiet(Locked(r)) /\ Locked(r).value = r.value
<1>1. PICK q : q = Locked(r)  OBVIOUS
<1>2. /\ q \in Records /\ q.fired = r.fired /\ q.value = r.value /\ ~q.repeat
      /\ r.memory = 0 => ~q.on
      /\ r.memory # 0 => q.on = r.on
  BY <1>1, LockedFacts
<1>3. Quiet(q)  BY <1>2 DEF Quiet, Mindful
<1> QED BY <1>1, <1>2, <1>3

\* The end of a loop fires a list again only if it is not quiet.
LEMMA EndCalm ==
  ASSUME NEW c \in [Lists -> Records], NEW l \in Lists, NEW c2, Finishes(c, c2, l),
         c[l].on, c[l].memory # 0
  PROVE  AllCalm(c, c2)
<1>1. PICK r \in Records : r = c[l]  OBVIOUS
<1>2. PICK q : q = Finished(r, Flags(l))  OBVIOUS
<1>3. /\ q \in Records /\ q.on /\ q.repeat = r.repeat
      /\ q.firing => r.repeat /\ q.fired /\ q.memory = q.value
      /\ ~q.firing => q.memory = r.memory /\ q.value = r.value /\ q.fired = r.fired
  BY <1>1, <1>2, FinishedFacts
<1>4. Assigned(c, c2, l, q)  BY <1>1, <1>2 DEF Finishes, Assigned
<1>5. Calms(r, q)  BY <1>1, <1>3 DEF Calms, Mindful, Quiet
<1> QED BY ONLY c \in [Lists -> Records], l \in Lists, <1>1, <1>3, <1>4, <1>5, CalmButOne

\* The loop over the list of an outcome has yet to lock the list of the news.
AtLock(c, s, d) ==
    \E k \in Ends :
       /\ s # <<>> /\ s[Len(s)].at = "next" /\ s[Len(s)].list = <<d, k>>
       /\ c[<<d, k>>].index \in {1, 2} /\ Begins(c[<<d, k>>].list, d, k)

\* A deferred object that has an outcome has no more news, or is about to have none.
NewsRight(c, s, st) ==
    /\ \A l \in Lists : Mindful(c[l])
    /\ \A d \in Defs : st[d] = "pending" \/ Quiet(c[<<d, "progress">>]) \/ AtLock(c, s, d)
NoNews == NewsRight(cb, calls, state)

LEMMA ProgressLists == \A d \in Defs : <<d, "progress">> \in Lists
BY DEF Lists, Kinds

\* Outside that stretch a step that fires no quiet list brings no news too late.
LEMMA StillNews ==
  ASSUME NoNews, AllCalm(cb, cb'), state' = state, \A d \in Defs : ~AtLock(cb, calls, d)
  PROVE  NoNews' /\ NewsBeforeOutcome
<1>1. PICK c2, s2 : c2 = cb' /\ s2 = calls'  OBVIOUS
<1>2. AllCalm(cb, c2) /\ NewsRight(cb, calls, state)  BY <1>1 DEF NoNews
<1>3. \A l \in Lists : Mindful(cb[l]) /\ Mindful(c2[l])  BY <1>2 DEF AllCalm, Calms, NewsRight
<1>4. ASSUME NEW d \in Defs, state[d] # "pending"
      PROVE  /\ Quiet(c2[<<d, "progress">>])
             /\ c2[<<d, "progress">>].value = cb[<<d, "progress">>].value
  <2>1. PICK l \in Lists : l = <<d, "progress">>  BY ProgressLists
  <2>2. Quiet(cb[l])  BY <1>2, <1>4, <2>1 DEF NewsRight
  <2> QED BY <1>2, <1>3, <2>1, <2>2 DEF AllCalm, Calms
<1>5. NewsRight(c2, s2, state)  BY <1>3, <1>4 DEF NewsRight
<1> QED BY <1>1, <1>4, <1>5 DEF NoNews, NewsBeforeOutcome

\* What is called in that stretch.
LEMMA LockNext ==
  ASSUME IInv, NEW d \in Defs, AtLock(cb, calls, d)
  PROVE  /\ Firing /\ MoreToCall(cb[Top.list])
         /\ \E k \in Ends :
               /\ Top.list = <<d, k>> /\ Begins(cb[<<d, k>>].list, d, k)
               /\ \/ cb[<<d, k>>].index = 1 /\ Fn = <<"disable", d, Other(k)>>
                  \/ cb[<<d, k>>].index = 2 /\ Fn = <<"lock", d, "progress">>
<1>1. PICK k \in Ends :
         /\ calls # <<>> /\ calls[Len(calls)].at = "next" /\ calls[Len(calls)].list = <<d, k>>
         /\ cb[<<d, k>>].index \in {1, 2} /\ Begins(cb[<<d, k>>].list, d, k)
  BY DEF AtLock
<1>2. PICK l : l = <<d, k>>  OBVIOUS
<1>3. Good(cb, calls, state, listeners, told, ops) /\ AtList(calls, l)
  BY <1>1, <1>2 DEF IInv, AtList
<1>4. cb[l].on /\ cb[l].length = Len(cb[l].list) /\ cb[l] \in Records  BY <1>3, Loops
<1>5. PICK r \in Records : r = cb[l]  BY <1>4
<1>6. Top.list = l /\ Firing  BY <1>1, <1>2 DEF Top, Last, Firing
<1>7. Len(r.list) \in Nat /\ Len(r.list) >= 3 /\ r.index \in {1, 2}
  BY <1>1, <1>2, <1>5, RecordTypes DEF Begins
<1>8. r.index < Len(r.list)  BY ONLY <1>7
<1>9. MoreToCall(cb[l])  BY <1>4, <1>5, <1>8 DEF MoreToCall
<1>10. \/ r.index = 1 /\ r.list[r.index + 1] = <<"disable", d, Other(k)>>
       \/ r.index = 2 /\ r.list[r.index + 1] = <<"lock", d, "progress">>
  <2>1. Begins(r.list, d, k)  BY ONLY <1>1, <1>2, <1>5
  <2>2. r.list[2] = <<"disable", d, Other(k)>> /\ r.list[3] = <<"lock", d, "progress">>
    BY ONLY <2>1 DEF Begins
  <2>3. CASE r.index = 1
    <3>1. r.index + 1 = 2  BY ONLY <2>3
    <3> QED BY ONLY <2>2, <2>3, <3>1
  <2>4. CASE r.index = 2
    <3>1. r.index + 1 = 3  BY ONLY <2>4
    <3> QED BY ONLY <2>2, <2>4, <3>1
  <2> QED BY ONLY <1>7, <2>3, <2>4
<1>11. Fn = r.list[r.index + 1]  BY <1>5, <1>6 DEF Fn
<1> QED BY <1>1, <1>2, <1>5, <1>6, <1>9, <1>10, <1>11

\* The calls of a script fire no quiet list.
LEMMA ScriptCalm ==
  ASSUME IInv, RunScript
  PROVE  AllCalm(cb, cb') /\ state' = state
<1>1. Good(cb, calls, state, listeners, told, ops) /\ cb \in [Lists -> Records]
  BY DEF IInv, Good, Right
<1>2. /\ calls # <<>> /\ Top = calls[Len(calls)] /\ calls[Len(calls)].at = "script"
      /\ state' = state
  BY DEF RunScript, Top, Last
<1>3. PICK c2, s2 : c2 = cb' /\ s2 = calls'  OBVIOUS
<1>4. SUFFICES AllCalm(cb, c2)  BY <1>2, <1>3
<1>5. CASE c2 = cb  BY <1>5, CalmSame
<1>6. CASE Top.todo = <<>>  BY <1>3, <1>5, <1>6 DEF RunScript
<1>7. CASE Top.todo # <<>>
  <2>1. PICK do : do = Head(Top.todo)  OBVIOUS
  <2>2. PICK s : s = [calls EXCEPT ![Len(calls)].todo = Tail(@)]  OBVIOUS
  <2>3. Advanced(calls, s) /\ calls[Len(calls)].todo # <<>> /\ do = Head(calls[Len(calls)].todo)
    BY <1>2, <1>7, <2>1, <2>2 DEF Advanced
  <2>4. do \in Todo  BY <1>1, <1>2, <2>3, AdvanceGood
  <2>5. \/ do[1] = "add" /\ DoAdd(cb, s, do[2], do[3])
        \/ do[1] = "fire" /\ DoFire(cb, s, do[2], do[3])
        \/ do[1] = "expect"
        \/ do[1] = "resolveIfNone" /\ (DoFire(cb, s, <<do[2], "done">>, ops + 1) \/ cb' = cb)
    BY <1>7, <2>1, <2>2 DEF RunScript
  <2>6. do[1] # "expect"  BY <2>4 DEF Todo
  <2>7. CASE do[1] = "add"
    <3>1. PICK l \in Lists, f \in Added : do = <<"add", l, f>>  BY <2>4, <2>7 DEF Todo
    <3>2. Adds(cb, s, l, f, c2, s2)  BY <1>3, <2>5, <3>1 DEF DoAdd, Adds
    <3> QED BY ONLY l \in Lists, f \in Added, <1>1, <3>2, AddCalm
  <2>8. CASE do[1] = "fire"
    <3>1. PICK l \in Lists, v \in Numbers : do = <<"fire", l, v>>  BY <2>4, <2>8 DEF Todo
    <3>2. Fires(cb, s, l, v, c2, s2)  BY <1>3, <2>5, <3>1 DEF DoFire, Fires
    <3> QED BY ONLY l \in Lists, v \in Numbers, <1>1, <3>2, FireCalm
  <2>9. CASE do[1] = "resolveIfNone"
    <3>1. PICK m \in Defs : do = <<"resolveIfNone", m>>  BY <2>4, <2>9 DEF Todo
    <3>2. PICK l \in Lists : l = <<m, "done">>  BY DEF Lists, Kinds
    <3>3. PICK v \in Numbers : v = ops + 1  BY OpsNumber
    <3>4. CASE DoFire(cb, s, <<do[2], "done">>, ops + 1)
      <4>1. Fires(cb, s, l, v, c2, s2)  BY <1>3, <3>1, <3>2, <3>3, <3>4 DEF DoFire, Fires
      <4> QED BY ONLY l \in Lists, v \in Numbers, <1>1, <4>1, FireCalm
    <3> QED BY <1>3, <1>5, <2>5, <2>9, <3>4
  <2> QED BY <2>5, <2>6, <2>7, <2>8, <2>9
<1> QED BY <1>6, <1>7

\* Nor does what then() without a function does.
LEMMA ForwardCalm ==
  ASSUME IInv, Forward
  PROVE  AllCalm(cb, cb') /\ state' = state
<1>1. /\ Firing /\ MoreToCall(cb[Top.list]) /\ state' = state
      /\ Good(cb, calls, state, listeners, told, ops) /\ cb \in [Lists -> Records]
  BY DEF IInv, Good, Right, Forward
<1>2. PICK l, g : l = Top.list /\ g = Fn  OBVIOUS
<1>3. g[1] = "then" /\ DoFire(Passed, calls, <<g[2], g[3]>>, FiredWith)
  BY <1>2 DEF Forward
<1>4. PICK c, c2, s2 : c = Passed /\ c2 = cb' /\ s2 = calls'  OBVIOUS
<1>5. AtFunction(cb, calls, l, g) /\ l \in Lists /\ Stepped(cb, c, l)
  BY <1>1, <1>2, <1>4, AtFn
<1>6. c \in [Lists -> Records]
  <2>1. But(cb, c, l)  BY ONLY <1>1, <1>5, SteppedFacts
  <2> QED BY <2>1 DEF But
<1>7. AllCalm(cb, c)  BY ONLY <1>1, <1>5, FadeCalm
<1>8. g \in Added \cup Own  BY ONLY <1>1, <1>5, OwnStages
<1>9. PICK m \in Lists : m = <<g[2], g[3]>>  BY <1>3, <1>8 DEF Added, Own, Lists
<1>10. PICK v \in Numbers : v = FiredWith  BY <1>1, AtFn
<1>11. Fires(c, calls, m, v, c2, s2)  BY <1>3, <1>4, <1>9, <1>10 DEF DoFire, Fires
<1>12. AllCalm(c, c2)  BY ONLY m \in Lists, v \in Numbers, <1>6, <1>11, FireCalm
<1>13. AllCalm(cb, c2)  BY ONLY <1>7, <1>12, CalmTwice
<1> QED BY <1>1, <1>4, <1>13

\* Nor what follows when a function of the page returns.
LEMMA ReturnCalm ==
  ASSUME IInv, PageReturns
  PROVE  AllCalm(cb, cb') /\ state' = state
<1>1. /\ Good(cb, calls, state, listeners, told, ops) /\ cb \in [Lists -> Records]
      /\ calls # <<>> /\ Top = calls[Len(calls)] /\ calls[Len(calls)].at = "call"
      /\ state' = state
  BY DEF IInv, Good, Right, PageReturns, Top, Last
<1>2. PICK l, g : l = Top.list /\ g = Fn  OBVIOUS
<1>3. AtList(calls, l)  BY <1>1, <1>2 DEF AtList
<1>4. g \in Added /\ IsPage(g) /\ l \in Lists
  <2>1. FrameRight(cb, calls[Len(calls)]) /\ l \in Lists  BY <1>1, <1>3, Loops
  <2> QED BY <1>1, <1>2, <2>1 DEF FrameRight, Fn
<1>5. PICK c, c2, s2 : c = Passed /\ c2 = cb' /\ s2 = calls'  OBVIOUS
<1>6. Stepped(cb, c, l)  BY <1>2, <1>5 DEF Stepped, Passed
<1>7. c \in [Lists -> Records]
  <2>1. But(cb, c, l)  BY ONLY <1>1, <1>4, <1>6, SteppedFacts
  <2> QED BY <2>1 DEF But
<1>8. AllCalm(cb, c)  BY ONLY <1>1, <1>4, <1>6, FadeCalm
<1>9. PICK s : s = [calls EXCEPT ![Len(calls)].at = "next"]  OBVIOUS
<1>10. c2 = c \/ (g[1] = "then" /\ DoFire(c, s, <<g[2], g[3]>>, g[4]))
  BY <1>2, <1>5, <1>9 DEF PageReturns
<1>11. AllCalm(c, c2)
  <2>1. CASE c2 = c  BY <2>1, CalmSame
  <2>2. CASE g[1] = "then" /\ DoFire(c, s, <<g[2], g[3]>>, g[4])
    <3>1. PICK e \in Defs, k \in Kinds, n \in Nat : g = <<"then", e, k, n>>
      BY <1>4, <2>2 DEF Added
    <3>2. PICK v \in Numbers : v = n  BY <1>4, <2>2, <3>1 DEF IsPage, Numbers
    <3>3. PICK m \in Lists : m = <<e, k>>  BY DEF Lists
    <3>4. Fires(c, s, m, v, c2, s2)  BY <1>5, <2>2, <3>1, <3>2, <3>3 DEF DoFire, Fires
    <3> QED BY ONLY m \in Lists, v \in Numbers, <1>7, <3>4, FireCalm
  <2> QED BY <1>10, <2>1, <2>2
<1>12. AllCalm(cb, c2)  BY ONLY <1>8, <1>11, CalmTwice
<1> QED BY <1>1, <1>5, <1>12

\* A function of the code's own: the lock is one.
LEMMA OwnNews ==
  ASSUME IInv, NoNews, CallOwn
  PROVE  NoNews' /\ NewsBeforeOutcome
<1>1. /\ Good(cb, calls, state, listeners, told, ops) /\ cb \in [Lists -> Records]
      /\ Firing /\ MoreToCall(cb[Top.list]) /\ NewsRight(cb, calls, state)
  BY DEF IInv, NoNews, Good, Right, CallOwn
<1>2. PICK l, g : l = Top.list /\ g = Fn  OBVIOUS
<1>3. PICK c, c2, s2, st2 : c = Passed /\ c2 = cb' /\ s2 = calls' /\ st2 = state'  OBVIOUS
<1>4. AtFunction(cb, calls, l, g) /\ l \in Lists /\ Stepped(cb, c, l)
  BY <1>1, <1>2, <1>3, AtFn
<1>5. But(cb, c, l) /\ c[l].index = cb[l].index + 1 /\ c[l].list = cb[l].list
      /\ c[l].value = cb[l].value
  BY ONLY <1>1, <1>4, SteppedFacts
<1>6. c \in [Lists -> Records] /\ \A m \in Lists : c[m].value = cb[m].value
  BY <1>5 DEF But
<1>7. AllCalm(cb, c)  BY ONLY <1>1, <1>4, FadeCalm
<1>8. /\ g \in Added \cup Own
      /\ \/ g[1] \notin {"state", "disable"}
         \/ \E d \in Defs, k \in Ends :
               /\ l = <<d, k>> /\ Starting(cb, calls, state, d, k)
               /\ \/ cb[l].index = 0 /\ g = <<"state", d, Outcome(k)>>
                  \/ cb[l].index = 1 /\ g = <<"disable", d, Other(k)>>
  BY <1>1, <1>4, OwnStages
<1>9. ASSUME NEW d \in Defs, AtLock(cb, calls, d)
      PROVE  \E k \in Ends :
                /\ l = <<d, k>> /\ Begins(cb[l].list, d, k)
                /\ \/ cb[l].index = 1 /\ g = <<"disable", d, Other(k)>>
                   \/ cb[l].index = 2 /\ g = <<"lock", d, "progress">>
  BY <1>2, <1>9, LockNext
<1>10. ASSUME NewsRight(c2, s2, st2), \A m \in Lists : c2[m].value = cb[m].value
       PROVE  NoNews' /\ NewsBeforeOutcome
  BY <1>3, <1>10, ProgressLists DEF NoNews, NewsBeforeOutcome
<1>11. ASSUME AllCalm(c, c2)
       PROVE  /\ AllCalm(cb, c2) /\ \A m \in Lists : Mindful(c2[m])
              /\ \A e \in Defs : Quiet(cb[<<e, "progress">>]) => Quiet(c2[<<e, "progress">>])
  <2>1. AllCalm(cb, c2)  BY ONLY <1>7, <1>11, CalmTwice
  <2> QED BY <1>1, <2>1, ProgressLists DEF AllCalm, Calms, NewsRight
<1>12. g[1] \in {"state", "disable", "lock", "signal", "count"}
       /\ (g[1] # "state" => st2 = state)
  BY <1>2, <1>3 DEF CallOwn
<1>13. CASE g[1] = "state"
  <2>1. PICK d \in Defs, k \in Ends :
           /\ l = <<d, k>> /\ Starting(cb, calls, state, d, k)
           /\ cb[l].index = 0 /\ g = <<"state", d, Outcome(k)>>
    BY <1>8, <1>13
  <2>2. c2 = c /\ s2 = calls /\ st2 = [state EXCEPT ![d] = Outcome(k)]
    BY <1>2, <1>3, <2>1 DEF CallOwn
  <2>3. AllCalm(c, c2)  BY <2>2, CalmSame
  <2>4. AtLock(c2, s2, d)
    <3>1. Begins(c[l].list, d, k) /\ c[l].index = 1  BY <1>5, <2>1 DEF Starting
    <3> QED BY <2>1, <2>2, <3>1 DEF Starting, AtLock
  <2>5. ASSUME NEW e \in Defs, e # d
        PROVE  st2[e] = "pending" \/ Quiet(c2[<<e, "progress">>])
    <3>1. st2[e] = state[e]
      <4>1. state \in [Defs -> {"pending", "resolved", "rejected"}]  BY <1>1 DEF Good, Staged
      <4> QED BY <2>2, <2>5, <4>1
    <3>2. ~AtLock(cb, calls, e)
      <4>1. ASSUME AtLock(cb, calls, e) PROVE FALSE
        <5>1. PICK i \in Ends : l = <<e, i>>  BY <1>9, <4>1
        <5> QED BY <2>1, <2>5, <5>1
      <4> QED BY <4>1
    <3> QED BY <1>1, <1>11, <2>3, <3>1, <3>2 DEF NewsRight
  <2>6. NewsRight(c2, s2, st2)  BY <1>11, <2>3, <2>4, <2>5 DEF NewsRight
  <2> QED BY <1>6, <1>10, <2>2, <2>6
<1>14. CASE g[1] = "disable"
  <2>1. PICK d \in Defs, k \in Ends :
           l = <<d, k>> /\ cb[l].index = 1 /\ g = <<"disable", d, Other(k)>>
    BY <1>8, <1>14
  <2>2. PICK m \in Lists : m = <<d, Other(k)>> /\ m # l  BY <2>1, OfLists
  <2>3. c2 = [c EXCEPT ![m] = Disabled(c[m])] /\ s2 = calls
    BY <1>2, <1>3, <2>1, <2>2 DEF CallOwn
  <2>4. AllCalm(c, c2)
    <3>1. Assigned(c, c2, m, Disabled(c[m]))  BY <2>3 DEF Assigned
    <3> QED BY ONLY m \in Lists, <1>6, <3>1, FadeCalm
  <2>5. \A x \in Lists : c2[x].value = cb[x].value
    <3>1. PICK r \in Records : r = c[m]  BY <1>6
    <3>2. Disabled(r).value = r.value  BY DisabledFacts
    <3>3. c2[m] = Disabled(r) /\ \A x \in Lists : x # m => c2[x] = c[x]
      BY <1>6, <2>3, <3>1
    <3> QED BY <1>6, <3>1, <3>2, <3>3
  <2>6. ASSUME NEW e \in Defs, AtLock(cb, calls, e) PROVE AtLock(c2, s2, e)
    <3>1. PICK i \in Ends : l = <<e, i>> /\ Begins(cb[l].list, e, i)  BY <1>9, <2>6
    <3>2. c2[l] = c[l]  BY <1>4, <1>6, <2>2, <2>3
    <3>3. c2[l].index = 2 /\ Begins(c2[l].list, e, i)  BY <1>5, <2>1, <3>1, <3>2
    <3>4. calls # <<>> /\ calls[Len(calls)].at = "next" /\ calls[Len(calls)].list = l
      BY <1>4 DEF AtFunction, AtList
    <3> QED BY <2>3, <3>1, <3>3, <3>4 DEF AtLock
  <2>7. NewsRight(c2, s2, st2)
    BY <1>1, <1>11, <1>12, <1>14, <2>4, <2>6 DEF NewsRight
  <2> QED BY <1>10, <2>5, <2>7
<1>15. CASE g[1] = "lock"
  <2>1. PICK d \in Defs : g = <<"lock", d, "progress">>  BY <1>8, <1>15 DEF Added, Own
  <2>2. PICK m \in Lists : m = <<d, "progress">>  BY ProgressLists
  <2>3. c2 = [c EXCEPT ![m] = Locked(c[m])] /\ s2 = calls
    BY <1>2, <1>3, <2>1, <2>2 DEF CallOwn
  <2>4. AllCalm(c, c2)
    <3>1. Assigned(c, c2, m, Locked(c[m]))  BY <2>3 DEF Assigned
    <3> QED BY ONLY m \in Lists, <1>6, <3>1, FadeCalm
  <2>5. PICK r \in Records : r = c[m]  BY <1>6
  <2>6. Quiet(Locked(r)) /\ Locked(r).value = r.value
    <3>1. Mindful(r)  BY <1>1, <1>7, <2>5 DEF AllCalm, Calms, NewsRight
    <3> QED BY <3>1, LockQuiet
  <2>7. c2[m] = Locked(r) /\ \A x \in Lists : x # m => c2[x] = c[x]
    BY <1>6, <2>3, <2>5
  <2>8. \A x \in Lists : c2[x].value = cb[x].value  BY <1>6, <2>5, <2>6, <2>7
  <2>9. ASSUME NEW e \in Defs, AtLock(cb, calls, e) PROVE Quiet(c2[<<e, "progress">>])
    <3>1. g = <<"disable", e, g[3]>> \/ g = <<"lock", e, "progress">>  BY <1>9, <2>9
    <3>2. e = d  BY <2>1, <3>1
    <3> QED BY <2>2, <2>6, <2>7, <3>2
  <2>10. NewsRight(c2, s2, st2)
    BY <1>1, <1>11, <1>12, <1>15, <2>4, <2>9 DEF NewsRight
  <2> QED BY <1>10, <2>8, <2>10
<1>16. CASE g[1] \in {"signal", "count"}
  <2>1. \E m \in Lists : c2 = c \/ DoFire(c, calls, m, FiredWith)
    <3>1. CASE g[1] = "signal"
      <4>1. DoFire(c, calls, <<g[2], g[3]>>, FiredWith)  BY <1>2, <1>3, <3>1 DEF CallOwn
      <4>2. <<g[2], g[3]>> \in Lists  BY <1>8, <3>1 DEF Added, Own, Lists
      <4> QED BY <4>1, <4>2
    <3>2. CASE g[1] = "count"
      <4>1. c2 = c \/ DoFire(c, calls, <<g[2], "done">>, FiredWith)
        BY <1>2, <1>3, <3>2 DEF CallOwn
      <4>2. <<g[2], "done">> \in Lists  BY <1>8, <3>2 DEF Added, Own, Lists, Kinds
      <4> QED BY <4>1, <4>2
    <3> QED BY <1>16, <3>1, <3>2
  <2>2. AllCalm(c, c2)
    <3>1. CASE c2 = c  BY <3>1, CalmSame
    <3>2. ASSUME NEW m \in Lists, DoFire(c, calls, m, FiredWith) PROVE AllCalm(c, c2)
      <4>1. PICK v \in Numbers : v = FiredWith  BY <1>1, AtFn
      <4>2. Fires(c, calls, m, v, c2, s2)  BY <1>3, <3>2, <4>1 DEF DoFire, Fires
      <4> QED BY ONLY m \in Lists, v \in Numbers, <1>6, <4>2, FireCalm
    <3> QED BY <2>1, <3>1, <3>2
  <2>3. AllCalm(cb, cb') /\ state' = state  BY <1>3, <1>11, <1>12, <1>16, <2>2
  <2>4. \A d \in Defs : ~AtLock(cb, calls, d)
    <3>1. ASSUME NEW d \in Defs, AtLock(cb, calls, d) PROVE g[1] \in {"disable", "lock"}
      BY <1>9, <3>1
    <3> QED BY <1>16, <3>1
  <2> QED BY <2>3, <2>4, StillNews
<1> QED BY <1>12, <1>13, <1>14, <1>15, <1>16

\* No step brings news of an object that has an outcome.
LEMMA NewsKept ==
  ASSUME RootsAssumption, IInv, NoNews, [Next]_vars
  PROVE  NoNews' /\ (NewsBeforeOutcome \/ UNCHANGED vars)
<1>1. ASSUME Top.at # "next" \/ calls = <<>> PROVE \A d \in Defs : ~AtLock(cb, calls, d)
  BY <1>1 DEF AtLock, Top, Last
<1>2. ASSUME Firing, MoreToCall(cb[Top.list]) => Fn[1] \notin {"disable", "lock"}
      PROVE  \A d \in Defs : ~AtLock(cb, calls, d)
  <2>1. ASSUME NEW d \in Defs, AtLock(cb, calls, d) PROVE FALSE
    <3>1. PICK g : g = Fn  OBVIOUS
    <3>2. /\ MoreToCall(cb[Top.list])
          /\ \E k \in Ends : g = <<"disable", d, Other(k)>> \/ g = <<"lock", d, "progress">>
      BY <2>1, <3>1, LockNext
    <3>3. g[1] \in {"disable", "lock"}  BY <3>2
    <3> QED BY <1>2, <3>1, <3>2, <3>3
  <2> QED BY <2>1
<1>3. ASSUME cb' = cb PROVE AllCalm(cb, cb')
  BY <1>3, CalmSame
<1>4. ASSUME Calling PROVE NoNews' /\ NewsBeforeOutcome
  <2>1. PICK todo \in Seq(Todo) : PageCalls(todo)  BY <1>4 DEF Calling
  <2>2. InScript /\ cb' = cb /\ state' = state  BY <2>1 DEF PageCalls
  <2>3. Top.at # "next" \/ calls = <<>>  BY <2>2 DEF InScript
  <2> QED BY <1>1, <1>3, <2>2, <2>3, StillNews
<1>5. ASSUME NEW d \in Defs, Always(d) PROVE NoNews' /\ NewsBeforeOutcome
  BY <1>4, <1>5, AlwaysCalls
<1>6. ASSUME NEW d \in Defs, NEW k \in Kinds, Signal(d, k) \/ Listen(d, k)
      PROVE  NoNews' /\ NewsBeforeOutcome
  BY <1>4, <1>6, SignalCalls, ListenCalls
<1>7. ASSUME NEW d \in Defs, NEW c \in Defs, NEW given \in Given, Then(d, c, given)
      PROVE  NoNews' /\ NewsBeforeOutcome
  BY <1>4, <1>7, ThenCalls
<1>8. ASSUME NEW m \in Defs, NEW subs \in SUBSET Defs, When(subs, m)
      PROVE  NoNews' /\ NewsBeforeOutcome
  BY <1>4, <1>8, WhenCalls
<1>9. ASSUME RunScript PROVE NoNews' /\ NewsBeforeOutcome
  <2>1. Top.at # "next"  BY <1>9 DEF RunScript
  <2> QED BY <1>1, <1>9, <2>1, ScriptCalm, StillNews
<1>10. ASSUME CallOwn PROVE NoNews' /\ NewsBeforeOutcome
  BY <1>10, OwnNews
<1>11. ASSUME Forward PROVE NoNews' /\ NewsBeforeOutcome
  <2>1. Firing /\ Fn[1] \notin {"disable", "lock"}  BY <1>11 DEF Forward
  <2> QED BY <1>2, <1>11, <2>1, ForwardCalm, StillNews
<1>12. ASSUME CallPage PROVE NoNews' /\ NewsBeforeOutcome
  <2>1. Firing /\ Fn[1] \notin {"disable", "lock"} /\ cb' = cb /\ state' = state
    BY <1>12 DEF CallPage
  <2> QED BY <1>2, <1>3, <2>1, StillNews
<1>13. ASSUME PageReturns PROVE NoNews' /\ NewsBeforeOutcome
  <2>1. Top.at # "next"  BY <1>13 DEF PageReturns
  <2> QED BY <1>1, <1>13, <2>1, ReturnCalm, StillNews
<1>14. ASSUME EndOfLoop PROVE NoNews' /\ NewsBeforeOutcome
  <2>1. Firing /\ ~MoreToCall(cb[Top.list]) /\ state' = state  BY <1>14 DEF EndOfLoop
  <2>2. PICK l : l = Top.list  OBVIOUS
  <2>3. AtList(calls, l) /\ Good(cb, calls, state, listeners, told, ops)
    BY <2>1, <2>2 DEF Firing, AtList, Top, Last, IInv
  <2>4. cb \in [Lists -> Records]  BY <2>3 DEF Good, Right
  <2>5. l \in Lists /\ cb[l].on /\ cb[l].memory = cb[l].value /\ cb[l].value \in Numbers
    BY <2>3, Loops
  <2>6. cb[l].memory # 0  BY <2>5 DEF Numbers
  <2>7. PICK c2 : c2 = cb'  OBVIOUS
  <2>8. Finishes(cb, c2, l)  BY <1>14, <2>2, <2>7 DEF EndOfLoop, Finishes
  <2>9. AllCalm(cb, c2)  BY ONLY <2>4, <2>5, <2>6, <2>8, EndCalm
  <2> QED BY <1>2, <2>1, <2>7, <2>9, StillNews
<1>15. ASSUME Throw PROVE NoNews' /\ NewsBeforeOutcome
  <2>1. Top.at # "next" /\ cb' = cb /\ state' = state  BY <1>15 DEF Throw
  <2> QED BY <1>1, <1>3, <2>1, StillNews
<1>16. ASSUME UNCHANGED vars PROVE NoNews'
  BY <1>16 DEF vars, NoNews
<1> QED
  BY <1>5, <1>6, <1>7, <1>8, <1>9, <1>10, <1>11, <1>12, <1>13, <1>14, <1>15, <1>16 DEF Next

LEMMA NewsStarts == Init => NoNews
<1> SUFFICES ASSUME Init PROVE NoNews  OBVIOUS
<1>1. ASSUME NEW l \in Lists PROVE Mindful(cb[l])
  <2>1. PICK d \in Defs, k \in Kinds : l = <<d, k>>  BY OfLists
  <2>2. cb[l] = MadeLists(d)[k]  BY <2>1 DEF Init, Lists
  <2>3. cb[l].memory = 0  BY <2>2, MadeFacts
  <2> QED BY <2>3 DEF Mindful
<1>2. \A d \in Defs : state[d] = "pending"  BY DEF Init
<1> QED BY <1>1, <1>2 DEF NoNews, NewsRight

\* The functions added with progress() hear no news of an object after it is settled,
\* not even news that had to wait for a notification under way.
THEOREM NewsBeforeOutcomeHolds == RootsAssumption => (Spec => [][NewsBeforeOutcome]_vars)
<1> SUFFICES ASSUME RootsAssumption PROVE Spec => [][NewsBeforeOutcome]_vars
  OBVIOUS
<1>1. Init => NoNews
  BY NewsStarts
<1>2. IInv /\ NoNews /\ [Next]_vars => NoNews' /\ [NewsBeforeOutcome]_vars
  BY NewsKept
<1>3. Spec => [](IInv /\ Heeding)
  BY DeferredsInvariant
<1> QED
  BY <1>1, <1>2, <1>3, PTL DEF Spec

-----------------------------------------------------------------------------
(* Listeners of one list are told in the order in which they were added.   *)

\* The functions of the page are on a list in the order of their numbers, and none
\* that the loop has yet to pass has a smaller number than one that has been told.
Rising(c, td) ==
    \A d \in Defs, k \in Ends, m \in Numbers, n \in Numbers, q \in Nat : OnList(c, d, k, n, q) =>
       /\ \A p \in Nat : OnList(c, d, k, m, p) /\ p < q => m < n
       /\ Told(td, <<d, k, m>>) /\ (c[<<d, k>>].firing => q > c[<<d, k>>].index) => m <= n

\* No script has yet to add a function of the page to a list that is on.
Unscripted(c, s) ==
    \A d \in Defs, k \in Ends, n \in Numbers, i \in Nat, j \in Nat :
       Scripted(s, d, k, n, i, j) => ~c[<<d, k>>].on

\* Or only the script that is run has, and it is the last call the page has made.
LastScript(c, s, n0) ==
    \A d \in Defs, k \in Ends, n \in Numbers, i \in Nat, j \in Nat :
       Scripted(s, d, k, n, i, j) /\ c[<<d, k>>].on =>
          i = Len(s) /\ n = n0 /\ Foremost(s[i].todo, j, d, k, n)

\* Those told of one list were told in the order of their numbers.
TellOrder(td) ==
    \A i, j \in DOMAIN td :
       i < j /\ td[i][1] = td[j][1] /\ td[i][2] = td[j][2] => td[i][3] < td[j][3]

InOrder == Rising(cb, told) /\ LastScript(cb, calls, ops) /\ TellOrder(told)

\* The lists of outcomes keep their functions or lose all, and no loop goes back.
Recedes(c, c2) ==
    \A d \in Defs, k \in Ends :
       /\ c2[<<d, k>>].on => c[<<d, k>>].on
       /\ \/ c2[<<d, k>>].list = <<>>
          \/ /\ c2[<<d, k>>].list = c[<<d, k>>].list
             /\ c[<<d, k>>].firing => c2[<<d, k>>].firing /\ c[<<d, k>>].index <= c2[<<d, k>>].index

LEMMA RecedesRises ==
  ASSUME NEW c \in [Lists -> Records], NEW c2 \in [Lists -> Records], NEW td,
         Rising(c, td), Recedes(c, c2)
  PROVE  Rising(c2, td)
<1> SUFFICES ASSUME NEW d \in Defs, NEW k \in Ends, NEW m \in Numbers, NEW n \in Numbers,
                    NEW q \in Nat, OnList(c2, d, k, n, q)
             PROVE  /\ \A p \in Nat : OnList(c2, d, k, m, p) /\ p < q => m < n
                    /\ Told(td, <<d, k, m>>) /\ (c2[<<d, k>>].firing => q > c2[<<d, k>>].index)
                       => m <= n
  BY DEF Rising
<1>1. PICK r \in Records, r2 \in Records : r = c[<<d, k>>] /\ r2 = c2[<<d, k>>]  BY OfLists
<1>2. r2.list # <<>>
  <2>1. q \in DOMAIN r2.list  BY <1>1 DEF OnList
  <2> QED BY <2>1, RecordTypes
<1>3. r2.list = r.list /\ (r.firing => r2.firing /\ r.index <= r2.index)
  BY <1>1, <1>2 DEF Recedes
<1>4. \A x, p : OnList(c2, d, k, x, p) => OnList(c, d, k, x, p)  BY <1>1, <1>3 DEF OnList
<1>5. r.index \in Nat /\ r2.index \in Nat  BY RecordTypes
<1>6. (c2[<<d, k>>].firing => q > c2[<<d, k>>].index) => (c[<<d, k>>].firing => q > c[<<d, k>>].index)
  BY <1>1, <1>3, <1>5
<1> QED BY <1>4, <1>6 DEF Rising

LEMMA RecedesSame == ASSUME NEW c \in [Lists -> Records] PROVE Recedes(c, c)
<1>1. ASSUME NEW d \in Defs, NEW k \in Ends
      PROVE  c[<<d, k>>].index <= c[<<d, k>>].index
  <2>1. PICK r \in Records : r = c[<<d, k>>]  BY OfLists
  <2>2. r.index \in Nat  BY RecordTypes
  <2> QED BY <2>1, <2>2
<1>2. PICK c2 : c2 = c  OBVIOUS
<1>3. Recedes(c, c2)
  <2>1. ASSUME NEW d \in Defs, NEW k \in Ends PROVE c[<<d, k>>].index <= c2[<<d, k>>].index
    BY <1>1, <1>2
  <2>2. \A d \in Defs, k \in Ends : c2[<<d, k>>] = c[<<d, k>>]  BY <1>2
  <2> QED BY ONLY <2>1, <2>2, Zenon DEF Recedes
<1> QED BY <1>2, <1>3

\* If only list l changes, that is seen on l.
LEMMA RecedesButOne ==
  ASSUME NEW c \in [Lists -> Records], NEW l \in Lists, NEW r \in Records, NEW q \in Records,
         NEW c2, r = c[l], Assigned(c, c2, l, q), q.on => r.on,
         l[2] \in Ends => \/ q.list = <<>>
                          \/ q.list = r.list /\ (r.firing => q.firing /\ r.index <= q.index)
  PROVE  c2 \in [Lists -> Records] /\ Recedes(c, c2)
<1>1. But(c, c2, l) /\ c2[l] = q  BY ButOne DEF Assigned
<1>2. c2 \in [Lists -> Records] /\ \A m \in Lists : m # l => c2[m] = c[m]  BY <1>1 DEF But
<1>3. Recedes(c, c)  BY RecedesSame
<1>4. ASSUME NEW d \in Defs, NEW k \in Ends
      PROVE  /\ c2[<<d, k>>].on => c[<<d, k>>].on
             /\ \/ c2[<<d, k>>].list = <<>>
                \/ /\ c2[<<d, k>>].list = c[<<d, k>>].list
                   /\ c[<<d, k>>].firing =>
                         c2[<<d, k>>].firing /\ c[<<d, k>>].index <= c2[<<d, k>>].index
  <2>1. <<d, k>> \in Lists  BY OfLists
  <2>2. CASE <<d, k>> = l
    <3>1. l[2] = k  BY <2>2
    <3> QED BY <1>1, <2>2, <3>1
  <2>3. CASE <<d, k>> # l
    <3>1. c2[<<d, k>>] = c[<<d, k>>]  BY <1>2, <2>1, <2>3
    <3> QED BY <1>3, <3>1 DEF Recedes
  <2> QED BY <2>2, <2>3
<1> QED BY <1>2, <1>4 DEF Recedes

\* fireWith() starts a loop at most.
Started(s, s2, l) == s2 = s \/ s2 = Append(s, Frame(l))

LEMMA FireRecedes ==
  ASSUME NEW c \in [Lists -> Records], NEW s, NEW l \in Lists, NEW v \in Numbers, NEW c2, NEW s2,
         Fires(c, s, l, v, c2, s2)
  PROVE  c2 \in [Lists -> Records] /\ Recedes(c, c2) /\ Started(s, s2, l)
<1>1. PICK r \in Records : r = c[l]  BY c \in [Lists -> Records]
<1>2. r.index \in Nat  BY RecordTypes
<1>3. CASE ~CanFire(r)
  <2>1. c2 = c /\ s2 = s  BY <1>1, <1>3 DEF Fires
  <2> QED BY <2>1, RecedesSame DEF Started
<1>4. CASE CanFire(r) /\ r.firing
  <2>1. Append(r.stack, v) \in Seq(Numbers)  BY RecordTypes, AppendProperties
  <2>2. PICK q \in Records : q = [r EXCEPT !.stack = Append(r.stack, v)]  BY <2>1 DEF Records
  <2>3. q.on = r.on /\ q.list = r.list /\ q.firing = r.firing /\ q.index = r.index
    BY <2>2 DEF Records
  <2>4. Assigned(c, c2, l, q) /\ s2 = s  BY <1>1, <1>4, <2>2 DEF Fires, Assigned
  <2>5. (q.on => r.on) /\ q.list = r.list /\ (r.firing => q.firing /\ r.index <= q.index)
    BY <1>2, <2>3
  <2>6. c2 \in [Lists -> Records] /\ Recedes(c, c2)
    BY ONLY c \in [Lists -> Records], l \in Lists, r \in Records, q \in Records,
            <1>1, <2>4, <2>5, RecedesButOne
  <2> QED BY <2>4, <2>6 DEF Started
<1>5. CASE CanFire(r) /\ ~r.firing
  <2>1. v \in Nat /\ 0 \in Nat  BY DEF Numbers
  <2>2. PICK q \in Records : q = Fire(r, Flags(l), v, 0) /\ q.list = r.list /\ q.on = r.on
    BY ONLY r \in Records, <2>1, FireLoops
  <2>3. Assigned(c, c2, l, q) /\ s2 = Append(s, Frame(l))
    BY <1>1, <1>5, <2>2 DEF Fires, Assigned
  <2>4. (q.on => r.on) /\ q.list = r.list /\ (r.firing => q.firing /\ r.index <= q.index)
    BY <1>5, <2>2
  <2>5. c2 \in [Lists -> Records] /\ Recedes(c, c2)
    BY ONLY c \in [Lists -> Records], l \in Lists, r \in Records, q \in Records,
            <1>1, <2>3, <2>4, RecedesButOne
  <2> QED BY <2>3, <2>5 DEF Started
<1> QED BY <1>3, <1>4, <1>5

\* A list is disabled, or locked, or a loop goes on.
LEMMA FadeRecedes ==
  ASSUME NEW c \in [Lists -> Records], NEW l \in Lists, NEW c2,
         \/ Assigned(c, c2, l, Disabled(c[l]))
         \/ Assigned(c, c2, l, Locked(c[l]))
         \/ Stepped(c, c2, l)
  PROVE  c2 \in [Lists -> Records] /\ Recedes(c, c2)
<1>1. PICK r \in Records : r = c[l]  BY c \in [Lists -> Records]
<1>2. r.index \in Nat  BY RecordTypes
<1>3. CASE Assigned(c, c2, l, Disabled(c[l]))
  <2>1. PICK q : q = Disabled(r)  OBVIOUS
  <2>2. q \in Records /\ ~q.on /\ q.list = <<>>  BY <2>1, DisabledFacts
  <2>3. Assigned(c, c2, l, q)  BY <1>1, <1>3, <2>1
  <2> QED BY ONLY c \in [Lists -> Records], l \in Lists, r \in Records, <1>1, <2>2, <2>3,
             RecedesButOne
<1>4. CASE Assigned(c, c2, l, Locked(c[l]))
  <2>1. PICK q : q = Locked(r)  OBVIOUS
  <2>2. /\ q \in Records /\ q.firing = r.firing /\ q.index = r.index
        /\ r.memory = 0 => q.list = <<>> /\ ~q.on
        /\ r.memory # 0 => q.list = r.list /\ q.on = r.on
    BY <2>1, LockedFacts
  <2>3. Assigned(c, c2, l, q)  BY <1>1, <1>4, <2>1
  <2>4. /\ q.on => r.on
        /\ q.list = <<>> \/ (q.list = r.list /\ (r.firing => q.firing /\ r.index <= q.index))
    BY <1>2, <2>2
  <2> QED BY ONLY c \in [Lists -> Records], l \in Lists, r \in Records, <1>1, <2>2, <2>3, <2>4,
             RecedesButOne
<1>5. CASE Stepped(c, c2, l)
  <2>1. PICK q : q = [r EXCEPT !.index = @ + 1]  OBVIOUS
  <2>2. /\ q \in Records /\ q.on = r.on /\ q.list = r.list /\ q.firing = r.firing
        /\ q.index = r.index + 1
    BY <2>1, PassedFacts
  <2>3. Assigned(c, c2, l, q)  BY <1>1, <1>5, <2>1 DEF Stepped, Assigned
  <2>4. (q.on => r.on) /\ q.list = r.list /\ (r.firing => q.firing /\ r.index <= q.index)
    BY <1>2, <2>2
  <2> QED BY ONLY c \in [Lists -> Records], l \in Lists, r \in Records, <1>1, <2>2, <2>3, <2>4,
             RecedesButOne
<1> QED BY <1>3, <1>4, <1>5

\* The end of a loop empties the list of an outcome.
LEMMA EndRecedes ==
  ASSUME NEW c \in [Lists -> Records], NEW l \in Lists, NEW c2, Finishes(c, c2, l),
         c[l].on, c[l].memory # 0, ListRight(c[l], l)
  PROVE  c2 \in [Lists -> Records] /\ Recedes(c, c2)
<1>1. PICK r \in Records : r = c[l]  BY c \in [Lists -> Records]
<1>2. PICK q : q = Finished(r, Flags(l))  OBVIOUS
<1>3. q \in Records /\ q.on /\ (~r.repeat => q.list = <<>>)
  BY <1>1, <1>2, FinishedFacts
<1>4. Assigned(c, c2, l, q)  BY <1>1, <1>2 DEF Finishes, Assigned
<1>5. r.on /\ (l[2] \in Ends => q.list = <<>>)  BY <1>1, <1>3 DEF ListRight
<1> QED BY ONLY c \in [Lists -> Records], l \in Lists, r \in Records, <1>1, <1>3, <1>4, <1>5,
           RecedesButOne

\* What is added has a greater number than all that are on the list or were told.
Greatest(c, l, f, td) ==
    \A k \in Ends, m \in Numbers, n \in Numbers :
       l[2] = k /\ f = <<"page", n>> /\ c[l].on
       /\ (Told(td, <<l[1], k, m>>) \/ \E p \in Nat : OnList(c, l[1], k, m, p))
       => m < n

\* add(): the last call of the page has the greatest number, and a loop starts only
\* over a list that was fired.
CaughtUp(c, s, l, s2) == s2 = s \/ (CatchesUp(c[l]) /\ s2 = Append(s, Frame(l)))

LEMMA AddRises ==
  ASSUME NEW c \in [Lists -> Records], NEW s, NEW l \in Lists, NEW f \in Added, NEW td,
         NEW c2, NEW s2, Adds(c, s, l, f, c2, s2), Rising(c, td), Greatest(c, l, f, td)
  PROVE  /\ Rising(c2, td) /\ c2 \in [Lists -> Records] /\ CaughtUp(c, s, l, s2)
         /\ \A x \in Lists : c2[x].on => c[x].on
<1>1. PICK r \in Records : r = c[l]  BY c \in [Lists -> Records]
<1>2. CASE ~r.on
  <2>1. c2 = c /\ s2 = s  BY <1>1, <1>2 DEF Adds
  <2> QED BY <2>1 DEF CaughtUp
<1>3. CASE r.on
  <2>1. PICK w \in Records : w = Pushed(r, Flags(l), f)  BY PushedFacts
  <2>2. /\ Len(w.list) = Len(r.list) + 1 /\ w.list[Len(r.list) + 1] = f
        /\ \A i \in DOMAIN r.list : i \in DOMAIN w.list /\ w.list[i] = r.list[i]
        /\ DOMAIN w.list = 1 .. Len(r.list) + 1 /\ DOMAIN r.list = 1 .. Len(r.list)
        /\ w.on = r.on /\ w.firing = r.firing /\ w.index = r.index
    BY <2>1, PushedFacts
  <2>3. PICK z \in Nat : z = Len(r.list)  BY RecordTypes
  <2>4. \E q \in Records : /\ Assigned(c, c2, l, q) /\ q.list = w.list /\ q.on = r.on
                           /\ r.firing => q.firing /\ q.index = r.index
                           /\ s2 = s \/ (CatchesUp(c[l]) /\ s2 = Append(s, Frame(l)))
    <3>1. CASE ~CatchesUp(r)
      <4>1. Assigned(c, c2, l, w) /\ s2 = s  BY <1>1, <1>3, <2>1, <3>1 DEF Adds, Assigned
      <4> QED BY <2>2, <4>1
    <3>2. CASE CatchesUp(r)
      <4>1. PICK v \in Nat : v = r.memory  BY RecordTypes
      <4>2. PICK q \in Records : q = Fire(w, Flags(l), v, z) /\ q.list = w.list /\ q.on = w.on
        BY ONLY w \in Records, v \in Nat, z \in Nat, FireLoops
      <4>3. Assigned(c, c2, l, q) /\ s2 = Append(s, Frame(l))
        BY <1>1, <1>3, <2>1, <2>3, <3>2, <4>1, <4>2 DEF Adds, Assigned
      <4>4. ~r.firing  BY <3>2 DEF CatchesUp
      <4> QED BY <1>1, <2>2, <3>2, <4>2, <4>3, <4>4
    <3> QED BY <3>1, <3>2
  <2>5. PICK q \in Records : /\ Assigned(c, c2, l, q) /\ q.list = w.list /\ q.on = r.on
                             /\ r.firing => q.firing /\ q.index = r.index
    BY <2>4
  <2>6. But(c, c2, l) /\ c2[l] = q  BY <2>5, ButOne DEF Assigned
  <2>7. c2 \in [Lists -> Records] /\ \A m \in Lists : m # l => c2[m] = c[m]  BY <2>6 DEF But
  <2>8. \A x \in Lists : c2[x].on => c[x].on  BY <1>1, <2>5, <2>6, <2>7
  <2>9. ASSUME NEW d \in Defs, NEW k \in Ends, NEW m \in Numbers, NEW n \in Numbers,
               NEW y \in Nat, OnList(c2, d, k, n, y)
        PROVE  /\ \A p \in Nat : OnList(c2, d, k, m, p) /\ p < y => m < n
               /\ Told(td, <<d, k, m>>) /\ (c2[<<d, k>>].firing => y > c2[<<d, k>>].index)
                  => m <= n
    <3>0. <<d, k>> \in Lists  BY OfLists
    <3>1. CASE <<d, k>> # l
      <4>1. c2[<<d, k>>] = c[<<d, k>>]  BY <2>7, <3>0, <3>1
      <4>2. OnList(c, d, k, n, y)  BY <2>9, <4>1 DEF OnList
      <4>3. \A p \in Nat : OnList(c2, d, k, m, p) => OnList(c, d, k, m, p)  BY <4>1 DEF OnList
      <4> QED BY <4>1, <4>2, <4>3 DEF Rising
    <3>2. CASE <<d, k>> = l
      <4>0. c[<<d, k>>] = r /\ c2[<<d, k>>] = q /\ l[1] = d /\ l[2] = k  BY <1>1, <2>6, <3>2
      <4>1. ASSUME NEW p \in Nat, NEW x, OnList(c2, d, k, x, p), p # z + 1
            PROVE  OnList(c, d, k, x, p)
        <5>1. p \in 1 .. z + 1 /\ w.list[p] = <<"page", x>>
          BY <2>2, <2>3, <2>5, <4>0, <4>1 DEF OnList
        <5>2. p \in 1 .. z  BY <4>1, <5>1
        <5> QED BY <2>2, <2>3, <4>0, <5>1, <5>2 DEF OnList
      <4>2. \A p \in Nat : \A x : OnList(c2, d, k, x, p) => p <= z + 1
        BY <2>2, <2>3, <2>5, <4>0 DEF OnList
      <4>3. CASE y # z + 1
        <5>1. OnList(c, d, k, n, y)  BY <2>9, <4>1, <4>3
        <5>2. y < z + 1
          <6>1. y <= z + 1  BY <2>9, <4>2
          <6> QED BY <4>3, <6>1
        <5>3. ASSUME NEW p \in Nat, OnList(c2, d, k, m, p), p < y PROVE m < n
          <6>1. p # z + 1  BY <5>2, <5>3
          <6>2. OnList(c, d, k, m, p)  BY <4>1, <5>3, <6>1
          <6> QED BY <5>1, <5>3, <6>2 DEF Rising
        <5>4. (q.firing => y > q.index) => (r.firing => y > r.index)  BY <2>5
        <5> QED BY <4>0, <5>1, <5>3, <5>4 DEF Rising
      <4>4. CASE y = z + 1
        <5>1. f = <<"page", n>>  BY <2>2, <2>3, <2>5, <2>9, <4>0, <4>4 DEF OnList
        <5>2. ASSUME NEW p \in Nat, OnList(c2, d, k, m, p), p < y PROVE m < n
          <6>1. OnList(c, d, k, m, p)  BY <4>1, <4>4, <5>2
          <6> QED BY <1>1, <1>3, <4>0, <5>1, <6>1 DEF Greatest
        <5>3. Told(td, <<d, k, m>>) => m < n  BY <1>1, <1>3, <4>0, <5>1 DEF Greatest
        <5>4. m < n => m <= n  BY DEF Numbers
        <5> QED BY <5>2, <5>3, <5>4
      <4> QED BY <4>3, <4>4
    <3> QED BY <3>1, <3>2
  <2>10. Rising(c2, td)  BY <2>9 DEF Rising
  <2> QED BY <2>4, <2>7, <2>8, <2>10 DEF CaughtUp
<1> QED BY <1>2, <1>3

\* The function that the loop calls has not been told, and no later one has.
LEMMA CallRises ==
  ASSUME NEW c, NEW s, NEW st, NEW ls, NEW td \in Seq(Tellings), NEW n0, NEW l, NEW g, NEW td2,
         Good(c, s, st, ls, td, n0), AtFunction(c, s, l, g), g \in Added \cup Own,
         Tells(c, td, td2, l, g), Rising(c, td), TellOrder(td)
  PROVE  Rising(c, td2) /\ TellOrder(td2)
<1>1. CASE td2 = td  BY <1>1
<1>2. CASE l[2] # "progress" /\ g[1] = "page"
  <2>1. /\ l \in Lists /\ c[l] \in Records /\ c[l].on /\ c[l].firing /\ c[l].value \in Numbers
        /\ Len(s) \in DOMAIN s /\ c \in [Lists -> Records]
    BY Loops DEF AtFunction, Good, Right
  <2>2. PICK d \in Defs, k \in Ends : l = <<d, k>> /\ d = l[1] /\ k = l[2]
    BY <1>2, <2>1, OfLists
  <2>3. PICK n \in Numbers : g = <<"page", n>>
    BY <1>2 DEF Added, Own
  <2>4. PICK p \in Nat : p = c[l].index + 1
    BY <2>1, RecordTypes
  <2>5. OnList(c, d, k, n, p)
    <3>1. c[l].index \in Nat /\ DOMAIN c[l].list = 1 .. Len(c[l].list) /\ Len(c[l].list) \in Nat
      BY <2>1, RecordTypes
    <3>2. p \in DOMAIN c[l].list  BY <2>4, <3>1 DEF AtFunction
    <3> QED BY <2>2, <2>3, <2>4, <3>2 DEF AtFunction, OnList
  <2>6. ~Told(td, <<d, k, n>>)
    <3>1. ~Past(c, s, d, k, p)
      <4>1. c[l].index \in Nat  BY <2>1, RecordTypes
      <4>2. ~(p <= c[l].index)  BY <2>4, <4>1
      <4> QED BY <2>1, <2>2, <4>2 DEF Past, AtFunction, AtList
    <3>2. Token(c, s, ls, td, n0, d, k, n)  BY DEF Good, Tokens
    <3> QED BY <2>5, <3>1, <3>2 DEF Token
  <2>7. ASSUME NEW m \in Numbers, Told(td, <<d, k, m>>) PROVE m < n
    <3>1. c[l].index \in Nat  BY <2>1, RecordTypes
    <3>2. p > c[l].index  BY <2>4, <3>1
    <3>3. m <= n  BY <2>2, <2>5, <2>7, <3>2 DEF Rising
    <3>4. m # n  BY <2>6, <2>7
    <3> QED BY <3>3, <3>4 DEF Numbers
  <2>8. PICK v \in Numbers : v = c[l].value  BY <2>1
  <2>9. Hears(td, td2, d, k, n, v)  BY <1>2, <2>2, <2>3, <2>8 DEF Tells, Hears
  <2>10. /\ td2 \in Seq(Tellings)
         /\ \A x, y, z : Told(td2, <<x, y, z>>) <=>
               Told(td, <<x, y, z>>) \/ (x = d /\ y = k /\ z = n)
    BY ONLY d \in Defs, k \in Ends, n \in Numbers, v \in Numbers, td \in Seq(Tellings), <2>9,
            ToldOnce
  <2>11. Rising(c, td2)
    <3>1. SUFFICES ASSUME NEW d1 \in Defs, NEW k1 \in Ends, NEW m \in Numbers,
                          NEW n1 \in Numbers, NEW q \in Nat, OnList(c, d1, k1, n1, q),
                          Told(td2, <<d1, k1, m>>), c[<<d1, k1>>].firing => q > c[<<d1, k1>>].index
                   PROVE  m <= n1
      BY DEF Rising
    <3>2. CASE Told(td, <<d1, k1, m>>)  BY <3>1, <3>2 DEF Rising
    <3>3. CASE d1 = d /\ k1 = k /\ m = n
      <4>1. q > c[l].index /\ c[l].index \in Nat  BY <2>1, <2>2, <3>1, <3>3, RecordTypes
      <4>2. p < q \/ p = q  BY <2>4, <4>1
      <4>3. CASE p < q
        <5>1. n < n1  BY <2>5, <3>1, <3>3, <4>3 DEF Rising
        <5> QED BY <3>3, <5>1 DEF Numbers
      <4>4. CASE p = q
        <5>1. <<"page", n>> = <<"page", n1>>  BY <2>5, <3>1, <3>3, <4>4 DEF OnList
        <5>2. n = n1  BY <5>1
        <5> QED BY <3>3, <5>2 DEF Numbers
      <4> QED BY <4>2, <4>3, <4>4
    <3> QED BY <2>10, <3>1, <3>2, <3>3
  <2>12. TellOrder(td2)
    <3>1. PICK w \in Nat : w = Len(td)  BY LenProperties
    <3>2. <<d, k, n, v>> \in Tellings /\ td2 = Append(td, <<d, k, n, v>>)
      BY <2>9 DEF Tellings, Hears
    <3>3. /\ DOMAIN td = 1 .. w /\ DOMAIN td2 = 1 .. w + 1
          /\ td2[w + 1] = <<d, k, n, v>> /\ \A i \in 1 .. w : td2[i] = td[i] /\ td[i] \in Tellings
      BY <3>1, <3>2, AppendProperties, LenProperties, ElementOfSeq
    <3>4. ASSUME NEW i \in DOMAIN td2, NEW j \in DOMAIN td2, i < j,
                 td2[i][1] = td2[j][1], td2[i][2] = td2[j][2]
          PROVE  td2[i][3] < td2[j][3]
      <4>1. i \in 1 .. w  BY <3>3, <3>4
      <4>2. td2[i] = td[i] /\ td[i] \in Tellings  BY <3>3, <4>1
      <4>3. CASE j \in 1 .. w
        <5>1. td2[j] = td[j]  BY <3>3, <4>3
        <5> QED BY <3>3, <3>4, <4>1, <4>2, <4>3, <5>1 DEF TellOrder
      <4>4. CASE j = w + 1
        <5>1. td2[j][1] = d /\ td2[j][2] = k /\ td2[j][3] = n  BY <3>3, <4>4
        <5>2. PICK m \in Numbers : m = td[i][3]  BY <4>2 DEF Tellings
        <5>3. Told(td, <<d, k, m>>)
          <6>1. td[i][1] = d /\ td[i][2] = k  BY <3>4, <4>2, <5>1
          <6>2. i \in DOMAIN td  BY <3>3, <4>1
          <6>3. \A x \in 1 .. 3 : x = 1 \/ x = 2 \/ x = 3  OBVIOUS
          <6>4. \A x \in 1 .. 3 : td[i][x] = <<d, k, m>>[x]  BY <5>2, <6>1, <6>3
          <6> QED BY <6>2, <6>4 DEF Told
        <5> QED BY <2>7, <4>2, <5>1, <5>2, <5>3
      <4> QED BY <3>3, <4>3, <4>4
    <3> QED BY <3>4 DEF TellOrder
  <2> QED BY <2>11, <2>12
<1> QED BY <1>1, <1>2 DEF Tells

\* What one stack has yet to add, another had.
Withheld(s, s2) ==
    \A d \in Defs, k \in Ends, n \in Numbers, i \in Nat, j \in Nat :
       Scripted(s2, d, k, n, i, j) => \E x \in Nat, y \in Nat : Scripted(s, d, k, n, x, y)

\* The lists are in order, and nothing of the page is to be added to one that is on.
Tidy(c, s, td) == c \in [Lists -> Records] /\ Rising(c, td) /\ Unscripted(c, s)

LEMMA TidyKept ==
  ASSUME NEW c, NEW s, NEW c2 \in [Lists -> Records], NEW s2, NEW td,
         Tidy(c, s, td), Recedes(c, c2), Withheld(s, s2)
  PROVE  Tidy(c2, s2, td)
<1>1. c \in [Lists -> Records] /\ Rising(c, td) /\ Unscripted(c, s)  BY DEF Tidy
<1>2. Rising(c2, td)  BY ONLY <1>1, c2 \in [Lists -> Records], Recedes(c, c2), RecedesRises
<1>3. ASSUME NEW d \in Defs, NEW k \in Ends, NEW n \in Numbers, NEW i \in Nat, NEW j \in Nat,
             Scripted(s2, d, k, n, i, j)
      PROVE  ~c2[<<d, k>>].on
  <2>1. PICK x \in Nat, y \in Nat : Scripted(s, d, k, n, x, y)  BY <1>3 DEF Withheld
  <2>2. ~c[<<d, k>>].on  BY <1>1, <2>1 DEF Unscripted
  <2> QED BY <2>2 DEF Recedes
<1> QED BY <1>2, <1>3 DEF Tidy, Unscripted

LEMMA TidyLast ==
  ASSUME NEW c, NEW s, NEW td, NEW n0, Tidy(c, s, td)
  PROVE  Rising(c, td) /\ LastScript(c, s, n0)
<1>1. Unscripted(c, s) /\ Rising(c, td)  BY DEF Tidy
<1>2. LastScript(c, s, n0)  BY <1>1 DEF Unscripted, LastScript
<1> QED BY <1>1, <1>2

\* While no script is run, nothing is to be added to a list that is on.
LEMMA LastTidy ==
  ASSUME NEW c \in [Lists -> Records], NEW s, NEW td, NEW n0, Rising(c, td), LastScript(c, s, n0),
         s = <<>> \/ s[Len(s)].at # "script" \/ s[Len(s)].todo = <<>>
  PROVE  Tidy(c, s, td)
<1>1. ASSUME NEW d \in Defs, NEW k \in Ends, NEW n \in Numbers, NEW i \in Nat, NEW j \in Nat,
             Scripted(s, d, k, n, i, j), c[<<d, k>>].on
      PROVE  FALSE
  <2>1. i = Len(s)  BY <1>1 DEF LastScript
  <2>2. i \in DOMAIN s /\ s[i].at = "script" /\ j \in DOMAIN s[i].todo  BY <1>1 DEF Scripted
  <2>3. s # <<>>  BY <2>2
  <2>4. s[i].todo = <<>>  BY <2>1, <2>2, <2>3
  <2> QED BY <2>2, <2>4
<1> QED BY <1>1 DEF Tidy, Unscripted

\* What becomes of the stack when a loop starts, goes on or is left.
LEMMA FrameWithheld ==
  ASSUME NEW s \in Seq(Frames), NEW l \in Lists
  PROVE  Withheld(s, Append(s, Frame(l)))
<1>1. PICK f : f = Frame(l)  OBVIOUS
<1>2. f \in Frames /\ f.at = "next"  BY <1>1 DEF Frame, Frames
<1>3. PICK s2 : s2 = Append(s, f)  OBVIOUS
<1>4. /\ DOMAIN s2 = 1 .. Len(s) + 1 /\ DOMAIN s = 1 .. Len(s) /\ Len(s) \in Nat
      /\ s2[Len(s) + 1] = f /\ \A i \in 1 .. Len(s) : s2[i] = s[i]
  BY <1>2, <1>3, AppendProperties, LenProperties
<1>5. \A i \in DOMAIN s2 : s2[i].at = "script" => i \in DOMAIN s /\ s2[i] = s[i]
  <2>1. \A i \in DOMAIN s2 : i \in 1 .. Len(s) \/ i = Len(s) + 1  BY <1>4
  <2> QED BY <1>2, <1>4, <2>1
<1>6. Withheld(s, s2)  BY <1>5 DEF Withheld, Scripted
<1> QED BY <1>1, <1>3, <1>6

LEMMA PartWithheld ==
  ASSUME NEW s, NEW s2,
         \A i \in DOMAIN s2 : s2[i].at = "script" => i \in DOMAIN s /\ s2[i] = s[i]
  PROVE  Withheld(s, s2)
BY DEF Withheld, Scripted

\* fireWith() leaves all in order.
LEMMA FireTidy ==
  ASSUME NEW c, NEW s \in Seq(Frames), NEW td, NEW l \in Lists, NEW v \in Numbers, NEW c2, NEW s2,
         Tidy(c, s, td), Fires(c, s, l, v, c2, s2)
  PROVE  Tidy(c2, s2, td)
<1>1. c \in [Lists -> Records]  BY DEF Tidy
<1>2. c2 \in [Lists -> Records] /\ Recedes(c, c2) /\ Started(s, s2, l)
  BY ONLY <1>1, l \in Lists, v \in Numbers, Fires(c, s, l, v, c2, s2), FireRecedes
<1>3. Withheld(s, s2)
  <2>1. CASE s2 = s  BY <2>1, PartWithheld
  <2>2. CASE s2 = Append(s, Frame(l))
    <3>1. Withheld(s, Append(s, Frame(l)))
      BY ONLY s \in Seq(Frames), l \in Lists, FrameWithheld
    <3> QED BY ONLY <2>2, <3>1
  <2> QED BY <1>2, <2>1, <2>2 DEF Started
<1> QED BY ONLY <1>2, <1>3, Tidy(c, s, td), TidyKept

\* So does a list that is disabled or locked, or a loop that goes on.
LEMMA FadeTidy ==
  ASSUME NEW c, NEW s, NEW td, NEW l \in Lists, NEW c2, Tidy(c, s, td),
         \/ Assigned(c, c2, l, Disabled(c[l]))
         \/ Assigned(c, c2, l, Locked(c[l]))
         \/ Stepped(c, c2, l)
  PROVE  Tidy(c2, s, td)
<1>1. c \in [Lists -> Records]  BY DEF Tidy
<1>2. c2 \in [Lists -> Records] /\ Recedes(c, c2)  BY <1>1, FadeRecedes
<1>3. Withheld(s, s)  BY PartWithheld
<1> QED BY ONLY <1>2, <1>3, Tidy(c, s, td), TidyKept

\* The page makes calls: they are the last, and what they add has the greatest number.
LEMMA PushLast ==
  ASSUME NEW c, NEW s \in Seq(Frames), NEW td, NEW n0 \in Nat, NEW todo \in Seq(Todo), NEW s2, NEW ls,
         NEW n1 \in Nat, Tidy(c, s, td), ScriptPushed(s, s2, todo), Fresh(todo, n0, n1, ls),
         n1 <= n0 + 1
  PROVE  LastScript(c, s2, n1)
<1>0. PICK f : f = Script(todo)  OBVIOUS
<1>1. f \in Frames /\ f.at = "script" /\ f.todo = todo  BY <1>0 DEF Script, Frames
<1>3. s2 \in Seq(Frames) /\ Len(s2) = Len(s) + 1 /\ s2[Len(s) + 1] = f
      /\ \A i \in 1 .. Len(s) : s2[i] = s[i]
  BY <1>0, <1>1, AppendProperties DEF ScriptPushed
<1>4. Len(s) \in Nat /\ DOMAIN s = 1 .. Len(s) /\ DOMAIN s2 = 1 .. Len(s) + 1
  BY <1>3, StackTypes
<1>5. \A i \in DOMAIN s2 : (i \in DOMAIN s /\ s2[i] = s[i]) \/ (i = Len(s2) /\ s2[i] = f)
  BY <1>3, <1>4
<1>6. ASSUME NEW d \in Defs, NEW k \in Ends, NEW n \in Numbers, NEW i \in Nat, NEW j \in Nat,
             Scripted(s2, d, k, n, i, j), c[<<d, k>>].on
      PROVE  i = Len(s2) /\ n = n1 /\ Foremost(s2[i].todo, j, d, k, n)
  <2>1. ~Scripted(s, d, k, n, i, j)  BY <1>6 DEF Tidy, Unscripted
  <2>2. i = Len(s2) /\ s2[i] = f /\ j \in DOMAIN todo
        /\ todo[j] = <<"add", <<d, k>>, <<"page", n>>>>
    BY <1>1, <1>5, <1>6, <2>1 DEF Scripted
  <2>3. n0 < n /\ n <= n1 /\ Foremost(todo, j, d, k, n)  BY <2>2 DEF Fresh
  <2>4. n = n1  BY <2>3 DEF Numbers
  <2> QED BY <1>1, <2>2, <2>3, <2>4
<1> QED BY <1>6 DEF LastScript

\* The next call is taken from the script: what is left to add is the same function,
\* for the other list of the same object.
Behind(c, s, do, n0) ==
    \A d \in Defs, k \in Ends, n \in Numbers, i \in Nat, j \in Nat :
       Scripted(s, d, k, n, i, j) /\ c[<<d, k>>].on =>
          i = Len(s) /\ n = n0 /\ j = 1 /\ do = <<"add", <<d, Other(k)>>, <<"page", n>>>>
Latest(c, do, n0) ==
    \A d \in Defs, k \in Ends, n \in Numbers :
       do = <<"add", <<d, k>>, <<"page", n>>>> /\ c[<<d, k>>].on => n = n0

LEMMA AdvanceLast ==
  ASSUME NEW c, NEW s \in Seq(Frames), NEW n0, NEW s2, NEW do, LastScript(c, s, n0),
         s # <<>>, s[Len(s)].at = "script", s[Len(s)].todo # <<>>, Advanced(s, s2),
         do = Head(s[Len(s)].todo)
  PROVE  s2 \in Seq(Frames) /\ Len(s2) = Len(s) /\ Behind(c, s2, do, n0) /\ Latest(c, do, n0)
<1>2. Len(s) \in Nat /\ DOMAIN s = 1 .. Len(s) /\ Len(s) \in DOMAIN s  BY StackTypes
<1>3. PICK top \in Frames : top = s[Len(s)]  BY <1>2, StackTypes
<1>4. top.at = "script" /\ top.todo \in Seq(Todo) /\ top.todo # <<>>  BY <1>3, FrameTypes
<1>5. PICK todo \in Seq(Todo) : todo = top.todo  BY <1>4
<1>6. /\ Tail(todo) \in Seq(Todo) /\ Len(Tail(todo)) = Len(todo) - 1
      /\ \A i \in 1 .. Len(Tail(todo)) : Tail(todo)[i] = todo[i + 1]
  BY <1>4, <1>5, HeadTailProperties
<1>7. PICK rest \in Seq(Todo) : rest = Tail(todo)  BY <1>6
<1>8. /\ Len(todo) \in Nat /\ DOMAIN todo = 1 .. Len(todo) /\ Len(rest) \in Nat
      /\ DOMAIN rest = 1 .. Len(rest) /\ Len(rest) = Len(todo) - 1
      /\ \A i \in DOMAIN rest : rest[i] = todo[i + 1] /\ i + 1 \in DOMAIN todo /\ i >= 1
      /\ do = todo[1] /\ 1 \in DOMAIN todo
  <2>1. /\ Len(todo) \in Nat /\ DOMAIN todo = 1 .. Len(todo) /\ Len(rest) \in Nat
        /\ DOMAIN rest = 1 .. Len(rest) /\ Len(todo) # 0
    BY <1>4, <1>5, LenProperties, EmptySeq
  <2>2. do = todo[1]  BY <1>3, <1>4, <1>5
  <2> QED BY <1>6, <1>7, <2>1, <2>2
<1>9. PICK f : f = [top EXCEPT !.todo = rest]  OBVIOUS
<1>10. f \in Frames /\ f.at = "script" /\ f.todo = rest  BY <1>4, <1>9 DEF Frames
<1>11. /\ s2 \in Seq(Frames) /\ Len(s2) = Len(s) /\ DOMAIN s2 = DOMAIN s
       /\ \A i \in DOMAIN s : i # Len(s) => s2[i] = s[i]
       /\ s2[Len(s)] = f
  <2>1. s2 = [s EXCEPT ![Len(s)] = f]  BY <1>3, <1>5, <1>7, <1>9 DEF Advanced
  <2>2. s2 \in Seq(Frames) /\ Len(s2) = Len(s)  BY <1>2, <1>10, <2>1, ExceptSeq
  <2>3. DOMAIN s2 = DOMAIN s  BY <1>2, <2>2, StackTypes
  <2> QED BY <1>2, <2>1, <2>2, <2>3
<1>12. ASSUME NEW d \in Defs, NEW k \in Ends, NEW n \in Numbers, NEW i \in Nat, NEW j \in Nat,
              Scripted(s2, d, k, n, i, j), c[<<d, k>>].on
       PROVE  /\ i = Len(s2) /\ n = n0 /\ j = 1
              /\ do = <<"add", <<d, Other(k)>>, <<"page", n>>>>
  <2>1. i = Len(s)
    <3>1. CASE i # Len(s)
      <4>1. Scripted(s, d, k, n, i, j)  BY <1>11, <1>12, <3>1 DEF Scripted
      <4> QED BY <1>12, <4>1 DEF LastScript
    <3> QED BY <3>1
  <2>2. j \in DOMAIN rest /\ rest[j] = <<"add", <<d, k>>, <<"page", n>>>>
    BY <1>10, <1>11, <1>12, <2>1 DEF Scripted
  <2>3. j + 1 \in DOMAIN todo /\ todo[j + 1] = rest[j] /\ j >= 1  BY <1>8, <2>2
  <2>4. Scripted(s, d, k, n, i, j + 1)
    BY <1>2, <1>3, <1>4, <1>5, <2>1, <2>2, <2>3 DEF Scripted
  <2>5. j + 1 \in Nat  OBVIOUS
  <2>6. n = n0 /\ Foremost(todo, j + 1, d, k, n)
    BY <1>3, <1>5, <1>12, <2>1, <2>4, <2>5 DEF LastScript
  <2>7. j + 1 # 1 /\ (j + 1 = 2 => j = 1)
    <3>1. j >= 1 /\ j \in Nat  BY <2>3
    <3> QED BY ONLY <3>1
  <2>8. j + 1 = 2 /\ todo[1] = <<"add", <<d, Other(k)>>, <<"page", n>>>>
    <3>1. PICK y : y = j + 1  OBVIOUS
    <3>2. Foremost(todo, y, d, k, n) /\ y # 1  BY <2>6, <2>7, <3>1
    <3>3. y = 2 /\ todo[1] = <<"add", <<d, Other(k)>>, <<"page", n>>>>
      BY ONLY <3>2 DEF Foremost
    <3> QED BY ONLY <3>1, <3>3
  <2> QED BY <1>8, <1>11, <2>1, <2>6, <2>7, <2>8
<1>13. ASSUME NEW d \in Defs, NEW k \in Ends, NEW n \in Numbers,
              do = <<"add", <<d, k>>, <<"page", n>>>>, c[<<d, k>>].on
       PROVE  n = n0
  <2>1. Scripted(s, d, k, n, Len(s), 1)
    BY <1>2, <1>3, <1>4, <1>5, <1>8, <1>13 DEF Scripted
  <2> QED BY <1>2, <1>13, <2>1 DEF LastScript
<1>14. Behind(c, s2, do, n0)  BY ONLY <1>12 DEF Behind
<1>15. Latest(c, do, n0)  BY ONLY <1>13 DEF Latest
<1> QED BY ONLY <1>11, <1>14, <1>15

\* A step that leaves all tidy, and tells nobody.
LEMMA TidyOrder ==
  ASSUME InOrder, told' = told, NEW c2, NEW s2, c2 = cb', s2 = calls', Tidy(c2, s2, told)
  PROVE  InOrder'
<1>1. PICK n2 : n2 = ops'  OBVIOUS
<1>2. Rising(c2, told) /\ LastScript(c2, s2, n2)  BY TidyLast
<1> QED BY <1>1, <1>2 DEF InOrder

\* No script is run: all is tidy.
LEMMA TidyNow ==
  ASSUME IInv, InOrder, calls = <<>> \/ Top.at # "script"
  PROVE  Tidy(cb, calls, told)
<1>1. cb \in [Lists -> Records] /\ Rising(cb, told) /\ LastScript(cb, calls, ops)
  BY DEF IInv, Good, Right, InOrder
<1>2. calls = <<>> \/ calls[Len(calls)].at # "script" \/ calls[Len(calls)].todo = <<>>
  BY DEF Top, Last
<1> QED BY ONLY <1>1, <1>2, LastTidy

\* The page makes calls.
LEMMA PageOrder ==
  ASSUME IInv, InOrder, Calling
  PROVE  InOrder'
<1>1. PICK todo \in Seq(Todo) : PageCalls(todo) /\ Fresh(todo, ops, ops + 1, listeners')
  BY DEF Calling
<1>2. calls \in Seq(Frames)  BY DEF IInv, Good, Stacked
<1>3. PICK s2, ls2 : s2 = calls' /\ ls2 = listeners'  OBVIOUS
<1>4. /\ ScriptPushed(calls, s2, todo) /\ cb' = cb /\ told' = told /\ ops' = ops + 1
      /\ calls = <<>> \/ Top.at # "script"
  BY <1>1, <1>3 DEF PageCalls, ScriptPushed, InScript
<1>5. Tidy(cb, calls, told)  BY <1>4, TidyNow
<1>6. PICK n0 \in Nat, n1 \in Nat : n0 = ops /\ n1 = ops + 1  BY OpsNumber
<1>7. Fresh(todo, n0, n1, ls2) /\ n1 <= n0 + 1  BY <1>1, <1>3, <1>6
<1>8. LastScript(cb, s2, n1)
  BY ONLY <1>2, n0 \in Nat, n1 \in Nat, todo \in Seq(Todo), <1>4, <1>5, <1>7, PushLast
<1> QED BY <1>3, <1>4, <1>6, <1>8 DEF InOrder

\* A call of a script.  Once a list that was fired has taken a function, the other
\* list of that object is off.
LEMMA ScriptOrder ==
  ASSUME IInv, InOrder, RunScript
  PROVE  InOrder'
<1>1. /\ Good(cb, calls, state, listeners, told, ops) /\ calls \in Seq(Frames)
      /\ cb \in [Lists -> Records] /\ Rising(cb, told) /\ LastScript(cb, calls, ops)
  BY DEF IInv, Good, Stacked, Right, InOrder
<1>2. /\ calls # <<>> /\ Top = calls[Len(calls)] /\ calls[Len(calls)].at = "script"
      /\ told' = told /\ ops' = ops
  BY DEF RunScript, Top, Last, history
<1>3. PICK c2, s2 : c2 = cb' /\ s2 = calls'  OBVIOUS
<1>4. CASE Top.todo = <<>>
  <2>1. s2 = Front(calls) /\ c2 = cb  BY <1>3, <1>4 DEF RunScript
  <2>2. calls[Len(calls)].todo = <<>>  BY <1>2, <1>4
  <2>3. Tidy(cb, calls, told)  BY ONLY <1>1, <2>2, LastTidy
  <2>4. \A i \in DOMAIN s2 : i \in DOMAIN calls /\ s2[i] = calls[i]
    BY <1>1, <1>2, <2>1, FrontFacts
  <2>5. Withheld(calls, s2) /\ Recedes(cb, cb)  BY <1>1, <2>4, PartWithheld, RecedesSame
  <2>6. Tidy(cb, s2, told)  BY ONLY <1>1, <2>3, <2>5, TidyKept
  <2> QED BY <1>2, <1>3, <2>1, <2>6, TidyOrder
<1>5. CASE Top.todo # <<>>
  <2>1. PICK do : do = Head(Top.todo)  OBVIOUS
  <2>2. PICK s : s = [calls EXCEPT ![Len(calls)].todo = Tail(@)]  OBVIOUS
  <2>3. Advanced(calls, s) /\ calls[Len(calls)].todo # <<>> /\ do = Head(calls[Len(calls)].todo)
    BY <1>2, <1>5, <2>1, <2>2 DEF Advanced
  <2>4. /\ Good(cb, s, state, listeners, told, ops) /\ Calm(cb, state) /\ do \in Todo
        /\ \A d \in Defs, k \in Ends, n \in Numbers :
              do = <<"add", <<d, k>>, <<"page", n>>>> => Free(cb, s, listeners, told, ops, d, k, n)
    BY <1>1, <1>2, <2>3, AdvanceGood
  <2>5. s \in Seq(Frames) /\ Len(s) = Len(calls) /\ Behind(cb, s, do, ops) /\ Latest(cb, do, ops)
    BY ONLY <1>1, <1>2, <2>3, AdvanceLast
  <2>6. \/ do[1] = "add" /\ DoAdd(cb, s, do[2], do[3])
        \/ do[1] = "fire" /\ DoFire(cb, s, do[2], do[3])
        \/ do[1] = "expect"
        \/ /\ do[1] = "resolveIfNone"
           /\ IF remaining[do[2]] = 0
              THEN DoFire(cb, s, <<do[2], "done">>, ops + 1)
              ELSE calls' = s /\ cb' = cb
    BY <1>5, <2>1, <2>2 DEF RunScript
  <2>7. do[1] # "expect"  BY <2>4 DEF Todo
  <2>8. ASSUME do[1] # "add" PROVE Tidy(cb, s, told)
    <3>1. \A d, k, n : do # <<"add", <<d, k>>, <<"page", n>>>>  BY <2>8
    <3>2. Unscripted(cb, s)  BY <2>5, <3>1 DEF Unscripted, Behind
    <3> QED BY <1>1, <3>2 DEF Tidy
  <2>9. CASE do[1] = "add"
    <3>1. PICK l \in Lists, f \in Added : do = <<"add", l, f>>  BY <2>4, <2>9 DEF Todo
    <3>2. Adds(cb, s, l, f, c2, s2)  BY <1>3, <2>6, <3>1 DEF DoAdd, Adds
    <3>3. ASSUME NEW k \in Ends, NEW m \in Numbers, NEW n \in Numbers,
                 l[2] = k /\ f = <<"page", n>> /\ cb[l].on
                 /\ (Told(told, <<l[1], k, m>>) \/ \E p \in Nat : OnList(cb, l[1], k, m, p))
          PROVE  m < n
      <4>1. PICK d \in Defs : d = l[1] /\ l = <<d, k>>  BY <3>3, OfLists
      <4>2. do = <<"add", <<d, k>>, <<"page", n>>>> /\ cb[<<d, k>>].on  BY <3>1, <3>3, <4>1
      <4>3. n = ops /\ Free(cb, s, listeners, told, ops, d, k, n)  BY <2>4, <2>5, <4>2 DEF Latest
      <4>4. m # n  BY <3>3, <4>1, <4>3 DEF Free
      <4>5. Token(cb, s, listeners, told, ops, d, k, m)  BY <2>4 DEF Good, Tokens
      <4>6. m <= ops  BY <3>3, <4>1, <4>5 DEF Token
      <4> QED BY <4>3, <4>4, <4>6 DEF Numbers
    <3>4. Greatest(cb, l, f, told)  BY <3>3 DEF Greatest
    <3>5. /\ Rising(c2, told) /\ c2 \in [Lists -> Records] /\ CaughtUp(cb, s, l, s2)
          /\ \A x \in Lists : c2[x].on => cb[x].on
      BY ONLY l \in Lists, f \in Added, <1>1, <3>2, <3>4, AddRises
    <3>6. CASE s2 = s
      <4>1. ASSUME NEW d \in Defs, NEW k \in Ends, NEW n \in Numbers, NEW i \in Nat, NEW j \in Nat,
                   Scripted(s2, d, k, n, i, j), c2[<<d, k>>].on
            PROVE  i = Len(s2) /\ n = ops /\ Foremost(s2[i].todo, j, d, k, n)
        <5>1. cb[<<d, k>>].on  BY <3>5, <4>1, OfLists
        <5>2. i = Len(s) /\ n = ops /\ j = 1  BY <2>5, <3>6, <4>1, <5>1 DEF Behind
        <5> QED BY <3>6, <5>2 DEF Foremost
      <4>2. LastScript(c2, s2, ops)  BY <4>1 DEF LastScript
      <4> QED BY <1>2, <1>3, <3>5, <4>2 DEF InOrder
    <3>7. CASE CatchesUp(cb[l]) /\ s2 = Append(s, Frame(l))
      <4>1. ASSUME NEW d \in Defs, NEW k \in Ends, NEW n \in Numbers, NEW i \in Nat, NEW j \in Nat,
                   Scripted(s, d, k, n, i, j), cb[<<d, k>>].on
            PROVE  FALSE
        <5>1. do = <<"add", <<d, Other(k)>>, <<"page", n>>>>  BY <2>5, <4>1 DEF Behind
        <5>2. l = <<d, Other(k)>>  BY <3>1, <5>1
        <5>3. PICK e \in Ends : e = Other(k) /\ Other(e) = k  BY OfLists
        <5>4. cb[<<d, e>>].memory # 0  BY <3>7, <5>2, <5>3 DEF CatchesUp, NoValue
        <5>5. Steady(cb, state, d)  BY <2>4 DEF Calm
        <5>6. cb[<<d, e>>].on
          <6>1. <<d, e>> \in Lists  BY OfLists
          <6>2. ListRight(cb[<<d, e>>], <<d, e>>)  BY <1>1, <6>1 DEF Good, Right
          <6> QED BY <5>4, <6>2 DEF ListRight
        <5>7. Decided(cb, state, d, e)
          BY ONLY d \in Defs, e \in Ends, <5>4, <5>5, <5>6, FiredDecides
        <5> QED BY <4>1, <5>3, <5>7 DEF Decided
      <4>2. Unscripted(cb, s)  BY <4>1 DEF Unscripted
      <4>3. Withheld(s, s2)
        <5>1. Withheld(s, Append(s, Frame(l)))  BY ONLY <2>5, l \in Lists, FrameWithheld
        <5> QED BY ONLY <3>7, <5>1
      <4>4. Unscripted(c2, s2)
        <5>1. ASSUME NEW d \in Defs, NEW k \in Ends, NEW n \in Numbers, NEW i \in Nat, NEW j \in Nat,
                     Scripted(s2, d, k, n, i, j)
              PROVE  ~c2[<<d, k>>].on
          <6>1. PICK x \in Nat, y \in Nat : Scripted(s, d, k, n, x, y)  BY <4>3, <5>1 DEF Withheld
          <6>2. ~cb[<<d, k>>].on  BY <4>2, <6>1 DEF Unscripted
          <6> QED BY <3>5, <6>2, OfLists
        <5> QED BY <5>1 DEF Unscripted
      <4>5. Tidy(c2, s2, told)  BY <3>5, <4>4 DEF Tidy
      <4> QED BY <1>2, <1>3, <4>5, TidyOrder
    <3> QED BY <3>5, <3>6, <3>7 DEF CaughtUp
  <2>10. CASE do[1] = "fire"
    <3>1. PICK l \in Lists, v \in Numbers : do = <<"fire", l, v>>  BY <2>4, <2>10 DEF Todo
    <3>2. Fires(cb, s, l, v, c2, s2)  BY <1>3, <2>6, <3>1 DEF DoFire, Fires
    <3>3. Tidy(cb, s, told) /\ s \in Seq(Frames)  BY <2>5, <2>8, <2>10
    <3>4. Tidy(c2, s2, told)
      BY ONLY l \in Lists, v \in Numbers, <3>2, <3>3, FireTidy
    <3> QED BY <1>2, <1>3, <3>4, TidyOrder
  <2>11. CASE do[1] = "resolveIfNone"
    <3>1. PICK m \in Defs : do = <<"resolveIfNone", m>>  BY <2>4, <2>11 DEF Todo
    <3>2. PICK l \in Lists : l = <<m, "done">>  BY DEF Lists, Kinds
    <3>3. PICK v \in Numbers : v = ops + 1  BY OpsNumber
    <3>4. Tidy(cb, s, told) /\ s \in Seq(Frames)  BY <2>5, <2>8, <2>11
    <3>5. CASE remaining[m] = 0
      <4>1. Fires(cb, s, l, v, c2, s2)
        BY <1>3, <2>6, <2>11, <3>1, <3>2, <3>3, <3>5 DEF DoFire, Fires
      <4>2. Tidy(c2, s2, told)
        BY ONLY l \in Lists, v \in Numbers, <3>4, <4>1, FireTidy
      <4> QED BY <1>2, <1>3, <4>2, TidyOrder
    <3>6. CASE remaining[m] # 0
      <4>1. s2 = s /\ c2 = cb  BY <1>3, <2>6, <2>11, <3>1, <3>6
      <4> QED BY <1>2, <1>3, <3>4, <4>1, TidyOrder
    <3> QED BY <3>5, <3>6
  <2> QED BY <2>6, <2>7, <2>9, <2>10, <2>11
<1> QED BY <1>4, <1>5

\* A function of the code's own: what it does is called in turn.
LEMMA OwnOrder ==
  ASSUME IInv, InOrder, CallOwn
  PROVE  InOrder'
<1>1. /\ Good(cb, calls, state, listeners, told, ops) /\ calls \in Seq(Frames)
      /\ Firing /\ MoreToCall(cb[Top.list]) /\ told' = told
  BY DEF IInv, Good, Stacked, CallOwn, history
<1>2. PICK l, g : l = Top.list /\ g = Fn  OBVIOUS
<1>3. PICK c, c2, s2 : c = Passed /\ c2 = cb' /\ s2 = calls'  OBVIOUS
<1>4. AtFunction(cb, calls, l, g) /\ l \in Lists /\ Stepped(cb, c, l)
  BY <1>1, <1>2, <1>3, AtFn
<1>5. g \in Added \cup Own  BY ONLY <1>1, <1>4, OwnStages
<1>6. Tidy(cb, calls, told)
  <2>1. Top.at # "script"  BY <1>1 DEF Firing
  <2> QED BY <2>1, TidyNow
<1>7. Tidy(c, calls, told)  BY ONLY <1>4, <1>6, FadeTidy
<1>8. g[1] \in {"state", "disable", "lock", "signal", "count"}  BY <1>2 DEF CallOwn
<1>9. SUFFICES Tidy(c2, s2, told)  BY <1>1, <1>3, TidyOrder
<1>10. CASE c2 = c /\ s2 = calls
  BY <1>7, <1>10
<1>11. g[1] = "state" => c2 = c /\ s2 = calls
  BY <1>2, <1>3 DEF CallOwn
<1>12. CASE g[1] = "disable" \/ g[1] = "lock"
  <2>1. /\ s2 = calls
        /\ \/ c2 = [c EXCEPT ![<<g[2], g[3]>>] = Disabled(c[<<g[2], g[3]>>])]
           \/ c2 = [c EXCEPT ![<<g[2], g[3]>>] = Locked(c[<<g[2], g[3]>>])]
    BY <1>2, <1>3, <1>12 DEF CallOwn
  <2>2. <<g[2], g[3]>> \in Lists  BY <1>5, <1>12 DEF Added, Own, Lists, Kinds, Ends
  <2>3. PICK m \in Lists : m = <<g[2], g[3]>>  BY <2>2
  <2>4. \/ Assigned(c, c2, m, Disabled(c[m]))
        \/ Assigned(c, c2, m, Locked(c[m]))
        \/ Stepped(c, c2, m)
    BY <2>1, <2>3 DEF Assigned
  <2>5. Tidy(c2, calls, told)  BY ONLY m \in Lists, <1>7, <2>4, FadeTidy
  <2> QED BY <2>1, <2>5
<1>13. ASSUME NEW m \in Lists, DoFire(c, calls, m, FiredWith) PROVE Tidy(c2, s2, told)
  <2>1. PICK v \in Numbers : v = FiredWith  BY <1>1, AtFn
  <2>2. Fires(c, calls, m, v, c2, s2)  BY <1>3, <1>13, <2>1 DEF DoFire, Fires
  <2> QED BY ONLY m \in Lists, v \in Numbers, <1>1, <1>7, <2>2, FireTidy
<1>14. CASE g[1] = "signal"
  <2>1. DoFire(c, calls, <<g[2], g[3]>>, FiredWith)  BY <1>2, <1>3, <1>14 DEF CallOwn
  <2>2. <<g[2], g[3]>> \in Lists  BY <1>5, <1>14 DEF Added, Own, Lists
  <2> QED BY <1>13, <2>1, <2>2
<1>15. CASE g[1] = "count"
  <2>1. IF remaining[g[2]] = 1
        THEN DoFire(c, calls, <<g[2], "done">>, FiredWith)
        ELSE c2 = c /\ s2 = calls
    BY <1>2, <1>3, <1>15 DEF CallOwn
  <2>2. <<g[2], "done">> \in Lists  BY <1>5, <1>15 DEF Added, Own, Lists, Kinds
  <2> QED BY <1>10, <1>13, <2>1, <2>2
<1> QED BY <1>8, <1>10, <1>11, <1>12, <1>14, <1>15

\* then() without a function.
LEMMA ForwardOrder ==
  ASSUME IInv, InOrder, Forward
  PROVE  InOrder'
<1>1. /\ Firing /\ MoreToCall(cb[Top.list]) /\ told' = told
      /\ Good(cb, calls, state, listeners, told, ops) /\ calls \in Seq(Frames)
  BY DEF IInv, Good, Stacked, Forward, history
<1>2. PICK l, g : l = Top.list /\ g = Fn  OBVIOUS
<1>3. g[1] = "then" /\ DoFire(Passed, calls, <<g[2], g[3]>>, FiredWith)
  BY <1>2 DEF Forward
<1>4. PICK c, c2, s2 : c = Passed /\ c2 = cb' /\ s2 = calls'  OBVIOUS
<1>5. AtFunction(cb, calls, l, g) /\ l \in Lists /\ Stepped(cb, c, l)
  BY <1>1, <1>2, <1>4, AtFn
<1>6. Tidy(cb, calls, told)
  <2>1. Top.at # "script"  BY <1>1 DEF Firing
  <2> QED BY <2>1, TidyNow
<1>7. Tidy(c, calls, told)  BY ONLY <1>5, <1>6, FadeTidy
<1>8. g \in Added \cup Own  BY ONLY <1>1, <1>5, OwnStages
<1>9. PICK m \in Lists : m = <<g[2], g[3]>>  BY <1>3, <1>8 DEF Added, Own, Lists
<1>10. PICK v \in Numbers : v = FiredWith  BY <1>1, AtFn
<1>11. Fires(c, calls, m, v, c2, s2)  BY <1>3, <1>4, <1>9, <1>10 DEF DoFire, Fires
<1>12. Tidy(c2, s2, told)
  BY ONLY m \in Lists, v \in Numbers, <1>1, <1>7, <1>11, FireTidy
<1> QED BY <1>1, <1>4, <1>12, TidyOrder

\* A function of the page is called.
LEMMA CallOrder ==
  ASSUME IInv, InOrder, CallPage
  PROVE  InOrder'
<1>1. /\ Firing /\ MoreToCall(cb[Top.list]) /\ cb' = cb /\ ops' = ops
      /\ Good(cb, calls, state, listeners, told, ops) /\ told \in Seq(Tellings)
      /\ calls \in Seq(Frames) /\ Rising(cb, told) /\ TellOrder(told)
  BY DEF IInv, Good, Stacked, CallPage, InOrder
<1>2. PICK l, g : l = Top.list /\ g = Fn  OBVIOUS
<1>3. AtFunction(cb, calls, l, g) /\ AtList(calls, l)  BY <1>1, <1>2, AtFn
<1>4. g \in Added \cup Own  BY ONLY <1>1, <1>3, OwnStages
<1>5. PICK s2, td2 : s2 = calls' /\ td2 = told'  OBVIOUS
<1>6. Tells(cb, told, td2, l, g)
  BY <1>2, <1>5 DEF CallPage, Tells, FiredWith
<1>7. Rising(cb, td2) /\ TellOrder(td2)
  BY ONLY <1>1, <1>3, <1>4, <1>6, CallRises
<1>8. Tidy(cb, calls, told)
  <2>1. Top.at # "script"  BY <1>1 DEF Firing
  <2> QED BY <2>1, TidyNow
<1>9. Withheld(calls, s2)
  <2>1. PICK n \in Nat : n = Len(calls) /\ DOMAIN calls = 1 .. n /\ n \in DOMAIN calls
    BY <1>1, <1>3, StackTypes DEF AtList
  <2>2. s2 = [calls EXCEPT ![n].at = "call"]  BY <1>5, <2>1 DEF CallPage
  <2>3. /\ DOMAIN s2 = DOMAIN calls /\ \A i \in DOMAIN calls : i # n => s2[i] = calls[i]
        /\ s2[n].at = "call"
    <3>1. PICK top \in Frames : top = calls[n]  BY <1>1, <2>1, StackTypes
    <3>2. [top EXCEPT !.at = "call"].at = "call"  BY DEF Frames
    <3> QED BY <2>1, <2>2, <3>1, <3>2
  <2>4. \A i \in DOMAIN s2 : s2[i].at = "script" => i \in DOMAIN calls /\ s2[i] = calls[i]
    BY <2>3
  <2> QED BY <2>4, PartWithheld
<1>10. cb \in [Lists -> Records] /\ Recedes(cb, cb)  BY <1>8, RecedesSame DEF Tidy
<1>11. Tidy(cb, s2, told)  BY ONLY <1>8, <1>9, <1>10, TidyKept
<1>12. LastScript(cb, s2, ops)  BY <1>11, TidyLast
<1> QED BY <1>1, <1>5, <1>7, <1>12 DEF InOrder

\* It returns, a value or a promise.
LEMMA ReturnOrder ==
  ASSUME RootsAssumption, IInv, InOrder, PageReturns
  PROVE  InOrder'
<1>1. /\ Good(cb, calls, state, listeners, told, ops) /\ calls \in Seq(Frames)
      /\ calls # <<>> /\ Top = calls[Len(calls)] /\ calls[Len(calls)].at = "call"
      /\ told' = told /\ ops' = ops /\ TellOrder(told)
  BY DEF IInv, Good, Stacked, PageReturns, Top, Last, InOrder
<1>2. PICK l, g : l = Top.list /\ g = Fn  OBVIOUS
<1>3. AtList(calls, l)  BY <1>1, <1>2 DEF AtList
<1>4. g \in Added /\ IsPage(g) /\ l \in Lists
  <2>1. FrameRight(cb, calls[Len(calls)]) /\ l \in Lists  BY <1>1, <1>3, Loops
  <2> QED BY <1>1, <1>2, <2>1 DEF FrameRight, Fn
<1>5. PICK s : s = [calls EXCEPT ![Len(calls)].at = "next"]  OBVIOUS
<1>6. Resumed(calls, s)
  <2>1. Returned(calls, s)  BY <1>5 DEF Returned
  <2> QED BY ONLY <1>1, <1>3, <2>1, ReturnedFacts
<1>7. PICK c, c2, s2 : c = Passed /\ c2 = cb' /\ s2 = calls'  OBVIOUS
<1>8. Stepped(cb, c, l)  BY <1>2, <1>7 DEF Stepped, Passed
<1>9. Tidy(cb, calls, told)  BY <1>1, TidyNow
<1>10. Tidy(c, calls, told)  BY ONLY <1>4, <1>8, <1>9, FadeTidy
<1>11. s \in Seq(Frames) /\ Tidy(c, s, told)
  <2>1. s \in Seq(Frames) /\ DOMAIN s = 1 .. Len(calls) /\ DOMAIN calls = 1 .. Len(calls)
    BY <1>1, <1>6, StackTypes DEF Resumed
  <2>2. \A i \in DOMAIN s : s[i].at = "script" => i \in DOMAIN calls /\ s[i] = calls[i]
    BY <1>6, <2>1 DEF Resumed
  <2>3. Withheld(calls, s) /\ c \in [Lists -> Records] /\ Recedes(c, c)
    BY <1>10, <2>2, PartWithheld, RecedesSame DEF Tidy
  <2>4. Tidy(c, s, told)  BY ONLY <1>10, <2>3, TidyKept
  <2> QED BY <2>1, <2>4
<1>12. \/ c2 = c /\ s2 = s
       \/ g[1] = "then" /\ DoFire(c, s, <<g[2], g[3]>>, g[4])
       \/ /\ g[1] = "then"
          /\ \E p \in Roots :
                c2 = c /\ s2 = Append(s, Script(Following(p, g[2], [k \in Kinds |-> 0])))
  BY <1>2, <1>5, <1>7 DEF PageReturns
<1>13. CASE c2 = c /\ s2 = s
  BY <1>1, <1>7, <1>11, <1>13, TidyOrder
<1>14. ASSUME g[1] = "then"
       PROVE  \E e \in Defs, k \in Kinds, n \in Numbers : g = <<"then", e, k, n>>
  <2>1. PICK e \in Defs, k \in Kinds, n \in Nat : g = <<"then", e, k, n>>
    BY <1>4, <1>14 DEF Added
  <2>2. n # 0  BY <1>4, <1>14, <2>1 DEF IsPage
  <2> QED BY <2>1, <2>2 DEF Numbers
<1>15. CASE g[1] = "then" /\ DoFire(c, s, <<g[2], g[3]>>, g[4])
  <2>1. PICK e \in Defs, k \in Kinds, v \in Numbers : g = <<"then", e, k, v>>  BY <1>14, <1>15
  <2>2. PICK m \in Lists : m = <<e, k>>  BY DEF Lists
  <2>3. Fires(c, s, m, v, c2, s2)  BY <1>7, <1>15, <2>1, <2>2 DEF DoFire, Fires
  <2>4. Tidy(c2, s2, told)
    BY ONLY m \in Lists, v \in Numbers, <1>11, <2>3, FireTidy
  <2> QED BY <1>1, <1>7, <2>4, TidyOrder
<1>16. ASSUME g[1] = "then", NEW p \in Roots, c2 = c,
              s2 = Append(s, Script(Following(p, g[2], [k \in Kinds |-> 0])))
       PROVE  InOrder'
  <2>1. PICK e \in Defs : e = g[2]  BY <1>14, <1>16
  <2>2. PICK f : f = [k \in Kinds |-> 0]  OBVIOUS
  <2>3. \A k \in Kinds : f[k] \in Nat  BY <2>2
  <2>4. PICK todo : todo = Following(p, e, f)  OBVIOUS
  <2>5. p \in Defs  BY DEF RootsAssumption
  <2>6. PICK n0 \in Nat : n0 = ops  BY OpsNumber
  <2>7. todo \in Seq(Todo) /\ Fresh(todo, n0, n0, listeners)
    BY <2>3, <2>4, <2>5, FollowingCalls
  <2>8. ScriptPushed(s, s2, todo) /\ n0 <= n0 + 1
    BY <1>16, <2>1, <2>2, <2>4 DEF ScriptPushed
  <2>9. LastScript(c, s2, n0)
    BY ONLY n0 \in Nat, <1>11, <2>7, <2>8, PushLast
  <2>10. Rising(c, told)  BY <1>11 DEF Tidy
  <2> QED BY <1>1, <1>7, <1>16, <2>6, <2>9, <2>10 DEF InOrder
<1> QED BY <1>12, <1>13, <1>15, <1>16

\* The loop ends.
LEMMA EndOrder ==
  ASSUME IInv, InOrder, EndOfLoop
  PROVE  InOrder'
<1>1. /\ Good(cb, calls, state, listeners, told, ops) /\ calls \in Seq(Frames)
      /\ calls # <<>> /\ Top = calls[Len(calls)] /\ Top.at = "next"
      /\ told' = told
  BY DEF IInv, Good, Stacked, EndOfLoop, Firing, Top, Last, history
<1>2. PICK l : l = Top.list  OBVIOUS
<1>3. AtList(calls, l) /\ calls[Len(calls)].at = "next"  BY <1>1, <1>2 DEF AtList
<1>4. /\ l \in Lists /\ cb[l].on /\ cb[l].memory = cb[l].value /\ cb[l].value \in Numbers
      /\ ListRight(cb[l], l)
  BY <1>1, <1>3, Loops
<1>5. cb[l].memory # 0  BY <1>4 DEF Numbers
<1>6. PICK c2, s2 : c2 = cb' /\ s2 = calls'  OBVIOUS
<1>7. Finishes(cb, c2, l) /\ (s2 = calls \/ s2 = Front(calls))
  BY <1>2, <1>6 DEF EndOfLoop, Finishes
<1>8. Tidy(cb, calls, told) /\ cb \in [Lists -> Records]  BY <1>1, TidyNow DEF Tidy
<1>9. c2 \in [Lists -> Records] /\ Recedes(cb, c2)
  BY ONLY <1>4, <1>5, <1>7, <1>8, EndRecedes
<1>10. \A i \in DOMAIN s2 : i \in DOMAIN calls /\ s2[i] = calls[i]
  BY <1>1, <1>7, FrontFacts
<1>11. Withheld(calls, s2)  BY <1>10, PartWithheld
<1>12. Tidy(c2, s2, told)  BY ONLY <1>8, <1>9, <1>11, TidyKept
<1> QED BY <1>1, <1>6, <1>12, TidyOrder

\* A function throws, and nothing is to be added any more.
LEMMA ThrowOrder ==
  ASSUME IInv, InOrder, Throw
  PROVE  InOrder'
<1>1. calls' = <<>> /\ cb' = cb /\ told' = told /\ Top.at # "script"
  BY DEF Throw, history
<1>2. Tidy(cb, calls, told)  BY <1>1, TidyNow
<1>3. PICK s2 : s2 = <<>>  OBVIOUS
<1>4. Withheld(calls, s2)
  <2>1. DOMAIN s2 = {}  BY <1>3
  <2> QED BY <2>1, PartWithheld
<1>5. cb \in [Lists -> Records] /\ Recedes(cb, cb)  BY <1>2, RecedesSame DEF Tidy
<1>6. Tidy(cb, s2, told)  BY ONLY <1>2, <1>4, <1>5, TidyKept
<1> QED BY <1>1, <1>3, <1>6, TidyOrder

\* Every step leaves the lists in order.
LEMMA OrderKept ==
  ASSUME RootsAssumption, IInv, InOrder, [Next]_vars
  PROVE  InOrder'
<1>1. ASSUME NEW d \in Defs, Always(d) PROVE InOrder'
  BY <1>1, AlwaysCalls, PageOrder
<1>2. ASSUME NEW d \in Defs, NEW k \in Kinds, Signal(d, k) PROVE InOrder'
  BY <1>2, SignalCalls, PageOrder
<1>3. ASSUME NEW d \in Defs, NEW k \in Kinds, Listen(d, k) PROVE InOrder'
  BY <1>3, ListenCalls, PageOrder
<1>4. ASSUME NEW d \in Defs, NEW c \in Defs, NEW given \in Given, Then(d, c, given)
      PROVE  InOrder'
  BY <1>4, ThenCalls, PageOrder
<1>5. ASSUME NEW m \in Defs, NEW subs \in SUBSET Defs, When(subs, m) PROVE InOrder'
  BY <1>5, WhenCalls, PageOrder
<1>6. CASE RunScript  BY <1>6, ScriptOrder
<1>7. CASE CallOwn  BY <1>7, OwnOrder
<1>8. CASE Forward  BY <1>8, ForwardOrder
<1>9. CASE CallPage  BY <1>9, CallOrder
<1>10. CASE PageReturns  BY <1>10, ReturnOrder
<1>11. CASE EndOfLoop  BY <1>11, EndOrder
<1>12. CASE Throw  BY <1>12, ThrowOrder
<1>13. CASE UNCHANGED vars
  <2>1. cb' = cb /\ calls' = calls /\ told' = told /\ ops' = ops
    BY <1>13 DEF vars, history
  <2> QED BY <2>1 DEF InOrder
<1> QED
  BY <1>1, <1>2, <1>3, <1>4, <1>5, <1>6, <1>7, <1>8, <1>9, <1>10, <1>11, <1>12, <1>13 DEF Next

\* At first the lists hold no function of the page.
LEMMA OrderStarts == Init => InOrder
<1> SUFFICES ASSUME Init PROVE InOrder  OBVIOUS
<1>1. told = <<>> /\ calls = <<>> /\ DOMAIN told = {} /\ DOMAIN calls = {}  BY DEF Init
<1>2. ASSUME NEW d \in Defs, NEW k \in Ends, NEW n \in Numbers, NEW p \in Nat
      PROVE  ~OnList(cb, d, k, n, p)
  <2>1. <<d, k>> \in Lists /\ k \in Kinds  BY OfLists
  <2>2. cb[<<d, k>>] = MadeLists(d)[k]  BY <2>1 DEF Init
  <2>3. PICK q : q = MadeLists(d)[k]  OBVIOUS
  <2>4. \A i \in DOMAIN q.list : q.list[i] \in Own  BY <2>1, <2>3, MadeFacts
  <2>5. <<"page", n>> \notin Own  BY DEF Own
  <2> QED BY <2>2, <2>3, <2>4, <2>5 DEF OnList
<1>3. Rising(cb, told)  BY <1>2 DEF Rising
<1>4. LastScript(cb, calls, ops)  BY <1>1 DEF LastScript, Scripted
<1>5. TellOrder(told)  BY <1>1 DEF TellOrder
<1> QED BY <1>3, <1>4, <1>5 DEF InOrder

\* Listeners of one list are told in the order in which they were added, whether
\* before it was fired, while others of it are told, or afterwards.
THEOREM ListenersInOrder == RootsAssumption => (Spec => []ToldInOrder)
<1> SUFFICES ASSUME RootsAssumption PROVE Spec => []ToldInOrder
  OBVIOUS
<1>1. Init => InOrder
  BY OrderStarts
<1>2. IInv /\ InOrder /\ [Next]_vars => InOrder'
  BY OrderKept
<1>3. InOrder => ToldInOrder
  BY DEF InOrder, TellOrder, ToldInOrder
<1>4. Spec => [](IInv /\ Heeding)
  BY DeferredsInvariant
<1> QED
  BY <1>1, <1>2, <1>3, <1>4, PTL DEF Spec
=============================================================================
