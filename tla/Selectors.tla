----------------------------- MODULE Selectors -----------------------------
(***************************************************************************)
(* Sizzle, the selector engine of jquery-1.10.2.js: how a compiled selector*)
(* is matched from right to left, the results of earlier steps being left  *)
(* as caches on the elements of the page, and how selectors with positions *)
(* (:first, :last, :even) are taken apart.                                  *)
(*                                                                         *)
(* A query runs to its end before anything else happens, so it is one      *)
(* step; a state is what queries leave behind: the caches on the elements  *)
(* and the counters that tell whether they still hold.  A selector is the  *)
(* sequence of the selectors between its commas, each a sequence of tokens.*)
(***************************************************************************)
EXTENDS Integers, Sequences, FiniteSets, SequencesExt, TLC

CONSTANTS
    N,          \* the elements are 1 .. N in the order of the document, 0
    Tags,
    Finds,      \* the selectors that are looked for
    Filters,    \* the selectors that a set of elements is filtered with
    Qsa,        \* whether the browser has querySelectorAll
    MaxQueries,
    MaxChanges

SizeAssumption == N \in Nat \ {0} /\ MaxQueries \in Nat /\ MaxChanges \in Nat
QsaAssumption == Qsa \in BOOLEAN

VARIABLES
    up,      \* the parent of each element
    tag,
    left,    \* what queries have left behind, see Begin
    answer,  \* history: the last query, its result, the result it should have, and
             \* whether it should be in order
    queries, changes

vars == <<up, tag, left, answer, queries, changes>>

Elems == 1 .. N
Document == 0
Nobody == -1

-----------------------------------------------------------------------------
(* The page.  These operators take the tree they speak of from the state.  *)

Siblings(n) == {m \in Elems : up[m] = up[n]}
Prev(n) == IF \E m \in Siblings(n) : m < n
           THEN CHOOSE m \in Siblings(n) : m < n /\ \A k \in Siblings(n) : k < n => k <= m
           ELSE Nobody

\* One step in the direction dir
Walk(dir, n) == IF n = Document THEN Nobody ELSE IF dir = "parent" THEN up[n] ELSE Prev(n)

RECURSIVE Line(_, _)
Line(dir, n) == IF Walk(dir, n) = Nobody THEN {} ELSE {Walk(dir, n)} \cup Line(dir, Walk(dir, n))

Ordered(s) == SetToSortSeq(s, LAMBDA m, n : m < n)
Below(c) == {n \in Elems : c \in Line("parent", n)}

\* The trees with the elements numbered in document order
Trees == {f \in [Elems -> 0 .. N] :
             /\ f[1] = Document
             /\ \A n \in 2 .. N : /\ f[n] \in 1 .. n - 1
                                  /\ \A m \in f[n] + 1 .. n - 1 : f[m] >= f[n]}

-----------------------------------------------------------------------------
(* Selectors.  A token has a type, a value, and a selector as its argument. *)

Combinators == {">", " ", "+", "~"}
Positions == {"first", "last", "even"}
Relative(t) == t.is \in Combinators
Dir(c) == IF c \in {">", " "} THEN "parent" ELSE "prev"
First(c) == c \in {">", "+"}

Leading(toks) == toks # <<>> /\ Relative(Head(toks))
RECURSIVE Positional(_), HasSibling(_), Extended(_)
\* matchExpr.needsContext, rsibling, and what only this library knows, see their
\* regular expressions: they look into the arguments too.
Positional(g) == \E s \in ToSet(g) : \E t \in ToSet(s) : t.is \in Positions \/ Positional(t.arg)
HasSibling(g) == \E s \in ToSet(g) : \E t \in ToSet(s) : t.is \in {"+", "~"} \/ HasSibling(t.arg)
Extended(g) == \E s \in ToSet(g) : \E t \in ToSet(s) :
                  \/ t.is \in Positions \cup {"has"}
                  \/ Extended(t.arg) \/ \E r \in ToSet(t.arg) : Leading(r)
NeedsContext(g) == Positional(g) \/ (g # <<>> /\ Leading(g[1]) /\ g[1][1].is # " ")
BySet(toks) == \E t \in ToSet(toks) : t.is \in Positions

-----------------------------------------------------------------------------
(* What selectors mean, by the standard and the library's documentation: an *)
(* element and what precedes it, and whether it is below c, or related to c.*)

RECURSIVE Means(_, _, _, _), MeansNot(_, _), Selected(_, _), SelectedBy(_, _)
Related(c, e) == IF First(c) THEN {Walk(Dir(c), e)} \ {Nobody} ELSE Line(Dir(c), e)

Means(toks, i, c, e) ==
    IF i = 0 THEN c = Nobody \/ c \in Line("parent", e)
    ELSE LET t == toks[i] IN
         IF Relative(t)
         THEN IF i = 1 THEN c \in Related(t.is, e)
              ELSE \E x \in Related(t.is, e) \ {Document} : Means(toks, i - 1, c, x)
         ELSE /\ CASE t.is = "tag" -> t.v \in {"*", tag[e]}
                   [] t.is = "has" -> Selected(t.arg, e) # {}
                   [] t.is = "not" -> ~MeansNot(t.arg, e)
                   [] t.is = "nth" -> Cardinality({m \in Siblings(e) : m <= e}) % 2 = 1
                   [] t.is \in Positions -> TRUE
              /\ Means(toks, i - 1, c, e)
MeansNot(g, e) == \E s \in ToSet(g) : Means(s, Len(s), Nobody, e)

\* The position of the first token that is one of p
Index(toks, p) == SelectInSeq(toks, LAMBDA t : t.is \in p)

At(position, s) ==
    IF s = <<>> THEN <<>>
    ELSE CASE position = "first" -> <<Head(s)>>
           [] position = "last" -> <<Last(s)>>
           [] position = "even" -> [i \in 1 .. (Len(s) + 1) \div 2 |-> s[2 * i - 1]]

\* A position counts the elements that what precedes it selects, from any of the
\* elements cs; what follows selects among these, or from them.
SelectedBy(toks, cs) ==
    LET p == Index(toks, Positions)
        found == Ordered({e \in Elems : \E c \in cs : Means(toks, p - 1, c, e)})
        there == ToSet(At(toks[p].is, found))
        rest == SubSeq(toks, p + 1, Len(toks))
        r == Index(rest, Combinators)
        test == IF r = 0 THEN rest ELSE SubSeq(rest, 1, r - 1)
        kept == {e \in there : Means(test, Len(test), Nobody, e)}
    IN
    IF p = 0 THEN {e \in Elems : \E c \in cs : Means(toks, Len(toks), c, e)}
    ELSE IF r = 0 THEN kept
    ELSE SelectedBy(SubSeq(rest, r, Len(rest)), kept)
Selected(g, c) == UNION {SelectedBy(g[i], {c}) : i \in DOMAIN g}

-----------------------------------------------------------------------------
(* Matching.  st is what queries leave behind; an operator that changes it     *)
(* returns it together with its result.                                        *)

NoDir == [key |-> <<>>, val |-> 0]
Yes == -1       \* a cached value: the way up from here matches,
Open == -2      \* not known yet, or the run in which it did not match
Undefined == -3 \* outermostContext while no query runs
Whole == -4     \* and while one runs on the whole document
Gone == -5      \* false, in an array of elements
NoSeed == <<Nobody>>

Begin == [cache |-> [n \in 0 .. N |-> [parent |-> NoDir, prev |-> NoDir]],
          nth |-> [n \in 0 .. N |-> [run |-> <<0, 0>>, last |-> [at |-> 0, count |-> 0]]],
          dirruns |-> <<0, 0>>, cachedruns |-> 0, outermost |-> Undefined,
          nested |-> 0, matchers |-> <<>>]

Condense(s) == SelectSeq(s, LAMBDA e : e # Gone)
Trim(toks) == IF Leading(toks) /\ toks[1].is = " " THEN Tail(toks) ELSE toks
MatcherRuns(st, g) == IF g \in DOMAIN st.matchers THEN st.matchers[g] ELSE 0

\* Fault: a query takes over the runs of the one before it.
NextDirruns_Same(st) == st

\* dirruns: a new integer, or while another query runs a new number of any kind.
NextDirruns(st) ==
    IF st.outermost = Undefined
    THEN [st EXCEPT !.dirruns = <<@[1] + 1, 0>>, !.nested = 0]
    ELSE [st EXCEPT !.dirruns = <<@[1], st.nested + 1>>, !.nested = @ + 1]

RECURSIVE ElementMatcher(_, _, _, _, _), Climb(_, _, _), Sizzle(_, _, _, _),
          SuperMatcher(_, _, _, _, _, _), SetMatcher(_, _, _, _)

\* What a combinator looks for: q names the piece of a compiled selector, q.i the
\* combinator's place in it; base ones look for the context.
Inner(q, n, st) ==
    IF q.base THEN [ok |-> n = q.c, st |-> st] ELSE ElementMatcher(q.nm, q.i - 1, n, q.c, st)
CanVisit(q, n) == n \in Elems \/ (n = Document /\ q.base /\ q.dir = "parent")

\* The cache of n is filled in, unless a nested query has put its own there.
Visit(q, n, st) ==
    LET r == Inner(q, n, [st EXCEPT !.cache[n][q.dir] = [key |-> q.key, val |-> Open]])
        ours == r.st.cache[n][q.dir].key = q.key
    IN [r EXCEPT !.st.cache[n][q.dir].val = IF ~ours THEN @ ELSE IF r.ok THEN Yes ELSE r.st.cachedruns]

\* addCombinator, for " " and "~": the ancestors or siblings, until one matches or
\* was found to match before, or was gone over in this run.
Climb(q, n, st) ==
    IF ~CanVisit(q, n) THEN [ok |-> FALSE, st |-> st]
    ELSE LET cache == st.cache[n][q.dir] IN
         IF cache.key = q.key
         THEN IF cache.val \in {Yes, st.cachedruns} THEN [ok |-> cache.val = Yes, st |-> st]
              ELSE Climb(q, Walk(q.dir, n), st)
         ELSE LET r == Visit(q, n, st) IN
              IF r.ok THEN r ELSE Climb(q, Walk(q.dir, n), r.st)

\* addCombinator: ">" and "+" look at one element only.
Combine(nm, i, base, combinator, e, c, st) ==
    LET q == [nm |-> nm, i |-> i, base |-> base, dir |-> Dir(combinator), c |-> c,
              key |-> <<st.dirruns, nm, i>>]
        n == Walk(q.dir, e)
    IN
    IF ~First(combinator) THEN Climb(q, n, st)
    ELSE IF CanVisit(q, n) THEN Inner(q, n, st)
    ELSE [ok |-> FALSE, st |-> st]

\* :nth-child(odd) counts on from the sibling that the parent's cache names.
NthChild(e, st) ==
    LET cache == st.nth[up[e]]
        from == IF cache.run = st.dirruns /\ cache.last.at < e THEN cache.last ELSE [at |-> 0, count |-> 0]
        count == from.count + Cardinality({m \in Siblings(e) : m > from.at /\ m <= e})
    IN [ok |-> count % 2 = 1,
        st |-> [st EXCEPT !.nth[up[e]] = [run |-> st.dirruns, last |-> [at |-> e, count |-> count]]]]

\* One token of a compound selector
Passes(t, e, st) ==
    CASE t.is = "tag" -> [ok |-> t.v \in {"*", tag[e]}, st |-> st]
      [] t.is = "nth" -> NthChild(e, st)
      [] t.is = "has" -> LET r == Sizzle(t.arg, e, NoSeed, st) IN [ok |-> r.res # <<>>, st |-> r.st]
      [] t.is = "not" -> LET r == SuperMatcher(t.arg, <<e>>, Nobody, FALSE, FALSE, st)
                         IN [ok |-> r.res = <<>>, st |-> r.st]

\* elementMatcher: the tests from the last to the first, then the combinator
\* before them; at the left end the element must be reachable from the context.
ElementMatcher(nm, i, e, c, st) ==
    LET toks == nm.toks
        leading == Leading(toks)
    IN
    IF i = 0 THEN IF c # st.outermost THEN [ok |-> TRUE, st |-> st]
                  ELSE Combine(nm, 0, TRUE, " ", e, c, st)
    ELSE IF Relative(toks[i]) THEN Combine(nm, i, i = 1, toks[i].is, e, c, st)
    ELSE LET r == Passes(toks[i], e, st) IN
         IF r.ok THEN ElementMatcher(nm, i - 1, e, c, r.st) ELSE r

Piece(g, j, from, to) == [g |-> g, j |-> j, from |-> from, toks |-> SubSeq(g[j], from, to)]
MatchPiece(nm, e, c, st) == ElementMatcher(nm, Len(nm.toks), e, c, st)

\* condense() of the elements that a piece matches: flags, in their order
Flags(nm, s, c, st) ==
    FoldLeft(LAMBDA acc, e : IF e = Gone THEN [acc EXCEPT !.ok = Append(@, FALSE)]
                             ELSE LET r == MatchPiece(nm, e, c, acc.st)
                                  IN [ok |-> Append(acc.ok, r.ok), st |-> r.st],
             [ok |-> <<>>, st |-> st], s)

\* multipleContexts
Contexts(g, cs, st) ==
    FoldLeft(LAMBDA acc, c : LET r == Sizzle(g, c, NoSeed, acc.st) IN [res |-> acc.res \o r.res, st |-> r.st],
             [res |-> <<>>, st |-> st], cs)

\* setMatcher, of the piece of g[j] that begins at `from' and has a position in
\* it: it is taken apart into what precedes the position, the position, what
\* restricts it up to PartEnd, and what is looked for from there.
Part(nm, from, to) == [nm EXCEPT !.from = @ + from - 1, !.toks = SubSeq(@, from, to)]
PartEnd(toks) ==
    LET p == Index(toks, Positions)
        r == Index(SubSeq(toks, p + 1, Len(toks)), Combinators)
    IN  IF r = 0 THEN Len(toks) ELSE p + r - 1

\* preFilter: what precedes the position is looked for, or taken from the seed.
Candidates(nm, seed, cs, st) ==
    LET p == Index(nm.toks, Positions)
        before == SubSeq(nm.toks, 1, p - 1)
        any == << [is |-> "tag", v |-> "*", arg |-> <<>>] >>
    IN
    IF seed # NoSeed THEN [res |-> seed, st |-> st]
    ELSE Contexts(<<IF p = 1 THEN any
                    ELSE Trim(IF Last(before).is = " " THEN before \o any ELSE before)>>, cs, st)
Matched(nm, seed, cs, elems) ==
    LET p == Index(nm.toks, Positions) IN
    [elems |-> elems.res] @@
    (IF p = 1 \/ seed = NoSeed
     THEN [ok |-> [i \in DOMAIN elems.res |-> elems.res[i] # Gone], st |-> elems.st]
     ELSE Flags(Part(nm, 1, p - 1), elems.res, cs[1], elems.st))

\* matcher: the places of those that the position picks.
Picked(nm, pre) ==
    LET p == Index(nm.toks, Positions)
        places == SelectSeq([i \in DOMAIN pre.ok |-> i], LAMBDA i : p = 1 \/ pre.ok[i])
    IN  SelectSeq(At(nm.toks[p].is, places), LAMBDA i : pre.elems[i] # Gone)

\* postFilter, if there is one: which of them are kept.
Restricted(nm, cs, pre, picked) ==
    LET p == Index(nm.toks, Positions) IN
    [elems |-> pre.elems, picked |-> picked] @@
    (IF p = PartEnd(nm.toks) THEN [ok |-> [i \in DOMAIN picked |-> TRUE], st |-> pre.st]
     ELSE Flags(Part(nm, p + 1, PartEnd(nm.toks)),
                [i \in DOMAIN picked |-> pre.elems[picked[i]]], cs[1], pre.st))
Kept(post) == SelectSeq([i \in DOMAIN post.picked |-> IF post.ok[i] THEN post.picked[i] ELSE 0],
                        LAMBDA i : i # 0)

\* With a seed the elements change their sides, otherwise postFinder goes on.
Found(nm, seed, post) ==
    LET kept == Kept(post)
        found == [i \in DOMAIN kept |-> post.elems[kept[i]]]
        last == PartEnd(nm.toks)
        next == SubSeq(nm.toks, last + 1, Len(nm.toks))
    IN
    IF seed # NoSeed
    THEN [res |-> [i \in DOMAIN seed |-> IF i \in ToSet(kept) THEN seed[i] ELSE Gone],
          seed |-> [i \in DOMAIN seed |-> IF i \in ToSet(kept) THEN Gone ELSE seed[i]],
          st |-> post.st]
    ELSE [seed |-> seed] @@
         IF next = <<>> THEN [res |-> found, st |-> post.st]
         ELSE IF BySet(next)
         THEN SetMatcher(Part(nm, last + 1, Len(nm.toks)), NoSeed, found, post.st)
         ELSE Contexts(<<Trim(next)>>, found, post.st)

\* It returns what it found, and what it left of the seed.
AfterPick(nm, seed, cs, pre) == Found(nm, seed, Restricted(nm, cs, pre, Picked(nm, pre)))
SetMatcher(nm, seed, cs, st) ==
    AfterPick(nm, seed, cs, Matched(nm, seed, cs, Candidates(nm, seed, cs, st)))

\* What superMatcher does to the counters and the context at its end: dirruns is
\* the one it began with, cachedruns is not restored.
Restored(st, was, unique) == [st EXCEPT !.dirruns = unique, !.outermost = was]

\* Fault: what the selectors found is put together as it came.
UniqueSort_Unsorted(s) == s

\* uniqueSort
UniqueSort(s) == Ordered(ToSet(s))

\* The selectors of a group are tried from the last to the first: those of single
\* elements, element by element, in the outermost query under a run number for
\* each ...
Some(g, byElement, e, c, st) ==
    FoldLeft(LAMBDA acc, j : IF acc.ok THEN acc
                             ELSE MatchPiece(Piece(g, j, 1, Len(g[j])), e, c, acc.st),
             [ok |-> FALSE, st |-> st], byElement)
Sorted(g, acc, e, unique, counted, r) ==
    LET run == MatcherRuns(r.st, g) + 1 IN
    [res |-> IF r.ok THEN Append(acc.res, e) ELSE acc.res,
     unmatched |-> Append(acc.unmatched, IF r.ok THEN Gone ELSE e),
     st |-> IF counted THEN [r.st EXCEPT !.dirruns = unique, !.cachedruns = run,
                                         !.matchers = (g :> run) @@ @]
            ELSE r.st]
ByElement(g, js, elems, c, outermost, st) ==
    FoldLeft(LAMBDA acc, e : Sorted(g, acc, e, st.dirruns, outermost /\ js # <<>>,
                                    Some(g, js, e, c, acc.st)),
             [res |-> <<>>, unmatched |-> <<>>, st |-> st], elems)

\* ... and those for sets, on what these have left.
Collected(seed, acc, r) ==
    [res |-> IF seed = NoSeed THEN acc.res \o r.res
             ELSE [i \in DOMAIN r.res |-> IF r.res[i] = Gone THEN acc.res[i] ELSE r.res[i]],
     seed |-> r.seed, st |-> r.st]
BySets(g, js, seed, c, first) ==
    [first |-> first.res] @@
    FoldLeft(LAMBDA acc, j :
                Collected(seed, acc, SetMatcher(Piece(g, j, 1, Len(g[j])), acc.seed, <<c>>, acc.st)),
             [res |-> IF seed = NoSeed THEN <<>> ELSE [i \in DOMAIN first.unmatched |-> Gone],
              seed |-> IF seed = NoSeed THEN NoSeed ELSE first.unmatched, st |-> first.st],
             js)

\* The matched elements return to the places they had in the seed.
Rejoined(seed, sets) ==
    [i \in DOMAIN sets.res |->
        IF sets.seed[i] = Gone /\ sets.res[i] = Gone THEN seed[i] ELSE sets.res[i]]
Joined(seed, bySet, outermost, was, unique, sets) ==
    LET all == IF bySet = <<>> THEN sets.first
               ELSE IF seed # NoSeed THEN Condense(Rejoined(seed, sets))
               ELSE sets.first \o sets.res
        sort == /\ outermost /\ seed = NoSeed /\ bySet # <<>> /\ sets.res # <<>>
                /\ Len(sets.first) + Len(bySet) > 1
    IN [res |-> IF sort THEN UniqueSort(all) ELSE all,
        st |-> IF outermost THEN Restored(sets.st, was, unique) ELSE sets.st]

\* superMatcher
SuperMatcher(g, seed, c, outermost, expand, st) ==
    LET js == Reverse([j \in DOMAIN g |-> j])
        byElement == SelectSeq(js, LAMBDA j : ~BySet(g[j]))
        bySet == SelectSeq(js, LAMBDA j : BySet(g[j]))
        st1 == NextDirruns(st)
        st2 == IF outermost
               THEN [st1 EXCEPT !.outermost = IF c = Document THEN Whole ELSE c,
                                !.cachedruns = MatcherRuns(st, g)]
               ELSE st1
        from == IF expand /\ c \in Elems THEN up[c] ELSE c
        elems == IF seed # NoSeed THEN seed
                 ELSE IF byElement = <<>> THEN <<>> ELSE Ordered(Below(from))
    IN Joined(seed, bySet, outermost, st.outermost, st1.dirruns,
              BySets(g, bySet, seed, c, ByElement(g, byElement, elems, c, outermost, st2)))

\* select: without a seed and with one selector, the last tag in it gives the
\* elements to begin with.
SelectFrom(g, c, seed, st) ==
    LET toks == g[1]
        tail == SelectLastInSeq(toks, Relative)
        at == SelectLastInSeq(toks, LAMBDA t : t.is = "tag")
        from == IF Leading(toks) /\ toks[1].is \in {"+", "~"} /\ c \in Elems THEN up[c] ELSE c
        byTag == Ordered({e \in Below(from) : toks[at].v \in {"*", tag[e]}})
        early == seed = NoSeed /\ Len(g) = 1 /\ ~NeedsContext(g) /\ at > tail
        g1 == IF early THEN <<RemoveAt(toks, at)>> ELSE g
    IN
    IF early /\ (byTag = <<>> \/ g1[1] = <<>>) THEN [res |-> byTag, st |-> st]
    ELSE SuperMatcher(g1, IF early THEN byTag ELSE seed, c, TRUE, HasSibling(g1), st)

\* Sizzle: without a seed a tag alone is asked of the browser, and what it knows
\* of selectors.
Sizzle(g, c, seed, st) ==
    IF seed = NoSeed /\ Len(g) = 1 /\ Len(g[1]) = 1 /\ g[1][1].is = "tag" /\ g[1][1].v # "*"
    THEN [res |-> Ordered({e \in Below(c) : tag[e] = g[1][1].v}), st |-> st]
    ELSE IF /\ seed = NoSeed /\ Qsa /\ ~Extended(g)
            /\ c \in Elems \/ \A s \in ToSet(g) : ~Leading(s)
    THEN [res |-> Ordered(Selected(g, c)), st |-> st]
    ELSE SelectFrom(g, c, seed, st)

-----------------------------------------------------------------------------

Asked(g, r, due, ordered) ==
    /\ queries < MaxQueries
    /\ queries' = queries + 1
    /\ left' = r.st
    /\ answer' = [g |-> g, res |-> r.res, due |-> due, ordered |-> ordered]
    /\ UNCHANGED <<up, tag, changes>>

\* Only one of the selectors finds anything, and goes on from each of many elements
\* that it picked by their positions: what it finds is not sorted.
GoesOn(toks) ==
    LET p == Index(toks, Positions) IN
    p # 0 /\ toks[p].is = "even" /\ Index(SubSeq(toks, p + 1, Len(toks)), Combinators) # 0
FindsAlone(g, c) ==
    \E j \in DOMAIN g : /\ GoesOn(g[j])
                       /\ \A k \in DOMAIN g \ {j} : ~BySet(g[k]) /\ SelectedBy(g[k], {c}) = {}

\* find() from the document or from one element
Find(g, c) == Asked(g, Sizzle(g, c, NoSeed, left), Ordered(Selected(g, c)), ~FindsAlone(g, c))

\* filter(): positions are those among the elements given.
Filter(g, seed) ==
    LET Due(toks) ==
            LET p == Index(toks, Positions) IN
            IF p = 0 THEN {e \in seed : Means(toks, Len(toks), Nobody, e)}
            ELSE LET found == Ordered({e \in seed : Means(toks, p - 1, Nobody, e)}) IN
                 {e \in ToSet(At(toks[p].is, found)) : Means(toks, Len(toks), Nobody, e)}
    IN Asked(g, Sizzle(g, Document, Ordered(seed), left),
             Ordered(UNION {Due(g[j]) : j \in DOMAIN g}), TRUE)

\* The page is rearranged between two queries; the caches stay on its elements.
Change ==
    /\ changes < MaxChanges /\ queries < MaxQueries
    /\ changes' = changes + 1
    /\ \/ up' \in Trees /\ UNCHANGED tag
       \/ \E e \in Elems, t \in Tags : tag' = [tag EXCEPT ![e] = t] /\ UNCHANGED up
    /\ UNCHANGED <<left, answer, queries>>

Init ==
    /\ up \in Trees
    /\ tag \in [Elems -> Tags]
    /\ left = Begin
    /\ answer = [g |-> <<>>, res |-> <<>>, due |-> <<>>, ordered |-> TRUE]
    /\ queries = 0 /\ changes = 0

Next ==
    \/ \E g \in Finds, c \in {Document} \cup Elems : Find(g, c)
    \/ \E g \in Filters, seed \in SUBSET Elems \ {{}} : Filter(g, seed)
    \/ Change

Spec == Init /\ [][Next]_vars

-----------------------------------------------------------------------------

\* Type invariant.
TypeOK ==
    /\ up \in Trees /\ tag \in [Elems -> Tags]
    /\ left.outermost = Undefined
    /\ left.dirruns[1] \in 0 .. MaxQueries /\ left.dirruns[2] = 0
    /\ \A n \in 0 .. N : left.nth[n].run[1] \in 0 .. left.dirruns[1]
    /\ queries \in 0 .. MaxQueries /\ changes \in 0 .. MaxChanges

\* A query finds the elements that the selector means, whatever caches earlier
\* queries have left on the elements and however the page has changed since.
FoundRight == ToSet(answer.res) = ToSet(answer.due)

\* It returns each of them once, in the order of the document, also where several
\* selectors or positions have found them; but what one selector alone has found
\* from each of several elements (2789) comes as it was found.
InOrder == answer.ordered => answer.res = answer.due
=============================================================================
