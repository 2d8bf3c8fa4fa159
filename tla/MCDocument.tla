----------------------------- MODULE MCDocument -----------------------------
(***************************************************************************)
(* What the scripts of the console's pages do to the document, one         *)
(* component at a time: the events, selectors and changes of jquery.js and *)
(* the tables of jquery.tablesorter.js.  The components stand side by      *)
(* side; `subject' is the one that moves, and says with which constants.   *)
(***************************************************************************)
EXTENDS Integers, Sequences, TLC

CONSTANTS
    Subjects,             \* those that are looked at
    h1, h2, h3,           \* handlers of events
    t1, t2, w1, w2, w3    \* tables and their rows

VARIABLES
    subject,
    bound, list, delegates, listening, attaches, captured, triggered, eventCalls, used, events,
    spent, again, late, skipped,
    parent, tag, left, answer, queries, changes,
    place, script, id, entries, objects, deleted, guid, listens, masked, ran, steps,
    sorters, rows, away, parsers, caches, lists, ownList, headerList, count, css, clicks, resorted

-----------------------------------------------------------------------------
(* Events at a node and the document around it: two that two handlers see; *)
(* three handlers that are bound while one runs; a type whose listener is  *)
(* the document's.                                                         *)

HandlersOf(homes, types, once) ==
    {k \in [home : homes, type : types, sel : {0, 1}, once : once] : k.sel < k.home}

Bubbling == INSTANCE Events WITH
    Depth <- 2, Types <- {"click"}, Native <- {"click"}, Focusing <- {}, Inline <- {},
    Handlers <- {h1, h2}, MaxEvents <- 2,
    Kinds <- {k \in HandlersOf({1, 2}, {"click"}, BOOLEAN) : k.once <=> k.home = 2 /\ k.sel = 0},
    kind <- bound, attached <- listening, calls <- eventCalls
Binding == INSTANCE Events WITH
    Depth <- 2, Types <- {"click"}, Native <- {"click"}, Focusing <- {}, Inline <- {},
    Handlers <- {h1, h2, h3}, Kinds <- HandlersOf({2}, {"click"}, BOOLEAN), MaxEvents <- 1,
    kind <- bound, attached <- listening, calls <- eventCalls
Focused == INSTANCE Events WITH
    Depth <- 2, Types <- {"click", "focusin"}, Native <- {"click"}, Focusing <- {"focusin"},
    Inline <- {2}, Handlers <- {h1, h2},
    Kinds <- HandlersOf({1, 2}, {"click", "focusin"}, {FALSE}), MaxEvents <- 1,
    kind <- bound, attached <- listening, calls <- eventCalls

-----------------------------------------------------------------------------
(* Selectors: chains of combinators that are looked for twice; selectors   *)
(* with commas, tests and selectors as arguments; positions.               *)

Tag(v) == [is |-> "tag", v |-> v, arg |-> <<>>]
Token(c) == [is |-> c, v |-> "", arg |-> <<>>]
Having(s) == [is |-> "has", v |-> "", arg |-> <<s>>]
Not(s) == [is |-> "not", v |-> "", arg |-> <<s>>]
Odd == Token("nth")
a == Tag("a")
b == Tag("b")
any == Tag("*")
Combined == {" ", ">", "+", "~"}
Places == {"first", "last", "even"}

\* a ~ b > *
ChainQueries == {<< <<a, Token(c), b, Token(d), any>> >> : c \in Combined, d \in Combined}
MixedQueries ==
    {<< <<Token(c), a>> >> : c \in {">", "+", "~"}}
    \cup {<< <<a, Token(c), b>>, <<b, Token(" "), any>> >> : c \in Combined}
    \cup {<< <<any, Odd, Token(c), a, Odd>> >> : c \in {" ", "~"}}
    \cup {<< <<a, Not(<<b, Token(c), any>>), Token(" "), any>> >> : c \in Combined}
    \cup {<< <<a, Having(<<Token(">"), b>>), Token(" "), any>> >>}
    \cup {<< <<a, Having(<<Token("+"), b>>), Token(d), any>> >> : d \in {" ", "~"}}
    \cup {<< <<any, Having(<<a>>), Token(d), b>> >> : d \in {" ", "~"}}
PlacedQueries ==
    {<< <<a, Token(p), Token(" "), any>> >> : p \in Places}
    \cup {<< <<a, Token(" "), any, Token("even")>>, <<b>> >>}
    \cup {<< <<a, Token(" "), any, Token(p), Odd>>, <<b>> >> : p \in {"first", "last"}}
    \cup {<< <<any, Token(p), Token(">"), a>>, <<b, Token("~"), any>> >> : p \in Places}
    \cup {<< <<a, Token(" "), any, Token(p), Token(c), b, Token(q)>> >> :
             p \in {"first", "last"}, q \in Places, c \in {" ", "+"}}

Chains == INSTANCE Selectors WITH
    N <- 3, Tags <- {"a", "b"}, Finds <- ChainQueries, Filters <- {}, Qsa <- FALSE,
    MaxQueries <- 2, MaxChanges <- 1, up <- parent
Mixed == INSTANCE Selectors WITH
    N <- 4, Tags <- {"a", "b"}, Finds <- MixedQueries,
    Filters <- {<< <<a, Token("~"), b>>, <<Odd>> >>}, Qsa <- FALSE,
    MaxQueries <- 1, MaxChanges <- 1, up <- parent
Placed == INSTANCE Selectors WITH
    N <- 4, Tags <- {"a", "b"}, Finds <- PlacedQueries,
    Filters <- {<< <<a, Token(p), Odd>>, <<b>> >> : p \in Places}, Qsa <- TRUE,
    MaxQueries <- 1, MaxChanges <- 1, up <- parent

-----------------------------------------------------------------------------
(* Elements: two, their data, handlers and copies, in old browsers and in  *)
(* others; a script in one of two.                                         *)

Out == -1
Owned == INSTANCE Manipulation WITH
    N <- 4, Tree <- <<0, Out>>, Scripts <- {}, Types <- {"click", "key"}, Special <- {"click"},
    Values <- {1}, OldIE <- TRUE, MaxSteps <- 5, up <- place, cache <- entries
Kept == INSTANCE Manipulation WITH
    N <- 4, Tree <- <<0, Out>>, Scripts <- {}, Types <- {"click"}, Special <- {"click"},
    Values <- {1, 2}, OldIE <- FALSE, MaxSteps <- 4, up <- place, cache <- entries
Scripted == INSTANCE Manipulation WITH
    N <- 4, Tree <- <<0, Out, 2>>, Scripts <- {3}, Types <- {}, Special <- {}, Values <- {},
    OldIE <- FALSE, MaxSteps <- 5, up <- place, cache <- entries

-----------------------------------------------------------------------------
(* Tables: one whose rows are alike in a column, sorted by the page and by *)
(* clicks with and without the shift key; one of up to three rows that has *)
(* a list from the start and is clicked without; two of a row each.        *)

\* "9", "10" and "n/a": as numbers 9, 10 and 0; as text "10" < "9" < "n/a"
Nine == [digit |-> TRUE, number |-> 9, text |-> 2]
Ten == [digit |-> TRUE, number |-> 10, text |-> 1]
NotGiven == [digit |-> FALSE, number |-> 0, text |-> 3]
Ann == [digit |-> FALSE, number |-> 0, text |-> 4]
Bob == [digit |-> FALSE, number |-> 0, text |-> 5]
CellsOf == w1 :> <<Nine, Bob>> @@ w2 :> <<Ten, Ann>> @@ w3 :> <<NotGiven, Bob>>

Listed == INSTANCE TableSorter WITH
    Tables <- {t1}, Columns <- 1 .. 2, Rows <- {w1, w3}, Cells <- CellsOf,
    Disabled <- t1 :> {}, Settings <- t1 :> <<>>, FirstRows <- t1 :> <<w1, w3>>,
    ShiftKeys <- BOOLEAN, SortLists <- {<<<<2, 1>>, <<1, 0>>>>}, MaxClicks <- 1,
    attached <- sorters, cache <- caches, timers <- clicks
Clicked == INSTANCE TableSorter WITH
    Tables <- {t1}, Columns <- 1 .. 2, Rows <- {w1, w2, w3}, Cells <- CellsOf,
    Disabled <- t1 :> {}, Settings <- t1 :> <<<<2, 1>>>>, FirstRows <- t1 :> <<w1, w2>>,
    ShiftKeys <- {FALSE}, SortLists <- {<<<<1, 0>>>>, <<<<2, 1>>>>}, MaxClicks <- 2,
    attached <- sorters, cache <- caches, timers <- clicks
Paired == INSTANCE TableSorter WITH
    Tables <- {t1, t2}, Columns <- 1 .. 2, Rows <- {w1, w2}, Cells <- CellsOf,
    Disabled <- t1 :> {} @@ t2 :> {2}, Settings <- t1 :> <<>> @@ t2 :> <<>>,
    FirstRows <- t1 :> <<w1>> @@ t2 :> <<w2>>,
    ShiftKeys <- {TRUE}, SortLists <- {}, MaxClicks <- 1,
    attached <- sorters, cache <- caches, timers <- clicks

-----------------------------------------------------------------------------

OfEvents == {"bubbling", "binding", "focused"}
OfSelectors == {"chains", "mixed", "placed"}
OfElements == {"owned", "kept", "scripted"}
OfTables == {"listed", "clicked", "paired"}

ASSUME ComponentsAssumption ==
    /\ Subjects \subseteq OfEvents \cup OfSelectors \cup OfElements \cup OfTables
    /\ Bubbling!DepthAssumption /\ Bubbling!TypesAssumption /\ Bubbling!InlineAssumption
    /\ Bubbling!KindsAssumption /\ Binding!TypesAssumption /\ Binding!KindsAssumption
    /\ Focused!TypesAssumption /\ Focused!InlineAssumption /\ Focused!KindsAssumption
    /\ Chains!SizeAssumption /\ Chains!QsaAssumption
    /\ Mixed!SizeAssumption /\ Mixed!QsaAssumption
    /\ Placed!SizeAssumption /\ Placed!QsaAssumption
    /\ Owned!SizeAssumption /\ Owned!KindAssumption
    /\ Kept!SizeAssumption /\ Kept!KindAssumption /\ Kept!Promise!ValueAssumption
    /\ Scripted!SizeAssumption /\ Scripted!KindAssumption

handlers == <<bound, list, delegates, listening, attaches, captured, triggered, eventCalls, used,
              events, spent, again, late, skipped>>
selectors == <<parent, tag, left, answer, queries, changes>>
elements == <<place, script, id, entries, objects, deleted, guid, listens, masked, ran, steps>>
tables == <<sorters, rows, away, parsers, caches, lists, ownList, headerList, count, css, clicks,
            resorted>>
vars == <<subject, handlers, selectors, elements, tables>>

\* Which of the handlers is which does not matter: it is enough to begin with
\* their kinds in some order.
Ascending(s) == \A i \in 1 .. Len(s) - 1 : s[i] <= s[i + 1]
HandlerRank(h) == 100 * bound[h].home + 10 * bound[h].sel + (IF bound[h].once THEN 5 ELSE 0)
                      + (IF bound[h].type = "click" THEN 1 ELSE 0)

\* Whatever does not move is in one of its first states.
Init ==
    /\ subject \in Subjects
    /\ CASE subject = "binding" -> Binding!Init
         [] subject = "focused" -> Focused!Init
         [] OTHER -> Bubbling!Init
    /\ IF subject = "binding" THEN Ascending(<<HandlerRank(h1), HandlerRank(h2), HandlerRank(h3)>>)
       ELSE Ascending(<<HandlerRank(h1), HandlerRank(h2)>>)
    /\ subject \notin OfEvents => \A h \in {h1, h2} :
          bound[h] = [home |-> 1, type |-> "click", sel |-> 0, once |-> FALSE]
    /\ CASE subject = "mixed" -> Mixed!Init
         [] subject = "placed" -> Placed!Init
         [] OTHER -> Chains!Init
    /\ subject \notin OfSelectors => \A n \in 1 .. 3 : parent[n] = n - 1 /\ tag[n] = "a"
    /\ CASE subject = "kept" -> Kept!Init
         [] subject = "scripted" -> Scripted!Init
         [] OTHER -> Owned!Init
    /\ CASE subject = "clicked" -> Clicked!Init
         [] subject = "paired" -> Paired!Init
         [] OTHER -> Listed!Init

Next ==
    \/ /\ \/ subject = "bubbling" /\ Bubbling!Next
          \/ subject = "binding" /\ Binding!Next
          \/ subject = "focused" /\ Focused!Next
       /\ UNCHANGED <<subject, selectors, elements, tables>>
    \/ /\ \/ subject = "chains" /\ Chains!Next
          \/ subject = "mixed" /\ Mixed!Next
          \/ subject = "placed" /\ Placed!Next
       /\ UNCHANGED <<subject, handlers, elements, tables>>
    \/ /\ \/ subject = "owned" /\ Owned!Next
          \/ subject = "kept" /\ Kept!Next
          \/ subject = "scripted" /\ Scripted!Next
       /\ UNCHANGED <<subject, handlers, selectors, tables>>
    \/ /\ \/ subject = "listed" /\ Listed!Next
          \/ subject = "clicked" /\ Clicked!Next
          \/ subject = "paired" /\ Paired!Next
       /\ UNCHANGED <<subject, handlers, selectors, elements>>

Spec == Init /\ [][Next]_vars

-----------------------------------------------------------------------------
(* What each of them promises, with its type invariant; its module says it *)
(* of the component alone.                                                 *)

\* One event calls nothing twice at one node, no handler that was unbound or used
\* up before it began, and none above a node where it was stopped; a dispatch
\* misses no handler, whatever its handlers bind and unbind; delegated handlers
\* are in front; the browser listens for what there are handlers for.
HandlersCalled ==
    /\ subject = "bubbling" => Bubbling!HandlersCalled
    /\ subject = "binding" => Binding!HandlersCalled
    /\ subject = "focused" => Focused!HandlersCalled

\* A selector finds what it means, whatever the queries before have cached, each
\* element once and in the order of the document; those with a comma, of which
\* parts with and without positions find elements, are sorted at the end.
SelectorsRight ==
    /\ subject = "chains" => Chains!TypeOK /\ Chains!FoundRight /\ Chains!InOrder
    /\ subject = "mixed" => Mixed!TypeOK /\ Mixed!FoundRight /\ Mixed!InOrder
    /\ subject = "placed" => Placed!TypeOK /\ Placed!FoundRight /\ Placed!InOrder

\* No two elements have one number in jQuery.cache, those that are gone leave
\* nothing in it, and an element's handle is called for the types it has handlers
\* of; a script runs once, wherever it is moved to, and none is left disabled.
ElementsKeepTheirs ==
    /\ subject = "owned" =>
          Owned!TypeOK /\ Owned!NumbersApart /\ Owned!NothingLeaks /\ Owned!ListensForHandlers
    /\ subject = "kept" => Kept!TypeOK
    /\ subject = "scripted" => Scripted!TypeOK /\ Scripted!ScriptsOnce /\ Scripted!NoneDisabled

\* Refinement: every element has data and handlers of its own (NodeData),
\* wherever it is moved and however it is copied.
KeepsPromise ==
    /\ subject = "kept" => Kept!Promise!Init
    /\ [][subject = "kept" => [Kept!Promise!Next]_(Kept!Promise!vars)]_vars

\* The headers of a sorted table mark what it is sorted by, and its rows stand in
\* that order; sorting loses no row and doubles none, within a table and between
\* two; a click on the header that a table is sorted by turns the order.
TablesSorted ==
    /\ [](subject = "listed" => Listed!TypeOK /\ Listed!MarkedAsAsked /\ Listed!SortedAsMarked)
    /\ [](subject = "clicked" => Clicked!TypeOK /\ Clicked!MarkedAsAsked /\ Clicked!SortedAsMarked)
    /\ [](subject = "paired" => Paired!TypeOK /\ Paired!EachRowOnce)
    /\ [][subject = "clicked" => Clicked!ClickTurnsOrder]_vars
=============================================================================
