---------------------------- MODULE ConsoleLists ----------------------------
(***************************************************************************)
(* The paged lists of the console: the users (UserController.getUserList,  *)
(* user/list.jsp, user/table.jsp) and the sessions                         *)
(* (SessionController.getSessionList, session/list.jsp, session/table.jsp).*)
(* The page asks for its table by an ajax call, and the links to ask by    *)
(* next are in the table that came back.  The user does not wait: calls    *)
(* overlap, are answered in any order or given up after five seconds, and  *)
(* users and sessions come and go meanwhile.                               *)
(*                                                                         *)
(* The sessions are read once for an answer; the users are counted first,  *)
(* then read from the database, page by page, and whether they are online  *)
(* is looked up last.                                                      *)
(***************************************************************************)
EXTENDS Integers, Sequences, FiniteSets, FiniteSetsExt, SequencesExt

CONSTANTS
    Kind,       \* "users" or "sessions"
    Items,      \* all there may ever be, a set of numbers: when each was made
    Key,        \* [Items -> Int]: their values in the other column
    PageSize,   \* rows of a page (10 in the code)
    MaxShowSize,\* page links shown (8 in the code), even
    MaxAsked,   \* bound: calls under way at once
    MaxChanges  \* bound: changes of the users or sessions, 0 for any number

Columns == IF Kind = "users" THEN {"createdDate", "key", "online"}
                             ELSE {"createdDate", "key"}
Orders == {"asc", "desc"}
None == <<>>

VARIABLES
    items,      \* what there is now
    online,     \* the users that are online
    asked,      \* calls under way: [page, column, type, stage, pageCount, users,
                \*   rows]
    shown,      \* the table shown: [page, pageCount, column, type, rows]
    changes     \* how often users or sessions have changed, where that is bounded

vars == <<items, online, asked, shown, changes>>

---------------------------------------------------------------------------
(* Answering a call.                                                       *)

\* Pages there are, the last one full or not.
PageCount(n) == n \div PageSize + (IF n % PageSize = 0 THEN 0 ELSE 1)

\* Whether x may come before y in a list ordered by the column.
Compare(column, type, x, y) ==
    LET v(z) == IF column = "key" THEN Key[z] ELSE z IN
    IF type = "desc" THEN v(y) - v(x) ELSE v(x) - v(y)

\* A set in the order of the column.  Sessions that compare equal stay in the
\* order of the map they come from, which is the same every time.  The database
\* leaves the order of equal users open, so users get values that differ.
Sorted(S, column, type) ==
    SetToSortSeq(S, LAMBDA x, y :
        \/ Compare(column, type, x, y) < 0
        \/ Compare(column, type, x, y) = 0 /\ x < y)

\* The rows of a page; past the last page there are none.
Page(list, page) ==
    LET start == Max({(page - 1) * PageSize, 0}) IN
    SubSeq(list, start + 1, Min({start + PageSize, Len(list)}))

\* In the list of sessions a page before the first reads before the first row,
\* and fails; the database takes a negative start for none.
PageFails(page) == Kind = "sessions" /\ page < 1

\* A table row: the item, and the online icon it is shown with.
Row(x, on) == [item |-> x, on |-> on]

\* Ordered by "online", the users are read by their date, and those of the
\* page that are online are put first, or last.
OnlineOrder(column, type, list) ==
    IF column # "online" THEN list
    ELSE LET yes == SelectSeq(list, LAMBDA r : r.on)
             no  == SelectSeq(list, LAMBDA r : ~r.on)
         IN  IF type = "desc" THEN yes \o no ELSE no \o yes

---------------------------------------------------------------------------
(* The links of a table.                                                   *)

\* The pages linked to by their numbers, around the page shown.
Window(page, pages) ==
    LET start == page - MaxShowSize \div 2
        end   == page + MaxShowSize \div 2 - 1
    IN  IF start < 1 THEN 1..Min({MaxShowSize, pages})
        ELSE IF end > pages THEN Max({pages - MaxShowSize + 1, 1})..pages
        ELSE start..end

\* First, previous, by number, next and last.
Links(page, pages) ==
    {1, IF page <= 1 THEN 1 ELSE page - 1,
     IF page >= pages THEN pages ELSE page + 1, pages} \cup Window(page, pages)

---------------------------------------------------------------------------

Init ==
    /\ items \in SUBSET Items
    /\ online \in IF Kind = "users" THEN SUBSET items ELSE {{}}
    /\ asked = <<>>
    /\ shown = None
    /\ changes = 0

\* A call is made.
Ask(page, column, type) ==
    /\ Len(asked) < MaxAsked
    /\ asked' = Append(asked, [page |-> page, column |-> column,
                               type |-> type, stage |-> "sent",
                               pageCount |-> 0, users |-> <<>>, rows |-> <<>>])
    /\ UNCHANGED <<items, online, shown, changes>>

\* $(document).ready: the newest first.
pageReady == shown = None /\ asked = <<>> /\ Ask(1, "createdDate", "desc")

\* A page link keeps the order of the table it is in.
pagination ==
    /\ shown # None
    /\ \E p \in Links(shown.page, shown.pageCount) :
          Ask(p, shown.column, shown.type)

\* The header of the column the table is ordered by turns the order; another
\* one starts descending.
gotoPageByOrder ==
    /\ shown # None
    /\ \E c \in Columns :
          Ask(shown.page, c,
              IF c = shown.column /\ shown.type = "desc" THEN "asc" ELSE "desc")

\* The users are counted.
CountUsers(i) ==
    /\ Kind = "users"
    /\ asked[i].stage = "sent"
    /\ asked' = [asked EXCEPT ![i].stage = "counted",
                              ![i].pageCount = PageCount(Cardinality(items))]
    /\ UNCHANGED <<items, online, shown, changes>>

\* A page of users is read.
ReadUsers(i) ==
    /\ asked[i].stage = "counted"
    /\ asked' = [asked EXCEPT ![i].stage = "read",
           ![i].users = Page(Sorted(items, asked[i].column, asked[i].type),
                            asked[i].page)]
    /\ UNCHANGED <<items, online, shown, changes>>

\* Whether they are online is looked up for one after the other; then the page
\* is put in order.
LookUp(i) ==
    /\ asked[i].stage = "read"
    /\ LET a == asked[i] IN
       asked' = [asked EXCEPT ![i] =
           IF a.users = <<>>
           THEN [a EXCEPT !.stage = "answered",
                          !.rows = OnlineOrder(a.column, a.type, @)]
           ELSE [a EXCEPT !.users = Tail(@),
                          !.rows = Append(@, Row(Head(a.users),
                                                 Head(a.users) \in online))]]
    /\ UNCHANGED <<items, online, shown, changes>>

\* The sessions are read, sorted and cut.
getSessionList(i) ==
    /\ Kind = "sessions"
    /\ asked[i].stage = "sent"
    /\ LET a == asked[i]
           read == Page(Sorted(items, a.column, a.type), a.page)
       IN  asked' = IF PageFails(a.page)
                    THEN RemoveAt(asked, i)
                    ELSE [asked EXCEPT ![i].stage = "answered",
                             ![i].pageCount = PageCount(Cardinality(items)),
                             ![i].rows = [k \in DOMAIN read |-> Row(read[k], FALSE)]]
    /\ UNCHANGED <<items, online, shown, changes>>

\* Fault: the header is marked by the order that was asked for last.
Success_MarkedAsAsked(i) ==
    /\ asked[i].stage = "answered"
    /\ LET a == asked[i] IN
       shown' = [page |-> a.page, pageCount |-> a.pageCount,
                 column |-> Last(asked).column, type |-> Last(asked).type,
                 rows |-> a.rows]
    /\ asked' = RemoveAt(asked, i)
    /\ UNCHANGED <<items, online, changes>>

\* success: the table that came is shown instead of the one there was.
Success(i) ==
    /\ asked[i].stage = "answered"
    /\ LET a == asked[i] IN
       shown' = [page |-> a.page, pageCount |-> a.pageCount,
                 column |-> a.column, type |-> a.type, rows |-> a.rows]
    /\ asked' = RemoveAt(asked, i)
    /\ UNCHANGED <<items, online, changes>>

\* timeout: the call is given up, and nothing is shown of it.
Timeout(i) ==
    /\ asked' = RemoveAt(asked, i)
    /\ UNCHANGED <<items, online, shown, changes>>

\* What there is changes, no more often than MaxChanges allows.
Change ==
    /\ MaxChanges = 0 \/ changes < MaxChanges
    /\ changes' = Min({changes + 1, MaxChanges})

\* A user registers or is deleted, a session is opened or closed.
ItemsChange ==
    /\ \E x \in Items : \/ x \notin items /\ items' = items \cup {x}
                        \/ x \in items /\ items' = items \ {x}
    /\ online' = online \cap items'
    /\ Change
    /\ UNCHANGED <<asked, shown>>

\* A user's device comes online or goes.
PresenceChange ==
    /\ Kind = "users"
    /\ \E x \in items : online' = IF x \in online THEN online \ {x}
                                                  ELSE online \cup {x}
    /\ Change
    /\ UNCHANGED <<items, asked, shown>>

Next ==
    \/ pageReady
    \/ pagination
    \/ gotoPageByOrder
    \/ \E i \in DOMAIN asked :
          CountUsers(i) \/ ReadUsers(i) \/ LookUp(i)
              \/ getSessionList(i) \/ Success(i) \/ Timeout(i)
    \/ ItemsChange
    \/ PresenceChange

Spec == Init /\ [][Next]_vars

---------------------------------------------------------------------------
(* Properties.                                                             *)

TypeOK ==
    /\ items \subseteq Items
    /\ online \subseteq items
    /\ \A i \in DOMAIN asked :
          /\ asked[i].page \in Nat
          /\ asked[i].column \in Columns
          /\ asked[i].type \in Orders
          /\ Len(asked[i].rows) <= PageSize
    /\ shown # None => shown.page \in Nat /\ shown.pageCount \in Nat

\* The table shown is in the order its header marks, whatever came and went
\* while it was asked for and whichever call was answered last: by the column
\* and, where users are ordered by being online, by the icons shown.
ShownAsMarked ==
    shown # None =>
        \A i, j \in DOMAIN shown.rows : i < j =>
            LET r == shown.rows[i]
                s == shown.rows[j]
            IN  IF shown.column = "online"
                THEN (shown.type = "desc" => (s.on => r.on))
                     /\ (shown.type = "asc" => (r.on => s.on))
                ELSE LET v(z) == IF shown.column = "key" THEN Key[z] ELSE z
                     IN  IF shown.type = "desc"
                         THEN v(r.item) >= v(s.item)
                         ELSE v(r.item) <= v(s.item)

\* A table of sessions agrees with its own page count: every page but the last
\* is full, the last is not empty, and pages past it are.
PageAgrees ==
    (shown # None /\ Kind = "sessions") =>
        CASE shown.page < shown.pageCount -> Len(shown.rows) = PageSize
          [] shown.page = shown.pageCount -> shown.rows # <<>>
          [] OTHER -> shown.rows = <<>>

\* Going through all the pages of a list that does not change, in any order of
\* its rows, shows everything there is, and nothing twice.
EveryItemOnOnePage ==
    \A c \in Columns, o \in Orders :
        LET list == Sorted(items, c, o)
            Pages == 1..PageCount(Cardinality(items))
            read(p) == LET page == Page(list, p) IN
                       OnlineOrder(c, o, [i \in DOMAIN page |->
                                     Row(page[i], page[i] \in online)])
            At(x) == {<<p, i>> \in Pages \X (1..PageSize) :
                         i \in DOMAIN read(p) /\ read(p)[i].item = x}
        IN  \A x \in items : Cardinality(At(x)) = 1

\* However many pages there are and whichever is shown, as many are linked to
\* by number as there are or fit, and the one shown is among them.
WindowFull ==
    shown # None =>
        LET w == Window(shown.page, shown.pageCount) IN
        /\ Cardinality(w) = Min({MaxShowSize, shown.pageCount})
        /\ shown.page \in 1..shown.pageCount => shown.page \in w
        /\ w \subseteq 1..shown.pageCount

=============================================================================
