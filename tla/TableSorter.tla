---------------------------- MODULE TableSorter ----------------------------
(***************************************************************************)
(* The table sorter of the console's list pages                            *)
(* (scripts/jquery.tablesorter.js).  A table is sorted through a cache of  *)
(* its rows, made when the sorter is attached and remade only on "update"; *)
(* a click on a header changes the sort list at once and sorts the cache   *)
(* one millisecond later, by the list and the cache of that later moment.  *)
(* Meanwhile the page adds and deletes rows of its own accord.             *)
(*                                                                         *)
(* The settings of a table are a shallow copy of the defaults, so that     *)
(* tables share the list of headers, and share the default sort list until *)
(* they are given one of their own.                                        *)
(*                                                                         *)
(* Left out: the widgets, appender, sortForce and metadata settings (none  *)
(* by default), the events sortStart and sortEnd, and cells that span      *)
(* columns.                                                                *)
(***************************************************************************)
EXTENDS Integers, Sequences, FiniteSets, SequencesExt

CONSTANTS
    Tables,     \* the tables of the page
    Columns,    \* their columns, 1..n
    Rows,       \* every row the page may put in a table
    Cells,      \* [Rows -> [Columns -> [digit, number, text]]]
    Disabled,   \* [Tables -> SUBSET Columns]: headers with sorter: false
    Settings,   \* [Tables -> Seq(sort entries)]: sortList given, <<>> if none
    FirstRows,  \* [Tables -> Seq(Rows)]: the rows the page is loaded with
    ShiftKeys,  \* the states of the shift key in which headers are clicked
    SortLists,  \* the lists the page triggers "sorton" with
    MaxClicks   \* bound: clicks waiting for their timer

Orders == {0, 1}
Entries == Columns \X Orders
Defaults == "defaults"

VARIABLES
    attached,   \* tables on which the sorter was constructed
    rows,       \* [Tables -> Seq(Rows)]: the rows of the body, in order
    away,       \* rows in no table
    parsers,    \* [Tables -> [Columns -> parser types] or <<>> (undefined)]
    cache,      \* [Tables -> [row, normalized]]
    lists,      \* the sort lists: the default one and each table's own
    ownList,    \* tables whose config.sortList is their own list
    headerList, \* [Columns -> Tables]: whose header config.headerList holds
    count,      \* [Tables -> [Columns -> {0, 1}]]: header.count, modulo 2
    css,        \* [Tables -> [Columns -> Orders or NoMark]]
    timers,     \* sorts started by clicks and not yet run, in order
    resorted    \* history: tables sorted since their cache was last made

vars == <<attached, rows, away, parsers, cache, lists, ownList, headerList,
          count, css, timers, resorted>>

NoMark == 2
NoMarks == [c \in Columns |-> NoMark]
Undefined == <<>>

\* config.sortList of a table, by the reference it holds.
ListOf(t) == IF t \in ownList THEN lists[t] ELSE lists[Defaults]

---------------------------------------------------------------------------
(* The cache.                                                              *)

\* The first parser, other than text, whose is() takes the cell of the first
\* row, and text if none does; the others all give numbers, and "digit" stands
\* for the cells one of them takes.
detectParserForColumn(r, c) == IF Cells[r][c].digit THEN "numeric" ELSE "text"

\* One parser for each column, by the first row alone; a table without rows
\* leaves the list undefined.
buildParserCache(body) ==
    IF body = <<>> THEN Undefined
    ELSE [c \in Columns |-> detectParserForColumn(body[1], c)]

\* What a parser makes of a cell: a number, 0 if it has none, or its text.
Format(type, cell) == IF type = "numeric" THEN cell.number ELSE cell.text

\* The rows as they stand, and for each the parsed cells and its index.
buildCache(body, types) ==
    [row |-> body,
     normalized |->
         [i \in DOMAIN body |->
             [cols |-> [c \in Columns |-> Format(types[c], Cells[body[i]][c])],
              pos  |-> i]]]

\* Fault: only the first column of the list is looked at.
X_SortWrapperFirst(list, a, b) ==
    LET c == list[1][1] IN
    \/ IF list[1][2] = 0 THEN a.cols[c] < b.cols[c] ELSE b.cols[c] < a.cols[c]
    \/ a.cols[c] = b.cols[c] /\ a.pos < b.pos

\* The comparison multisort writes out: the columns of the list in turn, then
\* the index at which the row was cached.
SortWrapper(list, a, b) ==
    \/ \E i \in DOMAIN list :
          LET c == list[i][1] IN
          /\ \A j \in 1..(i - 1) : a.cols[list[j][1]] = b.cols[list[j][1]]
          /\ IF list[i][2] = 0 THEN a.cols[c] < b.cols[c]
                               ELSE b.cols[c] < a.cols[c]
    \/ /\ \A i \in DOMAIN list : a.cols[list[i][1]] = b.cols[list[i][1]]
       /\ a.pos < b.pos

\* The cached rows, sorted in place.
multisort(list, c) ==
    [c EXCEPT !.normalized = SortSeq(@, LAMBDA a, b : SortWrapper(list, a, b))]

\* The sort throws where no parser was made or there is no row to look at.
SortThrows(t) == parsers[t] = Undefined \/ cache[t].normalized = <<>>

Cached(c) == [i \in DOMAIN c.normalized |-> c.row[c.normalized[i].pos]]

\* Every cached row is moved to the end of the body: rows the cache does not
\* know stay before them, and rows deleted since come back.
appendToTable(body, c) ==
    SelectSeq(body, LAMBDA r : r \notin ToSet(c.row)) \o Cached(c)

---------------------------------------------------------------------------
(* The headers.                                                            *)

\* The first entry of the list whose column has no sortable header: there
\* setHeadersCss throws, with the entries before it marked.
BadEntries(t, list) == {i \in DOMAIN list : list[i][1] \in Disabled[t]}
CssThrows(t, list) == BadEntries(t, list) # {}

setHeadersCss(t, list) ==
    [c \in Columns |->
        LET Marking == {i \in DOMAIN list :
                           /\ list[i][1] = c
                           /\ \A b \in BadEntries(t, list) : i < b}
        IN  IF Marking = {} THEN NoMark
            ELSE list[CHOOSE i \in Marking : \A j \in Marking : j <= i][2]]

\* The next click on a column is to turn the order it is sorted in now; the
\* headers are those the shared header list holds.
updateHeaderSortCount(list) ==
    [t \in Tables |-> [c \in Columns |->
        LET Set == {i \in DOMAIN list : list[i][1] = c}
        IN  IF headerList[c] = t /\ Set # {}
            THEN (list[CHOOSE i \in Set : \A j \in Set : j <= i][2] + 1) % 2
            ELSE count[t][c]]]

---------------------------------------------------------------------------

Init ==
    /\ attached = {}
    /\ rows = FirstRows
    /\ away = Rows \ UNION {ToSet(FirstRows[t]) : t \in Tables}
    /\ parsers = [t \in Tables |-> Undefined]
    /\ cache = [t \in Tables |-> buildCache(<<>>, Undefined)]
    /\ lists = [l \in Tables \cup {Defaults} |->
                   IF l = Defaults THEN <<>> ELSE Settings[l]]
    /\ ownList = {t \in Tables : Settings[t] # <<>>}
    /\ headerList \in {[c \in Columns |-> t] : t \in Tables}
    /\ count = [t \in Tables |-> [c \in Columns |-> 0]]
    /\ css = [t \in Tables |-> NoMarks]
    /\ timers = <<>>
    /\ resorted = {}

\* The rows of a table after a sort: those that came back are away no more.
PutRows(t, c) ==
    /\ rows' = [rows EXCEPT ![t] = appendToTable(@, c)]
    /\ away' = away \ ToSet(c.row)

\* A sort by a list: the headers are marked, then the cache is sorted and put
\* back; each may throw and leave the rest undone.
SortBy(t, list) ==
    /\ css' = [css EXCEPT ![t] = setHeadersCss(t, list)]
    /\ IF CssThrows(t, list) \/ SortThrows(t)
       THEN UNCHANGED <<rows, away, cache, resorted>>
       ELSE LET c == multisort(list, cache[t]) IN
            /\ cache' = [cache EXCEPT ![t] = c]
            /\ PutRows(t, c)
            /\ resorted' = resorted \cup {t}

\* The sorter is attached to a table; a sort list that is not empty already,
\* the table's own or the one shared, is sorted by at once.
construct(t) ==
    /\ t \notin attached
    /\ attached' = attached \cup {t}
    /\ headerList' = [c \in Columns |-> t]
    /\ LET types == buildParserCache(rows[t])
           made  == buildCache(rows[t], types)
           list  == ListOf(t)
       IN  /\ parsers' = [parsers EXCEPT ![t] = types]
           /\ count' = [count EXCEPT ![t] = [c \in Columns |->
                  LET Set == {i \in DOMAIN list : list[i][1] = c}
                  IN  IF Set = {} THEN 0
                      ELSE (list[CHOOSE i \in Set : \A j \in Set : j <= i][2]
                                + 1) % 2]]
           /\ css' = [css EXCEPT ![t] = setHeadersCss(t, list)]
           /\ IF list = <<>> \/ CssThrows(t, list) \/ rows[t] = <<>>
              THEN /\ cache' = [cache EXCEPT ![t] = made]
                   /\ UNCHANGED <<rows, away, resorted>>
              ELSE LET c == multisort(list, made) IN
                   /\ cache' = [cache EXCEPT ![t] = c]
                   /\ PutRows(t, c)
                   /\ resorted' = resorted \cup {t}
    /\ UNCHANGED <<lists, ownList, timers>>

\* A sortable header of a table with rows is clicked without the shift key:
\* its column alone is sorted by, in a list of the table's own.
ClickPlain(t, c) ==
    /\ lists' = [lists EXCEPT ![t] = <<<<c, count[t][c]>>>>]
    /\ ownList' = ownList \cup {t}
    /\ count' = [count EXCEPT ![t][c] = 1 - @]

\* With the shift key, an entry of the list is turned, through the header the
\* shared list holds, or the column is added to the list the table refers to.
ClickShift(t, c) ==
    LET l == IF t \in ownList THEN t ELSE Defaults
        Set == {i \in DOMAIN lists[l] : lists[l][i][1] = c}
        counted == [count EXCEPT ![t][c] = 1 - @]
    IN  /\ IF Set = {}
           THEN /\ lists' = [lists EXCEPT ![l] = Append(@, <<c, count[t][c]>>)]
                /\ count' = counted
           ELSE /\ lists' = [lists EXCEPT ![l] = [i \in DOMAIN @ |->
                       IF i \in Set THEN <<c, 1 - @[i][2]>> ELSE @[i]]]
                /\ count' = [counted EXCEPT ![headerList[c]][c] =
                       1 - lists[l][CHOOSE i \in Set :
                                       \A j \in Set : j <= i][2]]
        /\ UNCHANGED ownList

click(t, c) ==
    /\ t \in attached
    /\ c \notin Disabled[t]
    /\ rows[t] # <<>>
    /\ Len(timers) < MaxClicks
    /\ \E shift \in ShiftKeys : IF shift THEN ClickShift(t, c)
                                         ELSE ClickPlain(t, c)
    /\ timers' = Append(timers, t)
    /\ UNCHANGED <<attached, rows, away, parsers, cache, headerList, css,
                   resorted>>

\* The timer of the first click still waiting: the list and the cache are
\* those of now, not those of the click.
SortLater ==
    /\ timers # <<>>
    /\ timers' = Tail(timers)
    /\ SortBy(Head(timers), ListOf(Head(timers)))
    /\ UNCHANGED <<attached, parsers, lists, ownList, headerList, count>>

\* "update": the parsers and the cache are made again; nothing is sorted.
update(t) ==
    /\ t \in attached
    /\ LET types == buildParserCache(rows[t]) IN
       /\ parsers' = [parsers EXCEPT ![t] = types]
       /\ cache' = [cache EXCEPT ![t] = buildCache(rows[t], types)]
    /\ resorted' = resorted \ {t}
    /\ UNCHANGED <<attached, rows, away, lists, ownList, headerList, count,
                   css, timers>>

\* "sorton": the page gives a list, made for this call, and it is sorted by at
\* once.
sorton(t, list) ==
    /\ t \in attached
    /\ lists' = [lists EXCEPT ![t] = list]
    /\ ownList' = ownList \cup {t}
    /\ count' = updateHeaderSortCount(list)
    /\ SortBy(t, list)
    /\ UNCHANGED <<attached, parsers, headerList, timers>>

\* "appendCache": the cached rows are put back in the order they have.
appendCache(t) ==
    /\ t \in attached
    /\ cache[t].normalized # <<>>
    /\ PutRows(t, cache[t])
    /\ UNCHANGED <<attached, parsers, cache, lists, ownList, headerList, count,
                   css, timers, resorted>>

\* The page adds a new row, that no cache knows, at the end of a table's body.
AddRow(t) ==
    \E r \in away :
        /\ \A u \in Tables : r \notin ToSet(cache[u].row)
        /\ rows' = [rows EXCEPT ![t] = Append(@, r)]
        /\ away' = away \ {r}
        /\ UNCHANGED <<attached, parsers, cache, lists, ownList, headerList,
                       count, css, timers, resorted>>

\* The page deletes a row.
DeleteRow(t) ==
    \E r \in ToSet(rows[t]) :
        /\ rows' = [rows EXCEPT ![t] = SelectSeq(@, LAMBDA x : x # r)]
        /\ away' = away \cup {r}
        /\ UNCHANGED <<attached, parsers, cache, lists, ownList, headerList,
                       count, css, timers, resorted>>

Next ==
    \/ \E t \in Tables :
          \/ construct(t)
          \/ \E c \in Columns : click(t, c)
          \/ update(t)
          \/ \E l \in SortLists : sorton(t, l)
          \/ appendCache(t)
          \/ AddRow(t)
          \/ DeleteRow(t)
    \/ SortLater

Spec == Init /\ [][Next]_vars

---------------------------------------------------------------------------
(* Properties.                                                             *)

TypeOK ==
    /\ attached \subseteq Tables
    /\ away \subseteq Rows
    /\ \A t \in Tables :
          /\ rows[t] \in Seq(Rows)
          /\ css[t] \in [Columns -> Orders \cup {NoMark}]
          /\ count[t] \in [Columns -> {0, 1}]
          /\ parsers[t] = Undefined
                \/ parsers[t] \in [Columns -> {"numeric", "text"}]
          /\ Len(cache[t].normalized) = Len(cache[t].row)
    /\ \A l \in DOMAIN lists : lists[l] \in Seq(Entries)
    /\ ownList \subseteq Tables
    /\ headerList \in [Columns -> Tables]
    /\ timers \in Seq(Tables)
    /\ resorted \subseteq attached

\* However sorts, clicks waiting for their timer and changes of the rows
\* interleave, no row the page has put in a table and not deleted is lost, none
\* stands in two tables and none twice.
EachRowOnce ==
    /\ \A t \in Tables : IsInjective(rows[t])
    /\ \A t, u \in Tables : t # u => ToSet(rows[t]) \cap ToSet(rows[u]) = {}
    /\ Rows = away \cup UNION {ToSet(rows[t]) : t \in Tables}
    /\ \A t \in Tables : away \cap ToSet(rows[t]) = {}

\* The table is settled: no click waits, and it was sorted, by a list of its
\* own, after its cache was last made.
Settled(t) ==
    /\ t \in resorted \cap ownList
    /\ t \notin ToSet(timers)

\* In a settled table the marked headers are the columns of its sort list, in
\* the order marked, and no other.
MarkedAsAsked ==
    \A t \in Tables : Settled(t) =>
        \A c \in Columns :
            /\ css[t][c] # NoMark <=> \E e \in ToSet(ListOf(t)) : e[1] = c
            /\ css[t][c] # NoMark => <<c, css[t][c]>> \in ToSet(ListOf(t))

\* In a settled table the rows of its cache stand in the order its headers
\* mark: of two rows the one to come first by the first marked column in which
\* they differ does, and rows alike in all of them keep the order they had when
\* the cache was made.
SortedAsMarked ==
    \A t \in Tables : Settled(t) =>
        \A i, j \in DOMAIN cache[t].row :
            LET r == cache[t].row[i]
                s == cache[t].row[j]
                K(x, e) == Format(parsers[t][e[1]], Cells[x][e[1]])
                Differ == {k \in DOMAIN ListOf(t) :
                              K(r, ListOf(t)[k]) # K(s, ListOf(t)[k])}
                At(x) == CHOOSE p \in DOMAIN rows[t] : rows[t][p] = x
            IN  ({r, s} \subseteq ToSet(rows[t]) /\ At(r) < At(s)) =>
                    IF Differ = {} THEN i < j
                    ELSE LET k == CHOOSE k \in Differ :
                                     \A m \in Differ : k <= m
                             e == ListOf(t)[k]
                         IN  IF css[t][e[1]] = 0
                             THEN K(r, e) < K(s, e) ELSE K(r, e) > K(s, e)

\* A plain click on the header of the only column a settled table is sorted by
\* turns its order: whether it was sorted by clicks or by the page, the user
\* never clicks without effect.  (Headers clicked without the shift key, one
\* table on the page.)
ClickTurnsOrder ==
    \A t \in Tables, c \in Columns :
       (/\ Settled(t)
        /\ css[t][c] # NoMark
        /\ \A d \in Columns \ {c} : css[t][d] = NoMark
        /\ Len(timers') > Len(timers)
        /\ timers'[Len(timers')] = t
        /\ lists'[t] # <<>>
        /\ lists'[t][1][1] = c)
       => lists'[t][1][2] = 1 - css[t][c]
=============================================================================
