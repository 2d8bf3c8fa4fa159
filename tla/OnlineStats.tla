---------------------------- MODULE OnlineStats ----------------------------
(***************************************************************************)
(* The online statistics of one user: the login and logout records that    *)
(* SessionManager saves as the user's streams come and go, the list that   *)
(* getOnlineList makes of those in a window of time, and the time online   *)
(* that getOnlinePercent adds up from that list.                           *)
(*                                                                         *)
(* Time is counted in the seconds that the records and the queries are     *)
(* given in.  A second holds one record at most: the order of two records  *)
(* of one second is the database's choice.                                 *)
(***************************************************************************)
EXTENDS Integers, Sequences, SequencesExt, FiniteSets

CONSTANTS
    MaxStreams,  \* streams the user's devices may have open at a time
    MaxTime,     \* bound: seconds
    Killed       \* whether the server may be killed: its streams end unrecorded

BoundsAssumption ==
    MaxStreams \in Nat \ {0} /\ MaxTime \in Nat \ {0} /\ Killed \in BOOLEAN

VARIABLES
    clock,    \* the second that runs
    records,  \* the user's OnlineRecords, the oldest first
    open,     \* the number of the user's streams that are logged in
    lived     \* the seconds the user had one: [x, x + 1] is second x

vars == <<clock, records, open, lived>>

Record(action, time) == [action |-> action, time |-> time]
RecordedNow == records # <<>> /\ Last(records).time = clock

Init == clock = 0 /\ records = <<>> /\ open = 0 /\ lived = {}

\* The record that addSession saves.
Login ==
    /\ open < MaxStreams /\ ~RecordedNow /\ clock < MaxTime
    /\ records' = Append(records, Record("login", clock))
    /\ open' = open + 1
    /\ UNCHANGED <<clock, lived>>

\* The record that removeSession saves.
Logout ==
    /\ open > 0 /\ ~RecordedNow /\ clock < MaxTime
    /\ records' = Append(records, Record("logout", clock))
    /\ open' = open - 1
    /\ UNCHANGED <<clock, lived>>

\* The process ends, and no stream's close listener runs.
Kill ==
    /\ Killed /\ open > 0
    /\ open' = 0
    /\ UNCHANGED <<clock, records, lived>>

Tick ==
    /\ clock < MaxTime
    /\ lived' = IF open > 0 THEN lived \cup {clock} ELSE lived
    /\ clock' = clock + 1
    /\ UNCHANGED <<records, open>>

Next == Login \/ Logout \/ Kill \/ Tick
Spec == Init /\ [][Next]_vars

-----------------------------------------------------------------------------
(* The statistics, for the window between two seconds. *)

\* OnlineRecordDaoHibernate.getOnlineRecords: between the times, neither included.
Between(from, to) == SelectSeq(records, LAMBDA r : r.time > from /\ r.time < to)
Before(time) == SelectSeq(records, LAMBDA r : r.time < time)
After(time) == SelectSeq(records, LAMBDA r : r.time > time)

\* A window without records: what the nearest record on either side says of it.
EmptyList(from, to) ==
    (IF After(to) # <<>> /\ Head(After(to)).action = "logout"
     THEN <<Record("logout", to)>> ELSE <<>>)
    \o (IF Before(from) # <<>> /\ Last(Before(from)).action = "login"
        THEN <<Record("login", from)>> ELSE <<>>)

\* Fault: a list that ends in a logout is taken as it is.
OnlineList_NoStart(from, to) ==
    LET inside == Reverse(Between(from, to))
        list == IF inside = <<>> THEN EmptyList(from, to) ELSE inside
        last == IF list # <<>> /\ Head(list).action = "login"
                THEN <<Record("logout", to)>> ELSE <<>>
    IN last \o list

\* getOnlineList, the latest record first: a login at its head is ended with the
\* window, a logout at its end is begun with it.
OnlineList(from, to) ==
    LET inside == Reverse(Between(from, to))
        list == IF inside = <<>> THEN EmptyList(from, to) ELSE inside
        last == IF list # <<>> /\ Head(list).action = "login"
                THEN <<Record("logout", to)>> ELSE <<>>
        first == IF list # <<>> /\ Last(list).action = "logout"
                 THEN <<Record("login", from)>> ELSE <<>>
    IN last \o list \o first

\* The sum of getOnlinePercent: each logout with the login next before it.
OnlineTime(from, to) ==
    LET list == OnlineList(from, to)
        Count(sum, r) ==
            IF r.action = "logout" THEN [sum EXCEPT !.logout = <<r.time>>]
            ELSE IF sum.logout # <<>>
            THEN [time |-> sum.time + sum.logout[1] - r.time, logout |-> <<>>]
            ELSE sum
    IN FoldLeft(Count, [time |-> 0, logout |-> <<>>], list).time

-----------------------------------------------------------------------------
TypeOK ==
    /\ clock \in 0 .. MaxTime
    /\ records \in Seq([action : {"login", "logout"}, time : 0 .. MaxTime])
    /\ open \in 0 .. MaxStreams
    /\ lived \subseteq 0 .. clock - 1
    /\ \A k \in 1 .. Len(records) - 1 : records[k].time < records[k + 1].time
    /\ Killed \/ open = Cardinality({k \in DOMAIN records : records[k].action = "login"})
                      - Cardinality({k \in DOMAIN records : records[k].action = "logout"})

Windows == {w \in (0 .. clock) \X (0 .. clock) : w[1] < w[2]}
Lived(from, to) == Cardinality(lived \cap (from .. to - 1))
EdgeRecorded(w) == \E k \in DOMAIN records : records[k].time \in {w[1], w[2]}

\* With one stream at a time, the time online is what the user lived in it, for
\* every window no edge of which falls on a record, wherever the records lie.
ExactForOneStream ==
    \A w \in Windows : ~EdgeRecorded(w) => OnlineTime(w[1], w[2]) = Lived(w[1], w[2])

\* However the user's streams overlap, no time is counted that none was open.
NeverTooMuch ==
    \A w \in Windows : ~EdgeRecorded(w) => OnlineTime(w[1], w[2]) <= Lived(w[1], w[2])

\* The share of the window is between none and all of it, also where a record
\* falls on its edge and where logouts went unrecorded.
ShareOfWindow == \A w \in Windows : OnlineTime(w[1], w[2]) \in 0 .. w[2] - w[1]

=============================================================================
