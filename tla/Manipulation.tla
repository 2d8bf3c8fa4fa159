---------------------------- MODULE Manipulation ----------------------------
(***************************************************************************)
(* The data, the handlers and the scripts of the elements of a page in     *)
(* jquery-1.10.2.js while elements are moved, copied and removed:          *)
(* internalData(), cleanData(), clone() and domManip().                    *)
(*                                                                         *)
(* An element carries only a number; its data and handlers are under this  *)
(* number in jQuery.cache.  The number of an element that is cleaned goes  *)
(* to core_deletedIds and is the next one given out.  A call runs to its   *)
(* end before the next one, so each is one step.                           *)
(***************************************************************************)
EXTENDS Integers, Sequences, FiniteSets, SequencesExt, TLC

CONSTANTS
    N,         \* the elements are 1 .. N, those of Tree at first, others are copies
    Tree,      \* a sequence: the parent of each element at first
    Scripts,   \* the script elements among them
    Types,     \* the types of events,
    Special,   \* those with an entry in jQuery.event.special
    Values,    \* the values of the one key of public data
    OldIE,     \* not support.noCloneEvent: a copy has the number and the listeners
    MaxSteps

SizeAssumption == N \in Nat /\ Len(Tree) <= N /\ MaxSteps \in Nat
KindAssumption == /\ Scripts \subseteq DOMAIN Tree /\ Special \subseteq Types
                  /\ Values \subseteq Nat \ {0} /\ OldIE \in BOOLEAN

VARIABLES
    up,       \* the parent of each element, or one of the places below
    script,   \* the script elements
    id,       \* the expando: the number of each element, 0 without one
    cache,    \* jQuery.cache: the entries under the numbers in use
    objects,  \* the objects of public data: the value under the key, or 0
    deleted,  \* core_deletedIds
    guid,
    listens,  \* the types for which the browser calls the element's handle
    masked,   \* the scripts that disableScript() keeps from running
    ran,      \* history: how often each script ran since it was last removed
    steps

vars == <<up, script, id, cache, objects, deleted, guid, listens, masked, ran, steps>>

Elems == 1 .. N
Page == 0
Out == -1       \* without a parent
Fragment == -2  \* in the fragment of domManip(), or in a copy of it
Unborn == -3
NoData == 0

-----------------------------------------------------------------------------
(* A call changes many of the variables one after another: an operator takes *)
(* them all as a record and returns it changed.                              *)

Now == [up |-> up, script |-> script, id |-> id, cache |-> cache,
        objects |-> objects, deleted |-> deleted, guid |-> guid, listens |-> listens,
        masked |-> masked, ran |-> ran]

Becomes(s) ==
    /\ up' = s.up /\ script' = s.script /\ id' = s.id /\ cache' = s.cache
    /\ objects' = s.objects /\ deleted' = s.deleted /\ guid' = s.guid
    /\ listens' = s.listens /\ masked' = s.masked /\ ran' = s.ran
    /\ steps' = steps + 1

Ordered(ns) == SetToSortSeq(ns, LAMBDA m, n : m < n)
Alive(s) == {n \in Elems : s.up[n] # Unborn}

RECURSIVE Over(_, _)
\* The element and what is above it
Over(s, n) == IF n \in Elems THEN {n} \cup Over(s, s.up[n]) ELSE {n}
InPage(s, n) == Page \in Over(s, n)
\* getAll
GetAll(s, n) == {m \in Elems : n \in Over(s, m)}
ScriptsIn(s, ns) == UNION {GetAll(s, n) : n \in ns} \cap s.script

-----------------------------------------------------------------------------
(* The data of an element *)

NewEntry == [events |-> {}, data |-> NoData, evald |-> FALSE]
HasEntry(s, n) == s.id[n] \in DOMAIN s.cache
EntryOf(s, n) == IF HasEntry(s, n) THEN s.cache[s.id[n]] ELSE NewEntry
ObjectOf(s, e) == IF e.data = NoData THEN 0 ELSE s.objects[e.data]
\* isEmptyDataObject
EmptyEntry(s, e) == e.events = {} /\ ObjectOf(s, e) = 0 /\ ~e.evald
NewObject(s) == CHOOSE o \in DOMAIN s.objects :
                   /\ \A i \in DOMAIN s.cache : s.cache[i].data # o
                   /\ \A p \in 1 .. o - 1 : \E i \in DOMAIN s.cache : s.cache[i].data = p

\* internalData: the number and the entry are made when they are needed.
Touched(s, n) ==
    LET number == IF s.id[n] # 0 THEN s.id[n] ELSE IF s.deleted # <<>> THEN Last(s.deleted) ELSE s.guid
        new == s.id[n] = 0
    IN [s EXCEPT !.id[n] = number,
                 !.deleted = IF new /\ @ # <<>> THEN Front(@) ELSE @,
                 !.guid = IF new /\ s.deleted = <<>> THEN @ + 1 ELSE @,
                 !.cache = IF number \in DOMAIN @ THEN @ ELSE (number :> NewEntry) @@ @]

\* jQuery.data(elem, key, value)
SetData(s, n, v) ==
    LET t == Touched(s, n)
        o == IF EntryOf(t, n).data = NoData THEN NewObject(t) ELSE EntryOf(t, n).data
    IN [t EXCEPT !.cache[t.id[n]].data = o, !.objects[o] = v]

\* _data(elem, "globalEval", true)
Evaluated(s, n) == LET t == Touched(s, n) IN [t EXCEPT !.cache[t.id[n]].evald = TRUE]

Without(c, i) == [j \in DOMAIN c \ {i} |-> c[j]]

\* Fault: the entry of a cleaned element stays in the cache.
Dropped_Entry(s, n) == [s EXCEPT !.id[n] = 0, !.deleted = Append(@, s.id[n])]

\* The end of cleanData for one element: its number can be given to another.
Dropped(s, n) == [s EXCEPT !.cache = Without(@, s.id[n]), !.id[n] = 0,
                           !.deleted = Append(@, s.id[n])]

DroppedIfEmpty(s, n) == IF EmptyEntry(s, EntryOf(s, n)) THEN Dropped(s, n) ELSE s

\* jQuery.removeData(elem): public data only, the entry with it if nothing is left
RemoveData(s, n) ==
    IF ~HasEntry(s, n) THEN s
    ELSE DroppedIfEmpty([s EXCEPT !.cache[s.id[n]].data = NoData], n)

\* jQuery.event.add, of the first handler of a type
Bind(s, n, type) == LET t == Touched(s, n) IN
    [t EXCEPT !.cache[t.id[n]].events = @ \cup {type}, !.listens[n] = @ \cup {type}]

\* jQuery.event.remove, of all handlers of a type
Unbind(s, n, type) ==
    LET t == [s EXCEPT !.cache[s.id[n]].events = @ \ {type}, !.listens[n] = @ \ {type}] IN
    IF type \notin EntryOf(s, n).events THEN s
    ELSE IF EntryOf(t, n).events = {} THEN DroppedIfEmpty(t, n) ELSE t

\* cleanData, of one element: event.remove may find the entry empty and drop it.
CleanOne(s, n) ==
    LET special == FoldLeft(LAMBDA t, type : Unbind(t, n, type), s,
                            SetToSeq(Special \cap EntryOf(s, n).events))
        bare == [special EXCEPT !.listens[n] = @ \ EntryOf(s, n).events]
    IN IF ~HasEntry(s, n) THEN s ELSE IF HasEntry(bare, n) THEN Dropped(bare, n) ELSE bare

\* The scripts forget that they ran: they run again when they are inserted again.
CleanData(s, ns) ==
    LET t == FoldLeft(CleanOne, s, Ordered(ns))
    IN [t EXCEPT !.ran = [n \in Elems |-> IF n \in ns THEN 0 ELSE @[n]]]

-----------------------------------------------------------------------------
(* Copies *)

\* Fault: the copy is left with the public data object of the original.
CopyEvent_Shared(s, n, copy) ==
    LET e == EntryOf(s, n)
        t == Touched(s, copy)
        given == [t EXCEPT !.cache[t.id[copy]] =
                     [events |-> {}, data |-> IF e.data = NoData THEN @.data ELSE e.data,
                      evald |-> @.evald \/ e.evald]]
    IN IF EmptyEntry(s, e) THEN s ELSE FoldLeft(LAMBDA r, type : Bind(r, copy, type), given, SetToSeq(e.events))

\* cloneCopyEvent: the handlers are bound anew, the public data is copied.
CopyEvent(s, n, copy) ==
    LET e == EntryOf(s, n)
        t == Touched(s, copy)
        own == NewObject(t)
        given == [t EXCEPT !.cache[t.id[copy]] =
                     [events |-> {}, data |-> IF e.data = NoData THEN @.data ELSE own,
                      evald |-> @.evald \/ e.evald],
                  !.objects = IF e.data = NoData THEN @ ELSE [@ EXCEPT ![own] = s.objects[e.data]]]
    IN
    IF EmptyEntry(s, e) THEN s
    ELSE FoldLeft(LAMBDA r, type : Bind(r, copy, type), given, SetToSeq(e.events))

\* cloneNode(true): of is what each new element is a copy of, root the copy's place.
CloneNode(s, of, n, place) ==
    LET copies == DOMAIN of
        copyOf(m) == CHOOSE c \in copies : of[c] = m
    IN [s EXCEPT !.up = [m \in Elems |-> IF m \notin copies THEN @[m]
                                         ELSE IF of[m] = n THEN place ELSE copyOf(@[of[m]])],
                 !.script = @ \cup {m \in copies : of[m] \in @},
                 !.masked = @ \cup {m \in copies : of[m] \in @},
                 !.id = [m \in Elems |-> IF m \in copies /\ OldIE THEN @[of[m]] ELSE @[m]],
                 !.listens = [m \in Elems |-> IF m \in copies /\ OldIE THEN @[of[m]] ELSE @[m]]]

\* fixCloneNodeIssues: what an old browser copies is taken away.
Fixed(s, copy) ==
    IF s.id[copy] = 0 THEN s
    ELSE [s EXCEPT !.listens[copy] = @ \ EntryOf(s, copy).events, !.id[copy] = 0]

\* The elements that copies of the elements under n will be
Births(s, n) ==
    LET originals == Ordered(GetAll(s, n))
        free == Ordered(Elems \ Alive(s))
    IN [c \in {free[i] : i \in DOMAIN originals} |->
           originals[CHOOSE i \in DOMAIN originals : free[i] = c]]
Room(s, ns) == Cardinality(UNION {GetAll(s, n) : n \in ns}) <= Cardinality(Elems \ Alive(s))

\* The data and handlers of the elements in `deep' are copied; the scripts that
\* have run are marked.
Completed(s, n, of, copies, deep, born) ==
    LET fixed == IF OldIE THEN FoldLeft(Fixed, born, copies) ELSE born
        given == FoldLeft(LAMBDA t, c : IF of[c] \in deep THEN CopyEvent(t, of[c], c) ELSE t,
                          fixed, copies)
        marks == SelectSeq(copies, LAMBDA c : c \in born.script /\ (InPage(s, n) \/ EntryOf(s, of[c]).evald))
    IN FoldLeft(Evaluated, given, marks)

\* jQuery.clone
CloneAs(s, n, of, deep, place) ==
    Completed(s, n, of, Ordered(DOMAIN of), deep, CloneNode(s, of, n, place))
Clone(s, n, deep, place) == CloneAs(s, n, Births(s, n), deep, place)

-----------------------------------------------------------------------------
(* The calls of a page *)

\* buildFragment: an element is taken out of where it is; the scripts of one that
\* is in the page have run.
ToFragment(s, n) ==
    LET t == [s EXCEPT !.up[n] = Fragment]
    IN IF InPage(s, n) THEN FoldLeft(Evaluated, t, Ordered(ScriptsIn(t, {n}))) ELSE t

\* domManip: the scripts that came to be in the page and are not marked
RunScripts(s, scripts) ==
    LET run == {n \in scripts : InPage(s, n) /\ ~EntryOf(s, n).evald}
    IN [s EXCEPT !.ran = [n \in Elems |-> IF n \in run THEN @[n] + 1 ELSE @[n]]]

\* restoreScript
Restored(s, scripts, copies) == [s EXCEPT !.masked = @ \ (scripts \cup copies)]

Placed(s, parts, target) == [s EXCEPT !.up = [n \in Elems |-> IF n \in parts THEN target ELSE @[n]]]

\* All targets but the last get copies of the parts.
PutInto(targets, parts, off) ==
    LET CopyTo(t, target) == FoldLeft(LAMBDA r, n : Clone(r, n, Elems, target), t, Ordered(parts))
    IN Placed(FoldLeft(CopyTo, off, Front(targets)), parts, Last(targets))
Inserted(s, scripts, put) ==
    RunScripts(Restored(put, scripts, ScriptsIn(put, Alive(put) \ Alive(s))), scripts)
WithParts(s, targets, parts, scripts, filled) ==
    Inserted(s, scripts, PutInto(targets, parts, [filled EXCEPT !.masked = @ \cup scripts]))
Filled(s, targets, items, filled) ==
    LET parts == ToSet(items) \cap {n \in Elems : filled.up[n] = Fragment}
    IN WithParts(s, targets, parts, ScriptsIn(filled, parts), filled)

\* append: the items are filled into a fragment, which is put into the targets.
DomManip(s, targets, items) == Filled(s, targets, items, FoldLeft(ToFragment, s, items))

\* Targets lie outside of what is put into them.
AppendTo(targets, items) ==
    /\ \A n \in ToSet(items), t \in ToSet(targets) : n \notin Over(Now, t)
    /\ Len(targets) > 1 => Room(Now, ToSet(items))
    /\ Becomes(DomManip(Now, targets, items))

\* detach
DetachElement(n) ==
    /\ up[n] # Out
    /\ LET marked == IF InPage(Now, n) THEN FoldLeft(Evaluated, Now, Ordered(ScriptsIn(Now, {n}))) ELSE Now
       IN Becomes([marked EXCEPT !.up[n] = Out])

\* remove
RemoveElement(n) == Becomes([CleanData(Now, GetAll(Now, n)) EXCEPT !.up[n] = Out])

\* empty, and html() with a text
EmptyElement(n) ==
    LET below == GetAll(Now, n) \ {n} IN
    /\ below # {}
    /\ Becomes(Placed(CleanData(Now, below), {m \in below : up[m] = n}, Out))

\* clone(withData, deep)
CloneElement(n, deep) ==
    /\ Room(Now, {n})
    /\ Becomes(Clone(Now, n, deep, Out))

-----------------------------------------------------------------------------

Init ==
    /\ up = [n \in Elems |-> IF n \in DOMAIN Tree THEN Tree[n] ELSE Unborn]
    /\ script = Scripts
    /\ id = [n \in Elems |-> 0]
    /\ cache = <<>>
    /\ objects = [o \in 1 .. 2 * N |-> 0]
    /\ deleted = <<>>
    /\ guid = 1
    /\ listens = [n \in Elems |-> {}]
    /\ masked = {}
    /\ ran = [n \in Elems |-> 0]
    /\ steps = 0

Next ==
    /\ steps < MaxSteps
    /\ \E n \in Alive(Now) :
          \/ \E v \in Values : Becomes(SetData(Now, n, v))
          \/ HasEntry(Now, n) /\ Becomes(RemoveData(Now, n))
          \/ \E type \in Types \ listens[n] : Becomes(Bind(Now, n, type))
          \/ \E type \in listens[n] : Becomes(Unbind(Now, n, type))
          \/ DetachElement(n)
          \/ RemoveElement(n)
          \/ EmptyElement(n)
          \/ \E deep \in {{}, {n}, Elems} : CloneElement(n, deep)
          \/ \E t \in Alive(Now) \ script : n # t /\ AppendTo(<<t>>, <<n>>)
          \/ \E t, u \in Alive(Now) \ script : t # u /\ AppendTo(<<t, u>>, <<n>>)

Spec == Init /\ [][Next]_vars

-----------------------------------------------------------------------------

\* Type invariant.
TypeOK ==
    /\ \A n \in Elems : up[n] \in Elems \cup {Page, Out, Unborn}
    /\ script \subseteq Elems /\ masked \subseteq script
    /\ \A n \in Elems : id[n] \in 0 .. guid - 1 /\ listens[n] \subseteq Types
    /\ \A i \in DOMAIN cache : cache[i] \in [events : SUBSET Types, data : 0 .. 2 * N, evald : BOOLEAN]
    /\ guid \in 1 .. N + 1 /\ steps \in 0 .. MaxSteps

\* The number of an element is its own: no other has it, it is not waiting in
\* core_deletedIds, and no number waits there twice.
NumbersApart ==
    /\ \A m, n \in Elems : m # n /\ id[m] # 0 => id[m] # id[n]
    /\ \A n \in Elems : id[n] \notin ToSet(deleted)
    /\ \A i, j \in DOMAIN deleted : deleted[i] = deleted[j] => i = j

\* Nothing is left in jQuery.cache that no element refers to.
NothingLeaks == DOMAIN cache \subseteq {id[n] : n \in Elems}

\* The browser calls an element's handle for just the types it has handlers of.
ListensForHandlers == \A n \in Elems : listens[n] = EntryOf(Now, n).events

\* A script element runs once until it is removed, wherever it is moved to; no
\* script is left disabled.
ScriptsOnce == \A n \in Elems : ran[n] <= 1
NoneDisabled == masked = {}

\* The page sees elements with data and handlers of their own.
Promise == INSTANCE NodeData WITH
    Elements <- Elems, Nothing <- 0,
    data <- [n \in Elems |-> ObjectOf(Now, EntryOf(Now, n))],
    bound <- [n \in Elems |-> EntryOf(Now, n).events]
KeepsPromise == Promise!Spec
=============================================================================
