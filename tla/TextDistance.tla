---------------------------- MODULE TextDistance ----------------------------
(***************************************************************************)
(* EditDistance: the table of distances, the walk back through it that     *)
(* collects edit operations, and getMerge, which applies them to the       *)
(* original.  A text is an array of objects compared with equals(); both   *)
(* entry points end up with one.  Array indices count from 0 in the code   *)
(* and from 1 here: s[i] is the code's s[i - 1].                           *)
(***************************************************************************)
EXTENDS Integers, Sequences, SequencesExt

CONSTANTS
    Letters,    \* the objects an array holds
    MinLength,  \* bound: the shortest array compared
    MaxLength   \* bound: the longest

LengthsAssumption == MinLength \in Nat /\ MaxLength \in Nat

VARIABLES
    s, t,    \* the two arrays
    pc,      \* "walk", "merge", "done", or "failed": an index out of bounds
    i, j,    \* the cell the walk is at
    diff,    \* the operations found, in the order getMerge takes them
    merged,  \* the StringBuffer of getMerge
    index    \* the first element of the original not yet copied or replaced

vars == <<s, t, pc, i, j, diff, merged, index>>

Texts == UNION {[1 .. n -> Letters] : n \in MinLength .. MaxLength}
MinOf(a, b) == IF a < b THEN a ELSE b

\* The table of getEditDistance.
Table(x, y) ==
    LET d[p \in 0 .. Len(x), q \in 0 .. Len(y)] ==
            CASE q = 0 -> p
              [] p = 0 -> q
              [] OTHER -> IF x[p] = y[q] THEN d[p - 1, q - 1]
                          ELSE 1 + MinOf(d[p - 1, q - 1], MinOf(d[p - 1, q], d[p, q - 1]))
    IN d

d == Table(s, t)

\* EditOperation: its index is that of the original, -1 for what goes first.
Operation(op, at, to) == [op |-> op, index |-> at, to |-> to]

Init ==
    /\ s \in Texts /\ t \in Texts
    /\ pc = "walk"
    /\ i = Len(s) /\ j = Len(t)
    /\ diff = <<>> /\ merged = <<>> /\ index = 0

-----------------------------------------------------------------------------
(* The walk back.  Where both neighbours and the diagonal are equal, the    *)
(* diagonal is taken; above is taken before left.                           *)

Diagonal == d[i - 1, j - 1] <= d[i - 1, j] /\ d[i - 1, j - 1] <= d[i, j - 1]

WalkDiagonal ==
    /\ pc = "walk" /\ i > 0 /\ j > 0
    /\ Diagonal
    /\ diff' = IF d[i - 1, j - 1] = d[i, j] THEN diff
               ELSE <<Operation("update", i - 1, t[j])>> \o diff
    /\ i' = i - 1 /\ j' = j - 1
    /\ UNCHANGED <<s, t, pc, merged, index>>

WalkUp ==
    /\ pc = "walk" /\ i > 0 /\ j > 0
    /\ ~Diagonal /\ d[i - 1, j] <= d[i, j - 1]
    /\ diff' = <<Operation("delete", i - 1, t[j])>> \o diff
    /\ i' = i - 1
    /\ UNCHANGED <<s, t, pc, j, merged, index>>

WalkLeft ==
    /\ pc = "walk" /\ i > 0 /\ j > 0
    /\ ~Diagonal /\ d[i, j - 1] < d[i - 1, j]
    /\ diff' = <<Operation("insert", i - 1, t[j])>> \o diff
    /\ j' = j - 1
    /\ UNCHANGED <<s, t, pc, i, merged, index>>

\* The first row and the first column.  The operations name an object of the
\* other array, which is not there if that array is empty.
WalkEdge ==
    /\ pc = "walk" /\ (i > 0) # (j > 0)
    /\ IF s = <<>> \/ t = <<>>
       THEN pc' = "failed" /\ UNCHANGED <<i, j, diff>>
       ELSE /\ IF i > 0
               THEN diff' = <<Operation("delete", i - 1, t[1])>> \o diff
               ELSE diff' = <<Operation("insert", -1, t[j])>> \o diff
            /\ i' = IF i > 0 THEN i - 1 ELSE i
            /\ j' = IF j > 0 THEN j - 1 ELSE j
            /\ UNCHANGED pc
    /\ UNCHANGED <<s, t, merged, index>>

WalkOver ==
    /\ pc = "walk" /\ i = 0 /\ j = 0
    /\ pc' = "merge"
    /\ UNCHANGED <<s, t, i, j, diff, merged, index>>

-----------------------------------------------------------------------------
(* getMerge. *)

\* The originals that go before the operation: an insertion comes after the
\* object at its index, an update or a deletion replaces it.
CopiedBefore(eo) ==
    LET to == IF eo.op = "insert" THEN eo.index ELSE eo.index - 1
    IN IF to < index THEN <<>> ELSE SubSeq(s, index + 1, to + 1)

\* Fault: after an insertion the object at its index is copied again.
MergeNext_IndexKept ==
    LET eo == Head(diff) IN
    /\ pc = "merge" /\ diff # <<>>
    /\ merged' = merged \o CopiedBefore(eo) \o (IF eo.op = "delete" THEN <<>> ELSE <<eo.to>>)
    /\ index' = IF eo.op = "insert" THEN index ELSE eo.index + 1
    /\ diff' = Tail(diff)
    /\ UNCHANGED <<s, t, pc, i, j>>

MergeNext ==
    LET eo == Head(diff) IN
    /\ pc = "merge" /\ diff # <<>>
    /\ merged' = merged \o CopiedBefore(eo) \o (IF eo.op = "delete" THEN <<>> ELSE <<eo.to>>)
    /\ index' = eo.index + 1
    /\ diff' = Tail(diff)
    /\ UNCHANGED <<s, t, pc, i, j>>

MergeTail ==
    /\ pc = "merge" /\ diff = <<>>
    /\ merged' = merged \o (IF index = Len(s) THEN <<>> ELSE SubSeq(s, index + 1, Len(s)))
    /\ pc' = "done"
    /\ UNCHANGED <<s, t, i, j, diff, index>>

Next == WalkDiagonal \/ WalkUp \/ WalkLeft \/ WalkEdge \/ WalkOver \/ MergeNext \/ MergeTail
Spec == Init /\ [][Next]_vars

-----------------------------------------------------------------------------
TypeOK ==
    /\ s \in Seq(Letters) /\ t \in Seq(Letters) /\ merged \in Seq(Letters)
    /\ pc \in {"walk", "merge", "done", "failed"}
    /\ i \in 0 .. Len(s) /\ j \in 0 .. Len(t)
    /\ index \in 0 .. Len(s)
    /\ \A k \in DOMAIN diff :
          diff[k].op \in {"insert", "update", "delete"} /\ diff[k].index \in -1 .. Len(s) - 1

\* Applied to the original, the operations give the other text, whichever way
\* the walk went where several cells were equally near.
MergesToTarget == pc = "done" => merged = t

\* The walk finds as few operations as the table says are needed: at every cell,
\* those found and those still to come make up the distance of the two texts.
WalkIsShortest == pc = "walk" => Len(diff) + d[i, j] = d[Len(s), Len(t)]

\* That distance by its definition: the least cost of an alignment, which keeps
\* some objects in place and deletes, inserts or replaces the others.
Alignments(x, y) ==
    {f \in [1 .. Len(x) -> 0 .. Len(y)] :
        \A p, q \in 1 .. Len(x) : p < q /\ f[p] > 0 /\ f[q] > 0 => f[p] < f[q]}
Cost(x, y, f) ==
    LET kept == SelectSeq([p \in DOMAIN x |-> p], LAMBDA p : f[p] > 0)
        replaced == SelectSeq(kept, LAMBDA p : x[p] # y[f[p]])
    IN Len(x) + Len(y) - 2 * Len(kept) + Len(replaced)
\* The operations found are a cheapest way to turn one text into the other.
OperationsAreLeast ==
    pc = "merge" /\ index = 0 /\ merged = <<>> =>
        /\ \E f \in Alignments(s, t) : Cost(s, t, f) = d[Len(s), Len(t)]
        /\ \A f \in Alignments(s, t) : Cost(s, t, f) >= d[Len(s), Len(t)]

=============================================================================
