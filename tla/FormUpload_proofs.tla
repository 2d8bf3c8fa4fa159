-------------------------- MODULE FormUpload_proofs --------------------------
(***************************************************************************)
(* For any number of uploads of a form, whatever the server answers,       *)
(* whenever and however often the page aborts them: cb() tells of one      *)
(* outcome, nothing comes after an upload has ended but what another abort *)
(* asks for, and jQuery.active counts the uploads whose answer has not     *)
(* been processed; with functions that throw no answer is told twice.      *)
(***************************************************************************)
EXTENDS FormUpload, SequenceTheorems, FiniteSetTheorems, TLAPS

Stages == {"new", "begun", "shown", "delayed", "sent", "refused", "cancelled"}
Pages == {"none", "blank", "waiting", "good", "bad", "foreign"}
Answering == {"success", "error", "settled", "stop", "last"}
GivingUp == {"giveUp", "gaveUp", "told"}
Submitting == {"start", "send"}
Functions == [up : Uploads, at : Submitting \cup {"error", "complete"}]

Typed ==
    /\ stage \in [Uploads -> Stages]
    /\ frame \in [Uploads -> Pages]
    /\ loads \in [Uploads -> BOOLEAN] /\ heard \in [Uploads -> BOOLEAN]
    /\ timers \in [Uploads -> SUBSET {"submit", "timeout", "look", "remove"}]
    /\ aborted \in [Uploads -> BOOLEAN] /\ processed \in [Uploads -> BOOLEAN]
    /\ promise \in [Uploads -> {"pending", "resolved", "rejected"}]
    /\ handling \in [Uploads -> {"no"} \cup Answering \cup GivingUp]
    /\ calls \in Seq(Functions)
    /\ called \in [Uploads -> [Callbacks -> Nat]]
    /\ aborts \in [Uploads -> Nat]
    /\ active \in Int
    /\ form \in [Attributes -> {"own", "none", "ours"}]

\* What cb() has told of u itself
Own(u) == Told(u) - aborts[u]

\* Before the form is submitted nothing has come of an upload, except that an
\* early abort may have left its mark.
NotSent(u) ==
    stage[u] # "sent" =>
       /\ ~processed[u] /\ ~heard[u] /\ ~loads[u] /\ frame[u] = "none" /\ handling[u] = "no"
       /\ timers[u] = IF stage[u] = "delayed" THEN {"submit"} ELSE {}
       /\ \A c \in Callbacks : called[u][c] = 0
       /\ aborts[u] = 0
       /\ stage[u] \in {"new", "begun"} => ~aborted[u]
       /\ stage[u] = "cancelled" => aborted[u]
       /\ stage[u] \in {"new", "begun", "shown", "delayed"} => promise[u] = "pending"

\* What is in the frame of an upload and which timers are pending
Placed(u) ==
    stage[u] = "sent" =>
       /\ "submit" \notin timers[u]
       /\ "timeout" \in timers[u] => Timeout
       /\ "remove" \in timers[u] => processed[u]
       /\ processed[u] => handling[u] = "no" /\ ~heard[u]
       /\ processed[u] /\ "remove" \notin timers[u] => frame[u] = "none"
       /\ frame[u] = "none" => processed[u]
       /\ frame[u] = "blank" => aborted[u]
       /\ frame[u] = "waiting" \/ frame[u] = "foreign" => heard[u]
       /\ frame[u] \in {"good", "bad", "foreign"} => frame[u] \in Answers

\* While cb() is a listener it has told of nothing, unless it has given up.
Waiting(u) ==
    stage[u] = "sent" /\ heard[u] =>
       /\ handling[u] \notin Answering
       /\ called[u]["success"] = 0
       /\ Own(u) = 0 \/ Own(u) = 1
       /\ ~aborted[u] => Told(u) = 0 /\ aborts[u] = 0
       /\ Own(u) = 0 => handling[u] = "no" /\ promise[u] = "pending"
       /\ Own(u) = 1 /\ ~MayThrow =>
             \/ promise[u] = "rejected"
             \/ promise[u] = "pending" /\ handling[u] \in {"giveUp", "gaveUp"}

\* An upload that is not aborted any more once it is answered, is told of it; with
\* functions that throw it may be given up in spite of that.
Answered(u) ==
    stage[u] = "sent" /\ ~heard[u] =>
       /\ called[u]["success"] = 0 \/ called[u]["success"] = 1
       /\ Own(u) = 1 \/ (Own(u) = 2 /\ aborted[u] /\ MayThrow)
       /\ handling[u] = "success" => called[u]["success"] = 1
       /\ handling[u] = "error" => called[u]["success"] = 0
       /\ ~MayThrow =>
             /\ handling[u] \notin GivingUp
             /\ processed[u] \/ handling[u] \in Answering
             /\ \/ promise[u] = IF called[u]["success"] = 1 THEN "resolved" ELSE "rejected"
                \/ promise[u] = "pending" /\ handling[u] \in {"success", "error"}

\* Why an upload is aborted
Blamed(u) == aborted[u] => MaxAborts > 0 \/ Timeout \/ "foreign" \in Answers

Right(u) == NotSent(u) /\ Placed(u) /\ Waiting(u) /\ Answered(u) /\ Blamed(u)

\* A submission that is under way is at the stage its upload is at, and there is
\* one of each upload; an abort that got through is of one that was sent.
StackRight ==
    /\ \A i \in 1 .. Len(calls) :
          /\ calls[i].at = "start" => stage[calls[i].up] = "begun"
          /\ calls[i].at = "send" => stage[calls[i].up] = "shown"
          /\ calls[i].at \notin Submitting => stage[calls[i].up] = "sent"
    /\ \A i, j \in 1 .. Len(calls) :
          calls[i].at \in Submitting /\ calls[j].at \in Submitting /\ calls[i].up = calls[j].up
          => i = j

IInv == Typed /\ StackRight /\ \A u \in Uploads : Right(u)

\* The uploads jQuery.active counts: an abort takes none of them off.
CountedOff(u) == processed[u] \/ handling[u] \in {"stop", "last"}
IsCounted(u) == stage[u] \in {"begun", "shown", "delayed", "sent", "cancelled"} /\ ~CountedOff(u)
Counted == {u \in Uploads : IsCounted(u)}
CountInv == IsFiniteSet(Counted) /\ active = Cardinality(Counted)

\* The calls of complete that are due: of aborts by the page, and of cb()
Owed(u) == {i \in 1 .. Len(calls) : calls[i] = [up |-> u, at |-> "error"]}
CbOwes(u) == IF handling[u] \in {"success", "error", "settled", "stop", "giveUp"} THEN 1 ELSE 0
Balance(u) == called[u]["complete"] + CbOwes(u) - Told(u)
OwedInv == \A u \in Uploads : IsFiniteSet(Owed(u)) /\ Cardinality(Owed(u)) + Balance(u) = 0

-----------------------------------------------------------------------------
(* The stack. *)

\* The first n functions stay, and nothing or f comes above them.
Leaves(n) ==
    /\ n \in 0 .. Len(calls) /\ Len(calls') = n
    /\ \A i \in 1 .. n : calls'[i] = calls[i]
Pushes(n, f) ==
    /\ n \in 0 .. Len(calls) /\ Len(calls') = n + 1 /\ calls'[n + 1] = f
    /\ \A i \in 1 .. n : calls'[i] = calls[i]

LEMMA StackIs ==
  ASSUME Typed
  PROVE  /\ Len(calls) \in Nat /\ DOMAIN calls = 1 .. Len(calls)
         /\ \A i \in 1 .. Len(calls) : calls[i] \in Functions
         /\ calls # <<>> => /\ Len(calls) \in 1 .. Len(calls)
                            /\ Last(calls) = calls[Len(calls)] /\ Last(calls) \in Functions
                            /\ Top = calls[Len(calls)].up /\ Top \in Uploads
<1>1. /\ Len(calls) \in Nat /\ DOMAIN calls = 1 .. Len(calls)
      /\ \A i \in 1 .. Len(calls) : calls[i] \in Functions
  BY DEF Typed
<1>2. ASSUME calls # <<>> PROVE Len(calls) \in 1 .. Len(calls)
  BY <1>1, <1>2 DEF Typed
<1>3. Last(calls) = calls[Len(calls)]
  BY DEF Last
<1> QED
  BY <1>1, <1>2, <1>3 DEF Top, Functions

LEMMA StackSame == ASSUME Typed, calls' = calls PROVE Leaves(Len(calls))
<1>1. Len(calls) \in Nat
  BY StackIs
<1> DEFINE n == Len(calls)
<1>2. n \in 0 .. n
  BY <1>1
<1> QED
  BY <1>2 DEF Leaves

LEMMA StackPushed ==
  ASSUME Typed, NEW f \in Functions, calls' = Append(calls, f)
  PROVE  calls' \in Seq(Functions) /\ Pushes(Len(calls), f)
<1>1. calls \in Seq(Functions) /\ Len(calls) \in Nat
  BY StackIs DEF Typed
<1>2. /\ calls' \in Seq(Functions) /\ Len(calls') = Len(calls) + 1 /\ calls'[Len(calls) + 1] = f
      /\ \A i \in 1 .. Len(calls) : calls'[i] = calls[i]
  BY <1>1, AppendProperties
<1>3. Len(calls) \in 0 .. Len(calls)
  BY <1>1
<1> QED
  BY <1>2, <1>3 DEF Pushes

LEMMA StackCut ==
  ASSUME Typed, NEW k \in 0 .. Len(calls), calls' = SubSeq(calls, 1, k)
  PROVE  calls' \in Seq(Functions) /\ Leaves(k)
<1>1. calls \in Seq(Functions) /\ Len(calls) \in Nat /\ k \in Nat /\ k <= Len(calls)
  BY StackIs DEF Typed
<1>2. 1 \in 1 .. Len(calls) + 1 /\ k \in 0 .. Len(calls)
  BY <1>1
<1>3. /\ calls' \in Seq(Functions)
      /\ Len(calls') = IF 1 <= k THEN k - 1 + 1 ELSE 0
      /\ \A i \in 1 .. k - 1 + 1 : calls'[i] = calls[1 + i - 1]
  BY <1>1, <1>2, SubSeqProperties
<1>4. Len(calls') = k /\ \A i \in 1 .. k : calls'[i] = calls[i]
  BY <1>1, <1>3
<1> QED
  BY <1>3, <1>4 DEF Leaves

LEMMA StackPopped ==
  ASSUME Typed, calls # <<>>, calls' = Front(calls)
  PROVE  calls' \in Seq(Functions) /\ Leaves(Len(calls) - 1)
<1>1. Len(calls) \in Nat /\ Len(calls) \in 1 .. Len(calls)
  BY StackIs
<1>2. Len(calls) - 1 \in 0 .. Len(calls)
  BY <1>1
<1> QED
  BY <1>2, StackCut DEF Front

LEMMA StackGoesOn ==
  ASSUME Typed, calls # <<>>, NEW h \in Submitting \cup {"error", "complete"},
         calls' = NextFunction(h)
  PROVE  /\ calls' \in Seq(Functions)
         /\ Pushes(Len(calls) - 1, [up |-> Top, at |-> h])
<1>1. /\ Len(calls) \in Nat /\ Len(calls) \in 1 .. Len(calls) /\ DOMAIN calls = 1 .. Len(calls)
      /\ calls[Len(calls)] \in Functions /\ Top = calls[Len(calls)].up /\ Top \in Uploads
  BY StackIs
<1> DEFINE f == [up |-> Top, at |-> h]
<1>2. f \in Functions
  BY <1>1 DEF Functions
<1>3. calls' = [calls EXCEPT ![Len(calls)] = f]
  <2>1. calls' = [calls EXCEPT ![Len(calls)] = [calls[Len(calls)] EXCEPT !.at = h]]
    BY <1>1 DEF NextFunction
  <2>2. [calls[Len(calls)] EXCEPT !.at = h] = f
    BY <1>1 DEF Functions
  <2> QED
    BY <2>1, <2>2
<1> HIDE DEF f
<1>4. calls' \in Seq(Functions)
  BY <1>1, <1>2, <1>3, ExceptSeq DEF Typed
<1>5. /\ Len(calls') = Len(calls) /\ calls'[Len(calls)] = f
      /\ \A i \in 1 .. Len(calls) - 1 : calls'[i] = calls[i]
  <2>1. calls \in Seq(Functions) /\ Len(calls) \in Nat /\ DOMAIN calls = 1 .. Len(calls)
    BY <1>1 DEF Typed
  <2>2. DOMAIN calls' = 1 .. Len(calls)
    BY ONLY <2>1, <1>3
  <2>3. Len(calls') = Len(calls)
    BY ONLY <2>1, <2>2, <1>4, LenProperties
  <2>4. calls'[Len(calls)] = f
    BY ONLY <2>1, <1>1, <1>3
  <2>5. \A i \in 1 .. Len(calls) - 1 : i \in 1 .. Len(calls) /\ i # Len(calls)
    <3>1. Len(calls) \in Nat
      BY <1>1
    <3>2. \A n \in Nat : \A i \in 1 .. n - 1 : i \in 1 .. n /\ i # n
      OBVIOUS
    <3> QED
      BY ONLY <3>1, <3>2
  <2>6. \A i \in 1 .. Len(calls) - 1 : calls'[i] = calls[i]
    BY ONLY <2>1, <2>5, <1>3
  <2> QED
    BY <2>3, <2>4, <2>6
<1>6. Len(calls) - 1 \in 0 .. Len(calls) /\ Len(calls) - 1 + 1 = Len(calls)
  BY <1>1
<1>7. Pushes(Len(calls) - 1, f)
  BY <1>5, <1>6 DEF Pushes
<1> QED
  BY <1>4, <1>7 DEF f

\* A step that leaves the submissions below alone, and begins none or one that is
\* not among them.
LEMMA StackRightKept ==
  ASSUME Typed, StackRight, NEW n,
         \/ Leaves(n)
         \/ \E f \in Functions :
               /\ Pushes(n, f)
               /\ f.at = "start" => stage'[f.up] = "begun"
               /\ f.at = "send" => stage'[f.up] = "shown"
               /\ f.at \notin Submitting => stage'[f.up] = "sent"
               /\ f.at \in Submitting =>
                     \A i \in 1 .. n : calls[i].at \in Submitting => calls[i].up # f.up,
         \A i \in 1 .. n : stage'[calls[i].up] = stage[calls[i].up]
  PROVE  StackRight'
<1> USE DEF Submitting
<1>1. Len(calls) \in Nat
  BY StackIs
<1>2. CASE Leaves(n)
  <2>1. n \in Nat /\ n <= Len(calls) /\ Len(calls') = n /\ \A i \in 1 .. n : calls'[i] = calls[i]
    BY <1>1, <1>2 DEF Leaves
  <2> QED
    BY <1>1, <2>1 DEF StackRight
<1>3. ASSUME NEW f \in Functions, Pushes(n, f),
             f.at = "start" => stage'[f.up] = "begun",
             f.at = "send" => stage'[f.up] = "shown",
             f.at \notin Submitting => stage'[f.up] = "sent",
             f.at \in Submitting =>
                \A i \in 1 .. n : calls[i].at \in Submitting => calls[i].up # f.up
      PROVE  StackRight'
  <2>1. /\ n \in Nat /\ n <= Len(calls) /\ Len(calls') = n + 1
        /\ calls'[n + 1] = f /\ \A i \in 1 .. n : calls'[i] = calls[i]
    BY <1>1, <1>3 DEF Pushes
  <2>2. \A i \in 1 .. Len(calls') : i \in 1 .. n \/ i = n + 1
    BY <2>1
  <2>3. \A i \in 1 .. n : i \in 1 .. Len(calls)
    BY <1>1, <2>1
  <2>4. \A i \in 1 .. n :
           /\ calls'[i].at = "start" => stage'[calls'[i].up] = "begun"
           /\ calls'[i].at = "send" => stage'[calls'[i].up] = "shown"
           /\ calls'[i].at \notin Submitting => stage'[calls'[i].up] = "sent"
    BY <2>1, <2>3 DEF StackRight
  <2>5. \A i, j \in 1 .. n :
           calls'[i].at \in Submitting /\ calls'[j].at \in Submitting /\ calls'[i].up = calls'[j].up
           => i = j
    BY <2>1, <2>3 DEF StackRight
  <2>6. \A i \in 1 .. n :
           calls'[i].at \in Submitting /\ f.at \in Submitting => calls'[i].up # f.up
    BY <1>3, <2>1
  <2> QED
    BY ONLY <1>3, <2>1, <2>2, <2>4, <2>5, <2>6 DEF StackRight, Submitting
<1> QED
  BY <1>2, <1>3

-----------------------------------------------------------------------------
(* What a step does to the uploads. *)

\* Nothing to the others.
Moves(u) ==
    \A q \in Uploads \ {u} :
       /\ stage'[q] = stage[q] /\ frame'[q] = frame[q] /\ loads'[q] = loads[q]
       /\ timers'[q] = timers[q] /\ aborted'[q] = aborted[q] /\ heard'[q] = heard[q]
       /\ processed'[q] = processed[q] /\ promise'[q] = promise[q]
       /\ handling'[q] = handling[q] /\ called'[q] = called[q] /\ aborts'[q] = aborts[q]

LEMMA OthersKept ==
  ASSUME \A q \in Uploads : Right(q), NEW u \in Uploads, Moves(u), Right(u)'
  PROVE  \A q \in Uploads : Right(q)'
<1> SUFFICES ASSUME NEW q \in Uploads, q # u PROVE Right(q)'
  OBVIOUS
<1>1. /\ stage'[q] = stage[q] /\ frame'[q] = frame[q] /\ loads'[q] = loads[q]
      /\ timers'[q] = timers[q] /\ aborted'[q] = aborted[q] /\ heard'[q] = heard[q]
      /\ processed'[q] = processed[q] /\ promise'[q] = promise[q]
      /\ handling'[q] = handling[q] /\ called'[q] = called[q] /\ aborts'[q] = aborts[q]
  BY DEF Moves
<1>2. Right(q)
  OBVIOUS
<1>3. Own(q)' = Own(q) /\ Told(q)' = Told(q)
  BY <1>1 DEF Own, Told
<1> QED
  BY <1>1, <1>2, <1>3 DEF Right, NotSent, Placed, Waiting, Answered, Blamed

\* A step that leaves alone what Waiting and Answered speak of.
LEMMA Untold ==
  ASSUME NEW u \in Uploads,
         stage'[u] = stage[u], heard'[u] = heard[u], processed'[u] = processed[u],
         aborted'[u] = aborted[u], promise'[u] = promise[u], handling'[u] = handling[u],
         called'[u] = called[u], aborts'[u] = aborts[u]
  PROVE  /\ Told(u)' = Told(u) /\ Own(u)' = Own(u) /\ (Blamed(u) => Blamed(u)')
         /\ Waiting(u) => Waiting(u)'
         /\ Answered(u) => Answered(u)'
<1>1. Own(u)' = Own(u) /\ Told(u)' = Told(u)
  BY DEF Own, Told
<1> QED
  BY <1>1 DEF Waiting, Answered, Blamed

\* One call of a function of the page is told to u.
LEMMA TellFacts ==
  ASSUME Typed, NEW u \in Uploads, NEW c \in Callbacks, Tell(u, c)
  PROVE  /\ called' \in [Uploads -> [Callbacks -> Nat]]
         /\ called'[u][c] = called[u][c] + 1
         /\ \A b \in Callbacks \ {c} : called'[u][b] = called[u][b]
         /\ \A q \in Uploads \ {u} : called'[q] = called[q]
         /\ Told(u) \in Nat
         /\ Told(u)' = IF c = "complete" THEN Told(u) ELSE Told(u) + 1
<1>1. called \in [Uploads -> [Callbacks -> Nat]] /\ \A b \in Callbacks : called[u][b] \in Nat
  BY DEF Typed
<1>2. called' = [called EXCEPT ![u] = [called[u] EXCEPT ![c] = called[u][c] + 1]]
  BY DEF Tell
<1>3. [called[u] EXCEPT ![c] = called[u][c] + 1] \in [Callbacks -> Nat]
  BY <1>1
<1>4. /\ called' \in [Uploads -> [Callbacks -> Nat]]
      /\ called'[u] = [called[u] EXCEPT ![c] = called[u][c] + 1]
      /\ \A q \in Uploads \ {u} : called'[q] = called[q]
  BY <1>1, <1>2, <1>3
<1>5. /\ called'[u][c] = called[u][c] + 1
      /\ \A b \in Callbacks \ {c} : called'[u][b] = called[u][b]
  BY <1>1, <1>4
<1>6. "success" \in Callbacks /\ "error" \in Callbacks /\ (c = "complete" \/ c = "success" \/ c = "error")
  BY DEF Callbacks
<1>7. Told(u) \in Nat /\ Told(u)' = IF c = "complete" THEN Told(u) ELSE Told(u) + 1
  <2>1. called[u]["success"] \in Nat /\ called[u]["error"] \in Nat
    BY <1>1, <1>6
  <2>2. CASE c = "complete"
    <3>1. called'[u]["success"] = called[u]["success"] /\ called'[u]["error"] = called[u]["error"]
      BY <1>5, <1>6, <2>2
    <3> QED
      BY ONLY <2>1, <2>2, <3>1 DEF Told
  <2>3. CASE c = "success"
    <3>1. called'[u]["success"] = called[u]["success"] + 1 /\ called'[u]["error"] = called[u]["error"]
      BY <1>5, <1>6, <2>3
    <3> QED
      BY ONLY <2>1, <2>3, <3>1 DEF Told
  <2>4. CASE c = "error"
    <3>1. called'[u]["success"] = called[u]["success"] /\ called'[u]["error"] = called[u]["error"] + 1
      BY <1>5, <1>6, <2>4
    <3> QED
      BY ONLY <2>1, <2>4, <3>1 DEF Told
  <2> QED
    BY <1>6, <2>2, <2>3, <2>4
<1> QED
  BY <1>4, <1>5, <1>7

\* A count that is one more, or that is not there yet
LEMMA Counts ==
  ASSUME Typed, NEW u \in Uploads
  PROVE  /\ \A c \in Callbacks : called[u][c] \in Nat
         /\ Told(u) \in Nat /\ aborts[u] \in Nat /\ Own(u) \in Int
<1>1. \A c \in Callbacks : called[u][c] \in Nat
  BY DEF Typed
<1>2. called[u]["success"] \in Nat /\ called[u]["error"] \in Nat /\ aborts[u] \in Nat
  BY <1>1 DEF Callbacks, Typed
<1> QED
  BY <1>1, <1>2 DEF Told, Own

\* What a step may do to the count, apart from leaving it as it is.
CountMove ==
    \/ Counted' = Counted /\ active' = active
    \/ \E u \in Uploads \ Counted : Counted' = Counted \cup {u} /\ active' = active + 1
    \/ \E u \in Counted : Counted' = Counted \ {u} /\ active' = active - 1

\* And to what is due.
OwedSame == \A q \in Uploads : Owed(q)' = Owed(q) /\ Balance(q)' = Balance(q)
OwedElsewhere(u) == \A q \in Uploads \ {u} : Owed(q)' = Owed(q) /\ Balance(q)' = Balance(q)
OwedMore(u) ==
    OwedElsewhere(u) /\ \E i : i \notin Owed(u) /\ Owed(u)' = Owed(u) \cup {i} /\ Balance(u)' = Balance(u) - 1
OwedLess(u) ==
    OwedElsewhere(u) /\ \E i : i \in Owed(u) /\ Owed(u)' = Owed(u) \ {i} /\ Balance(u)' = Balance(u) + 1
OwedMove == OwedSame \/ \E u \in Uploads : OwedMore(u) \/ OwedLess(u)

LEMMA CountStep == ASSUME CountInv, CountMove PROVE CountInv'
<1>1. CASE Counted' = Counted /\ active' = active
  BY <1>1 DEF CountInv
<1>2. ASSUME NEW u \in Uploads \ Counted, Counted' = Counted \cup {u}, active' = active + 1
      PROVE  CountInv'
  <2>1. IsFiniteSet(Counted \cup {u}) /\ Cardinality(Counted \cup {u}) = Cardinality(Counted) + 1
    BY <1>2, FS_AddElement DEF CountInv
  <2> QED
    BY <1>2, <2>1 DEF CountInv
<1>3. ASSUME NEW u \in Counted, Counted' = Counted \ {u}, active' = active - 1
      PROVE  CountInv'
  <2>1. IsFiniteSet(Counted \ {u}) /\ Cardinality(Counted \ {u}) = Cardinality(Counted) - 1
    BY <1>3, FS_RemoveElement DEF CountInv
  <2> QED
    BY <1>3, <2>1 DEF CountInv
<1> QED
  BY <1>1, <1>2, <1>3 DEF CountMove

LEMMA OwedStep == ASSUME Typed, OwedInv, OwedMove PROVE OwedInv'
<1>0. ASSUME NEW u \in Uploads PROVE Balance(u) \in Int
  <2>1. called[u]["complete"] \in Nat /\ Told(u) \in Nat
    BY Counts DEF Callbacks
  <2> QED
    BY <2>1 DEF Balance, CbOwes
<1>1. CASE OwedSame
  BY <1>1 DEF OwedInv, OwedSame
<1>2. ASSUME NEW u \in Uploads, OwedMore(u) PROVE OwedInv'
  <2>1. PICK i : i \notin Owed(u) /\ Owed(u)' = Owed(u) \cup {i} /\ Balance(u)' = Balance(u) - 1
    BY <1>2 DEF OwedMore
  <2>2. IsFiniteSet(Owed(u)) /\ Cardinality(Owed(u)) + Balance(u) = 0
    BY DEF OwedInv
  <2>3. IsFiniteSet(Owed(u)') /\ Cardinality(Owed(u)') = Cardinality(Owed(u)) + 1
    BY <2>1, <2>2, FS_AddElement
  <2>4. Cardinality(Owed(u)) \in Nat /\ Balance(u) \in Int
    BY <1>0, <2>2, FS_CardinalityType
  <2>5. Cardinality(Owed(u)') + Balance(u)' = 0
    BY <2>1, <2>2, <2>3, <2>4
  <2> QED
    BY <1>2, <2>3, <2>5 DEF OwedInv, OwedMore, OwedElsewhere
<1>3. ASSUME NEW u \in Uploads, OwedLess(u) PROVE OwedInv'
  <2>1. PICK i : i \in Owed(u) /\ Owed(u)' = Owed(u) \ {i} /\ Balance(u)' = Balance(u) + 1
    BY <1>3 DEF OwedLess
  <2>2. IsFiniteSet(Owed(u)) /\ Cardinality(Owed(u)) + Balance(u) = 0
    BY DEF OwedInv
  <2>3. IsFiniteSet(Owed(u)') /\ Cardinality(Owed(u)') = Cardinality(Owed(u)) - 1
    BY <2>1, <2>2, FS_RemoveElement
  <2>4. Cardinality(Owed(u)) \in Nat /\ Balance(u) \in Int
    BY <1>0, <2>2, FS_CardinalityType
  <2>5. Cardinality(Owed(u)') + Balance(u)' = 0
    BY <2>1, <2>2, <2>3, <2>4
  <2> QED
    BY <1>3, <2>3, <2>5 DEF OwedInv, OwedLess, OwedElsewhere
<1> QED
  BY <1>1, <1>2, <1>3 DEF OwedMove

\* What is on the stack is owed.
LEMMA OwedIs ==
  ASSUME Typed, NEW n, Leaves(n) \/ \E f \in Functions : Pushes(n, f)
  PROVE  /\ Leaves(n) => \A q \in Uploads : Owed(q)' = Owed(q) \cap 1 .. n
         /\ \A f \in Functions : Pushes(n, f) =>
               \A q \in Uploads :
                  Owed(q)' = (Owed(q) \cap 1 .. n)
                             \cup (IF f = [up |-> q, at |-> "error"] THEN {n + 1} ELSE {})
         /\ n \in Nat /\ n + 1 \notin 1 .. n /\ (n = Len(calls) => \A q \in Uploads : Owed(q) \cap 1 .. n = Owed(q))
         /\ n = Len(calls) - 1 =>
               \A q \in Uploads :
                  Owed(q) \cap 1 .. n = IF calls[n + 1] = [up |-> q, at |-> "error"]
                                        THEN Owed(q) \ {n + 1} ELSE Owed(q)
<1>1. Len(calls) \in Nat /\ n \in Nat /\ n <= Len(calls)
  BY StackIs DEF Leaves, Pushes
<1>2. Leaves(n) => \A q \in Uploads : Owed(q)' = Owed(q) \cap 1 .. n
  BY <1>1 DEF Leaves, Owed
<1>3. ASSUME NEW f \in Functions, Pushes(n, f), NEW q \in Uploads
      PROVE  Owed(q)' = (Owed(q) \cap 1 .. n)
                        \cup (IF f = [up |-> q, at |-> "error"] THEN {n + 1} ELSE {})
  <2>1. /\ Len(calls') = n + 1 /\ calls'[n + 1] = f /\ \A i \in 1 .. n : calls'[i] = calls[i]
    BY <1>3 DEF Pushes
  <2>2. \A i : i \in 1 .. n + 1 <=> i \in 1 .. n \/ i = n + 1
    BY <1>1
  <2>3. \A i \in 1 .. n : i \in 1 .. Len(calls) /\ i # n + 1
    BY <1>1
  <2> QED
    BY <2>1, <2>2, <2>3 DEF Owed
<1>4. n + 1 \notin 1 .. n /\ (n = Len(calls) => \A q \in Uploads : Owed(q) \cap 1 .. n = Owed(q))
  BY <1>1 DEF Owed
<1>5. ASSUME n = Len(calls) - 1, NEW q \in Uploads
      PROVE  Owed(q) \cap 1 .. n = IF calls[n + 1] = [up |-> q, at |-> "error"]
                                   THEN Owed(q) \ {n + 1} ELSE Owed(q)
  <2>1. \A i : i \in 1 .. Len(calls) <=> i \in 1 .. n \/ i = n + 1
    BY <1>1, <1>5
  <2> QED
    BY <1>4, <2>1 DEF Owed
<1> QED
  BY <1>1, <1>2, <1>3, <1>4, <1>5


\* How a step that moves one upload changes the count and what is due
LEMMA CountKept ==
  ASSUME NEW u \in Uploads, Moves(u), active' = active, IsCounted(u)' <=> IsCounted(u)
  PROVE  CountMove
<1>1. \A q \in Uploads \ {u} : IsCounted(q)' <=> IsCounted(q)
  BY DEF Moves, IsCounted, CountedOff
<1> QED
  BY <1>1 DEF CountMove, Counted

LEMMA CountUp ==
  ASSUME NEW u \in Uploads, Moves(u), active' = active + 1, ~IsCounted(u), IsCounted(u)'
  PROVE  CountMove
<1>1. \A q \in Uploads \ {u} : IsCounted(q)' <=> IsCounted(q)
  BY DEF Moves, IsCounted, CountedOff
<1>2. u \notin Counted /\ Counted' = Counted \cup {u}
  BY <1>1 DEF Counted
<1> QED
  BY <1>2 DEF CountMove

LEMMA CountDown ==
  ASSUME NEW u \in Uploads, Moves(u), active' = active - 1, IsCounted(u), ~IsCounted(u)'
  PROVE  CountMove
<1>1. \A q \in Uploads \ {u} : IsCounted(q)' <=> IsCounted(q)
  BY DEF Moves, IsCounted, CountedOff
<1>2. u \in Counted /\ Counted' = Counted \ {u}
  BY <1>1 DEF Counted
<1> QED
  BY <1>2 DEF CountMove

LEMMA BalanceElsewhere ==
  ASSUME NEW u \in Uploads, Moves(u)
  PROVE  \A q \in Uploads \ {u} : Balance(q)' = Balance(q)
BY DEF Moves, Balance, CbOwes, Told

LEMMA BalanceUntold ==
  ASSUME NEW u \in Uploads, called'[u] = called[u], CbOwes(u)' = CbOwes(u)
  PROVE  Balance(u)' = Balance(u)
<1>1. Told(u)' = Told(u)
  BY DEF Told
<1> QED
  BY <1>1 DEF Balance

LEMMA BalanceTold ==
  ASSUME Typed, NEW u \in Uploads, NEW c \in Callbacks, Tell(u, c)
  PROVE  /\ c # "complete" /\ CbOwes(u)' = CbOwes(u) => Balance(u)' = Balance(u) - 1
         /\ c # "complete" /\ CbOwes(u) = 0 /\ CbOwes(u)' = 1 => Balance(u)' = Balance(u)
         /\ c = "complete" /\ CbOwes(u)' = CbOwes(u) => Balance(u)' = Balance(u) + 1
         /\ c = "complete" /\ CbOwes(u) = 1 /\ CbOwes(u)' = 0 => Balance(u)' = Balance(u)
<1>1. /\ called'[u][c] = called[u][c] + 1
      /\ \A b \in Callbacks \ {c} : called'[u][b] = called[u][b]
      /\ Told(u) \in Nat
      /\ Told(u)' = IF c = "complete" THEN Told(u) ELSE Told(u) + 1
  BY TellFacts
<1>2. called[u]["complete"] \in Nat /\ "complete" \in Callbacks /\ CbOwes(u) \in Int
  BY Counts DEF Callbacks, CbOwes
<1>3. CASE c = "complete"
  <2>1. called'[u]["complete"] = called[u]["complete"] + 1 /\ Told(u)' = Told(u)
    BY <1>1, <1>3
  <2> QED
    BY <1>1, <1>2, <1>3, <2>1 DEF Balance
<1>4. CASE c # "complete"
  <2>1. called'[u]["complete"] = called[u]["complete"] /\ Told(u)' = Told(u) + 1
    BY <1>1, <1>2, <1>4
  <2> QED
    BY <1>1, <1>2, <1>4, <2>1 DEF Balance
<1> QED
  BY <1>3, <1>4

LEMMA OwedKept ==
  ASSUME NEW u \in Uploads, Moves(u), \A q \in Uploads : Owed(q)' = Owed(q),
         Balance(u)' = Balance(u)
  PROVE  OwedMove
BY BalanceElsewhere DEF OwedMove, OwedSame

\* Steps that put no call of error on the stack, and take none off it
LEMMA NoneOwed ==
  ASSUME Typed, NEW n,
         n = Len(calls) \/ (n = Len(calls) - 1 /\ calls # <<>> /\ Last(calls).at # "error"),
         Leaves(n) \/ \E f \in Functions : f.at # "error" /\ Pushes(n, f)
  PROVE  \A q \in Uploads : Owed(q)' = Owed(q)
<1>1. /\ Leaves(n) => \A q \in Uploads : Owed(q)' = Owed(q) \cap 1 .. n
      /\ \A f \in Functions : Pushes(n, f) =>
            \A q \in Uploads :
               Owed(q)' = (Owed(q) \cap 1 .. n)
                          \cup (IF f = [up |-> q, at |-> "error"] THEN {n + 1} ELSE {})
      /\ n = Len(calls) => \A q \in Uploads : Owed(q) \cap 1 .. n = Owed(q)
      /\ n = Len(calls) - 1 =>
            \A q \in Uploads :
               Owed(q) \cap 1 .. n = IF calls[n + 1] = [up |-> q, at |-> "error"]
                                     THEN Owed(q) \ {n + 1} ELSE Owed(q)
  BY OwedIs
<1>2. ASSUME NEW q \in Uploads PROVE Owed(q) \cap 1 .. n = Owed(q)
  <2>1. CASE n = Len(calls)
    BY <1>1, <2>1
  <2>2. CASE n = Len(calls) - 1 /\ calls # <<>> /\ Last(calls).at # "error"
    <3>1. n + 1 = Len(calls) /\ calls[n + 1] = Last(calls)
      BY <2>2, StackIs
    <3>2. calls[n + 1] # [up |-> q, at |-> "error"]
      BY <2>2, <3>1
    <3> QED
      BY <1>1, <2>2, <3>2
  <2> QED
    BY <2>1, <2>2
<1>3. ASSUME NEW q \in Uploads PROVE Owed(q)' = Owed(q)
  <2>1. CASE Leaves(n)
    BY <1>1, <1>2, <2>1
  <2>2. ASSUME NEW f \in Functions, f.at # "error", Pushes(n, f) PROVE Owed(q)' = Owed(q)
    <3>1. f # [up |-> q, at |-> "error"]
      BY <2>2
    <3> QED
      BY <1>1, <1>2, <2>2, <3>1
  <2> QED
    BY <2>1, <2>2
<1> QED
  BY <1>3

-----------------------------------------------------------------------------
(* The steps, one by one. *)

Kept == Typed' /\ StackRight' /\ \A q \in Uploads : Right(q)'
Sums == CountMove /\ OwedMove

\* The stage of the upload whose function is on the stack
LEMMA OnStack ==
  ASSUME Typed, StackRight, NEW i \in 1 .. Len(calls)
  PROVE  /\ calls[i].up \in Uploads
         /\ stage[calls[i].up] = CASE calls[i].at = "start" -> "begun"
                                   [] calls[i].at = "send" -> "shown"
                                   [] OTHER -> "sent"
<1>1. calls[i] \in Functions
  BY StackIs
<1> QED
  BY <1>1 DEF Functions, Submitting, StackRight

\* Nothing is on the stack, or nothing happens to it.
LEMMA StackQuiet ==
  ASSUME Typed, StackRight, calls' = calls,
         calls = <<>> \/ stage' = stage
  PROVE  StackRight' /\ \A q \in Uploads : Owed(q)' = Owed(q)
<1>1. Leaves(Len(calls)) /\ Len(calls) \in Nat
  BY StackSame, StackIs
<1>2. \A i \in 1 .. Len(calls) : stage'[calls[i].up] = stage[calls[i].up]
  <2>1. CASE calls = <<>>
    BY <2>1
  <2>2. CASE stage' = stage
    BY <2>2
  <2> QED
    BY <2>1, <2>2
<1>3. StackRight'
  BY <1>1, <1>2, StackRightKept
<1> QED
  BY <1>1, <1>3, NoneOwed

LEMMA BeginKept ==
  ASSUME OptionAssumption, IInv, NEW u \in Uploads, Begin(u)
  PROVE  Kept /\ Sums
<1> DEFINE h == IF active = 0 THEN "start" ELSE "send"
           f == [up |-> u, at |-> h]
<1>1. /\ stage[u] = "new" /\ stage' = [stage EXCEPT ![u] = IF active = 0 THEN "begun" ELSE "shown"]
      /\ active' = active + 1 /\ calls' = Append(calls, f)
      /\ UNCHANGED <<frame, loads, timers, aborted, heard, processed, promise, handling,
                     called, aborts, form>>
  BY DEF Begin
<1>2. Typed /\ StackRight /\ Right(u) /\ \A q \in Uploads : Right(q)
  BY DEF IInv
<1>3. f \in Functions /\ f.up = u /\ f.at = h /\ f.at # "error"
  BY DEF Functions, Submitting
<1>4. stage'[u] = IF h = "start" THEN "begun" ELSE "shown"
  BY <1>1, <1>2 DEF Typed
<1> HIDE DEF f
<1>5. calls' \in Seq(Functions) /\ Pushes(Len(calls), f)
  BY <1>1, <1>2, <1>3, StackPushed
<1>6. Typed'
  BY <1>1, <1>2, <1>5 DEF Typed, Stages
<1>7. \A i \in 1 .. Len(calls) : calls[i].up # u /\ stage'[calls[i].up] = stage[calls[i].up]
  BY <1>1, <1>2, OnStack DEF Typed
<1>8. StackRight'
  <2>1. /\ f.at = "start" => stage'[f.up] = "begun"
        /\ f.at = "send" => stage'[f.up] = "shown"
        /\ f.at \in Submitting
        /\ f.at \in Submitting => \A i \in 1 .. Len(calls) : calls[i].at \in Submitting => calls[i].up # f.up
    BY <1>3, <1>4, <1>7 DEF Submitting
  <2> QED
    BY <1>2, <1>3, <1>5, <1>7, <2>1, StackRightKept
<1>9. Moves(u)
  BY <1>1, <1>2 DEF Moves, Typed
<1>10. Right(u)'
  BY <1>1, <1>2, <1>4 DEF Right, NotSent, Placed, Waiting, Answered, Blamed
<1>11. \A q \in Uploads : Right(q)'
  BY <1>2, <1>9, <1>10, OthersKept
<1>12. CountMove
  <2>1. ~IsCounted(u) /\ IsCounted(u)'
    BY <1>1, <1>2, <1>4 DEF IsCounted, CountedOff, Right, NotSent
  <2> QED
    BY <1>1, <1>9, <2>1, CountUp
<1>13. OwedMove
  <2>1. \A q \in Uploads : Owed(q)' = Owed(q)
    BY <1>2, <1>3, <1>5, NoneOwed
  <2>2. Balance(u)' = Balance(u)
    BY <1>1, BalanceUntold DEF CbOwes
  <2> QED
    BY <1>9, <2>1, <2>2, OwedKept
<1> QED
  BY <1>6, <1>8, <1>11, <1>12, <1>13 DEF Kept, Sums

LEMMA AfterStartKept ==
  ASSUME OptionAssumption, IInv, AfterStart
  PROVE  Kept /\ Sums
<1> DEFINE n == Len(calls) - 1
<1>0. Typed /\ StackRight /\ (\A q \in Uploads : Right(q)) /\ calls # <<>> /\ Last(calls).at = "start"
  BY DEF IInv, AfterStart, Running
<1>1. PICK u \in Uploads : u = Top
  BY <1>0, StackIs
<1>2. /\ stage' = [stage EXCEPT ![u] = "shown"] /\ calls' = NextFunction("send")
      /\ UNCHANGED <<frame, loads, timers, aborted, heard, processed, promise, handling,
                     called, aborts, active, form>>
  BY <1>1 DEF AfterStart
<1> DEFINE f == [up |-> u, at |-> "send"]
<1>3. /\ Len(calls) \in 1 .. Len(calls) /\ Len(calls) \in Nat
      /\ u = calls[Len(calls)].up /\ calls[Len(calls)].at = "start"
  BY <1>0, <1>1, StackIs
<1>4. calls' \in Seq(Functions) /\ Pushes(n, f)
  <2>1. "send" \in Submitting \cup {"error", "complete"}
    BY DEF Submitting
  <2> QED
    BY <1>0, <1>1, <1>2, <2>1, StackGoesOn
<1>5. f \in Functions /\ f.up = u /\ f.at = "send"
  BY DEF Functions, Submitting
<1> HIDE DEF f
<1>6. stage[u] = "begun" /\ stage'[u] = "shown"
  BY <1>0, <1>2, <1>3, OnStack DEF Submitting, Typed
<1>7. Typed'
  BY <1>0, <1>2, <1>4 DEF Typed, Stages
<1>8. \A i \in 1 .. n : calls[i].up # u /\ stage'[calls[i].up] = stage[calls[i].up]
  <2>1. SUFFICES ASSUME NEW i \in 1 .. n
                 PROVE  calls[i].up # u /\ stage'[calls[i].up] = stage[calls[i].up]
    OBVIOUS
  <2>2. i \in 1 .. Len(calls) /\ i # Len(calls)
    BY <1>3
  <2>3. calls[i].up # u
    BY <1>0, <1>3, <1>6, <2>2, OnStack DEF StackRight, Submitting
  <2> QED
    BY <1>0, <1>2, <2>1, <2>2, <2>3, OnStack DEF Typed
<1>9. StackRight'
  <2>1. /\ f.at = "start" => stage'[f.up] = "begun"
        /\ f.at = "send" => stage'[f.up] = "shown"
        /\ f.at \in Submitting
        /\ f.at \in Submitting => \A i \in 1 .. n : calls[i].at \in Submitting => calls[i].up # f.up
    BY <1>5, <1>6, <1>8 DEF Submitting
  <2> QED
    BY <1>0, <1>4, <1>5, <1>8, <2>1, StackRightKept
<1>10. Moves(u)
  BY <1>0, <1>2 DEF Moves, Typed
<1>11. Right(u)'
  <2>1. Right(u)
    BY <1>0
  <2> QED
    BY <1>2, <1>6, <2>1 DEF Right, NotSent, Placed, Waiting, Answered, Blamed
<1>12. \A q \in Uploads : Right(q)'
  BY <1>0, <1>10, <1>11, OthersKept
<1>13. CountMove
  <2>1. IsCounted(u)' <=> IsCounted(u)
    BY <1>2, <1>6 DEF IsCounted, CountedOff
  <2> QED
    BY <1>2, <1>10, <2>1, CountKept
<1>14. OwedMove
  <2>1. \A q \in Uploads : Owed(q)' = Owed(q)
    BY <1>0, <1>4, <1>5, NoneOwed
  <2>2. Balance(u)' = Balance(u)
    BY <1>2, BalanceUntold DEF CbOwes
  <2> QED
    BY <1>10, <2>1, <2>2, OwedKept
<1> QED
  BY <1>7, <1>9, <1>12, <1>13, <1>14 DEF Kept, Sums

LEMMA AfterSendKept ==
  ASSUME OptionAssumption, IInv, AfterSend
  PROVE  Kept /\ Sums
<1> DEFINE n == Len(calls) - 1
<1>0. Typed /\ StackRight /\ (\A q \in Uploads : Right(q)) /\ calls # <<>> /\ Last(calls).at = "send"
  BY DEF IInv, AfterSend, Running
<1>1. PICK u \in Uploads : u = Top
  BY <1>0, StackIs
<1>2. /\ calls' = Front(calls)
      /\ UNCHANGED <<frame, loads, aborted, heard, processed, handling, called, aborts, form>>
      /\ \/ /\ stage' = [stage EXCEPT ![u] = "refused"]
            /\ active' = active - 1
            /\ promise' = [promise EXCEPT ![u] = IF @ = "pending" THEN "rejected" ELSE @]
            /\ timers' = timers
         \/ /\ aborted[u]
            /\ stage' = [stage EXCEPT ![u] = "cancelled"]
            /\ promise' = [promise EXCEPT ![u] = IF @ = "pending" THEN "rejected" ELSE @]
            /\ timers' = timers /\ active' = active
         \/ /\ ~aborted[u]
            /\ stage' = [stage EXCEPT ![u] = "delayed"]
            /\ timers' = [timers EXCEPT ![u] = {"submit"}]
            /\ promise' = promise /\ active' = active
  BY <1>1 DEF AfterSend, Settle
<1>3. /\ Len(calls) \in 1 .. Len(calls) /\ Len(calls) \in Nat
      /\ u = calls[Len(calls)].up /\ calls[Len(calls)].at = "send"
  BY <1>0, <1>1, StackIs
<1>4. calls' \in Seq(Functions) /\ Leaves(n)
  BY <1>0, <1>2, StackPopped
<1>5. stage[u] = "shown" /\ stage'[u] \in {"refused", "cancelled", "delayed"}
  BY <1>0, <1>2, <1>3, OnStack DEF Submitting, Typed
<1>6. Typed'
  <2>1. stage' \in [Uploads -> Stages]
    BY <1>0, <1>2 DEF Typed, Stages
  <2>2. timers' \in [Uploads -> SUBSET {"submit", "timeout", "look", "remove"}]
    BY <1>0, <1>2 DEF Typed
  <2>3. promise' \in [Uploads -> {"pending", "resolved", "rejected"}]
    BY <1>0, <1>2 DEF Typed
  <2>4. active' \in Int
    BY <1>0, <1>2 DEF Typed
  <2> QED
    BY <1>0, <1>2, <1>4, <2>1, <2>2, <2>3, <2>4 DEF Typed
<1>7. Moves(u)
  BY <1>0, <1>2 DEF Moves, Typed
<1>8. StackRight'
  <2>1. SUFFICES ASSUME NEW i \in 1 .. n
                 PROVE  stage'[calls[i].up] = stage[calls[i].up]
    BY <1>0, <1>4, StackRightKept
  <2>2. i \in 1 .. Len(calls) /\ i # Len(calls)
    BY <1>3
  <2>3. calls[i].up # u
    BY <1>0, <1>3, <1>5, <2>2, OnStack DEF StackRight, Submitting
  <2> QED
    BY <1>0, <1>7, <2>1, <2>2, <2>3, OnStack DEF Moves
<1>9. Right(u)'
  <2>1. Right(u)
    BY <1>0
  <2>2. /\ frame'[u] = frame[u] /\ loads'[u] = loads[u] /\ aborted'[u] = aborted[u]
        /\ heard'[u] = heard[u] /\ processed'[u] = processed[u] /\ handling'[u] = handling[u]
        /\ called'[u] = called[u] /\ aborts'[u] = aborts[u]
    BY <1>2
  <2>3. timers[u] = {} /\ promise[u] = "pending"
    BY <1>5, <2>1 DEF Right, NotSent
  <2>4. /\ timers'[u] = IF stage'[u] = "delayed" THEN {"submit"} ELSE {}
        /\ stage'[u] = "delayed" => promise'[u] = "pending"
        /\ stage'[u] = "cancelled" => aborted[u]
    BY <1>0, <1>2, <1>5, <2>3 DEF Typed
  <2> QED
    BY <1>5, <2>1, <2>2, <2>4 DEF Right, NotSent, Placed, Waiting, Answered, Blamed
<1>10. \A q \in Uploads : Right(q)'
  BY <1>0, <1>7, <1>9, OthersKept
<1>11. CountMove
  <2>1. ~CountedOff(u) /\ ~CountedOff(u)'
    BY <1>0, <1>2, <1>5 DEF CountedOff, Right, NotSent
  <2>2. IsCounted(u)
    BY <1>5, <2>1 DEF IsCounted
  <2>3. CASE stage' = [stage EXCEPT ![u] = "refused"] /\ active' = active - 1
    <3>1. ~IsCounted(u)'
      BY <1>0, <2>3 DEF IsCounted, Typed
    <3> QED
      BY <1>7, <2>2, <2>3, <3>1, CountDown
  <2>4. CASE stage'[u] \in {"cancelled", "delayed"} /\ active' = active
    <3>1. IsCounted(u)'
      BY <2>1, <2>4 DEF IsCounted
    <3> QED
      BY <1>7, <2>2, <2>4, <3>1, CountKept
  <2> QED
    BY <1>0, <1>2, <2>3, <2>4 DEF Typed
<1>12. OwedMove
  <2>1. \A q \in Uploads : Owed(q)' = Owed(q)
    BY <1>0, <1>4, NoneOwed
  <2>2. Balance(u)' = Balance(u)
    BY <1>2, BalanceUntold DEF CbOwes
  <2> QED
    BY <1>7, <2>1, <2>2, OwedKept
<1> QED
  BY <1>6, <1>8, <1>10, <1>11, <1>12 DEF Kept, Sums

\* The page aborts: either nothing but the mark, or error is called.
LEMMA CallerAbortsKept ==
  ASSUME OptionAssumption, IInv, NEW u \in Uploads, CallerAborts(u)
  PROVE  Kept /\ Sums
<1>0. Typed /\ StackRight /\ (\A q \in Uploads : Right(q)) /\ Right(u)
  BY DEF IInv
<1>1. /\ stage[u] \notin {"new", "begun"} /\ aborts[u] < MaxAborts /\ MaxAborts > 0
      /\ aborted' = [aborted EXCEPT ![u] = TRUE]
      /\ UNCHANGED <<stage, timers, heard, processed, promise, handling, active, form>>
  BY <1>0 DEF CallerAborts, Typed, OptionAssumption
<1>2. CASE ~CanLook(u)
  <2>1. UNCHANGED <<frame, loads, called, aborts, calls>>
    BY <1>2 DEF CallerAborts
  <2>2. Typed' /\ Moves(u)
    BY <1>0, <1>1, <2>1 DEF Typed, Moves
  <2>3. StackRight' /\ \A q \in Uploads : Owed(q)' = Owed(q)
    BY <1>0, <1>1, <2>1, StackQuiet
  <2>4. Right(u)'
    <3>1. Told(u)' = Told(u) /\ Own(u)' = Own(u)
      BY <2>1 DEF Told, Own
    <3>2. aborted'[u]
      BY <1>0, <1>1 DEF Typed
    <3> QED
      BY <1>0, <1>1, <2>1, <3>1, <3>2 DEF Right, NotSent, Placed, Waiting, Answered, Blamed
  <2>5. \A q \in Uploads : Right(q)'
    BY <1>0, <2>2, <2>4, OthersKept
  <2>6. CountMove
    BY <1>1, <2>2, CountKept DEF IsCounted, CountedOff
  <2>7. OwedMove
    <3>1. Balance(u)' = Balance(u)
      BY <1>1, <2>1, BalanceUntold DEF CbOwes
    <3> QED
      BY <2>2, <2>3, <3>1, OwedKept
  <2> QED
    BY <2>2, <2>3, <2>5, <2>6, <2>7 DEF Kept, Sums
<1>3. CASE CanLook(u)
  <2> DEFINE f == [up |-> u, at |-> "error"]
  <2>1. /\ frame' = [frame EXCEPT ![u] = "blank"] /\ loads' = [loads EXCEPT ![u] = TRUE]
        /\ Tell(u, "error") /\ aborts' = [aborts EXCEPT ![u] = @ + 1]
        /\ calls' = Append(calls, f)
    BY <1>3 DEF CallerAborts, BlankAndTell
  <2>2. f \in Functions /\ f.at \notin Submitting /\ f.at # "start" /\ f.at # "send"
    BY DEF Functions, Submitting
  <2>3. f = [up |-> u, at |-> "error"]
    OBVIOUS
  <2> HIDE DEF f
  <2>4. calls' \in Seq(Functions) /\ Pushes(Len(calls), f)
    BY <1>0, <2>1, <2>2, StackPushed
  <2>5. "error" \in Callbacks
    BY DEF Callbacks
  <2>6. /\ called' \in [Uploads -> [Callbacks -> Nat]]
        /\ called'[u]["error"] = called[u]["error"] + 1
        /\ \A b \in Callbacks \ {"error"} : called'[u][b] = called[u][b]
        /\ \A q \in Uploads \ {u} : called'[q] = called[q]
        /\ Told(u) \in Nat /\ Told(u)' = Told(u) + 1
    BY <1>0, <2>1, <2>5, TellFacts
  <2>7. Typed'
    <3>1. frame' \in [Uploads -> Pages] /\ loads' \in [Uploads -> BOOLEAN]
      BY <1>0, <2>1 DEF Typed, Pages
    <3>2. aborts' \in [Uploads -> Nat] /\ aborted' \in [Uploads -> BOOLEAN]
      BY <1>0, <1>1, <2>1 DEF Typed
    <3> QED
      BY <1>0, <1>1, <2>4, <2>6, <3>1, <3>2 DEF Typed
  <2>8. Moves(u)
    BY <1>0, <1>1, <2>1, <2>6 DEF Typed, Moves
  <2>9. StackRight'
    <3>1. stage'[f.up] = "sent"
      BY <1>0, <1>1, <1>3, <2>3 DEF CanLook, Right, NotSent
    <3> QED
      BY <1>0, <1>1, <2>2, <2>4, <3>1, StackRightKept
  <2>10. Right(u)'
    <3>1. stage[u] = "sent" /\ frame[u] # "none"
      BY <1>0, <1>3 DEF CanLook, Right, NotSent
    <3>2. aborted'[u] /\ aborts'[u] = aborts[u] + 1 /\ frame'[u] = "blank" /\ aborts[u] \in Nat
      BY <1>0, <1>1, <2>1 DEF Typed
    <3>3. Own(u)' = Own(u)
      BY <2>6, <3>2 DEF Own
    <3>4. called'[u]["success"] = called[u]["success"]
      BY <2>6 DEF Callbacks
    <3> HIDE <1>3
    <3>5. NotSent(u)' /\ Blamed(u)'
      BY <1>1, <3>1 DEF NotSent, Blamed
    <3>6. Placed(u)'
      BY <1>0, <1>1, <3>1, <3>2 DEF Right, Placed
    <3>7. Waiting(u)'
      BY <1>0, <1>1, <3>1, <3>2, <3>3, <3>4 DEF Right, Waiting
    <3>8. Answered(u)'
      BY <1>0, <1>1, <3>1, <3>2, <3>3, <3>4 DEF Right, Answered
    <3> QED
      BY <3>5, <3>6, <3>7, <3>8 DEF Right
  <2>11. \A q \in Uploads : Right(q)'
    BY <1>0, <2>8, <2>10, OthersKept
  <2>12. CountMove
    BY <1>1, <2>8, CountKept DEF IsCounted, CountedOff
  <2>13. OwedMove
    <3> DEFINE i == Len(calls) + 1
    <3>1. /\ \A q \in Uploads : Owed(q)' = Owed(q) \cup (IF f = [up |-> q, at |-> "error"] THEN {i} ELSE {})
          /\ i \notin Owed(u)
      <4>1. /\ \A q \in Uploads :
                  Owed(q)' = (Owed(q) \cap 1 .. Len(calls))
                             \cup (IF f = [up |-> q, at |-> "error"] THEN {i} ELSE {})
            /\ i \notin 1 .. Len(calls) /\ \A q \in Uploads : Owed(q) \cap 1 .. Len(calls) = Owed(q)
        BY <1>0, <2>2, <2>4, OwedIs
      <4> QED
        BY <4>1 DEF Owed
    <3>2. Owed(u)' = Owed(u) \cup {i} /\ \A q \in Uploads \ {u} : Owed(q)' = Owed(q)
      BY <2>3, <3>1
    <3>3. Balance(u)' = Balance(u) - 1
      <4>1. CbOwes(u)' = CbOwes(u)
        BY <1>1 DEF CbOwes
      <4> QED
        BY <1>0, <2>1, <2>5, <4>1, BalanceTold
    <3> QED
      BY <2>8, <3>1, <3>2, <3>3, BalanceElsewhere DEF OwedMove, OwedMore, OwedElsewhere
  <2> QED
    BY <2>7, <2>9, <2>11, <2>12, <2>13 DEF Kept, Sums
<1> QED
  BY <1>2, <1>3

LEMMA AfterErrorKept ==
  ASSUME OptionAssumption, IInv, AfterError
  PROVE  Kept /\ Sums
<1> DEFINE n == Len(calls) - 1
<1>0. Typed /\ StackRight /\ (\A q \in Uploads : Right(q)) /\ calls # <<>> /\ Last(calls).at = "error"
  BY DEF IInv, AfterError, Running
<1>1. PICK u \in Uploads : u = Top
  BY <1>0, StackIs
<1>2. /\ Tell(u, "complete") /\ calls' = NextFunction("complete")
      /\ UNCHANGED <<stage, frame, loads, timers, aborted, heard, processed, promise, handling,
                     aborts, active, form>>
  BY <1>1 DEF AfterError
<1> DEFINE f == [up |-> u, at |-> "complete"]
<1>3. /\ Len(calls) \in 1 .. Len(calls) /\ Len(calls) \in Nat /\ n \in Nat /\ n + 1 = Len(calls)
      /\ calls[Len(calls)] = [up |-> u, at |-> "error"]
  <2>1. /\ Len(calls) \in 1 .. Len(calls) /\ Len(calls) \in Nat /\ calls[Len(calls)] \in Functions
        /\ u = calls[Len(calls)].up /\ calls[Len(calls)].at = "error"
    BY <1>0, <1>1, StackIs
  <2> QED
    BY <2>1 DEF Functions
<1>4. calls' \in Seq(Functions) /\ Pushes(n, f)
  BY <1>0, <1>1, <1>2, StackGoesOn
<1>5. f \in Functions /\ f.up = u /\ f.at = "complete" /\ f.at \notin Submitting
  BY DEF Functions, Submitting
<1> HIDE DEF f
<1>6. "complete" \in Callbacks /\ "success" \in Callbacks
  BY DEF Callbacks
<1>7. /\ called' \in [Uploads -> [Callbacks -> Nat]]
      /\ called'[u]["success"] = called[u]["success"]
      /\ \A q \in Uploads \ {u} : called'[q] = called[q]
      /\ Told(u)' = Told(u)
  BY <1>0, <1>2, <1>6, TellFacts
<1>8. Typed' /\ Moves(u)
  BY <1>0, <1>2, <1>4, <1>7 DEF Typed, Moves
<1>9. stage[u] = "sent"
  BY <1>0, <1>3, OnStack
<1>10. StackRight'
  <2>1. stage'[f.up] = "sent"
    BY <1>2, <1>5, <1>9
  <2>2. \A i \in 1 .. n : stage'[calls[i].up] = stage[calls[i].up]
    BY <1>2
  <2> QED
    BY <1>0, <1>4, <1>5, <2>1, <2>2, StackRightKept
<1>11. Right(u)'
  <2>1. Right(u)
    BY <1>0
  <2>2. Own(u)' = Own(u)
    BY <1>2, <1>7 DEF Own
  <2> QED
    BY <1>2, <1>7, <1>9, <2>1, <2>2 DEF Right, NotSent, Placed, Waiting, Answered, Blamed
<1>12. \A q \in Uploads : Right(q)'
  BY <1>0, <1>8, <1>11, OthersKept
<1>13. CountMove
  BY <1>2, <1>8, CountKept DEF IsCounted, CountedOff
<1>14. OwedMove
  <2>1. /\ \A q \in Uploads : Owed(q)' = (Owed(q) \cap 1 .. n)
                                          \cup (IF f = [up |-> q, at |-> "error"] THEN {n + 1} ELSE {})
        /\ \A q \in Uploads :
              Owed(q) \cap 1 .. n = IF calls[n + 1] = [up |-> q, at |-> "error"]
                                    THEN Owed(q) \ {n + 1} ELSE Owed(q)
    BY <1>0, <1>4, <1>5, OwedIs
  <2>2. \A q \in Uploads : f # [up |-> q, at |-> "error"]
    BY <1>5
  <2>3. \A q \in Uploads : calls[n + 1] = [up |-> q, at |-> "error"] <=> q = u
    BY <1>3
  <2>4. \A q \in Uploads : Owed(q)' = IF q = u THEN Owed(q) \ {n + 1} ELSE Owed(q)
    BY <2>1, <2>2, <2>3
  <2>5. n + 1 \in Owed(u)
    BY <1>3 DEF Owed
  <2>6. Balance(u)' = Balance(u) + 1
    <3>1. CbOwes(u)' = CbOwes(u)
      BY <1>2 DEF CbOwes
    <3> QED
      BY <1>0, <1>2, <1>6, <3>1, BalanceTold
  <2> QED
    BY <1>8, <2>4, <2>5, <2>6, BalanceElsewhere DEF OwedMove, OwedLess, OwedElsewhere
<1> QED
  BY <1>8, <1>10, <1>12, <1>13, <1>14 DEF Kept, Sums

LEMMA AfterCompleteKept ==
  ASSUME OptionAssumption, IInv, AfterComplete
  PROVE  Kept /\ Sums
<1> DEFINE n == Len(calls) - 1
<1>0. Typed /\ StackRight /\ (\A q \in Uploads : Right(q)) /\ calls # <<>> /\ Last(calls).at = "complete"
  BY DEF IInv, AfterComplete, Running
<1>1. PICK u \in Uploads : u = Top
  BY <1>0, StackIs
<1>2. /\ calls' = Front(calls)
      /\ UNCHANGED <<stage, frame, loads, timers, aborted, heard, processed, promise, handling,
                     called, aborts, active, form>>
  BY DEF AfterComplete
<1>3. calls' \in Seq(Functions) /\ Leaves(n)
  BY <1>0, <1>2, StackPopped
<1>4. Typed' /\ Moves(u)
  BY <1>0, <1>2, <1>3 DEF Typed, Moves
<1>5. StackRight'
  BY <1>0, <1>2, <1>3, StackRightKept
<1>6. \A q \in Uploads : Right(q)'
  <2>1. \A q \in Uploads : Own(q)' = Own(q) /\ Told(q)' = Told(q)
    BY <1>2 DEF Own, Told
  <2> QED
    BY <1>0, <1>2, <2>1 DEF Right, NotSent, Placed, Waiting, Answered, Blamed
<1>7. CountMove
  BY <1>2, <1>4, CountKept DEF IsCounted, CountedOff
<1>8. OwedMove
  <2>1. \A q \in Uploads : Owed(q)' = Owed(q)
    BY <1>0, <1>3, NoneOwed
  <2>2. Balance(u)' = Balance(u)
    BY <1>2, BalanceUntold DEF CbOwes
  <2> QED
    BY <1>4, <2>1, <2>2, OwedKept
<1> QED
  BY <1>4, <1>5, <1>6, <1>7, <1>8 DEF Kept, Sums

\* A function that throws takes others off the stack, and may take cb() with it.
LEMMA ThrowKept == ASSUME OptionAssumption, IInv, Throw PROVE Kept
<1>0. Typed /\ StackRight /\ (\A q \in Uploads : Right(q)) /\ MayThrow /\ Len(calls) \in Nat
  BY StackIs DEF IInv, Throw
<1>1. UNCHANGED <<stage, frame, loads, timers, aborted, heard, processed, promise, called,
                  aborts, active, form>>
  BY DEF Throw
<1>2. \A q \in Uploads : handling'[q] = handling[q] \/ handling'[q] = "no"
  BY <1>0 DEF Throw
<1>3. handling' \in [Uploads -> {"no"} \cup Answering \cup GivingUp]
  BY <1>0 DEF Throw, Typed
<1>4. PICK k \in 0 .. Len(calls) : calls' = SubSeq(calls, 1, k) \/ (k = 0 /\ calls' = <<>>)
  <2>1. 0 \in 0 .. Len(calls) /\ \A k \in 0 .. Len(calls) - 1 : k \in 0 .. Len(calls)
    BY <1>0
  <2> QED
    BY <2>1 DEF Throw
<1>5. calls' \in Seq(Functions) /\ Leaves(k)
  <2>1. CASE calls' = SubSeq(calls, 1, k)
    BY <1>0, <1>4, <2>1, StackCut
  <2>2. CASE k = 0 /\ calls' = <<>>
    <3>1. calls' \in Seq(Functions) /\ Len(calls') = 0 /\ k \in 0 .. Len(calls)
      BY <1>4, <2>2
    <3> QED
      BY <2>2, <3>1 DEF Leaves
  <2> QED
    BY <1>4, <2>1, <2>2
<1>6. Typed'
  BY <1>0, <1>1, <1>3, <1>5 DEF Typed
<1>7. StackRight'
  BY <1>0, <1>1, <1>5, StackRightKept
<1>8. ASSUME NEW q \in Uploads PROVE Right(q)'
  <2>1. Right(q) /\ Own(q)' = Own(q) /\ Told(q)' = Told(q)
    BY <1>0, <1>1 DEF Own, Told
  <2>2. "no" \notin Answering /\ "no" # "success" /\ "no" # "error"
    BY DEF Answering
  <2>3. NotSent(q)' /\ Placed(q)' /\ Blamed(q)'
    BY <1>1, <1>2, <2>1 DEF Right, NotSent, Placed, Blamed
  <2>4. Waiting(q)'
    BY <1>0, <1>1, <1>2, <2>1, <2>2 DEF Right, Waiting
  <2>5. Answered(q)'
    BY <1>0, <1>1, <1>2, <2>1, <2>2 DEF Right, Answered
  <2> QED
    BY <2>3, <2>4, <2>5 DEF Right
<1> QED
  BY <1>6, <1>7, <1>8 DEF Kept

-----------------------------------------------------------------------------
(* What the browser calls: no script is running, the stack is empty. *)

LEMMA DoSubmitKept ==
  ASSUME OptionAssumption, IInv, NEW u \in Uploads, DoSubmit(u)
  PROVE  Kept /\ Sums
<1>0. Typed /\ StackRight /\ (\A q \in Uploads : Right(q)) /\ Right(u) /\ calls = <<>>
  BY DEF IInv, DoSubmit, Idle
<1>1. /\ handling[u] = "no" /\ "submit" \in timers[u]
      /\ stage' = [stage EXCEPT ![u] = "sent"] /\ frame' = [frame EXCEPT ![u] = "waiting"]
      /\ loads' = [loads EXCEPT ![u] = TRUE] /\ heard' = [heard EXCEPT ![u] = TRUE]
      /\ timers' = [timers EXCEPT ![u] = TimersAtStart(u)] /\ form' = Reset(form)
      /\ UNCHANGED <<aborted, processed, promise, handling, calls, called, aborts, active>>
  BY DEF DoSubmit, Idle
<1>2. stage[u] = "delayed" /\ timers[u] = {"submit"}
  BY <1>0, <1>1 DEF Right, NotSent, Placed, Typed, Stages
<1>3. timers'[u] = {"look"} \cup IF Timeout THEN {"timeout"} ELSE {}
  BY <1>0, <1>1, <1>2 DEF Typed, TimersAtStart
<1>4. Typed'
  <2>1. stage' \in [Uploads -> Stages] /\ frame' \in [Uploads -> Pages]
    BY <1>0, <1>1 DEF Typed, Stages, Pages
  <2>2. timers' \in [Uploads -> SUBSET {"submit", "timeout", "look", "remove"}]
    <3>1. TimersAtStart(u) \in SUBSET {"submit", "timeout", "look", "remove"}
      BY <1>2 DEF TimersAtStart
    <3> QED
      BY <1>0, <1>1, <3>1 DEF Typed
  <2>3. form' \in [Attributes -> {"own", "none", "ours"}]
    BY <1>0, <1>1 DEF Typed, Reset, Attributes
  <2>4. loads' \in [Uploads -> BOOLEAN] /\ heard' \in [Uploads -> BOOLEAN]
    BY <1>0, <1>1 DEF Typed
  <2> QED
    BY <1>0, <1>1, <2>1, <2>2, <2>3, <2>4 DEF Typed
<1>5. Moves(u)
  BY <1>0, <1>1 DEF Typed, Moves
<1>6. StackRight' /\ \A q \in Uploads : Owed(q)' = Owed(q)
  BY <1>0, <1>1, StackQuiet
<1>7. Right(u)'
  <2>1. /\ stage'[u] = "sent" /\ frame'[u] = "waiting" /\ loads'[u] = TRUE /\ heard'[u] = TRUE
        /\ aborted'[u] = aborted[u] /\ ~processed'[u] /\ promise'[u] = "pending"
        /\ handling'[u] = "no" /\ called'[u] = called[u] /\ aborts'[u] = 0
    BY <1>0, <1>1, <1>2 DEF Typed, Right, NotSent
  <2>2. Told(u)' = 0 /\ Own(u)' = 0 /\ called'[u]["success"] = 0
    BY <1>0, <1>1, <1>2 DEF Told, Own, Right, NotSent, Callbacks
  <2>3. NotSent(u)' /\ Blamed(u)'
    BY <1>0, <2>1 DEF Right, NotSent, Blamed
  <2>4. Placed(u)'
    BY <1>3, <2>1 DEF Placed
  <2>5. Waiting(u)' /\ Answered(u)'
    BY <2>1, <2>2 DEF Waiting, Answered, Answering
  <2> QED
    BY <2>3, <2>4, <2>5 DEF Right
<1>8. \A q \in Uploads : Right(q)'
  BY <1>0, <1>5, <1>7, OthersKept
<1>9. CountMove
  <2>1. IsCounted(u)' <=> IsCounted(u)
    <3>1. stage'[u] = "sent"
      BY <1>0, <1>1 DEF Typed
    <3> QED
      BY <1>1, <1>2, <3>1 DEF IsCounted, CountedOff
  <2> QED
    BY <1>1, <1>5, <2>1, CountKept
<1>10. OwedMove
  <2>1. Balance(u)' = Balance(u)
    BY <1>1, BalanceUntold DEF CbOwes
  <2> QED
    BY <1>5, <1>6, <2>1, OwedKept
<1> QED
  BY <1>4, <1>6, <1>8, <1>9, <1>10 DEF Kept, Sums

\* A step that is told to nobody and changes no more than the page in the frame of u,
\* whether it loads, and which timers are pending.
LEMMA FrameStep ==
  ASSUME OptionAssumption, IInv, NEW u \in Uploads, calls = <<>>,
         UNCHANGED <<stage, aborted, heard, processed, promise, handling, calls, called, aborts,
                     active, form>>,
         frame' \in [Uploads -> Pages], loads' \in [Uploads -> BOOLEAN],
         timers' \in [Uploads -> SUBSET {"submit", "timeout", "look", "remove"}],
         \A q \in Uploads \ {u} : frame'[q] = frame[q] /\ loads'[q] = loads[q] /\ timers'[q] = timers[q],
         NotSent(u)', Placed(u)'
  PROVE  Kept /\ Sums
<1>0. Typed /\ StackRight /\ (\A q \in Uploads : Right(q)) /\ Right(u)
  BY DEF IInv
<1>1. Typed' /\ Moves(u)
  BY <1>0 DEF Typed, Moves
<1>2. StackRight' /\ \A q \in Uploads : Owed(q)' = Owed(q)
  BY <1>0, StackQuiet
<1>3. Right(u)'
  BY <1>0, Untold DEF Right
<1>4. \A q \in Uploads : Right(q)'
  BY <1>0, <1>1, <1>3, OthersKept
<1>5. CountMove
  BY <1>1, CountKept DEF IsCounted, CountedOff
<1>6. OwedMove
  <2>1. Balance(u)' = Balance(u)
    BY BalanceUntold DEF CbOwes
  <2> QED
    BY <1>1, <1>2, <2>1, OwedKept
<1> QED
  BY <1>1, <1>2, <1>4, <1>5, <1>6 DEF Kept, Sums

LEMMA LoadsKept ==
  ASSUME OptionAssumption, IInv, NEW u \in Uploads, BlankLoads(u) \/ AnswerLoads(u)
  PROVE  Kept /\ Sums
<1>0. Typed /\ Right(u) /\ calls = <<>> /\ frame[u] \in {"waiting", "blank"}
  BY DEF IInv, BlankLoads, AnswerLoads, Idle
<1>1. /\ UNCHANGED <<stage, timers, aborted, heard, processed, promise, handling, calls, called,
                     aborts, active, form>>
      /\ \/ loads' = [loads EXCEPT ![u] = FALSE] /\ frame' = frame
         \/ /\ frame[u] = "waiting" /\ loads' = [loads EXCEPT ![u] = TRUE]
            /\ \E a \in Answers : frame' = [frame EXCEPT ![u] = a]
  BY DEF BlankLoads, AnswerLoads
<1>2. stage[u] = "sent"
  BY <1>0 DEF Right, NotSent
<1>3. Answers \subseteq {"good", "bad", "foreign"}
  BY DEF OptionAssumption
<1>4. frame' \in [Uploads -> Pages] /\ loads' \in [Uploads -> BOOLEAN]
  <2>1. \A a \in Answers : a \in Pages
    BY <1>3 DEF Pages
  <2>2. loads' \in [Uploads -> BOOLEAN]
    BY <1>0, <1>1 DEF Typed
  <2>3. frame' \in [Uploads -> Pages]
    BY <1>0, <1>1, <2>1 DEF Typed
  <2> QED
    BY <2>2, <2>3
<1>5. \A q \in Uploads \ {u} : frame'[q] = frame[q] /\ loads'[q] = loads[q] /\ timers'[q] = timers[q]
  BY <1>0, <1>1 DEF Typed
<1>6. frame'[u] = frame[u] \/ (frame[u] = "waiting" /\ frame'[u] \in Answers)
  BY <1>0, <1>1 DEF Typed
<1>7. NotSent(u)'
  BY <1>1, <1>2 DEF NotSent
<1>8. Placed(u)'
  BY <1>0, <1>1, <1>2, <1>3, <1>6 DEF Right, Placed
<1>9. timers' \in [Uploads -> SUBSET {"submit", "timeout", "look", "remove"}]
  BY <1>0, <1>1 DEF Typed
<1> QED
  BY <1>0, <1>1, <1>4, <1>5, <1>7, <1>8, <1>9, FrameStep

LEMMA RemoveFrameKept ==
  ASSUME OptionAssumption, IInv, NEW u \in Uploads, RemoveFrame(u)
  PROVE  Kept /\ Sums
<1>0. Typed /\ Right(u) /\ calls = <<>> /\ "remove" \in timers[u]
  BY DEF IInv, RemoveFrame, Idle
<1>1. /\ UNCHANGED <<stage, aborted, heard, processed, promise, handling, calls, called, aborts,
                     active, form>>
      /\ timers' = [timers EXCEPT ![u] = @ \ {"remove"}] /\ frame' = [frame EXCEPT ![u] = "none"]
      /\ loads' = [loads EXCEPT ![u] = FALSE]
  BY DEF RemoveFrame
<1>2. stage[u] = "sent"
  BY <1>0 DEF Right, NotSent
<1>3. /\ frame' \in [Uploads -> Pages] /\ loads' \in [Uploads -> BOOLEAN]
      /\ timers' \in [Uploads -> SUBSET {"submit", "timeout", "look", "remove"}]
  BY <1>0, <1>1 DEF Typed, Pages
<1>4. \A q \in Uploads \ {u} : frame'[q] = frame[q] /\ loads'[q] = loads[q] /\ timers'[q] = timers[q]
  BY <1>0, <1>1 DEF Typed
<1>5. frame'[u] = "none" /\ timers'[u] = timers[u] \ {"remove"}
  BY <1>0, <1>1 DEF Typed
<1>6. NotSent(u)' /\ Placed(u)'
  BY <1>0, <1>1, <1>2, <1>5 DEF Right, NotSent, Placed
<1> QED
  BY <1>0, <1>1, <1>3, <1>4, <1>6, FrameStep

\* cb() aborts an upload that was sent and has not ended.
LEMMA GiveUpKept ==
  ASSUME OptionAssumption, IInv, Idle, NEW u \in Uploads, NEW left, GiveUp(u, left),
         stage[u] = "sent", ~Ended(u), Timeout \/ "foreign" \in Answers
  PROVE  Kept /\ Sums
<1>0. /\ Typed /\ StackRight /\ (\A q \in Uploads : Right(q)) /\ Right(u) /\ calls = <<>>
      /\ handling[u] = "no" /\ ~aborted[u] /\ ~processed[u] /\ frame[u] # "none"
  BY DEF IInv, Idle, Ended, Right, Placed
<1>1. /\ aborted' = [aborted EXCEPT ![u] = TRUE] /\ timers' = [timers EXCEPT ![u] = @ \ left]
      /\ UNCHANGED <<stage, heard, processed, promise, calls, aborts, active, form>>
  BY DEF GiveUp
<1>2. /\ aborted'[u] = TRUE /\ timers'[u] = timers[u] \ left
      /\ aborted' \in [Uploads -> BOOLEAN]
      /\ timers' \in [Uploads -> SUBSET {"submit", "timeout", "look", "remove"}]
  BY <1>0, <1>1 DEF Typed
<1>3. StackRight' /\ \A q \in Uploads : Owed(q)' = Owed(q)
  BY <1>0, <1>1, StackQuiet
<1>4. CASE ~CanLook(u)
  <2>1. UNCHANGED <<frame, loads, called, handling>> /\ frame[u] = "foreign"
    BY <1>0, <1>4 DEF GiveUp, CanLook
  <2>2. Typed' /\ Moves(u)
    BY <1>0, <1>1, <1>2, <2>1 DEF Typed, Moves
  <2>3. Right(u)'
    <3>1. Told(u)' = Told(u) /\ Own(u)' = Own(u)
      BY <1>1, <2>1 DEF Told, Own
    <3>2. NotSent(u)' /\ Blamed(u)' /\ Placed(u)'
      BY <1>0, <1>1, <1>2, <2>1 DEF Right, NotSent, Placed, Blamed
    <3>3. Waiting(u)' /\ Answered(u)'
      BY <1>0, <1>1, <1>2, <2>1, <3>1 DEF Right, Waiting, Answered
    <3> QED
      BY <3>2, <3>3 DEF Right
  <2>4. \A q \in Uploads : Right(q)'
    BY <1>0, <2>2, <2>3, OthersKept
  <2>5. CountMove
    BY <1>1, <2>1, <2>2, CountKept DEF IsCounted, CountedOff
  <2>6. OwedMove
    <3>1. Balance(u)' = Balance(u)
      BY <2>1, BalanceUntold DEF CbOwes
    <3> QED
      BY <1>3, <2>2, <3>1, OwedKept
  <2> QED
    BY <1>3, <2>2, <2>4, <2>5, <2>6 DEF Kept, Sums
<1>5. CASE CanLook(u)
  <2>1. /\ frame' = [frame EXCEPT ![u] = "blank"] /\ loads' = [loads EXCEPT ![u] = TRUE]
        /\ Tell(u, "error") /\ handling' = [handling EXCEPT ![u] = "giveUp"]
    BY <1>5 DEF GiveUp, BlankAndTell, Handle
  <2>2. "error" \in Callbacks /\ "success" \in Callbacks
    BY DEF Callbacks
  <2>3. /\ called' \in [Uploads -> [Callbacks -> Nat]]
        /\ called'[u]["success"] = called[u]["success"]
        /\ \A q \in Uploads \ {u} : called'[q] = called[q]
        /\ Told(u) \in Nat /\ Told(u)' = Told(u) + 1
    BY <1>0, <2>1, <2>2, TellFacts
  <2>4. Typed'
    <3>1. frame' \in [Uploads -> Pages] /\ loads' \in [Uploads -> BOOLEAN]
      BY <1>0, <2>1 DEF Typed, Pages
    <3>2. handling' \in [Uploads -> {"no"} \cup Answering \cup GivingUp]
      BY <1>0, <2>1 DEF Typed, GivingUp
    <3> QED
      BY <1>0, <1>1, <1>2, <2>3, <3>1, <3>2 DEF Typed
  <2>5. Moves(u)
    BY <1>0, <1>1, <2>1, <2>3 DEF Typed, Moves
  <2>6. handling'[u] = "giveUp" /\ frame'[u] = "blank"
    BY <1>0, <2>1 DEF Typed
  <2>7. Right(u)'
    <3>1. NotSent(u)' /\ Blamed(u)' /\ Placed(u)'
      BY <1>0, <1>1, <1>2, <2>6 DEF Right, NotSent, Placed, Blamed
    <3>2. Own(u)' = Own(u) + 1 /\ Own(u) \in Int
      <4>1. aborts[u] \in Nat /\ aborts'[u] = aborts[u]
        BY <1>0, <1>1 DEF Typed
      <4> QED
        BY <2>3, <4>1 DEF Own
    <3>3. CASE heard[u]
      <4>1. Own(u) = 0 /\ promise[u] = "pending" /\ called[u]["success"] = 0
        BY <1>0, <3>3 DEF Right, Waiting, Own
      <4>2. Own(u)' = 1 /\ promise'[u] = "pending" /\ heard'[u] /\ called'[u]["success"] = 0
        BY <1>1, <2>3, <3>2, <3>3, <4>1
      <4>3. Waiting(u)'
        BY <1>2, <2>6, <4>2 DEF Waiting, Answering
      <4> QED
        BY <3>1, <4>2, <4>3 DEF Right, Answered
    <3>4. CASE ~heard[u]
      <4>1. MayThrow /\ Own(u) = 1 /\ (called[u]["success"] = 0 \/ called[u]["success"] = 1)
        BY <1>0, <3>4 DEF Right, Answered, Answering
      <4>2. Own(u)' = 2 /\ ~heard'[u] /\ called'[u]["success"] = called[u]["success"]
        BY <1>1, <2>3, <3>2, <3>4, <4>1
      <4>3. Answered(u)'
        BY <1>2, <2>6, <4>1, <4>2 DEF Answered
      <4> QED
        BY <3>1, <4>2, <4>3 DEF Right, Waiting
    <3> QED
      BY <3>3, <3>4
  <2>8. \A q \in Uploads : Right(q)'
    BY <1>0, <2>5, <2>7, OthersKept
  <2>9. CountMove
    <3>1. IsCounted(u)' <=> IsCounted(u)
      BY <1>0, <1>1, <2>6 DEF IsCounted, CountedOff
    <3> QED
      BY <1>1, <2>5, <3>1, CountKept
  <2>10. OwedMove
    <3>1. CbOwes(u) = 0 /\ CbOwes(u)' = 1
      BY <1>0, <2>6 DEF CbOwes
    <3>2. Balance(u)' = Balance(u)
      BY <1>0, <2>1, <2>2, <3>1, BalanceTold
    <3> QED
      BY <1>3, <2>5, <3>2, OwedKept
  <2> QED
    BY <1>3, <2>4, <2>8, <2>9, <2>10 DEF Kept, Sums
<1> QED
  BY <1>4, <1>5

\* A timer of cb() that is pending belongs to an upload that was sent.
LEMMA LookKept ==
  ASSUME OptionAssumption, IInv, NEW u \in Uploads, Look(u) \/ TimedOut(u)
  PROVE  Kept /\ Sums
<1>0. Typed /\ Right(u) /\ Idle /\ calls = <<>> /\ (\/ "look" \in timers[u] \/ "timeout" \in timers[u])
  BY DEF IInv, Look, TimedOut, Idle
<1>1. stage[u] = "sent"
  BY <1>0 DEF Right, NotSent
<1>2. CASE \E left : GiveUp(u, left) /\ ~Ended(u) /\ (Timeout \/ "foreign" \in Answers)
  BY <1>0, <1>1, <1>2, GiveUpKept
<1>3. ASSUME NEW left \in {{"look"}, {"timeout"}, {"look", "timeout"}},
             timers' = [timers EXCEPT ![u] = @ \ left],
             UNCHANGED <<stage, frame, loads, aborted, heard, processed, promise, handling,
                         calls, called, aborts, active, form>>
      PROVE  Kept /\ Sums
  <2>1. /\ timers' \in [Uploads -> SUBSET {"submit", "timeout", "look", "remove"}]
        /\ timers'[u] = timers[u] \ left /\ frame' \in [Uploads -> Pages] /\ loads' \in [Uploads -> BOOLEAN]
        /\ \A q \in Uploads \ {u} : frame'[q] = frame[q] /\ loads'[q] = loads[q] /\ timers'[q] = timers[q]
    BY <1>0, <1>3 DEF Typed
  <2>2. NotSent(u)' /\ Placed(u)'
    BY <1>0, <1>1, <1>3, <2>1 DEF Right, NotSent, Placed
  <2> QED
    BY <1>0, <1>3, <2>1, <2>2, FrameStep
<1>4. CASE Look(u)
  <2>1. ~CanLook(u) /\ ~Ended(u) => "foreign" \in Answers
    BY <1>0, <1>1 DEF Right, Placed, CanLook, Ended
  <2> QED
    BY <1>2, <1>3, <1>4, <2>1 DEF Look
<1>5. CASE TimedOut(u)
  <2>1. Timeout
    BY <1>0, <1>1, <1>5 DEF Right, Placed, TimedOut
  <2> QED
    BY <1>2, <1>3, <1>5, <2>1 DEF TimedOut
<1> QED
  BY <1>4, <1>5

LEMMA AnswerHeardKept ==
  ASSUME OptionAssumption, IInv, NEW u \in Uploads, AnswerHeard(u)
  PROVE  Kept /\ Sums
<1>0. Typed /\ StackRight /\ (\A q \in Uploads : Right(q)) /\ Right(u) /\ Idle /\ calls = <<>> /\ loads[u]
      /\ handling[u] = "no" /\ frame[u] \in Answers
  BY DEF IInv, AnswerHeard, Idle
<1>1. stage[u] = "sent"
  BY <1>0 DEF Right, NotSent
<1>2. CASE ~heard[u] \/ Ended(u)
  <2>1. /\ loads' = [loads EXCEPT ![u] = FALSE]
        /\ UNCHANGED <<stage, frame, timers, aborted, heard, processed, promise, handling,
                       calls, called, aborts, active, form>>
    BY <1>2 DEF AnswerHeard
  <2>2. /\ timers' \in [Uploads -> SUBSET {"submit", "timeout", "look", "remove"}]
        /\ frame' \in [Uploads -> Pages] /\ loads' \in [Uploads -> BOOLEAN]
        /\ \A q \in Uploads \ {u} : frame'[q] = frame[q] /\ loads'[q] = loads[q] /\ timers'[q] = timers[q]
    BY <1>0, <2>1 DEF Typed
  <2>3. NotSent(u)' /\ Placed(u)'
    BY <1>0, <1>1, <2>1 DEF Right, NotSent, Placed
  <2> QED
    BY <1>0, <2>1, <2>2, <2>3, FrameStep
<1>3. CASE heard[u] /\ ~Ended(u) /\ frame[u] = "foreign"
  <2>1. GiveUp(u, {}) /\ "foreign" \in Answers
    BY <1>0, <1>3 DEF AnswerHeard
  <2> QED
    BY <1>0, <1>1, <1>3, <2>1, GiveUpKept
<1>4. CASE heard[u] /\ ~Ended(u) /\ frame[u] # "foreign"
  <2>1. PICK c \in {"success", "error"} : c = IF frame[u] = "good" THEN "success" ELSE "error"
    OBVIOUS
  <2>2. /\ heard' = [heard EXCEPT ![u] = FALSE] /\ loads' = [loads EXCEPT ![u] = FALSE]
        /\ Tell(u, c) /\ handling' = [handling EXCEPT ![u] = c]
        /\ UNCHANGED <<stage, frame, timers, aborted, processed, promise, calls, aborts, active, form>>
    BY <1>4, <2>1 DEF AnswerHeard, Process, Handle
  <2>3. c \in Callbacks /\ c # "complete" /\ "success" \in Callbacks /\ c \in Answering
    BY DEF Callbacks, Answering
  <2>4. /\ called' \in [Uploads -> [Callbacks -> Nat]]
        /\ called'[u]["success"] = IF c = "success" THEN called[u]["success"] + 1 ELSE called[u]["success"]
        /\ \A q \in Uploads \ {u} : called'[q] = called[q]
        /\ Told(u) \in Nat /\ Told(u)' = Told(u) + 1
    BY <1>0, <2>2, <2>3, TellFacts
  <2>5. Typed'
    BY <1>0, <2>2, <2>3, <2>4 DEF Typed
  <2>6. Moves(u)
    BY <1>0, <2>2, <2>4 DEF Typed, Moves
  <2>7. handling'[u] = c /\ heard'[u] = FALSE /\ loads'[u] = FALSE
    BY <1>0, <2>2 DEF Typed
  <2>8. Right(u)'
    <3>1. Told(u) = 0 /\ aborts[u] = 0 /\ Own(u) = 0 /\ promise[u] = "pending" /\ called[u]["success"] = 0
      BY <1>0, <1>1, <1>4 DEF Right, Waiting, Ended, Own
    <3>2. Own(u)' = 1
      BY <2>2, <2>4, <3>1 DEF Own
    <3>3. ~processed[u] /\ frame[u] # "waiting"
      BY <1>0, <1>4 DEF Ended, OptionAssumption
    <3>4. NotSent(u)' /\ Blamed(u)' /\ Placed(u)'
      BY <1>0, <1>1, <1>4, <2>2, <2>7, <3>3 DEF Right, NotSent, Placed, Blamed
    <3>5. Waiting(u)'
      BY <2>7 DEF Waiting
    <3>6. called'[u]["success"] = IF c = "success" THEN 1 ELSE 0
      BY <2>4, <3>1
    <3>7. Answered(u)'
      BY <2>2, <2>3, <2>7, <3>1, <3>2, <3>6 DEF Answered, GivingUp
    <3> QED
      BY <3>4, <3>5, <3>7 DEF Right
  <2>9. \A q \in Uploads : Right(q)'
    BY <1>0, <2>6, <2>8, OthersKept
  <2>10. StackRight' /\ \A q \in Uploads : Owed(q)' = Owed(q)
    BY <1>0, <2>2, StackQuiet
  <2>11. CountMove
    <3>1. IsCounted(u)' <=> IsCounted(u)
      BY <1>0, <2>2, <2>7 DEF IsCounted, CountedOff
    <3> QED
      BY <2>2, <2>6, <3>1, CountKept
  <2>12. OwedMove
    <3>1. CbOwes(u) = 0 /\ CbOwes(u)' = 1
      BY <1>0, <2>7 DEF CbOwes
    <3>2. Balance(u)' = Balance(u)
      BY <1>0, <2>2, <2>3, <3>1, BalanceTold
    <3> QED
      BY <2>6, <2>10, <3>2, OwedKept
  <2> QED
    BY <2>5, <2>9, <2>10, <2>11, <2>12 DEF Kept, Sums
<1> QED
  BY <1>2, <1>3, <1>4

-----------------------------------------------------------------------------
(* What cb() does when a function that it has called returns. *)

LEMMA AfterOutcomeKept ==
  ASSUME OptionAssumption, IInv, NEW u \in Uploads, AfterOutcome(u)
  PROVE  Kept /\ Sums
<1>0. Typed /\ StackRight /\ (\A q \in Uploads : Right(q)) /\ Right(u) /\ calls = <<>>
  BY DEF IInv, AfterOutcome, Returns
<1>1. PICK s \in {"resolved", "rejected"} :
         /\ handling[u] = IF s = "resolved" THEN "success" ELSE "error"
         /\ promise' = [promise EXCEPT ![u] = IF @ = "pending" THEN s ELSE @]
  BY DEF AfterOutcome, Returns, Settle
<1>2. /\ handling' = [handling EXCEPT ![u] = "settled"]
      /\ UNCHANGED <<stage, frame, loads, timers, aborted, heard, processed, calls, called, aborts,
                     active, form>>
  BY DEF AfterOutcome, Handle
<1>3. stage[u] = "sent" /\ ~heard[u] /\ ~processed[u]
  BY <1>0, <1>1 DEF Right, NotSent, Waiting, Placed, Answering
<1>4. Typed'
  <2>1. promise' \in [Uploads -> {"pending", "resolved", "rejected"}]
    BY <1>0, <1>1 DEF Typed
  <2>2. handling' \in [Uploads -> {"no"} \cup Answering \cup GivingUp]
    BY <1>0, <1>2 DEF Typed, Answering
  <2> QED
    BY <1>0, <1>2, <2>1, <2>2 DEF Typed
<1>5. Moves(u)
  BY <1>0, <1>1, <1>2 DEF Typed, Moves
<1>6. /\ handling'[u] = "settled"
      /\ promise'[u] = IF promise[u] = "pending" THEN s ELSE promise[u]
  BY <1>0, <1>1, <1>2 DEF Typed
<1>7. Right(u)'
  <2>1. Told(u)' = Told(u) /\ Own(u)' = Own(u)
    BY <1>2 DEF Told, Own
  <2>2. NotSent(u)' /\ Blamed(u)' /\ Placed(u)' /\ Waiting(u)'
    BY <1>0, <1>2, <1>3 DEF Right, NotSent, Placed, Blamed, Waiting
  <2>3. Answered(u)
    BY <1>0 DEF Right
  <2>4. called'[u]["success"] = called[u]["success"] /\ "settled" \in Answering /\ "settled" \notin GivingUp
    BY <1>2 DEF Answering, GivingUp
  <2>5. ~MayThrow => promise'[u] = IF called[u]["success"] = 1 THEN "resolved" ELSE "rejected"
    BY <1>1, <1>3, <1>6, <2>3 DEF Answered
  <2>6. Answered(u)'
    BY <1>2, <1>3, <1>6, <2>1, <2>3, <2>4, <2>5 DEF Answered
  <2> QED
    BY <2>2, <2>6 DEF Right
<1>8. \A q \in Uploads : Right(q)'
  BY <1>0, <1>5, <1>7, OthersKept
<1>9. StackRight' /\ \A q \in Uploads : Owed(q)' = Owed(q)
  BY <1>0, <1>2, StackQuiet
<1>10. CountMove
  <2>1. IsCounted(u)' <=> IsCounted(u)
    BY <1>1, <1>2, <1>6 DEF IsCounted, CountedOff
  <2> QED
    BY <1>2, <1>5, <2>1, CountKept
<1>11. OwedMove
  <2>1. CbOwes(u) = 1 /\ CbOwes(u)' = 1
    BY <1>1, <1>6 DEF CbOwes
  <2>2. Balance(u)' = Balance(u)
    BY <1>2, <2>1, BalanceUntold
  <2> QED
    BY <1>5, <1>9, <2>2, OwedKept
<1> QED
  BY <1>4, <1>8, <1>9, <1>10, <1>11 DEF Kept, Sums

\* complete is told, or nobody: what was told of the outcome stays.
LEMMA CompleteTold ==
  ASSUME Typed, NEW u \in Uploads, Tell(u, "complete") \/ called' = called
  PROVE  /\ called' \in [Uploads -> [Callbacks -> Nat]]
         /\ called'[u]["success"] = called[u]["success"]
         /\ Told(u)' = Told(u)
         /\ \A q \in Uploads \ {u} : called'[q] = called[q]
<1>1. "complete" \in Callbacks /\ "success" \in Callbacks
  BY DEF Callbacks
<1>2. CASE Tell(u, "complete")
  BY <1>1, <1>2, TellFacts
<1>3. CASE called' = called
  BY <1>3 DEF Told, Typed
<1> QED
  BY <1>2, <1>3

\* From the listeners of an answer to its end: ajaxStop, complete
LEMMA CountingOff ==
  ASSUME OptionAssumption, IInv, NEW u \in Uploads, calls = <<>>,
         handling[u] \in {"settled", "stop"}, NEW h \in {"stop", "last"},
         handling' = [handling EXCEPT ![u] = h],
         \/ h = "stop" /\ handling[u] = "settled" /\ called' = called
         \/ h = "last" /\ Tell(u, "complete"),
         UNCHANGED <<stage, frame, loads, timers, aborted, heard, processed, promise, calls, aborts, form>>,
         active' = IF handling[u] = "settled" THEN active - 1 ELSE active
  PROVE  Kept /\ Sums
<1>0. Typed /\ StackRight /\ (\A q \in Uploads : Right(q)) /\ Right(u)
  BY DEF IInv
<1>1. handling[u] \in Answering /\ h \in Answering /\ h \notin GivingUp /\ h # "no"
  BY DEF Answering, GivingUp
<1>2. stage[u] = "sent" /\ ~heard[u] /\ ~processed[u]
  BY <1>0, <1>1 DEF Right, NotSent, Waiting, Placed, Answering
<1>3. /\ called' \in [Uploads -> [Callbacks -> Nat]]
      /\ called'[u]["success"] = called[u]["success"]
      /\ Told(u)' = Told(u)
      /\ \A q \in Uploads \ {u} : called'[q] = called[q]
  BY <1>0, CompleteTold
<1>4. handling' \in [Uploads -> {"no"} \cup Answering \cup GivingUp] /\ handling'[u] = h
  BY <1>0, <1>1 DEF Typed
<1>5. active' \in Int
  BY <1>0 DEF Typed
<1>6. Typed' /\ Moves(u)
  BY <1>0, <1>3, <1>4, <1>5 DEF Typed, Moves
<1>7. Right(u)'
  <2>1. Own(u)' = Own(u)
    BY <1>3 DEF Own
  <2>2. NotSent(u)' /\ Blamed(u)' /\ Placed(u)' /\ Waiting(u)'
    BY <1>0, <1>2 DEF Right, NotSent, Placed, Blamed, Waiting
  <2>3. Answered(u)'
    BY <1>0, <1>1, <1>2, <1>3, <1>4, <2>1 DEF Right, Answered
  <2> QED
    BY <2>2, <2>3 DEF Right
<1>8. \A q \in Uploads : Right(q)'
  BY <1>0, <1>6, <1>7, OthersKept
<1>9. StackRight' /\ \A q \in Uploads : Owed(q)' = Owed(q)
  BY <1>0, StackQuiet
<1>10. CountMove
  <2>1. ~IsCounted(u)'
    BY <1>4 DEF IsCounted, CountedOff
  <2>2. CASE handling[u] = "settled"
    <3>1. IsCounted(u) /\ active' = active - 1
      BY <1>2, <2>2 DEF IsCounted, CountedOff
    <3> QED
      BY <1>6, <2>1, <3>1, CountDown
  <2>3. CASE handling[u] = "stop"
    <3>1. ~IsCounted(u) /\ active' = active
      BY <2>3 DEF IsCounted, CountedOff
    <3> QED
      BY <1>6, <2>1, <3>1, CountKept
  <2> QED
    BY <2>2, <2>3
<1>11. OwedMove
  <2>1. CbOwes(u) = 1 /\ CbOwes(u)' = (IF h = "stop" THEN 1 ELSE 0)
    BY <1>4 DEF CbOwes
  <2>2. Balance(u)' = Balance(u)
    <3>1. CASE h = "stop" /\ called' = called
      BY <2>1, <3>1, BalanceUntold
    <3>2. CASE h = "last" /\ Tell(u, "complete")
      <4>1. "complete" \in Callbacks /\ CbOwes(u)' = 0
        BY <2>1, <3>2 DEF Callbacks
      <4> QED
        BY <1>0, <2>1, <3>2, <4>1, BalanceTold
    <3> QED
      BY <3>1, <3>2
  <2> QED
    BY <1>6, <1>9, <2>2, OwedKept
<1> QED
  BY <1>6, <1>8, <1>9, <1>10, <1>11 DEF Kept, Sums

LEMMA AfterSettledKept ==
  ASSUME OptionAssumption, IInv, NEW u \in Uploads, AfterSettled(u) \/ AfterStop(u)
  PROVE  Kept /\ Sums
<1>1. CASE AfterSettled(u)
  <2>1. /\ calls = <<>> /\ handling[u] = "settled" /\ active' = active - 1
        /\ UNCHANGED <<stage, frame, loads, timers, aborted, heard, processed, promise, calls, aborts, form>>
        /\ \/ handling' = [handling EXCEPT ![u] = "stop"] /\ called' = called
           \/ handling' = [handling EXCEPT ![u] = "last"] /\ Tell(u, "complete")
    BY <1>1 DEF AfterSettled, Returns, ActiveAfter, Handle
  <2> QED
    BY <2>1, CountingOff
<1>2. CASE AfterStop(u)
  <2>1. /\ calls = <<>> /\ handling[u] = "stop" /\ active' = active
        /\ UNCHANGED <<stage, frame, loads, timers, aborted, heard, processed, promise, calls, aborts, form>>
        /\ handling' = [handling EXCEPT ![u] = "last"] /\ Tell(u, "complete")
    BY <1>2 DEF AfterStop, Returns, Handle
  <2> QED
    BY <2>1, CountingOff
<1> QED
  BY <1>1, <1>2

LEMMA AfterLastKept ==
  ASSUME OptionAssumption, IInv, NEW u \in Uploads, AfterLast(u)
  PROVE  Kept /\ Sums
<1>0. Typed /\ StackRight /\ (\A q \in Uploads : Right(q)) /\ Right(u) /\ calls = <<>>
      /\ handling[u] = "last" /\ handling[u] \in Answering
  BY DEF IInv, AfterLast, Returns, Answering
<1>1. /\ handling' = [handling EXCEPT ![u] = "no"] /\ processed' = [processed EXCEPT ![u] = TRUE]
      /\ timers' = [timers EXCEPT ![u] = TimersAfterAnswer(u)]
      /\ UNCHANGED <<stage, frame, loads, aborted, heard, promise, calls, called, aborts, active, form>>
  BY DEF AfterLast, Handle
<1>2. stage[u] = "sent" /\ ~heard[u] /\ ~processed[u]
  BY <1>0 DEF Right, NotSent, Waiting, Placed, Answering
<1>3. Typed'
  <2>1. timers' \in [Uploads -> SUBSET {"submit", "timeout", "look", "remove"}]
    <3>1. TimersAfterAnswer(u) \in SUBSET {"submit", "timeout", "look", "remove"}
      BY <1>0 DEF Typed, TimersAfterAnswer
    <3> QED
      BY <1>0, <1>1, <3>1 DEF Typed
  <2>2. handling' \in [Uploads -> {"no"} \cup Answering \cup GivingUp] /\ processed' \in [Uploads -> BOOLEAN]
    BY <1>0, <1>1 DEF Typed
  <2> QED
    BY <1>0, <1>1, <2>1, <2>2 DEF Typed
<1>4. Moves(u)
  BY <1>0, <1>1 DEF Typed, Moves
<1>5. /\ handling'[u] = "no" /\ processed'[u] = TRUE
      /\ timers'[u] = (timers[u] \ {"timeout"}) \cup {"remove"}
  BY <1>0, <1>1 DEF Typed, TimersAfterAnswer
<1>6. Right(u)'
  <2>1. Told(u)' = Told(u) /\ Own(u)' = Own(u)
    BY <1>1 DEF Told, Own
  <2>2. NotSent(u)' /\ Blamed(u)' /\ Waiting(u)'
    BY <1>0, <1>1, <1>2 DEF Right, NotSent, Blamed, Waiting
  <2>3. Placed(u)'
    BY <1>0, <1>1, <1>2, <1>5 DEF Right, Placed
  <2>4. Answered(u)'
    BY <1>0, <1>1, <1>2, <1>5, <2>1 DEF Right, Answered, GivingUp
  <2> QED
    BY <2>2, <2>3, <2>4 DEF Right
<1>7. \A q \in Uploads : Right(q)'
  BY <1>0, <1>4, <1>6, OthersKept
<1>8. StackRight' /\ \A q \in Uploads : Owed(q)' = Owed(q)
  BY <1>0, <1>1, StackQuiet
<1>9. CountMove
  <2>1. ~IsCounted(u) /\ ~IsCounted(u)'
    BY <1>0, <1>5 DEF IsCounted, CountedOff
  <2> QED
    BY <1>1, <1>4, <2>1, CountKept
<1>10. OwedMove
  <2>1. CbOwes(u) = 0 /\ CbOwes(u)' = 0
    BY <1>0, <1>5 DEF CbOwes
  <2>2. Balance(u)' = Balance(u)
    BY <1>1, <2>1, BalanceUntold
  <2> QED
    BY <1>4, <1>8, <2>2, OwedKept
<1> QED
  BY <1>3, <1>7, <1>8, <1>9, <1>10 DEF Kept, Sums

LEMMA AfterGiveUpKept ==
  ASSUME OptionAssumption, IInv, NEW u \in Uploads, AfterGiveUp(u)
  PROVE  Kept /\ Sums
<1>0. Typed /\ StackRight /\ (\A q \in Uploads : Right(q)) /\ Right(u) /\ calls = <<>>
      /\ handling[u] \in GivingUp /\ handling[u] \notin Answering
  BY DEF IInv, AfterGiveUp, Returns, GivingUp, Answering
<1>1. PICK h \in {"no", "gaveUp", "told"} :
         /\ handling' = [handling EXCEPT ![u] = h]
         /\ h = "gaveUp" => handling[u] = "giveUp"
         /\ h = "told" => handling[u] = "gaveUp" /\ Settle(u, "rejected")
         /\ h # "told" => promise' = promise
         /\ h = "no" => handling[u] = "told"
         /\ IF h = "gaveUp" THEN Tell(u, "complete") ELSE called' = called
  BY DEF AfterGiveUp, Returns, Handle
<1>2. UNCHANGED <<stage, frame, loads, timers, aborted, heard, processed, calls, aborts, active, form>>
  BY DEF AfterGiveUp
<1>3. stage[u] = "sent" /\ ~processed[u]
  BY <1>0 DEF Right, NotSent, Placed, GivingUp
<1>4. /\ called' \in [Uploads -> [Callbacks -> Nat]]
      /\ called'[u]["success"] = called[u]["success"]
      /\ Told(u)' = Told(u)
      /\ \A q \in Uploads \ {u} : called'[q] = called[q]
  <2>1. Tell(u, "complete") \/ called' = called
    BY <1>1
  <2> QED
    BY <1>0, <2>1, CompleteTold
<1>5. /\ handling' \in [Uploads -> {"no"} \cup Answering \cup GivingUp] /\ handling'[u] = h
      /\ promise' \in [Uploads -> {"pending", "resolved", "rejected"}]
      /\ \A q \in Uploads \ {u} : promise'[q] = promise[q]
      /\ promise'[u] = IF h = "told" /\ promise[u] = "pending" THEN "rejected" ELSE promise[u]
  BY <1>0, <1>1 DEF Typed, Settle, GivingUp
<1>6. Typed' /\ Moves(u)
  BY <1>0, <1>1, <1>2, <1>4, <1>5 DEF Typed, Moves
<1>7. Right(u)'
  <2>1. Own(u)' = Own(u)
    BY <1>2, <1>4 DEF Own
  <2>2. h \notin Answering
    BY DEF Answering
  <2>3. NotSent(u)' /\ Blamed(u)' /\ Placed(u)'
    BY <1>0, <1>2, <1>3 DEF Right, NotSent, Placed, Blamed
  <2>4. Waiting(u)'
    <3>1. SUFFICES ASSUME heard[u] PROVE Waiting(u)'
      BY <1>2 DEF Waiting
    <3>2. /\ called[u]["success"] = 0 /\ Own(u) = 1 /\ aborted[u]
          /\ ~MayThrow => \/ promise[u] = "rejected"
                          \/ promise[u] = "pending" /\ handling[u] \in {"giveUp", "gaveUp"}
      BY <1>0, <1>3, <3>1 DEF Right, Waiting, GivingUp, Own
    <3>3. ~MayThrow => promise'[u] = "rejected" \/ (promise'[u] = "pending" /\ h \in {"giveUp", "gaveUp"})
      BY <1>1, <1>5, <3>2
    <3> QED
      BY <1>2, <1>4, <1>5, <2>1, <2>2, <3>2, <3>3 DEF Waiting
  <2>5. Answered(u)'
    <3>1. SUFFICES ASSUME ~heard[u] PROVE Answered(u)'
      BY <1>2 DEF Answered
    <3>2. /\ MayThrow /\ (called[u]["success"] = 0 \/ called[u]["success"] = 1)
          /\ Own(u) = 1 \/ (Own(u) = 2 /\ aborted[u] /\ MayThrow)
      BY <1>0, <1>3, <3>1 DEF Right, Answered
    <3> QED
      BY <1>2, <1>4, <1>5, <2>1, <3>2 DEF Answered
  <2> QED
    BY <2>3, <2>4, <2>5 DEF Right
<1>8. \A q \in Uploads : Right(q)'
  BY <1>0, <1>6, <1>7, OthersKept
<1>9. StackRight' /\ \A q \in Uploads : Owed(q)' = Owed(q)
  BY <1>0, <1>2, StackQuiet
<1>10. CountMove
  <2>1. IsCounted(u)' <=> IsCounted(u)
    BY <1>0, <1>2, <1>5 DEF IsCounted, CountedOff, GivingUp
  <2> QED
    BY <1>2, <1>6, <2>1, CountKept
<1>11. OwedMove
  <2>1. CASE h = "gaveUp"
    <3>1. CbOwes(u) = 1 /\ CbOwes(u)' = 0 /\ "complete" \in Callbacks
      BY <1>1, <1>5, <2>1 DEF CbOwes, Callbacks
    <3>2. Balance(u)' = Balance(u)
      BY <1>0, <1>1, <2>1, <3>1, BalanceTold
    <3> QED
      BY <1>6, <1>9, <3>2, OwedKept
  <2>2. CASE h # "gaveUp"
    <3>1. CbOwes(u) = 0 /\ CbOwes(u)' = 0 /\ called' = called
      BY <1>1, <1>5, <2>2 DEF CbOwes
    <3>2. Balance(u)' = Balance(u)
      BY <3>1, BalanceUntold
    <3> QED
      BY <1>6, <1>9, <3>2, OwedKept
  <2> QED
    BY <2>1, <2>2
<1> QED
  BY <1>6, <1>8, <1>9, <1>10, <1>11 DEF Kept, Sums

-----------------------------------------------------------------------------

LEMMA UploadsInit == ASSUME OptionAssumption, Init PROVE IInv /\ CountInv /\ OwedInv
<1>1. Typed
  <2>1. calls \in Seq(Functions)
    BY DEF Init
  <2>2. called \in [Uploads -> [Callbacks -> Nat]]
    BY DEF Init
  <2> QED
    BY <2>1, <2>2 DEF Init, Typed, Stages, Pages
<1>2. Len(calls) = 0
  BY DEF Init
<1>3. StackRight
  BY <1>2 DEF StackRight
<1>4. ASSUME NEW u \in Uploads PROVE Right(u)
  BY DEF Init, Right, NotSent, Placed, Waiting, Answered, Blamed
<1>5. CountInv
  <2>1. Counted = {}
    BY DEF Init, Counted, IsCounted
  <2> QED
    BY <2>1, FS_EmptySet DEF CountInv, Init
<1>6. OwedInv
  <2> SUFFICES ASSUME NEW u \in Uploads
               PROVE  IsFiniteSet(Owed(u)) /\ Cardinality(Owed(u)) + Balance(u) = 0
    BY DEF OwedInv
  <2>1. Owed(u) = {}
    BY <1>2 DEF Owed
  <2>2. Balance(u) = 0
    BY DEF Init, Balance, CbOwes, Told, Callbacks
  <2> QED
    BY <2>1, <2>2, FS_EmptySet
<1> QED
  BY <1>1, <1>3, <1>4, <1>5, <1>6 DEF IInv

LEMMA UploadStep ==
  ASSUME OptionAssumption, IInv, [Next]_vars
  PROVE  IInv' /\ (~MayThrow => CountMove /\ OwedMove)
<1>1. ASSUME Kept /\ (~MayThrow => Sums) PROVE IInv' /\ (~MayThrow => CountMove /\ OwedMove)
  BY <1>1 DEF Kept, Sums, IInv
<1>2. CASE \E u \in Uploads : Begin(u) \/ CallerAborts(u) \/ Timer(u)
  BY <1>1, <1>2, BeginKept, CallerAbortsKept, DoSubmitKept, LookKept, RemoveFrameKept DEF Timer
<1>3. CASE \E u \in Uploads : BlankLoads(u) \/ AnswerLoads(u) \/ AnswerHeard(u)
  BY <1>1, <1>3, LoadsKept, AnswerHeardKept
<1>4. CASE \E u \in Uploads : CbGoesOn(u)
  BY <1>1, <1>4, AfterOutcomeKept, AfterSettledKept, AfterLastKept, AfterGiveUpKept DEF CbGoesOn
<1>5. CASE CallReturns
  BY <1>1, <1>5, AfterStartKept, AfterSendKept, AfterErrorKept, AfterCompleteKept DEF CallReturns
<1>6. CASE Throw
  BY <1>1, <1>6, ThrowKept DEF Throw
<1>7. CASE UNCHANGED vars
  <2>1. /\ stage' = stage /\ frame' = frame /\ loads' = loads /\ timers' = timers
        /\ aborted' = aborted /\ heard' = heard /\ processed' = processed /\ promise' = promise
        /\ handling' = handling /\ calls' = calls /\ called' = called /\ aborts' = aborts
        /\ active' = active /\ form' = form
    BY <1>7 DEF vars
  <2>2. Typed' /\ StackRight'
    BY <2>1 DEF IInv, Typed, StackRight
  <2>3. ASSUME NEW u \in Uploads PROVE Right(u)'
    <3>1. Right(u) /\ Own(u)' = Own(u) /\ Told(u)' = Told(u)
      BY <2>1 DEF IInv, Own, Told
    <3> QED
      BY <2>1, <3>1 DEF Right, NotSent, Placed, Waiting, Answered, Blamed
  <2>4. CountMove
    BY <2>1 DEF CountMove, Counted, IsCounted, CountedOff
  <2>5. OwedMove
    BY <2>1 DEF OwedMove, OwedSame, Owed, Balance, CbOwes, Told
  <2> QED
    BY <2>2, <2>3, <2>4, <2>5 DEF IInv
<1> QED
  BY <1>2, <1>3, <1>4, <1>5, <1>6, <1>7 DEF Next

\* The stage of every upload agrees with its frame, its timers, its promise and what
\* was told of it, whatever the functions of the page do in between.
THEOREM UploadInvariant == OptionAssumption => (Spec => []IInv)
<1> SUFFICES ASSUME OptionAssumption PROVE Spec => []IInv
  OBVIOUS
<1>1. Init => IInv
  BY UploadsInit
<1>2. IInv /\ [Next]_vars => IInv'
  BY UploadStep
<1> QED
  BY <1>1, <1>2, PTL DEF Spec

\* With functions that do not throw, jQuery.active is the number of uploads that are
\* neither refused nor processed, and every outcome has its complete, told or due.
THEOREM UploadSums == OptionAssumption /\ ~MayThrow => (Spec => [](IInv /\ CountInv /\ OwedInv))
<1> SUFFICES ASSUME OptionAssumption, ~MayThrow PROVE Spec => [](IInv /\ CountInv /\ OwedInv)
  OBVIOUS
<1>1. Init => IInv /\ CountInv /\ OwedInv
  BY UploadsInit
<1>2. IInv /\ CountInv /\ OwedInv /\ [Next]_vars => (IInv /\ CountInv /\ OwedInv)'
  <2> SUFFICES ASSUME IInv, CountInv, OwedInv, [Next]_vars PROVE IInv' /\ CountInv' /\ OwedInv'
    OBVIOUS
  <2>1. IInv' /\ CountMove /\ OwedMove /\ Typed
    BY UploadStep DEF IInv
  <2> QED
    BY <2>1, CountStep, OwedStep
<1> QED
  BY <1>1, <1>2, PTL DEF Spec

\* An upload whose answer, timeout, look at the frame and aborts race, also in the
\* functions that are called, is told of one outcome by cb(), besides one for each
\* of the page's aborts, and of complete as often (fileUploadIframe).
THEOREM UploadEndsOnce == OptionAssumption /\ ~MayThrow => (Spec => []OneOutcome)
<1> SUFFICES ASSUME OptionAssumption, ~MayThrow PROVE Spec => []OneOutcome
  OBVIOUS
<1>1. IInv /\ OwedInv => OneOutcome
  <2> SUFFICES ASSUME IInv, OwedInv, NEW u \in Uploads
               PROVE  /\ Own(u) \in 0 .. 1
                      /\ Idle => /\ called[u]["complete"] = Told(u)
                                 /\ processed[u] => Own(u) = 1
                                 /\ ~Ended(u) => Told(u) = 0
    BY DEF OneOutcome, Own
  <2>1. Typed /\ Right(u)
    BY DEF IInv
  <2>2. stage[u] # "sent" => Told(u) = 0 /\ aborts[u] = 0 /\ ~processed[u]
    BY <2>1 DEF Right, NotSent, Told, Callbacks
  <2>3. Own(u) \in 0 .. 1
    BY <2>1, <2>2 DEF Right, Waiting, Answered, Own
  <2>4. ASSUME Idle PROVE called[u]["complete"] = Told(u)
    <3>1. Owed(u) = {} /\ CbOwes(u) = 0
      BY <2>4 DEF Idle, Owed, CbOwes
    <3>2. Cardinality(Owed(u)) = 0 /\ Cardinality(Owed(u)) + Balance(u) = 0
      BY <3>1, FS_EmptySet DEF OwedInv
    <3>3. called[u]["complete"] \in Nat /\ Told(u) \in Nat
      BY <2>1, Counts DEF Callbacks
    <3> QED
      BY <3>1, <3>2, <3>3 DEF Balance
  <2>5. processed[u] => Own(u) = 1
    BY <2>1, <2>2 DEF Right, Placed, Answered
  <2>6. Idle /\ ~Ended(u) => Told(u) = 0
    BY <2>1, <2>2 DEF Right, Waiting, Answered, Idle, Ended, Answering
  <2> QED
    BY <2>3, <2>4, <2>5, <2>6
<1> QED
  BY <1>1, UploadSums, PTL

\* Functions that throw may cost an upload a second outcome, which is an abort by
\* the timeout; but no third one, and no answer is told twice (650 is not reached).
THEOREM UploadAnsweredOnce == OptionAssumption => (Spec => []AnsweredOnce)
<1> SUFFICES ASSUME OptionAssumption PROVE Spec => []AnsweredOnce
  OBVIOUS
<1>1. IInv => AnsweredOnce
  <2> SUFFICES ASSUME IInv, NEW u \in Uploads
               PROVE  /\ called[u]["success"] <= 1
                      /\ Own(u) \in 0 .. 2
                      /\ Own(u) = 2 => aborted[u]
    BY DEF AnsweredOnce, Own
  <2>1. Typed /\ Right(u)
    BY DEF IInv
  <2>2. CASE stage[u] # "sent"
    BY <2>1, <2>2 DEF Right, NotSent, Own, Told, Callbacks
  <2>3. CASE stage[u] = "sent"
    BY <2>1, <2>3 DEF Right, Waiting, Answered
  <2> QED
    BY <2>2, <2>3
<1> QED
  BY <1>1, UploadInvariant, PTL

\* Whatever comes late for an upload that has ended, its answer, its timeout or a
\* look at its frame, is told to nobody; only the page's own aborts are.
THEOREM UploadNeverEndsTwice == OptionAssumption => (Spec => NothingAfterEnd)
<1> SUFFICES ASSUME OptionAssumption PROVE Spec => NothingAfterEnd
  OBVIOUS
<1>1. IInv /\ [Next]_vars =>
         [\A u \in Uploads : Idle /\ Ended(u) /\ aborts'[u] = aborts[u]
                             => called'[u] = called[u] /\ promise'[u] = promise[u]]_vars
  <2> SUFFICES ASSUME IInv, Next, NEW u \in Uploads, Idle, Ended(u), aborts'[u] = aborts[u]
               PROVE  called'[u] = called[u] /\ promise'[u] = promise[u]
    BY DEF vars
  <2>1. Typed /\ calls = <<>> /\ \A q \in Uploads : handling[q] = "no"
    BY DEF IInv, Idle
  <2>2. ASSUME NEW q \in Uploads, q # u, NEW c \in Callbacks, Tell(q, c) PROVE called'[u] = called[u]
    BY <2>1, <2>2, TellFacts
  <2>3. {"success", "error"} \subseteq Callbacks
    BY DEF Callbacks
  <2>4. ASSUME NEW q \in Uploads, NEW left, GiveUp(q, left), ~Ended(q)
        PROVE  called'[u] = called[u] /\ promise'[u] = promise[u]
    BY <2>2, <2>3, <2>4 DEF GiveUp, BlankAndTell
  <2>5. ASSUME NEW q \in Uploads, Begin(q) \/ DoSubmit(q) \/ RemoveFrame(q) \/ BlankLoads(q) \/ AnswerLoads(q)
        PROVE  called'[u] = called[u] /\ promise'[u] = promise[u]
    BY <2>5 DEF Begin, DoSubmit, RemoveFrame, BlankLoads, AnswerLoads
  <2>6. ASSUME NEW q \in Uploads, Look(q) \/ TimedOut(q)
        PROVE  called'[u] = called[u] /\ promise'[u] = promise[u]
    BY <2>4, <2>6 DEF Look, TimedOut
  <2>7. ASSUME NEW q \in Uploads, AnswerHeard(q)
        PROVE  called'[u] = called[u] /\ promise'[u] = promise[u]
    <3>1. CASE ~heard[q] \/ Ended(q)
      BY <2>7, <3>1 DEF AnswerHeard
    <3>2. CASE heard[q] /\ ~Ended(q) /\ frame[q] = "foreign"
      BY <2>4, <2>7, <3>2 DEF AnswerHeard
    <3>3. CASE heard[q] /\ ~Ended(q) /\ frame[q] # "foreign"
      <4>1. q # u /\ promise' = promise /\ (Tell(q, "success") \/ Tell(q, "error"))
        BY <2>7, <3>3 DEF AnswerHeard, Process
      <4> QED
        BY <2>2, <2>3, <4>1
    <3> QED
      BY <3>1, <3>2, <3>3
  <2>8. ASSUME NEW q \in Uploads, CallerAborts(q)
        PROVE  called'[u] = called[u] /\ promise'[u] = promise[u]
    <3>1. promise' = promise
      BY <2>8 DEF CallerAborts
    <3>2. CASE ~CanLook(q)
      BY <2>8, <3>1, <3>2 DEF CallerAborts
    <3>3. CASE CanLook(q)
      <4>1. Tell(q, "error") /\ aborts' = [aborts EXCEPT ![q] = @ + 1]
        BY <2>8, <3>3 DEF CallerAborts, BlankAndTell
      <4>2. q # u
        BY <2>1, <4>1 DEF Typed
      <4> QED
        BY <2>2, <2>3, <3>1, <4>1, <4>2
    <3> QED
      BY <3>2, <3>3
  <2>9. ~CallReturns /\ \A q \in Uploads : ~CbGoesOn(q)
    BY <2>1 DEF CallReturns, AfterStart, AfterSend, AfterError, AfterComplete, Running, CbGoesOn,
       AfterOutcome, AfterSettled, AfterStop, AfterLast, AfterGiveUp, Returns
  <2>10. Throw => called' = called /\ promise' = promise
    BY DEF Throw
  <2> QED
    BY <2>5, <2>6, <2>7, <2>8, <2>9, <2>10 DEF Next, Timer
<1> QED
  BY <1>1, UploadInvariant, PTL DEF Spec, NothingAfterEnd

\* The deferred object of an upload tells what cb() has told: an abort by the page
\* changes nothing about it.
THEOREM UploadPromiseAgrees == OptionAssumption /\ ~MayThrow => (Spec => []PromiseAgrees)
<1> SUFFICES ASSUME OptionAssumption, ~MayThrow PROVE Spec => []PromiseAgrees
  OBVIOUS
<1>1. IInv => PromiseAgrees
  <2> SUFFICES ASSUME IInv, NEW u \in Uploads, Idle, stage[u] = "sent"
               PROVE  /\ promise[u] = "resolved" <=> called[u]["success"] > 0
                      /\ promise[u] = "rejected" <=> called[u]["error"] > aborts[u]
    BY DEF PromiseAgrees
  <2>1. Right(u) /\ handling[u] = "no"
    BY DEF IInv, Idle
  <2>2. called[u]["success"] \in Nat /\ called[u]["error"] \in Nat /\ aborts[u] \in Nat
        /\ Own(u) = called[u]["success"] + called[u]["error"] - aborts[u]
    BY DEF IInv, Typed, Callbacks, Own, Told
  <2>3. \/ Own(u) = 0 /\ called[u]["success"] = 0 /\ promise[u] = "pending"
        \/ Own(u) = 1 /\ called[u]["success"] = 0 /\ promise[u] = "rejected"
        \/ Own(u) = 1 /\ called[u]["success"] = 1 /\ promise[u] = "resolved"
    BY <2>1 DEF Right, Waiting, Answered
  <2> QED
    BY <2>2, <2>3
<1> QED
  BY <1>1, UploadInvariant, PTL

\* jQuery.active counts the uploads under way, as long as nothing but answers
\* ends them: abort() does not take its upload off.
THEOREM UploadsAreCounted ==
  OptionAssumption /\ MaxAborts = 0 /\ ~MayThrow /\ ~Timeout /\ "foreign" \notin Answers
  => (Spec => []ActiveExact)
<1> SUFFICES ASSUME OptionAssumption, MaxAborts = 0, ~MayThrow, ~Timeout, "foreign" \notin Answers
             PROVE  Spec => []ActiveExact
  OBVIOUS
<1>1. IInv /\ CountInv => ActiveExact
  <2> SUFFICES ASSUME IInv, CountInv, Idle PROVE active = Cardinality({u \in Uploads : Under(u)})
    BY DEF ActiveExact
  <2>1. ASSUME NEW u \in Uploads PROVE IsCounted(u) <=> Under(u)
    <3>1. ~aborted[u] /\ stage[u] # "cancelled" /\ handling[u] = "no"
      BY DEF IInv, Right, Blamed, NotSent, Idle
    <3> QED
      BY <3>1 DEF IsCounted, CountedOff, Under, Ended
  <2>2. Counted = {u \in Uploads : Under(u)}
    BY <2>1 DEF Counted
  <2> QED
    BY <2>2 DEF CountInv
<1> QED
  BY <1>1, UploadSums, PTL

\* An upload that was answered and waits for nothing has left no frame behind.
THEOREM FramesAreRemoved ==
  OptionAssumption /\ MaxAborts = 0 /\ ~Timeout /\ "foreign" \notin Answers
  => (Spec => []FramesGone)
<1> SUFFICES ASSUME OptionAssumption, MaxAborts = 0, ~Timeout, "foreign" \notin Answers
             PROVE  Spec => []FramesGone
  OBVIOUS
<1>1. IInv => FramesGone
  <2> SUFFICES ASSUME IInv, NEW u \in Uploads, stage[u] = "sent", ~Under(u), "remove" \notin timers[u]
               PROVE  frame[u] = "none"
    BY DEF FramesGone
  <2>1. ~aborted[u]
    BY DEF IInv, Right, Blamed
  <2> QED
    BY <2>1 DEF IInv, Right, Placed, Under, Ended
<1> QED
  BY <1>1, UploadInvariant, PTL

\* doSubmit() leaves a form that has all its attributes as the page made it,
\* however many uploads of it overlap.
THEOREM FormIsReset == Complete => (Spec => []FormAsBefore)
<1> SUFFICES ASSUME Complete PROVE Spec => []FormAsBefore
  OBVIOUS
<1> DEFINE Unchanged == form = [a \in Attributes |-> "own"]
<1>1. Init => Unchanged
  BY DEF Init
<1>2. ASSUME Unchanged, [Next]_vars PROVE Unchanged'
  <2>1. form' = form \/ \E u \in Uploads : DoSubmit(u)
    <3>1. \A u \in Uploads : Begin(u) \/ CallerAborts(u) \/ BlankLoads(u) \/ AnswerLoads(u) => form' = form
      BY DEF Begin, CallerAborts, BlankLoads, AnswerLoads
    <3>2. \A u \in Uploads : AnswerHeard(u) \/ Look(u) \/ TimedOut(u) \/ RemoveFrame(u) => form' = form
      BY DEF AnswerHeard, Process, GiveUp, Look, TimedOut, RemoveFrame
    <3>3. \A u \in Uploads : CbGoesOn(u) => form' = form
      BY DEF CbGoesOn, AfterOutcome, AfterSettled, AfterStop, AfterLast, AfterGiveUp
    <3>4. CallReturns \/ Throw => form' = form
      BY DEF CallReturns, AfterStart, AfterSend, AfterError, AfterComplete, Throw
    <3> QED
      BY <1>2, <3>1, <3>2, <3>3, <3>4 DEF Next, Timer, vars
  <2>2. \A u \in Uploads : DoSubmit(u) => form' = form
    BY <1>2 DEF DoSubmit, Reset
  <2> QED
    BY <1>2, <2>1, <2>2
<1>3. Unchanged => FormAsBefore
  BY DEF FormAsBefore
<1> QED
  BY <1>1, <1>2, <1>3, PTL DEF Spec
=============================================================================
