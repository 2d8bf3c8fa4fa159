----------------------------- MODULE Ajax_proofs -----------------------------
(***************************************************************************)
(* For any number of requests, whatever their handlers do: the handlers of *)
(* a request hear of one outcome, one that is done cannot be answered any  *)
(* more, ajaxStart and ajaxStop alternate, and jQuery.active is exact on a *)
(* page whose handlers return and leave a request alone that is being sent.*)
(***************************************************************************)
EXTENDS Ajax, SequenceTheorems, FiniteSetTheorems, TLAPS

Early == {"ajaxStart", "beforeSend", "ajaxSend"}
Late == {"settle", "result", "complete", "ajaxComplete", "ajaxStop"}
Handlers == Early \cup Late
Frames == [req : Requests, at : Handlers]
Options == [global : BOOLEAN, async : BOOLEAN, timeout : BOOLEAN]
Outcomes == {"success", "error"}

Typed ==
    /\ kind \in [Requests -> Options]
    /\ phase \in [Requests -> {"none", "begun", "shown", "listening"}]
    /\ state \in [Requests -> {0, 1, 2}]
    /\ transport \in [Requests -> BOOLEAN] /\ live \in [Requests -> BOOLEAN]
    /\ timer \in [Requests -> BOOLEAN]
    /\ settled \in [Requests -> BOOLEAN] /\ completed \in [Requests -> BOOLEAN]
    /\ active \in Int
    /\ calls \in Seq(Frames)
    /\ heard \in [Requests -> Seq({"success", "error", "complete"})]
    /\ events \in Seq({"ajaxStart", "ajaxStop"})

\* What a request is between two steps, whatever is on the stack.
RequestRight(r) ==
    /\ phase[r] \in {"none", "begun"} => state[r] = 0
    /\ live[r] \/ timer[r] => state[r] = 1
    /\ live[r] => transport[r]
    /\ transport[r] => state[r] # 2
    /\ settled[r] <=> state[r] = 2
    /\ completed[r] => settled[r]
    /\ phase[r] = "listening" /\ settled[r] =>
          \E answer \in Outcomes :
             heard[r] = IF completed[r] THEN <<answer, "complete">> ELSE <<answer>>
    /\ ~(phase[r] = "listening" /\ settled[r]) => heard[r] = <<>>

\* What a handler that is running says of its request.
Holds(r, at) == \E i \in DOMAIN calls : calls[i] = Frame(r, at)

FrameRight(r, at) ==
    /\ at = "ajaxStart" => phase[r] = "begun"
    /\ at = "beforeSend" => phase[r] = "shown" /\ state[r] # 1
    /\ at = "ajaxSend" => phase[r] = "listening" /\ state[r] # 1
    /\ at \in Late => state[r] = 2
    /\ at = "settle" => ~completed[r]
    /\ at \in {"ajaxStart", "ajaxSend", "result", "ajaxComplete", "ajaxStop"} => kind[r].global

\* Of two handlers of a request the outer one belongs to its beginning and the
\* inner one to its end.
Nested(i, j) ==
    i < j /\ calls[i].req = calls[j].req => calls[i].at \in Early /\ calls[j].at \in Late

IInv ==
    /\ Typed
    /\ \A r \in Requests : RequestRight(r)
    /\ \A r \in Requests, at \in Handlers : Holds(r, at) => FrameRight(r, at)
    /\ \A i, j \in DOMAIN calls : Nested(i, j)

\* Whether jQuery.active counts r: it is under way and raises global events, and
\* its ajaxComplete handlers have not returned.
Ending == {"settle", "result", "complete", "ajaxComplete"}
Counts(r) ==
    /\ kind[r].global /\ phase[r] # "none"
    /\ state[r] # 2 \/ \E at \in Ending : Holds(r, at)

\* Nobody has aborted r while it was being sent.
Orderly(r) == Holds(r, "ajaxSend") => state[r] = 0

-----------------------------------------------------------------------------
(* What a step does to the requests and to the stack. *)

\* Nothing of the other requests.
Moves(r) ==
    /\ kind' = kind
    /\ \A q \in Requests \ {r} :
          /\ phase'[q] = phase[q] /\ state'[q] = state[q] /\ transport'[q] = transport[q]
          /\ live'[q] = live[q] /\ timer'[q] = timer[q]
          /\ settled'[q] = settled[q] /\ completed'[q] = completed[q] /\ heard'[q] = heard[q]

\* The first n handlers stay, and those above them were of r.
Under(r, n) ==
    /\ n \in Nat /\ n <= Len(calls)
    /\ \A i \in n + 1 .. Len(calls) : calls[i].req = r
    /\ \A i \in 1 .. n : calls'[i] = calls[i]

Below(r, n, at) == \E i \in 1 .. n : calls[i] = Frame(r, at)
Stays(r, n) == Under(r, n) /\ Len(calls') = n
Puts(r, n, at) == Under(r, n) /\ Len(calls') = n + 1 /\ calls'[n + 1] = Frame(r, at)

\* The other requests count as they did, and so does r.
Elsewhere(r) ==
    \A q \in Requests \ {r} : (Counts(q)' <=> Counts(q)) /\ (Orderly(q) => Orderly(q)')
Calm(r) ==
    /\ Elsewhere(r)
    /\ Orderly(r) => Orderly(r)' /\ (Counts(r)' <=> Counts(r))

LEMMA StackIs ==
  ASSUME Typed
  PROVE  /\ Len(calls) \in Nat /\ DOMAIN calls = 1 .. Len(calls)
         /\ \A i \in 1 .. Len(calls) : calls[i] \in Frames
         /\ calls # <<>> => /\ Len(calls) > 0 /\ Top = calls[Len(calls)] /\ Top \in Frames
                            /\ Front(calls) \in Seq(Frames) /\ Len(Front(calls)) = Len(calls) - 1
                            /\ \A i \in 1 .. Len(calls) - 1 : Front(calls)[i] = calls[i]
<1>1. /\ Len(calls) \in Nat /\ DOMAIN calls = 1 .. Len(calls)
      /\ \A i \in 1 .. Len(calls) : calls[i] \in Frames
  BY DEF Typed
<1>2. CASE calls # <<>>
  <2>1. Len(calls) > 0
    BY <1>2 DEF Typed
  <2>2. Top = calls[Len(calls)] /\ Top \in Frames
    BY <1>1, <2>1 DEF Top, Last
  <2>3. /\ Front(calls) \in Seq(Frames) /\ Len(Front(calls)) = Len(calls) - 1
        /\ \A i \in 1 .. Len(calls) - 1 : Front(calls)[i] = calls[i]
    <3>1. calls \in Seq(Frames) /\ 1 \in 1 .. Len(calls) + 1 /\ Len(calls) - 1 \in 0 .. Len(calls)
      BY <1>1, <2>1 DEF Typed
    <3>2. /\ SubSeq(calls, 1, Len(calls) - 1) \in Seq(Frames)
          /\ Len(SubSeq(calls, 1, Len(calls) - 1))
                = IF 1 <= Len(calls) - 1 THEN Len(calls) - 1 - 1 + 1 ELSE 0
          /\ \A i \in 1 .. Len(calls) - 1 - 1 + 1 :
                SubSeq(calls, 1, Len(calls) - 1)[i] = calls[1 + i - 1]
      BY <3>1, SubSeqProperties
    <3> QED
      BY <1>1, <2>1, <3>2 DEF Front
  <2> QED
    BY <1>1, <2>1, <2>2, <2>3
<1> QED
  BY <1>1, <1>2

LEMMA StackMoves ==
  ASSUME Typed, NEW r \in Requests, NEW at \in Handlers
  PROVE  /\ calls' = calls => Stays(r, Len(calls))
         /\ calls' = Append(calls, Frame(r, at)) => Puts(r, Len(calls), at)
         /\ calls # <<>> /\ Top.req = r =>
               /\ calls' = Front(calls) => Stays(r, Len(calls) - 1)
               /\ calls' = Append(Front(calls), Frame(r, at)) => Puts(r, Len(calls) - 1, at)
               /\ calls' = NextHandler(at) => Puts(r, Len(calls) - 1, at)
<1>1. /\ Len(calls) \in Nat /\ DOMAIN calls = 1 .. Len(calls)
      /\ calls # <<>> => /\ Len(calls) > 0 /\ Top = calls[Len(calls)] /\ Top \in Frames
                         /\ Front(calls) \in Seq(Frames) /\ Len(Front(calls)) = Len(calls) - 1
                         /\ \A i \in 1 .. Len(calls) - 1 : Front(calls)[i] = calls[i]
  BY StackIs
<1>2. Frame(r, at) \in Frames
  BY DEF Frame, Frames
<1> DEFINE n == Len(calls)
<1>0. n \in Nat /\ n <= n /\ \A i \in n + 1 .. n : calls[i].req = r
  <2>1. n \in Nat
    BY <1>1
  <2> HIDE DEF n
  <2>2. \A i \in n + 1 .. n : FALSE
    BY <2>1
  <2> QED
    BY <2>1, <2>2
<1>3. ASSUME calls' = calls PROVE Stays(r, Len(calls))
  BY <1>0, <1>3 DEF Stays, Under
<1>4. ASSUME calls' = Append(calls, Frame(r, at)) PROVE Puts(r, Len(calls), at)
  <2>1. calls \in Seq(Frames)
    BY DEF Typed
  <2>2. /\ Len(calls') = Len(calls) + 1 /\ calls'[Len(calls) + 1] = Frame(r, at)
        /\ \A i \in 1 .. Len(calls) : calls'[i] = calls[i]
    BY <1>2, <1>4, <2>1, AppendProperties
  <2> QED
    BY <1>0, <2>2 DEF Puts, Under
<1>5. ASSUME calls # <<>>, Top.req = r, calls' = Front(calls) PROVE Stays(r, Len(calls) - 1)
  BY <1>1, <1>5 DEF Stays, Under
<1>6. ASSUME calls # <<>>, Top.req = r, calls' = Append(Front(calls), Frame(r, at))
      PROVE  Puts(r, Len(calls) - 1, at)
  BY <1>1, <1>2, <1>6 DEF Puts, Under
<1>7. ASSUME calls # <<>>, Top.req = r, calls' = NextHandler(at)
      PROVE  Puts(r, Len(calls) - 1, at)
  <2>1. calls' = [calls EXCEPT ![Len(calls)] = [Top EXCEPT !.at = at]]
    BY <1>1, <1>7 DEF NextHandler, Typed, Frames
  <2>2. [Top EXCEPT !.at = at] = Frame(r, at)
    BY <1>1, <1>7 DEF Frames, Frame
  <2>3. /\ Len(calls') = Len(calls) /\ calls'[Len(calls)] = Frame(r, at)
        /\ \A i \in 1 .. Len(calls) - 1 : calls'[i] = calls[i]
    BY <1>1, <1>2, <1>7, <2>1, <2>2 DEF Typed
  <2> QED
    BY <1>1, <1>7, <2>3 DEF Puts, Under
<1> QED
  BY <1>3, <1>4, <1>5, <1>6, <1>7

LEMMA StackTyped ==
  ASSUME Typed, NEW r \in Requests, NEW at \in Handlers
  PROVE  /\ Append(calls, Frame(r, at)) \in Seq(Frames)
         /\ calls # <<>> /\ Top.req = r => /\ Front(calls) \in Seq(Frames)
                                          /\ NextHandler(at) \in Seq(Frames)
<1>1. calls \in Seq(Frames) /\ Frame(r, at) \in Frames
  BY DEF Typed, Frame, Frames
<1>2. ASSUME calls # <<>>, Top.req = r PROVE NextHandler(at) \in Seq(Frames)
  <2>1. /\ Len(calls) \in DOMAIN calls /\ Top = calls[Len(calls)] /\ Top \in Frames
    BY <1>2, StackIs
  <2>2. NextHandler(at) = [calls EXCEPT ![Len(calls)] = [Top EXCEPT !.at = at]]
    BY <2>1 DEF NextHandler
  <2>3. [Top EXCEPT !.at = at] \in Frames
    BY <2>1 DEF Frames
  <2> QED
    BY <1>1, <2>1, <2>2, <2>3, ExceptSeq
<1>3. Append(calls, Frame(r, at)) \in Seq(Frames)
  BY <1>1
<1>4. calls # <<>> => Front(calls) \in Seq(Frames)
  BY StackIs
<1> QED
  BY <1>2, <1>3, <1>4

LEMMA FrameKept ==
  ASSUME NEW r, NEW at, FrameRight(r, at),
         phase'[r] = phase[r], state'[r] = state[r], completed'[r] = completed[r], kind' = kind
  PROVE  FrameRight(r, at)'
  BY DEF FrameRight

\* What holds for the other requests holds still.
LEMMA OthersKept ==
  ASSUME IInv, NEW r \in Requests, Moves(r), NEW q \in Requests \ {r}
  PROVE  /\ RequestRight(q)'
         /\ \A at \in Handlers : Holds(q, at) => FrameRight(q, at)'
<1>1. RequestRight(q) /\ \A at \in Handlers : Holds(q, at) => FrameRight(q, at)
  BY DEF IInv
<1>2. RequestRight(q)'
  BY <1>1 DEF Moves, RequestRight
<1>3. ASSUME NEW at \in Handlers, FrameRight(q, at) PROVE FrameRight(q, at)'
  BY <1>3 DEF Moves, FrameRight
<1> QED
  BY <1>1, <1>2, <1>3

\* What is on the stack after a step of r.
LEMMA StackAfter ==
  ASSUME Typed, Typed', NEW r \in Requests, NEW n,
         Stays(r, n) \/ \E at \in Handlers : Puts(r, n, at)
  PROVE  /\ \A q, b : q # r => (Holds(q, b)' <=> Holds(q, b))
         /\ \A b : Below(r, n, b) => Holds(r, b)
         /\ \A b : Holds(r, b) => Below(r, n, b) \/ \E i \in n + 1 .. Len(calls) : calls[i].at = b
         /\ Stays(r, n) => \A b : Holds(r, b)' <=> Below(r, n, b)
         /\ \A at : Puts(r, n, at) => \A b : Holds(r, b)' <=> Below(r, n, b) \/ b = at
<1>1. /\ n \in Nat /\ n <= Len(calls) /\ Len(calls) \in Nat /\ DOMAIN calls = 1 .. Len(calls)
      /\ \A i \in n + 1 .. Len(calls) : calls[i].req = r
      /\ \A i \in 1 .. n : calls'[i] = calls[i]
      /\ Len(calls') \in {n, n + 1} /\ DOMAIN calls' = 1 .. Len(calls')
  BY DEF Typed, Stays, Puts, Under
<1>2. \A q, b : Frame(q, b).req = q /\ Frame(q, b).at = b
  BY DEF Frame
<1>3. /\ \A i \in 1 .. Len(calls) : i \in 1 .. n \/ i \in n + 1 .. Len(calls)
      /\ \A i \in 1 .. n : i \in 1 .. Len(calls) /\ i \in 1 .. Len(calls')
      /\ \A i \in 1 .. n + 1 : i \in 1 .. n \/ i = n + 1
      /\ n + 1 \in 1 .. n + 1
  <2>1. n \in Nat /\ Len(calls) \in Nat /\ n <= Len(calls) /\ Len(calls') \in {n, n + 1}
    BY <1>1
  <2>2. \A i \in 1 .. Len(calls) : i \in 1 .. n \/ i \in n + 1 .. Len(calls)
    BY <2>1
  <2>3. \A i \in 1 .. n : i \in 1 .. Len(calls)
    BY <2>1
  <2>4. \A i \in 1 .. n : i \in 1 .. Len(calls')
    BY <2>1
  <2>5. (\A i \in 1 .. n + 1 : i \in 1 .. n \/ i = n + 1) /\ n + 1 \in 1 .. n + 1
    BY <2>1
  <2> QED
    BY <2>2, <2>3, <2>4, <2>5
<1>4. ASSUME NEW q, NEW b
      PROVE  /\ Below(q, n, b) => Holds(q, b) /\ Holds(q, b)'
             /\ Holds(q, b) => \/ Below(q, n, b)
                              \/ (q = r /\ \E i \in n + 1 .. Len(calls) : calls[i].at = b)
             /\ Stays(r, n) => (Holds(q, b)' => Below(q, n, b))
             /\ \A at : Puts(r, n, at) => (Holds(q, b)' => Below(q, n, b) \/ (q = r /\ b = at))
             /\ \A at : Puts(r, n, at) => Holds(r, at)'
  <2>1. Below(q, n, b) => Holds(q, b) /\ Holds(q, b)'
    BY <1>1, <1>3 DEF Below, Holds
  <2>2. ASSUME Holds(q, b)
        PROVE  Below(q, n, b) \/ (q = r /\ \E i \in n + 1 .. Len(calls) : calls[i].at = b)
    <3>1. PICK i \in 1 .. Len(calls) : calls[i] = Frame(q, b)
      BY <1>1, <2>2 DEF Holds
    <3>2. CASE i \in 1 .. n
      BY <3>1, <3>2 DEF Below
    <3>3. CASE i \in n + 1 .. Len(calls)
      <4>1. calls[i].req = r
        BY <1>1, <3>3
      <4>2. calls[i].req = q /\ calls[i].at = b
        BY <3>1 DEF Frame
      <4> QED
        BY <3>3, <4>1, <4>2
    <3> QED
      BY <1>3, <3>2, <3>3
  <2>3. ASSUME Stays(r, n), Holds(q, b)' PROVE Below(q, n, b)
    BY <1>1, <2>3 DEF Stays, Holds, Below
  <2>4. ASSUME NEW at, Puts(r, n, at), Holds(q, b)' PROVE Below(q, n, b) \/ (q = r /\ b = at)
    <3>1. PICK i \in 1 .. n + 1 : calls'[i] = Frame(q, b)
      BY <1>1, <2>4 DEF Puts, Holds
    <3>2. CASE i \in 1 .. n
      BY <1>1, <3>1, <3>2 DEF Below
    <3>3. CASE i = n + 1
      BY <1>2, <2>4, <3>1, <3>3 DEF Puts
    <3> QED
      BY <1>3, <3>2, <3>3
  <2>5. ASSUME NEW at, Puts(r, n, at) PROVE Holds(r, at)'
    BY <1>1, <1>3, <2>5 DEF Puts, Holds
  <2> QED
    BY <2>1, <2>2, <2>3, <2>4, <2>5
<1>5. ASSUME NEW q, NEW b, q # r PROVE Holds(q, b)' <=> Holds(q, b)
  BY <1>4, <1>5
<1>6. ASSUME Stays(r, n), NEW b PROVE Holds(r, b)' <=> Below(r, n, b)
  BY <1>4, <1>6
<1>7. ASSUME NEW at, Puts(r, n, at), NEW b PROVE Holds(r, b)' <=> Below(r, n, b) \/ b = at
  BY <1>4, <1>7
<1> QED
  BY <1>4, <1>5, <1>6, <1>7

LEMMA OthersCount ==
  ASSUME Typed, Typed', NEW r \in Requests, Moves(r), NEW n,
         Stays(r, n) \/ \E at \in Handlers : Puts(r, n, at)
  PROVE  Elsewhere(r)
<1>1. ASSUME NEW q \in Requests \ {r} PROVE (Counts(q)' <=> Counts(q)) /\ (Orderly(q) => Orderly(q)')
  <2>1. \A b : Holds(q, b)' <=> Holds(q, b)
    BY StackAfter
  <2>2. kind' = kind /\ phase'[q] = phase[q] /\ state'[q] = state[q]
    BY DEF Moves
  <2> QED
    BY <2>1, <2>2 DEF Counts, Orderly
<1> QED
  BY <1>1 DEF Elsewhere

\* A step that takes handlers of r off the stack.
LEMMA StaysKept ==
  ASSUME IInv, Typed', NEW r \in Requests, Moves(r), NEW n, Stays(r, n),
         RequestRight(r)',
         \A at \in Handlers : Holds(r, at)' /\ Holds(r, at) => FrameRight(r, at)'
  PROVE  IInv'
<1>1. /\ n \in Nat /\ n <= Len(calls) /\ Len(calls) \in Nat /\ DOMAIN calls = 1 .. Len(calls)
      /\ DOMAIN calls' = 1 .. n /\ \A i \in 1 .. n : calls'[i] = calls[i]
  BY DEF IInv, Typed, Stays, Under
<1>2. ASSUME NEW q \in Requests, NEW at \in Handlers, Holds(q, at)' PROVE Holds(q, at)
  BY <1>1, <1>2 DEF Holds
<1>3. ASSUME NEW q \in Requests, NEW at \in Handlers, Holds(q, at)' PROVE FrameRight(q, at)'
  BY <1>2, <1>3, OthersKept
<1>4. ASSUME NEW q \in Requests PROVE RequestRight(q)'
  BY OthersKept
<1>5. ASSUME NEW i \in DOMAIN calls', NEW j \in DOMAIN calls' PROVE Nested(i, j)'
  <2>1. Nested(i, j) /\ calls'[i] = calls[i] /\ calls'[j] = calls[j]
    BY <1>1 DEF IInv
  <2> QED
    BY <2>1 DEF Nested
<1> QED
  BY <1>3, <1>4, <1>5 DEF IInv

\* A step that puts one in their place.
LEMMA PutsKept ==
  ASSUME IInv, Typed', NEW r \in Requests, Moves(r), NEW n, NEW at \in Handlers, Puts(r, n, at),
         RequestRight(r)', FrameRight(r, at)',
         \A i \in 1 .. n : calls[i].req = r =>
             /\ calls[i].at \in Early /\ at \in Late
             /\ \A b \in Handlers : calls[i].at = b => FrameRight(r, b)'
  PROVE  IInv'
<1>1. /\ n \in Nat /\ n <= Len(calls) /\ Len(calls) \in Nat /\ DOMAIN calls = 1 .. Len(calls)
      /\ DOMAIN calls' = 1 .. n + 1 /\ \A i \in 1 .. n : calls'[i] = calls[i]
      /\ calls'[n + 1] = Frame(r, at)
  BY DEF IInv, Typed, Puts, Under
<1>2. \A i \in 1 .. n + 1 : i = n + 1 \/ i \in 1 .. n
  BY <1>1
<1>3. Frame(r, at).req = r /\ Frame(r, at).at = at
  BY DEF Frame
<1>4. ASSUME NEW q \in Requests, NEW b \in Handlers, Holds(q, b)' PROVE FrameRight(q, b)'
  <2>1. PICK i \in 1 .. n + 1 : calls'[i] = Frame(q, b)
    BY <1>1, <1>4 DEF Holds
  <2>2. Frame(q, b).req = q /\ Frame(q, b).at = b
    BY DEF Frame
  <2>3. CASE i = n + 1
    BY <1>1, <1>3, <2>1, <2>2, <2>3
  <2>4. CASE i \in 1 .. n
    <3>1. calls[i] = Frame(q, b) /\ i \in DOMAIN calls
      BY <1>1, <2>1, <2>4
    <3>2. CASE q = r
      BY <2>2, <2>4, <3>1, <3>2
    <3>3. CASE q # r
      BY <3>1, <3>3, OthersKept DEF Holds
    <3> QED
      BY <3>2, <3>3
  <2> QED
    BY <1>2, <2>3, <2>4
<1>5. ASSUME NEW q \in Requests PROVE RequestRight(q)'
  BY OthersKept
<1>6. ASSUME NEW i \in DOMAIN calls', NEW j \in DOMAIN calls' PROVE Nested(i, j)'
  <2>1. CASE i \in 1 .. n /\ j \in 1 .. n
    <3>1. Nested(i, j) /\ calls'[i] = calls[i] /\ calls'[j] = calls[j]
      BY <1>1, <2>1 DEF IInv
    <3> QED
      BY <3>1 DEF Nested
  <2>2. CASE i \in 1 .. n /\ j = n + 1
    BY <1>1, <1>3, <2>2 DEF Nested
  <2>3. CASE i = n + 1
    BY <1>1, <2>3 DEF Nested
  <2> QED
    BY <1>1, <1>2, <2>1, <2>2, <2>3
<1> QED
  BY <1>4, <1>5, <1>6 DEF IInv

LEMMA FramesAre ==
  ASSUME IInv, NEW i \in DOMAIN calls, NEW r, calls[i].req = r
  PROVE  /\ calls[i] = Frame(r, calls[i].at) /\ calls[i].at \in Handlers
         /\ r \in Requests /\ FrameRight(r, calls[i].at)
<1>1. \A k \in 1 .. Len(calls) : calls[k] \in Frames
  BY StackIs DEF IInv
<1>2. DOMAIN calls = 1 .. Len(calls)
  BY StackIs DEF IInv
<1>3. calls[i] = Frame(r, calls[i].at) /\ calls[i].at \in Handlers /\ r \in Requests
  BY <1>1, <1>2 DEF Frames, Frame
<1>4. Holds(r, calls[i].at)
  BY <1>3 DEF Holds
<1> QED
  BY <1>3, <1>4 DEF IInv

\* When a handler of r is on top, and of those below which are.
LEMMA TopIs ==
  ASSUME IInv, calls # <<>>, NEW r, r = Top.req
  PROVE  /\ r \in Requests /\ Top.at \in Handlers /\ Top = Frame(r, Top.at)
         /\ FrameRight(r, Top.at)
         /\ \A i \in 1 .. Len(calls) - 1 : calls[i].req = r =>
               calls[i].at \in Early /\ Top.at \in Late /\ FrameRight(r, calls[i].at)
<1>1. /\ Len(calls) \in Nat /\ Len(calls) > 0 /\ DOMAIN calls = 1 .. Len(calls)
      /\ Top = calls[Len(calls)] /\ Top \in Frames
      /\ \A i \in 1 .. Len(calls) : calls[i] \in Frames
  BY StackIs DEF IInv
<1>2. ASSUME NEW i \in DOMAIN calls, calls[i].req = r
      PROVE  calls[i] = Frame(r, calls[i].at) /\ calls[i].at \in Handlers /\ FrameRight(r, calls[i].at)
  BY <1>2, FramesAre
<1>3. r \in Requests /\ Top.at \in Handlers /\ Top = Frame(r, Top.at) /\ FrameRight(r, Top.at)
  BY <1>1, <1>2 DEF Frames
<1>4. ASSUME NEW i \in 1 .. Len(calls) - 1, calls[i].req = r
      PROVE  calls[i].at \in Early /\ Top.at \in Late /\ FrameRight(r, calls[i].at)
  <2>1. i \in DOMAIN calls /\ Len(calls) \in DOMAIN calls /\ i < Len(calls)
    BY <1>1
  <2>2. Nested(i, Len(calls))
    BY <2>1 DEF IInv
  <2> QED
    BY <1>1, <1>2, <1>4, <2>1, <2>2 DEF Nested
<1> QED
  BY <1>3, <1>4

-----------------------------------------------------------------------------
(* done() *)

Told == {"success", "error", "complete"}

LEMMA DoneDoes ==
  ASSUME Typed, NEW r \in Requests, NEW s \in Seq(Frames), NEW answer \in Outcomes, NEW st,
         Done(s, r, answer, st)
  PROVE  /\ state' \in [Requests -> {0, 1, 2}] /\ timer' \in [Requests -> BOOLEAN]
         /\ transport' \in [Requests -> BOOLEAN] /\ settled' \in [Requests -> BOOLEAN]
         /\ heard' \in [Requests -> Seq(Told)] /\ calls' \in Seq(Frames)
         /\ \A q \in Requests \ {r} :
               /\ state'[q] = state[q] /\ timer'[q] = timer[q] /\ transport'[q] = transport[q]
               /\ settled'[q] = settled[q] /\ heard'[q] = heard[q]
         /\ st = 2 => /\ calls' = s /\ state'[r] = state[r] /\ timer'[r] = timer[r]
                      /\ transport'[r] = transport[r] /\ settled'[r] = settled[r]
                      /\ heard'[r] = heard[r]
         /\ st # 2 => /\ state'[r] = 2 /\ ~timer'[r] /\ ~transport'[r] /\ settled'[r]
                      /\ settled[r] => /\ calls' = Append(s, Frame(r, "result"))
                                       /\ heard'[r] = heard[r]
                      /\ ~settled[r] => /\ calls' = Append(s, Frame(r, "settle"))
                                        /\ heard'[r] = IF phase'[r] = "listening"
                                                       THEN Append(heard[r], answer) ELSE heard[r]
<1>1. /\ state \in [Requests -> {0, 1, 2}] /\ timer \in [Requests -> BOOLEAN]
      /\ transport \in [Requests -> BOOLEAN] /\ settled \in [Requests -> BOOLEAN]
      /\ heard \in [Requests -> Seq(Told)]
  BY DEF Typed, Told
<1>2. Frame(r, "settle") \in Frames /\ Frame(r, "result") \in Frames
  BY DEF Frame, Frames, Handlers, Late
<1>3. CASE st = 2
  BY <1>1, <1>3 DEF Done
<1>4. CASE st # 2 /\ settled[r]
  <2>1. /\ state' = [state EXCEPT ![r] = 2] /\ timer' = [timer EXCEPT ![r] = FALSE]
        /\ transport' = [transport EXCEPT ![r] = FALSE]
        /\ settled' = settled /\ heard' = heard /\ calls' = Append(s, Frame(r, "result"))
    BY <1>4 DEF Done
  <2>2. calls' \in Seq(Frames)
    BY <1>2, <2>1
  <2> QED
    BY <1>1, <1>4, <2>1, <2>2
<1>5. CASE st # 2 /\ ~settled[r]
  <2>1. Append(heard[r], answer) \in Seq(Told)
    BY <1>1 DEF Outcomes, Told
  <2>2. /\ state' = [state EXCEPT ![r] = 2] /\ timer' = [timer EXCEPT ![r] = FALSE]
        /\ transport' = [transport EXCEPT ![r] = FALSE]
        /\ settled' = [settled EXCEPT ![r] = TRUE]
        /\ heard' = IF phase'[r] = "listening"
                    THEN [heard EXCEPT ![r] = Append(@, answer)] ELSE heard
        /\ calls' = Append(s, Frame(r, "settle"))
    BY <1>5 DEF Done, Tell
  <2>3. calls' \in Seq(Frames)
    BY <1>2, <2>2
  <2>4. /\ heard' \in [Requests -> Seq(Told)] /\ \A q \in Requests \ {r} : heard'[q] = heard[q]
        /\ heard'[r] = IF phase'[r] = "listening" THEN Append(heard[r], answer) ELSE heard[r]
    BY <1>1, <2>1, <2>2
  <2> QED
    BY <1>1, <1>5, <2>2, <2>3, <2>4
<1> QED
  BY <1>3, <1>4, <1>5

\* The stack after done(), whose caller leaves s, the first n handlers.
LeftBy(r, s, n) ==
    /\ calls' = s => Stays(r, n)
    /\ \A at \in Handlers : calls' = Append(s, Frame(r, at)) => Puts(r, n, at)

\* The handlers of r among them began earlier, and are right after it.
LeftRight(r, n, st) ==
    \A i \in 1 .. n : calls[i].req = r =>
        /\ st # 2 => calls[i].at \in Early
        /\ \A b \in Handlers : calls[i].at = b => FrameRight(r, b)'

\* After done() the request is over: the deferred object is settled in this step,
\* or was settled before.
LEMMA DoneStep ==
  ASSUME IInv, Typed', NEW r \in Requests, NEW s \in Seq(Frames), NEW answer \in Outcomes, NEW st,
         Done(s, r, answer, st), NEW n, LeftBy(r, s, n), LeftRight(r, n, st),
         Moves(r), completed' = completed, ~live'[r],
         phase'[r] \in {"shown", "listening"},
         st = 2 => state[r] = 2,
         state[r] = 2 => phase'[r] = phase[r],
         state[r] = 2 /\ st # 2 => kind[r].global
  PROVE  IInv'
<1>1. RequestRight(r)
  BY DEF IInv
<1>2. /\ Typed
      /\ settled[r] \in BOOLEAN /\ completed[r] \in BOOLEAN /\ heard[r] \in Seq(Told)
      /\ state[r] \in {0, 1, 2} /\ live'[r] \in BOOLEAN
  BY DEF IInv, Typed, Told
<1>3. kind' = kind /\ completed'[r] = completed[r]
  BY DEF Moves
<1>4. CASE st = 2
  <2>1. /\ calls' = s /\ state'[r] = state[r] /\ timer'[r] = timer[r]
        /\ transport'[r] = transport[r] /\ settled'[r] = settled[r] /\ heard'[r] = heard[r]
    BY <1>2, <1>4, DoneDoes
  <2>2. state[r] = 2 /\ phase'[r] = phase[r]
    BY <1>4
  <2>3. RequestRight(r)'
    BY <1>1, <1>2, <1>3, <2>1, <2>2 DEF RequestRight
  <2>4. ASSUME NEW at \in Handlers, Holds(r, at) PROVE FrameRight(r, at)'
    <3>1. FrameRight(r, at)
      BY <2>4 DEF IInv
    <3> QED
      BY <1>3, <2>1, <2>2, <3>1 DEF FrameRight
  <2>5. Stays(r, n)
    BY <2>1 DEF LeftBy
  <2> QED
    BY <2>3, <2>4, <2>5, StaysKept
<1>5. CASE st # 2 /\ settled[r]
  <2>1. /\ state'[r] = 2 /\ ~timer'[r] /\ ~transport'[r] /\ settled'[r]
        /\ calls' = Append(s, Frame(r, "result")) /\ heard'[r] = heard[r]
    BY <1>2, <1>5, DoneDoes
  <2>2. state[r] = 2 /\ phase'[r] = phase[r] /\ kind[r].global
    BY <1>1, <1>5 DEF RequestRight
  <2>3. RequestRight(r)'
    BY <1>1, <1>2, <1>3, <1>5, <2>1, <2>2 DEF RequestRight
  <2>4. "result" \in Handlers /\ "result" \in Late
    BY DEF Handlers, Late
  <2>5. FrameRight(r, "result")'
    BY <1>3, <2>1, <2>2 DEF FrameRight, Late
  <2>6. Puts(r, n, "result")
    BY <2>1, <2>4 DEF LeftBy
  <2> QED
    BY <1>5, <2>3, <2>4, <2>5, <2>6, PutsKept DEF LeftRight
<1>6. CASE st # 2 /\ ~settled[r]
  <2>1. /\ state'[r] = 2 /\ ~timer'[r] /\ ~transport'[r] /\ settled'[r]
        /\ calls' = Append(s, Frame(r, "settle"))
        /\ heard'[r] = IF phase'[r] = "listening" THEN Append(heard[r], answer) ELSE heard[r]
    BY <1>2, <1>6, DoneDoes
  <2>2. ~completed[r] /\ heard[r] = <<>>
    BY <1>1, <1>2, <1>6 DEF RequestRight
  <2>3. Append(heard[r], answer) = <<answer>>
    BY <2>2
  <2>4. RequestRight(r)'
    BY <1>2, <1>3, <2>1, <2>2, <2>3 DEF RequestRight
  <2>5. "settle" \in Handlers /\ "settle" \in Late
    BY DEF Handlers, Late
  <2>6. FrameRight(r, "settle")'
    BY <1>3, <2>1, <2>2 DEF FrameRight, Late
  <2>7. Puts(r, n, "settle")
    BY <2>1, <2>5 DEF LeftBy
  <2> QED
    BY <1>6, <2>4, <2>5, <2>6, <2>7, PutsKept DEF LeftRight
<1> QED
  BY <1>4, <1>5, <1>6

\* jQuery.active counts a request from its beginning, and still while it ends.
LEMMA DoneCounts ==
  ASSUME IInv, Typed', NEW r \in Requests, NEW s \in Seq(Frames), NEW answer \in Outcomes, NEW st,
         Done(s, r, answer, st), NEW n, LeftBy(r, s, n), Moves(r),
         phase[r] # "none", phase'[r] # "none", st = 2 => state[r] = 2,
         \A i \in n + 1 .. Len(calls) : calls[i].at \notin Ending,
         ~Below(r, n, "ajaxSend")
  PROVE  /\ Elsewhere(r) /\ Orderly(r)'
         /\ (state[r] = 2 => st = 2) => (Counts(r)' <=> Counts(r))
<1>1. Typed /\ RequestRight(r) /\ kind' = kind
  BY DEF IInv, Moves
<1>2. CASE st = 2
  <2>1. calls' = s /\ state'[r] = state[r]
    BY <1>1, <1>2, DoneDoes
  <2>2. Stays(r, n)
    BY <2>1 DEF LeftBy
  <2>3. /\ Elsewhere(r)
        /\ \A b : Holds(r, b)' <=> Below(r, n, b)
        /\ \A b \in Ending : Holds(r, b) <=> Below(r, n, b)
    BY <1>1, <2>2, OthersCount, StackAfter
  <2> QED
    BY <1>1, <2>1, <2>3 DEF Orderly, Counts
<1>3. ASSUME NEW at \in {"settle", "result"}, Puts(r, n, at), state'[r] = 2
      PROVE  Elsewhere(r) /\ Orderly(r)' /\ (Counts(r)' <=> kind[r].global)
  <2>1. at \in Handlers /\ at \in Ending /\ at # "ajaxSend"
    BY DEF Handlers, Late, Ending
  <2>2. Elsewhere(r) /\ \A b : Holds(r, b)' <=> Below(r, n, b) \/ b = at
    BY <1>1, <1>3, <2>1, OthersCount, StackAfter
  <2> QED
    BY <1>1, <2>1, <2>2 DEF Orderly, Counts
<1>4. CASE st # 2 /\ settled[r]
  <2>1. calls' = Append(s, Frame(r, "result")) /\ state'[r] = 2 /\ state[r] = 2
    BY <1>1, <1>4, DoneDoes DEF RequestRight
  <2>2. Puts(r, n, "result")
    BY <2>1 DEF LeftBy, Handlers, Late
  <2> QED
    BY <1>3, <1>4, <2>1, <2>2
<1>5. CASE st # 2 /\ ~settled[r]
  <2>1. calls' = Append(s, Frame(r, "settle")) /\ state'[r] = 2 /\ state[r] # 2
    BY <1>1, <1>5, DoneDoes DEF RequestRight
  <2>2. Puts(r, n, "settle")
    BY <2>1 DEF LeftBy, Handlers, Late
  <2>3. Counts(r) <=> kind[r].global
    BY <2>1 DEF Counts
  <2> QED
    BY <1>3, <2>1, <2>2, <2>3
<1> QED
  BY <1>2, <1>4, <1>5

-----------------------------------------------------------------------------
(* The steps of a request that is made. *)

LEMMA BeginKept ==
  ASSUME IInv, NEW r \in Requests, Begin(r)
  PROVE  /\ IInv' /\ Elsewhere(r) /\ Orderly(r)'
         /\ ~Counts(r) /\ (Counts(r)' <=> kind[r].global)
<1>0. PICK first : first = (kind[r].global /\ active = 0)
  OBVIOUS
<1>1. /\ phase[r] = "none" /\ phase' = [phase EXCEPT ![r] = IF first THEN "begun" ELSE "shown"]
      /\ active' = IF kind[r].global THEN active + 1 ELSE active
      /\ events' = IF first THEN Append(events, "ajaxStart") ELSE events
      /\ calls' = Append(calls, Frame(r, IF first THEN "ajaxStart" ELSE "beforeSend"))
      /\ kind' = kind /\ state' = state /\ transport' = transport /\ live' = live
      /\ timer' = timer /\ settled' = settled /\ completed' = completed /\ heard' = heard
  BY <1>0 DEF Begin
<1>2. PICK at \in Handlers : at = IF first THEN "ajaxStart" ELSE "beforeSend"
  BY DEF Handlers, Early
<1>3. Typed
  BY DEF IInv
<1>4. Typed'
  <2>1. Frame(r, at) \in Frames
    BY DEF Frame, Frames
  <2>2. calls' \in Seq(Frames)
    BY <1>1, <1>2, <1>3, <2>1 DEF Typed
  <2>3. events' \in Seq({"ajaxStart", "ajaxStop"}) /\ active' \in Int
    BY <1>1, <1>3 DEF Typed
  <2>4. phase' \in [Requests -> {"none", "begun", "shown", "listening"}]
    BY <1>1, <1>3 DEF Typed
  <2> QED
    BY <1>1, <1>3, <2>2, <2>3, <2>4 DEF Typed
<1>5. Moves(r)
  BY <1>1, <1>3 DEF Moves, Typed
<1>6. phase'[r] = IF first THEN "begun" ELSE "shown"
  BY <1>1, <1>3 DEF Typed
<1>7. RequestRight(r) /\ state[r] = 0
  BY <1>1 DEF IInv, RequestRight
<1>8. RequestRight(r)'
  BY <1>1, <1>6, <1>7 DEF RequestRight
<1>9. FrameRight(r, at)'
  <2>1. CASE first
    <3>1. at = "ajaxStart" /\ phase'[r] = "begun" /\ kind'[r].global
      BY <1>0, <1>1, <1>2, <1>6, <2>1
    <3> QED
      BY <3>1 DEF FrameRight, Late
  <2>2. CASE ~first
    <3>1. at = "beforeSend" /\ phase'[r] = "shown" /\ state'[r] = 0
      BY <1>0, <1>1, <1>2, <1>6, <1>7, <2>2
    <3> QED
      BY <3>1 DEF FrameRight, Late
  <2> QED
    BY <2>1, <2>2
<1>10. ASSUME NEW i \in 1 .. Len(calls), calls[i].req = r PROVE FALSE
  <2>1. i \in DOMAIN calls
    BY <1>3, StackIs
  <2>2. calls[i].at \in Handlers /\ FrameRight(r, calls[i].at)
    BY <1>10, <2>1, FramesAre
  <2> QED
    BY <1>1, <1>7, <2>2 DEF FrameRight, Handlers, Early
<1>11. Puts(r, Len(calls), at)
  BY <1>1, <1>2, <1>3, StackMoves
<1>12. IInv' /\ Elsewhere(r)
  BY <1>3, <1>4, <1>5, <1>8, <1>9, <1>10, <1>11, PutsKept, OthersCount
<1> QED
  BY <1>1, <1>6, <1>7, <1>12 DEF Orderly, Counts

LEMMA AfterStartKept ==
  ASSUME IInv, AfterStart
  PROVE  IInv' /\ \E r \in Requests : Calm(r)
<1>0. PICK r : r = Top.req
  OBVIOUS
<1>1. /\ calls # <<>> /\ Top.at = "ajaxStart" /\ phase' = [phase EXCEPT ![r] = "shown"]
      /\ calls' = NextHandler("beforeSend") /\ active' = active /\ events' = events
      /\ kind' = kind /\ state' = state /\ transport' = transport /\ live' = live
      /\ timer' = timer /\ settled' = settled /\ completed' = completed /\ heard' = heard
  BY <1>0 DEF AfterStart, Running
<1>2. /\ r \in Requests /\ FrameRight(r, "ajaxStart")
      /\ \A i \in 1 .. Len(calls) - 1 : calls[i].req # r
  BY <1>0, <1>1, TopIs DEF Late
<1>3. Typed /\ "beforeSend" \in Handlers
  BY DEF IInv, Handlers, Early
<1>4. Puts(r, Len(calls) - 1, "beforeSend")
  BY <1>0, <1>1, <1>2, <1>3, StackMoves
<1>5. Typed'
  <2>1. calls' \in Seq(Frames)
    BY <1>0, <1>1, <1>2, <1>3, StackTyped
  <2> QED
    BY <1>1, <1>3, <2>1 DEF Typed
<1>6. Moves(r) /\ phase'[r] = "shown"
  BY <1>1, <1>2, <1>3 DEF Moves, Typed
<1>7. RequestRight(r) /\ phase[r] = "begun" /\ state[r] = 0
  BY <1>2 DEF IInv, FrameRight, RequestRight
<1>8. RequestRight(r)' /\ FrameRight(r, "beforeSend")'
  BY <1>1, <1>6, <1>7 DEF RequestRight, FrameRight, Late
<1>9. IInv' /\ Elsewhere(r)
  BY <1>2, <1>3, <1>4, <1>5, <1>6, <1>8, PutsKept, OthersCount
<1> QED
  BY <1>1, <1>2, <1>6, <1>7, <1>9 DEF Calm, Orderly, Counts

LEMMA SendMoves ==
  ASSUME Typed, NEW r \in Requests, NEW s \in Seq(Frames), NEW there, Send(s, r, there),
         kind' = kind, completed' = completed,
         \A q \in Requests \ {r} : phase'[q] = phase[q]
  PROVE  Moves(r)
<1>1. ASSUME NEW answer \in Outcomes, Done(s, r, answer, 1), live' = live PROVE Moves(r)
  BY <1>1, DoneDoes DEF Moves
<1>2. ASSUME state' = [state EXCEPT ![r] = 1],
             transport' = [transport EXCEPT ![r] = TRUE],
             live' = [live EXCEPT ![r] = TRUE],
             timer' = [timer EXCEPT ![r] = kind[r].timeout],
             settled' = settled, heard' = heard
      PROVE  Moves(r)
  BY <1>2 DEF Moves, Typed
<1> QED
  BY <1>1, <1>2 DEF Send, Outcomes

\* done() called by the only handler of r, which is on top and ends with it.
LEMMA DoneFromTop ==
  ASSUME IInv, Typed', calls # <<>>, NEW r \in Requests, r = Top.req,
         NEW answer \in Outcomes, NEW st, Done(Front(calls), r, answer, st),
         Moves(r), completed' = completed, ~live'[r],
         phase'[r] \in {"shown", "listening"},
         st = 2 => state[r] = 2,
         state[r] = 2 => phase'[r] = phase[r],
         state[r] = 2 /\ st # 2 => kind[r].global,
         \A i \in 1 .. Len(calls) - 1 : calls[i].req # r,
         Top.at \in {"beforeSend", "ajaxSend"}, phase[r] # "none"
  PROVE  /\ IInv' /\ Elsewhere(r) /\ Orderly(r)'
         /\ (state[r] = 2 => st = 2) => (Counts(r)' <=> Counts(r))
<1>1. Typed /\ Front(calls) \in Seq(Frames)
  BY StackIs DEF IInv
<1>2. PICK s : s = Front(calls)
  OBVIOUS
<1>3. PICK n : n = Len(calls) - 1
  OBVIOUS
<1>4. ASSUME NEW at \in Handlers
      PROVE  /\ calls' = s => Stays(r, n)
             /\ calls' = Append(s, Frame(r, at)) => Puts(r, n, at)
  <2>1. /\ calls' = Front(calls) => Stays(r, Len(calls) - 1)
        /\ calls' = Append(Front(calls), Frame(r, at)) => Puts(r, Len(calls) - 1, at)
    BY <1>1, StackMoves
  <2> QED
    BY <1>2, <1>3, <2>1
<1>5. "settle" \in Handlers
  BY DEF Handlers, Late
<1>6. LeftBy(r, s, n)
  BY <1>4, <1>5 DEF LeftBy
<1>7. s \in Seq(Frames) /\ Done(s, r, answer, st)
  BY <1>1, <1>2
<1>8. LeftRight(r, n, st)
  BY <1>3 DEF LeftRight
<1>9. IInv'
  BY <1>6, <1>7, <1>8, DoneStep
<1>10. \A i \in n + 1 .. Len(calls) : calls[i].at \notin Ending
  <2>1. Len(calls) \in Nat /\ Top = calls[Len(calls)] /\ Top.at \notin Ending
    BY <1>1, StackIs DEF Ending
  <2>2. \A i \in n + 1 .. Len(calls) : i = Len(calls)
    BY <1>3, <2>1
  <2> QED
    BY <2>1, <2>2
<1>11. ~Below(r, n, "ajaxSend")
  BY <1>3 DEF Below, Frame
<1> QED
  BY <1>6, <1>7, <1>9, <1>10, <1>11, DoneCounts

\* The end of ajax(), called by a handler that is on top.
LEMMA SendKept ==
  ASSUME IInv, calls # <<>>, NEW r, r = Top.req, NEW there,
         Send(Front(calls), r, there),
         Moves(r), completed' = completed, active' = active, events' = events,
         phase' \in [Requests -> {"none", "begun", "shown", "listening"}],
         phase'[r] = "listening", Top.at \in {"beforeSend", "ajaxSend"},
         there => state[r] # 2,
         state[r] = 2 => phase[r] = "listening" /\ kind[r].global
  PROVE  IInv' /\ Calm(r)
<1>1. /\ r \in Requests /\ state[r] \in {0, 2}
      /\ \A i \in 1 .. Len(calls) - 1 : calls[i].req # r
  BY TopIs DEF Late, IInv, Typed, FrameRight
<1>2. Typed /\ RequestRight(r) /\ Front(calls) \in Seq(Frames)
  BY <1>1, StackIs DEF IInv
<1>3. ~live[r]
  BY <1>1, <1>2 DEF RequestRight
<1>4. phase[r] # "none"
  BY <1>1, TopIs DEF FrameRight
<1>5. calls' = Front(calls) => Stays(r, Len(calls) - 1)
  <2>1. "settle" \in Handlers
    BY DEF Handlers, Late
  <2> QED
    BY <1>1, <1>2, <2>1, StackMoves
<1>6. ASSUME NEW answer \in Outcomes, Done(Front(calls), r, answer, 1), live' = live
      PROVE  IInv' /\ Calm(r)
  <2>1. Typed'
    BY <1>1, <1>2, <1>6, DoneDoes DEF Typed, Moves, Told
  <2>2. ~live'[r] /\ 1 # 2 /\ phase'[r] \in {"shown", "listening"}
    BY <1>3, <1>6
  <2>3. state[r] = 2 => phase'[r] = phase[r]
    OBVIOUS
  <2>4. ASSUME Orderly(r) PROVE state[r] # 2
    <3>1. state[r] = 2 => FrameRight(r, Top.at) /\ Top = Frame(r, Top.at)
      BY TopIs
    <3>2. state[r] = 2 => Holds(r, "ajaxSend")
      BY <1>2, <3>1, StackIs DEF FrameRight, Holds
    <3> QED
      BY <2>4, <3>2 DEF Orderly
  <2> QED
    BY <1>1, <1>4, <1>6, <2>1, <2>2, <2>3, <2>4, DoneFromTop DEF Calm
<1>7. ASSUME there, kind[r].async,
             state' = [state EXCEPT ![r] = 1],
             transport' = [transport EXCEPT ![r] = TRUE],
             live' = [live EXCEPT ![r] = TRUE],
             timer' = [timer EXCEPT ![r] = kind[r].timeout],
             calls' = Front(calls), settled' = settled, heard' = heard
      PROVE  IInv' /\ Calm(r)
  <2>1. kind[r].timeout \in BOOLEAN
    BY <1>1, <1>2 DEF Typed, Options
  <2>2. Typed'
    BY <1>1, <1>2, <1>7, <2>1 DEF Typed, Moves
  <2>3. state'[r] = 1 /\ transport'[r] /\ settled'[r] = settled[r] /\ heard'[r] = heard[r]
    BY <1>1, <1>2, <1>7 DEF Typed
  <2>4. ~settled[r] /\ ~completed[r] /\ heard[r] = <<>>
    BY <1>1, <1>2, <1>7 DEF RequestRight
  <2>5. RequestRight(r)'
    BY <2>3, <2>4 DEF RequestRight
  <2>6. Stays(r, Len(calls) - 1)
    BY <1>5, <1>7
  <2>7. ASSUME NEW at \in Handlers, Holds(r, at)' PROVE FALSE
    <3>1. PICK i \in DOMAIN calls' : calls'[i] = Frame(r, at)
      BY <2>7 DEF Holds
    <3>2. DOMAIN calls' = 1 .. Len(calls')
      BY <2>2 DEF Typed
    <3>3. i \in 1 .. Len(calls) - 1 /\ calls[i] = Frame(r, at)
      BY <2>6, <3>1, <3>2 DEF Stays, Under
    <3> QED
      BY <1>1, <3>3 DEF Frame
  <2>8. IInv' /\ Elsewhere(r)
    BY <1>1, <1>2, <2>2, <2>5, <2>6, <2>7, StaysKept, OthersCount
  <2>9. ~Holds(r, "ajaxSend")'
    BY <2>7 DEF Handlers, Early
  <2>10. Counts(r)' <=> Counts(r)
    BY <1>4, <1>7, <2>3 DEF Counts, Moves
  <2> QED
    BY <2>8, <2>9, <2>10 DEF Calm, Orderly
<1> QED
  BY <1>6, <1>7 DEF Send, Outcomes

LEMMA CancelKept ==
  ASSUME IInv, Cancel
  PROVE  IInv' /\ \E r \in Requests : Calm(r)
<1>0. PICK r : r = Top.req
  OBVIOUS
<1>1. /\ calls # <<>> /\ Top.at = "beforeSend" /\ phase' = phase
      /\ Done(Front(calls), r, "error", state[r]) /\ live' = live
      /\ kind' = kind /\ completed' = completed /\ active' = active /\ events' = events
  BY <1>0 DEF Cancel, Running
<1>2. /\ r \in Requests /\ FrameRight(r, "beforeSend")
      /\ \A i \in 1 .. Len(calls) - 1 : calls[i].req # r
  BY <1>0, <1>1, TopIs DEF Late
<1>3. /\ Typed /\ RequestRight(r) /\ Front(calls) \in Seq(Frames)
      /\ state[r] \in {0, 2} /\ phase[r] = "shown" /\ "error" \in Outcomes
  BY <1>1, <1>2, StackIs DEF IInv, FrameRight, Typed, Outcomes
<1>4. Typed' /\ Moves(r)
  BY <1>1, <1>2, <1>3, DoneDoes DEF Typed, Moves, Told
<1>5. ~live'[r] /\ phase'[r] = phase[r]
  BY <1>1, <1>3 DEF RequestRight
<1>6. IInv' /\ Calm(r)
  BY <1>0, <1>1, <1>2, <1>3, <1>4, <1>5, DoneFromTop DEF Calm
<1> QED
  BY <1>2, <1>6

LEMMA AfterBeforeSendKept ==
  ASSUME IInv, AfterBeforeSend
  PROVE  IInv' /\ \E r \in Requests : Calm(r)
<1>0. PICK r : r = Top.req
  OBVIOUS
<1>1. /\ calls # <<>> /\ Top.at = "beforeSend" /\ state[r] # 2
      /\ phase' = [phase EXCEPT ![r] = "listening"]
      /\ kind' = kind /\ completed' = completed /\ active' = active /\ events' = events
      /\ \/ /\ kind[r].global
            /\ transport' = [transport EXCEPT ![r] = TRUE]
            /\ calls' = NextHandler("ajaxSend")
            /\ state' = state /\ live' = live /\ timer' = timer
            /\ settled' = settled /\ heard' = heard
         \/ Done(Front(calls), r, "error", state[r]) /\ live' = live
         \/ Send(Front(calls), r, TRUE)
  BY <1>0 DEF AfterBeforeSend, Running
<1>2. /\ r \in Requests /\ FrameRight(r, "beforeSend")
      /\ \A i \in 1 .. Len(calls) - 1 : calls[i].req # r
  BY <1>0, <1>1, TopIs DEF Late
<1>3. /\ Typed /\ RequestRight(r) /\ Front(calls) \in Seq(Frames)
      /\ state[r] = 0 /\ phase[r] = "shown" /\ "error" \in Outcomes
  BY <1>1, <1>2, StackIs DEF IInv, FrameRight, Typed, Outcomes
<1>4. /\ phase' \in [Requests -> {"none", "begun", "shown", "listening"}]
      /\ phase'[r] = "listening" /\ \A q \in Requests \ {r} : phase'[q] = phase[q]
  BY <1>1, <1>2, <1>3 DEF Typed
<1>5. ASSUME kind[r].global,
             transport' = [transport EXCEPT ![r] = TRUE],
             calls' = NextHandler("ajaxSend"),
             state' = state, live' = live, timer' = timer,
             settled' = settled, heard' = heard
      PROVE  IInv' /\ Calm(r)
  <2>1. "ajaxSend" \in Handlers
    BY DEF Handlers, Early
  <2>2. calls' \in Seq(Frames)
    BY <1>0, <1>1, <1>2, <1>3, <1>5, <2>1, StackTyped
  <2>3. Typed' /\ Moves(r)
    BY <1>1, <1>2, <1>3, <1>4, <1>5, <2>2 DEF Typed, Moves
  <2>4. ~settled[r] /\ heard[r] = <<>> /\ ~completed[r] /\ ~live[r] /\ ~timer[r]
    BY <1>3 DEF RequestRight
  <2>5. transport'[r]
    BY <1>2, <1>3, <1>5 DEF Typed
  <2>6. RequestRight(r)' /\ FrameRight(r, "ajaxSend")'
    BY <1>1, <1>3, <1>4, <1>5, <2>4, <2>5 DEF RequestRight, FrameRight, Late
  <2>7. Puts(r, Len(calls) - 1, "ajaxSend")
    BY <1>0, <1>1, <1>2, <1>3, <1>5, <2>1, StackMoves
  <2>8. IInv' /\ Elsewhere(r)
    BY <1>2, <1>3, <2>1, <2>3, <2>6, <2>7, PutsKept, OthersCount
  <2> QED
    BY <1>1, <1>3, <1>4, <1>5, <2>8 DEF Calm, Orderly, Counts
<1>6. ASSUME Done(Front(calls), r, "error", state[r]), live' = live
      PROVE  IInv' /\ Calm(r)
  <2>1. Typed' /\ Moves(r)
    BY <1>1, <1>2, <1>3, <1>4, <1>6, DoneDoes DEF Typed, Moves, Told
  <2>2. ~live'[r]
    BY <1>3, <1>6 DEF RequestRight
  <2> QED
    BY <1>0, <1>1, <1>2, <1>3, <1>4, <1>6, <2>1, <2>2, DoneFromTop DEF Calm
<1>7. ASSUME Send(Front(calls), r, TRUE)
      PROVE  IInv' /\ Calm(r)
  <2>1. Moves(r)
    BY <1>1, <1>2, <1>3, <1>4, <1>7, SendMoves
  <2> QED
    BY <1>0, <1>1, <1>4, <1>7, <2>1, SendKept
<1> QED
  BY <1>1, <1>2, <1>5, <1>6, <1>7

LEMMA AfterAjaxSendKept ==
  ASSUME IInv, AfterAjaxSend
  PROVE  IInv' /\ \E r \in Requests : Calm(r)
<1>0. PICK r, there : r = Top.req /\ there = transport[r]
  OBVIOUS
<1>1. /\ calls # <<>> /\ Top.at = "ajaxSend" /\ phase' = phase
      /\ Send(Front(calls), r, there)
      /\ kind' = kind /\ completed' = completed /\ active' = active /\ events' = events
  BY <1>0 DEF AfterAjaxSend, Running
<1>2. /\ r \in Requests /\ FrameRight(r, "ajaxSend")
  BY <1>0, <1>1, TopIs
<1>3. /\ Typed /\ RequestRight(r) /\ phase[r] = "listening" /\ kind[r].global
      /\ there => state[r] # 2
      /\ Front(calls) \in Seq(Frames)
  BY <1>0, <1>1, <1>2, StackIs DEF IInv, FrameRight, RequestRight
<1>4. Moves(r)
  BY <1>1, <1>2, <1>3, SendMoves
<1>5. phase' \in [Requests -> {"none", "begun", "shown", "listening"}]
  BY <1>1, <1>3 DEF Typed
<1>6. IInv' /\ Calm(r)
  BY <1>0, <1>1, <1>3, <1>4, <1>5, SendKept
<1> QED
  BY <1>2, <1>6

-----------------------------------------------------------------------------
(* The steps of a request that ends. *)

\* done() called from outside of the handlers on the stack, which stay.
LEMMA DoneOutside ==
  ASSUME IInv, NEW r \in Requests, NEW answer \in Outcomes, Done(calls, r, answer, state[r]),
         live' = [live EXCEPT ![r] = FALSE] \/ live' = [live EXCEPT ![r] = @ /\ ~transport[r]],
         phase[r] \in {"shown", "listening"}, phase' = phase,
         kind' = kind, completed' = completed, active' = active, events' = events
  PROVE  IInv' /\ (~Holds(r, "ajaxSend") => Calm(r))
<1>1. Typed /\ calls \in Seq(Frames) /\ RequestRight(r)
  BY DEF IInv, Typed
<1>2. PICK s, st, n : s = calls /\ st = state[r] /\ n = Len(calls)
  OBVIOUS
<1>3. s \in Seq(Frames) /\ Done(s, r, answer, st)
  BY <1>1, <1>2
<1>4. Typed'
  <2>1. live' \in [Requests -> BOOLEAN]
    BY <1>1 DEF Typed
  <2> QED
    BY <1>1, <1>3, <2>1, DoneDoes DEF Typed, Told
<1>5. ~live'[r]
  BY <1>1 DEF RequestRight, Typed
<1>6. Moves(r)
  <2>1. \A q \in Requests \ {r} : live'[q] = live[q]
    BY <1>1 DEF Typed
  <2> QED
    BY <1>1, <1>3, <2>1, DoneDoes DEF Moves
<1>7. LeftBy(r, s, n)
  <2>1. ASSUME NEW at \in Handlers
        PROVE  /\ calls' = s => Stays(r, n)
               /\ calls' = Append(s, Frame(r, at)) => Puts(r, n, at)
    <3>1. /\ calls' = calls => Stays(r, Len(calls))
          /\ calls' = Append(calls, Frame(r, at)) => Puts(r, Len(calls), at)
      BY <1>1, StackMoves
    <3> QED
      BY <1>2, <3>1
  <2>2. "settle" \in Handlers
    BY DEF Handlers, Late
  <2> QED
    BY <2>1, <2>2 DEF LeftBy
<1>8. LeftRight(r, n, st)
  <2>1. ASSUME NEW i \in 1 .. n, calls[i].req = r, NEW b \in Handlers, calls[i].at = b
        PROVE  (st # 2 => b \in Early) /\ FrameRight(r, b)'
    <3>1. i \in DOMAIN calls
      BY <1>1, <1>2, StackIs
    <3>2. FrameRight(r, b)
      BY <2>1, <3>1, FramesAre
    <3>3. st # 2 => b \in Early
      BY <1>2, <2>1, <3>2 DEF FrameRight, Handlers
    <3>4. CASE st = 2
      <4>1. state'[r] = state[r]
        BY <1>1, <1>3, <3>4, DoneDoes
      <4> QED
        BY <3>2, <3>4, <4>1, FrameKept
    <3>5. CASE st # 2
      <4>1. state'[r] = 2
        BY <1>1, <1>3, <3>5, DoneDoes
      <4> QED
        BY <3>2, <3>3, <3>5, <4>1 DEF FrameRight, Early
    <3> QED
      BY <3>3, <3>4, <3>5
  <2>2. ASSUME NEW i \in 1 .. n, calls[i].req = r PROVE calls[i].at \in Handlers
    <3>1. i \in DOMAIN calls
      BY <1>1, <1>2, StackIs
    <3> QED
      BY <2>2, <3>1, FramesAre
  <2> QED
    BY <2>1, <2>2 DEF LeftRight
<1>9. IInv'
  BY <1>2, <1>3, <1>4, <1>5, <1>6, <1>7, <1>8, DoneStep
<1>10. ASSUME ~Holds(r, "ajaxSend") PROVE Calm(r)
  <2>1. ~Below(r, n, "ajaxSend")
    BY <1>1, <1>2, <1>10, StackIs DEF Below, Holds
  <2>2. \A i \in n + 1 .. Len(calls) : calls[i].at \notin Ending
    <3>1. n \in Nat /\ n = Len(calls)
      BY <1>1, <1>2, StackIs
    <3>2. \A i \in n + 1 .. n : FALSE
      BY <3>1
    <3> QED
      BY <3>1, <3>2
  <2>3. phase[r] # "none" /\ phase'[r] # "none"
    OBVIOUS
  <2>4. /\ Elsewhere(r) /\ Orderly(r)'
        /\ (state[r] = 2 => st = 2) => (Counts(r)' <=> Counts(r))
    BY <1>2, <1>3, <1>4, <1>6, <1>7, <2>1, <2>2, <2>3, DoneCounts
  <2> QED
    BY <1>2, <2>4 DEF Calm
<1> QED
  BY <1>9, <1>10

LEMMA StopKept ==
  ASSUME IInv, NEW r \in Requests, Abort(r) \/ TimeOut(r)
  PROVE  IInv' /\ (~AbortInSend => Calm(r))
<1>1. Stop(r) /\ phase[r] \in {"shown", "listening"}
  <2>1. CASE Abort(r)
    BY <2>1 DEF Abort
  <2>2. CASE TimeOut(r)
    <3>1. Stop(r) /\ timer[r]
      BY <2>2 DEF TimeOut
    <3>2. RequestRight(r) /\ phase[r] \in {"none", "begun", "shown", "listening"}
      BY DEF IInv, Typed
    <3> QED
      BY <3>1, <3>2 DEF RequestRight
  <2> QED
    BY <2>1, <2>2
<1>2. ASSUME ~AbortInSend PROVE ~Holds(r, "ajaxSend")
  <2>1. CASE Abort(r)
    BY <1>2, <2>1 DEF Abort, Holds, ToSet
  <2>2. CASE TimeOut(r)
    BY <2>2 DEF TimeOut, Holds
  <2> QED
    BY <2>1, <2>2
<1> QED
  BY <1>1, <1>2, DoneOutside DEF Stop, Outcomes

LEMMA RespondKept ==
  ASSUME IInv, NEW r \in Requests, Respond(r)
  PROVE  IInv' /\ Calm(r)
<1>1. /\ calls = <<>> /\ live[r] /\ live' = [live EXCEPT ![r] = FALSE] /\ phase' = phase
      /\ kind' = kind /\ completed' = completed /\ active' = active /\ events' = events
  BY DEF Respond
<1>2. PICK answer \in Outcomes : Done(<<>>, r, answer, state[r])
  BY DEF Respond, Outcomes
<1>3. phase[r] \in {"shown", "listening"}
  <2>1. RequestRight(r) /\ phase[r] \in {"none", "begun", "shown", "listening"}
    BY DEF IInv, Typed
  <2> QED
    BY <1>1, <2>1 DEF RequestRight
<1>4. Done(calls, r, answer, state[r])
  BY <1>1, <1>2
<1>5. ~Holds(r, "ajaxSend")
  BY <1>1 DEF Holds
<1> QED
  BY <1>1, <1>3, <1>4, <1>5, DoneOutside

\* What is counted before and after a step of a request that ends.
LateCounts(r) ==
    /\ r = Top.req /\ Elsewhere(r) /\ (Orderly(r) => Orderly(r)')
    /\ Counts(r) <=> kind[r].global /\ Top.at \in Ending
    /\ calls' = Front(calls) => ~Counts(r)'
    /\ \A at \in Late : calls' = NextHandler(at) => (Counts(r)' <=> kind[r].global /\ at \in Ending)

\* done(), from one handler to the next: only completed may change of the request.
LEMMA LateStep ==
  ASSUME IInv, Typed', calls # <<>>, NEW r \in Requests, r = Top.req, Top.at \in Late,
         phase' = phase, state' = state, Moves(r), RequestRight(r)',
         \/ calls' = Front(calls)
         \/ \E at \in Late : calls' = NextHandler(at) /\ FrameRight(r, at)'
  PROVE  IInv' /\ LateCounts(r)
<1>1. Typed /\ kind' = kind
  BY DEF IInv, Moves
<1>2. ASSUME NEW i \in 1 .. Len(calls) - 1, calls[i].req = r
      PROVE  calls[i].at \in Early /\ FrameRight(r, calls[i].at)
  BY <1>2, TopIs
<1>3. ASSUME NEW b \in Early, FrameRight(r, b) PROVE FrameRight(r, b)'
  BY <1>1, <1>3 DEF FrameRight, Early, Late
<1>4. ASSUME calls' = Front(calls) PROVE IInv'
  <2>1. "settle" \in Handlers
    BY DEF Handlers, Late
  <2>2. PICK n : n = Len(calls) - 1
    OBVIOUS
  <2>3. Stays(r, Len(calls) - 1)
    BY <1>1, <1>4, <2>1, StackMoves
  <2>4. Stays(r, n)
    BY <2>2, <2>3
  <2>5. ASSUME NEW at \in Handlers, Holds(r, at)' PROVE FrameRight(r, at)'
    <3>1. PICK i \in DOMAIN calls' : calls'[i] = Frame(r, at)
      BY <2>5 DEF Holds
    <3>2. DOMAIN calls' = 1 .. Len(calls')
      BY DEF Typed
    <3>3. i \in 1 .. Len(calls) - 1 /\ calls[i] = Frame(r, at)
      BY <2>2, <2>4, <3>1, <3>2 DEF Stays, Under
    <3>4. calls[i].req = r /\ calls[i].at = at
      BY <3>3 DEF Frame
    <3> QED
      BY <1>2, <1>3, <3>3, <3>4
  <2> QED
    BY <2>4, <2>5, StaysKept
<1>5. ASSUME NEW at \in Late, calls' = NextHandler(at), FrameRight(r, at)' PROVE IInv'
  <2>1. at \in Handlers
    BY DEF Handlers
  <2>2. PICK n : n = Len(calls) - 1
    OBVIOUS
  <2>3. Puts(r, Len(calls) - 1, at)
    BY <1>1, <1>5, <2>1, StackMoves
  <2>4. Puts(r, n, at)
    BY <2>2, <2>3
  <2>5. \A i \in 1 .. n : calls[i].req = r =>
           /\ calls[i].at \in Early /\ at \in Late
           /\ \A b \in Handlers : calls[i].at = b => FrameRight(r, b)'
    BY <1>2, <1>3, <2>2
  <2> QED
    BY <1>5, <2>1, <2>4, <2>5, PutsKept
<1>6. IInv'
  BY <1>4, <1>5
<1>7. state[r] = 2 /\ phase[r] # "none" /\ Top = Frame(r, Top.at)
  BY TopIs DEF IInv, FrameRight, RequestRight
<1>8. PICK n : n = Len(calls) - 1
  OBVIOUS
<1>9. ASSUME NEW b \in Late PROVE ~Below(r, n, b)
  <2>1. Frame(r, b).req = r /\ Frame(r, b).at = b /\ b \notin Early
    BY DEF Frame, Late, Early
  <2> QED
    BY <1>2, <1>8, <2>1 DEF Below
<1>10. \A i \in n + 1 .. Len(calls) : calls[i] = Top
  <2>1. Len(calls) \in Nat /\ Top = calls[Len(calls)]
    BY <1>1, StackIs
  <2>2. \A i \in n + 1 .. Len(calls) : i = Len(calls)
    BY <1>8, <2>1
  <2> QED
    BY <2>1, <2>2
<1>11. Ending \subseteq Late /\ "ajaxSend" \notin Late /\ Late \subseteq Handlers /\ "settle" \in Late
  BY DEF Ending, Late, Handlers
<1>12. Holds(r, Top.at)
  BY <1>1, <1>7, StackIs DEF Holds
<1>13. /\ calls' = Front(calls) => Stays(r, n)
       /\ \A at \in Late : calls' = NextHandler(at) => Puts(r, n, at)
  <2>1. ASSUME NEW at \in Late
        PROVE  /\ calls' = Front(calls) => Stays(r, Len(calls) - 1)
               /\ calls' = NextHandler(at) => Puts(r, Len(calls) - 1, at)
    BY <1>1, <1>11, StackMoves
  <2> QED
    BY <1>8, <1>11, <2>1
<1>14. Elsewhere(r)
  BY <1>1, <1>11, <1>13, OthersCount
<1>15. \A b \in Ending : Holds(r, b) <=> b = Top.at
  BY <1>1, <1>9, <1>10, <1>11, <1>12, <1>13, StackAfter
<1>16. ASSUME calls' = Front(calls)
       PROVE  /\ \A b \in Ending : ~Holds(r, b)'
              /\ Holds(r, "ajaxSend")' => Holds(r, "ajaxSend")
  <2>1. Stays(r, n)
    BY <1>13, <1>16
  <2>2. \A b : (Holds(r, b)' <=> Below(r, n, b)) /\ (Below(r, n, b) => Holds(r, b))
    BY <1>1, <2>1, StackAfter
  <2> QED
    BY <1>9, <1>11, <2>2
<1>17. ASSUME NEW at \in Late, calls' = NextHandler(at)
       PROVE  /\ \A b \in Ending : Holds(r, b)' <=> b = at
              /\ Holds(r, "ajaxSend")' => Holds(r, "ajaxSend")
  <2>1. Puts(r, n, at) /\ at \in Handlers /\ at # "ajaxSend"
    BY <1>11, <1>13, <1>17
  <2>2. \A b : /\ Holds(r, b)' <=> Below(r, n, b) \/ b = at
               /\ Below(r, n, b) => Holds(r, b)
    BY <1>1, <2>1, StackAfter
  <2> QED
    BY <1>9, <1>11, <2>1, <2>2
<1>18. Orderly(r) => Orderly(r)'
  BY <1>16, <1>17 DEF Orderly
<1>19. Counts(r) <=> kind[r].global /\ Top.at \in Ending
  BY <1>7, <1>15 DEF Counts
<1>20. calls' = Front(calls) => ~Counts(r)'
  BY <1>7, <1>16 DEF Counts
<1>21. \A at \in Late : calls' = NextHandler(at) => (Counts(r)' <=> kind[r].global /\ at \in Ending)
  BY <1>1, <1>7, <1>17 DEF Counts
<1> QED
  BY <1>6, <1>14, <1>18, <1>19, <1>20, <1>21 DEF LateCounts

LEMMA PairAppended ==
  ASSUME NEW x, NEW y
  PROVE  Append(<<x>>, y) = <<x, y>>
<1>1. /\ <<x>> \in Seq({x, y}) /\ Len(<<x>>) = 1 /\ <<x>>[1] = x
      /\ <<x, y>> \in Seq({x, y}) /\ Len(<<x, y>>) = 2
      /\ <<x, y>>[1] = x /\ <<x, y>>[2] = y
  OBVIOUS
<1>2. /\ Append(<<x>>, y) \in Seq({x, y}) /\ Len(Append(<<x>>, y)) = 2
      /\ Append(<<x>>, y)[1] = x /\ Append(<<x>>, y)[2] = y
  BY <1>1, AppendProperties
<1>3. \A i \in 1 .. 2 : i = 1 \/ i = 2
  OBVIOUS
<1> QED
  BY <1>1, <1>2, <1>3, SeqEqual

\* completeDeferred is fired: the handlers of the request hear that it is complete.
LEMMA CompletesRight ==
  ASSUME Typed, NEW r \in Requests, RequestRight(r), state[r] = 2, ~completed[r],
         completed' = [completed EXCEPT ![r] = TRUE], Tell(r, "complete"),
         kind' = kind, phase' = phase, state' = state, transport' = transport, live' = live,
         timer' = timer, settled' = settled, active' = active, events' = events,
         calls' \in Seq(Frames)
  PROVE  Typed' /\ Moves(r) /\ RequestRight(r)'
<1>1. /\ completed' \in [Requests -> BOOLEAN] /\ completed'[r]
      /\ \A q \in Requests \ {r} : completed'[q] = completed[q]
  BY DEF Typed
<1>2. CASE phase[r] = "listening"
  <2>1. heard' = [heard EXCEPT ![r] = Append(@, "complete")] /\ heard[r] \in Seq(Told)
    <3>1. phase'[r] = "listening"
      BY <1>2
    <3>2. heard' = [heard EXCEPT ![r] = Append(@, "complete")]
      BY <3>1 DEF Tell
    <3>3. heard \in [Requests -> Seq(Told)]
      BY DEF Typed, Told
    <3> QED
      BY <3>2, <3>3
  <2>2. PICK answer \in Outcomes : heard[r] = <<answer>>
    BY <1>2 DEF RequestRight
  <2>3. Append(heard[r], "complete") = <<answer, "complete">>
    BY <2>2, PairAppended
  <2>4. Append(heard[r], "complete") \in Seq(Told)
    BY <2>1 DEF Told
  <2>5. /\ heard' \in [Requests -> Seq(Told)] /\ heard'[r] = <<answer, "complete">>
        /\ \A q \in Requests \ {r} : heard'[q] = heard[q]
    BY <2>1, <2>3, <2>4 DEF Typed, Told
  <2>6. Typed' /\ Moves(r)
    BY <1>1, <2>5 DEF Typed, Moves, Told
  <2>7. RequestRight(r)'
    BY <1>1, <1>2, <2>5 DEF RequestRight
  <2> QED
    BY <2>6, <2>7
<1>3. CASE phase[r] # "listening"
  <2>1. heard' = heard
    BY <1>3 DEF Tell
  <2>2. Typed' /\ Moves(r)
    BY <1>1, <2>1 DEF Typed, Moves
  <2>3. RequestRight(r)'
    BY <1>1, <1>3, <2>1 DEF RequestRight
  <2> QED
    BY <2>2, <2>3
<1> QED
  BY <1>2, <1>3

LEMMA OutcomeToldKept ==
  ASSUME IInv, AfterSettle \/ AfterResult
  PROVE  IInv' /\ \E r \in Requests : LateCounts(r)
<1>0. PICK r : r = Top.req
  OBVIOUS
<1>1. /\ calls # <<>> /\ Top.at \in {"settle", "result"} /\ phase' = phase
      /\ kind' = kind /\ state' = state /\ transport' = transport /\ live' = live
      /\ timer' = timer /\ settled' = settled /\ active' = active /\ events' = events
      /\ \/ /\ kind[r].global /\ Top.at = "settle" /\ calls' = NextHandler("result")
            /\ completed' = completed /\ heard' = heard
         \/ /\ completed[r] /\ Top.at = "result" /\ calls' = NextHandler("ajaxComplete")
            /\ completed' = completed /\ heard' = heard
         \/ /\ Top.at = "settle" \/ ~completed[r]
            /\ completed' = [completed EXCEPT ![r] = TRUE] /\ Tell(r, "complete")
            /\ calls' = NextHandler("complete")
  <2>1. CASE AfterSettle
    BY <1>0, <2>1 DEF AfterSettle, Running
  <2>2. CASE AfterResult
    BY <1>0, <2>2 DEF AfterResult, Running
  <2> QED
    BY <2>1, <2>2
<1>2. r \in Requests /\ FrameRight(r, Top.at) /\ Top.at \in Late
  BY <1>0, <1>1, TopIs DEF Late
<1>3. /\ Typed /\ RequestRight(r) /\ state[r] = 2
      /\ Top.at = "settle" => ~completed[r]
      /\ Top.at = "result" => kind[r].global
  BY <1>1, <1>2 DEF IInv, FrameRight
<1>4. {"result", "complete", "ajaxComplete"} \subseteq Late \cap Handlers
  BY DEF Late, Handlers
<1>5. ASSUME NEW at \in {"result", "complete", "ajaxComplete"}, calls' = NextHandler(at)
      PROVE  calls' \in Seq(Frames)
  BY <1>0, <1>1, <1>2, <1>3, <1>4, <1>5, StackTyped
<1>6. ASSUME NEW at \in {"result", "complete", "ajaxComplete"}, at = "complete" \/ kind[r].global
      PROVE  FrameRight(r, at)'
  BY <1>1, <1>3, <1>6 DEF FrameRight, Late
<1>7. ASSUME NEW at \in {"result", "complete", "ajaxComplete"}, kind[r].global,
             calls' = NextHandler(at), completed' = completed, heard' = heard
      PROVE  IInv' /\ LateCounts(r)
  <2>1. Typed' /\ Moves(r) /\ RequestRight(r)'
    BY <1>1, <1>3, <1>5, <1>7 DEF Typed, Moves, RequestRight
  <2>2. at \in Late /\ FrameRight(r, at)'
    BY <1>4, <1>6, <1>7
  <2> QED
    BY <1>0, <1>1, <1>2, <1>7, <2>1, <2>2, LateStep
<1>8. ASSUME ~completed[r], completed' = [completed EXCEPT ![r] = TRUE], Tell(r, "complete"),
             calls' = NextHandler("complete")
      PROVE  IInv' /\ LateCounts(r)
  <2>1. Typed' /\ Moves(r) /\ RequestRight(r)'
    BY <1>1, <1>2, <1>3, <1>5, <1>8, CompletesRight
  <2>2. "complete" \in Late /\ FrameRight(r, "complete")'
    BY <1>4, <1>6
  <2> QED
    BY <1>0, <1>1, <1>2, <1>8, <2>1, <2>2, LateStep
<1> QED
  BY <1>1, <1>2, <1>3, <1>7, <1>8

LEMMA LastHandlersKept ==
  ASSUME IInv, AfterComplete \/ CountOff \/ AfterStop
  PROVE  IInv' /\ \E r \in Requests : LateCounts(r)
<1>0. PICK r : r = Top.req
  OBVIOUS
<1>1. /\ calls # <<>> /\ Top.at \in {"complete", "ajaxComplete", "ajaxStop"}
      /\ kind' = kind /\ phase' = phase /\ state' = state /\ transport' = transport
      /\ live' = live /\ timer' = timer /\ settled' = settled /\ completed' = completed
      /\ heard' = heard /\ active' \in {active, active - 1}
      /\ events' \in {events, Append(events, "ajaxStop")}
      /\ \/ calls' = Front(calls)
         \/ \E at \in {"ajaxComplete", "ajaxStop"} :
               /\ calls' = NextHandler(at)
               /\ kind[r].global \/ Top.at = "ajaxComplete"
  <2>1. CASE AfterComplete
    BY <1>0, <2>1 DEF AfterComplete, Running, request
  <2>2. CASE CountOff
    BY <1>0, <2>2 DEF CountOff, Running, request
  <2>3. CASE AfterStop
    BY <1>0, <2>3 DEF AfterStop, Running, request
  <2> QED
    BY <2>1, <2>2, <2>3
<1>2. r \in Requests /\ FrameRight(r, Top.at) /\ Top.at \in Late
  BY <1>0, <1>1, TopIs DEF Late
<1>3. /\ Typed /\ RequestRight(r) /\ state[r] = 2
      /\ Top.at = "ajaxComplete" => kind[r].global
  BY <1>2 DEF IInv, FrameRight
<1>4. active' \in Int /\ events' \in Seq({"ajaxStart", "ajaxStop"})
  <2>1. /\ active \in Int /\ events \in Seq({"ajaxStart", "ajaxStop"})
        /\ "ajaxStop" \in {"ajaxStart", "ajaxStop"}
    BY <1>3 DEF Typed
  <2>2. Append(events, "ajaxStop") \in Seq({"ajaxStart", "ajaxStop"})
    BY <2>1, AppendProperties
  <2> QED
    BY <1>1, <2>1, <2>2
<1>5. ASSUME calls' \in Seq(Frames) PROVE Typed' /\ Moves(r) /\ RequestRight(r)'
  BY <1>1, <1>3, <1>4, <1>5 DEF Typed, Moves, RequestRight
<1>6. ASSUME calls' = Front(calls) PROVE IInv' /\ LateCounts(r)
  <2>1. calls' \in Seq(Frames)
    BY <1>1, <1>3, <1>6, StackIs
  <2> QED
    BY <1>0, <1>1, <1>2, <1>5, <1>6, <2>1, LateStep
<1>7. ASSUME NEW at \in {"ajaxComplete", "ajaxStop"}, calls' = NextHandler(at), kind[r].global
      PROVE  IInv' /\ LateCounts(r)
  <2>1. at \in Late /\ at \in Handlers
    BY DEF Late, Handlers
  <2>2. calls' \in Seq(Frames)
    BY <1>0, <1>1, <1>2, <1>3, <1>7, <2>1, StackTyped
  <2>3. FrameRight(r, at)'
    BY <1>1, <1>3, <1>7 DEF FrameRight, Late
  <2> QED
    BY <1>0, <1>1, <1>2, <1>5, <1>7, <2>1, <2>2, <2>3, LateStep
<1> QED
  BY <1>1, <1>2, <1>3, <1>6, <1>7

LEMMA ThrowKept ==
  ASSUME IInv, Throw
  PROVE  IInv'
<1>1. /\ kind' = kind /\ phase' = phase /\ state' = state /\ transport' = transport
      /\ live' = live /\ timer' = timer /\ settled' = settled /\ completed' = completed
      /\ heard' = heard /\ active' = active /\ events' = events /\ calls' = <<>>
  BY DEF Throw, request
<1>2. Typed'
  BY <1>1 DEF IInv, Typed
<1>3. \A r \in Requests : RequestRight(r)'
  BY <1>1 DEF IInv, RequestRight
<1>4. DOMAIN calls' = {}
  BY <1>1
<1> QED
  BY <1>2, <1>3, <1>4 DEF IInv, Holds

LEMMA InvariantAtFirst ==
  ASSUME KindsAssumption, Init
  PROVE  IInv
<1>1. Typed
  BY DEF KindsAssumption, Init, Typed, Options
<1>2. \A r \in Requests : RequestRight(r)
  BY DEF Init, RequestRight
<1>3. DOMAIN calls = {}
  BY DEF Init
<1> QED
  BY <1>1, <1>2, <1>3 DEF IInv, Holds

LEMMA InvariantKept ==
  ASSUME IInv, [Next]_vars
  PROVE  IInv'
<1>1. ASSUME NEW r \in Requests, Begin(r) \/ Abort(r) \/ Respond(r) \/ TimeOut(r) PROVE IInv'
  BY <1>1, BeginKept, StopKept, RespondKept
<1>2. CASE Returns
  BY <1>2, AfterStartKept, CancelKept, AfterBeforeSendKept, AfterAjaxSendKept,
     OutcomeToldKept, LastHandlersKept DEF Returns
<1>3. CASE Throw
  BY <1>3, ThrowKept
<1>4. CASE UNCHANGED vars
  <2>1. /\ kind' = kind /\ phase' = phase /\ state' = state /\ transport' = transport
        /\ live' = live /\ timer' = timer /\ settled' = settled /\ completed' = completed
        /\ heard' = heard /\ active' = active /\ events' = events /\ calls' = calls
    BY <1>4 DEF vars, request
  <2> QED
    BY <2>1 DEF IInv, Typed, RequestRight, Holds, FrameRight, Nested
<1> QED
  BY <1>1, <1>2, <1>3, <1>4 DEF Next

-----------------------------------------------------------------------------

\* The inductive invariant of the requests: what each has been through agrees
\* with its handlers on the stack, whatever they do and whether they throw.
THEOREM AjaxInvariant == KindsAssumption => (Spec => []IInv)
<1>1. KindsAssumption /\ Init => IInv
  BY InvariantAtFirst
<1>2. IInv /\ [Next]_vars => IInv'
  BY InvariantKept
<1> QED
  BY <1>1, <1>2, PTL DEF Spec

LEMMA PrefixIs ==
  ASSUME NEW S, NEW s \in Seq(S), NEW t \in Seq(S), Len(s) <= Len(t),
         \A i \in 1 .. Len(s) : s[i] = t[i]
  PROVE  IsPrefix(s, t)
<1>1. Len(s) \in Nat /\ Len(t) \in Nat /\ 1 \in Int /\ Len(s) \in Int
  OBVIOUS
<1>2. \A i \in 1 .. Len(s) : s[i] \in S /\ t[i] \in S
  BY <1>1
<1>3. /\ SubSeq(s, 1, Len(s)) \in Seq(S)
      /\ Len(SubSeq(s, 1, Len(s))) = IF 1 <= Len(s) THEN Len(s) - 1 + 1 ELSE 0
      /\ \A i \in 1 .. Len(s) - 1 + 1 : SubSeq(s, 1, Len(s))[i] = s[1 + i - 1]
  BY <1>1, <1>2, SubSeqProperties
<1>4. /\ SubSeq(t, 1, Len(s)) \in Seq(S)
      /\ Len(SubSeq(t, 1, Len(s))) = IF 1 <= Len(s) THEN Len(s) - 1 + 1 ELSE 0
      /\ \A i \in 1 .. Len(s) - 1 + 1 : SubSeq(t, 1, Len(s))[i] = t[1 + i - 1]
  BY <1>1, <1>2, SubSeqProperties
<1>5. Len(SubSeq(s, 1, Len(s))) = Len(SubSeq(t, 1, Len(s)))
  BY <1>3, <1>4
<1>6. \A i \in 1 .. Len(SubSeq(s, 1, Len(s))) : SubSeq(s, 1, Len(s))[i] = SubSeq(t, 1, Len(s))[i]
  BY <1>1, <1>3, <1>4
<1>7. SubSeq(s, 1, Len(s)) = SubSeq(t, 1, Len(s))
  BY <1>3, <1>4, <1>5, <1>6, SeqEqual
<1> QED
  BY <1>7 DEF IsPrefix

\* The handlers of a request hear of one outcome and then that it is complete,
\* whether it is answered, times out, is aborted or all of these in handlers.
THEOREM OneAnswerOnly == KindsAssumption => (Spec => []OneAnswer)
<1>1. IInv => OneAnswer
  <2> SUFFICES ASSUME IInv, NEW r \in Requests
               PROVE  \E full \in {<<"success", "complete">>, <<"error", "complete">>} :
                         IsPrefix(heard[r], full)
    BY DEF OneAnswer
  <2>1. RequestRight(r)
    BY DEF IInv
  <2>2. PICK answer \in Outcomes : heard[r] \in {<<>>, <<answer>>, <<answer, "complete">>}
    BY <2>1 DEF RequestRight, Outcomes
  <2>3. /\ <<>> \in Seq(Told) /\ <<answer>> \in Seq(Told) /\ <<answer, "complete">> \in Seq(Told)
        /\ Len(<<>>) = 0 /\ Len(<<answer>>) = 1 /\ Len(<<answer, "complete">>) = 2
        /\ <<answer>>[1] = <<answer, "complete">>[1]
    BY DEF Told, Outcomes
  <2>4. PICK h, full : h = heard[r] /\ full = <<answer, "complete">>
    OBVIOUS
  <2>5. h \in Seq(Told) /\ full \in Seq(Told) /\ Len(h) <= Len(full)
    <3>1. CASE h = <<>>
      BY <2>3, <2>4, <3>1
    <3>2. CASE h = <<answer>>
      BY <2>3, <2>4, <3>2
    <3>3. CASE h = <<answer, "complete">>
      BY <2>3, <2>4, <3>3
    <3> QED
      BY <2>2, <2>4, <3>1, <3>2, <3>3
  <2>6. ASSUME NEW i \in 1 .. Len(h) PROVE h[i] = full[i]
    <3>1. CASE h = <<>>
      BY <2>3, <3>1
    <3>2. CASE h = <<answer>>
      <4>1. i = 1
        BY <2>3, <3>2
      <4> QED
        BY <2>3, <2>4, <3>2, <4>1
    <3>3. CASE h = <<answer, "complete">>
      BY <2>4, <3>3
    <3> QED
      BY <2>2, <2>4, <3>1, <3>2, <3>3
  <2>7. IsPrefix(h, full)
    BY <2>5, <2>6, PrefixIs
  <2>8. IsPrefix(heard[r], <<answer, "complete">>)
    BY <2>4, <2>7
  <2> QED
    BY <2>8 DEF Outcomes
<1> QED
  BY <1>1, AjaxInvariant, PTL

\* A request waits for an answer, or for its timeout, only while it is sent and
\* not done: neither can come after an abort.
THEOREM NothingComesLate == KindsAssumption => (Spec => []NoLateAnswer)
<1>1. IInv => NoLateAnswer
  BY DEF IInv, RequestRight, NoLateAnswer
<1> QED
  BY <1>1, AjaxInvariant, PTL

-----------------------------------------------------------------------------
(* ajaxStart and ajaxStop. *)

\* ajaxStart was raised last exactly while jQuery.active is positive.
Alternating ==
    /\ active \in Int /\ events \in Seq({"ajaxStart", "ajaxStop"})
    /\ StartStopAlternate
    /\ (Len(events) % 2 = 1) <=> (active >= 1)

LEMMA AlternatingAfter ==
  ASSUME Alternating, NEW e \in {"ajaxStart", "ajaxStop"}, events' = Append(events, e),
         active' \in Int, (e = "ajaxStart") <=> (active' >= 1), (active' >= 1) <=> ~(active >= 1)
  PROVE  Alternating'
<1>1. PICK n : n = Len(events)
  OBVIOUS
<1>2. /\ n \in Nat /\ DOMAIN events = 1 .. n
      /\ \A i \in 1 .. n : (events[i] = "ajaxStart") <=> (i % 2 = 1)
      /\ (n % 2 = 1) <=> (active >= 1)
  BY <1>1 DEF Alternating, StartStopAlternate
<1>3. /\ events' \in Seq({"ajaxStart", "ajaxStop"}) /\ Len(events') = n + 1
      /\ \A i \in 1 .. n : events'[i] = events[i]
      /\ events'[n + 1] = e
  BY <1>1, AppendProperties DEF Alternating
<1>4. DOMAIN events' = 1 .. n + 1
  BY <1>3
<1>5. ((n + 1) % 2 = 1) <=> ~(n % 2 = 1)
  BY <1>2
<1>6. \A i \in 1 .. n + 1 : i \in 1 .. n \/ i = n + 1
  BY <1>2
<1>7. ASSUME NEW i \in 1 .. n + 1 PROVE (events'[i] = "ajaxStart") <=> (i % 2 = 1)
  <2>1. CASE i \in 1 .. n
    BY <1>2, <1>3, <2>1
  <2>2. CASE i = n + 1
    <3>1. (e = "ajaxStart") <=> ~(n % 2 = 1)
      BY <1>2
    <3> QED
      BY <1>3, <1>5, <2>2, <3>1
  <2> QED
    BY <1>6, <2>1, <2>2
<1>8. (Len(events') % 2 = 1) <=> (active' >= 1)
  BY <1>2, <1>3, <1>5
<1> QED
  BY <1>3, <1>4, <1>7, <1>8 DEF Alternating, StartStopAlternate

LEMMA AlternatingSame ==
  ASSUME Alternating, events' = events, active' \in Int, (active' >= 1) <=> (active >= 1)
  PROVE  Alternating'
  BY DEF Alternating, StartStopAlternate

LEMMA AlternatingKept ==
  ASSUME Alternating, [Next]_vars
  PROVE  Alternating'
<1>1. active \in Int
  BY DEF Alternating
<1>2. ASSUME active' = active, events' = events PROVE Alternating'
  BY <1>1, <1>2, AlternatingSame
<1>3. ASSUME NEW r \in Requests, Begin(r) PROVE Alternating'
  <2>1. CASE kind[r].global /\ active = 0
    <3>1. active' = 0 + 1 /\ events' = Append(events, "ajaxStart")
      BY <1>3, <2>1 DEF Begin
    <3>2. active' \in Int /\ active' >= 1 /\ ~(active >= 1)
      BY <2>1, <3>1
    <3> QED
      BY <3>1, <3>2, AlternatingAfter
  <2>2. CASE kind[r].global /\ active # 0
    <3>1. active' = active + 1 /\ events' = events
      BY <1>3, <2>2 DEF Begin
    <3>2. active' \in Int /\ ((active' >= 1) <=> (active >= 1))
      BY <1>1, <2>2, <3>1
    <3> QED
      BY <3>1, <3>2, AlternatingSame
  <2>3. CASE ~kind[r].global
    BY <1>3, <1>2, <2>3 DEF Begin
  <2> QED
    BY <2>1, <2>2, <2>3
<1>4. CASE CountOff
  <2>1. /\ active' = active - 1
        /\ events' = IF active = 1 THEN Append(events, "ajaxStop") ELSE events
    BY <1>4 DEF CountOff
  <2>2. CASE active = 1
    BY <1>1, <2>1, <2>2, AlternatingAfter
  <2>3. CASE active # 1
    <3>1. active' \in Int /\ ((active' >= 1) <=> (active >= 1))
      BY <1>1, <2>1, <2>3
    <3> QED
      BY <2>1, <2>3, <3>1, AlternatingSame
  <2> QED
    BY <2>2, <2>3
<1>5. ASSUME NEW r \in Requests, Abort(r) \/ Respond(r) \/ TimeOut(r) PROVE Alternating'
  BY <1>2, <1>5 DEF Abort, Respond, TimeOut, Stop
<1>6. CASE Returns /\ ~CountOff
  BY <1>2, <1>6 DEF Returns, AfterStart, Cancel, AfterBeforeSend, AfterAjaxSend, AfterSettle,
     AfterResult, AfterComplete, AfterStop
<1>7. CASE Throw \/ UNCHANGED vars
  BY <1>2, <1>7 DEF Throw, vars
<1> QED
  BY <1>3, <1>4, <1>5, <1>6, <1>7 DEF Next

\* ajaxStart and ajaxStop alternate, whatever their handlers do, even if they
\* throw, abort or make requests of their own.
THEOREM StartsAndStopsAlternate == Spec => []StartStopAlternate
<1>1. Init => Alternating
  BY DEF Init, Alternating, StartStopAlternate
<1>2. Alternating /\ [Next]_vars => Alternating'
  BY AlternatingKept
<1>3. Alternating => StartStopAlternate
  BY DEF Alternating
<1> QED
  BY <1>1, <1>2, <1>3, PTL DEF Spec

-----------------------------------------------------------------------------
(* jQuery.active. *)

Counted == {r \in Requests : Counts(r)}

CountInv ==
    /\ \A r \in Requests : Orderly(r)
    /\ IsFiniteSet(Counted) /\ active = Cardinality(Counted)

LEMMA CountSame ==
  ASSUME CountInv, NEW r \in Requests, Calm(r), active' = active
  PROVE  CountInv'
<1>1. \A q \in Requests : Orderly(q)' /\ (Counts(q)' <=> Counts(q))
  BY DEF CountInv, Calm, Elsewhere
<1>2. Counted' = Counted
  BY <1>1 DEF Counted
<1> QED
  BY <1>1, <1>2 DEF CountInv

LEMMA CountMore ==
  ASSUME CountInv, NEW r \in Requests, Elsewhere(r), Orderly(r)', ~Counts(r), Counts(r)',
         active' = active + 1
  PROVE  CountInv'
<1>1. \A q \in Requests : Orderly(q)'
  BY DEF CountInv, Elsewhere
<1>2. Counted' = Counted \cup {r} /\ r \notin Counted
  BY DEF Counted, Elsewhere
<1>3. IsFiniteSet(Counted \cup {r}) /\ Cardinality(Counted \cup {r}) = Cardinality(Counted) + 1
  BY <1>2, FS_AddElement DEF CountInv
<1> QED
  BY <1>1, <1>2, <1>3 DEF CountInv

LEMMA CountLess ==
  ASSUME CountInv, NEW r \in Requests, Elsewhere(r), Orderly(r)', Counts(r), ~Counts(r)',
         active' = active - 1
  PROVE  CountInv'
<1>1. \A q \in Requests : Orderly(q)'
  BY DEF CountInv, Elsewhere
<1>2. Counted' = Counted \ {r} /\ r \in Counted
  BY DEF Counted, Elsewhere
<1>3. IsFiniteSet(Counted \ {r}) /\ Cardinality(Counted \ {r}) = Cardinality(Counted) - 1
  BY <1>2, FS_RemoveElement DEF CountInv
<1> QED
  BY <1>1, <1>2, <1>3 DEF CountInv

LEMMA CountKept ==
  ASSUME IInv, CountInv, [Next]_vars, ~AbortInSend, ~MayThrow
  PROVE  CountInv'
<1>1. ASSUME NEW r \in Requests, Begin(r) PROVE CountInv'
  <2>1. /\ Elsewhere(r) /\ Orderly(r)' /\ ~Counts(r) /\ (Counts(r)' <=> kind[r].global)
        /\ active' = IF kind[r].global THEN active + 1 ELSE active
    BY <1>1, BeginKept DEF Begin
  <2>2. CASE kind[r].global
    BY <2>1, <2>2, CountMore
  <2>3. CASE ~kind[r].global
    BY <2>1, <2>3, CountSame DEF Calm
  <2> QED
    BY <2>2, <2>3
<1>2. ASSUME NEW r \in Requests, Abort(r) \/ Respond(r) \/ TimeOut(r) PROVE CountInv'
  <2>1. Calm(r)
    BY <1>2, StopKept, RespondKept
  <2>2. active' = active
    BY <1>2 DEF Abort, Respond, TimeOut, Stop
  <2> QED
    BY <2>1, <2>2, CountSame
<1>3. CASE AfterStart \/ Cancel \/ AfterBeforeSend \/ AfterAjaxSend
  <2>1. PICK r \in Requests : Calm(r)
    BY <1>3, AfterStartKept, CancelKept, AfterBeforeSendKept, AfterAjaxSendKept
  <2>2. active' = active
    BY <1>3 DEF AfterStart, Cancel, AfterBeforeSend, AfterAjaxSend
  <2> QED
    BY <2>1, <2>2, CountSame
<1>4. CASE AfterSettle \/ AfterResult
  <2>1. PICK r \in Requests : LateCounts(r)
    BY <1>4, OutcomeToldKept
  <2>2. /\ Top.at \in Ending /\ active' = active
        /\ \E at \in {"result", "complete", "ajaxComplete"} : calls' = NextHandler(at)
    BY <1>4 DEF AfterSettle, AfterResult, Running, Ending
  <2>3. {"result", "complete", "ajaxComplete"} \subseteq Late \cap Ending
    BY DEF Late, Ending
  <2>4. Calm(r)
    BY <2>1, <2>2, <2>3 DEF LateCounts, Calm
  <2> QED
    BY <2>2, <2>4, CountSame
<1>5. CASE AfterComplete
  <2>1. PICK r \in Requests : LateCounts(r)
    BY <1>5, LastHandlersKept
  <2>2. /\ Top.at \in Ending /\ active' = active
        /\ calls' = IF kind[r].global THEN NextHandler("ajaxComplete") ELSE Front(calls)
    BY <1>5, <2>1 DEF AfterComplete, Running, Ending, LateCounts
  <2>3. "ajaxComplete" \in Late \cap Ending
    BY DEF Late, Ending
  <2>4. Calm(r)
    BY <2>1, <2>2, <2>3 DEF LateCounts, Calm
  <2> QED
    BY <2>2, <2>4, CountSame
<1>6. CASE CountOff
  <2>1. PICK r \in Requests : LateCounts(r)
    BY <1>6, LastHandlersKept
  <2>2. /\ calls # <<>> /\ Top.at = "ajaxComplete" /\ active' = active - 1
        /\ calls' = NextHandler("ajaxStop") \/ calls' = Front(calls)
    BY <1>6 DEF CountOff, Running
  <2>3. "ajaxComplete" \in Ending /\ "ajaxStop" \in Late /\ "ajaxStop" \notin Ending
    BY DEF Late, Ending
  <2>4. r = Top.req /\ FrameRight(r, Top.at)
    BY <2>1, <2>2, TopIs DEF LateCounts
  <2>5. kind[r].global
    BY <2>2, <2>4 DEF FrameRight
  <2>6. Elsewhere(r) /\ Orderly(r)' /\ Counts(r) /\ ~Counts(r)'
    BY <2>1, <2>2, <2>3, <2>5 DEF LateCounts, CountInv
  <2> QED
    BY <2>2, <2>6, CountLess
<1>7. CASE AfterStop
  <2>1. PICK r \in Requests : LateCounts(r)
    BY <1>7, LastHandlersKept
  <2>2. Top.at = "ajaxStop" /\ active' = active /\ calls' = Front(calls)
    BY <1>7 DEF AfterStop, Running
  <2>3. "ajaxStop" \notin Ending
    BY DEF Ending
  <2>4. Calm(r)
    BY <2>1, <2>2, <2>3 DEF LateCounts, Calm
  <2> QED
    BY <2>2, <2>4, CountSame
<1>8. CASE UNCHANGED vars
  <2>1. kind' = kind /\ phase' = phase /\ state' = state /\ calls' = calls /\ active' = active
    BY <1>8 DEF vars, request
  <2>2. /\ \A r : Counts(r)' <=> Counts(r)
        /\ \A r : Orderly(r)' <=> Orderly(r)
    BY <2>1 DEF Counts, Orderly, Holds
  <2>3. Counted' = Counted
    BY <2>2 DEF Counted
  <2> QED
    BY <2>1, <2>2, <2>3 DEF CountInv
<1> QED
  BY <1>1, <1>2, <1>3, <1>4, <1>5, <1>6, <1>7, <1>8 DEF Next, Returns, Throw

\* On a page whose handlers return, and whose ajaxSend handlers leave the request
\* alone that they are told of, jQuery.active is exact whenever no handler runs.
THEOREM ActiveIsExact ==
  KindsAssumption /\ ~AbortInSend /\ ~MayThrow => (Spec => []ActiveExact)
<1> SUFFICES ASSUME KindsAssumption, ~AbortInSend, ~MayThrow PROVE Spec => []ActiveExact
  OBVIOUS
<1>1. Init => CountInv
  <2> SUFFICES ASSUME Init PROVE CountInv
    OBVIOUS
  <2>1. DOMAIN calls = {} /\ active = 0
    BY DEF Init
  <2>2. Counted = {}
    BY DEF Init, Counted, Counts
  <2>3. IsFiniteSet({}) /\ Cardinality({}) = 0
    BY FS_EmptySet
  <2> QED
    BY <2>1, <2>2, <2>3 DEF CountInv, Orderly, Holds
<1>2. IInv /\ CountInv /\ [Next]_vars => CountInv'
  BY CountKept
<1>3. IInv /\ CountInv => ActiveExact
  <2> SUFFICES ASSUME IInv, CountInv, calls = <<>>
               PROVE  active = Cardinality({r \in Requests :
                               kind[r].global /\ phase[r] # "none" /\ state[r] < 2})
    BY DEF ActiveExact
  <2>1. ASSUME NEW r \in Requests PROVE state[r] < 2 <=> state[r] # 2
    <3>1. state[r] = 0 \/ state[r] = 1 \/ state[r] = 2
      BY DEF IInv, Typed
    <3> QED
      BY <3>1
  <2>2. \A r, at : ~Holds(r, at)
    BY DEF Holds
  <2>3. Counted = {r \in Requests : kind[r].global /\ phase[r] # "none" /\ state[r] < 2}
    BY <2>1, <2>2 DEF Counted, Counts
  <2> QED
    BY <2>3 DEF CountInv
<1> QED
  BY <1>1, <1>2, <1>3, AjaxInvariant, PTL DEF Spec
=============================================================================
