-------------------------- MODULE Accounts_proofs --------------------------
(***************************************************************************)
(* For any number of requests and names: one account per name, and ids     *)
(* answered to register that stay those of the name.  What carries the     *)
(* proof is that a row read before and saved after other requests still    *)
(* has the name of the row it overwrites, because no request changes one.  *)
(* The second half adds the order in time: what was saved last stays.      *)
(***************************************************************************)
EXTENDS Accounts, WellFoundedInduction, TLAPS

Rows == [username : Names \cup {NoOne}, name : Requests \cup {NoOne}, partner : Nat]
PhotoRows == [userId : Nat, photo : Requests]
Pcs == {"idle", "insert", "user2", "save", "photo", "savePhoto", "answered"}
AllKinds == {"none", "register", "addPartner", "updateUser", "addPhoto"}
Answers == {"none", "ok", "error", "duplicate", "wrong password"}
Reqs == [kind : AllKinds, pc : Pcs, name : Names \cup {NoOne}, id : Nat,
         other : Nat, row : Rows, photo : Nat, answer : Answers]

Typed ==
    /\ users \in Seq(Rows)
    /\ photos \in Seq(PhotoRows)
    /\ req \in [Requests -> Reqs]

UniqueNames ==
    \A k, l \in DOMAIN users : users[k].username = users[l].username => k = l

\* What a request is at each of its steps.
AtStep(r) ==
    /\ req[r].pc = "insert" => req[r].kind = "register" /\ req[r].answer = "none"
    /\ req[r].pc \in {"user2", "save"} =>
          /\ req[r].kind \in {"addPartner", "updateUser"}
          /\ req[r].id \in DOMAIN users
          /\ req[r].row.username = users[req[r].id].username
    /\ req[r].pc \in {"photo", "savePhoto"} => req[r].kind = "addPhoto"

\* An answer to register names the account.
Registered(r) ==
    req[r].kind = "register" /\ req[r].answer \in {"ok", "duplicate"} =>
        /\ req[r].id \in DOMAIN users
        /\ users[req[r].id].username = req[r].name

OneCreator ==
    \A r, q \in Requests :
        Done(r, "register") /\ Done(q, "register") /\ r # q => req[r].name # req[q].name

\* The inductive invariant.
IInv ==
    /\ Typed
    /\ UniqueNames
    /\ \A r \in Requests : AtStep(r)
    /\ \A r \in Requests : Registered(r)
    /\ OneCreator

-----------------------------------------------------------------------------
\* A sequence with one of its places set stays one over the same set.
LEMMA SeqExcept ==
    ASSUME NEW S, NEW s \in Seq(S), NEW i \in Nat, NEW e \in S
    PROVE  [s EXCEPT ![i] = e] \in Seq(S)
<1>1. CASE i \in DOMAIN s
  BY <1>1
<1>2. CASE i \notin DOMAIN s
  <2> DEFINE t == [s EXCEPT ![i] = e]
  <2>1. DOMAIN s = 1 .. Len(s) /\ Len(s) \in Nat /\ \A k \in DOMAIN s : s[k] \in S
    OBVIOUS
  <2>2. t = [k \in 1 .. Len(s) |-> s[k]]
    BY <1>2, <2>1
  <2>3. [k \in 1 .. Len(s) |-> s[k]] \in Seq(S)
    BY <2>1
  <2> QED BY <2>2, <2>3
<1> QED BY <1>1, <1>2

\* The row an id found by name is that of the name; 0 is found for none.
LEMMA IdOfFinds ==
    ASSUME users \in Seq(Rows), NEW name
    PROVE  /\ IdOf(name) # 0 => /\ IdOf(name) \in DOMAIN users
                                /\ users[IdOf(name)].username = name
           /\ IdOf(name) = 0 => \A k \in DOMAIN users : users[k].username # name
<1>1. DOMAIN users = 1 .. Len(users) /\ Len(users) \in Nat
  OBVIOUS
<1>2. CASE \E k \in DOMAIN users : users[k].username = name
  <2>1. IdOf(name) = CHOOSE k \in DOMAIN users : users[k].username = name
    BY <1>2 DEF IdOf
  <2>2. IdOf(name) \in DOMAIN users /\ users[IdOf(name)].username = name
    BY <1>2, <2>1
  <2> QED BY <1>1, <2>2
<1>3. CASE ~ \E k \in DOMAIN users : users[k].username = name
  BY <1>3 DEF IdOf
<1> QED BY <1>2, <1>3

\* The ids and names of the rows there are stay, so what was said of them does.
LEMMA KeptForOthers ==
    ASSUME IInv, NEW r \in Requests, NEW next \in Reqs,
           req' = [req EXCEPT ![r] = next],
           users' \in Seq(Rows),
           DOMAIN users \subseteq DOMAIN users',
           \A k \in DOMAIN users : users'[k].username = users[k].username
    PROVE  /\ req' \in [Requests -> Reqs]
           /\ req'[r] = next
           /\ \A q \in Requests \ {r} : req'[q] = req[q]
           /\ \A q \in Requests \ {r} : AtStep(q)' /\ Registered(q)'
<1>1. /\ req' \in [Requests -> Reqs]
      /\ req'[r] = next
      /\ \A q \in Requests \ {r} : req'[q] = req[q]
  BY DEF IInv, Typed
<1>2. ASSUME NEW q \in Requests \ {r}
      PROVE  AtStep(q)' /\ Registered(q)'
  <2>1. AtStep(q) /\ Registered(q) /\ req'[q] = req[q]
    BY <1>1 DEF IInv
  <2>2. AtStep(q)'
    BY <2>1 DEF AtStep
  <2>3. Registered(q)'
    BY <2>1 DEF Registered
  <2> QED BY <2>2, <2>3
<1> QED BY <1>1, <1>2

\* A step of a request that is not told it created an account, and that leaves
\* the names of the rows, keeps the invariant if what it becomes is right.
LEMMA QuietStep ==
    ASSUME IInv, NEW r \in Requests, NEW next \in Reqs,
           req' = [req EXCEPT ![r] = next],
           photos' \in Seq(PhotoRows),
           users' \in Seq(Rows),
           DOMAIN users' = DOMAIN users,
           \A k \in DOMAIN users : users'[k].username = users[k].username,
           ~ (next.kind = "register" /\ next.answer = "ok"),
           AtStep(r)', Registered(r)'
    PROVE  IInv'
<1>1. /\ req' \in [Requests -> Reqs]
      /\ req'[r] = next
      /\ \A q \in Requests \ {r} : req'[q] = req[q]
      /\ \A q \in Requests \ {r} : AtStep(q)' /\ Registered(q)'
  BY KeptForOthers
<1>2. Typed'
  BY <1>1 DEF Typed
<1>3. UniqueNames'
  BY DEF IInv, UniqueNames
<1>4. \A q \in Requests : AtStep(q)' /\ Registered(q)'
  BY <1>1
<1>5. OneCreator'
  <2>1. \A q \in Requests : Done(q, "register")' => q # r /\ Done(q, "register") /\ req'[q] = req[q]
    BY <1>1 DEF Done
  <2> QED BY <2>1 DEF IInv, OneCreator
<1> QED BY <1>2, <1>3, <1>4, <1>5 DEF IInv

\* An answer is one change of the request's own record.
LEMMA AnswerIs ==
    ASSUME NEW r \in Requests, NEW answer \in Answers, NEW id \in Nat,
           Typed, Answer(r, answer, id)
    PROVE  LET next == [req[r] EXCEPT !.pc = "answered", !.answer = answer, !.id = id] IN
           /\ next \in Reqs
           /\ req' = [req EXCEPT ![r] = next]
BY DEF Answer, Typed, Reqs, Pcs

LEMMA IdleIsReq == Idle \in Reqs
<1>1. NoOne \in Names \cup {NoOne} /\ NoOne \in Requests \cup {NoOne}
  OBVIOUS
<1>2. User(NoOne, NoOne) \in Rows
  BY <1>1 DEF User, Rows
<1> QED BY <1>1, <1>2 DEF Idle, Reqs, AllKinds, Pcs, Answers

\* The photo found for a user is one of the rows: of those of the user there is
\* a first.
LEMMA FirstPhotoIsNat ==
    ASSUME Typed, NEW id
    PROVE  FirstPhoto(id) \in Nat
<1> DEFINE T == {k \in DOMAIN photos : photos[k].userId = id}
<1>1. T \subseteq Nat /\ DOMAIN photos = 1 .. Len(photos) /\ Len(photos) \in Nat
  BY DEF Typed
<1>2. CASE T = {}
  BY <1>2 DEF FirstPhoto
<1>3. CASE T # {}
  <2>1. PICK k \in T : \A l \in T : ~ (<<l, k>> \in OpToRel(<, Nat))
    BY <1>1, <1>3, NatLessThanWellFounded, WFMin
  <2>2. \A l \in T : ~ (l < k)
    BY <1>1, <2>1 DEF OpToRel
  <2>3. \A l \in 1 .. k - 1 : photos[l].userId # id
    BY <1>1, <2>2
  <2> QED BY <1>1, <2>1, <2>3 DEF FirstPhoto
<1> QED BY <1>2, <1>3

LEMMA InvInit == Init => IInv
<1> SUFFICES ASSUME Init PROVE IInv
  OBVIOUS
<1>1. Typed
  BY IdleIsReq DEF Init, Typed
<1>2. UniqueNames
  BY DEF Init, UniqueNames
<1>3. \A r \in Requests : req[r].kind = "none" /\ req[r].pc = "idle"
  BY DEF Init, Idle
<1>4. (\A r \in Requests : AtStep(r)) /\ (\A r \in Requests : Registered(r)) /\ OneCreator
  BY <1>3 DEF AtStep, Registered, OneCreator, Done
<1> QED BY <1>1, <1>2, <1>4 DEF IInv

LEMMA RegisterStep ==
    ASSUME IInv, NEW r \in Requests, Register(r)
    PROVE  IInv'
<1>1. PICK name \in Names :
        LET to == [Idle EXCEPT !.kind = "register", !.name = name]
            id == IdOf(name)
        IN IF id = 0
           THEN Begin(r, [to EXCEPT !.pc = "insert"])
           ELSE Begin(r, [to EXCEPT !.pc = "answered", !.answer = "duplicate", !.id = id])
  BY DEF Register
<1>2. users' = users /\ photos' = photos /\ Typed
  BY DEF Register, IInv
<1>3. CASE IdOf(name) = 0
  <2> DEFINE next == [Idle EXCEPT !.kind = "register", !.name = name, !.pc = "insert"]
  <2>1. next \in Reqs
    BY IdleIsReq DEF Reqs, AllKinds, Pcs
  <2>2. req' = [req EXCEPT ![r] = next]
    BY <1>1, <1>3 DEF Begin
  <2>3. req'[r] = next
    BY <1>2, <2>2 DEF Typed
  <2>4. AtStep(r)' /\ Registered(r)'
    BY <2>3 DEF AtStep, Registered, Idle
  <2>5. next.answer = "none"
    BY DEF Idle
  <2> HIDE DEF next
  <2> QED BY <1>2, <2>1, <2>2, <2>4, <2>5, QuietStep DEF Typed
<1>4. CASE IdOf(name) # 0
  <2> DEFINE next == [Idle EXCEPT !.kind = "register", !.name = name, !.pc = "answered",
                                  !.answer = "duplicate", !.id = IdOf(name)]
  <2>0. IdOf(name) \in DOMAIN users /\ users[IdOf(name)].username = name
    BY <1>2, <1>4, IdOfFinds DEF Typed
  <2>1. next \in Reqs
    <3>1. IdOf(name) \in Nat
      BY <1>2, <2>0 DEF Typed
    <3> QED BY <3>1, IdleIsReq DEF Reqs, AllKinds, Pcs, Answers
  <2>2. req' = [req EXCEPT ![r] = next]
    BY <1>1, <1>4 DEF Begin
  <2>3. req'[r] = next
    BY <1>2, <2>2 DEF Typed
  <2>4. AtStep(r)' /\ Registered(r)'
    BY <1>2, <2>0, <2>3 DEF AtStep, Registered, Idle
  <2>5. next.answer = "duplicate"
    BY DEF Idle
  <2> HIDE DEF next
  <2> QED BY <1>2, <2>1, <2>2, <2>4, <2>5, QuietStep DEF Typed
<1> QED BY <1>3, <1>4

LEMMA InsertStep ==
    ASSUME IInv, NEW r \in Requests, Insert(r)
    PROVE  IInv'
<1>0. /\ Typed /\ photos' = photos
      /\ req[r].kind = "register" /\ req[r].answer = "none"
      /\ req[r].pc = "insert" /\ req[r].name \in Names \cup {NoOne}
  BY DEF Insert, IInv, AtStep, Typed, Reqs
<1>1. CASE IdOf(req[r].name) # 0
  <2> DEFINE next == [req[r] EXCEPT !.pc = "answered", !.answer = "error", !.id = 0]
  <2>1. next \in Reqs /\ req' = [req EXCEPT ![r] = next] /\ users' = users
    BY <1>0, <1>1, AnswerIs DEF Insert, Answers
  <2>2. req'[r] = next /\ next.pc = "answered" /\ next.answer = "error"
    BY <1>0, <2>1 DEF Typed, Reqs
  <2>3. AtStep(r)' /\ Registered(r)'
    BY <2>2 DEF AtStep, Registered
  <2> HIDE DEF next
  <2> QED BY <1>0, <2>1, <2>2, <2>3, QuietStep DEF Typed
<1>2. CASE IdOf(req[r].name) = 0
  <2> DEFINE n == Len(users) + 1
             row == User(req[r].name, r)
             next == [req[r] EXCEPT !.pc = "answered", !.answer = "ok", !.id = n]
  <2>1. row \in Rows /\ row.username = req[r].name /\ n \in Nat
    BY <1>0 DEF User, Rows, Typed
  <2>2. /\ users' \in Seq(Rows)
        /\ DOMAIN users = 1 .. Len(users)
        /\ DOMAIN users' = 1 .. n
        /\ users'[n] = row
        /\ \A k \in DOMAIN users : users'[k] = users[k]
    <3>1. users' = Append(users, row)
      BY <1>2 DEF Insert
    <3> HIDE DEF row
    <3> QED BY <1>0, <2>1, <3>1 DEF Typed
  <2>3. next \in Reqs /\ req' = [req EXCEPT ![r] = next]
    BY <1>0, <1>2, <2>1, AnswerIs DEF Insert, Answers
  <2>4. /\ req'[r] = next /\ next.pc = "answered" /\ next.answer = "ok"
        /\ next.id = n /\ next.name = req[r].name /\ next.kind = "register"
    BY <1>0, <2>3 DEF Typed, Reqs
  <2>5. \A k \in DOMAIN users : users[k].username # req[r].name
    BY <1>0, <1>2, IdOfFinds DEF Typed
  <2> HIDE DEF row, next
  <2>6. DOMAIN users \subseteq DOMAIN users' /\ n \in DOMAIN users'
    BY <1>0, <2>2 DEF Typed
  <2>7. /\ req' \in [Requests -> Reqs]
        /\ \A q \in Requests \ {r} : req'[q] = req[q]
        /\ \A q \in Requests \ {r} : AtStep(q)' /\ Registered(q)'
    BY <2>2, <2>3, <2>6, KeptForOthers
  <2>8. Typed'
    BY <1>0, <2>2, <2>7 DEF Typed
  <2>9. UniqueNames'
    <3>1. \A k \in DOMAIN users' : k = n \/ k \in DOMAIN users
      BY <1>0, <2>2 DEF Typed
    <3> QED BY <2>1, <2>2, <2>5, <3>1 DEF IInv, UniqueNames
  <2>10. AtStep(r)' /\ Registered(r)'
    BY <2>1, <2>2, <2>4, <2>6 DEF AtStep, Registered
  <2>11. OneCreator'
    <3>1. \A q \in Requests \ {r} : Done(q, "register")' =>
              /\ Done(q, "register") /\ req'[q] = req[q]
              /\ req[q].name # req[r].name
      BY <2>5, <2>7 DEF Done, IInv, Registered
    <3> QED BY <2>4, <3>1 DEF IInv, OneCreator
  <2> QED BY <2>7, <2>8, <2>9, <2>10, <2>11 DEF IInv
<1> QED BY <1>1, <1>2

LEMMA ReadUser1Step ==
    ASSUME IInv, NEW r \in Requests, ReadUser1(r)
    PROVE  IInv'
<1>1. PICK name \in Names : IdOf(name) # 0 /\
          Begin(r, [Idle EXCEPT !.kind = "addPartner", !.pc = "user2", !.id = IdOf(name),
                                !.row = users[IdOf(name)]])
  BY DEF ReadUser1
<1>2. users' = users /\ photos' = photos /\ Typed
  BY DEF ReadUser1, IInv
<1>3. IdOf(name) \in DOMAIN users /\ IdOf(name) \in Nat /\ users[IdOf(name)] \in Rows
  BY <1>1, <1>2, IdOfFinds DEF Typed
<1> DEFINE next == [Idle EXCEPT !.kind = "addPartner", !.pc = "user2", !.id = IdOf(name),
                                !.row = users[IdOf(name)]]
<1>4. next \in Reqs
  BY <1>3, IdleIsReq DEF Reqs, AllKinds, Pcs
<1>5. req' = [req EXCEPT ![r] = next]
  BY <1>1 DEF Begin
<1>6. req'[r] = next
  BY <1>2, <1>5 DEF Typed
<1>7. AtStep(r)' /\ Registered(r)'
  BY <1>2, <1>3, <1>6 DEF AtStep, Registered, Idle
<1>8. next.answer = "none"
  BY DEF Idle
<1> HIDE DEF next
<1> QED BY <1>2, <1>4, <1>5, <1>7, <1>8, QuietStep DEF Typed

LEMMA ReadUser2Step ==
    ASSUME IInv, NEW r \in Requests, ReadUser2(r)
    PROVE  IInv'
<1>1. PICK name \in Names :
          IF IdOf(name) = 0
          THEN Answer(r, "error", req[r].id)
          ELSE Step(r, [req[r] EXCEPT !.pc = "save", !.other = IdOf(name),
                                      !.row.partner = IdOf(name)])
  BY DEF ReadUser2
<1>2. /\ users' = users /\ photos' = photos /\ Typed /\ req[r].pc = "user2"
      /\ req[r] \in Reqs
      /\ req[r].kind \in {"addPartner", "updateUser"}
      /\ req[r].id \in DOMAIN users
      /\ req[r].row.username = users[req[r].id].username
  BY DEF ReadUser2, IInv, AtStep, Typed
<1>3. CASE IdOf(name) = 0
  <2> DEFINE next == [req[r] EXCEPT !.pc = "answered", !.answer = "error", !.id = req[r].id]
  <2>0. req[r].id \in Nat /\ "error" \in Answers /\ Answer(r, "error", req[r].id)
    BY <1>1, <1>2, <1>3 DEF Reqs, Answers
  <2>1. next \in Reqs /\ req' = [req EXCEPT ![r] = next]
    BY <1>2, <2>0 DEF Answer, Typed, Reqs, Pcs, Answers
  <2>2. req'[r] = next /\ next.pc = "answered" /\ next.answer = "error"
    BY <1>2, <2>1 DEF Typed, Reqs
  <2>3. AtStep(r)' /\ Registered(r)'
    BY <2>2 DEF AtStep, Registered
  <2> HIDE DEF next
  <2> QED BY <1>2, <2>1, <2>2, <2>3, QuietStep DEF Typed
<1>4. CASE IdOf(name) # 0
  <2> DEFINE next == [req[r] EXCEPT !.pc = "save", !.other = IdOf(name),
                                    !.row.partner = IdOf(name)]
  <2>0. IdOf(name) \in Nat
    BY <1>2, <1>4, IdOfFinds DEF Typed
  <2>1. next \in Reqs
    BY <1>2, <2>0 DEF Reqs, Rows, Pcs
  <2>2. req' = [req EXCEPT ![r] = next]
    BY <1>1, <1>4 DEF Step
  <2>3. req'[r] = next
    BY <1>2, <2>2 DEF Typed
  <2>4. /\ next.kind = req[r].kind /\ next.id = req[r].id /\ next.pc = "save"
        /\ next.row.username = req[r].row.username
    BY <1>2 DEF Reqs, Rows
  <2> HIDE DEF next
  <2>5. AtStep(r)' /\ Registered(r)'
    BY <1>2, <2>3, <2>4 DEF AtStep, Registered
  <2> QED BY <1>2, <2>1, <2>2, <2>4, <2>5, QuietStep DEF Typed
<1> QED BY <1>3, <1>4

LEMMA SaveUserStep ==
    ASSUME IInv, NEW r \in Requests, SaveUser(r)
    PROVE  IInv'
<1>1. /\ photos' = photos /\ Typed
      /\ req[r] \in Reqs
      /\ req[r].kind \in {"addPartner", "updateUser"}
      /\ req[r].id \in DOMAIN users /\ req[r].id \in Nat
      /\ req[r].row \in Rows
      /\ req[r].row.username = users[req[r].id].username
  BY DEF SaveUser, IInv, AtStep, Typed, Reqs
<1> DEFINE next == [req[r] EXCEPT !.pc = "answered", !.answer = "ok", !.id = req[r].id]
<1>2. next \in Reqs /\ req' = [req EXCEPT ![r] = next]
  BY <1>1, AnswerIs DEF SaveUser, Answers
<1>3. req'[r] = next /\ next.pc = "answered" /\ next.kind \in {"addPartner", "updateUser"}
  BY <1>1, <1>2 DEF Typed, Reqs
<1> HIDE DEF next
<1>4. /\ users' \in Seq(Rows)
      /\ DOMAIN users' = DOMAIN users
      /\ \A k \in DOMAIN users : users'[k].username = users[k].username
  <2>1. users' = [users EXCEPT ![req[r].id] = req[r].row]
    BY DEF SaveUser
  <2> QED BY <1>1, <2>1 DEF Typed
<1>5. AtStep(r)' /\ Registered(r)'
  BY <1>3 DEF AtStep, Registered
<1> QED BY <1>1, <1>2, <1>3, <1>4, <1>5, QuietStep DEF Typed

LEMMA ReadForUpdateStep ==
    ASSUME IInv, NEW r \in Requests, ReadForUpdate(r)
    PROVE  IInv'
<1>1. PICK id \in DOMAIN users, right \in BOOLEAN :
          LET to == [Idle EXCEPT !.kind = "updateUser", !.id = id] IN
          IF right
          THEN Begin(r, [to EXCEPT !.pc = "save", !.row = [users[id] EXCEPT !.name = r]])
          ELSE Begin(r, [to EXCEPT !.pc = "answered", !.answer = "wrong password"])
  BY DEF ReadForUpdate
<1>2. users' = users /\ photos' = photos /\ Typed /\ id \in Nat /\ users[id] \in Rows
  BY DEF ReadForUpdate, IInv, Typed
<1>3. CASE right
  <2> DEFINE row == [users[id] EXCEPT !.name = r]
             next == [Idle EXCEPT !.kind = "updateUser", !.id = id, !.pc = "save",
                                  !.row = row]
  <2>0. row \in Rows /\ row.username = users[id].username
    BY <1>2 DEF Rows
  <2>1. req' = [req EXCEPT ![r] = next]
    BY <1>1, <1>3 DEF Begin
  <2> HIDE DEF row
  <2>2. next \in Reqs
    BY <1>2, <2>0, IdleIsReq DEF Reqs, AllKinds, Pcs
  <2>3. req'[r] = next
    BY <1>2, <2>1 DEF Typed
  <2>4. AtStep(r)' /\ Registered(r)'
    BY <1>2, <2>0, <2>3 DEF AtStep, Registered, Idle
  <2>5. next.answer = "none"
    BY DEF Idle
  <2> HIDE DEF next
  <2> QED BY <1>2, <2>1, <2>2, <2>4, <2>5, QuietStep DEF Typed
<1>4. CASE ~right
  <2> DEFINE next == [Idle EXCEPT !.kind = "updateUser", !.id = id, !.pc = "answered",
                                  !.answer = "wrong password"]
  <2>1. req' = [req EXCEPT ![r] = next]
    BY <1>1, <1>4 DEF Begin
  <2>2. next \in Reqs
    BY <1>2, IdleIsReq DEF Reqs, AllKinds, Pcs, Answers
  <2>3. req'[r] = next
    BY <1>2, <2>1 DEF Typed
  <2>4. AtStep(r)' /\ Registered(r)'
    BY <2>3 DEF AtStep, Registered, Idle
  <2>5. next.answer = "wrong password"
    BY DEF Idle
  <2> HIDE DEF next
  <2> QED BY <1>2, <2>1, <2>2, <2>4, <2>5, QuietStep DEF Typed
<1> QED BY <1>3, <1>4

LEMMA ReadPhotoUserStep ==
    ASSUME IInv, NEW r \in Requests, ReadPhotoUser(r)
    PROVE  IInv'
<1>1. PICK id \in DOMAIN users :
          Begin(r, [Idle EXCEPT !.kind = "addPhoto", !.pc = "photo", !.id = id])
  BY DEF ReadPhotoUser
<1>2. users' = users /\ photos' = photos /\ Typed /\ id \in Nat
  BY DEF ReadPhotoUser, IInv, Typed
<1> DEFINE next == [Idle EXCEPT !.kind = "addPhoto", !.pc = "photo", !.id = id]
<1>3. req' = [req EXCEPT ![r] = next]
  BY <1>1 DEF Begin
<1>4. next \in Reqs
  BY <1>2, IdleIsReq DEF Reqs, AllKinds, Pcs
<1>5. req'[r] = next
  BY <1>2, <1>3 DEF Typed
<1>6. AtStep(r)' /\ Registered(r)'
  BY <1>5 DEF AtStep, Registered, Idle
<1>7. next.answer = "none"
  BY DEF Idle
<1> HIDE DEF next
<1> QED BY <1>2, <1>3, <1>4, <1>6, <1>7, QuietStep DEF Typed

LEMMA ReadPhotoStep ==
    ASSUME IInv, NEW r \in Requests, ReadPhoto(r)
    PROVE  IInv'
<1>1. /\ users' = users /\ photos' = photos /\ Typed /\ req[r] \in Reqs
      /\ req[r].kind = "addPhoto"
  BY DEF ReadPhoto, IInv, Typed, AtStep
<1>2. FirstPhoto(req[r].id) \in Nat
  BY <1>1, FirstPhotoIsNat
<1> DEFINE next == [req[r] EXCEPT !.pc = "savePhoto", !.photo = FirstPhoto(req[r].id)]
<1>3. req' = [req EXCEPT ![r] = next]
  BY DEF ReadPhoto, Step
<1>4. next \in Reqs /\ next.kind = "addPhoto" /\ next.pc = "savePhoto"
  BY <1>1, <1>2 DEF Reqs, Pcs
<1>5. req'[r] = next
  BY <1>1, <1>3 DEF Typed
<1> HIDE DEF next
<1>6. AtStep(r)' /\ Registered(r)'
  BY <1>4, <1>5 DEF AtStep, Registered
<1> QED BY <1>1, <1>3, <1>4, <1>6, QuietStep DEF Typed

LEMMA SavePhotoStep ==
    ASSUME IInv, NEW r \in Requests, SavePhoto(r)
    PROVE  IInv'
<1>1. /\ users' = users /\ Typed /\ req[r] \in Reqs
      /\ req[r].kind = "addPhoto" /\ req[r].id \in Nat
  BY DEF SavePhoto, IInv, Typed, AtStep, Reqs
<1>2. photos' \in Seq(PhotoRows)
  <2>1. Photo(req[r].id, r) \in PhotoRows
    BY <1>1 DEF Photo, PhotoRows
  <2> DEFINE p == Photo(req[r].id, r)
  <2>2. photos' = Append(photos, p) \/ photos' = [photos EXCEPT ![req[r].photo] = p]
    BY DEF SavePhoto
  <2> HIDE DEF p
  <2>3. photos \in Seq(PhotoRows)
    BY <1>1 DEF Typed
  <2>4. p \in PhotoRows
    BY <2>1 DEF p
  <2>5. CASE photos' = Append(photos, p)
    BY <2>3, <2>4, <2>5
  <2>6. CASE photos' = [photos EXCEPT ![req[r].photo] = p]
    BY <1>1, <2>3, <2>4, <2>6, SeqExcept DEF Reqs
  <2> QED BY <2>2, <2>5, <2>6
<1> DEFINE next == [req[r] EXCEPT !.pc = "answered", !.answer = "ok", !.id = req[r].id]
<1>3. next \in Reqs /\ req' = [req EXCEPT ![r] = next]
  BY <1>1, AnswerIs, ZenonT(40) DEF SavePhoto, Answers
<1>4. req'[r] = next /\ next.pc = "answered" /\ next.kind = "addPhoto"
  BY <1>1, <1>3 DEF Typed, Reqs
<1> HIDE DEF next
<1>5. AtStep(r)' /\ Registered(r)'
  BY <1>4 DEF AtStep, Registered
<1> QED BY <1>1, <1>2, <1>3, <1>4, <1>5, QuietStep DEF Typed

LEMMA InvStep == IInv /\ [Next]_vars => IInv'
<1> SUFFICES ASSUME IInv, [Next]_vars PROVE IInv'
  OBVIOUS
<1>1. CASE Next
  <2>1. PICK r \in Requests :
          \/ Register(r) \/ Insert(r)
          \/ ReadUser1(r) \/ ReadUser2(r)
          \/ ReadForUpdate(r)
          \/ SaveUser(r)
          \/ ReadPhotoUser(r) \/ ReadPhoto(r) \/ SavePhoto(r)
    BY <1>1 DEF Next
  <2> QED BY <2>1, RegisterStep, InsertStep, ReadUser1Step, ReadUser2Step,
             ReadForUpdateStep, SaveUserStep, ReadPhotoUserStep, ReadPhotoStep,
             SavePhotoStep
<1>2. CASE UNCHANGED vars
  BY <1>2 DEF vars, IInv, Typed, UniqueNames, AtStep, Registered, OneCreator, Done
<1> QED BY <1>1, <1>2

\* The invariant holds of every execution.
THEOREM InvariantHolds == Spec => []IInv
BY InvInit, InvStep, PTL DEF Spec

\* However many requests register a name at the same time, it gets one account
\* and one of them is told that it made it (XmppResource.register).
THEOREM OneAccount == Spec => []OneAccountPerName
<1>1. IInv => OneAccountPerName
  BY DEF IInv, UniqueNames, OneCreator, OneAccountPerName
<1> QED BY <1>1, InvariantHolds, PTL

\* The id register answers with is that of the account of the name, and stays
\* so whatever row read before a later request saves over it.
THEOREM IdStaysOfName == Spec => []IdIsOfName
<1>1. IInv => IdIsOfName
  BY DEF IInv, Registered, IdIsOfName
<1> QED BY <1>1, InvariantHolds, PTL

\* Both: an account is its name's, one for each, for good.
THEOREM AccountsStandFirm == Spec => []AccountsStand
<1>1. OneAccountPerName /\ IdIsOfName => AccountsStand
  BY DEF AccountsStand
<1> QED BY <1>1, OneAccount, IdStaysOfName, PTL

-----------------------------------------------------------------------------
(* The order in time: the photo shown and the partner kept of a user are   *)
(* those of a request that no later one followed.                          *)

\* The rows a request has read, and what it is going to write, are within the
\* tables.
Ranges ==
    /\ \A k \in DOMAIN users :
          /\ users[k].username \in Names /\ users[k].name \in Requests
          /\ users[k].partner \in 0 .. Len(users)
    /\ \A k \in DOMAIN photos :
          photos[k].userId \in DOMAIN users /\ photos[k].photo \in Requests

InRange(r) ==
    /\ req[r].id \in 0 .. Len(users)
    /\ req[r].photo \in 0 .. Len(photos)
    /\ req[r].pc = "insert" => req[r].name \in Names
    /\ req[r].pc = "user2" => req[r].kind = "addPartner"
    /\ req[r].pc \in {"user2", "save"} =>
          /\ req[r].row.username \in Names /\ req[r].row.name \in Requests
          /\ req[r].row.partner \in 0 .. Len(users)
    /\ req[r].pc \in {"photo", "savePhoto"} => req[r].id \in DOMAIN users

\* The order kept is that of the steps taken.
Stamped(r) ==
    /\ began[r] \in Nat /\ ended[r] \in Nat
    /\ began[r] < now /\ ended[r] < now
    /\ (req[r].answer = "none") = (ended[r] = 0)
    /\ (req[r].answer = "none") = (req[r].pc # "answered")

\* The first row of a user in a table of photos, 0 if there is none: what
\* FirstPhoto finds in the table there is.
FirstIn(s, id) ==
    IF \E k \in DOMAIN s : s[k].userId = id
    THEN CHOOSE k \in DOMAIN s : s[k].userId = id /\ \A l \in 1 .. k - 1 : s[l].userId # id
    ELSE 0

Shown(s, id) == s[FirstIn(s, id)].photo

\* Every photo is that of a request that was answered.  The one shown is that
\* of a request that no other followed, also when one that found no photo is yet
\* to save its own: it began before the one shown was saved.
PhotoInv ==
    /\ \A k \in DOMAIN photos :
          /\ Done(photos[k].photo, "addPhoto")
          /\ req[photos[k].photo].id = photos[k].userId
    /\ \A q \in Requests :
          /\ Done(q, "addPhoto") =>
                /\ FirstIn(photos, req[q].id) # 0
                /\ began[q] <= ended[Shown(photos, req[q].id)]
          /\ req[q].pc = "savePhoto" =>
                \/ req[q].photo = FirstIn(photos, req[q].id)
                \/ req[q].photo = 0 /\ began[q] < ended[Shown(photos, req[q].id)]

\* An updateUser that saved the row it had read before r saved its own.
SavedBack(id, r) ==
    \E q \in Requests : /\ Done(q, "updateUser") /\ req[q].id = id
                        /\ began[q] < ended[r] /\ ended[r] < ended[q]

\* The partner in the table is that of a request that no other followed, or
\* one was saved back over it.
PartnerRight(id) ==
    Asked("addPartner", id) =>
        \E r \in Latest("addPartner", id) :
            users[id].partner = req[r].other \/ SavedBack(id, r)

\* What an updateUser has read was so, unless a partner has been saved since.
RowRight(u) ==
    /\ req[u].pc = "save" /\ req[u].kind = "addPartner" => req[u].row.partner = req[u].other
    /\ req[u].pc = "save" /\ req[u].kind = "updateUser" /\ Asked("addPartner", req[u].id) =>
          \E r \in Latest("addPartner", req[u].id) :
              \/ req[u].row.partner = req[r].other
              \/ SavedBack(req[u].id, r)
              \/ began[u] < ended[r]

PartnerInv ==
    /\ \A id \in DOMAIN users : PartnerRight(id)
    /\ \A u \in Requests : RowRight(u)

LatestInv ==
    /\ IInv
    /\ now \in Nat /\ now > 0
    /\ began \in [Requests -> Nat] /\ ended \in [Requests -> Nat]
    /\ Ranges
    /\ \A r \in Requests : InRange(r) /\ Stamped(r)
    /\ PhotoInv
    /\ PartnerInv

-----------------------------------------------------------------------------
IsFirst(s, id, k) ==
    /\ k \in DOMAIN s /\ k # 0
    /\ s[k].userId = id /\ \A l \in 1 .. k - 1 : s[l].userId # id

LEMMA FirstInIs ==
  ASSUME NEW s \in Seq(PhotoRows), NEW id
  PROVE  \/ FirstIn(s, id) = 0 /\ \A k \in DOMAIN s : s[k].userId # id
         \/ IsFirst(s, id, FirstIn(s, id))
<1> DEFINE T == {k \in DOMAIN s : s[k].userId = id}
<1>1. T \subseteq Nat \ {0} /\ DOMAIN s = 1 .. Len(s) /\ Len(s) \in Nat
  OBVIOUS
<1>2. CASE T = {}
  BY <1>2 DEF FirstIn
<1>3. CASE T # {}
  <2>1. PICK k \in T : \A l \in T : ~ (<<l, k>> \in OpToRel(<, Nat))
    BY <1>1, <1>3, NatLessThanWellFounded, WFMin
  <2>2. \A l \in T : ~ (l < k)
    BY <1>1, <2>1 DEF OpToRel
  <2>3. \A l \in 1 .. k - 1 : s[l].userId # id
    BY <1>1, <2>2
  <2> QED
    BY <1>1, <2>1, <2>3 DEF FirstIn, IsFirst
<1> QED
  BY <1>2, <1>3

LEMMA FirstIsOne ==
  ASSUME NEW s \in Seq(PhotoRows), NEW id, NEW k, IsFirst(s, id, k)
  PROVE  FirstIn(s, id) = k
<1>1. IsFirst(s, id, FirstIn(s, id))
  BY FirstInIs DEF IsFirst
<1>2. DOMAIN s = 1 .. Len(s) /\ Len(s) \in Nat
  OBVIOUS
<1> QED
  BY <1>1, <1>2 DEF IsFirst

\* A row put at the end is the first of its user only if there was none.
LEMMA FirstInAppend ==
  ASSUME NEW s \in Seq(PhotoRows), NEW p \in PhotoRows, NEW id
  PROVE  FirstIn(Append(s, p), id) =
            IF FirstIn(s, id) # 0 THEN FirstIn(s, id)
            ELSE IF p.userId = id THEN Len(s) + 1 ELSE 0
<1> DEFINE n == Len(s) + 1
           t == Append(s, p)
<1>1. /\ t \in Seq(PhotoRows) /\ Len(s) \in Nat
      /\ DOMAIN s = 1 .. Len(s) /\ DOMAIN t = 1 .. n
      /\ t[n] = p /\ \A k \in 1 .. Len(s) : t[k] = s[k]
  OBVIOUS
<1> HIDE DEF t
<1>2. CASE FirstIn(s, id) # 0
  <2>1. IsFirst(s, id, FirstIn(s, id))
    BY <1>2, FirstInIs
  <2>2. IsFirst(t, id, FirstIn(s, id))
    BY <1>1, <2>1 DEF IsFirst
  <2>3. FirstIn(t, id) = FirstIn(s, id)
    BY <1>1, <2>2, FirstIsOne
  <2> QED
    BY <1>2, <2>3 DEF t
<1>3. CASE FirstIn(s, id) = 0
  <2>1. \A k \in DOMAIN s : s[k].userId # id
    BY <1>3, FirstInIs DEF IsFirst
  <2>2. CASE p.userId = id
    <3>1. IsFirst(t, id, n)
      BY <1>1, <2>1, <2>2 DEF IsFirst
    <3>2. FirstIn(t, id) = n
      BY <1>1, <3>1, FirstIsOne
    <3> QED
      BY <1>3, <2>2, <3>2 DEF t
  <2>3. CASE p.userId # id
    <3>1. \A k \in DOMAIN t : t[k].userId # id
      BY <1>1, <2>1, <2>3
    <3>2. FirstIn(t, id) = 0
      BY <3>1 DEF FirstIn
    <3> QED
      BY <1>3, <2>3, <3>2 DEF t
  <2> QED
    BY <2>2, <2>3
<1> QED
  BY <1>2, <1>3

\* A row that another of its user is written over stays where it was found.
LEMMA FirstInExcept ==
  ASSUME NEW s \in Seq(PhotoRows), NEW f \in DOMAIN s, NEW p \in PhotoRows,
         p.userId = s[f].userId, NEW id
  PROVE  FirstIn([s EXCEPT ![f] = p], id) = FirstIn(s, id)
<1> DEFINE t == [s EXCEPT ![f] = p]
<1>1. /\ t \in Seq(PhotoRows) /\ DOMAIN t = DOMAIN s
      /\ DOMAIN s = 1 .. Len(s) /\ Len(s) \in Nat
      /\ \A k \in DOMAIN s : t[k].userId = s[k].userId
  OBVIOUS
<1> HIDE DEF t
<1>2. CASE FirstIn(s, id) = 0
  <2>1. \A k \in DOMAIN s : s[k].userId # id
    BY <1>2, FirstInIs DEF IsFirst
  <2>2. FirstIn(t, id) = 0
    BY <1>1, <2>1 DEF FirstIn
  <2> QED
    BY <1>2, <2>2 DEF t
<1>3. CASE FirstIn(s, id) # 0
  <2>1. IsFirst(s, id, FirstIn(s, id))
    BY <1>3, FirstInIs, SMTT(20)
  <2>2. IsFirst(t, id, FirstIn(s, id))
    BY <1>1, <2>1, SMTT(20) DEF IsFirst
  <2>3. FirstIn(t, id) = FirstIn(s, id)
    BY <1>1, <2>2, FirstIsOne
  <2> QED
    BY <2>3 DEF t
<1> QED
  BY <1>2, <1>3

LEMMA FirstPhotoIs ==
  ASSUME Typed, NEW id
  PROVE  /\ FirstPhoto(id) = FirstIn(photos, id)
         /\ \/ FirstPhoto(id) = 0 /\ \A k \in DOMAIN photos : photos[k].userId # id
            \/ IsFirst(photos, id, FirstPhoto(id))
<1>1. FirstPhoto(id) = FirstIn(photos, id)
  BY DEF FirstPhoto, FirstIn
<1> QED
  BY <1>1, FirstInIs DEF Typed

-----------------------------------------------------------------------------
(* What each action does, in terms of the request that takes the step.     *)

\* Only r moves, and it is answered or not.
Moved(r) ==
    /\ now' = now + 1
    /\ req' \in [Requests -> Reqs]
    /\ began' \in [Requests -> Nat] /\ ended' \in [Requests -> Nat]
    /\ req[r].pc # "answered"
    /\ \A q \in Requests \ {r} : req'[q] = req[q] /\ began'[q] = began[q] /\ ended'[q] = ended[q]
    /\ began'[r] \in {began[r], now}
    /\ \/ req'[r].answer = "none" /\ req'[r].pc # "answered" /\ ended'[r] = ended[r]
       \/ req'[r].answer # "none" /\ req'[r].pc = "answered" /\ ended'[r] = now

LEMMA RegisterDoes ==
  ASSUME LatestInv, NEW r \in Requests, Register(r)
  PROVE  /\ Moved(r) /\ users' = users /\ photos' = photos
         /\ req'[r].kind = "register" /\ req'[r].name \in Names /\ req'[r].photo = 0
         /\ req'[r].pc \in {"insert", "answered"}
         /\ req'[r].id \in {0} \cup DOMAIN users
<1>1. IInv'
  BY RegisterStep DEF LatestInv
<1>2. PICK name \in Names :
        LET to == [Idle EXCEPT !.kind = "register", !.name = name]
            id == IdOf(name)
        IN IF id = 0
           THEN Begin(r, [to EXCEPT !.pc = "insert"]) /\ UNCHANGED ended
           ELSE /\ Begin(r, [to EXCEPT !.pc = "answered", !.answer = "duplicate", !.id = id])
                /\ ended' = [ended EXCEPT ![r] = now]
  BY DEF Register
<1>3. users' = users /\ photos' = photos /\ req[r].pc = "idle" /\ Typed /\ Typed'
  BY <1>1 DEF Register, IInv, LatestInv
<1>4. IdOf(name) \in {0} \cup DOMAIN users
  BY <1>3, IdOfFinds DEF Typed
<1>5. began' = [began EXCEPT ![r] = now] /\ now' = now + 1
  BY <1>2 DEF Begin
<1>6. CASE IdOf(name) = 0
  <2>1. /\ req' = [req EXCEPT ![r] = [Idle EXCEPT !.kind = "register", !.name = name, !.pc = "insert"]]
        /\ ended' = ended
    BY <1>2, <1>6 DEF Begin
  <2> QED
    BY <1>3, <1>5, <2>1 DEF Moved, Idle, LatestInv, Typed
<1>7. CASE IdOf(name) # 0
  <2>1. /\ req' = [req EXCEPT ![r] = [Idle EXCEPT !.kind = "register", !.name = name, !.pc = "answered",
                                                  !.answer = "duplicate", !.id = IdOf(name)]]
        /\ ended' = [ended EXCEPT ![r] = now]
    BY <1>2, <1>7 DEF Begin
  <2> QED
    BY <1>3, <1>4, <1>5, <2>1 DEF Moved, Idle, LatestInv, Typed
<1> QED
  BY <1>6, <1>7

\* The record of a request that is answered.
LEMMA AnswerDoes ==
  ASSUME LatestInv, IInv', NEW r \in Requests, NEW answer \in Answers \ {"none"}, NEW id \in Nat,
         req[r].pc # "answered", Answer(r, answer, id)
  PROVE  /\ Moved(r)
         /\ req'[r].pc = "answered" /\ req'[r].answer = answer /\ req'[r].id = id
         /\ req'[r].kind = req[r].kind /\ req'[r].name = req[r].name
         /\ req'[r].other = req[r].other /\ req'[r].photo = req[r].photo
<1> DEFINE next == [req[r] EXCEPT !.pc = "answered", !.answer = answer, !.id = id]
<1>0. Typed /\ answer \in Answers
  BY DEF LatestInv, IInv
<1>1. /\ req' = [req EXCEPT ![r] = next]
      /\ ended' = [ended EXCEPT ![r] = now] /\ now' = now + 1 /\ began' = began
  <2>1. req' = [req EXCEPT ![r] = next]
    BY <1>0 DEF Answer, Typed, Reqs
  <2> QED
    BY <2>1 DEF Answer
<1>2. req'[r] = next /\ req[r] \in Reqs
  BY <1>0, <1>1 DEF Typed
<1>3. /\ req'[r].pc = "answered" /\ req'[r].answer = answer /\ req'[r].id = id
      /\ req'[r].kind = req[r].kind /\ req'[r].name = req[r].name
      /\ req'[r].other = req[r].other /\ req'[r].photo = req[r].photo
  BY <1>2 DEF Reqs
<1>4. req' \in [Requests -> Reqs] /\ req \in [Requests -> Reqs]
  BY DEF LatestInv, IInv, Typed
<1>5. began' = began /\ began \in [Requests -> Nat] /\ ended' \in [Requests -> Nat]
  BY <1>1 DEF LatestInv
<1>6. \A q \in Requests \ {r} : req'[q] = req[q] /\ began'[q] = began[q] /\ ended'[q] = ended[q]
  BY <1>1, <1>4, <1>5 DEF LatestInv
<1>7. ended'[r] = now /\ now' = now + 1
  BY <1>1 DEF LatestInv
<1> QED
  BY <1>3, <1>4, <1>5, <1>6, <1>7 DEF Moved

LEMMA InsertDoes ==
  ASSUME LatestInv, NEW r \in Requests, Insert(r)
  PROVE  /\ Moved(r) /\ photos' = photos
         /\ req[r].pc = "insert" /\ req'[r].pc = "answered"
         /\ req'[r].kind = "register" /\ req'[r].photo = req[r].photo
         /\ \/ users' = users /\ req'[r].id = 0
            \/ users' = Append(users, User(req[r].name, r)) /\ req'[r].id = Len(users) + 1
<1>1. IInv'
  BY InsertStep DEF LatestInv
<1>2. req[r].pc = "insert" /\ req[r].kind = "register" /\ photos' = photos /\ Len(users) \in Nat
  BY DEF Insert, LatestInv, IInv, AtStep, Typed
<1>3. CASE Answer(r, "error", 0) /\ users' = users
  <2>1. "error" \in Answers \ {"none"} /\ 0 \in Nat /\ req[r].pc # "answered"
    BY <1>2 DEF Answers
  <2> QED
    BY <1>1, <1>2, <1>3, <2>1, AnswerDoes
<1>4. CASE users' = Append(users, User(req[r].name, r)) /\ Answer(r, "ok", Len(users) + 1)
  <2>1. "ok" \in Answers \ {"none"} /\ Len(users) + 1 \in Nat /\ req[r].pc # "answered"
    BY <1>2 DEF Answers
  <2> QED
    BY <1>1, <1>2, <1>4, <2>1, AnswerDoes
<1> QED
  BY <1>3, <1>4 DEF Insert

LEMMA ReadUser1Does ==
  ASSUME LatestInv, NEW r \in Requests, ReadUser1(r)
  PROVE  /\ Moved(r) /\ users' = users /\ photos' = photos
         /\ req'[r].kind = "addPartner" /\ req'[r].pc = "user2" /\ req'[r].photo = 0
         /\ req'[r].id \in DOMAIN users /\ req'[r].row = users[req'[r].id]
<1>1. IInv'
  BY ReadUser1Step DEF LatestInv
<1>2. PICK name \in Names : IdOf(name) # 0 /\
          Begin(r, [Idle EXCEPT !.kind = "addPartner", !.pc = "user2", !.id = IdOf(name),
                                !.row = users[IdOf(name)]])
  BY DEF ReadUser1
<1>3. /\ users' = users /\ photos' = photos /\ ended' = ended /\ req[r].pc = "idle"
      /\ Typed /\ Typed'
  BY <1>1 DEF ReadUser1, IInv, LatestInv
<1>4. IdOf(name) \in DOMAIN users
  BY <1>2, <1>3, IdOfFinds DEF Typed
<1>5. /\ req' = [req EXCEPT ![r] = [Idle EXCEPT !.kind = "addPartner", !.pc = "user2",
                                                !.id = IdOf(name), !.row = users[IdOf(name)]]]
      /\ began' = [began EXCEPT ![r] = now] /\ now' = now + 1
  BY <1>2 DEF Begin
<1> QED
  BY <1>3, <1>4, <1>5 DEF Moved, Idle, LatestInv, Typed

LEMMA ReadUser2Does ==
  ASSUME LatestInv, NEW r \in Requests, ReadUser2(r)
  PROVE  /\ Moved(r) /\ users' = users /\ photos' = photos
         /\ req[r].pc = "user2" /\ req'[r].kind = "addPartner"
         /\ req'[r].id = req[r].id /\ req'[r].photo = req[r].photo
         /\ \/ req'[r].pc = "answered" /\ req'[r].answer = "error"
            \/ /\ req'[r].pc = "save" /\ req'[r].other \in DOMAIN users
               /\ req'[r].row = [req[r].row EXCEPT !.partner = req'[r].other]
<1>1. IInv'
  BY ReadUser2Step DEF LatestInv
<1>2. PICK name \in Names :
          IF IdOf(name) = 0
          THEN Answer(r, "error", req[r].id)
          ELSE /\ Step(r, [req[r] EXCEPT !.pc = "save", !.other = IdOf(name),
                                         !.row.partner = IdOf(name)])
               /\ UNCHANGED ended
  BY DEF ReadUser2
<1>3. /\ users' = users /\ photos' = photos /\ req[r].pc = "user2" /\ Typed /\ Typed'
      /\ req[r].kind = "addPartner" /\ req[r].answer = "none" /\ req[r] \in Reqs /\ req[r].id \in Nat
  BY <1>1 DEF ReadUser2, IInv, LatestInv, InRange, Stamped, Typed, Reqs
<1>4. CASE IdOf(name) = 0
  BY <1>1, <1>2, <1>3, <1>4, AnswerDoes DEF Answers
<1>5. CASE IdOf(name) # 0
  <2> DEFINE next == [req[r] EXCEPT !.pc = "save", !.other = IdOf(name), !.row.partner = IdOf(name)]
  <2>1. IdOf(name) \in DOMAIN users
    BY <1>3, <1>5, IdOfFinds DEF Typed
  <2>2. req' = [req EXCEPT ![r] = next] /\ ended' = ended /\ now' = now + 1 /\ began' = began
    BY <1>2, <1>5 DEF Step
  <2>3. req'[r] = next
    BY <1>3, <2>2 DEF Typed
  <2>4. /\ next.pc = "save" /\ next.other = IdOf(name) /\ next.id = req[r].id
        /\ next.photo = req[r].photo /\ next.kind = req[r].kind /\ next.answer = req[r].answer
        /\ next.row = [req[r].row EXCEPT !.partner = IdOf(name)]
    BY <1>3 DEF Reqs
  <2> HIDE DEF next
  <2> QED
    BY <1>3, <2>1, <2>2, <2>3, <2>4 DEF Moved, LatestInv, Typed
<1> QED
  BY <1>4, <1>5

LEMMA SaveUserDoes ==
  ASSUME LatestInv, NEW r \in Requests, SaveUser(r)
  PROVE  /\ Moved(r) /\ photos' = photos
         /\ users' = [users EXCEPT ![req[r].id] = req[r].row]
         /\ req[r].pc = "save" /\ req[r].kind \in {"addPartner", "updateUser"}
         /\ req[r].id \in DOMAIN users
         /\ req'[r].pc = "answered" /\ req'[r].answer = "ok" /\ req'[r].kind = req[r].kind
         /\ req'[r].id = req[r].id /\ req'[r].other = req[r].other /\ req'[r].photo = req[r].photo
<1>1. IInv'
  BY SaveUserStep DEF LatestInv
<1>2. /\ photos' = photos /\ req[r].pc = "save" /\ Answer(r, "ok", req[r].id)
      /\ users' = [users EXCEPT ![req[r].id] = req[r].row]
      /\ req[r].kind \in {"addPartner", "updateUser"} /\ req[r].id \in DOMAIN users
      /\ req[r].id \in Nat
  BY DEF SaveUser, LatestInv, IInv, AtStep, Typed, Reqs
<1> QED
  BY <1>1, <1>2, AnswerDoes DEF Answers

LEMMA ReadForUpdateDoes ==
  ASSUME LatestInv, NEW r \in Requests, ReadForUpdate(r)
  PROVE  /\ Moved(r) /\ users' = users /\ photos' = photos
         /\ req'[r].kind = "updateUser" /\ req'[r].photo = 0
         /\ req'[r].id \in DOMAIN users
         /\ \/ req'[r].pc = "answered"
            \/ /\ req'[r].pc = "save"
               /\ req'[r].row = [users[req'[r].id] EXCEPT !.name = r]
<1>1. IInv'
  BY ReadForUpdateStep DEF LatestInv
<1>2. PICK id \in DOMAIN users, right \in BOOLEAN :
          LET to == [Idle EXCEPT !.kind = "updateUser", !.id = id] IN
          IF right
          THEN /\ Begin(r, [to EXCEPT !.pc = "save", !.row = [users[id] EXCEPT !.name = r]])
               /\ UNCHANGED ended
          ELSE /\ Begin(r, [to EXCEPT !.pc = "answered", !.answer = "wrong password"])
               /\ ended' = [ended EXCEPT ![r] = now]
  BY DEF ReadForUpdate
<1>3. users' = users /\ photos' = photos /\ req[r].pc = "idle" /\ Typed /\ Typed'
  BY <1>1 DEF ReadForUpdate, IInv, LatestInv
<1>4. began' = [began EXCEPT ![r] = now] /\ now' = now + 1
  BY <1>2 DEF Begin
<1>5. CASE right
  <2>1. /\ req' = [req EXCEPT ![r] = [Idle EXCEPT !.kind = "updateUser", !.id = id, !.pc = "save",
                                                  !.row = [users[id] EXCEPT !.name = r]]]
        /\ ended' = ended
    BY <1>2, <1>5 DEF Begin
  <2> QED
    BY <1>3, <1>4, <2>1 DEF Moved, Idle, LatestInv, Typed
<1>6. CASE ~right
  <2>1. /\ req' = [req EXCEPT ![r] = [Idle EXCEPT !.kind = "updateUser", !.id = id,
                                                  !.pc = "answered", !.answer = "wrong password"]]
        /\ ended' = [ended EXCEPT ![r] = now]
    BY <1>2, <1>6 DEF Begin
  <2> QED
    BY <1>3, <1>4, <2>1 DEF Moved, Idle, LatestInv, Typed
<1> QED
  BY <1>5, <1>6

LEMMA ReadPhotoUserDoes ==
  ASSUME LatestInv, NEW r \in Requests, ReadPhotoUser(r)
  PROVE  /\ Moved(r) /\ users' = users /\ photos' = photos
         /\ req'[r].kind = "addPhoto" /\ req'[r].pc = "photo" /\ req'[r].photo = 0
         /\ req'[r].id \in DOMAIN users
<1>1. IInv'
  BY ReadPhotoUserStep DEF LatestInv
<1>2. PICK id \in DOMAIN users :
          Begin(r, [Idle EXCEPT !.kind = "addPhoto", !.pc = "photo", !.id = id])
  BY DEF ReadPhotoUser
<1>3. /\ users' = users /\ photos' = photos /\ ended' = ended /\ req[r].pc = "idle"
      /\ Typed /\ Typed'
  BY <1>1 DEF ReadPhotoUser, IInv, LatestInv
<1>4. /\ req' = [req EXCEPT ![r] = [Idle EXCEPT !.kind = "addPhoto", !.pc = "photo", !.id = id]]
      /\ began' = [began EXCEPT ![r] = now] /\ now' = now + 1
  BY <1>2 DEF Begin
<1> QED
  BY <1>3, <1>4 DEF Moved, Idle, LatestInv, Typed

LEMMA ReadPhotoDoes ==
  ASSUME LatestInv, NEW r \in Requests, ReadPhoto(r)
  PROVE  /\ Moved(r) /\ users' = users /\ photos' = photos
         /\ req[r].pc = "photo" /\ req'[r].kind = "addPhoto" /\ req'[r].pc = "savePhoto"
         /\ req'[r].id = req[r].id /\ req'[r].photo = FirstPhoto(req[r].id)
<1>1. IInv'
  BY ReadPhotoStep DEF LatestInv
<1>2. /\ users' = users /\ photos' = photos /\ ended' = ended /\ req[r].pc = "photo"
      /\ req[r].kind = "addPhoto" /\ req[r].answer = "none" /\ req[r] \in Reqs /\ Typed /\ Typed'
  BY <1>1 DEF ReadPhoto, LatestInv, IInv, AtStep, Stamped, Typed
<1> DEFINE next == [req[r] EXCEPT !.pc = "savePhoto", !.photo = FirstPhoto(req[r].id)]
<1>3. req' = [req EXCEPT ![r] = next] /\ now' = now + 1 /\ began' = began
  BY DEF ReadPhoto, Step
<1>4. req'[r] = next
  BY <1>2, <1>3 DEF Typed
<1>5. /\ next.pc = "savePhoto" /\ next.photo = FirstPhoto(req[r].id) /\ next.id = req[r].id
      /\ next.kind = req[r].kind /\ next.answer = req[r].answer
  BY <1>2 DEF Reqs
<1> HIDE DEF next
<1> QED
  BY <1>2, <1>3, <1>4, <1>5 DEF Moved, LatestInv, Typed

LEMMA SavePhotoDoes ==
  ASSUME LatestInv, NEW r \in Requests, SavePhoto(r)
  PROVE  /\ Moved(r) /\ users' = users
         /\ photos' = IF req[r].photo = 0 THEN Append(photos, Photo(req[r].id, r))
                      ELSE [photos EXCEPT ![req[r].photo] = Photo(req[r].id, r)]
         /\ req[r].pc = "savePhoto" /\ req[r].kind = "addPhoto"
         /\ req'[r].pc = "answered" /\ req'[r].answer = "ok" /\ req'[r].kind = "addPhoto"
         /\ req'[r].id = req[r].id /\ req'[r].photo = req[r].photo
<1>1. IInv'
  BY SavePhotoStep DEF LatestInv
<1>2. /\ users' = users /\ req[r].pc = "savePhoto" /\ Answer(r, "ok", req[r].id)
      /\ req[r].kind = "addPhoto" /\ req[r].id \in Nat
  BY DEF SavePhoto, LatestInv, IInv, AtStep, Typed, Reqs
<1>3. photos' = IF req[r].photo = 0 THEN Append(photos, Photo(req[r].id, r))
                ELSE [photos EXCEPT ![req[r].photo] = Photo(req[r].id, r)]
  BY DEF SavePhoto
<1> QED
  BY <1>1, <1>2, <1>3, AnswerDoes DEF Answers

-----------------------------------------------------------------------------
(* The stamps and the ranges. *)

LEMMA StampsKept ==
  ASSUME LatestInv, NEW r \in Requests, Moved(r)
  PROVE  /\ now' \in Nat /\ now' > 0
         /\ \A q \in Requests : Stamped(q)'
<1>1. now \in Nat /\ now > 0 /\ \A q \in Requests : Stamped(q)
  BY DEF LatestInv
<1>2. now' \in Nat /\ now' > 0 /\ now < now'
  BY <1>1 DEF Moved
<1>3. ASSUME NEW q \in Requests, q # r PROVE Stamped(q)'
  BY <1>1, <1>2, <1>3 DEF Moved, Stamped
<1>4. Stamped(r)'
  BY <1>1, <1>2 DEF Moved, Stamped
<1> QED
  BY <1>2, <1>3, <1>4

\* A step that takes no row away leaves the others where they were.
LEMMA RangesKept ==
  ASSUME LatestInv, NEW r \in Requests, Moved(r),
         Len(users) <= Len(users)', Len(photos) <= Len(photos)',
         users' \in Seq(Rows), photos' \in Seq(PhotoRows)
  PROVE  \A q \in Requests \ {r} : InRange(q)'
<1>1. /\ Len(users) \in Nat /\ Len(users)' \in Nat /\ Len(photos) \in Nat /\ Len(photos)' \in Nat
      /\ DOMAIN users = 1 .. Len(users) /\ DOMAIN users' = 1 .. Len(users)'
  BY DEF LatestInv, IInv, Typed
<1>2. ASSUME NEW q \in Requests \ {r} PROVE InRange(q)'
  <2>1. InRange(q) /\ req'[q] = req[q]
    BY DEF LatestInv, Moved
  <2> QED
    BY <1>1, <2>1 DEF InRange
<1> QED
  BY <1>2

LEMMA RangesStep ==
  ASSUME LatestInv, [Next]_vars
  PROVE  Ranges' /\ \A q \in Requests : InRange(q)'
<1>t. /\ Typed /\ Typed' /\ Ranges /\ \A q \in Requests : InRange(q)
  BY InvStep DEF LatestInv, IInv
<1>d. /\ Len(users) \in Nat /\ Len(photos) \in Nat
      /\ DOMAIN users = 1 .. Len(users) /\ DOMAIN photos = 1 .. Len(photos)
      /\ users' \in Seq(Rows) /\ photos' \in Seq(PhotoRows)
      /\ req \in [Requests -> Reqs]
  BY <1>t DEF Typed
<1>s. ASSUME NEW r \in Requests, Moved(r), users' = users, photos' = photos, InRange(r)'
      PROVE  Ranges' /\ \A q \in Requests : InRange(q)'
  <2>1. \A q \in Requests \ {r} : InRange(q)'
    BY <1>s, <1>d, RangesKept
  <2>2. Ranges'
    BY <1>s, <1>t DEF Ranges
  <2> QED
    BY <2>1, <2>2, <1>s
<1>1. ASSUME NEW r \in Requests, Register(r) PROVE Ranges' /\ \A q \in Requests : InRange(q)'
  BY <1>1, <1>d, <1>s, RegisterDoes DEF InRange
<1>2. ASSUME NEW r \in Requests, Insert(r) PROVE Ranges' /\ \A q \in Requests : InRange(q)'
  <2> DEFINE row == User(req[r].name, r)
  <2>1. /\ Moved(r) /\ photos' = photos /\ req[r].pc = "insert" /\ req'[r].pc = "answered"
        /\ req'[r].photo = req[r].photo
        /\ \/ users' = users /\ req'[r].id = 0
           \/ users' = Append(users, row) /\ req'[r].id = Len(users) + 1
    BY <1>2, InsertDoes
  <2>2. row.username \in Names /\ row.name \in Requests /\ row.partner = 0
    BY <2>1, <1>t DEF User, InRange
  <2> HIDE DEF row
  <2>3. CASE users' = users /\ req'[r].id = 0
    BY <2>1, <2>3, <1>d, <1>s, <1>t DEF InRange
  <2>4. CASE users' = Append(users, row) /\ req'[r].id = Len(users) + 1
    <3>1. /\ Len(users') = Len(users) + 1 /\ DOMAIN users' = 1 .. Len(users) + 1
          /\ users'[Len(users) + 1] = row
          /\ \A k \in 1 .. Len(users) : users'[k] = users[k]
      <4>1. users \in Seq(Rows \cup {row})
        BY <1>t DEF Typed
      <4> QED
        BY <2>4, <4>1
    <3>2. InRange(r)'
      BY <2>1, <2>4, <3>1, <1>d, <1>t DEF InRange
    <3>3. \A q \in Requests \ {r} : InRange(q)'
      BY <2>1, <3>1, <1>d, RangesKept
    <3>4. Ranges'
      <4>1. \A k \in 1 .. Len(users) + 1 : k = Len(users) + 1 \/ k \in 1 .. Len(users)
        BY <1>d
      <4>2. \A k \in DOMAIN users' : /\ users'[k].username \in Names /\ users'[k].name \in Requests
                                     /\ users'[k].partner \in 0 .. Len(users')
        BY <2>2, <3>1, <4>1, <1>d, <1>t DEF Ranges
      <4>3. \A k \in DOMAIN photos' :
               photos'[k].userId \in DOMAIN users' /\ photos'[k].photo \in Requests
        BY <2>1, <3>1, <1>d, <1>t DEF Ranges
      <4> QED
        BY <4>2, <4>3 DEF Ranges
    <3> QED
      BY <3>2, <3>3, <3>4
  <2> QED
    BY <2>1, <2>3, <2>4
<1>3. ASSUME NEW r \in Requests, ReadUser1(r) PROVE Ranges' /\ \A q \in Requests : InRange(q)'
  <2>1. /\ Moved(r) /\ users' = users /\ photos' = photos
        /\ req'[r].kind = "addPartner" /\ req'[r].pc = "user2" /\ req'[r].photo = 0
        /\ req'[r].id \in DOMAIN users /\ req'[r].row = users[req'[r].id]
    BY <1>3, ReadUser1Does
  <2>2. InRange(r)'
    BY <2>1, <1>d, <1>t DEF InRange, Ranges
  <2> QED
    BY <2>1, <2>2, <1>s
<1>4. ASSUME NEW r \in Requests, ReadUser2(r) PROVE Ranges' /\ \A q \in Requests : InRange(q)'
  <2>1. /\ Moved(r) /\ users' = users /\ photos' = photos
        /\ req[r].pc = "user2" /\ req'[r].id = req[r].id /\ req'[r].photo = req[r].photo
        /\ \/ req'[r].pc = "answered"
           \/ /\ req'[r].pc = "save" /\ req'[r].other \in DOMAIN users
              /\ req'[r].row = [req[r].row EXCEPT !.partner = req'[r].other]
    BY <1>4, ReadUser2Does
  <2>2. req[r].row \in Rows
    BY <1>d DEF Reqs
  <2>3. req'[r].pc = "save" =>
           /\ req'[r].row.username = req[r].row.username /\ req'[r].row.name = req[r].row.name
           /\ req'[r].row.partner \in DOMAIN users
    BY <2>1, <2>2 DEF Rows
  <2>4. InRange(r)'
    BY <2>1, <2>3, <1>d, <1>t DEF InRange
  <2> QED
    BY <2>1, <2>4, <1>s
<1>5. ASSUME NEW r \in Requests, ReadForUpdate(r) PROVE Ranges' /\ \A q \in Requests : InRange(q)'
  <2>1. /\ Moved(r) /\ users' = users /\ photos' = photos
        /\ req'[r].photo = 0 /\ req'[r].id \in DOMAIN users
        /\ \/ req'[r].pc = "answered"
           \/ req'[r].pc = "save" /\ req'[r].row = [users[req'[r].id] EXCEPT !.name = r]
    BY <1>5, ReadForUpdateDoes
  <2>2. users[req'[r].id] \in Rows
    BY <2>1, <1>t DEF Typed
  <2>3. req'[r].pc = "save" =>
           /\ req'[r].row.username = users[req'[r].id].username /\ req'[r].row.name = r
           /\ req'[r].row.partner = users[req'[r].id].partner
    BY <2>1, <2>2 DEF Rows
  <2>4. InRange(r)'
    BY <2>1, <2>3, <1>d, <1>t DEF InRange, Ranges
  <2> QED
    BY <2>1, <2>4, <1>s
<1>6. ASSUME NEW r \in Requests, SaveUser(r) PROVE Ranges' /\ \A q \in Requests : InRange(q)'
  <2>1. /\ Moved(r) /\ photos' = photos /\ req[r].pc = "save" /\ req'[r].pc = "answered"
        /\ users' = [users EXCEPT ![req[r].id] = req[r].row] /\ req[r].id \in DOMAIN users
        /\ req'[r].id = req[r].id /\ req'[r].photo = req[r].photo
    BY <1>6, SaveUserDoes
  <2>2. /\ Len(users') = Len(users) /\ DOMAIN users' = DOMAIN users
        /\ \A k \in DOMAIN users : users'[k] = IF k = req[r].id THEN req[r].row ELSE users[k]
    BY <2>1, <1>d, <1>t DEF Typed
  <2>3. InRange(r)'
    BY <2>1, <2>2, <1>d, <1>t DEF InRange
  <2>4. \A q \in Requests \ {r} : InRange(q)'
    BY <2>1, <2>2, <1>d, RangesKept
  <2>5. Ranges'
    BY <2>1, <2>2, <1>d, <1>t DEF Ranges, InRange
  <2> QED
    BY <2>3, <2>4, <2>5
<1>7. ASSUME NEW r \in Requests, ReadPhotoUser(r) PROVE Ranges' /\ \A q \in Requests : InRange(q)'
  BY <1>7, <1>d, <1>s, ReadPhotoUserDoes DEF InRange
<1>8. ASSUME NEW r \in Requests, ReadPhoto(r) PROVE Ranges' /\ \A q \in Requests : InRange(q)'
  <2>1. /\ Moved(r) /\ users' = users /\ photos' = photos
        /\ req[r].pc = "photo" /\ req'[r].pc = "savePhoto"
        /\ req'[r].id = req[r].id /\ req'[r].photo = FirstPhoto(req[r].id)
    BY <1>8, ReadPhotoDoes
  <2>2. FirstPhoto(req[r].id) \in 0 .. Len(photos)
    BY <1>t, <1>d, FirstPhotoIs DEF IsFirst
  <2>3. InRange(r)'
    BY <2>1, <2>2, <1>d, <1>t DEF InRange
  <2> QED
    BY <2>1, <2>3, <1>s
<1>9. ASSUME NEW r \in Requests, SavePhoto(r) PROVE Ranges' /\ \A q \in Requests : InRange(q)'
  <2> DEFINE p == Photo(req[r].id, r)
  <2>1. /\ Moved(r) /\ users' = users /\ req[r].pc = "savePhoto" /\ req'[r].pc = "answered"
        /\ photos' = IF req[r].photo = 0 THEN Append(photos, p) ELSE [photos EXCEPT ![req[r].photo] = p]
        /\ req'[r].id = req[r].id /\ req'[r].photo = req[r].photo
    BY <1>9, SavePhotoDoes
  <2>2. p.userId \in DOMAIN users /\ p.photo = r
    BY <2>1, <1>t DEF Photo, InRange
  <2> HIDE DEF p
  <2>3. /\ Len(photos') \in {Len(photos), Len(photos) + 1} /\ DOMAIN photos' = 1 .. Len(photos')
        /\ \A k \in DOMAIN photos' : photos'[k] = p \/ (k \in DOMAIN photos /\ photos'[k] = photos[k])
    <3>1. photos \in Seq(PhotoRows) /\ p \in PhotoRows /\ req[r].photo \in 0 .. Len(photos)
      BY <2>1, <1>d, <1>t DEF Typed, InRange, PhotoRows, Photo, Reqs, p
    <3>2. CASE photos' = Append(photos, p)
      BY <3>1, <3>2, <1>d
    <3>3. CASE req[r].photo # 0 /\ photos' = [photos EXCEPT ![req[r].photo] = p]
      BY <3>1, <3>3, <1>d
    <3> QED
      BY <2>1, <3>2, <3>3
  <2>4. InRange(r)'
    BY <2>1, <2>3, <1>d, <1>t DEF InRange
  <2>5. \A q \in Requests \ {r} : InRange(q)'
    BY <2>1, <2>3, <1>d, RangesKept
  <2>6. Ranges'
    BY <2>1, <2>2, <2>3, <1>d, <1>t DEF Ranges
  <2> QED
    BY <2>4, <2>5, <2>6
<1>10. CASE UNCHANGED vars
  BY <1>10, <1>t DEF vars, Ranges, InRange
<1> QED
  BY <1>1, <1>2, <1>3, <1>4, <1>5, <1>6, <1>7, <1>8, <1>9, <1>10 DEF Next

-----------------------------------------------------------------------------
(* The photo shown. *)

\* The other requests stay done or not; the one that moves was not.
LEMMA DoneMoves ==
  ASSUME LatestInv, NEW r \in Requests, Moved(r), NEW k
  PROVE  /\ ~Done(r, k)
         /\ \A q \in Requests \ {r} : Done(q, k)' <=> Done(q, k)
<1>1. req[r].answer = "none"
  BY DEF LatestInv, Stamped, Moved
<1> QED
  BY <1>1 DEF Done, Moved

\* The photo shown of a user who has one is that of a request that is done.
LEMMA ShownIsDone ==
  ASSUME LatestInv, NEW id, FirstIn(photos, id) # 0
  PROVE  /\ FirstIn(photos, id) \in DOMAIN photos /\ photos[FirstIn(photos, id)].userId = id
         /\ Shown(photos, id) \in Requests /\ Done(Shown(photos, id), "addPhoto")
         /\ req[Shown(photos, id)].id = id
<1>1. IsFirst(photos, id, FirstIn(photos, id))
  BY FirstInIs DEF LatestInv, IInv, Typed
<1> QED
  BY <1>1 DEF IsFirst, Shown, LatestInv, Ranges, PhotoInv

\* A step that saves no photo keeps the invariant if what it has read of them
\* is right.
LEMMA PhotosKept ==
  ASSUME LatestInv, NEW r \in Requests, Moved(r), photos' = photos, ~Done(r, "addPhoto")',
         req'[r].pc = "savePhoto" => req'[r].photo = FirstIn(photos, req'[r].id)
  PROVE  PhotoInv'
<1>1. /\ ~Done(r, "addPhoto")
      /\ \A q \in Requests \ {r} : /\ Done(q, "addPhoto")' <=> Done(q, "addPhoto")
                                   /\ req'[q] = req[q] /\ began'[q] = began[q] /\ ended'[q] = ended[q]
  BY DoneMoves DEF Moved
<1>2. ASSUME NEW id, FirstIn(photos, id) # 0
      PROVE  Shown(photos, id) \in Requests \ {r} /\ ended'[Shown(photos, id)] = ended[Shown(photos, id)]
  BY <1>1, <1>2, ShownIsDone
<1>3. ASSUME NEW k \in DOMAIN photos
      PROVE  (Done(photos[k].photo, "addPhoto") /\ req[photos[k].photo].id = photos[k].userId)'
  <2>1. /\ photos[k].photo \in Requests /\ Done(photos[k].photo, "addPhoto")
        /\ req[photos[k].photo].id = photos[k].userId
    BY DEF LatestInv, Ranges, PhotoInv
  <2>2. photos[k].photo # r /\ req'[photos[k].photo] = req[photos[k].photo]
    BY <1>1, <2>1
  <2> QED
    BY <2>1, <2>2 DEF Done
<1>4. ASSUME NEW q \in Requests, Done(q, "addPhoto")'
      PROVE  FirstIn(photos, req'[q].id) # 0 /\ began'[q] <= ended'[Shown(photos, req'[q].id)]
  <2>1. /\ q # r /\ FirstIn(photos, req[q].id) # 0 /\ began[q] <= ended[Shown(photos, req[q].id)]
        /\ req'[q] = req[q] /\ began'[q] = began[q]
    BY <1>1, <1>4 DEF LatestInv, PhotoInv
  <2> QED
    BY <1>2, <2>1
<1>5. ASSUME NEW q \in Requests, req'[q].pc = "savePhoto"
      PROVE  \/ req'[q].photo = FirstIn(photos, req'[q].id)
             \/ req'[q].photo = 0 /\ began'[q] < ended'[Shown(photos, req'[q].id)]
  <2>1. CASE q # r
    <3>1. /\ \/ req[q].photo = FirstIn(photos, req[q].id)
             \/ req[q].photo = 0 /\ began[q] < ended[Shown(photos, req[q].id)]
          /\ req'[q] = req[q] /\ began'[q] = began[q]
      BY <1>1, <1>5, <2>1 DEF LatestInv, PhotoInv
    <3>2. CASE FirstIn(photos, req[q].id) = 0
      BY <3>1, <3>2
    <3>3. CASE FirstIn(photos, req[q].id) # 0
      BY <1>2, <3>1, <3>3
    <3> QED
      BY <3>2, <3>3
  <2> QED
    BY <1>5, <2>1
<1> QED
  BY <1>3, <1>4, <1>5 DEF PhotoInv

LEMMA SavePhotoKept ==
  ASSUME LatestInv, NEW r \in Requests, SavePhoto(r)
  PROVE  PhotoInv'
<1> DEFINE id == req[r].id
           f == req[r].photo
           p == Photo(id, r)
           n == Len(photos) + 1
<1>1. /\ Moved(r) /\ req[r].pc = "savePhoto" /\ req'[r].pc = "answered"
      /\ req'[r].id = id /\ Done(r, "addPhoto")'
      /\ photos' = IF f = 0 THEN Append(photos, p) ELSE [photos EXCEPT ![f] = p]
      /\ began' = began
  <2>1. began' = began
    BY DEF SavePhoto, Answer
  <2> QED
    BY <2>1, SavePhotoDoes DEF Done
<1>2. /\ ~Done(r, "addPhoto")
      /\ \A q \in Requests \ {r} : /\ Done(q, "addPhoto")' <=> Done(q, "addPhoto")
                                   /\ req'[q] = req[q] /\ began'[q] = began[q] /\ ended'[q] = ended[q]
      /\ ended'[r] = now /\ began'[r] \in {began[r], now}
  BY <1>1, DoneMoves DEF Moved
<1>3. /\ photos \in Seq(PhotoRows) /\ p \in PhotoRows /\ p.userId = id /\ p.photo = r
      /\ Len(photos) \in Nat /\ DOMAIN photos = 1 .. Len(photos) /\ now \in Nat
      /\ \A q \in Requests : began[q] \in Nat /\ ended[q] \in Nat /\ began[q] < now
  BY DEF LatestInv, IInv, Typed, Stamped, Photo, PhotoRows, Reqs
<1>4. \/ f = FirstIn(photos, id)
      \/ f = 0 /\ began[r] < ended[Shown(photos, id)]
  BY <1>1 DEF LatestInv, PhotoInv
<1>5. ASSUME NEW x, FirstIn(photos, x) # 0
      PROVE  /\ FirstIn(photos, x) \in DOMAIN photos /\ photos[FirstIn(photos, x)].userId = x
             /\ Shown(photos, x) \in Requests \ {r} /\ ended'[Shown(photos, x)] = ended[Shown(photos, x)]
  BY <1>2, <1>5, ShownIsDone
<1> HIDE DEF p, f, id
<1>6. ASSUME NEW k \in DOMAIN photos'
      PROVE  photos'[k] = p \/ (k \in DOMAIN photos /\ photos'[k] = photos[k])
  <2>1. CASE f = 0
    BY <1>1, <1>3, <2>1
  <2>2. CASE f # 0
    <3>1. f \in DOMAIN photos
      BY <1>4, <1>5, <2>2
    <3> QED
      BY <1>1, <1>3, <2>2, <3>1
  <2> QED
    BY <2>1, <2>2
\* What is shown afterwards: the photo of this request, or what was shown.
<1>7. ASSUME NEW x
      PROVE  \/ FirstIn(photos', x) = 0 /\ FirstIn(photos, x) = 0 /\ x # id
             \/ /\ FirstIn(photos', x) # 0 /\ FirstIn(photos', x) = FirstIn(photos, x)
                /\ Shown(photos', x) = Shown(photos, x) /\ (x = id => f = 0)
             \/ /\ FirstIn(photos', x) # 0 /\ x = id /\ Shown(photos', x) = r
                /\ FirstIn(photos, x) \in {FirstIn(photos', x), 0}
  <2>1. CASE f = 0
    <3>1. FirstIn(photos', x) = IF FirstIn(photos, x) # 0 THEN FirstIn(photos, x)
                           ELSE IF id = x THEN n ELSE 0
      BY <1>1, <1>3, <2>1, FirstInAppend
    <3>2. photos' = Append(photos, p) /\ photos'[n] = p /\ \A k \in DOMAIN photos : photos'[k] = photos[k]
      BY <1>1, <1>3, <2>1
    <3>3. CASE FirstIn(photos, x) # 0
      BY <1>5, <2>1, <3>1, <3>2, <3>3 DEF Shown
    <3>4. CASE FirstIn(photos, x) = 0
      BY <1>3, <3>1, <3>2, <3>4 DEF Shown
    <3> QED
      BY <3>3, <3>4
  <2>2. CASE f # 0
    <3>1. f = FirstIn(photos, id) /\ f \in DOMAIN photos /\ photos[f].userId = id
      BY <1>4, <1>5, <2>2
    <3>2. photos' = [photos EXCEPT ![f] = p]
      BY <1>1, <2>2
    <3>3. FirstIn(photos', x) = FirstIn(photos, x)
      <4>1. /\ photos \in Seq(PhotoRows) /\ f \in DOMAIN photos /\ p \in PhotoRows
            /\ p.userId = photos[f].userId
        BY <1>3, <3>1
      <4>2. FirstIn([photos EXCEPT ![f] = p], x) = FirstIn(photos, x)
        BY <4>1, FirstInExcept
      <4> QED
        BY <3>2, <4>2
    <3>4. CASE x = id
      <4>1. photos'[f] = p
        BY <3>1, <3>2, <1>3
      <4> QED
        BY <1>3, <2>2, <3>1, <3>3, <3>4, <4>1 DEF Shown
    <3>5. CASE x # id /\ FirstIn(photos, x) # 0
      <4>1. FirstIn(photos, x) \in DOMAIN photos /\ FirstIn(photos, x) # f
        BY <1>5, <3>1, <3>5
      <4>2. photos'[FirstIn(photos, x)] = photos[FirstIn(photos, x)]
        BY <3>2, <4>1, <1>3
      <4> QED
        BY <3>3, <3>5, <4>2 DEF Shown
    <3> QED
      BY <3>3, <3>4, <3>5
  <2> QED
    BY <2>1, <2>2
<1>8. ASSUME NEW k \in DOMAIN photos'
      PROVE  (Done(photos[k].photo, "addPhoto") /\ req[photos[k].photo].id = photos[k].userId)'
  <2>1. CASE photos'[k] = p
    BY <1>1, <1>3, <2>1 DEF Done
  <2>2. CASE k \in DOMAIN photos /\ photos'[k] = photos[k]
    <3>1. /\ photos[k].photo \in Requests /\ Done(photos[k].photo, "addPhoto")
          /\ req[photos[k].photo].id = photos[k].userId
      BY <2>2 DEF LatestInv, Ranges, PhotoInv
    <3>2. req'[photos[k].photo] = req[photos[k].photo]
      BY <1>2, <3>1
    <3> QED
      BY <2>2, <3>1, <3>2 DEF Done
  <2> QED
    BY <1>6, <2>1, <2>2
<1>9. /\ FirstIn(photos', id) # 0 /\ began'[r] <= ended'[Shown(photos', id)]
  <2>1. r \in Requests /\ began[r] \in Nat /\ began[r] < now /\ began'[r] <= now
    BY <1>2, <1>3
  <2>2. CASE Shown(photos', id) = r /\ FirstIn(photos', id) # 0
    BY <1>2, <2>1, <2>2
  <2>3. CASE /\ FirstIn(photos', id) # 0 /\ FirstIn(photos', id) = FirstIn(photos, id)
             /\ Shown(photos', id) = Shown(photos, id) /\ f = 0
    <3>1. /\ began[r] < ended[Shown(photos, id)]
          /\ ended'[Shown(photos, id)] = ended[Shown(photos, id)]
      BY <1>4, <1>5, <2>3
    <3> QED
      BY <1>1, <1>3, <1>5, <2>3, <3>1
  <2> QED
    BY <1>7, <2>2, <2>3
<1>10. ASSUME NEW q \in Requests \ {r}, Done(q, "addPhoto")
       PROVE  FirstIn(photos', req[q].id) # 0 /\ began[q] <= ended'[Shown(photos', req[q].id)]
  <2>1. FirstIn(photos, req[q].id) # 0 /\ began[q] <= ended[Shown(photos, req[q].id)]
    BY <1>10 DEF LatestInv, PhotoInv
  <2> QED
    BY <1>2, <1>3, <1>5, <1>7, <2>1
<1>11. ASSUME NEW q \in Requests \ {r}, req[q].pc = "savePhoto"
       PROVE  \/ req[q].photo = FirstIn(photos', req[q].id)
              \/ req[q].photo = 0 /\ began[q] < ended'[Shown(photos', req[q].id)]
  <2>1. \/ req[q].photo = FirstIn(photos, req[q].id)
        \/ req[q].photo = 0 /\ began[q] < ended[Shown(photos, req[q].id)]
    BY <1>11 DEF LatestInv, PhotoInv
  <2> QED
    BY <1>2, <1>3, <1>5, <1>7, <2>1
<1>12. ASSUME NEW q \in Requests
       PROVE  /\ Done(q, "addPhoto")' =>
                    FirstIn(photos', req'[q].id) # 0 /\ began'[q] <= ended'[Shown(photos', req'[q].id)]
              /\ req'[q].pc = "savePhoto" =>
                    \/ req'[q].photo = FirstIn(photos', req'[q].id)
                    \/ req'[q].photo = 0 /\ began'[q] < ended'[Shown(photos', req'[q].id)]
  <2>1. CASE q = r
    BY <1>1, <1>9, <2>1
  <2>2. CASE q # r
    <3>1. /\ Done(q, "addPhoto")' <=> Done(q, "addPhoto")
          /\ req'[q] = req[q] /\ began'[q] = began[q]
      BY <1>2, <2>2
    <3> QED
      BY <1>10, <1>11, <2>2, <3>1
  <2> QED
    BY <2>1, <2>2
<1> QED
  BY <1>8, <1>12 DEF PhotoInv

LEMMA PhotoStep ==
  ASSUME LatestInv, [Next]_vars
  PROVE  PhotoInv'
<1>1. ASSUME NEW r \in Requests, Register(r) PROVE PhotoInv'
  BY <1>1, RegisterDoes, PhotosKept DEF Done
<1>2. ASSUME NEW r \in Requests, Insert(r) PROVE PhotoInv'
  BY <1>2, InsertDoes, PhotosKept DEF Done
<1>3. ASSUME NEW r \in Requests, ReadUser1(r) PROVE PhotoInv'
  BY <1>3, ReadUser1Does, PhotosKept DEF Done
<1>4. ASSUME NEW r \in Requests, ReadUser2(r) PROVE PhotoInv'
  <2>1. Moved(r) /\ photos' = photos /\ req'[r].kind = "addPartner" /\ req'[r].pc \in {"save", "answered"}
    BY <1>4, ReadUser2Does
  <2>2. ~Done(r, "addPhoto")' /\ req'[r].pc # "savePhoto"
    BY <2>1 DEF Done
  <2> QED
    BY <2>1, <2>2, PhotosKept
<1>5. ASSUME NEW r \in Requests, ReadForUpdate(r) PROVE PhotoInv'
  <2>1. /\ Moved(r) /\ photos' = photos /\ req'[r].kind = "updateUser"
        /\ req'[r].pc \in {"save", "answered"}
    BY <1>5, ReadForUpdateDoes
  <2>2. ~Done(r, "addPhoto")'
    BY <2>1 DEF Done
  <2> QED
    BY <2>1, <2>2, PhotosKept
<1>6. ASSUME NEW r \in Requests, SaveUser(r) PROVE PhotoInv'
  <2>1. /\ Moved(r) /\ photos' = photos /\ req'[r].kind \in {"addPartner", "updateUser"}
        /\ req'[r].pc = "answered"
    BY <1>6, SaveUserDoes
  <2>2. ~Done(r, "addPhoto")'
    BY <2>1 DEF Done
  <2> QED
    BY <2>1, <2>2, PhotosKept
<1>7. ASSUME NEW r \in Requests, ReadPhotoUser(r) PROVE PhotoInv'
  <2>1. Moved(r) /\ photos' = photos /\ req'[r].pc = "photo"
    BY <1>7, ReadPhotoUserDoes
  <2>2. ~Done(r, "addPhoto")'
    BY <2>1 DEF Done, Moved
  <2> QED
    BY <2>1, <2>2, PhotosKept
<1>8. ASSUME NEW r \in Requests, ReadPhoto(r) PROVE PhotoInv'
  <2>1. /\ Moved(r) /\ photos' = photos /\ req'[r].pc = "savePhoto"
        /\ req'[r].id = req[r].id /\ req'[r].photo = FirstIn(photos, req[r].id)
    BY <1>8, ReadPhotoDoes, FirstPhotoIs DEF LatestInv, IInv
  <2>2. ~Done(r, "addPhoto")'
    BY <2>1 DEF Done, Moved
  <2> QED
    BY <2>1, <2>2, PhotosKept
<1>9. ASSUME NEW r \in Requests, SavePhoto(r) PROVE PhotoInv'
  BY <1>9, SavePhotoKept
<1>10. CASE UNCHANGED vars
  BY <1>10 DEF vars, LatestInv, PhotoInv, Done
<1> QED
  BY <1>1, <1>2, <1>3, <1>4, <1>5, <1>6, <1>7, <1>8, <1>9, <1>10 DEF Next

-----------------------------------------------------------------------------
(* The partner. *)

\* A step that answers no addPartner for a user leaves the requests that no
\* other followed, and what was saved back over them, as they were.
LEMMA LatestMoves ==
  ASSUME LatestInv, NEW r \in Requests, Moved(r), NEW id,
         Done(r, "addPartner")' => req'[r].id # id
  PROVE  /\ Asked("addPartner", id)' <=> Asked("addPartner", id)
         /\ Latest("addPartner", id)' = Latest("addPartner", id)
         /\ \A x \in Latest("addPartner", id) :
               /\ req'[x] = req[x] /\ ended'[x] = ended[x]
               /\ SavedBack(id, x) => SavedBack(id, x)'
<1>1. /\ \A k : ~Done(r, k)
      /\ \A q \in Requests \ {r} : /\ \A k : Done(q, k)' <=> Done(q, k)
                                   /\ req'[q] = req[q] /\ began'[q] = began[q] /\ ended'[q] = ended[q]
  BY DoneMoves DEF Moved
<1>2. \A q \in Requests : (Done(q, "addPartner") /\ req[q].id = id)' <=>
                          (q # r /\ Done(q, "addPartner") /\ req[q].id = id)
  BY <1>1
<1>3. Asked("addPartner", id)' <=> Asked("addPartner", id)
  BY <1>1, <1>2 DEF Asked
<1>4. ASSUME NEW x \in Requests
      PROVE  x \in Latest("addPartner", id)' <=> x \in Latest("addPartner", id)
  <2>1. CASE x = r
    BY <1>1, <1>2, <2>1 DEF Latest
  <2>2. CASE x # r
    BY <1>1, <1>2, <2>2 DEF Latest
  <2> QED
    BY <2>1, <2>2
<1>5. Latest("addPartner", id)' = Latest("addPartner", id)
  BY <1>4 DEF Latest
<1>6. ASSUME NEW x \in Latest("addPartner", id)
      PROVE  /\ req'[x] = req[x] /\ ended'[x] = ended[x]
             /\ SavedBack(id, x) => SavedBack(id, x)'
  <2>1. x \in Requests \ {r}
    BY <1>1 DEF Latest
  <2>2. ASSUME SavedBack(id, x) PROVE SavedBack(id, x)'
    <3>1. PICK q \in Requests : /\ Done(q, "updateUser") /\ req[q].id = id
                                /\ began[q] < ended[x] /\ ended[x] < ended[q]
      BY <2>2 DEF SavedBack
    <3>2. q # r
      BY <1>1, <3>1
    <3>3. /\ Done(q, "updateUser")' /\ req'[q].id = id
          /\ began'[q] < ended'[x] /\ ended'[x] < ended'[q]
      BY <1>1, <2>1, <3>1, <3>2
    <3> QED
      BY <3>3 DEF SavedBack
  <2> QED
    BY <1>1, <2>1, <2>2
<1> QED
  BY <1>3, <1>5, <1>6

LEMMA PartnerKept ==
  ASSUME LatestInv, NEW r \in Requests, Moved(r), NEW id \in DOMAIN users,
         Done(r, "addPartner")' => req'[r].id # id,
         users'[id].partner = users[id].partner
  PROVE  PartnerRight(id)'
<1>1. PartnerRight(id)
  BY DEF LatestInv, PartnerInv
<1>2. SUFFICES ASSUME Asked("addPartner", id)'
               PROVE  \E x \in Latest("addPartner", id)' :
                          users'[id].partner = req'[x].other \/ SavedBack(id, x)'
  BY DEF PartnerRight
<1>3. PICK x \in Latest("addPartner", id) :
         users[id].partner = req[x].other \/ SavedBack(id, x)
  BY <1>1, <1>2, LatestMoves DEF PartnerRight
<1> QED
  BY <1>3, LatestMoves

LEMMA RowKept ==
  ASSUME LatestInv, NEW r \in Requests, Moved(r), NEW u \in Requests \ {r},
         Done(r, "addPartner")' => req'[r].id # req[u].id
  PROVE  RowRight(u)'
<1>1. RowRight(u) /\ req'[u] = req[u] /\ began'[u] = began[u]
  BY DEF LatestInv, PartnerInv, Moved
<1>2. PICK id : id = req[u].id
  OBVIOUS
<1>3. req'[u].id = id
  BY <1>1, <1>2
<1>4. SUFFICES ASSUME req[u].pc = "save", req[u].kind = "updateUser", Asked("addPartner", id)'
               PROVE  \E x \in Latest("addPartner", id)' :
                          \/ req'[u].row.partner = req'[x].other
                          \/ SavedBack(id, x)'
                          \/ began'[u] < ended'[x]
  BY <1>1, <1>3 DEF RowRight
<1>5. PICK x \in Latest("addPartner", id) :
         \/ req[u].row.partner = req[x].other
         \/ SavedBack(id, x)
         \/ began[u] < ended[x]
  BY <1>1, <1>2, <1>4, LatestMoves DEF RowRight
<1> QED
  BY <1>1, <1>2, <1>5, LatestMoves

\* A step that saves no user keeps the invariant if the row it has read and is
\* about to save is right.
LEMMA PartnersKept ==
  ASSUME LatestInv, Typed', NEW r \in Requests, Moved(r), ~Done(r, "addPartner")',
         \A k \in DOMAIN users : users'[k].partner = users[k].partner,
         req'[r].pc = "save" =>
            /\ req'[r].kind = "addPartner" => req'[r].row.partner = req'[r].other
            /\ req'[r].kind = "updateUser" =>
                  req'[r].id \in DOMAIN users /\ req'[r].row.partner = users[req'[r].id].partner
  PROVE  PartnerInv'
<1>1. ASSUME NEW id \in DOMAIN users PROVE PartnerRight(id)'
  BY PartnerKept
\* A user that is new was never given a partner.
<1>2. ASSUME NEW id \in DOMAIN users' \ DOMAIN users PROVE PartnerRight(id)'
  <2>1. ~Asked("addPartner", id)
    <3>1. SUFFICES ASSUME NEW q \in Requests, Done(q, "addPartner"), req[q].id = id PROVE FALSE
      BY DEF Asked
    <3>2. id \in 0 .. Len(users) /\ DOMAIN users = 1 .. Len(users) /\ Len(users) \in Nat
      BY <3>1 DEF LatestInv, InRange, IInv, Typed
    <3>3. id # 0
      BY DEF Typed
    <3> QED
      BY <3>2, <3>3
  <2>2. ~Asked("addPartner", id)'
    BY <2>1, LatestMoves
  <2> QED
    BY <2>2 DEF PartnerRight
<1>3. ASSUME NEW u \in Requests \ {r} PROVE RowRight(u)'
  BY RowKept
<1>4. RowRight(r)'
  <2>1. PICK id : id = req'[r].id
    OBVIOUS
  <2>2. SUFFICES ASSUME req'[r].pc = "save", req'[r].kind = "updateUser", Asked("addPartner", id)'
                 PROVE  \E x \in Latest("addPartner", id)' :
                            \/ req'[r].row.partner = req'[x].other
                            \/ SavedBack(id, x)'
                            \/ began'[r] < ended'[x]
    BY <2>1 DEF RowRight
  <2>3. id \in DOMAIN users /\ req'[r].row.partner = users[id].partner /\ PartnerRight(id)
    BY <2>1, <2>2 DEF LatestInv, PartnerInv
  <2>4. PICK x \in Latest("addPartner", id) :
           users[id].partner = req[x].other \/ SavedBack(id, x)
    BY <2>2, <2>3, LatestMoves DEF PartnerRight
  <2> QED
    BY <2>3, <2>4, LatestMoves
<1> QED
  BY <1>1, <1>2, <1>3, <1>4 DEF PartnerInv

\* An addPartner saves its own partner; an updateUser the one it has read, over
\* those of the requests that were answered since.
LEMMA SaveUserKept ==
  ASSUME LatestInv, NEW r \in Requests, SaveUser(r)
  PROVE  PartnerInv'
<1>1. /\ Moved(r) /\ req[r].pc = "save" /\ req'[r].pc = "answered"
      /\ req[r].kind \in {"addPartner", "updateUser"} /\ req'[r].kind = req[r].kind
      /\ req'[r].answer = "ok" /\ req'[r].id = req[r].id /\ req'[r].other = req[r].other
      /\ users' = [users EXCEPT ![req[r].id] = req[r].row] /\ req[r].id \in DOMAIN users
  BY SaveUserDoes
<1>2. PICK id : id = req[r].id
  OBVIOUS
<1>3. /\ DOMAIN users' = DOMAIN users
      /\ users'[id].partner = req[r].row.partner
      /\ \A k \in DOMAIN users \ {id} : users'[k].partner = users[k].partner
  BY <1>1, <1>2 DEF LatestInv, IInv, Typed
<1>4. /\ began'[r] = began[r] /\ ended'[r] = now /\ now \in Nat
      /\ \A q \in Requests : began[q] \in Nat /\ ended[q] \in Nat /\ began[q] < now /\ ended[q] < now
  <2>1. began' = began
    BY DEF SaveUser, Answer
  <2> QED
    BY <1>1, <2>1 DEF LatestInv, Stamped, Moved
<1>5. RowRight(r)'
  BY <1>1 DEF RowRight
<1>6. ASSUME NEW k \in DOMAIN users, k # id PROVE PartnerRight(k)'
  BY <1>1, <1>2, <1>3, <1>6, PartnerKept
<1>7. CASE req[r].kind = "addPartner"
  <2>1. r \in Latest("addPartner", id)'
    <3>1. Done(r, "addPartner")' /\ req'[r].id = id
      BY <1>1, <1>2, <1>7 DEF Done
    <3>2. \A q \in Requests : began'[q] <= ended'[r]
      BY <1>1, <1>4 DEF Moved
    <3> QED
      BY <3>1, <3>2 DEF Latest
  <2>2. req[r].row.partner = req'[r].other
    BY <1>1, <1>7 DEF LatestInv, PartnerInv, RowRight
  <2>3. PartnerRight(id)'
    BY <1>3, <2>1, <2>2 DEF PartnerRight
  <2>4. ASSUME NEW u \in Requests \ {r} PROVE RowRight(u)'
    <3>1. RowRight(u) /\ req'[u] = req[u] /\ began'[u] < ended'[r]
      BY <1>1, <1>4 DEF LatestInv, PartnerInv, Moved
    <3>2. CASE req[u].id = id
      BY <2>1, <3>1, <3>2 DEF RowRight
    <3>3. CASE req[u].id # id
      BY <1>1, <1>2, <3>3, RowKept
    <3> QED
      BY <3>2, <3>3
  <2> QED
    BY <1>3, <1>5, <1>6, <2>3, <2>4 DEF PartnerInv
<1>8. CASE req[r].kind = "updateUser"
  <2>1. ~Done(r, "addPartner")'
    BY <1>1, <1>8 DEF Done
  <2>2. ASSUME NEW u \in Requests \ {r} PROVE RowRight(u)'
    BY <1>1, <2>1, RowKept
  <2>3. PartnerRight(id)'
    <3>1. SUFFICES ASSUME Asked("addPartner", id)'
                   PROVE  \E x \in Latest("addPartner", id)' :
                              users'[id].partner = req'[x].other \/ SavedBack(id, x)'
      BY DEF PartnerRight
    <3>2. PICK x \in Latest("addPartner", id) :
             \/ req[r].row.partner = req[x].other
             \/ SavedBack(id, x)
             \/ began[r] < ended[x]
      <4>1. Asked("addPartner", id) /\ RowRight(r)
        BY <1>1, <2>1, <3>1, LatestMoves DEF LatestInv, PartnerInv
      <4> QED
        BY <1>1, <1>2, <1>8, <4>1 DEF RowRight
    <3>3. /\ x \in Latest("addPartner", id)' /\ x \in Requests
          /\ req'[x] = req[x] /\ ended'[x] = ended[x]
          /\ SavedBack(id, x) => SavedBack(id, x)'
      <4>1. /\ Latest("addPartner", id)' = Latest("addPartner", id)
            /\ req'[x] = req[x] /\ ended'[x] = ended[x]
            /\ SavedBack(id, x) => SavedBack(id, x)'
        BY <1>1, <2>1, <3>2, LatestMoves
      <4>2. x \in Requests
        BY <3>2 DEF Latest
      <4> QED
        BY <3>2, <4>1, <4>2
    <3>4. ASSUME began[r] < ended[x] PROVE SavedBack(id, x)'
      <4>1. Done(r, "updateUser")' /\ req'[r].id = id
        BY <1>1, <1>2, <1>8 DEF Done
      <4>2. began'[r] < ended'[x] /\ ended'[x] < ended'[r]
        BY <1>4, <3>3, <3>4
      <4> QED
        BY <4>1, <4>2 DEF SavedBack
    <3> QED
      BY <1>3, <3>2, <3>3, <3>4
  <2> QED
    BY <1>3, <1>5, <1>6, <2>2, <2>3 DEF PartnerInv
<1> QED
  BY <1>1, <1>7, <1>8

LEMMA PartnerStep ==
  ASSUME LatestInv, [Next]_vars
  PROVE  PartnerInv'
<1>t. Typed /\ Typed' /\ DOMAIN users = 1 .. Len(users) /\ Len(users) \in Nat
  BY InvStep DEF LatestInv, IInv, Typed
<1>s. ASSUME NEW r \in Requests, Moved(r), users' = users, ~Done(r, "addPartner")', req'[r].pc # "save"
      PROVE  PartnerInv'
  BY <1>s, <1>t, PartnersKept
<1>1. ASSUME NEW r \in Requests, Register(r) PROVE PartnerInv'
  <2>1. Moved(r) /\ users' = users /\ req'[r].kind = "register" /\ req'[r].pc \in {"insert", "answered"}
    BY <1>1, RegisterDoes
  <2>2. ~Done(r, "addPartner")' /\ req'[r].pc # "save"
    BY <2>1 DEF Done
  <2> QED
    BY <2>1, <2>2, <1>s
<1>2. ASSUME NEW r \in Requests, Insert(r) PROVE PartnerInv'
  <2>1. /\ Moved(r) /\ req'[r].kind = "register" /\ req'[r].pc = "answered"
        /\ users' = users \/ users' = Append(users, User(req[r].name, r))
    BY <1>2, InsertDoes
  <2>2. \A k \in DOMAIN users : users'[k].partner = users[k].partner
    <3>1. users \in Seq(Rows \cup {User(req[r].name, r)})
      BY <1>t DEF Typed
    <3> HIDE DEF User
    <3> QED
      BY <2>1, <3>1, <1>t
  <2>3. ~Done(r, "addPartner")' /\ req'[r].pc # "save"
    BY <2>1 DEF Done
  <2> QED
    BY <2>1, <2>2, <2>3, <1>t, PartnersKept
<1>3. ASSUME NEW r \in Requests, ReadUser1(r) PROVE PartnerInv'
  <2>1. Moved(r) /\ users' = users /\ req'[r].kind = "addPartner" /\ req'[r].pc = "user2"
    BY <1>3, ReadUser1Does
  <2>2. ~Done(r, "addPartner")' /\ req'[r].pc # "save"
    BY <2>1 DEF Done, Moved
  <2> QED
    BY <2>1, <2>2, <1>s
<1>4. ASSUME NEW r \in Requests, ReadUser2(r) PROVE PartnerInv'
  <2>1. /\ Moved(r) /\ users' = users /\ req[r].pc = "user2" /\ req'[r].kind = "addPartner"
        /\ \/ req'[r].pc = "answered" /\ req'[r].answer = "error"
           \/ /\ req'[r].pc = "save"
              /\ req'[r].row = [req[r].row EXCEPT !.partner = req'[r].other]
    BY <1>4, ReadUser2Does
  <2>2. ~Done(r, "addPartner")'
    BY <2>1 DEF Done, Moved
  <2>3. req'[r].pc = "save" => req'[r].row.partner = req'[r].other
    <3>1. req[r].row \in Rows
      BY <1>t DEF Typed, Reqs
    <3> QED
      BY <2>1, <3>1 DEF Rows
  <2> QED
    BY <2>1, <2>2, <2>3, <1>t, PartnersKept
<1>5. ASSUME NEW r \in Requests, ReadForUpdate(r) PROVE PartnerInv'
  <2>1. /\ Moved(r) /\ users' = users /\ req'[r].kind = "updateUser" /\ req'[r].id \in DOMAIN users
        /\ \/ req'[r].pc = "answered"
           \/ req'[r].pc = "save" /\ req'[r].row = [users[req'[r].id] EXCEPT !.name = r]
    BY <1>5, ReadForUpdateDoes
  <2>2. ~Done(r, "addPartner")'
    BY <2>1 DEF Done
  <2>3. req'[r].pc = "save" => req'[r].row.partner = users[req'[r].id].partner
    <3>1. users[req'[r].id] \in Rows
      BY <2>1, <1>t DEF Typed
    <3> QED
      BY <2>1, <3>1 DEF Rows
  <2> QED
    BY <2>1, <2>2, <2>3, <1>t, PartnersKept
<1>6. ASSUME NEW r \in Requests, SaveUser(r) PROVE PartnerInv'
  BY <1>6, SaveUserKept
<1>7. ASSUME NEW r \in Requests, ReadPhotoUser(r) PROVE PartnerInv'
  <2>1. Moved(r) /\ users' = users /\ req'[r].kind = "addPhoto" /\ req'[r].pc = "photo"
    BY <1>7, ReadPhotoUserDoes
  <2>2. ~Done(r, "addPartner")' /\ req'[r].pc # "save"
    BY <2>1 DEF Done
  <2> QED
    BY <2>1, <2>2, <1>s
<1>8. ASSUME NEW r \in Requests, ReadPhoto(r) PROVE PartnerInv'
  <2>1. Moved(r) /\ users' = users /\ req'[r].kind = "addPhoto" /\ req'[r].pc = "savePhoto"
    BY <1>8, ReadPhotoDoes
  <2>2. ~Done(r, "addPartner")' /\ req'[r].pc # "save"
    BY <2>1 DEF Done
  <2> QED
    BY <2>1, <2>2, <1>s
<1>9. ASSUME NEW r \in Requests, SavePhoto(r) PROVE PartnerInv'
  <2>1. Moved(r) /\ users' = users /\ req'[r].kind = "addPhoto" /\ req'[r].pc = "answered"
    BY <1>9, SavePhotoDoes
  <2>2. ~Done(r, "addPartner")' /\ req'[r].pc # "save"
    BY <2>1 DEF Done
  <2> QED
    BY <2>1, <2>2, <1>s
<1>10. CASE UNCHANGED vars
  BY <1>10 DEF vars, LatestInv, PartnerInv, PartnerRight, RowRight, SavedBack, Asked, Latest, Done
<1> QED
  BY <1>1, <1>2, <1>3, <1>4, <1>5, <1>6, <1>7, <1>8, <1>9, <1>10 DEF Next

-----------------------------------------------------------------------------
LEMMA LatestInit == Init => LatestInv
<1> SUFFICES ASSUME Init PROVE LatestInv
  OBVIOUS
<1>1. IInv
  BY InvInit
<1>2. DOMAIN users = {} /\ DOMAIN photos = {} /\ Len(users) = 0 /\ Len(photos) = 0
  BY DEF Init
<1>3. \A r \in Requests : /\ req[r].pc = "idle" /\ req[r].answer = "none"
                          /\ req[r].id = 0 /\ req[r].photo = 0
                          /\ began[r] = 0 /\ ended[r] = 0
  <2>1. /\ Idle.pc = "idle" /\ Idle.answer = "none" /\ Idle.id = 0 /\ Idle.photo = 0
    BY DEF Idle
  <2>2. \A r \in Requests : req[r] = Idle /\ began[r] = 0 /\ ended[r] = 0
    BY DEF Init
  <2> QED
    BY <2>1, <2>2
<1>4. ASSUME NEW r \in Requests PROVE InRange(r) /\ Stamped(r)
  <2>1. InRange(r)
    BY <1>2, <1>3 DEF InRange
  <2>2. now = 1
    BY DEF Init
  <2>3. Stamped(r)
    BY <1>3, <2>2 DEF Stamped
  <2> QED
    BY <2>1, <2>3
<1>5. \A r \in Requests : req[r].pc = "idle" /\ ~Done(r, "addPhoto")
  BY <1>3 DEF Done
<1>6. PhotoInv /\ PartnerInv /\ Ranges
  BY <1>2, <1>5 DEF PhotoInv, PartnerInv, RowRight, Ranges
<1> QED
  BY <1>1, <1>4, <1>6 DEF LatestInv, Init

LEMMA LatestStep == LatestInv /\ [Next]_vars => LatestInv'
<1> SUFFICES ASSUME LatestInv, [Next]_vars PROVE LatestInv'
  OBVIOUS
<1>1. IInv' /\ Ranges' /\ (\A r \in Requests : InRange(r)') /\ PhotoInv' /\ PartnerInv'
  BY InvStep, RangesStep, PhotoStep, PartnerStep DEF LatestInv
<1>2. /\ now' \in Nat /\ now' > 0
      /\ began' \in [Requests -> Nat] /\ ended' \in [Requests -> Nat]
      /\ \A q \in Requests : Stamped(q)'
  <2>1. CASE UNCHANGED vars
    BY <2>1 DEF vars, LatestInv, Stamped
  <2>2. CASE \E r \in Requests : Moved(r)
    <3>1. PICK r \in Requests : Moved(r)
      BY <2>2
    <3>2. began' \in [Requests -> Nat] /\ ended' \in [Requests -> Nat]
      BY <3>1 DEF Moved
    <3> QED
      BY <3>1, <3>2, StampsKept
  <2>3. CASE Next
    <3>1. ASSUME NEW r \in Requests, Register(r) \/ Insert(r) PROVE Moved(r)
      BY <3>1, RegisterDoes, InsertDoes, ZenonT(30)
    <3>2. ASSUME NEW r \in Requests, ReadUser1(r) \/ ReadUser2(r) PROVE Moved(r)
      BY <3>2, ReadUser1Does, ReadUser2Does, ZenonT(30)
    <3>3. ASSUME NEW r \in Requests, ReadForUpdate(r) \/ SaveUser(r) PROVE Moved(r)
      BY <3>3, ReadForUpdateDoes, SaveUserDoes, ZenonT(30)
    <3>4. ASSUME NEW r \in Requests, ReadPhotoUser(r) \/ ReadPhoto(r) \/ SavePhoto(r) PROVE Moved(r)
      BY <3>4, ReadPhotoUserDoes, ReadPhotoDoes, SavePhotoDoes, ZenonT(30)
    <3> QED
      BY <2>2, <2>3, <3>1, <3>2, <3>3, <3>4 DEF Next
  <2> QED
    BY <2>1, <2>3
<1> QED
  BY <1>1, <1>2 DEF LatestInv

\* For any number of requests, of any kinds and for any names: what a request
\* saved last is what the tables hold.  The first row of photos of a user, which
\* getPhoto shows, is that of an addPhoto no later one followed; the partner is
\* that of such an addPartner, unless an updateUser that had read the row before
\* (XmppResource.updateUser) saved it back afterwards; and every id kept in a
\* row or in an answer is one of the tables.
THEOREM LatestAlwaysKept == Spec => []LatestKept
<1>1. LatestInv => LatestKept
  <2> SUFFICES ASSUME LatestInv PROVE LatestKept
    OBVIOUS
  <2>1. TypeOK
    BY DEF TypeOK, LatestInv, Ranges, InRange, Stamped, IInv, Typed, Reqs, Answers
  <2>2. ASSUME NEW id \in DOMAIN users, Asked("addPhoto", id)
        PROVE  photos[FirstPhoto(id)].photo \in Latest("addPhoto", id)
    <3>1. FirstPhoto(id) = FirstIn(photos, id) /\ FirstIn(photos, id) # 0
      BY <2>2, FirstPhotoIs DEF LatestInv, IInv, PhotoInv, Asked
    <3>2. Shown(photos, id) \in Latest("addPhoto", id)
      BY <3>1, ShownIsDone DEF Latest, LatestInv, PhotoInv
    <3> QED
      BY <3>1, <3>2 DEF Shown
  <2>3. PartnerIsLatest
    BY DEF PartnerIsLatest, LatestInv, PartnerInv, PartnerRight, SavedBack
  <2> QED
    BY <2>1, <2>2, <2>3 DEF LatestKept, LatestPhotoShown
<1> QED
  BY LatestInit, LatestStep, <1>1, PTL DEF Spec
=============================================================================
