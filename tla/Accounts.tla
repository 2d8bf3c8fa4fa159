------------------------------ MODULE Accounts ------------------------------
(***************************************************************************)
(* The account requests of XmppResource: register, addPartner, updateUser  *)
(* and addPhoto.  Each runs on a thread of the servlet container, reads    *)
(* what it needs, and saves it with a call of its own; no transaction      *)
(* spans the two.  A row that was read is a detached copy, and saving it   *)
(* writes every column.                                                    *)
(*                                                                         *)
(* A request is one element of Requests and is made once.  `began' and     *)
(* `ended' keep the order of its first and last step among all steps: they *)
(* guard nothing.                                                          *)
(***************************************************************************)
EXTENDS Integers, Sequences

CONSTANTS
    Requests,  \* requests, and the threads that serve them
    Kinds,     \* which of the four each of them may be
    Names,     \* user names; the display names are requests' own
    NoOne      \* null, the partner -1 and the photo there is not

ASSUME KindsAssumption ==
    Kinds \in [Requests -> SUBSET {"register", "addPartner", "updateUser", "addPhoto"}]
ASSUME NoOneAssumption == NoOne \notin Names \cup Requests

VARIABLES
    users,   \* the rows of User, numbered by their ids
    photos,  \* the rows of UserPhoto, numbered by theirs
    req,     \* what each request has read and answered
    began, ended,  \* when it began and when it was answered, 0 before
    now      \* steps taken

vars == <<users, photos, req, began, ended, now>>

\* The columns a request sets or reads; the password is the one the client of
\* that name gave, and a request for updateUser has it right or wrong.
User(name, by) == [username |-> name, name |-> by, partner |-> 0]
Photo(id, by) == [userId |-> id, photo |-> by]

Idle == [kind |-> "none", pc |-> "idle", name |-> NoOne, id |-> 0, other |-> 0,
         row |-> User(NoOne, NoOne), photo |-> 0, answer |-> "none"]

Init ==
    /\ users = <<>> /\ photos = <<>>
    /\ req = [r \in Requests |-> Idle]
    /\ began = [r \in Requests |-> 0] /\ ended = [r \in Requests |-> 0]
    /\ now = 1

\* UserDao.getUserByUsername.
IdOf(name) ==
    IF \E k \in DOMAIN users : users[k].username = name
    THEN CHOOSE k \in DOMAIN users : users[k].username = name ELSE 0

\* UserPhotoDao.getUserPhotoByUserId: the first of the user's rows.
FirstPhoto(id) ==
    IF \E k \in DOMAIN photos : photos[k].userId = id
    THEN CHOOSE k \in DOMAIN photos :
            photos[k].userId = id /\ \A l \in 1 .. k - 1 : photos[l].userId # id
    ELSE 0

Begin(r, next) ==
    /\ req' = [req EXCEPT ![r] = next]
    /\ began' = [began EXCEPT ![r] = now]
    /\ now' = now + 1

Step(r, next) ==
    /\ req' = [req EXCEPT ![r] = next]
    /\ now' = now + 1
    /\ UNCHANGED began

Answer(r, answer, id) ==
    /\ req' = [req EXCEPT ![r].pc = "answered", ![r].answer = answer, ![r].id = id]
    /\ ended' = [ended EXCEPT ![r] = now]
    /\ now' = now + 1
    /\ UNCHANGED began

-----------------------------------------------------------------------------
(* register *)

\* Whether the name is taken already: then the answer is the id it has.
Register(r) ==
    /\ req[r].pc = "idle" /\ "register" \in Kinds[r]
    /\ \E name \in Names :
          LET to == [Idle EXCEPT !.kind = "register", !.name = name]
              id == IdOf(name)
          IN IF id = 0
             THEN Begin(r, [to EXCEPT !.pc = "insert"]) /\ UNCHANGED ended
             ELSE /\ Begin(r, [to EXCEPT !.pc = "answered", !.answer = "duplicate", !.id = id])
                  /\ ended' = [ended EXCEPT ![r] = now]
    /\ UNCHANGED <<users, photos>>

\* Fault: the column is not unique.
Insert_NotUnique(r) ==
    /\ req[r].pc = "insert"
    /\ users' = Append(users, User(req[r].name, r))
    /\ Answer(r, "ok", Len(users) + 1)
    /\ UNCHANGED photos

\* UserDao.saveUser of a new row: the column is unique, and a name that has been
\* taken since is answered with an error.
Insert(r) ==
    /\ req[r].pc = "insert"
    /\ IF IdOf(req[r].name) # 0
       THEN Answer(r, "error", 0) /\ UNCHANGED users
       ELSE /\ users' = Append(users, User(req[r].name, r))
            /\ Answer(r, "ok", Len(users) + 1)
    /\ UNCHANGED photos

-----------------------------------------------------------------------------
(* addPartner *)

ReadUser1(r) ==
    /\ req[r].pc = "idle" /\ "addPartner" \in Kinds[r]
    /\ \E name \in Names : IdOf(name) # 0 /\
          Begin(r, [Idle EXCEPT !.kind = "addPartner", !.pc = "user2", !.id = IdOf(name),
                                !.row = users[IdOf(name)]])
    /\ UNCHANGED <<users, photos, ended>>

\* The second user, whose id becomes the partner of the first.
ReadUser2(r) ==
    /\ req[r].pc = "user2"
    /\ \E name \in Names :
          IF IdOf(name) = 0
          THEN Answer(r, "error", req[r].id)
          ELSE /\ Step(r, [req[r] EXCEPT !.pc = "save", !.other = IdOf(name),
                                         !.row.partner = IdOf(name)])
               /\ UNCHANGED ended
    /\ UNCHANGED <<users, photos>>

\* UserDao.saveUser of a row read before: all of it is written.
SaveUser(r) ==
    /\ req[r].pc = "save"
    /\ users' = [users EXCEPT ![req[r].id] = req[r].row]
    /\ Answer(r, "ok", req[r].id)
    /\ UNCHANGED photos

-----------------------------------------------------------------------------
(* updateUser *)

\* The row, the name and the password compared with it, and the new name set.
ReadForUpdate(r) ==
    /\ req[r].pc = "idle" /\ "updateUser" \in Kinds[r]
    /\ \E id \in DOMAIN users, right \in BOOLEAN :
          LET to == [Idle EXCEPT !.kind = "updateUser", !.id = id] IN
          IF right
          THEN /\ Begin(r, [to EXCEPT !.pc = "save", !.row = [users[id] EXCEPT !.name = r]])
               /\ UNCHANGED ended
          ELSE /\ Begin(r, [to EXCEPT !.pc = "answered", !.answer = "wrong password"])
               /\ ended' = [ended EXCEPT ![r] = now]
    /\ UNCHANGED <<users, photos>>

-----------------------------------------------------------------------------
(* addPhoto *)

ReadPhotoUser(r) ==
    /\ req[r].pc = "idle" /\ "addPhoto" \in Kinds[r]
    /\ \E id \in DOMAIN users :
          Begin(r, [Idle EXCEPT !.kind = "addPhoto", !.pc = "photo", !.id = id])
    /\ UNCHANGED <<users, photos, ended>>

ReadPhoto(r) ==
    /\ req[r].pc = "photo"
    /\ Step(r, [req[r] EXCEPT !.pc = "savePhoto", !.photo = FirstPhoto(req[r].id)])
    /\ UNCHANGED <<users, photos, ended>>

\* Fault: a photo is inserted though there is one.
SavePhoto_Inserts(r) ==
    /\ req[r].pc = "savePhoto"
    /\ photos' = Append(photos, Photo(req[r].id, r))
    /\ Answer(r, "ok", req[r].id)
    /\ UNCHANGED users

\* UserPhotoDao.saveUserPhoto: the row that was read, or a new one.
SavePhoto(r) ==
    /\ req[r].pc = "savePhoto"
    /\ photos' = IF req[r].photo = 0 THEN Append(photos, Photo(req[r].id, r))
                 ELSE [photos EXCEPT ![req[r].photo] = Photo(req[r].id, r)]
    /\ Answer(r, "ok", req[r].id)
    /\ UNCHANGED users

-----------------------------------------------------------------------------
Next ==
    \E r \in Requests :
        \/ Register(r) \/ Insert(r)
        \/ ReadUser1(r) \/ ReadUser2(r)
        \/ ReadForUpdate(r)
        \/ SaveUser(r)
        \/ ReadPhotoUser(r) \/ ReadPhoto(r) \/ SavePhoto(r)
Spec == Init /\ [][Next]_vars

-----------------------------------------------------------------------------
Done(r, kind) == req[r].kind = kind /\ req[r].answer = "ok"

TypeOK ==
    /\ \A k \in DOMAIN users :
          /\ users[k].username \in Names /\ users[k].name \in Requests
          /\ users[k].partner \in 0 .. Len(users)
    /\ \A k \in DOMAIN photos :
          photos[k].userId \in DOMAIN users /\ photos[k].photo \in Requests
    /\ \A r \in Requests :
          /\ req[r].id \in 0 .. Len(users) /\ req[r].photo \in 0 .. Len(photos)
          /\ req[r].answer \in {"none", "ok", "error", "duplicate", "wrong password"}
          /\ (req[r].answer = "none") = (ended[r] = 0)

\* However many requests find a name free, one account gets it, one of them is
\* told that it has created it, and the others are told something else.
OneAccountPerName ==
    /\ \A k, l \in DOMAIN users : users[k].username = users[l].username => k = l
    /\ \A r, q \in Requests :
          Done(r, "register") /\ Done(q, "register") /\ r # q => req[r].name # req[q].name

\* The id in an answer to register is that of the account with the name asked
\* for, and stays so whatever later requests save.
IdIsOfName ==
    \A r \in Requests :
        req[r].kind = "register" /\ req[r].answer \in {"ok", "duplicate"} =>
            users[req[r].id].username = req[r].name

\* The accounts stand: each name has one, and keeps it.
AccountsStand == OneAccountPerName /\ IdIsOfName

\* A change whose request ended before another of the same kind and user began
\* is over: what may show is the change of a request that no later one followed.
Latest(kind, id) ==
    {r \in Requests : /\ Done(r, kind) /\ req[r].id = id
                      /\ \A q \in Requests : Done(q, kind) /\ req[q].id = id => began[q] <= ended[r]}
Asked(kind, id) == \E r \in Requests : Done(r, kind) /\ req[r].id = id

\* getPhoto shows the photo added last, although two first photos of a user may
\* both be inserted.
LatestPhotoShown ==
    \A id \in DOMAIN users :
        Asked("addPhoto", id) => photos[FirstPhoto(id)].photo \in Latest("addPhoto", id)

\* "partner added": the partner of a user is one that no later request replaced,
\* unless an updateUser that had read the row before saved it back afterwards.
PartnerIsLatest ==
    \A id \in DOMAIN users :
        Asked("addPartner", id) =>
            \E r \in Latest("addPartner", id) :
                \/ users[id].partner = req[r].other
                \/ \E q \in Requests : /\ Done(q, "updateUser") /\ req[q].id = id
                                       /\ began[q] < ended[r] /\ ended[r] < ended[q]

\* What was answered last is what the tables hold, for photos and for partners.
LatestKept == TypeOK /\ LatestPhotoShown /\ PartnerIsLatest
=============================================================================
