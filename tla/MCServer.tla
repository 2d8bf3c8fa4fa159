------------------------------ MODULE MCServer ------------------------------
(***************************************************************************)
(* What the server does for its users beside keeping their sessions, one   *)
(* component at a time: accounts, the delivery of pushes and presences,    *)
(* the time a user was online, the framing of the streams of XML, the      *)
(* distance of two texts, and the lists that the console asks for.  The    *)
(* components stand side by side; `subject' is the one that moves, and     *)
(* says with which constants.  The accounts are those of Accounts itself,  *)
(* so that what is checked of them here is what Accounts_proofs proves.    *)
(***************************************************************************)
EXTENDS Accounts, TLC

CONSTANTS
    Subjects,                 \* those that are looked at
    NoStream, c1, c2, c3,     \* streams; c1 and c2 are of one device
    a1, a2, push,             \* the addresses of two devices, a push to the first
    r1, r2, r3, r4            \* requests

VARIABLES
    subject,
    state, registry, avail, said, status, left, found, online, written, steady,
    clock, records, open, lived,
    stream, taken, kept, parser, out,
    source, target, pc, row, column, diff, merged, index,
    items, present, asked, shown, changes

-----------------------------------------------------------------------------
(* Accounts: up to three registrations of two names, of which two may be   *)
(* changes of the users made instead, and another change.                  *)

RequestKinds ==
    r1 :> {"register"} @@ r2 :> {"register", "addPhoto"}
    @@ r3 :> {"register", "addPartner", "addPhoto"} @@ r4 :> {"addPartner", "addPhoto", "updateUser"}

(* Delivery: a push, its device that reconnects, and another device whose  *)
(* address contains the id of the first.                                   *)

Pushed == INSTANCE Delivery WITH
    Streams <- {c1, c2, c3}, Addrs <- {a1, a2}, AddrOf <- c1 :> a1 @@ c2 :> a1 @@ c3 :> a2,
    Pushes <- {push}, DeviceOf <- push :> a1, Contains <- a1 :> {a1} @@ a2 :> {a1, a2}

(* Time online: one stream at a time, three, and three of a server that    *)
(* may be killed.                                                          *)

OneStream == INSTANCE OnlineStats WITH MaxStreams <- 1, MaxTime <- 7, Killed <- FALSE
Overlapping == INSTANCE OnlineStats WITH MaxStreams <- 3, MaxTime <- 7, Killed <- FALSE
Unrecorded == INSTANCE OnlineStats WITH MaxStreams <- 3, MaxTime <- 6, Killed <- TRUE

-----------------------------------------------------------------------------
(* Streams of XML: every way to cut them into chunks.                      *)

Prolog == <<"<", "?", " ", "v", "?", ">">>
Open == <<"<", "s", " ", "x", "=", "\"", "/", ">", "\"", ">">>
Close == <<"<", "/", "s", ">">>
White == <<" ">>
Begun == <<"<", "a", ">">>
Ended == <<"<", "/", "a", ">">>

\* <a/>
Empty == <<"<", "a", "/", ">">>
\* <ab x=">"><a /><ab>f</ab></ab>, with a child named like the stanza
Nested == <<"<", "a", "b", " ", "x", "=", "\"", ">", "\"", ">">> \o <<"<", "a", " ", "/", ">">>
              \o <<"<", "a", "b", ">", "f1", "f2", "<", "/", "a", "b", ">">>
              \o <<"<", "/", "a", "b", ">">>
\* <a><![CDATA[</a>]]></a>
Quoted == Begun \o <<"<", "!", "[", "C", "D", "A", "T", "A", "[">> \o Ended
              \o <<"]", "]", ">">> \o Ended
\* <a> </a>, with white space that is its own
Spaced == Begun \o White \o Ended

\* A control character in a stanza, and one that is longer than the buffer
Wrong == {<<Open, x, y>> : x \in {Empty, White, <<"<", "a", "ctl", ">">>},
                           y \in {Empty, Nested, White}}

Framed == INSTANCE XmlFraming WITH
    MaxBuffer <- 40,
    Streams <- {<<Prolog, Open, x, y, Close>> :
                   x \in {Nested, Quoted, Spaced, White}, y \in {Empty, Spaced, White}}
Refused == INSTANCE XmlFraming WITH MaxBuffer <- 12, Streams <- Wrong

\* Texts: every two of up to three objects
Compared == INSTANCE TextDistance WITH
    Letters <- {"a", "b", "c"}, MinLength <- 1, MaxLength <- 3,
    s <- source, t <- target, i <- row, j <- column

-----------------------------------------------------------------------------
(* Lists: sessions, with two calls under way that may overtake each other; *)
(* users, with one call and three changes, and two of them with two calls  *)
(* and one change; the pages of a list; the links to many pages.           *)

\* Users' other column has a value of its own for each; sessions 1 and 3 have one.
UserKey(n) == [x \in 1 .. n |-> CASE x = 2 -> 9 [] x = 4 -> 3 [] OTHER -> 4 + x]
SessionKey(n) == [x \in 1 .. n |-> CASE x = 2 -> 9 [] x = 4 -> 3 [] OTHER -> 5]

Sessions == INSTANCE ConsoleLists WITH
    Kind <- "sessions", Items <- 1 .. 3, Key <- SessionKey(3), PageSize <- 2, MaxShowSize <- 8,
    MaxAsked <- 2, MaxChanges <- 2, online <- present
Users == INSTANCE ConsoleLists WITH
    Kind <- "users", Items <- 1 .. 2, Key <- UserKey(2), PageSize <- 2, MaxShowSize <- 8,
    MaxAsked <- 1, MaxChanges <- 3, online <- present
Overtaken == INSTANCE ConsoleLists WITH
    Kind <- "users", Items <- 1 .. 2, Key <- UserKey(2), PageSize <- 2, MaxShowSize <- 8,
    MaxAsked <- 2, MaxChanges <- 1, online <- present
Pages == INSTANCE ConsoleLists WITH
    Kind <- "users", Items <- 1 .. 5, Key <- UserKey(5), PageSize <- 2, MaxShowSize <- 8,
    MaxAsked <- 0, MaxChanges <- 0, online <- present
Links == INSTANCE ConsoleLists WITH
    Kind <- "sessions", Items <- 1 .. 4, Key <- SessionKey(4), PageSize <- 1, MaxShowSize <- 2,
    MaxAsked <- 1, MaxChanges <- 0, online <- present

ASSUME ComponentsAssumption ==
    /\ Subjects \subseteq {"accounts", "pushed", "oneStream", "overlapping", "unrecorded",
                           "framed", "refused", "compared",
                           "sessions", "users", "overtaken", "pages", "links"}
    /\ Pushed!StreamsAssumption
    /\ OneStream!BoundsAssumption /\ Overlapping!BoundsAssumption /\ Unrecorded!BoundsAssumption
    /\ Framed!MaxBufferAssumption /\ Refused!MaxBufferAssumption
    /\ Compared!LengthsAssumption

-----------------------------------------------------------------------------

accounts == <<users, photos, req, began, ended, now>>
delivery == <<state, registry, avail, said, status, left, found, online, written, steady>>
statistics == <<clock, records, open, lived>>
framing == <<stream, taken, kept, parser, out>>
texts == <<source, target, pc, row, column, diff, merged, index>>
console == <<items, present, asked, shown, changes>>
serverVars == <<subject, accounts, delivery, statistics, framing, texts, console>>

\* Whatever does not move is in one of its first states.
ServerInit ==
    /\ subject \in Subjects
    /\ Init
    /\ Pushed!Init
    /\ OneStream!Init
    /\ IF subject = "refused" THEN Refused!Init ELSE Framed!Init
    /\ subject \notin {"framed", "refused"} => stream = <<Prolog, Open, Nested, Empty, Close>>
    /\ Compared!Init
    /\ subject # "compared" => source = <<"a">> /\ target = <<"a">>
    /\ CASE subject = "users" -> Users!Init
         [] subject = "overtaken" -> Overtaken!Init /\ items = 1 .. 2
         [] subject = "pages" -> Pages!Init
         [] subject = "links" -> Links!Init
         [] OTHER -> Sessions!Init
    /\ subject \notin {"sessions", "users", "overtaken", "pages", "links"} => items = {}

ServerNext ==
    \/ /\ subject = "accounts" /\ Next
       /\ UNCHANGED <<subject, delivery, statistics, framing, texts, console>>
    \/ /\ subject = "pushed" /\ Pushed!Next
       /\ UNCHANGED <<subject, accounts, statistics, framing, texts, console>>
    \/ /\ \/ subject = "oneStream" /\ OneStream!Next
          \/ subject = "overlapping" /\ Overlapping!Next
          \/ subject = "unrecorded" /\ Unrecorded!Next
       /\ UNCHANGED <<subject, accounts, delivery, framing, texts, console>>
    \/ /\ \/ subject = "framed" /\ Framed!Next
          \/ subject = "refused" /\ Refused!Next
       /\ UNCHANGED <<subject, accounts, delivery, statistics, texts, console>>
    \/ /\ subject = "compared" /\ Compared!Next
       /\ UNCHANGED <<subject, accounts, delivery, statistics, framing, console>>
    \/ /\ \/ subject = "sessions" /\ Sessions!Next
          \/ subject = "users" /\ Users!Next
          \/ subject = "overtaken" /\ Overtaken!Next
          \/ subject = "pages" /\ Pages!Next
          \/ subject = "links" /\ Links!Next
       /\ UNCHANGED <<subject, accounts, delivery, statistics, framing, texts>>

ServerSpec == ServerInit /\ [][ServerNext]_serverVars

-----------------------------------------------------------------------------
(* What the components promise, each property with the type invariant of   *)
(* its component; the module of each says it of the component alone.       *)

\* No push is answered "offline" while its device has a session all along, and
\* a device has the presence it announced, whatever others announce.
DevicesReached ==
    subject = "pushed" => Pushed!TypeOK /\ Pushed!OfflineIsTrue /\ Pushed!PresenceOfDevice

\* With one stream at a time the time online is what the user lived in it;
\* streams that overlap are not counted twice; the share of a window is one,
\* also where the server was killed.
OnlineTimeRight ==
    /\ subject = "oneStream" => OneStream!TypeOK /\ OneStream!ExactForOneStream
    /\ subject = "overlapping" => Overlapping!TypeOK /\ Overlapping!NeverTooMuch
    /\ subject = "unrecorded" => Unrecorded!TypeOK /\ Unrecorded!ShareOfWindow

\* Every stanza is written once and whole, however the stream is cut, and the
\* parser gives up for what was sent, not for how it was cut.
StanzasWhole ==
    /\ subject = "framed" => Framed!TypeOK /\ Framed!FramesAsSent
    /\ subject = "refused" => Refused!TypeOK /\ Refused!FailsForCause

\* The operations found turn one text into the other, are as many as the table
\* says, and no alignment of the texts needs fewer.
DistanceRight ==
    subject = "compared" =>
        /\ Compared!TypeOK
        /\ Compared!MergesToTarget /\ Compared!WalkIsShortest /\ Compared!OperationsAreLeast

\* A table of sessions fits the number of pages shown with it; one of users or
\* sessions is in the order its header marks, while they come, go, log in and out
\* and answers overtake each other; the pages of a list show everything once; as
\* many pages are linked to as there are or fit, the one shown among them.
TablesAgree ==
    /\ subject = "sessions" => Sessions!TypeOK /\ Sessions!PageAgrees /\ Sessions!ShownAsMarked
    /\ subject = "users" => Users!TypeOK /\ Users!ShownAsMarked
    /\ subject = "overtaken" => Overtaken!TypeOK /\ Overtaken!ShownAsMarked
    /\ subject = "pages" => Pages!TypeOK /\ Pages!EveryItemOnOnePage
    /\ subject = "links" => Links!TypeOK /\ Links!PageAgrees /\ Links!WindowFull
=============================================================================
