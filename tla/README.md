# MyPush: specifications, model checking and proofs

MyPush is a push server: Android devices keep an XMPP stream open to it (the
`org.androidpn` code, on Apache MINA), an application server asks it over REST to
push a message to a device (`me.promenade`), and a console lists users, sessions
and who was online when.  The server's own logic is small, but much of it runs
concurrently on shared maps without locks; the console's pages run on jQuery, its
form plugin and its table sorter, which are kept in the repository and make up
most of its code.  The modules are about both: what goes wrong on the server when
threads meet, and what goes wrong in a page when a callback changes what is
calling it.

Source paths below are relative to `src/src/`; `androidpn/` stands for
`org/androidpn/server/`, `promenade/` for `me/promenade/`, `openfire/` for
`org/jivesoftware/openfire/`, and `scripts/` for `src/WebContent/scripts/`.

## 1. Inventory

| Component | Source | State | Operations | Modelled in |
|---|---|---|---|---|
| Connections and their events | `androidpn/xmpp/net/Connection`, `XmppIoHandler`, `StanzaHandler` | closed flag, close listener, `sessionCreated` | opened, stanza, idle, closed; `close()` on any thread | `Sessions` |
| Session registry | `androidpn/xmpp/session/SessionManager` | `preAuthSessions`, `clientSessions`, `connectionsCounter` | create, add, look up, list, remove, close all | `Sessions` |
| Client sessions | `session/Session`, `ClientSession` | status, address, token, presence | `setAuthToken`, `setPresence`, `close` | `Sessions` |
| Authentication | `handler/IQAuthHandler`, `auth/AuthManager` | none | log in the session found under the sender's address | `Sessions` (passwords are `Claims`) |
| Presence | `router/PresenceRouter`, `handler/PresenceUpdateHandler` | none | set the presence of the session found under the sender's address | `Sessions` |
| Routing and delivery | `router/*`, `handler/IQHandler` | none | choose a handler, deliver replies | `Sessions` (the close after a failed write) |
| Notifications | `push/NotificationManager`, `console/.../NotificationController` | push records | broadcast, send to a user | `Sessions` (the worker threads) |
| Start and stop | `xmpp/XmppServer` | shutting down | shutdown hook | `Sessions` (the hook) |
| Push thread pool | `promenade/xmpp/service/PushThreadPool` | a `ThreadPoolExecutor` | `push` | `PushPool` |
| Push tasks | `promenade/xmpp/bean/PushTask` | status, time stamp | `run`, `pushMsg` | `PushPool` |
| Push status map | `promenade/xmpp/service/PushStatusMap` | id to task | add, change, get, clean | `PushPool`, `PushLifecycle` |
| Push REST requests | `promenade/xmpp/rest/XmppResource` | none | `push`, `callback`, `PushStatus` | `PushPool` |
| Clean-up job | `promenade/xmpp/task/PushStatusCheckJob` | none | `doCheck` every 10 minutes | `PushPool` |
| Accounts | `XmppResource` (register, addPartner, updateUser, addPhoto), user and photo services | the tables of users and photos | read a row, save a row | `Accounts` |
| Delivery | `PushTask.pushMsg`, `PresenceUpdateHandler` | `online` of a push | walk the sessions, match the device | `Delivery` |
| Online statistics | `console/controller/UserController`, `dao/hibernate/OnlineRecordDaoHibernate` | login and logout records | list and percentage of a window | `OnlineStats` |
| Console lists | `UserController.getUserList`, `SessionController.getSessionList`, `user/` and `session/` `list.jsp`, `table.jsp` | the table a page shows | ask, count, read, look up, show, give up | `ConsoleLists` |
| XML framing | `openfire/nio/XMLLightweightParser`, `androidpn/xmpp/codec/XmppDecoder` | buffer, automaton | `read` | `XmlFraming` |
| Text comparison | `promenade/util/algorithm/EditDistance` | none | distance, walk back, `getMerge` | `TextDistance` |
| Callback lists | `scripts/jquery-1.10.2.js` `Callbacks` | the list, its loop, its memory | add, remove, fire, empty, lock, disable | `CallbackOps`, `CallbackLists` |
| Deferred objects | `Deferred`, `when` | three callback lists, a state | settle, listen, `then`, `when` | `Deferreds`, `Promises` |
| Requests | `ajax`, the XMLHttpRequest transport | state, timer, `jQuery.active` | send, answer, time out, abort | `Ajax` |
| Queues and animations | `queue`, `Animation`, `fx` | fx queues, hooks, `jQuery.timers` | animate, delay, stop, finish, promise | `Animations` |
| Events | `jQuery.event` | handler lists, native listeners | on, off, trigger, dispatch | `Events` |
| Selectors | Sizzle | caches on elements, `dirruns`, `cachedruns` | find, filter | `Selectors` |
| Data and manipulation | `internalData`, `cleanData`, `clone`, `domManip` | `jQuery.cache`, `core_deletedIds` | data, bind, append, detach, remove, clone | `Manipulation`, `NodeData` |
| Form uploads | `scripts/jquery.form.js` `fileUploadIframe` | frame, timers, the form's attributes, what `cb()` is doing | submit, answer, time out, abort, look | `FormUpload` |
| Table sorter | `scripts/jquery.tablesorter.js` | cache, sort list, header counts | click, `sorton`, `update`, `appendCache` | `TableSorter` |
| Authentication manager, other jobs, other jQuery, date picker, vendored XML code, TLS, configuration | | | | not modelled, see section 7 |

How they interact.  MINA hands the events of a connection, in order, to a thread
of its `ExecutorFilter`; different connections run in parallel.  The I/O thread
calls `StanzaHandler`, which creates the `ClientSession` (into
`preAuthSessions`), and through the routers `IQAuthHandler` (out of it, into
`clientSessions`) and `PresenceUpdateHandler`.  REST and console threads find
sessions in `clientSessions` and write to them; a write that fails closes the
connection on the writer's thread.  `Connection.close()` calls back
`SessionManager.removeSession`.  A REST `push` records a `PushTask` and gives it
to the pool; a pool thread sends it; the device confirms over REST; quartz jobs
clean the record.  Account requests meet on the tables of users and photos, since
no transaction spans the reading of a row and its saving.

A console page has one thread.  It asks for its table by `$.ajax`, whose outcome is
a deferred object, which is made of callback lists; the answer is put in the page
by `html()`, the handlers of the old table going with it; the table sorter binds its
clicks, and uploads are forms submitted into a frame.  What is concurrent there is
what is pending (an answer, a timer, a tick, a frame that loads) and what is
reentrant: a function of the page that is called uses the thing that calls it.

What is hard to test, with its lines, is listed in `PROJECT.json` under
`hazards`.  The main ones on the server: two streams of one device and the single
entry they share; a close that races a login; registries updated in two steps; a
full pool; the last write of a task against the device's report; records removed
by age alone; rows saved that were read before others changed them; a stream of XML
cut anywhere.  In the pages: a list changed by the function it is calling; a queue
whose animation is stopped by a function that a tick calls; handlers bound and
unbound by a dispatch; an answer, a timeout and an abort that race; caches left on
elements that have moved; a sort that runs after the rows it was asked for.

What makes each component correct: a session is found exactly where its state
says it should be, and leaves when its connection does; the counter and the
online records add up; an accepted push is run exactly once and a rejected one
never; the status answers follow one understandable life cycle; a name has one
account; a push that is answered "offline" had nobody to reach; a stanza comes
out once and whole; whoever waits for an outcome is told once and of one outcome;
a queue with something in it moves on; an event calls each handler once; a selector
finds what it means; an element keeps its data and no other gets it; a table holds
each of its rows once, in the order its header marks.

## 2. Modules

* `Sessions` - the registries, the sessions, and the threads at work on them.
* `Sessions_proofs` - what holds of it for every client, and what for clients that log in
  once per stream, its counter and online records included.
* `MCSessions` - its instances for TLC.
* `PushLifecycle` - abstract: the answers a push may give to whoever follows it.
* `PushPool` - the pool, the tasks, the status map, callbacks and the cleaning.
* `PushPool_proofs` - its invariants, and that it implements `PushLifecycle`.
* `MCPushPool` - its instances for TLC.
* `Accounts` - account requests on the tables of users and photos.
* `Accounts_proofs` - one account per name, and what is saved last stays.
* `Delivery` - a push on its walk over sessions that come and go.
* `Delivery_proofs` - whom a push answered "offline" may have missed: nobody.
* `OnlineStats` - records, and the time online made of them.
* `XmlFraming` - the decoder's parser, fed in chunks.
* `TextDistance` - the edit distance and the walk back.
* `ConsoleLists` - the paged lists, from the link clicked to the table shown.
* `MCServer` - instances of these six.
* `CallbackOps` - what the methods of a callback list do to its variables.
* `CallbackLists` - callback lists, and functions of theirs that use them.
* `Promises` - abstract: what whoever holds a promise may rely on.
* `Deferreds` - deferred objects, made of the lists of `CallbackOps`.
* `Deferreds_proofs` - that they implement `Promises`, and tell everyone, in time and in order.
* `Ajax`, `FormUpload` - requests and uploads.
* `Ajax_proofs`, `FormUpload_proofs` - the answers, events and counters of both.
* `Animations` - queues of animations, and the timer that runs them.
* `MCRequests` - instances of these components.
* `Events`, `Selectors` - as their names say.
* `Events_proofs` - whom an event calls, when and how often.
* `NodeData` - abstract: every element has data and handlers of its own.
* `Manipulation` - `jQuery.cache` while elements are moved, copied and removed.
* `TableSorter` - tables and their clicks.
* `MCDocument` - instances of these four.
* `MCLiveness` - what must happen in the end, for four of the components.

Definitions commented "Fault:" are faulty variants that the properties are tried
against; no specification uses them.

### Sessions

One element of `Conns` is a connection with its socket, `Connection`,
`StanzaHandler` and, once the stream header has been read, its `ClientSession`:
the code pairs them one to one.  The I/O thread of a connection bears its name,
because the executor never runs two events of one connection at a time.  Each
thread has a step `pc`, the session it works on `tgt`, an address `key` (the one
it is logging in, or the one `removeSession` has read), and `hit`
(`clientRemoved`).

| Code | Model |
|---|---|
| `Session.status`, `address`, `ClientSession.presence` | `status`, `addr`, `avail` |
| `preAuthSessions`, keyed by stream id | `preAuth`, the set of sessions |
| `clientSessions`, keyed by full address | `clientSessions`, `NoConn` for no entry |
| `connectionsCounter`; login minus logout records | `counter`; `balance` |
| `sessionOpened`, stream header | `Open`, `StartStream`, `CreateClientSession` |
| `IQAuthHandler.handleIQ`, `setAuthToken`, `addSession` | `BeginLogin`, `SetAddress`, `SetStatus`, `LeavePreAuth`, `PutSession` |
| `PresenceRouter`, `PresenceUpdateHandler` | `Presence` |
| end of stream, idle, bad stanza | `IoClose` |
| lost socket; `sessionClosed` | `PeerGone`; `SocketClosed` |
| `Connection.close()`, `removeSession` | `CloseSync`, `RemoveClient`, `FinishRemove` |
| `pushMsg`, `sendBroadcast`, `sendNotifcationToUser` | `PickSession`, `Deliver` |
| `closeAllSessions` | `CollectPreAuth`, `CollectClients`, `CloseNext`, `CloseOver` |

A step is what one thread does between two points where another thread can see
or change the session or a registry.  `addSession` is two steps, `removeSession`
two (the address is read in the first; the record, in the second, reads it
again), `setAuthToken` four, `close()` one for its synchronized block and two for
its listener.

Abstractions and assumptions.
* The authentication token is set together with the address. Between the two
  statements only a logout record could tell them apart.
* Stream ids are unique, and no client logs in with a resource that is some
  stream's id. (`createClientSession` draws 32 random bits.)
* Online records are added up per address; the code keeps them per user.
* Fields that are not volatile are read as last written. Java allows a thread
  to read an older value of `status`, `address` or `presence`.
* A failed write is any exception inside `deliver`. With MINA that is rare
  (`ioSession.write` is asynchronous), but the code has the path.
* `closed`, which `close()` sets but reads only for a connection without a
  session, is the socket's state.
* Wrong passwords, get queries, TLS and messages change no registry. The
  exceptions they may throw are `IoClose`.

### PushPool and PushLifecycle

One element of `Tasks` is a push with its id, its `PushTask` and the request that
submits it.  `ThreadPoolExecutor` is external: `Execute`, `TakeNext` and
`ThreadExit` are its documented behaviour for a bounded queue and `AbortPolicy`.

| Code | Model |
|---|---|
| `PushThreadPool.push`: `addNewPush`, then `execute` | `AddNewPush`, `Execute` |
| `XmppResource.push` after `push` | `SaveMessage`; `req` says what the submitter is told |
| `PushTask.run` | `RunStart`, `PushMsg` (once per matching session), `RunEnd` |
| `callback`, `changeStatus` | `FindTask`, `SetStatus` |
| `cleanMap` | `ListOld`, `RemoveOld`; ten minutes are `Age` |
| `PushStatus?id=` | `shown` of `PushLifecycle` |

`delivered`, `ended` and `missed` are history variables.  A callback comes only
from a device to which the push was written: the id is a random UUID that only
the submitter and the device know.  `PushMsg` may, but need not, reach the
device: the connection may be closed by the time it is written to.

### Accounts, Delivery, OnlineStats

`Accounts`.  An element of `Requests` is a request and its servlet thread.  Each
call of a service is a step, because each is a transaction of its own.

| Code | Model |
|---|---|
| `register`: look the name up, save, look the id up | `Register`, `Insert` |
| `addPartner`, `updateUser`: read the row, save all of its columns | `ReadForUpdate`, `SaveUser` |
| `addPhoto`: look the user up, look its photo up, save | `ReadPhotoUser`, `ReadPhoto`, `SavePhoto` |
| the unique column `username`; `UserExistsException` | a guard of `Insert`, and the answer "duplicate" |
| the tables | `users`, `photos`, sequences numbered by their ids |

`Delivery` has the steps of logins and closes only as far as a push can tell them
apart; those of the registry itself are in `Sessions`, those of the pool in
`PushPool`, which leaves open whether a device is found.  `StartPush`,
`NextSession`, `CheckSession` and `EndPush` are `pushMsg` over a
`ConcurrentHashMap`: the iterator shows each entry as it is when it comes to it.
`Contains` says which device ids occur in the text of an address.

`OnlineStats` lives through every history of logins and logouts of a user, second
by second, and asks for every window in every state: `OnlineList` is
`getOnlineList`, `OnlineTime` is the loop of `getOnlinePercent`.

### XmlFraming and TextDistance

`Receive(n)` takes the next n bytes of the stream: the decoder's kept byte, the
decoding, `Robot` (one branch for each status of the parser) over the characters,
and the stanzas written.  Bytes of one character that were cut apart are elements
of their own, so that cutting inside a character is a cut like any other.

`TextDistance`: `Table` is the table of the code as a function; `WalkDiagonal`,
`WalkUp`, `WalkLeft` and `WalkEdge` are the loop that collects operations, and
`MergeNext`, `MergeTail` are `getMerge`.  The reference definition is the cost of
every alignment of the two texts (`Alignments`).

### ConsoleLists

| Code | Model |
|---|---|
| `$(document).ready`, `pagination`, `gotoPageByOrder` | `pageReady`, `pagination`, `gotoPageByOrder` |
| `getUserList`: count, read, look presences up | `CountUsers`, `ReadUsers`, `LookUp` |
| `getSessionList` | `getSessionList` |
| `success`, `timeout: 5000` of the page's `$.ajax` | `Success`, `Timeout` |

A user's link works on the table that is shown, whichever call it came from: calls
are not numbered, and the model does not number them either.  `asked` are the calls under
way, which are answered in any order.

### CallbackLists, Deferreds, Promises

A page has one thread, so its state includes the call stack `calls`.  A step is
what jQuery does from the moment it is entered, or resumed, until it calls a
function of the page, returns to it, or ends; while a function of the page runs it
may do whatever the page may do.  `CallbackOps` has the variables that
`jQuery.Callbacks` closes over as a record, with one operator for each method.
`CallbackLists` runs any lists with any flags.  `Deferreds` composes three such
lists into a deferred object as the code does, `MadeLists` being the functions
it starts with; `Then` and `When` make scripts of calls that run like the code's
own loops.  `Promises` is what remains of it for a holder, and `Deferreds!Promise`
maps one to the other.

### Ajax and FormUpload

| Code | Model |
|---|---|
| `jQuery.ajax` up to `transport.send` | `Begin`, `AfterStart`, `AfterBeforeSend`, `AfterAjaxSend`, `Send` |
| `done()` | `Done`, then a frame for each handler: `AfterSettle`, `AfterResult`, `AfterComplete`, `CountOff` |
| answer, `timeout`, `jqXHR.abort`, a throw | `Respond`, `TimeOut`, `Abort`, `Throw` |
| `fileUploadIframe` up to its timer; `doSubmit` | `Begin`, `AfterStart`, `AfterSend`; `DoSubmit` |
| `cb()` on load, by the look at the frame, by the timeout | `AnswerHeard`, `Look`, `TimedOut` |
| `cb()` from one function of the page to the next (623-660) | `Process`, `AfterOutcome`, `AfterSettled`, `AfterStop`, `AfterLast` |
| the `abort` that `cb()` calls (514-523) | `GiveUp`, `AfterGiveUp` |
| `xhr.abort` called by the page (335-353) | `CallerAborts`, `AfterError`, `AfterComplete` |
| a function of the page throws; the removal of the frame | `Throw`; `RemoveFrame` |
| the browser: a frame's load events | `BlankLoads`, `AnswerLoads` |

In `FormUpload` a step is what the plugin does from one function of the page to the
next.  `cb()` is called by the browser, when no script runs, so `handling` says which
function it is calling; `ajaxSubmit` and `abort` are called by the page, also inside
such a function, and what they are calling is the stack `calls`.  The functions that
follow each other without anything of the plugin in between are one: `success` or
`error` up to the settling of the deferred object; its listeners and the ajax events
up to the counter; `ajaxStop`; `complete`.  While one runs the page may submit
uploads, abort any upload that it knows, or throw (`MayThrow`); `callbackProcessed` is
set after the last.  `MaxAborts` bounds how often the page's aborts of one upload get as
far as calling `error`.

### Animations and Events

`Animations` has the fx queue of each element with its sentinel, its hooks, the
list `jQuery.timers` and the interval that goes over it.  Frames of `calls` are the
loops of `tick` (`TickNext`, `TickRemoves`), `stop` (`StopLoop`, `StopOne`) and
`finish`, which functions of the page may interrupt by calling them again
(`Nesting` says how far).  What a tick does to a style is left out: `TickLast(a)`
is a tick for which the animation is over.

`Events` has the nodes from an element up to the document.  An event takes two
half-steps at each node, jQuery's handlers (`VisitHandlers`) and the `on...`
attribute (`VisitAttribute`), in the order that native events and `trigger()` have
them; `PathEnds` is the default action, which may be the native method that raises
the event again.  A dispatch works on a copy of the handlers (`DispatchFrame`),
and handlers bind, unbind and trigger while it does.

### Selectors

A query is one step, because it runs to its end, and what is hard is what it
leaves behind: the caches on the elements and the counters that say whether they
still hold.  `Find` and `Filter` follow the compiled matchers (`Combine`,
`ElementMatcher`, `SetMatcher`, `SuperMatcher`) through those caches; `Selected` is
the meaning of a selector, defined on the tree alone.

### Manipulation and NodeData

Each call (`SetData`, `Bind`, `AppendTo`, `DetachElement`, `RemoveElement`,
`EmptyElement`, `CloneElement` and so on) is a step that changes a record of all
the variables, one operator for each function of the code.  `OldIE` is a browser
whose copies of an element carry its number.  `NodeData` is what the page may
think it has: data and handlers for each element.

### TableSorter

`construct`, `click`, `update`, `sorton` and `appendCache` are the sorter's own
entry points; `SortLater` is the timer of a click; `AddRow` and `DeleteRow` are the
page.  Which of the sort lists a table holds is a reference (`ownList`), because
tables share the default one.

### The composites

`MCServer`, `MCRequests`, `MCDocument` and `MCLiveness` put components side by
side.  `subject` is chosen at the start and never changes: it says which component
moves, and with which constants, so that one run goes over a small instance of
each.  `Subjects` says which are looked at; with one of them in it, a run is that
of the one instance.  A component that does not move stays in one of its first
states.

What a component promises is stated in its module, one definition for each promise.
The composites put together what belongs to one component: `QueuesRun` of `MCRequests`
is `OneAtATime`, `QueueMovesOn`, `NoHooksLeft`, `NoneForgotten`, `UnqueuedExact`,
`PromiseLast` and `TimersTicked` of `Animations`, each for the instance it is about,
and the type invariants of those.  Likewise `AccountsStand` in `Accounts` and
`CountsBalance` in `Sessions` are two promises each.

## 3. Runs

`PROJECT.json` says what each run shows; with two workers a run takes from a few
seconds to four minutes.  Deadlock is not checked: every connection,
login, push, request and call of a bounded instance may be used up, and then
nothing need happen.

| Run | Instance | Shows |
|---|---|---|
| `sessions_own` | 3 devices with an address each, 1 login per stream, a worker | `AllAuthenticatedListed`, `CounterExact` |
| `sessions_reconnect` | 2 streams of one device and another device, a worker | `NobodyLingers`, `CountsBalance` |
| `sessions_any` | 2 streams, any of 2 addresses, 2 logins on each, records may fail | `TypeOK`, `OneRegistry`, `RegisteredLoggedIn` |
| `sessions_shutdown` | 2 streams, any of 2 addresses, the shutdown thread | `PendingFindable`, `PreAuthDrains`, `NoneOutlivesSocket` |
| `sessions_listed` | as `sessions_reconnect` | `AllAuthenticatedListed` is violated |
| `push_pool` | 5 pushes, 3 threads (2 core), a queue of 1 | `OnePlace`, `QueueServed`, `RejectedWaits`, `OfflineUnsent` |
| `push_status` | 2 pushes, 1 thread, 2 callbacks at a time, the cleaning, records may fail | `OnlyOldUnknown`, `ReportStands`, `FollowsLifecycle` |
| `push_live` | 3 pushes, 1 thread, a queue of 1, with fairness | `AcceptedEnds`, `MapDrains` |
| `server` | `MCServer`: see below | `AccountsStand`, `LatestKept` (accounts), `DevicesReached` (deliveries), `OnlineTimeRight`, `StanzasWhole` (framing), `DistanceRight`, `TablesAgree` (console lists) |
| `requests` | `MCRequests`: see below | `ListsCallAll` (callback lists), `EveryoneHears`, `KeepsPromise` (deferred objects), `RequestsAnswered`, `UploadsAnswered`, `QueuesRun` (animations) |
| `document` | `MCDocument`: see below | `HandlersCalled` (events), `SelectorsRight`, `ElementsKeepTheirs`, `KeepsPromise` (data and manipulation), `TablesSorted` |
| `liveness` | `MCLiveness`, with fairness | `CleanedUp`, `RequestsEnd` (also uploads), `AnimationsEnd` |

The instances of the composites, and why they are large enough:

* `accounts` - 4 requests on 2 names: two registrations of one name and a change
  of what they made, or three changes of one row; a lost update needs two. `pushed` -
  a push, the two streams of its device, and a device whose address contains its id.
* `oneStream`, `overlapping`, `unrecorded` - 6 or 7 seconds, 1 or 3 streams: two
  visits and the gap between them inside, across and outside of every window.
* `framed` - streams of up to two stanzas (nested elements of one name, `/>` and `>` in an
  attribute, a CDATA section, white space, a character of two bytes), cut in every way;
  `refused` - one that is too long and one that is not allowed.
* `compared` - every two texts of 1 to 3 letters: all ways an operation may be at
  an edge of the table or inside of it.
* `callbacks` - a list with any of 16 sets of flags, 2 functions, 5 calls: a fire,
  a change while it runs, a fire inside and what follows. `chained` - a deferred
  object and one made by `then()` with any functions; `joined` - two under `when()`.
* `counted`, `answered` - 3 requests that count; 2 whose handlers abort, throw and
  make requests: two suffice for one that ends inside a handler of another.
* `raced`, `replied`, `thrown` - 2 uploads of one form: that an upload is over while another
  is not is what its attributes and counts may be wrong about. `raced` - with a timeout,
  and each may be aborted twice, before, while and after it is told of its outcome;
  `replied` - ended by their answers alone; `thrown` - functions that throw, and an abort.
* `sessions`, `users`, `overtaken`, `pages`, `links` - lists of 2 to 5 items in pages of 1
  or 2: no page, one, a full and a partly full last one, and more pages than are linked to.
  In `sessions` and `overtaken` (two users) two calls are under way at once, and the later
  may be answered first; in `users` and `links` one, and in `pages` none, which is about the
  lists themselves. `MaxChanges` bounds how often what is listed changes: 3 times in `users`,
  between the reads of one call, 2 in `sessions`, 1 in `overtaken`.
* `queued`, `ticked`, `promised` - 3 animations of any kind, those of nothing among them,
  and a `promise()`; a third is needed to be passed over in a loop. `nested` - 2, and the page may stop,
  clear and finish whatever it likes, also inside of itself.
* `bubbling`, `binding`, `focused` - a node in a document, 2 or 3 handlers of any
  kind, 1 or 2 events.
* `chains`, `mixed`, `placed` - every tree of 3 or 4 elements with 2 tags, chains of
  3 parts with every two combinators, found twice with a change of the page in
  between; commas, `:not`, `:has`, `:nth-child` and positions. Groups of which parts with and
  without positions find elements are sorted at the end (2789), the others come in order.
* `owned`, `kept`, `scripted` - 2 elements (3 with a script) and 2 copies, 4 or 5 calls.
* `listed`, `clicked`, `paired` - one table with 2 columns and 2 or 3 rows, two tables
  with a row each, 1 or 2 clicks whose sorts are pending.

Why the bounds of the others are enough.  Everything that goes wrong between
sessions goes
wrong between two that share an address, or between one and a thread that closes
it; the third connection is there to see that a bystander keeps its entry.  Two
logins on a stream (`MaxLogins`) are enough to leave an entry behind, and a third
only repeats the second.  One worker suffices because the I/O threads close each
other's sessions too (`ReplyFails`), so that up to three threads meet in one
`close()`.  A pool with a core, a thread beyond it, a queue and one more push than
fit has every way `execute` can end.  `SYMMETRY` exchanges connections, addresses,
pushes or threads that the instance treats alike, and only in runs of invariants;
`VIEW` leaves out variables that guard no step and that no property of the run
mentions.  `TypeOK` of `PushPool` is proved and has no run of its
own.  The composites use neither: where it does not matter which animation, handler or
request is of which kind, they begin with the kinds in one order only.

Which clients a property is about.  `OneRegistry`, `RegisteredLoggedIn`,
`PendingFindable` and `PreAuthDrains` hold for every client, also one that logs in
again on the same stream.  `NobodyLingers`, `CountsBalance` and `CleanedUp` are about clients that log in once per stream, as the Android
client does, while the server is not being shut down: a second login on a stream
changes the session's address and leaves its old entry behind, and a session that
another thread closes in the middle of its login is counted out and then put into
`clientSessions` all the same.  `AllAuthenticatedListed` and `CounterExact` in addition need
every stream to have an address of its own.  The counter and the balance are checked
for a data store that does not fail: if saving a logout record throws,
`removeSession` never reaches the decrement.

Fairness.  `Sessions`: a thread inside a method goes on, and MINA reports the end
of a socket the server has closed.  No client is obliged to do anything: that a
dead peer is noticed is `PeerGone` or the idle timeout, and `CleanedUp` starts from
a socket that is down.  `PushPool`: threads keep running, time passes, and quartz
keeps firing the clean-up job.  Starting a push, callbacks and the number of
sessions a push is written to are not fair.  `Ajax`: handlers return, and a timeout
set with `setTimeout` fires; no server has to answer.  `Animations`: jQuery's own
loops go on, and strongly fair are the interval, which is set and cleared as
animations come and go, and the end of an animation or delay, since an animation
ends by the clock once it is given ticks.  `FormUpload`: its timers fire, a load
event that the frame raises is heard, and the functions of the page return or throw; the
server may stay silent.  Users of the
page are owed nothing.  The liveness properties are written `[]<>(P => Q)`: this
is P leads to Q where P stays true once it is (a socket that is down, a request sent)
or where Q is just the end of P.

## 4. Proofs

`Sessions_proofs` is for every client: any sets of connections, addresses, worker
and shutdown threads, any number of logins, from the named assumptions of
`Sessions` alone (threads are distinct, the address before login is no client's).
`TypeOK` is inductive together with the fact, part of it, that a thread at work has
a session.  `OneRegistry` is not inductive: it needs to know that a login has
taken its session out of `preAuthSessions` before it puts it into
`clientSessions` (`LoginInv`), that nothing puts it back because only a
connection without a session creates one (`NoSessionInv`), and that a thread in
`removeSession` works on a session that exists (`CloseInv`).  `RegistryInv`
collects these with `RegisteredLoggedIn` and `PendingFindable`.  `PreAuthDrains`
needs more: `removeSession` takes a session out of `preAuthSessions` only if it
read the stream id as its address; if a login had changed the address before, that
login has yet to take the session out.  `DrainInv` says who is responsible.
`NoneOutlivesSocket` needs `MaxLogins <= 1` and nothing else, so that workers and the
shutdown hook may close a session in the middle of its login: the login then makes it
authenticated again.  `SocketInv` says why that does not last: a login and the end of
the socket are events of one connection, so the socket goes down for the session's own
thread only when no login is under way, and from then on that thread is closing the
session or the session is closed.

The second half of `Sessions_proofs` assumes `OneLogin`: at most one login per stream, no
shutdown.  Then nobody but its own thread works on a session in the middle of
its login (`OneLoginInv`: other threads find it by its entry in
`clientSessions`, which is the login's last step), so a closed session that is
still registered has a thread about to remove it: `NobodyLingers`.  With
`OwnAddresses` in addition no other session takes its entry (`OwnInv`):
`AllAuthenticatedListed`.  The counterexample of `sessions_listed` shows that the
second assumption is needed.

On `OneLogin` rest the counts too.  The counter is compared with `Counted`, the sessions of the two registries and those on their way from one to
the other, plus the closes that have taken a session out and are about to count it out
(`Hits`).  Each step moves both by the same amount, except that a login which
finds its address taken displaces a session (`Hides`), and a store that fails keeps a
close from counting; both leave the counter above: `CounterNotBelow` under `OneLogin`
alone, `CounterExact` with `OwnAddresses` and a store that does not fail
(`~SaveMayFail`).  `RecordsBalance` is the same argument for each address
(`RecordInv`), and needs no `OwnAddresses`, because a logout record bears the address
of the session that is closed, whosever entry is found under it.  Sums over sessions are
cardinalities of sets that grow or shrink by one session, so no fold is needed.

`PushPool_proofs` is for any number of pushes and callers and any pool with at
least one core thread and a queue of at least one.  `PlaceInv` is `OnePlace`
without numbers: the places of the queue hold different pushes, the threads work on
different pushes, none of them is in two of queue, threads and `ended`, and a
thread slot that is not alive works on nothing.  `OnePlace` follows by counting
singletons.  On it rests `StatusInv`: since no other thread touches the push a
thread works on, its status and whether it has been delivered follow the steps of
`run()`, apart from the reports of callbacks, which come only after the delivery.
`RejectedWaits`, `OfflineUnsent` and `ReportStands` follow.  `MapInv` relates the
status map to the age of its pushes.  The three give the refinement
(`PoolImplementsLifecycle`): the step that changes an answer maps to one action of
`PushLifecycle` (`RunEnd` to `Finish` or `Miss`, `RemoveOld` to `Forget`, and so
on), every other step to a stutter.

`Accounts_proofs` is for any number of requests and names, whatever kinds the requests
may be.  `OneAccountPerName` alone is not inductive: a row that was read is saved
later over a row that others may have changed, and what is saved must not carry
another name.  `AtStep` says so: a request between its read and its save holds a row
with the name of the row it will overwrite, because no request changes a name.  With
`UniqueNames` (what the unique column promises), `Registered` (an answer to register
names an account of that name) and `OneCreator` (one request is told that it made it)
this is the inductive invariant `IInv`, and `AccountsStand` (`OneAccountPerName` and
`IdIsOfName`) follows.  That `FirstPhoto` finds a first row uses the well-ordering of the numbers
from the library.

Its second half adds the order in time.  `began` and `ended` are the steps at
which a request came and was answered, `Stamped` says that they are in the past and
`Ranges` and `InRange` that rows refer to rows there are.  The photo of a user
(`PhotoInv`) and its partner (`PartnerInv`) are related to the requests that were
answered: the value in the table is that of a request which no other followed or, for a
partner, an `updateUser` has saved over it a row read before, which is the exception
`PartnerIsLatest` names.  What a request has read and not yet saved is part of it (`RowRight`,
`SavedBack`): it is what comes back when it is saved.

`Delivery_proofs` is for any devices, streams and pushes, any addresses for the
streams, and any relation `Contains` in which an address contains itself
(`StreamsAssumption`, which `MCServer` assumes of its instance).  `OfflineIsTrue` needs
`Looking`: while a push is on its walk, each session that its device has had from the
start is still to come, is in the push's hands, or has made it find the device
online.  It rests on `Listed`: a session is registered under its own address, so
that an address not yet visited cannot lose its session unseen.  `PresenceOfDevice`
needs only that no other stream of the device has begun (`Alone`, `Announced`).

`Ajax_proofs` is for any number of requests of any options (`KindsAssumption`), with
handlers that may make requests, abort any request and throw at any point.  Handlers
that run are a stack, `calls`.  What a request has been through (`RequestRight`) agrees
with each handler of it on the stack (`FrameRight`), and the handlers of one request are
on the stack in one order (`Nested`): whatever is above `ajaxSend`, say, belongs to
what it started.  Without `Nested` a handler that returns could settle a request which
another has settled above it.  `OneAnswer` and `NoLateAnswer` follow.  The
alternation of events needs no more than that their number is odd just while
`active` is at least one (`Alternating`), and no assumption at all.  For
`ActiveExact` the requests that count are named (`Counted`: sent or
about to be, and not yet past the decrement in `done`), and `active` is their number
(`CountInv`).  That requires of a request with an `ajaxSend` handler on the stack that it is not
done (`Orderly`), which `AbortInSend` breaks, and that no handler takes the decrement
with it by throwing: hence `~AbortInSend` and `~MayThrow`, under which the run checks
it too.  Line 8135 (section 5) is the reason for the first.

`FormUpload_proofs` is for any number of uploads of one form, any options
(`OptionAssumption`) and any number of aborts by the page, wherever they come.  Its
invariant `IInv` follows an upload through three times: before it is submitted nothing
has come of it but the mark of an early abort (`NotSent`); while `cb()` listens it has told of
nothing unless it has given up (`Waiting`); and once it has heard the answer it tells of
that (`Answered`).  `StackRight` ties the submissions on the stack to the stages of their
uploads, so that none is submitted twice.  `NothingAfterEnd` and `AnsweredOnce` follow for all
options: whoever enters `cb()` first closes it for the others, by `aborted` before anybody
is told, or by `heard` and, much later, `callbackProcessed`.  What else is proved, but for
the frames and the form's attributes, needs functions that do not throw.  `OwedInv` says how many calls of
`complete` the stack and `cb()` still owe, which is what makes them agree with the outcomes
when nothing runs (`OneOutcome`).  `CountInv` compares `jQuery.active` with the uploads that
neither `cb()` nor a refusal has counted off (`Counted`); that is `ActiveExact` only where
nothing is aborted or given up (`MaxAborts = 0`, no `Timeout`, no "foreign").  Most of the
proof is that a step on behalf of one upload leaves alone what is said of the others.

`Deferreds_proofs` is for any finite number of deferred objects (`RootsAssumption`;
finite, because `when` goes through its arguments one by one), any number of calls of
the page, and functions that call, return or throw what they like.  `Promises` relates
an outcome to the value a list remembers and to the calls made of listeners, so the
invariant has three parts besides the types of lists and frames (`Right`, `Stacked`: a
list that fires has at most one frame on the stack, and a list with a frame fires).
`Staged`: an object is untouched (`Open`); or one of its lists is being fired for the
first time and is at its first or second function, with nothing else above it on the
stack (`Starting`); or it has its outcome, and the other list is disabled (`Decided`).
Two outcomes are excluded because nothing of the page runs between the first function
of a list, which sets the state, and the second, which disables the other.  While no
object is `Starting` (`Calm`), `add` and `fireWith` keep all of it.  `Token`: a function
of the page that waits for an outcome is in one place, on the list or in a call of
`add` still to be made, and it has been told only if the loop has passed that place
(`Past`).  Hence nobody is told twice, although a list with memory is fired again for each
function added late.  The step that sets the state maps to `Settle`, the call of a
function given to `done` or `fail` to `Tell`, those that add to `Listen`, every other
step to a stutter (`StepsAsPromises`).

Three properties of the run that are not part of `Promises` are theorems of the same
module, on the same invariant.  `EveryoneIsTold` needs `Telling`: a listener for the
outcome an object has was told, or waits on the list ahead of the loop, or is in a call of
`add` still to be made, or listens on the list that was disabled.  `add` on a list that
fires extends the loop by what it added, and on one that fired calls it at once, which is
where somebody could be forgotten.  The invariant leaves out the lists that no frame
fires any more although they are marked as firing (`Lost`): a function threw out of
their loop, nobody who is added to them later is told, and the property excludes these
states by `Settled`.  `NewsBeforeOutcomeHolds` needs `NoNews`: an object with an outcome has a
progress list that keeps no news for later and takes none (`Quiet`), except between the
first and the third function of the list being fired, `lock` (`AtLock`), where no
function of the page runs.  News sent before may wait for a notification under way; then
`lock` drops it.  `ListenersInOrder` needs `InOrder`: the functions of the page are on a
list by the number of the call that added them, and none ahead of the loop has a smaller
number than one that was told (`Rising`).  A call of `add` that waits in a script could break
that if the page added another function meanwhile; so only the script on top of the stack
may still add to a list that is on, and only what the page's last call gave
(`LastScript`).  `always` adds to two lists: when the first was fired already, its loop
runs the page's functions before the second is reached, but then the second is off.

`Events_proofs` is for any number of nodes, types and handlers, any attributes, and events
within events to any depth.  A list of handlers has each of them once, those with a
selector in front (`ListRight`), and listeners agree with the lists (`Heard`).  Each frame of
the call stack agrees with its event (`Framed`): a dispatch with the one below it, about
which handlers it may still call and which it must (`DispatchRight`), a running handler with
the one or two frames below.  On a page without attributes for native types the invariant goes
on (`Once`): whatever an event has called belongs to a node it has passed (`Passed`); what a
dispatch still has to call is of its own node, each once, and was not called; and an event that
its own default action has raised again is on top of the stack, where the handle discards it.
So it cannot be that such an event calls a handler because another event of its type has
ended within it (`CalledOnce`).  Handlers are bound and removed by functions over lists that
are recursive, and what they keep is shown by induction.  The library's induction
theorems take operators, which no backend here can instantiate; but finite sets are
well-founded by inclusion, from which it follows that a set of numbers has a least
member (`LeastMember`), that what a step keeps holds up to any number (`UpTo`), and that
a recursive function is what its equations say (`Iterates`).

Only model-checked: `TypeOK` of `Ajax`, which bounds `active` by the number of
requests; what a promise takes over from those it follows (`FollowersAgree`); the properties of the remaining components, of
the server as well as of the pages, and the refinement
`Manipulation!Promise` (`KeepsPromise` of `MCDocument`): those of `Selectors` and
`Manipulation` follow recursive code over trees with RECURSIVE operators, which the prover
does not take; and all liveness, which it cannot treat under fairness.

## 5. Where the code departs from its comments

One departure is kept as a run, `sessions_listed`.  `SessionManager.getSessions` is
documented to return all authenticated sessions.  In this run a device logs in on a
second stream before its first is closed (its network dropped, and the idle timeout
is 15 minutes).  The second session takes the first one's place; when the first is
closed, `removeSession` removes the entry by address, and the second, still open
and authenticated, is in no registry: no push reaches it, its next presence finds
no session, and a new auth request on it is refused.

Others were met while modelling.  The properties are stated so that they leave
them out, and their comments say what is left out; where a constant brings
one back, it is named.

On the server:
* `EditDistance:133` - with an empty array on one side the walk reads an object
  that is not there ("d(s, '') = d('', s) = |s|", line 15): `pc` "failed", which
  `MinLength` 0 reaches.
* `LongestCommonSubsequence:58` - `lcs` returns a buffer it never writes to.
* `UserController:254` - a logout in the second in which the window starts is in
  neither list, and the login before it makes the whole window count: `EdgeRecorded`.
* `UserController:234` - of two logins in a row only the nearer one is paired with
  a logout, so the time of a second device may be missed: `NeverTooMuch` is a bound.
* `UserController:265` - a login that was never logged out, because the server was
  killed, makes later windows count: `Killed`, for which only `ShareOfWindow` holds.
* `XmppResource:872` - `updateUser` saves the row it read before `addPartner` was
  answered, and the partner is gone: the exception in `PartnerIsLatest`.
* `PresenceUpdateHandler:55` - a presence packet changes the session registered
  under the sender's address, whichever stream it came on: `PresenceOfDevice` speaks
  of the device and not of the session.
* `PushTask:68` - a device id matches any address that contains it (`Contains`).
* `XMLLightweightParser:201` - of a character of three bytes cut after the second
  the first byte is lost; line 302 - only double quotes are seen, so `/>` in single
  quotes ends a stanza; line 307 - a CDATA section that ends in `]]]>` is not left.
  The streams of `framed` have none of them; each of them breaks `FramesAsSent`.
* `SessionController:134` - with no session left the table links to page 0, for which
  the server fails: `pagination` may ask for it, and the call ends in an error.

In `jquery-1.10.2.js`:
* 3127 - `empty()` inside a fire loses the loop's place, and a function added next is
  not called although the list has memory (3006): the exception in `MemoryReachesAll`.
* 3127 - a list that was disabled is made usable again by `empty()`, although it
  should "do nothing anymore" (3131).
* 8135 - nothing asks whether an `ajaxSend` handler has aborted its request: it is sent
  all the same, fails, and `done()` ("Called once", 8153) runs twice: `AbortInSend`
  with `ActiveExact`.
* 4014 - `clearQueue()`, `stop(true)` and `finish()` throw the sentinel away while
  its animation runs: `PageCalls` beyond "stop" with `OneAtATime`.
* 9364 - `stop(false, true)` of a delay beside an animation outside of the queue
  leaves a queue that never moves: `Kinds` with both, and `QueueMovesOn`.
* 9314 - `animate({})` of nothing passes by the queue, and its end (9470) dequeues: it takes
  the sentinel of the animation under way for its own, the next one starts beside that,
  and a `promise()` may be kept too early: the exception `Dislodged` in `OneAtATime`
  and `PromiseLast`.
* 5033 - the `on...` attribute of a node above is called by `trigger("click")` and
  again by the native event (5036): `Inline` not empty with `OncePerEvent`.
* 2728 - a query within `:has` moves the counter of the outer one, which then misses
  elements: `:has` within `:has`, and `a:has(> b) ~ *`.  `MixedQueries` has neither.
* 2745 - where positions come first, what follows them is tested with one counter for all
  elements, and an ancestor passed in vain for one of them is not tried for the next:
  `filter()` by parts that all have positions, and `$(e).find("*:even:nth-child(odd)")`, miss
  elements.  `PlacedQueries` restricts `:first` and `:last` only, and the filters have a
  part without positions.
* 2573 - positions that follow an `:even` (`*:even + b:first`) count elements in the order
  they were found in, not that of the document: not among the queries.
* 2789 - a selector that goes on from several elements picked by their positions
  (`a:even *`) returns elements twice or out of order, if it is alone or the others of its
  group find nothing.  `PlacedQueries` has it, and `InOrder` leaves these answers out (`ordered`).
* 6274 - a script appended to the page and to a detached element at once is in the
  page as a copy and never runs ("Evaluate executable scripts on first document
  insertion", 6271): `ScriptsOnce` says at most once.

In `jquery.form.js`:
* 335 - `abort()` asks for nothing: after the end of an upload, a second time, or called from
  a function that is being told of the outcome, it calls `error` and `complete` again.
  `OneOutcome` counts the outcomes that the page's aborts ask for (`aborts`) apart.
* 650 - the mark that an answer was processed comes after all the functions: one that
  throws leaves the timeout running, which then tells of a second outcome:
  `MayThrow` with `OneOutcome`; `AnsweredOnce` is what is left.
* 344 - an upload that is aborted or times out is not taken off `jQuery.active`, nor (372)
  one that is aborted before its timer is set: `Timeout` or `MaxAborts` with `ActiveExact`.
  Its frame stays in the page: the same with `FramesGone`.
* 339 - `abort()` itself fails for a page it may not look into, or for a frame that is not in
  the page, and no callback is called: `CanLook`.  If that happens in `cb()` (519) the
  promise stays pending.
* 484 - a form without action gets the action "undefined": `Complete` FALSE with
  `FormAsBefore`.
* 408 - an upload aborted before its submission is submitted all the same: `DoSubmit` does
  not look at `aborted`.

## 6. Refinements

* `PushPool` implements `PushLifecycle`: `FollowsLifecycle`, checked and proved.
* `Deferreds` implements `Promises`: `KeepsPromise` of `MCRequests`. `value` is what the
  list of the outcome remembers, `waiting` the page's functions still to be told.
* `Manipulation` implements `NodeData`: `KeepsPromise` of `MCDocument`. `data` and
  `bound` of an element are read through its number in `jQuery.cache`, so that a
  number given to two elements, or kept in a copy, shows as a step that `NodeData`
  does not have.

## 7. Not modelled

* Authentication manager: compares a password or a digest with the stored one, a
  function of the user, which is `Claims` in `Sessions`.
* Other jobs: one samples the number of sessions into a table and one prints; no
  other code acts on it.
* Authentication get queries, TLS negotiation, configuration, key stores, start-up:
  no state that the rest of the code changes or waits for.
* `LongestCommonSubsequence`: returns an empty text whatever it is given, see section 5.
* Vendored XML and property code, the minified `jquery.js` and the date picker.
* Of jQuery: styles, offsets, attributes, feature tests and utilities; the
  tokenizer and attribute tests of Sizzle; building elements from HTML text; `jsonp`,
  script transports, converters and headers of requests; namespaces of events,
  what old browsers need for submit and change, and of `trigger()` the hooks of special events:
  their own `trigger` (4973, checkboxes, focus and blur), `noBubble` (4979, load), the `_default` of
  a click on a link (5021, 5300) and the guard that ignores a `focusin` while `focus` is being
  raised (4936).  Each is one step without
  state, or a difference between browsers.
* Of the form plugin: which fields of a form are sent; uploads by XMLHttpRequest
  are requests as in `Ajax`; a form with an input named submit; the options `dataFilter`,
  `iframeTarget`, `forceSync`, `closeKeepAlive` and `global: false`; the 50 calls of `cb()` that
  Opera needs; a page that settles the returned deferred object itself.  A timeout that
  `cb()` lets pass (537) does not exist: every timeout is given up at 514.
* Of the table sorter: widgets, appender, `sortForce` and metadata, none of them set
  by default, and how a parser reads a cell.
* In `OnlineStats` a second holds one record at most; in `ConsoleLists` the users
  differ in the column they are ordered by: the database chooses the order otherwise.
* `NotificationController` with its push records: `Sessions` has its threads, and the
  records are rows that nothing acts on.

## 8. Plan

Done, in this order: `Sessions` and its proofs; `PushPool` against
`PushLifecycle`, and its proofs; `Delivery`, `Accounts`, `OnlineStats`,
`XmlFraming`, `TextDistance`; the page scripts from the callback lists up:
`CallbackLists`, `Deferreds`, `Ajax`, `Animations`, `Events`, `Selectors`,
`Manipulation`, `FormUpload`, `TableSorter`; `ConsoleLists`; liveness of four of them; the proofs of
`Accounts`, `Delivery`, `Ajax`, `FormUpload`, `Deferreds` and `Events`, and of what counts
in `Sessions`.

To come:
1. Proofs: that followers agree (`FollowersAgree`); no time too much
   (`OnlineStats`).
2. `KeepsPromise` of `Manipulation` as a theorem, without the RECURSIVE operators.
3. Event namespaces and the delegated submit and change events of old browsers.
