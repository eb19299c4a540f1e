# TLA+ models of .Net-Mentoring-L2

The repository is a collection of C# programs. The ones with behaviour worth a
model are small distributed or concurrent systems: a client that watches a
directory and sends documents over RabbitMQ, the Windows service it grew out
of, a chat server, and several asynchronous exercises. This directory models
them in TLA+, checks the models with TLC, and proves what they promise of safety
with TLAPS. Every safety property that a passing run checks is also a theorem; liveness is
model-checked.

    tlc -workers 2 -config MCSplit.cfg MCDirectoryListener   (one of the runs)
    tlapm DirectoryListenerProofs.tla                        (one of the proofs)

`PROJECT.json` lists the runs, which source lines each definition stands for,
and for each property a mutant of the model that violates it.

## 1. Inventory

Paths are relative to `src/`. "State" is what lives longer than one call.

| Component | State | Operations | What is hard | What makes it correct |
|---|---|---|---|---|
| **Messaging: directory listener** `Messaging/Library/FolderListener/DirectoryListener.cs`, validator, path converter | `_imgs`, `_prevImg`, `_currentImg`, `_stopwatch`, `Settings.Timeout`, `Settings.CurrentStatus`, the watcher and its buffer | constructor, `Start` (scan, then watch), `Stop`, `WatcherOnCreated`, `ProcNewImg` | `Start`'s thread and the watcher's thread over the same fields; the broker's thread writes `Timeout`; the gap between `GetFiles` and `EnableRaisingEvents`; buffer overflow; exceptions end the process; state lost at a restart | documents partition the accepted images; cuts exactly when due; no image forgotten or taken twice; status does not stick; `Start` returns |
| **Messaging: document delivery** `DirectoryListenerProxy.OnFileReadyHandler`, `SharpImgToByteConverter`, `RabbitMqClient`, `ServerService`, `PdfSharpGenerator` | one `MemoryStream` for all conversions; the exclusive queue; files being written | conversion, `Send`, `OnRecieveEventHandler`, `GenerateAsync` | conversions overlap on the shared stream; messages without a queue or a handler vanish; nobody looks at a faulted task; processes end at any point | at most once; nothing delivered after it was lost; every document is resolved; a conversion that overlaps none is intact |
| **Messaging: settings channel** the proxy and server, both timers, the fanout and direct exchanges | `Settings.Timeout` of each client, the queues | `UpdateStatus`, `NewTimeout`, the timers' reports | queue consumed before a handler is set; timer threads against the dispatcher; several clients | answers are fresh and in order; clients converge on the last timeout |
| **Chat: message storage** `MultiThreading in .Net/Chat/Socket/MessageStorage.cs` | a `ConcurrentStack` | `Push`: count, pop, push | the three steps of different callers interleave; the tenth message | what is kept when calls take turns; the oldest stay; `Push` does not fail |
| **Chat: server** `Chat/Socket/Service/SocketServer.cs` | `_connectedSockets`, one receive `_buffer`, the storage | accept loop, handshake, listen loop, `SendToAll`, unregister, `StopAsync` | handlers interleave at each await; enumerating the dictionary while it changes; failed sends; no `finally` | rounds without gaps; what a newcomer misses; texts intact; a closed client is forgotten |
| **Chat: client** `Chat/Socket/Service/SocketClient.cs`, `ChatClient/Program.cs` | `_isClosed`, the socket | start, send, stop | its end at any point | the server's environment |
| **WindowsServices** `WindowsServices/PdfPackage`, `ServiceHost` | the listener's, and a pool task per document | `Start`, `Stop`, `ProcNewImg`, `CreateDoc`, `GenerateAsync`, `TrySave`, `MoveTo` | tasks move files the listener's directory holds; retries that end silently; exceptions end the process; scans after restarts | files collected are there; the scan takes all; tasks end; cuts as the abstract stream allows |
| **AspectOrientedProgramming** | as WindowsServices, behind `LoggingProxy` | every call logged, its result returned, its exception rethrown | the same | the same |
| **AsyncAwait**: `Calculator`, `WebPageUploader`, `ProductService`, `UserRepository` | a limit and a flag; a dictionary of cancel actions; a product list and a total; a dictionary of users | set a limit, calculate; upload, cancel; add, remove, total; CRUD | the console's, window's and pool's threads over plain fields | no restart lost; every upload cancelled or finished; the total that is written last is the right one; updates not lost |
| **Multithreading exercises** `Multithreading/Version1.Multithreading/.../Program.cs` | per exercise: a result matrix; a chain of threads; a semaphore; a list, a lock and an event | tasks 1 to 7 | Task5's semaphore, Task6's event | what a method started is done when it returns; every state of the list is printed |
| **LinqProvider** `Expression and IQueryable/LinqProvider` | none between calls but the visitor's `_currentEntity` | translate an expression to query objects, evaluate them on the server | nested and chained calls, operand order | the server's answer is the expression's |
| **Expression visitor, mapper** `Expression and IQueryable/ExpressionTreeVisitor`, `Mapper` | the visitor's dictionary of values | rewriting `x + 1` and `x - 1`, building a mapping | operand order, overflow, types, depth | what a tree computes is kept, and what its comments ask for is rewritten (it is not always: section 3, findings) |
| **Profiling sample, power state management, debugging, XML** | database, machine, none | a page, unmanaged calls, a key generator, schema tests | | |

How they interact: in Messaging the client process holds the listener, the
proxy around it and a `RabbitMqClient`; `OnFileReady` starts a pool task that
converts and publishes; the server's handler writes files. The broker's
dispatcher thread sets `Settings.Timeout`, which the listener reads at each
image. In Chat the handlers of all connections run in one process and meet in
the dictionary, the buffer and the storage. The Windows service has the
listener and its pool tasks, which meet in the input directory only. The other
programs are independent of each other.

The list of hazards, each with its source line and the properties aimed at it,
is in `PROJECT.json`.

## 2. Modules

| Module | Models | State and actions against the code |
|---|---|---|
| `ImageNames` | `ImageNameValidator`, `PathConverter`, the comparison of numbers | A name is a model value; `Valid` is what the validator accepts, `Num` the number `Convert.ToInt32` reads, `NoNumber` where it throws. `Minus` is unchecked Int32 subtraction. |
| `DocumentStream` | abstract: a stream of images cut into documents | `Extend`, `Cut`, `Flush`, `NewSession` |
| `DirectoryListener` | the Messaging listener | Variables are the fields. `handler` says which thread is inside `ProcNewImg`: the method is two steps, up to the status assignment and the rest, so that the broker's `NewTimeout` and the death of the process come between. `CreateFile` is the file system together with the watcher's buffer; `CrashOnName` is the exception of `PathConverter.Convert`. `taken`, `ends`, `missed` are history. |
| `AtMostOnceDelivery` | abstract: offered, delivered, lost | |
| `PdfDelivery` | conversion, publishing, receiving, writing | A document is `Size[d]` blocks, saved into `buf` at `pos`; storing a block and moving `Position` are separate steps because `MemoryStream` is not synchronised. Losses: a faulted task, no queue, no handler, a failed write, the end of either process. |
| `SettingsChannel` | commands and reports | A client's and the server's start-up go line by line (`ClientMain`, `ServerMain`). Building a report and publishing it are two steps, on the dispatcher's or the timer's thread. The k-th broadcast timeout is the number k. `least` and `due` are history carried along. |
| `MessageStorage` | `Push` | three steps per caller: `TestCount`, `TryPop`, `DoPush` |
| `ChatServer` | the handlers of `SocketServer` | `pc` is where a handler awaits; a broadcast visits the dictionary one entry at a time (`Visit`). The buffer is shared, `Receive` fills it and `Decode` reads it in a later step. `Push` is its three steps here too (`FirstOfPush` tests Count, `MakeRoom` is TryPop, `Put` the push), on a storage of `CacheSize` messages (the code: ten). A stored message is its sender and the round that sent it; `HandShake` greets a newcomer with what the storage holds (`cached`). What the full storage popped or refused is `givenUp`, history. |
| `ImageService` | the Windows service and its tasks | `ProcNewImg` is one step (no other thread writes what it reads), the phases of `Start` are separate. `jobs` are the calls of `GenerateAsync`; a job saves, sleeps and retries, then moves the images to `BrokenDir` one by one. |
| `HttpQueries` | LinqProvider: the visitor, the client's calls, the server | An expression is a record; `Visit` and its parts are the visitor's methods, with the list of queries in place of `_result` and its last element in place of `_currentEntity`. `Execute`, `Answer` and `Crash` are the call, a request the server evaluates, and one whose evaluation throws. What an expression means (`Selected`) is defined beside it. |
| `UploadManager` | `WebPageUploader` and its window | Everything but the network runs on the window's thread, so each handler up to its first await, and each continuation, is one step. `net` is the download, `task` how `UploadAsync` ended, `entries` is `_cancelActions`, `Unexpected` the catch clauses. |
| `Calculator` | `Task1`: the console and the task that counts | `main` and `pool` are the two threads. The setter of `UpperLimit` is two writes (`WriteLimit`, `RaiseFlag`); a round of `Calculate` tests the flag (`Round`), then clears it, then reads the limit again (`ClearFlag`, `Restart`). `taken`, `entered` and `due` number the limits, as history. |
| `AtomicUsers` | abstract: a store whose calls take effect at one moment | `Add`, `Remove`, `Get`, `Update` |
| `UserRepository` | `CRUD` | A call is a record that says what it asks for and where it is; `UpdateAsync` is two steps, the indexer (`ReadCurrent`) and `TryUpdate`, which compares objects. |
| `ProductService` | `OnlineShop`: the service, the product's setter, the window's buttons | A click is a task of the pool; a change of the list finds an index and then uses it (`FindEnd`, `Insert`, `FindIndex`, `RemoveItem`). A change that begins while another is under way sets `damaged`, and from then on `products` is no longer claimed to be the list. A sum is an enumeration, one element per step, that throws when the list's version has changed (`AddNext`); beside a change, or on a damaged list, it may come to anything (`AddTorn`). `overlap` is history: two sums have overlapped. |
| `Multithreading` | Task3, Task4, Task5, Task6 | `main` is the main thread; the rows of the product, the two chains, and the adder and printers of Task6 with their lock and event. |
| `ExpressionTreeVisitor` | the rewriting visitor | A tree is a record, of at most `Depth` levels of operators; `Visit` is the visitor, `Eval` what a tree computes, where a type has `2 * Half[type]` values. |
| `Expressions` | the two programs about expression trees side by side | it instantiates `ExpressionTreeVisitor` beside `HttpQueries` and adds nothing but names for its properties |
| `RunningSums` | the reference for loops that add up a sequence | `PartialSums`, of which `ProductService` (the total) and `Multithreading` (an entry of the product) state their results |
| `DirectoryListenerProofs`, `PdfDeliveryProofs`, `SettingsChannelProofs`, `MessageStorageProofs`, `ChatServerProofs`, `ImageServiceProofs`, `ExpressionProofs` | theorems about the module each is named after | section 5 |
| `Exercises`, `ExerciseProofs` | the small programs of `MultiThreading in .Net` side by side, and theorems about them | `Exercises` instantiates `Calculator`, `UserRepository`, `ProductService` and `Multithreading` beside `UploadManager`, with variables of their own; it adds nothing but names for their properties. |
| `MC*` | instances for TLC | model values, small names and sizes. `MCChat`, `MCExpressions` and `MCExercises` (which extends it) hold several programs or parts that share nothing: a behaviour is one of one of them, the other variables stay at their initial values. |

Abstractions that every model makes: names, texts and bytes are model values or
small numbers; wording, logging and formatting are left out. External code is
modelled from its use in `src/`: `FileSystemWatcher`, `Stopwatch`,
`MemoryStream` under PdfSharp's `Save`, RabbitMQ's exchanges and exclusive
queues, TCP. Where that matters:

- the watcher raises one event at a time, in order; `DirectoryListener` lets its
  buffer overflow, `ImageService` does not;
- a file that exists is not created again, and a file is not deleted by
  anybody but the code;
- `ImageService` leaves out the document of no images, which has nothing to save
  or to move;
- a chat send is accepted by the peer's TCP buffer at once, and a text that fits
  the receive buffer arrives in one piece;
- a client of `SettingsChannel` does not restart; a server does;
- in `HttpQueries` a string method has one argument, and strings compare letter by
  letter, without the culture;
- `WebClient.CancelAsync` ends a running download with `RequestCanceled` or with a
  `TaskCanceledException`, and does nothing to one that has ended;
- in `ProductService` the wait of one second that precedes a sum is `delayed`. Two
  overlapping changes of .NET's `List` may lose an item, leave it twice, or leave a
  null. The model does not say which: the list is then `damaged` and what it holds
  unknown. A later change may throw or not, a removal find its item or miss it, a sum
  come to any total or throw, and no property says anything of the list's contents;
- `Calculator` leaves out the wrap of `ulong`: a round takes 100 ms; `Multithreading`
  that of `int` in Task3, whose matrices are constants of one digit;
- `ExpressionTreeVisitor` is given well-typed trees with int and long parameters;
- `_stopwatch` counts the model's clock in `DirectoryListener`, and is itself the
  clock in `ImageService`.

## 3. Runs

All runs end in minutes with two workers. Bounds are constants of the
configuration named in the table; actions that would exceed them are disabled.
Deadlock is not checked: each of these systems may really stop (nobody launches,
sends or drops a file any more, or the bound is reached).

| Run | Question | Instance, and why it is enough |
|---|---|---|
| `split` | Where are documents cut? `DocsPartitionStream`, `SplitExactlyWhenDue`, `SplitInTime`, refinement `StreamSpec` | Four names: two in a row, one that follows the largest number only by wraparound, one whose number cannot be read; two timeouts, so that the limit may change in the middle; clock to 3 with two ticks per second, so that the fraction the division drops occurs. Any two neighbours of a stream are one of these pairs. |
| `watch` | Is an image lost or doubled, does the listener go on? `NoImageForgotten`, `TakenOnce`, `StatusAtRest`, `EventsAreHandled`, `StartReturns` | Three images and a file that is none, a buffer of two, two processes: a file at each phase of `Start`, an overflow, a kill while a document is open. |
| `delivery` | At most once, resolved, and intact? `NoDuplicates`, `DeliverySpec`, `EveryDocumentResolved`, `SoloConversionsIntact` | Three documents, of two, one and one blocks, before a server was ever started: two conversions that overlap, then one alone on what they left, and the tail of a longer one. Two of them (`TwoOrNoServer`) with two runs of the server: each place where a document can be when the server or the client ends. |
| `settings` | `AnswersFresh`, `TimeoutsConverge`, `TimeoutsArrive` | Two timeouts, two questions, a timer report, two server runs: an old timeout to report by mistake, and two answers to swap. The second client runs within smaller bounds (`OneOrLittle`: one question, one server run, no timer report), which is what two clients need to disagree. |
| `chat` | The storage: `KeptWhenAlone`, `PushSucceeds`, `OldestStay`. The server: `RoundsContiguous`, `NewcomerMissesAtMostOne`, `TextsIntact`, `ZombieSilences`, `ClosedIsForgotten` | Storage: capacity four and three callers (the code: ten and one per client), seven calls: the capacity is met, exceeded and met again, and there is one message below the reach of the callers. Server: two connections of which one says a text of two bytes and the other one of a byte (`SaysItsOwn`: they are otherwise alike, and two texts of one length leave no tail), in a buffer of two: a tail to read by mistake, a receive between another's receive and decode, a reset at every point of the other's broadcast. Both speak and one ends, or one speaks and both end (`MaxEvents`). The storage holds two messages (`CacheSize`; the code: ten) and sees up to six pushes (of each connection its arrival, its text, and the empty one of its end): it is full when a newcomer is greeted, both handlers may pop at once, and what a newcomer lacks may be given up, under way, or both. That TryPop finds no message (`Refuse`) takes more callers than the storage holds messages, so it does not occur here, as `PushSucceeds` says; the proofs cover it. |
| `service` | `CollectedAreThere`, `StartTakesAll`, `ServiceStream`, `JobsEnd` | Two images that are not in a row and a file that is no image, two attempts (the code: four), two launches: a task that moves while the next document is collected, a half-written file met by the scan and by an event. |
| `exercises` | Uploads: `CancelIsFinal`, `FailuresShown`. Calculator: `NoLimitIgnored`, `ExitIsReached`. Users: refinement `AtomicSpec`. Shop: `ListSettles`. Threads: `OutputInTurn`. Shop and threads: `SumsComplete` (`TotalSettles` and `ProductComplete`). All of these: `AllTypeOK`. Queries: does an answer say what the expression says? `AnswersComplete`, `SurvivesChains`. Visitor: does rewriting keep what a tree computes? `RewriteExact`, of any tree, whether or not something in it was replaced | Two overlapping clicks of two uploads (the source: three), every outcome of every upload, Cancel at each moment. Three limits of which one is zero, entered at every point of a count. Four calls over one identifier and two users, the first an Add if any (`InOrder`: calls are alike, so they start in the order of their numbers): an update can be overtaken by a remove and an add. Three clicks, or two and the edit of a price (`EditOrThird`), two sums under way, a total that can exceed its maximum; after an overlap only the changes under way are followed to their ends (`EndsChange`), since nothing but types is claimed of later states. The matrices of the source, and its chains of ten. Queries: two clients, three entities with names over three letters, each shape of expression once: the three string methods, both orders of Equal, conjunctions of two and three, chained Where, and what the provider is not made for (captured variables, null, Not, OrElse, a swapped call, a bare constant). Two clients, so that one can be refused for what the other did. Visitor: every tree of two levels over one variable and two constants, those of three with one deep operand (on the left under `Add` and `AddChecked`, on the right under `Subtract` and `Multiply`), and mixtures of int and long (`Depth` 3: a Convert of an operation is one level more); int of 8 values and long of 64, so that each overflow occurs; two values for the dictionary and none. One visit per behaviour, with every dictionary (`OneVisit`): what a visit makes of a tree depends on no visit before it. |
| `timeout`, `semaphore`, `sum`, `restart`, `replace` | the findings below | The constants of the source; one permit and ten threads; limit 3; limits 1 and 3; the trees of `exercises`. |

Type invariants: those of the five programs of `exercises` are checked by `AllTypeOK`.
Those, and the ones of the listener, the delivery, the settings channel, the storage,
the chat server, the image service and `HttpQueries`, are proved.

All properties of the passing runs are violated by a mutant of the model listed in
`PROJECT.json`; the mutants stand in the modules, in front of what they replace.

Some of the properties say how far a promise goes rather than that it is kept,
because that is what is true of the code:

- `SplitInTime`: `Start`'s last line restarts the stopwatch after the scan, so
  the image after the scan's last one may be joined to it although more than
  `Timeout` seconds lie between them. The upper half of the property therefore
  speaks of images accepted after `Start` returned.
- `NoImageForgotten` excepts `missed`: files that appear between `GetFiles` and
  `EnableRaisingEvents`, and what an overflow throws away.
- `SoloConversionsIntact`: overlapping conversions mix their blocks, and a
  document saved after a longer one is followed by that one's tail.
- `KeptWhenAlone`: the storage pops the newest message, so it keeps the first
  nine and the newest, not the last ten.
- `NewcomerMissesAtMostOne`: a message is sent to all and stored afterwards, so a
  newcomer may lack the one under way. And it may lack any number of messages that the
  full storage had popped for newer ones: those the property excepts (`givenUp`), so
  that it says where each missing message went, and not that few are missing.
- `AnswersComplete`: of a chain of Where only the last one is translated, so the
  answer may hold too much; the property says that it never misses anything, and
  is exact for a single Where. Expressions outside the fragment `Chain` may be
  refused, answered wrongly (Not is dropped, `"abc".Contains(e.LastName)` is turned
  around) or end the server, and no property speaks of their answers.
- `CancelIsFinal` excepts an upload whose page has arrived: it is reported to be
  cancelled, and then saved.
- `FailuresShown`: a cancelled upload hides the failure of a later one of the same
  click, because await throws the first exception only.
- `NoLimitIgnored` speaks of limits entered before a round tests the flag. One that
  is entered after the last test is lost, against the text of the exercise: the
  finding of run `restart`.
- `ListSettles` says nothing once two changes of the list have overlapped, and
  `TotalSettles` nothing once two changes or two sums have: then list and total may stay
  wrong, since nobody takes `_lock` and nothing orders the sums. Without an overlap they
  settle, whatever sums met a change in the middle and threw.
- `RewriteExact` is about what a tree computes and not about what is replaced in it.
  The comments of the source ask for more to be replaced than the visitor does. Of
  `ExpressionTreeVisitor/Program.cs:91` that is the finding of run `replace`. Line 44
  speaks of any `<variable> + 1` and `<variable> - 1`; lines 77 to 79 take int variables
  and the int constant 1 only, so that `l + 1` of a long `l`, which is among the trees of
  the run, is left as it is.
- `OutputInTurn` says nothing of Task5, which ends before its threads: the finding
  of run `semaphore`.
- `ZombieSilences`: a connection that is reset after its handler died stays
  registered, and from then on no broadcast succeeds.

### Fairness

- `DirectoryListener`: weak fairness of the main thread, of the watcher's thread
  and of the rest of `ProcNewImg`: threads that the system schedules and that
  wait for nobody. Launches, stops, files and timeouts are not fair.
- `PdfDelivery`: weak fairness of each document's task, of the dispatcher, of the
  server's `Subscribe`, and of file writes. Processes need not start or end.
- `SettingsChannel`: weak fairness of each client's dispatcher and of the sends of
  its threads. `TimeoutsArrive` needs no fairness of timers.
- `ChatServer`: weak fairness of each handler, which the thread pool resumes.
- `ImageService`: weak fairness of each job. One minute of sleep ends.
- `UploadManager`: weak fairness of the continuations the dispatcher holds; the
  network promises nothing.
- `Calculator`: weak fairness of the pool's task and of the console that waits for
  its result; the user need not answer.
- `HttpQueries`, `UserRepository`, `ProductService`, `Multithreading`,
  `MessageStorage` and `ExpressionTreeVisitor` state no liveness.

Where programs stand side by side (`MCChat`, `MCExercises`) each keeps its own
fairness condition, conjoined with being the program of the behaviour. The bounds
that `MCSettingsChannel` and `MCPdfDelivery` add to the next-state relation restrict
steps of the environment only, and so disable nothing that fairness asks for.

No run assumes strong fairness.

### Findings

- `timeout`: `WindowsServices/PdfPackage/File/DirectoryListener.cs:20` says
  `Timeout = 100000; // 100 seconds`; line 104 compares it with a number of
  seconds. The run shows an image that comes 101 seconds after the one before it
  and joins its document: the limit is 27.8 hours.
- `semaphore`: `Program.cs:140` of the multithreading exercises has Task5 wait for
  its threads with a semaphore. The semaphore starts with its one permit free, so
  that `WaitOne` returns at once; the run shows Task5 ending before its threads.
- `sum`: `AsyncAwait/Task1/Task1/Program.cs:7` asks for the sum of the integers from 0
  to N. `Calculate` adds one per round; the run shows 3 for N = 3.
- `restart`: lines 8 and 9 of the same file have a new limit restart the calculation.
  `Calculator.cs:36` clears the flag after the loop, whatever was entered since its
  last test: the run shows a limit that is forgotten while the task still runs.
- `replace`: `ExpressionTreeVisitor/Program.cs:91` speaks of replacing the parameters of the lambda by
  the constants of the list of line 93. `Replace` is called at line 81 only, for the
  variable of `x + 1` or `x - 1`; the run shows a parameter with a value that stays.

## 4. Where the abstract specifications fit

`DirectoryListener` implements `DocumentStream` with
`accepted` the images of `taken`, `closed = docs` and `open = imgs`
(property `StreamSpec`, run `split`, and theorem `ImplementsStream`).
`ImageService` implements it too: there the document of the scan is closed by
`Flush` (property `ServiceStream`, run `service`, and theorem
`ServiceImplementsStream`). `PdfDelivery` implements
`AtMostOnceDelivery` with `offered` the documents whose task was started,
`delivered` the files written whole and `lost = gone` (property `DeliverySpec`,
run `delivery`, and theorem `DeliveryImplements`). `UserRepository` implements `AtomicUsers`: the read in the middle of
`UpdateAsync` is hidden, the call looks as if it had not begun (property
`AtomicSpec`, run `exercises`, and theorem `RepositoryIsAtomic`).

## 5. Proofs

`DirectoryListenerProofs`, for any set of names, any timeouts and any buffer:

- `TypeCorrect`: `TypeOK`.
- `PartitionCorrect`: `DocsPartitionStream`. It is not inductive: a cut keeps it
  only because the document that is closed is not empty, and that is so because
  `_prevImg` is the last image of the open document. The invariant is
  `StreamInv`: `TypeOK`, `ThreadsOK` (which thread may be in `ProcNewImg` in which
  phase; the watcher is enabled only after the scan), `FreshOK` (a new process
  has taken nothing, so that the assignments of `Start` forget nothing),
  `DocsPartitionStream`, and `PrevIsLast` (`_prevImg` is the last image taken).
- `SplitCorrect` and `TimingCorrect`: `SplitExactlyWhenDue`, `SplitInTime`, from
  `SplitInv`, which adds `ClockOK`: the stopwatch was started no earlier than the
  last image was taken, and exactly then if that was after `Start` returned.
- `ImplementsStream`: `Spec => StreamSpec`, step by step under `StreamInv`.
- `AcceptsOnce`, `ForgetsNone` and `StatusSettles`: `TakenOnce`, `NoImageForgotten`,
  `StatusAtRest`, from `ReportInv`. That no image is accepted twice is not inductive
  alone: an image may wait in the scan and then be reported by an event. `ReportsOnce`
  says that a name is at one place only, still in the scan, in the watcher's buffer,
  in `ProcNewImg`, or accepted; `Accounted` says that from the scan on each valid file
  is at one of these places or in `missed`; `PhasesOK` and `ThreadsOK` say at which
  phases of `Start` there can be names in each of them.

`PdfDeliveryProofs`, for any documents, sizes and restarts:

- `DeliveryTypeCorrect`: `TypeOK`.
- `DeliveryNoDuplicates`: `NoDuplicates`, from `DeliveryInv`: a document in the queue,
  with a writer or in a file was sent and is at one of these places, once
  (`OnePlace`). The property counts, the invariant compares: the number of places of a
  document follows from its being alone at one.
- `DeliveryImplements`: `Spec => DeliverySpec`. It needs `GoneOK`: what is gone was
  offered, and is in no queue and in no hands, and in a file only if that was begun and
  not finished; without it the last step of a writer could deliver what was lost.
- `DeliverySoloIntact`: `SoloConversionsIntact`, from `ConversionInv`: what a
  conversion that is alone has stored so far is a prefix of the stream (`SoloOK`),
  although overlapping ones have left `Position` anywhere before (`StreamOK`), and
  queue and files hold what the conversion returned (`BodiesOK`).

`SettingsChannelProofs`, for any clients and any number of broadcasts, reports and
restarts of the server, from one invariant, `ChannelInv`:

- `ChannelTypeCorrect`: `TypeOK`.
- `AnswersAreFresh`: `AnswersFresh`. A question was asked after some broadcasts; that
  its answer is no older needs that in the client's queue each question stands behind
  the timeout it asks for, or the client has that timeout (`Answerable`), and that a
  report under way is the newest of its thread (`PendingOK`, `QueueOK`).
- `TimeoutsDoConverge`: `TimeoutsConverge`. The timeouts in a queue are in order
  (`Ordered`), and handled to the end they lead to the last one (`Reaches`).

`MessageStorageProofs`, for any finite set of callers, any messages and any capacity:

- `StorageTypeCorrect`: `StorageTypeOK`.
- `KeptWhenAloneCorrect`: `KeptWhenAlone`, from `StorageInv`: while no two calls
  have overlapped at most one is under way (`OneAtATime`), and what the storage
  holds in the middle of it is determined (`StackOK`).
- `PushAlwaysSucceeds` and `OldestStayForever`: `PushSucceeds`, `OldestStay`, from
  `OverlapInv`. `RoomLeft` counts: while n calls are about to pop, the storage holds
  n messages more than the level below which nothing is ever taken, which is
  `Capacity` less the number of callers. A call that pops lowers both by one.

`ChatServerProofs`, for any connections, texts, buffer and capacity of the storage, each
property with an invariant of its own on top of `BaseInv` (`TypeOK` and what the phases
of a handler imply, `PhasesOK`):

- `ServerTypeCorrect`: `TypeOK`.
- `TextsStayIntact`: `TextsIntact`, with `DecodedOK`: between receive and decode the
  buffer begins with the text, unless another receive came between.
- `ZombiesSilence`: `ZombieSilences`, with `ZombiesOK`: a zombie stays one, and a round
  that started beside it has already failed or has it still to visit.
- `RoundsAreContiguous` and `NewcomersMissAtMostOne`: `RoundsContiguous`,
  `NewcomerMissesAtMostOne`, from `HearingInv`. The round that r is to hear next of c
  (`Upcoming`) is c's current one while c has r to visit, and the one after it
  otherwise. It is one more than the last that r heard (`LastHeard`), and one that
  has heard nothing yet of c lacks, of the rounds before it, the last at most
  (`FirstToHear`). That rests on `PushedOK`: each round of a connection that is over, and
  that did not end its handler, is in the storage or was given up, at every moment of
  every Push. The step that matters is `Visit`, with everybody else free to join, to be
  removed, to push and to send at the same time.

`ImageServiceProofs`, for any images, numbers, attempts and clock, from one invariant,
`ServiceInv`:

- `ServiceTypeCorrect`: `TypeOK`.
- `CollectedStay`: `CollectedAreThere`. Only images of documents are moved (`FilesOK`),
  and no image is both in a document and still collected or reported (`PlacesOK`).
- `StartTakesEvery`: `StartTakesAll`, from `Accounted`.
- `ServiceImplementsStream`: `Spec => ServiceStream`, step by step.

`ExerciseProofs`, for any number of clicks, uploads per click, limits, edits and
prices, and any matrices, lengths of the chains, users and calls; five programs, each theorem from
the program's own specification and invariant:

- `UploadTypeCorrect`: `TypeOK`, and with it that no upload is reported to be
  cancelled twice.
- `FailuresShownCorrect`: `FailuresShown`. `UploadInv` adds what a click in each of
  its states implies for its uploads (`StartedOK`), and that an aborted or cancelled
  upload was reported, once, and has left the dictionary (`CancelledOK`). The step
  that matters is the end of a click that logs nothing (`CatchShows`): the first
  fault exists because a non-empty set of natural numbers has a least element.
- `CalcTypeCorrect` and `LimitsAreHeeded`: `Calculator`'s `TypeOK` and
  `NoLimitIgnored`, from `CalcInv`: a limit counts as entered when the second of the
  setter's two writes is made (`WritesOK`), and while the flag is down the count under
  way is for the last limit entered (`LimitOK`).
- `ThreadsTypeCorrect` and `OutputIsInTurn`: the `TypeOK` of `Multithreading` and
  `OutputInTurn`. `ChainOK` follows Task4's chain: the numbers printed so far are the
  first of the countdown, the thread behind the last one is started, and none ends
  before the chain has come to 0. `TurnsOK` follows Task6: the printer is behind the
  adder by one element just while the adder waits and the event is not set.
- `ShopTypeCorrect`: the `TypeOK` of `ProductService`, for which an index that is used
  is one of the list as long as that is not damaged. Of the list after an overlap it
  says nothing.
- `ListDoesSettle`: `ListSettles`. While no two changes have overlapped (`~damaged`), the
  index a change has found still holds (`ChangeOK`), each product is in the list at most
  once (`ListOK`), and each click has done what its phase says: what was added is in the
  list or was removed, what was removed is not there (`ClicksOK`). That the list is as
  long as its set of products then follows from its having no product twice. The lemma
  `ClicksMove` says this is kept by any step of one click that does only what it adds
  or removes; `InsertLast` and `TakenOut` say what the two operations make of the list.
- `RepositoryTypeCorrect`: `TypeOK`.
- `RepositoryIsAtomic`: `Spec => AtomicSpec`. The invariant is `RepositoryInv`:
  `TypeOK`, `IdOK` (a call under way has the identifier of a user) and `ReadOK` (an
  update between its two steps has seen a user, and if that is not the one kept
  now, another call is on record as having changed the entry). `ReadOK` is what the
  refinement needs at `TryUpdate`: equality with what was read means that the entry
  is not empty, so that the update is an update of somebody; inequality means that
  the abstract store may refuse it.
- `ProductIsComplete`: `ProductComplete` of `Multithreading`. The invariant `ProductOK`:
  an entry whose iteration has come to k is the sum of the first k products of its row
  and column, and the loop has ended only when all have come to the end.
- `TotalDoesSettle`: `TotalSettles` of `ProductService`, from `TotalOK`: while no two
  changes or sums have overlapped (`Quiet`) there is at most one sum (`SumsOneByOne`), every
  product of the list is listened to or about to be (`ListenedTo`), and either another
  sum is still to come (`Announced`), or the one under way is right so far, or the total
  is already that of the list (`Summed`). Both theorems
  speak of `PartialSums`, a recursive function; that it exists and does a step at a time
  what the code's loops do is a lemma, by induction over the natural numbers.
- `SumsAreComplete` and `AllTypesCorrect`: `SumsComplete` and `AllTypeOK`, the properties
  of the run, from the theorems of the programs they join.

`ExpressionProofs`, for any set of expressions closed under children, any entities and
clients; and for well-typed trees of any depth, any names and dictionary, and int and
long of any even number of values:

- `QueriesTypeCorrect`: `QueriesTypeOK`.
- `AnswersMissNothing` and `ChainsAreSurvived`: `AnswersComplete` and `SurvivesChains`,
  from `QueryInv`: a posted request is what its client's expression was translated to
  (`PostedOK`), and of a call that is over its state or its answer is what `Translate`
  and `Convert` make of its expression (`CallsOK`). What remains is about the visitor
  alone, `ChainTranslated`: an expression that is a chain is translated, to queries that
  can be evaluated, and their conjunction selects what its outermost Where does. The
  visitor appends to a list and overwrites its last element, so the lemma behind it,
  `ConjunctionVisited`, says for every list that it may start from that the list is kept
  and that what is appended means what the subtree means (`BothMean` for AndAlso,
  `ComparisonVisited` for a comparison, whose operands are visited twice).
- `VisitIsExact`: `RewriteExact`, from `VisitedOK`: what was visited is of the set
  `Trees`, and its result is that of the visitor with the dictionary of that moment. The
  lemmas follow the tree: the result is a tree of the same type (`TypeKept`), and it computes
  the same (`EvalKept`, where `Wrap(x + 1)` is both Add of one and Increment, and where an
  operand that throws makes the whole throw).

These proofs rest on recursive functions, which TLA+ defines by CHOOSE: nothing is known
of `Visit` or `Selected` before some function with that equation is shown to exist.
`HeightInduction` (a set of natural numbers that is not empty has a least element) gives
`Recursion`, that an equation whose right side looks at lower elements only has a
solution; it is proved once, for any set with heights, and instantiated with the nodes of
expressions (`TreeRecursion`) and with the levels of trees (`OperandRecursion`). Sets take
the place of predicates throughout, as the provers do not instantiate a lemma with an
operator. A node the rewriting visitor builds from the results for its operands must itself be one of
the trees, within `Depth`, for its recursion to have a range; that is known only of the
solution. `RewriteExists` therefore solves an equation whose right side is clipped to trees
that are no deeper, and shows afterwards that the clipping never acts.

The assumptions are the named `ASSUME`s of the modules: image names are a finite
set, numbers are of their width, the matrices of Task3 fit each other, bounds are natural numbers, a document has a block,
the capacity is positive, a text is not empty and fits the receive buffer, and the
callers of the storage are finitely many, as the threads of a process are
(`PushersAssumption`; `PushSucceeds` compares their number with the capacity);
expressions are finite trees, a constant has one value or is null, an entity has the two
names of the source's class, and what the program puts into the dictionary is an int.
Modules that only take part in an instance with others state theirs as a definition
that the instance assumes. TLC evaluates them in the runs.

Each inductive invariant was checked with TLC, on the instance of the run of its
properties, before it was proved.

Model-checked only:

- liveness (`EventsAreHandled`, `StartReturns`, `EveryDocumentResolved`,
  `TimeoutsArrive`, `ClosedIsForgotten`, `JobsEnd`, `CancelIsFinal`, `ExitIsReached`),
  which rests on fairness and is out of this prover's reach.

## 6. Not modelled

- The JavaScript under `Profiling and Optimization/ProfileSample/ProfileSample/Scripts`
  (jQuery, Bootstrap, Modernizr, Respond and the validation plugins): third-party
  libraries that the page's layout bundles. All the code the repository's author
  wrote is C#, and that is what the models cover.
- The rest of the profiling sample (a page that reads a database), power state
  management (calls of unmanaged Windows functions), the key generator of Debugging
  and the XML schemas: no state or interaction of their own.
- `SocketServer.StopAsync`: it is called by the last line of the process, which ends
  with the call. The chat client's view: what it prints, the search for "Server was
  closed" in what it receives, and calls of `SendAsync` before `ConnectAsync` has
  ended, which fault a task nobody looks at and send nothing.
- `LoggingProxy` of AspectOrientedProgramming has no action of its own. The listener
  and the generator behind it are those of WindowsServices, line for line but for
  their injected collaborators. The interceptor keeps no state, catches what
  serialising throws, rethrows the inner exception, and returns what the call
  returned. Serialising the `Task` of `GenerateAsync` does not wait for it: it is one
  of `Task.Run(Action)` and has no result to read.
- `MappingGenerator`: it binds the properties of equal names and throws for those of
  different types, once, without state.
- Task1, Task2 and Task7 of the exercises: tasks and chains of continuations over
  local data that only print.
- What windows draw (`EnableCollectionSynchronization` of the shop, the list of
  uploads), and the validation of typed numbers beyond that it may throw.
- Interleaved use of one RabbitMQ channel by several threads: what the library
  does then is not in the repository.

## 7. Plan

Written so far, in this order: the listener and its proofs, delivery, settings, the
message storage and its proofs, the chat server, the Windows service, the LINQ
provider, the upload manager and its proofs, the calculator, the repository with its
abstract store and proofs, the shop, the thread exercises, the expression visitor.
The runs of programs that stand side by side were joined. Then proofs of the delivery,
the settings channel, the image service and the chat server, and of what was left of
the listener, the storage and the small programs, and at last of the programs about
expressions, whose recursive operators were made functions for it. Next:

1. The end of the chat server and the client's view of it, in a module beside
   `ChatServer`, whose instance is already the largest.
2. Refinements still to be stated: the storage, when nobody overlaps, as a bounded
   stack, and the shop, when nothing overlaps, as a set of products.
