# A TLA+ verification of uSCXML

uSCXML is an interpreter for SCXML state charts. This directory models the part
of it that decides what a chart does and when: the micro stepper, the
interpreter's queues and life cycle around it, delayed sends with their timer
thread, nested sessions, executable content, the debugger's session, the URL
fetcher, and what the code generators make of a chart. TLC checks the models on small instances, TLAPS proves some of
their properties for every instance. `PROJECT.json` lists components, runs,
mutants, the source lines behind every definition, hazards and theorems.

All paths below are relative to `src/src/uscxml`.

## 1. Inventory

| Component | State | Operations | Interacts with |
|---|---|---|---|
| Micro stepper, `interpreter/FastMicroStep.cpp`, `util/Predicates.cpp` | tables of states and transitions; bit sets `_configuration`, `_history`, `_initializedData`, `_invocations`; `_flags`, `_isCancelled` | `init`, `step`, `reset`, `markAsCancelled`, `serialize` | calls back into the interpreter for events, conditions, content, invokes |
| Interpreter, `interpreter/InterpreterImpl.*` | `_state`, `_isInitialized`, `_invokers`, `_finalize`, `_autoForwarders`, `_delayedEventTargets` | `step`, `reset`, `cancel`, `receive`, `enqueue`, `cancelDelayed`, `eventReady`, `invoke`, `uninvoke`, `serialize` | owns everything below |
| Event queue, `interpreter/BasicEventQueue.cpp` | a list under a mutex and a condition variable | `enqueue`, `dequeue(blockMs)`, `reset`, `serialize` | filled by other threads |
| Delayed queue, `interpreter/BasicDelayedEventQueue.cpp` | `_callbackData`, a libevent loop and its thread | `enqueueDelayed`, `cancelDelayed`, `cancelAllDelayed`, `timerCallback`, `start`, `stop`, `serialize` | calls `eventReady` from its own thread |
| Content executor, `interpreter/BasicContentExecutor.cpp` | none of its own | `process` (`<raise>`, `<send>`, `<cancel>`, `<if>`, `<foreach>`, ...), `invoke`, `uninvoke`, `raiseDoneEvent` | data model, queues, I/O processors |
| SCXML invoker, `plugins/invoker/scxml` | the child interpreter, its thread, `_isActive` | `invoke`, `uninvoke`, `eventFromSCXML`, `serialize` | a second interpreter, parent queue |
| I/O processors, `plugins/ioprocessor` | `BasicHTTPIOProcessor::_sendRequests` | `eventFromSCXML` | other sessions, HTTP |
| Debugger, `debug/` | breakpoints, mode flags, two condition variables | step, pause, resume, attach | monitors of the interpreter |
| Event names, `util/String.cpp` | none | `nameMatch` | transition selection |
| Static issues, `debug/InterpreterIssue.cpp` | none | `forInterpreter`, `getReachableStates`, `hasLegalCompletion` | the same predicates as the stepper |
| Transformers, `transform/` | tables of a chart | `ChartToC`, `ChartToPromela`, `ChartToVHDL`: the microstep once more each, in another language; Promela also queues, time and priorities | |
| URL fetcher, `util/URL.cpp` | transfers, one thread, a mutex of its own and one per URL | `download`, `getInContent`, `fetchURL`, `stop` | invokers, HTTP I/O processor, libcurl |
| Others | | HTTP server, directory monitor, data models, messages, factory | I/O, other languages, conversion |

What is hard about this code:

* the set algebra of a microstep (conflicts, entry-set completion, histories,
  done events), which has to work for every nesting of states;
* the flags that order eventless transitions, internal and external events;
* life cycle: `cancel` and `reset` from other threads, completion exactly once,
  invokers of states that come and go;
* the timer thread against `<cancel>`, `reset`, `serialize` and destruction,
  over two mutexes and a library call that may wait;
* threads that hand over by condition variables and flags without a lock: the
  blocking queue, invoker and child, debugger and interpreter, fetcher and
  clients;
* the microstep written four times, in C++ and by three generators, which have
  to agree.

The properties that make each part correct are named in section 3; `hazards` in
`PROJECT.json` says at which line each can go wrong.

## 2. Modules

| Module | Models | Uses |
|---|---|---|
| `Chart` | the tables of `FastMicroStep::init` and, as operators, the sets computed by `step` | |
| `MicroStep` | `InterpreterImpl::step` and `FastMicroStep::step` as one action per way the call returns; `receive`, `cancel`, `reset` by other threads | `Chart` |
| `MCMicroStep` | charts for TLC | `MicroStep` |
| `HistoryRecord` | `MicroStep` with a variable that records what each history ought to remember | `MicroStep` |
| `MCHistory` | the charts of `MCMicroStep` for `HistoryRecord` | `MCMicroStep`, `HistoryRecord` |
| `GeneratedC`, `GeneratedPromela`, `GeneratedVHDL` | the microstep of the generated programs | `Chart` |
| `AllCharts` | the four microsteps on every chart of a size | instances of these, with variables |
| `DelayedEventQueue` | `enqueue`, `cancelDelayed`, `eventReady`, `BasicDelayedEventQueue`; two threads | |
| `MCDelayed` | three sends, two ids | `DelayedEventQueue` |
| `QueueSpec` | an atomic queue: what a queue promises | |
| `EventQueue` | `BasicEventQueue` with its condition variable, and `cancel()` | implements `QueueSpec` |
| `Invocation` | `USCXMLInvoker` and what the interpreter does with it; three threads | queues as `EventQueue` promises them |
| `PromelaSchedule` | processes, queues, time and priorities of a generated Promela program | |
| `DebugSession` | `DebugSession`, `Debugger`, `DebuggerServlet`, `Breakpoint`; two threads and a client that polls | |
| `URLFetcher` | `URLImpl`, `URLFetcher`; clients, one fetcher, libcurl | |
| `Content`, `Names`, `Issues` | `BasicContentExecutor` with `SCXMLIOProcessor`; `nameMatch`; the linter | `Issues` uses `Chart` |
| `Algorithms` | these three on every input of a size | |
| `Induction` | induction and recursion over `0 .. N` as lemmas on sets and functions | |
| `ChartProofs`, `MicroStepProofs`, `DelayedEventQueueProofs`, `EventQueueProofs`, `InvocationProofs`, `URLFetcherProofs`, `PromelaScheduleProofs` | theorems | the module of the same name; `ChartProofs` also `Issues` |

**Chart.** States are numbered in document order, as in the code after
`resortStates`; document order is a preorder, so the nesting is one function
`Last`, and `children` (in the code: all descendants), `ancestors`, `parent`
follow from it. The loops of `step` over states or transitions are recursive
functions called `pass`, in the order of the code. Executable content is the
sequence of internal events it raises (`OnEntry`, `OnExit`, `OnData`, `raises`);
that is all the stepper sees of it. The nested-history branch at
`FastMicroStep.cpp:918` is left out: the flag it tests is never set on a history.

**MicroStep.** The variables carry the names of the members. A call of `step()`
is one action because everything it touches but the external queue and
`_isCancelled` belongs to the calling thread, and each of these is used once.
The value of a condition is open: true, false, or an error, which raises
`error.execution`. An `<invoke>` may fail. `last` records the exit set, entry
set, transitions and events of the last microstep, as monitors see them, for the
properties only. `<finalize>`, the warning about endless loops and the monitors
themselves are left out.

**DelayedEventQueue.** A critical section is one action unless the thread waits
inside; where it waits (`enqueueDelayed` for `_mutex`, `event_del` for the
running callback, `join`), it is split and the mutexes are variables. libevent
is external and modelled by its contract: a pending timer fires once, an event
that was freed must not be used, and `event_del` from another thread waits for a
running callback (the constructor always turns thread support on).
`event_base_loop` clears the request to break when it is entered, so a
`loopbreak` before that is lost; the loop's thread therefore has its positions in
`run()` (`test`, `enter`, `loop`, `broken`, `ended`) besides those of the
callback, and a `join` waits for `ended`. Use of freed
memory sets `corrupted` and the model goes on as if the memory were intact; a
failed assertion sets `aborted`, after which nothing runs. `raced` records, for
the properties only, that a timer expired while the session was cancelling,
clearing or serializing it.

**EventQueue and QueueSpec.** The test of `dequeue` and its wait are one step,
under the mutex; a waiting thread wakes by `notify_all`, at the end of its time
or for no reason, and tests again. `cancel()` is two steps, the flag and the
empty event. `QueueSpec` has a call of `dequeue` begin and return: an event if
there is one, none only if its time is over and there is none.

**Invocation.** One state with an `<invoke>`, entered and left any number of
times. What the child does is open: it may send to its parent at once or
delayed, wait, or reach a final state. `_isActive` is read and written by three
threads without a lock; tests and what depends on them are separate steps. The
child's delayed queue is there with its loop (`loop`) and one timer (`timer`), as
`uninvoke` destroys it: `cancelAllDelayed`, whose `event_del` waits for a running
callback while the parent holds `_mutex` (`parent = "clearing"`), the `loopbreak`,
the `join`.

**GeneratedC, GeneratedPromela, GeneratedVHDL.** What the emitted text does,
not the text: the tables of `ChartToC::prepare` (children are direct children
here), the passes of `uscxml_step`, the Promela inlines, the VHDL equations. The
selection of transitions, exit sets and conflicts are `Chart`'s where the
generator takes them from the same predicates.

**PromelaSchedule.** A process runs while its priority is highest and it can go
on. Queues are kept by remaining delay; when nobody is due,
`determineShortestDelay` and `advanceTime` let time pass. Spin's scheduling is
external: priorities, `atomic`, blocking receives.

**DebugSession.** A callback of the monitor runs through the steps of
`checkBreakpoints` and `breakExecution`; requests of the client are handled one
at a time by the server's thread. To answer a poll (`returnData`) and to forget
the request are two steps in `serverPushData`: the client may have polled again in
between (`open`: a poll the client waits on), and the new request is then
forgotten unanswered. `stops` and `told` count, for the properties,
where the interpreter was stopped and which stop the client has heard of.
`condition` of a breakpoint is left out, as the code ignores its value.

**URLFetcher.** A client stands for its URL. The two kinds of mutex are implied
by the stages of the threads (`FetcherMutexFree`, `CanTell`). libcurl is external: a transfer ends well or
badly some time, and `curl_multi_info_read` reports each end once. A transfer that
ends well may have brought an error page (a status above 400): the call that
fetched it throws, and since `_isDownloaded` stays set the next `getInContent`
returns the page.

**Content, Names, Issues.** Recursive operators in the first two, for TLC only;
`Issues` has its loops as functions, so that theorems can be about it. Strings in `Names`
are sequences of characters since index arithmetic is what can be wrong there;
elsewhere names are atoms.

## 3. Runs

| Run | Question | States |
|---|---|---|
| `Regions` | nested parallels, finals, internal and guarded transitions, `reset()`: legality, exact done events, finality | 11089 |
| `Histories` | shallow, deep and nested histories, with `reset()`: what is remembered is legal and restored | 9721 |
| `Lifecycle` | macrostep order, invokers, cancellation and service, under fairness | 1736 |
| `AllCharts` | every chart with 5 states, every parallel with 7, every chart of 6 with a pseudo state, with every 1 or 2 transitions: legality, regions left alone, done events; the generated C, Promela and VHDL reach the same configuration | 99693 |
| `DelayedSends` | no double delivery and no delivery after `<cancel>`, whatever races; delivery, the assertion and memory safety as long as nothing races; operations return unless a timer races or a `loopbreak` is lost; under fairness | 34056 |
| `EventQueue` | the queue with its condition variable implements the atomic one; a dequeue with a time-out or an event returns; `cancel()` wakes the interpreter wherever it is | 18408 |
| `Invocation` | `done.invoke` only of a child that completed, nothing after `uninvoke`, completion is reported, `uninvoke` returns, but for the two exceptions the property names | 900724 |
| `PromelaSchedule` | queues stay sorted and events are received when due, but for the exceptions the properties name | 3077466 |
| `DebugSession` | a resume is not lost, the client is told of each stop, `debugStop` wakes a waiting interpreter and returns, but for the exceptions the property names | 299309 |
| `Algorithms` | content executor, `nameMatch`, reachability and legal targets against reference definitions | 415293 |
| `URLFetcher` | content is complete when a download succeeds; calls return, but for two races | 338901 |
| `HistoryErased` | violated: see below | |

**Exceptions in properties.** Several properties say "unless": the exception is a
way the code goes wrong, found by TLC on the property without it, and the
property shows that there is no other. They are `AssertionFailsOnlyByRace`,
`CorruptedOnlyByRace`, `EventuallyDelivered`, `OperationsReturn` (a timer expires while it is taken
away; the last one also: `stop()` or `serialize()` breaks the loop before it is
entered); `UninvokeReturns` (the same two for the child's queue: `CallbackMet`,
`LoopbreakLost`); `QueuesInOrderUnlessRotated`, `ReceivedInTime` (`<cancel>` rotates a
queue, a stray event, the end of a machine); `WaitsEnd` (two threads in
`serverPushData`, a new poll forgotten there, a wait that begins after the
notification, an interpreter that waits for an event); `CallsReturn` (mutexes in opposite order, a notification before the
wait); `NamesMatchByToken` (one-character descriptors); `TargetsChecked` (targets inside
a parallel); `GeneratedCAgrees` (done events of parallels);
`GeneratedPromelaAgrees`, `GeneratedVHDLAgrees` (their charts); `DoneEventsExact`,
`EveryParallelDone` (a parallel state with a `<history>` of its own, or with an empty
`<parallel>` among its regions, is never reported as done: `CanBeDone`).

**Bounds.** `MaxExternal` events wait in the external queue (1 or 2: the stepper
takes one per call, and a second is enough to have a cancellation behind an
event); `MaxStale` bounds the internal events left at `reset()`, which would
otherwise accumulate for ever. Five states hold every nesting of depth up to
four with a sibling; seven hold a parallel with two regions, one of them with a
choice of states, with three regions of one state, or with another parallel
inside; six hold a pseudo state, its parent, two states to choose from and one
outside. One or two transitions are all a conflict needs. Three sends, two with
the same id, make `<cancel>` find several targets. Two senders of two events
each can be overtaken by each other and by `cancel()`. Two invocations let the
first one's threads meet the second; one event to a child and two from it, at once
or delayed, let a queue be non-empty when it is cancelled. Two machines, four sends and delays 0 to 2
include equal, overtaking and forwarded events. Two breakpoints, two callbacks
and four requests are enough to stop, resume, stop again and be told to end. Two
clients with three calls between them include one call made while the other
waits and a repeated one. Five characters of descriptors against three of a name
hold two descriptors with a suffix.

**Fairness.** `Lifecycle` assumes that `step()` is called again and again, as
every application does, written out as `AtRest` to be cheap to check.
`DelayedSends` assumes that the session's thread finishes the operation it is in
(weak) and that the timer thread gets the mutexes (strong: the session may
release and retake them infinitely often, and the code's mutexes are not fair,
but the scheduler is not malicious). The loop's thread goes on and an event whose
time has come expires, which is strong as well, since a session that serializes
again and again ends and restarts the thread each time. `EventQueue`, `Invocation`, `DebugSession`
and `URLFetcher` assume that a thread goes on with what it has begun, that time
passes, that a transfer ends (libcurl reports a broken connection; the code sets
no time-out of its own, so a server that hangs is outside this) and that the
client polls. Strong fairness is used where a thread needs a mutex or the processor
between steps of another (`Fetch`, `LeaveRun`). Nobody is obliged to send,
cancel, reset, request or raise, and no wake-up without a reason is assumed.

**Deadlock** is checked in the runs of `MicroStep`. It is off where a session, a
chart or a client may come to rest: `AllCharts`, `Algorithms`, `DelayedSends`,
`EventQueue`, `Invocation`, `PromelaSchedule`, `DebugSession`, `URLFetcher`.

**Where the code does not do what it says.** `HistoryErased` is a run: histories
with overlapping scopes share bits, so one forgets what it had when the parent of
the other is left. The models contain the following as well; the charts and
properties of the passing runs name them as exceptions or avoid them: a chart of
that kind, or the property without the exception, has a counterexample.

* `FastMicroStep.cpp:960`: `initial` naming a grandchild enters it without its
  parent. `:891`: a transition to the history of the source's own parent, never
  left before, leaves the parent without an active child. `:1129`: a parallel
  state with a `<history>` child is never done.
* `InterpreterImpl.cpp:148`: `reset()` keeps invokers and internal events.
* `BasicDelayedEventQueue.cpp:82`: `<cancel>` in the gap of `timerCallback` fails
  an assertion. `:127`: `<cancel>` of an event that is just expiring never returns.
  `:165` and `:186`: a `loopbreak` between the test at `:136` and the loop at `:147`
  is lost, and `stop()` or `serialize()` joins for ever.
* `InterpreterImpl.cpp:115`: the destructor, and with it `uninvoke()`, can wait for
  a callback that waits for the mutex it holds.
* `BasicContentExecutor.cpp:514`: leaving a state whose `<invoke>` failed before
  it had an id fails an assertion (`UninvokeAsserts`); the failure itself raises
  no event (`FastMicroStep.cpp:734`).
* `ChartToC.cpp:2581`: `done.state` of a parallel is raised too early when one
  microstep enters several of its regions, or when a region has regions.
* `ChartToPromela.cpp:2231`: an `<initial>` whose target is not a child loses the
  states between. `:3154`: the loop of `cancelSendIdOnQueue` runs to a length that
  shrinks, and leaves the queue rotated. `:2906`: an event to a machine that does
  not run stops time.
* `ChartToVHDL.cpp:1647`: the completion of ancestors asks a state whether it is
  its own child, so only targets below active states work.
* `String.cpp:158`: in a list, descriptors of one character, `*` included, are
  passed over.
* `InterpreterIssue.cpp:132`: two children of one compound state pass as targets
  when all is inside some parallel.
* `DebugSession.cpp:234`: the notification of `debugStop` can come before the wait;
  an interpreter idle in `step()` is joined for ever. `DebuggerServlet.cpp:43`:
  two threads without a lock. `:52`: a poll made since the last answer is forgotten.
* `URL.cpp:592` and `:959`: two mutexes in opposite order. `:846`: the
  notification of `stop()` can come before the wait at `:875`. `:601`:
  `_hasFailed` is never reset, so a repeated download fails at once. `:610`: after an
  error status the next `getInContent` returns the error page as content.

## 4. Proofs

Constants are only assumed to be what parser and `init` produce: a preorder, the
types' shape, post-fix order of transitions (`ShapeAssumption`, `TypeAssumption`,
`TransAssumption`, `BoundsAssumption`), a function from sends to ids
(`SendsAssumption`), natural bounds.

* `SelectionOptimal` (`ChartProofs`): selection takes an enabled set without
  conflicts, maximal with respect to the order. By induction along the pass: the
  set selected up to transition `n` has the property restricted to `1 .. n`. The
  induction is over sets (`Induction`: a non-empty set of naturals has a least
  element), since theorems with an operator parameter cannot be instantiated.
* `MicrostepLegal`, `EnterInitialLegal` (`ChartProofs`) and from them
  `LegalAlways`, `HistoryLegalAlways` (`MicroStepProofs`): see below.
* `HistoryEntered` (`ChartProofs`) and from it `HistoryComesBack`
  (`MicroStepProofs`): see below.
* `UnreachableNotEntered` (`ChartProofs`), `UnreachableNeverActive`
  (`MicroStepProofs`): see below.
* `RemovalMeansDone`, `MoveRaisesDone` (`ChartProofs`) and from them
  `DoneEventsAlways` (`MicroStepProofs`): see below.
* `StepperTyped`: by one lemma per part of `step()`; `RememberedStates` is the
  induction for the history pass.
* `StableQuiescent`: not inductive by itself. The strengthening `QuiescenceInv`
  says that SPONTANEOUS is only dropped when no eventless transition is left,
  and that STABLE excludes SPONTANEOUS; it needs `SelectionOptimal`, because an
  empty selection has to mean that nothing was enabled.
* `InvokersStopped`: under the assumption that `reset()` is not called, which
  leaves invokers behind.
* `FinishedStays`: an action property; needs the type of the external queue.
* `DelayTyped`, `TimersTargeted`, `CancelSafe`: from the invariant `DelayInv`,
  for any sends and ids, with races. Its point is what a thread that waits in
  the middle of an operation may rely on (`SessionHasTarget`), that a send leaves
  `targets` before or when it is delivered (`SendsOnce`), and that the event of a
  running callback has expired (`TimerExpired`).
* `ReadyWithoutRaces`, `SoundWithoutRaces`: from `CalmInv`, which holds as long
  as `raced` is false: what the session takes away is never what the callback is
  working on, and a freed event is only known to its own callback. Races have to
  be excepted, since the assertion does fail in them.
* `QueueRefined`: every step of `EventQueue` is a step of `QueueSpec` or a
  stutter, for any number of senders and events; from the type invariant and
  `CallInv`, that the thread is inside `dequeue` exactly while a call is open.
* `DoneCompleted`, `UninvokedSilent`: from four parts: the child's threads exist
  only while their invoker is known (`LifeInv`), a child is only cancelled once
  `_isActive` is false (`CancelInv`), a thread that reports has completed and has
  not reported before (`ReportInv`), and types. The order of the two assignments
  in `stop()` and the joins are what makes them inductive.
* `ContentAlwaysComplete`: for any number of clients: what has been told or has
  ended is whole (`EndedComplete`), a client that has tested a flag under its
  URL's mutex can rely on it (`ClientKnows`), and only a transfer that is over is
  told (`TellsEnded`).

* `QueuesOrdered`, `EventsInTime` (`PromelaScheduleProofs`), for any number of
  machines, messages and delays. `insertWithDelay` keeps a queue in order
  (`EnqueuePlace`: behind everything due no later, in front of the first due
  later), `advanceTime` because no delay in it is less than what it subtracts,
  removal because it drops elements (`Without`). That an event is received in
  time needs more than order: `ScheduleInv` adds that delays are exact
  (`DelaysExact`), that a machine that does not run has no events
  (`AbsentEmpty`), which priority a process has at which point (`Priorities`),
  that who was given priority has an event that is due (`ScheduledDue`), that
  someone with priority can go on while there are events (`SomeoneGoesOn`;
  without it a waiting machine could be overtaken), and `ReceivingDue`. All but
  the order holds only before a `<cancel>`, a stray event or the end of a machine
  (`Clean`), which the property excepts as well.

**Legality of every microstep.** `WellFormedChart` (module `Chart`) is the
hypothesis. It asks for targets that can be active together (`Compatible`: no two
children of one compound state, a history alone inside its parent), for
transitions to a history that leave the history's parent, for `<initial>`
elements with one transition into their parent, for `initial` attributes that
name a child (those of `<scxml>` may name any compatible states), and for default
transitions of histories whose targets have everything around them entered
(`DefaultFits`). What it leaves out is what the code does not support: the cases
of `FastMicroStep.cpp:891` and `:960` listed above, and a shallow history, or
further targets of a deep one, with a default target below a state nobody enters.
`Compatible` is stricter than the linter's `hasLegalCompletion`, which accepts two
children of one compound state inside a parallel. TLC evaluates `WellFormedChart`
on the charts of `Regions`, `Histories` and `Lifecycle` (`ChartsAreWellFormed`).

The argument follows the ascending pass of ESTABLISH_ENTRYSET. `SelectedFrame`: the
domains of transitions that do not conflict are disjoint subtrees below active
compound states, so what they leave is a `Frame` of the configuration: what is
kept is closed under ancestors and keeps the regions of parallel states.
`EntryInv` is the invariant of the pass at state `i`: the entry set is closed
under ancestors, a compound state has at most one child entered or kept
(`OneChild`), the states before `i` are complete (`Completed`), kept states stay
complete, and a pseudo state is still ahead and alone in its parent
(`PseudoAhead`). The last part is why the pass may replace an `<initial>` or a
`<history>` by states behind it and never has to go back; it needs
`resortStates` to have put pseudo states first. The code leaves a history it has
replaced in the entry set, so the invariant is about `Ahead`, the set without
those. `CompleteStateKeeps` has one step per type of state. At the end
`CompletedIsLegal` reads legality off the invariant.

Entering what a history remembers needs an invariant of its own across
microsteps, `HistoriesWhole`: what is remembered for a history whose parent is not
active is nothing, or states that are legal below the parent (`Whole`).
`RememberWhole` shows that REMEMBER_HISTORY maintains it although all histories
share one set: when a history that is renewed and one that is not are about a
common state, the first is a deep one around the second, and the second then has
nothing remembered (that it forgets what it had is the finding of
`HistoryErased`; that it never keeps half of it is this lemma). `LegalInv` is the
inductive invariant of the stepper: legal once entered, empty before, and
`HistoriesWhole`. `MicrostepLegal` is the general form of `EveryChartLegal` and
`OtherRegionsKept`, which `AllCharts` checks on every chart of a size.

**Histories come back.** Legality leaves open whether it is the right states that
come back. `HistoryRecord` adds a variable that takes down what a history is about
whenever its parent is left, without regard to `_history`, and `HistoryRestored`
compares every entry through a history with it. `HistoryComesBack` proves it from
`WellFormedChart` and `HistoriesApart`: no history lies inside the scope of a deep
one. This is the dividing line the code draws: the chart of `Histories` satisfies
it, the one of the finding `HistoryErased` does not (TLC evaluates both,
`ChartsAreApart`). The inductive invariant is `LegalInv` with `RecordInv`: for a
history whose parent is not active, `_history` and the record agree.

The proof has two halves. `HistoryEntered` is about one microstep and needs no
`HistoriesApart`: along the pass, what a history that was taken stands for is in
the entry set (`HistoriesFollowed`; nothing is ever removed from it), so what was
remembered is entered. That nothing else of it is entered too
follows from legality, not from the pass: two legal ways to be below the parent, one
inside the other, are the same (`WholeIsAll`). `RememberedFor` is about
REMEMBER_HISTORY: for a history whose parent is left, the shared set holds what was
active, and for one whose parent was not active it is what it was, because a renewed
history that is about a common state would be a deep one around it
(`SharedMeansAround`), which `HistoriesApart` excludes.

**Soundness of the linter's reachability.** `getReachableStates` runs rounds until
nothing is added; each round but the last adds a state, so after as many rounds
as there are states the set is closed (`ReachableClosed`, by cardinality). It
looks at ancestors of atomic states only, and still finds those of every state,
as below each reachable state there is a reachable atomic one (`AncestorsReached`;
for a history by way of its default transition). This needs `RegionsExist`: a
`<parallel>` without children is neither atomic for the linter nor does it lead
anywhere. Then every state the pass enters is in the closed set, and so is what
is remembered (`ReachInv`). This is the general form of
`UnreachableNeverEntered` of the run `Algorithms`.

**Exactness of done events.** ENTER_STATES does not ask whether every region of a
parallel state is in a final state. It takes the set of all descendants and has each active
`<final>` remove its siblings and its parent from it, and with the last state of a
nested parallel that state too; the parallel is done when the set is empty.
`RemovalMeansDone` shows that this is the same as the recursive definition
(`InFinalState`), for the parallels of which it can be true (`CanBeDone`). The
removals are toggles (`SymmetricDifference`), so they are only right because two
active `<final>`s never have the same parent or one inside the other's
(`FinalsApart`, which needs a legal configuration). The invariant of the pass is
that the states removed are the parents of the `<final>`s seen so far with all that is
below them, and the parallel states whose regions are all removed (`Removed`, `Covered`); `RemoveOne` is one `<final>`, `ClimbRemoves` the way up through parallels,
`RemainingAre` the whole pass.

That the event comes once, and in the right microstep, is a matter of counting:
how often an event occurs in a concatenation is the sum over its parts
(`CountConcat`), so the events of a microstep are those of its `<final>`s
(`EntryEventsCount`), and each contributes at most one for a parallel
(`DoneEventsCount`). The states are entered in document order, and the parallel is
looked at with every `<final>`, with what is active so far. Only the last `<final>`
entered below it can find it complete (`CompletingOne`), so the count is one or
none: `MoveRaisesDone`, for every microstep from a legal configuration.
`DoneEventsAlways` adds `LegalInv`. Two hypotheses are needed besides
`WellFormedChart`: a `<final>` is a child of a compound state
(`FinalsInCompounds`, as the schema has it), and executable content does not raise
a `done.state` event by name (`ContentNotDone`), as it would be counted too. TLC
evaluates both on the charts of the runs.

Only model-checked: everything about liveness (`CancelFinishes`,
`ExternalServed`, `EventuallyDelivered`, `OperationsReturn`, `DequeueReturns`,
`CancelWakes`, `CompletionReported`, `UninvokeReturns`, `WaitsEnd`,
`CallsReturn`), which is beyond the prover; the agreement of the generators with the
interpreter; `NamesMatchByToken`, `ContentAsUnfolded` and `TargetsChecked`, which
are about recursive operators or look for counterexamples of the linter; and
`ResumeNotLost`. `EveryChartLegal`, `OtherRegionsKept`, `EveryParallelDone` and
`UnreachableNeverEntered` are about the charts the runs enumerate; for every
chart they are `MicrostepLegal`, `MoveRaisesDone` and `UnreachableNotEntered`.

## 5. Not modelled

* Serialization: the events' names (`BasicEventQueue.cpp:99`), delayed events
  (`BasicDelayedEventQueue.cpp:196`) and internal events are not saved; they are lost on
  every run, which needs no interleaving and no model.
* Data models: bindings to Lua, V8, JavaScriptCore, and the Promela data model
  with its generated parser; the models leave the value of an expression open.
* HTTP server and the conversions of the HTTP I/O processor: I/O and formats.
* Directory monitor: depends on the time stamps of a file system.
* The rest of the transformers: text, string tables, the VHDL test bench and event
  controller, `ChartToJava`, which writes `ChartToC`'s tables in another syntax.
* Messages, factory, DOM helpers, command line applications.

The repository's C and C++ also has some 20000 lines of vendored code (`contrib`),
5000 of generated parsers, example applications and language bindings. Of the rest
a large part prints program text or converts values. The mapped lines are those that
change the state a property can be about, so they are a small share of all lines.

## 6. Plan

Done: the stepper and its life cycle, delayed sends, the queue and its refinement,
invocation, content, event names, static issues, the generators' microsteps and
Promela's scheduling, the debugger's session, the URL fetcher; legality of every
microstep, restored histories, exactness of done events, soundness of the linter's
reachability and the order of Promela's queues as theorems. Left: the composition of
`Invocation` with `DelayedEventQueue` for a child with several timers and `<cancel>`,
where `Invocation` has one timer and only the end of its queue.
