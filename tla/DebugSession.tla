---------------------------- MODULE DebugSession ----------------------------
(***************************************************************************)
(* A debug session between two threads: the thread of the HTTP server,     *)
(* which handles the client's requests one after the other, and the thread *)
(* that steps the interpreter and stops in the callbacks of the monitor.   *)
(* The client keeps one request open as a poll; what the interpreter's     *)
(* thread has to say is queued and sent as the reply to it.                *)
(***************************************************************************)
EXTENDS Naturals, Sequences

CONSTANTS
    NumBreakpoints, \* the breakpoints a client may set, in the order of the set
    MaxCallbacks,   \* bound: the callbacks of the monitor
    MaxRequests     \* bound: the requests that are not polls

ASSUME DebugAssumption ==
    NumBreakpoints \in Nat /\ MaxCallbacks \in Nat /\ MaxRequests \in Nat

VARIABLES
    thread,      \* where the interpreter's thread is
    point,       \* the callback it is in
    position,    \* the last breakpoint the loop over _breakPoints has seen there
    reason,      \* why it has stopped there
    server,      \* where the server's thread is
    attached,    \* the interpreter has this session (_sessionForInterpreter)
    isRunning, isStepping, skipTo,
    breakPoints, \* _breakPoints
    enabled,     \* those whose member enabled is set
    breakpointsEnabled,
    sendQueue,   \* _sendQueues: the numbers of the stops, or Finished
    clientConn,  \* _clientConns has a request to reply to
    open,        \* the client's last poll is not answered yet
    stops,       \* the number of times the thread has stopped
    told,        \* the last stop the client was told of
    raced,       \* both threads were in serverPushData, or one has erased a new poll
    callbacks, requests

place == <<point, position, reason>>
flags == <<attached, isRunning, isStepping>>
breaks == <<breakPoints, enabled, breakpointsEnabled>>
channel == <<sendQueue, clientConn, open, told, raced>>
bounds == <<callbacks, requests>>
vars == <<thread, place, server, flags, skipTo, breaks, channel, stops, bounds>>

Breakpoints == 1 .. NumBreakpoints
NoBreakpoint == 0
NoPoint == 0
Finished == 0

\* The first breakpoint has no qualifier, the others name their callback.
Matches(b, p) == b \in {1, p}

Init ==
    /\ thread = "none"
    /\ point = NoPoint /\ position = 0 /\ reason = "none"
    /\ server = "idle"
    /\ attached = TRUE          \* debugPrepare has loaded an interpreter
    /\ isRunning = FALSE /\ isStepping = FALSE /\ skipTo = NoBreakpoint
    /\ breakPoints = {} /\ enabled = {} /\ breakpointsEnabled = TRUE
    /\ sendQueue = <<>> /\ clientConn = FALSE /\ open = FALSE
    /\ stops = 0 /\ told = 0 /\ raced = FALSE
    /\ callbacks = 0 /\ requests = 0

-----------------------------------------------------------------------------
(* The interpreter's thread. *)

\* A callback that passes the tests of Debugger::handleState and its like; others do nothing.
Callback(p) ==
    /\ thread = "running"
    /\ callbacks < MaxCallbacks
    /\ callbacks' = callbacks + 1
    /\ attached /\ isRunning /\ breakpointsEnabled
    /\ thread' = "checking"
    /\ point' = p
    /\ UNCHANGED <<position, reason, server, flags, skipTo, breaks, channel, stops, requests>>

\* step() waits for an external event; one arrives.
Block ==
    /\ thread = "running"
    /\ thread' = "blocked"
    /\ UNCHANGED <<place, server, flags, skipTo, breaks, channel, stops, bounds>>

Unblock ==
    /\ thread = "blocked"
    /\ thread' = "running"
    /\ UNCHANGED <<place, server, flags, skipTo, breaks, channel, stops, bounds>>

\* The interpreter has finished, or run() finds that it was stopped.
Complete ==
    /\ thread = "running"
    /\ thread' = IF attached THEN "pushing" ELSE "ended"
    /\ sendQueue' = IF attached THEN Append(sendQueue, Finished) ELSE sendQueue
    /\ UNCHANGED <<place, server, flags, skipTo, breaks, clientConn, open, told, raced, stops, bounds>>

LeaveRun ==
    /\ thread = "running"
    /\ ~isRunning
    /\ thread' = "ended"
    /\ UNCHANGED <<place, server, flags, skipTo, breaks, channel, stops, bounds>>

LeaveCallback ==
    /\ thread' = "running"
    /\ point' = NoPoint /\ position' = 0 /\ reason' = "none"

Stop(why) == thread' = "breaking" /\ reason' = why

CheckSkipTo ==
    /\ thread = "checking"
    /\ \/ skipTo = NoBreakpoint /\ thread' = "looping" /\ UNCHANGED place
       \/ skipTo # NoBreakpoint /\ Matches(skipTo, point)
          /\ Stop("skip") /\ UNCHANGED <<point, position>>
       \/ skipTo # NoBreakpoint /\ ~Matches(skipTo, point) /\ LeaveCallback
    /\ UNCHANGED <<server, flags, skipTo, breaks, channel, stops, bounds>>

\* The breakpoints that match among those the loop has not seen yet.
Hits == {b \in breakPoints \cap enabled : b > position /\ Matches(b, point)}

CheckBreakpoints ==
    /\ thread = "looping"
    /\ \/ \E b \in Hits : /\ \A c \in Hits : b <= c
                          /\ Stop("user") /\ position' = b /\ UNCHANGED point
       \/ Hits = {} /\ isStepping /\ reason = "none" /\ Stop("step") /\ UNCHANGED <<point, position>>
       \/ Hits = {} /\ (~isStepping \/ reason # "none") /\ LeaveCallback
    /\ UNCHANGED <<server, flags, skipTo, breaks, channel, stops, bounds>>

\* Mutant: the thread does not hold _mutex while it pushes.
MutexNeverHeld == FALSE

\* breakExecution() holds _mutex until the thread waits.
InPush == {"pushing", "popping", "clearing"}
MutexHeld == thread \in InPush /\ point # NoPoint

BreakExecution ==
    /\ thread = "breaking"
    /\ thread' = "pushing"
    /\ stops' = stops + 1
    /\ sendQueue' = Append(sendQueue, stops')
    /\ UNCHANGED <<place, server, flags, skipTo, breaks, clientConn, open, told, raced, bounds>>

\* The tests of serverPushData().
HasReply == sendQueue # <<>> /\ clientConn

AfterPush == IF point = NoPoint THEN "ended" ELSE "waiting"

Push ==
    /\ thread = "pushing"
    /\ thread' = IF HasReply THEN "popping" ELSE AfterPush
    /\ raced' = (raced \/ (HasReply /\ server \in {"popping", "clearing"}))
    /\ UNCHANGED <<place, server, flags, skipTo, breaks, sendQueue, clientConn, open, told, stops, bounds>>

\* pop() waits for a message; the reply is lost if the other thread has used up the request.
Reply ==
    /\ sendQueue # <<>>
    /\ sendQueue' = Tail(sendQueue)
    /\ told' = IF clientConn /\ open /\ Head(sendQueue) # Finished THEN Head(sendQueue) ELSE told
    /\ open' = (open /\ ~clientConn)

(***************************************************************************)
(* The last line of serverPushData() forgets the request that was answered *)
(* - or a new one, if the client has polled again meanwhile.               *)
(***************************************************************************)
Forget ==
    /\ clientConn' = FALSE
    /\ raced' = (raced \/ open)

PushReply ==
    /\ thread = "popping"
    /\ Reply
    /\ thread' = "clearing"
    /\ UNCHANGED <<place, server, flags, skipTo, breaks, clientConn, raced, stops, bounds>>

PushForget ==
    /\ thread = "clearing"
    /\ Forget
    /\ thread' = AfterPush
    /\ UNCHANGED <<place, server, flags, skipTo, breaks, sendQueue, open, told, stops, bounds>>

\* wait() may return without a notification.
WakeSpuriously ==
    /\ thread = "waiting"
    /\ thread' = "woken"
    /\ UNCHANGED <<place, server, flags, skipTo, breaks, channel, stops, bounds>>

\* A stop at the skip-to breakpoint resets it.
ReturnFromBreak ==
    /\ thread = "woken"
    /\ \/ reason = "skip" /\ skipTo' = NoBreakpoint /\ LeaveCallback
       \/ reason = "user" /\ thread' = "looping" /\ UNCHANGED <<place, skipTo>>
       \/ reason = "step" /\ UNCHANGED skipTo /\ LeaveCallback
    /\ UNCHANGED <<server, flags, breaks, channel, stops, bounds>>

-----------------------------------------------------------------------------
(* The requests of the client. *)

Request ==
    /\ server = "idle"
    /\ requests < MaxRequests
    /\ requests' = requests + 1

Notify == thread' = IF thread = "waiting" THEN "woken" ELSE thread

\* The thread is created by the first of these requests.
Run == thread' = IF thread = "none" THEN "running" ELSE IF thread = "waiting" THEN "woken" ELSE thread

\* A client does not start a session twice: debugStart does not test _isRunning.
DebugStart ==
    /\ Request
    /\ attached /\ ~isRunning
    /\ isRunning' = TRUE
    /\ thread' = "running"
    /\ UNCHANGED <<place, server, attached, isStepping, skipTo, breaks, channel, stops, callbacks>>

DebugStep ==
    /\ Request
    /\ attached
    /\ ~MutexHeld
    /\ isStepping' = TRUE
    /\ isRunning' = TRUE
    /\ Run
    /\ UNCHANGED <<place, server, attached, skipTo, breaks, channel, stops, callbacks>>

DebugResume ==
    /\ Request
    /\ ~MutexHeld
    /\ isStepping' = FALSE
    /\ Notify
    /\ UNCHANGED <<place, server, attached, isRunning, skipTo, breaks, channel, stops, callbacks>>

DebugPause ==
    /\ Request
    /\ ~MutexHeld
    /\ skipTo' = NoBreakpoint
    /\ isStepping' = TRUE
    /\ UNCHANGED <<thread, place, server, attached, isRunning, breaks, channel, stops, callbacks>>

SkipToBreakPoint(b) ==
    /\ Request
    /\ attached
    /\ ~MutexHeld
    /\ skipTo' = b
    /\ isRunning' = TRUE
    /\ Run
    /\ UNCHANGED <<place, server, attached, isStepping, breaks, channel, stops, callbacks>>

AddBreakPoint(b) ==
    /\ Request
    /\ b \notin breakPoints
    /\ breakPoints' = breakPoints \cup {b}
    /\ enabled' = enabled \cup {b}
    /\ UNCHANGED <<thread, place, server, flags, skipTo, breakpointsEnabled, channel, stops, callbacks>>

(***************************************************************************)
(* The loop of checkBreakpoints() may be at the breakpoint that is erased, *)
(* which leaves its iterator undefined; here it goes on with the next one. *)
(***************************************************************************)
RemoveBreakPoint(b) ==
    /\ Request
    /\ b \in breakPoints
    /\ breakPoints' = breakPoints \ {b}
    /\ UNCHANGED <<thread, place, server, flags, skipTo, enabled, breakpointsEnabled, channel, stops, callbacks>>

EnableBreakPoint(b) ==
    /\ Request
    /\ b \in breakPoints
    /\ enabled' = enabled \cup {b}
    /\ UNCHANGED <<thread, place, server, flags, skipTo, breakPoints, breakpointsEnabled, channel, stops, callbacks>>

DisableBreakPoint(b) ==
    /\ Request
    /\ b \in breakPoints
    /\ enabled' = enabled \ {b}
    /\ UNCHANGED <<thread, place, server, flags, skipTo, breakPoints, breakpointsEnabled, channel, stops, callbacks>>

EnableAllBreakPoints(on) ==
    /\ Request
    /\ breakpointsEnabled' = on
    /\ UNCHANGED <<thread, place, server, flags, skipTo, breakPoints, enabled, channel, stops, callbacks>>

\* debugStop(), which does not take _mutex: detach, mark, notify, and join.
DebugStop ==
    /\ Request
    /\ attached
    /\ attached' = FALSE
    /\ server' = IF isRunning THEN "marking" ELSE "idle"
    /\ skipTo' = IF isRunning THEN skipTo ELSE NoBreakpoint
    /\ UNCHANGED <<thread, place, isRunning, isStepping, breaks, channel, stops, callbacks>>

StopMark ==
    /\ server = "marking"
    /\ isRunning' = FALSE
    /\ server' = "unblocking"
    /\ UNCHANGED <<thread, place, attached, isStepping, skipTo, breaks, channel, stops, bounds>>

\* Mutant: the waiting thread is not notified.
StopUnblockNothing ==
    /\ server = "unblocking"
    /\ server' = "joining"
    /\ UNCHANGED <<thread, place, flags, skipTo, breaks, channel, stops, bounds>>

StopUnblock ==
    /\ server = "unblocking"
    /\ Notify
    /\ server' = "joining"
    /\ UNCHANGED <<place, flags, skipTo, breaks, channel, stops, bounds>>

StopJoin ==
    /\ server = "joining"
    /\ thread = "ended"
    /\ thread' = "none"
    /\ skipTo' = NoBreakpoint
    /\ server' = "idle"
    /\ UNCHANGED <<place, flags, breaks, channel, stops, bounds>>

\* /debug/poll: one request at a time is open.
Poll ==
    /\ server = "idle"
    /\ ~open
    /\ clientConn' = TRUE
    /\ open' = TRUE
    /\ server' = "testing"
    /\ UNCHANGED <<thread, place, flags, skipTo, breaks, sendQueue, told, raced, stops, bounds>>

PollTest ==
    /\ server = "testing"
    /\ server' = IF HasReply THEN "popping" ELSE "idle"
    /\ raced' = (raced \/ (HasReply /\ thread \in {"popping", "clearing"}))
    /\ UNCHANGED <<thread, place, flags, skipTo, breaks, sendQueue, clientConn, open, told, stops, bounds>>

PollReply ==
    /\ server = "popping"
    /\ Reply
    /\ server' = "clearing"
    /\ UNCHANGED <<thread, place, flags, skipTo, breaks, clientConn, raced, stops, bounds>>

PollForget ==
    /\ server = "clearing"
    /\ Forget
    /\ server' = "idle"
    /\ UNCHANGED <<thread, place, flags, skipTo, breaks, sendQueue, open, told, stops, bounds>>

-----------------------------------------------------------------------------
Next ==
    \/ \E p \in Breakpoints : Callback(p)
    \/ Block
    \/ Unblock
    \/ Complete
    \/ LeaveRun
    \/ CheckSkipTo
    \/ CheckBreakpoints
    \/ BreakExecution
    \/ Push
    \/ PushReply
    \/ PushForget
    \/ WakeSpuriously
    \/ ReturnFromBreak
    \/ DebugStart
    \/ DebugStep
    \/ DebugResume
    \/ DebugPause
    \/ \E b \in Breakpoints : SkipToBreakPoint(b)
    \/ \E b \in Breakpoints : AddBreakPoint(b)
    \/ \E b \in Breakpoints : RemoveBreakPoint(b)
    \/ \E b \in Breakpoints : EnableBreakPoint(b)
    \/ \E b \in Breakpoints : DisableBreakPoint(b)
    \/ \E on \in BOOLEAN : EnableAllBreakPoints(on)
    \/ DebugStop
    \/ StopMark
    \/ StopUnblock
    \/ StopJoin
    \/ Poll
    \/ PollTest
    \/ PollReply
    \/ PollForget

Spec == Init /\ [][Next]_vars

(***************************************************************************)
(* The threads go on with what they have begun and the client keeps        *)
(* polling.  Nothing obliges it to send other requests, nor an event to    *)
(* arrive, nor the interpreter to finish.  LeaveRun is strongly fair since *)
(* run() tests _isRunning after every step().                              *)
(***************************************************************************)
FairSpec ==
    /\ Spec
    /\ SF_vars(LeaveRun)
    /\ WF_vars(CheckSkipTo)
    /\ WF_vars(CheckBreakpoints)
    /\ WF_vars(BreakExecution)
    /\ WF_vars(Push)
    /\ WF_vars(PushReply)
    /\ WF_vars(PushForget)
    /\ WF_vars(ReturnFromBreak)
    /\ WF_vars(StopMark)
    /\ WF_vars(StopUnblock)
    /\ WF_vars(StopJoin)
    /\ WF_vars(Poll)
    /\ WF_vars(PollTest)
    /\ WF_vars(PollReply)
    /\ WF_vars(PollForget)

-----------------------------------------------------------------------------
(* Properties. *)

(***************************************************************************)
(* A client that has been told of a stop can end it: its next step, resume *)
(* or skip-to wakes the thread, because breakExecution() holds _mutex from *)
(* the push until it waits.                                                *)
(***************************************************************************)
ResumeNotLost ==
    [][(DebugStep \/ DebugResume \/ \E b \in Breakpoints : SkipToBreakPoint(b)) =>
        (told = stops /\ point # NoPoint /\ thread \in InPush \cup {"waiting"}
            => thread' = "woken")]_vars

(***************************************************************************)
(* The client is told of every stop that lasts (pushData and the poll); a  *)
(* thread that waits at a breakpoint when debugStop() is called is woken   *)
(* by it ("unblock"); and debugStop() returns.  This fails in three ways   *)
(* only: the threads have met in serverPushData(), the thread comes to     *)
(* wait at a breakpoint after the notification, for which debugStop() does *)
(* not take _mutex, or it waits for an event inside step(), which nothing  *)
(* unblocks; in the last two it waits forever.                             *)
(***************************************************************************)
WaitsEnd ==
    /\ thread = "waiting" ~> told = stops \/ thread # "waiting" \/ raced \/ server = "joining"
    /\ thread = "waiting" /\ server = "marking" ~> thread # "waiting"
    /\ server = "marking" ~> \/ server = "idle"
                             \/ raced
                             \/ [](thread = "waiting")
                             \/ [](thread = "blocked")
=============================================================================
