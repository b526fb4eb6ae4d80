------------------------------ MODULE MicroStep ------------------------------
(***************************************************************************)
(* The interpreter's thread of control: InterpreterImpl::step and          *)
(* FastMicroStep::step over the chart of module Chart, one action per way  *)
(* a call of step() can return, and the calls other threads make meanwhile *)
(* (receive an external event, cancel, reset).                             *)
(*                                                                         *)
(* A call is one action: the only state it shares with other threads is    *)
(* the external queue and the cancelled flag, each touched once per call.  *)
(***************************************************************************)
EXTENDS Chart

CONSTANTS
    ExternalEvents,  \* names of the events other sessions and threads send
    InvokeStates,    \* the states with an <invoke>
    MaxExternal,     \* bound: events waiting in the external queue
    MaxStale         \* bound: reset() is called with at most so many internal events
                     \*        queued, never if negative

VARIABLES
    isInitialized,    \* InterpreterImpl::_isInitialized
    state,            \* InterpreterImpl::_state, what step() returned last
    flags,            \* FastMicroStep::_flags
    configuration,    \* _configuration
    history,          \* _history
    initializedData,  \* _initializedData
    invocations,      \* _invocations
    isCancelled,      \* _isCancelled
    running,          \* states whose invokers are in InterpreterImpl::_invokers
    internalQueue,    \* InterpreterImpl::_internalQueue
    externalQueue,    \* InterpreterImpl::_externalQueue
    last              \* what the monitors saw of the microstep of the last call

stepper == <<flags, configuration, history, initializedData, invocations, isCancelled>>
vars == <<isInitialized, state, stepper, running, internalQueue, externalQueue, last>>

ASSUME BoundsAssumption ==
    /\ InvokeStates \subseteq ProperStates
    /\ MaxExternal \in Nat
    /\ MaxStale \in Int

AllFlags == {"SPONTANEOUS", "INITIALIZED", "TOP_LEVEL_FINAL", "FINISHED", "STABLE"}
InterpreterStates == {"INSTANTIATED", "INITIALIZED", "MICROSTEPPED", "MACROSTEPPED",
                      "IDLE", "CANCELLED", "FINISHED"}

NoMicrostep == [exited |-> {}, entered |-> {}, taken |-> {}, raised |-> <<>>]

Init ==
    /\ isInitialized = FALSE
    /\ state = "INSTANTIATED"
    /\ flags = {}
    /\ configuration = {}
    /\ history = {}
    /\ initializedData = {}
    /\ invocations = {}
    /\ isCancelled = FALSE
    /\ running = {}
    /\ internalQueue = <<>>
    /\ externalQueue = <<>>
    /\ last = NoMicrostep

-----------------------------------------------------------------------------
(***************************************************************************)
(* The first call only sets up the document and the components.            *)
(***************************************************************************)
StepInitialize ==
    /\ ~isInitialized
    /\ isInitialized' = TRUE
    /\ state' = "INITIALIZED"
    /\ last' = NoMicrostep
    /\ UNCHANGED <<stepper, running, internalQueue, externalQueue>>

StepFinished ==
    /\ isInitialized
    /\ "FINISHED" \in flags
    /\ state' = "FINISHED"
    /\ last' = NoMicrostep
    /\ UNCHANGED <<isInitialized, stepper, running, internalQueue, externalQueue>>

(***************************************************************************)
(* The exit handlers of the configuration run and every invoker is         *)
(* stopped; the configuration itself is left as it is.                     *)
(***************************************************************************)
\* Mutant: completion runs again with every call of step().
StepCompleteAgain ==
    /\ isInitialized
    /\ "TOP_LEVEL_FINAL" \in flags
    /\ internalQueue' = internalQueue \o ExitEvents(configuration)
    /\ running' = running \ invocations
    /\ invocations' = {}
    /\ flags' = flags \cup {"FINISHED"}
    /\ state' = "FINISHED"
    /\ last' = NoMicrostep
    /\ UNCHANGED <<isInitialized, configuration, history, initializedData, isCancelled, externalQueue>>
\* Mutant: the invokers are not stopped at completion.
StepCompleteKeepingInvokers ==
    /\ isInitialized
    /\ "FINISHED" \notin flags
    /\ "TOP_LEVEL_FINAL" \in flags
    /\ internalQueue' = internalQueue \o ExitEvents(configuration)
    /\ invocations' = {}
    /\ flags' = flags \cup {"FINISHED"}
    /\ state' = "FINISHED"
    /\ last' = NoMicrostep
    /\ UNCHANGED <<isInitialized, configuration, history, initializedData, isCancelled, running,
                   externalQueue>>

StepComplete ==
    /\ isInitialized
    /\ "FINISHED" \notin flags
    /\ "TOP_LEVEL_FINAL" \in flags
    /\ internalQueue' = internalQueue \o ExitEvents(configuration)
    /\ running' = running \ invocations
    /\ invocations' = {}
    /\ flags' = flags \cup {"FINISHED"}
    /\ state' = "FINISHED"
    /\ last' = NoMicrostep
    /\ UNCHANGED <<isInitialized, configuration, history, initializedData, isCancelled, externalQueue>>

(***************************************************************************)
(* From ESTABLISH_ENTRYSET to the end of step(); m is what the microstep   *)
(* does.                                                                   *)
(***************************************************************************)
Perform(m, exit, hist, queue, flagsBefore) ==
    /\ configuration' = m.config
    /\ history' = hist
    /\ initializedData' = initializedData \cup m.entered
    /\ internalQueue' = queue \o m.raised
    /\ flags' = flagsBefore \cup
                   IF \E s \in m.entered : IsTopLevelFinal(s) THEN {"TOP_LEVEL_FINAL"} ELSE {}
    /\ state' = "MICROSTEPPED"
    /\ last' = [exited |-> exit, entered |-> m.entered, taken |-> m.taken, raised |-> m.raised]

TakeMicrostep(targets, taken, exit, hist, queue, flagsBefore) ==
    Perform(Microstep(targets, taken, configuration, hist, exit, initializedData),
            exit, hist, queue, flagsBefore)

Running == isInitialized /\ flags \cap {"FINISHED", "TOP_LEVEL_FINAL"} = {}

StepEnterInitial ==
    /\ Running
    /\ flags = {}
    /\ TakeMicrostep(Completion[0], {}, {}, history, internalQueue, {"SPONTANEOUS", "INITIALIZED"})
    /\ UNCHANGED <<isInitialized, invocations, isCancelled, running, externalQueue>>

(***************************************************************************)
(* SELECT_TRANSITIONS for an event taken from a queue, queue being what is *)
(* left of the internal one.  The data model decides the conditions.       *)
(***************************************************************************)
TakeSelected(selected, exit, queue) ==
    \/ /\ selected.taken = {}
       /\ flags' = flags \ {"STABLE", "SPONTANEOUS"}
       /\ internalQueue' = queue \o selected.errors
       /\ state' = "MICROSTEPPED"
       /\ last' = NoMicrostep
       /\ UNCHANGED <<configuration, history, initializedData>>
    \/ /\ selected.taken # {}
       /\ TakeMicrostep(TargetSet(selected.taken), selected.taken, exit,
                        RememberHistory(history, configuration, exit),
                        queue \o selected.errors,
                        (flags \ {"STABLE"}) \cup {"SPONTANEOUS"})

ProcessEvent(event, queue) ==
    \E cond \in [{t \in TransIdx : Trans[t].guarded} -> {"true", "false", "error"}] :
        LET selected == SelectTransitions(configuration, event, cond)
        IN TakeSelected(selected, ExitedStates(selected.taken, configuration), queue)

StepSpontaneous ==
    /\ Running
    /\ "SPONTANEOUS" \in flags
    /\ ProcessEvent(NoEvent, internalQueue)
    /\ UNCHANGED <<isInitialized, invocations, isCancelled, running, externalQueue>>

StepInternal ==
    /\ Running
    /\ flags # {}
    /\ "SPONTANEOUS" \notin flags
    /\ internalQueue # <<>>
    /\ ProcessEvent(Head(internalQueue), Tail(internalQueue))
    /\ UNCHANGED <<isInitialized, invocations, isCancelled, running, externalQueue>>

(***************************************************************************)
(* The internal queue is empty: invokers of states that were left are      *)
(* stopped, those of states that were entered started.  An <invoke> that   *)
(* fails before its invoker is created leaves none, but its state counts   *)
(* as invoked all the same.                                                *)
(***************************************************************************)
\* Mutant: an empty internal queue is enough.
QuiescentWithEventless ==
    /\ Running
    /\ flags # {}
    /\ internalQueue = <<>>

Quiescent ==
    /\ Running
    /\ flags # {}
    /\ "SPONTANEOUS" \notin flags
    /\ internalQueue = <<>>

ManageInvocations ==
    /\ invocations' = configuration
    /\ \E failed \in SUBSET ((configuration \ invocations) \cap InvokeStates) :
          running' = (running \ (invocations \ configuration))
                        \cup (((configuration \ invocations) \cap InvokeStates) \ failed)

StepStable ==
    /\ Quiescent
    /\ "STABLE" \notin flags
    /\ ManageInvocations
    /\ flags' = flags \cup {"STABLE"}
    /\ state' = "MACROSTEPPED"
    /\ last' = NoMicrostep
    /\ UNCHANGED <<isInitialized, configuration, history, initializedData, isCancelled,
                   internalQueue, externalQueue>>

(***************************************************************************)
(* dequeueExternal: the first event of the queue, or Event() when none has *)
(* arrived in time.  The queue may also hold an Event(), put there by      *)
(* cancel() to unblock the caller.                                         *)
(***************************************************************************)
\* Mutant: the event stays in the queue.
StepExternalPeeking ==
    /\ Quiescent
    /\ "STABLE" \in flags
    /\ ManageInvocations
    /\ externalQueue # <<>>
    /\ Head(externalQueue) # NoEvent
    /\ ProcessEvent(Head(externalQueue), internalQueue)
    /\ UNCHANGED <<isInitialized, isCancelled, externalQueue>>

StepExternal ==
    /\ Quiescent
    /\ "STABLE" \in flags
    /\ ManageInvocations
    /\ externalQueue # <<>>
    /\ Head(externalQueue) # NoEvent
    /\ externalQueue' = Tail(externalQueue)
    /\ ProcessEvent(Head(externalQueue), internalQueue)
    /\ UNCHANGED <<isInitialized, isCancelled>>

DequeueNothing ==
    /\ externalQueue # <<>> => Head(externalQueue) = NoEvent
    /\ externalQueue' = IF externalQueue = <<>> THEN <<>> ELSE Tail(externalQueue)

\* Mutant: a cancelled session starts another macrostep.
StepCancelledRestarting ==
    /\ Quiescent
    /\ "STABLE" \in flags
    /\ ManageInvocations
    /\ DequeueNothing
    /\ isCancelled
    /\ flags' = flags \ {"STABLE"}
    /\ state' = "CANCELLED"
    /\ last' = NoMicrostep
    /\ UNCHANGED <<isInitialized, configuration, history, initializedData, isCancelled, internalQueue>>

StepCancelled ==
    /\ Quiescent
    /\ "STABLE" \in flags
    /\ ManageInvocations
    /\ DequeueNothing
    /\ isCancelled
    /\ flags' = flags \cup {"TOP_LEVEL_FINAL"}
    /\ state' = "CANCELLED"
    /\ last' = NoMicrostep
    /\ UNCHANGED <<isInitialized, configuration, history, initializedData, isCancelled, internalQueue>>

StepIdle ==
    /\ Quiescent
    /\ "STABLE" \in flags
    /\ ManageInvocations
    /\ DequeueNothing
    /\ ~isCancelled
    /\ state' = "IDLE"
    /\ last' = NoMicrostep
    /\ UNCHANGED <<isInitialized, flags, configuration, history, initializedData, isCancelled,
                   internalQueue>>

Step ==
    \/ StepInitialize
    \/ StepFinished
    \/ StepComplete
    \/ StepEnterInitial
    \/ StepSpontaneous
    \/ StepInternal
    \/ StepStable
    \/ StepExternal
    \/ StepCancelled
    \/ StepIdle

-----------------------------------------------------------------------------
(* The calls of other threads. *)

Receive(name) ==
    /\ isInitialized
    /\ Len(externalQueue) < MaxExternal
    /\ externalQueue' = Append(externalQueue, Ev(name))
    /\ last' = NoMicrostep
    /\ UNCHANGED <<isInitialized, state, stepper, running, internalQueue>>

(***************************************************************************)
(* cancel() marks the stepper and sends an Event() to unblock it.          *)
(***************************************************************************)
Cancel ==
    /\ isInitialized
    /\ Len(externalQueue) < MaxExternal
    /\ isCancelled' = TRUE
    /\ externalQueue' = Append(externalQueue, NoEvent)
    /\ last' = NoMicrostep
    /\ UNCHANGED <<isInitialized, state, flags, configuration, history, initializedData, invocations,
                   running, internalQueue>>

(***************************************************************************)
(* reset() forgets what the stepper knows.  Neither queue is emptied and   *)
(* no invoker is stopped.                                                  *)
(***************************************************************************)
Reset ==
    /\ isInitialized
    /\ Len(internalQueue) <= MaxStale
    /\ isInitialized' = FALSE
    /\ state' = "INSTANTIATED"
    /\ isCancelled' = FALSE
    /\ flags' = {}
    /\ configuration' = {}
    /\ history' = {}
    /\ initializedData' = {}
    /\ invocations' = {}
    /\ last' = NoMicrostep
    /\ UNCHANGED <<running, internalQueue, externalQueue>>

Next ==
    \/ Step
    \/ \E name \in ExternalEvents : Receive(name)
    \/ Cancel
    \/ Reset

Spec == Init /\ [][Next]_vars

(***************************************************************************)
(* Applications call step() in a loop, so the interpreter's thread does    *)
(* not stop; nothing obliges anyone to send, cancel or reset.  This is     *)
(* WF_vars(Step) with ENABLED <<Step>>_vars written out: step() can always *)
(* be called, and changes nothing exactly when the session is at rest.     *)
(***************************************************************************)
AtRest ==
    /\ last = NoMicrostep
    /\ \/ "FINISHED" \in flags /\ state = "FINISHED"
       \/ /\ Quiescent
          /\ "STABLE" \in flags
          /\ invocations = configuration
          /\ externalQueue = <<>>
          /\ ~isCancelled
          /\ state = "IDLE"

FairSpec == Spec /\ ([]<>AtRest \/ []<><<Step>>_vars)
-----------------------------------------------------------------------------
(* Properties. *)

EventType == [name : STRING, of : Nat]

StepperTypeOK ==
    /\ isInitialized \in BOOLEAN
    /\ state \in InterpreterStates
    /\ flags \subseteq AllFlags
    /\ configuration \subseteq ProperStates
    /\ history \subseteq ProperStates
    /\ initializedData \subseteq ProperStates
    /\ invocations \subseteq ProperStates
    /\ isCancelled \in BOOLEAN
    /\ running \subseteq InvokeStates

QueuesTypeOK ==
    /\ \A i \in DOMAIN internalQueue : internalQueue[i] \in EventType
    /\ \A i \in DOMAIN externalQueue : externalQueue[i] \in EventType

(***************************************************************************)
(* Type invariant.  The stepper's bit sets range over the states, and only *)
(* proper states are ever active, remembered, initialised or invoked.      *)
(***************************************************************************)
TypeOK == StepperTypeOK /\ QueuesTypeOK

(***************************************************************************)
(* Whatever sequence of events, conditions, cancellations and resets the   *)
(* stepper goes through, every microstep ends in a legal configuration.    *)
(***************************************************************************)
AlwaysLegal == flags # {} => LegalConfiguration(configuration)

(***************************************************************************)
(* Once the stepper reports a stable configuration, no unconditional       *)
(* eventless transition is left to take, and exactly the active states     *)
(* count as invoked: an external event is only processed after the macro-  *)
(* step is complete (FastMicroStep::step, "ought to signal stable").       *)
(***************************************************************************)
StableIsQuiescent ==
    "STABLE" \in flags =>
        /\ \A t \in TransIdx :
              Matches(t, configuration, NoEvent) => Trans[t].guarded
        /\ "FINISHED" \notin flags => invocations = configuration

(***************************************************************************)
(* What the histories of an inactive state remember is either nothing or   *)
(* states that can be entered together: with the ancestors of the history  *)
(* they make up a configuration that is legal below the parent, as far     *)
(* down as the history looks.                                              *)
(***************************************************************************)
HistoryIsLegal ==
    \A h \in Histories :
        LET p == Parent[h]
            known == Completion[h] \cap history
        IN (p \notin configuration /\ known # {}) =>
               \A s \in known \cup {p} :
                   /\ s # p => Parent[s] \in known \cup {p}
                   /\ (s = p \/ Type[h] = "deep") =>
                         /\ Type[s] = "compound" => Cardinality(ChildStates[s] \cap known) = 1
                         /\ Type[s] = "parallel" => ChildStates[s] \subseteq known

TimesRaised(s) == Cardinality({i \in DOMAIN last.raised : last.raised[i] = DoneEvent(s)})

(***************************************************************************)
(* The done events of a microstep are those the W3C algorithm asks for:    *)
(* for each <final> entered below the top level that of its parent, and    *)
(* that of a parallel state exactly once, in the microstep that completes  *)
(* its last region by entering a <final>, and in no other; but for those   *)
(* the removal of children in ENTER_STATES cannot empty (CanBeDone).       *)
(***************************************************************************)
DoneEventsExact ==
    \A s \in States \ {0} :
        TimesRaised(s) =
            CASE Type[s] = "compound" ->
                   Cardinality({f \in last.entered : Type[f] = "final" /\ Parent[f] = s})
              [] Type[s] = "parallel" ->
                   IF /\ s \in configuration
                      /\ InFinalState(s, configuration)
                      /\ CanBeDone(s)
                      /\ \E f \in last.entered : Type[f] = "final" /\ Parent[f] \in RegionTree(s)
                   THEN 1 ELSE 0
              [] OTHER -> 0

(***************************************************************************)
(* An invoker only runs for a state that counts as invoked, so leaving the *)
(* state or finishing the session stops it (step(), "manage invocations"   *)
(* and "cancel all invokers").                                             *)
(***************************************************************************)
InvokersAccounted == running \subseteq invocations

(***************************************************************************)
(* A finished session stays as it is: no event is taken from a queue, no   *)
(* state entered or left, no invoker started (step(), first test).         *)
(***************************************************************************)
FinishedIsFinal ==
    [][("FINISHED" \in flags /\ flags' # {}) =>
          /\ UNCHANGED <<flags, configuration, history, invocations, running, internalQueue>>
          /\ Len(externalQueue') >= Len(externalQueue)]_vars

(***************************************************************************)
(* cancel() ends the session: the stepper finishes what is queued before   *)
(* the cancellation and then completes ("Unblock and mark for finalize").  *)
(***************************************************************************)
CancelFinishes == isCancelled ~> ("FINISHED" \in flags \/ ~isCancelled)

(***************************************************************************)
(* No macrostep starves the outside: while the session lasts, an external  *)
(* queue that is not empty is taken from, again and again.                 *)
(***************************************************************************)
ExternalServed ==
    \/ []<>(externalQueue = <<>> \/ "FINISHED" \in flags)
    \/ []<><<Len(externalQueue') < Len(externalQueue)>>_vars
=============================================================================
