--------------------------- MODULE MicroStepProofs ---------------------------
(***************************************************************************)
(* Properties of module MicroStep, for every chart and every environment.  *)
(***************************************************************************)
EXTENDS HistoryRecord, ChartProofs

(***************************************************************************)
(* What a microstep does to the stepper's sets, whatever it enters: only   *)
(* proper states become active.                                            *)
(***************************************************************************)
LEMMA MicrostepProper ==
    ASSUME NEW targets, NEW taken, NEW config \in SUBSET ProperStates, NEW hist, NEW exit, NEW init
    PROVE  LET m == Microstep(targets, taken, config, hist, exit, init)
           IN m.config \subseteq ProperStates /\ m.entered \subseteq ProperStates
  BY DEF Microstep, MoveTo

(***************************************************************************)
(* From ESTABLISH_ENTRYSET to its end, step() keeps the types of the sets  *)
(* it changes.                                                             *)
(***************************************************************************)
LEMMA TakeMicrostepTyped ==
    ASSUME StepperTypeOK,
           NEW targets, NEW taken, NEW exit, NEW hist \in SUBSET ProperStates, NEW queue,
           NEW before \in SUBSET AllFlags,
           TakeMicrostep(targets, taken, exit, hist, queue, before)
    PROVE  /\ flags' \subseteq AllFlags
           /\ state' \in InterpreterStates
           /\ configuration' \subseteq ProperStates
           /\ history' \subseteq ProperStates
           /\ initializedData' \subseteq ProperStates
<1> DEFINE m == Microstep(targets, taken, configuration, hist, exit, initializedData)
<1>1. m.config \subseteq ProperStates /\ m.entered \subseteq ProperStates
  BY MicrostepProper DEF StepperTypeOK
<1> HIDE DEF m
<1>2. /\ configuration' = m.config
      /\ history' = hist
      /\ initializedData' = initializedData \cup m.entered
      /\ state' = "MICROSTEPPED"
      /\ flags' \subseteq before \cup {"TOP_LEVEL_FINAL"}
  BY DEF TakeMicrostep, Perform, m
<1>3. QED
  BY <1>1, <1>2 DEF StepperTypeOK, AllFlags, InterpreterStates

(***************************************************************************)
(* Processing an event either finds no transition and leaves the sets      *)
(* alone, or takes a microstep.                                            *)
(***************************************************************************)
LEMMA ProcessEventTyped ==
    ASSUME StepperTypeOK, NEW event, NEW queue, ProcessEvent(event, queue)
    PROVE  /\ flags' \subseteq AllFlags
           /\ state' \in InterpreterStates
           /\ configuration' \subseteq ProperStates
           /\ history' \subseteq ProperStates
           /\ initializedData' \subseteq ProperStates
<1>1. PICK cond \in [{t \in TransIdx : Trans[t].guarded} -> {"true", "false", "error"}] :
         LET selected == SelectTransitions(configuration, event, cond)
             exit == ExitedStates(selected.taken, configuration)
         IN \/ /\ flags' = flags \ {"STABLE", "SPONTANEOUS"}
               /\ state' = "MICROSTEPPED"
               /\ UNCHANGED <<configuration, history, initializedData>>
            \/ TakeMicrostep(TargetSet(selected.taken), selected.taken, exit,
                             RememberHistory(history, configuration, exit),
                             queue \o selected.errors,
                             (flags \ {"STABLE"}) \cup {"SPONTANEOUS"})
  BY DEF ProcessEvent, TakeSelected
<1> DEFINE selected == SelectTransitions(configuration, event, cond)
           exit == ExitedStates(selected.taken, configuration)
           hist == RememberHistory(history, configuration, exit)
<1>2. CASE /\ flags' = flags \ {"STABLE", "SPONTANEOUS"}
           /\ state' = "MICROSTEPPED"
           /\ UNCHANGED <<configuration, history, initializedData>>
  BY <1>2 DEF StepperTypeOK, InterpreterStates
<1>3. CASE TakeMicrostep(TargetSet(selected.taken), selected.taken, exit, hist,
                         queue \o selected.errors, (flags \ {"STABLE"}) \cup {"SPONTANEOUS"})
  <2>1. hist \in SUBSET ProperStates
    BY RememberedStates DEF StepperTypeOK
  <2>2. (flags \ {"STABLE"}) \cup {"SPONTANEOUS"} \in SUBSET AllFlags
    BY DEF StepperTypeOK, AllFlags
  <2> HIDE DEF selected, exit, hist
  <2>3. QED
    BY <1>3, <2>1, <2>2, TakeMicrostepTyped
<1>4. QED
  BY <1>1, <1>2, <1>3

(***************************************************************************)
(* Starting and stopping invokers leaves only states with an <invoke>      *)
(* running.                                                                *)
(***************************************************************************)
LEMMA ManageInvocationsTyped ==
    ASSUME StepperTypeOK, ManageInvocations
    PROVE  invocations' \subseteq ProperStates /\ running' \subseteq InvokeStates
  BY DEF StepperTypeOK, ManageInvocations

(***************************************************************************)
(* The stepper's bit sets stay typed: whatever the chart and the events,   *)
(* only proper states are active, remembered, initialised or invoked.      *)
(***************************************************************************)
THEOREM StepperTyped == Spec => []StepperTypeOK
<1>1. Init => StepperTypeOK
  BY DEF Init, StepperTypeOK, InterpreterStates
<1>2. StepperTypeOK /\ [Next]_vars => StepperTypeOK'
  <2> SUFFICES ASSUME StepperTypeOK, [Next]_vars
               PROVE  StepperTypeOK'
    OBVIOUS
  <2> USE DEF InterpreterStates, AllFlags
  <2>1. CASE StepInitialize
    BY <2>1 DEF StepInitialize, stepper, StepperTypeOK
  <2>2. CASE StepFinished
    BY <2>2 DEF StepFinished, stepper, StepperTypeOK
  <2>3. CASE StepComplete
    BY <2>3 DEF StepComplete, StepperTypeOK
  <2>4. CASE StepEnterInitial
    <3>1. TakeMicrostep(Completion[0], {}, {}, history, internalQueue, {"SPONTANEOUS", "INITIALIZED"})
      BY <2>4 DEF StepEnterInitial
    <3>2. history \in SUBSET ProperStates /\ {"SPONTANEOUS", "INITIALIZED"} \in SUBSET AllFlags
      BY DEF StepperTypeOK
    <3>3. QED
      BY <2>4, <3>1, <3>2, TakeMicrostepTyped DEF StepEnterInitial, StepperTypeOK
  <2>5. CASE StepSpontaneous
    BY <2>5, ProcessEventTyped DEF StepSpontaneous, StepperTypeOK
  <2>6. CASE StepInternal
    BY <2>6, ProcessEventTyped DEF StepInternal, StepperTypeOK
  <2>7. CASE StepStable
    BY <2>7, ManageInvocationsTyped DEF StepStable, StepperTypeOK
  <2>8. CASE StepExternal
    BY <2>8, ProcessEventTyped, ManageInvocationsTyped DEF StepExternal, StepperTypeOK
  <2>9. CASE StepCancelled
    BY <2>9, ManageInvocationsTyped DEF StepCancelled, StepperTypeOK
  <2>10. CASE StepIdle
    BY <2>10, ManageInvocationsTyped DEF StepIdle, StepperTypeOK
  <2>11. CASE \E name \in ExternalEvents : Receive(name)
    BY <2>11 DEF Receive, stepper, StepperTypeOK
  <2>12. CASE Cancel
    BY <2>12 DEF Cancel, StepperTypeOK
  <2>13. CASE Reset
    BY <2>13 DEF Reset, StepperTypeOK
  <2>14. CASE UNCHANGED vars
    BY <2>14 DEF vars, stepper, StepperTypeOK
  <2>15. QED
    BY <2>1, <2>2, <2>3, <2>4, <2>5, <2>6, <2>7, <2>8, <2>9, <2>10, <2>11, <2>12, <2>13, <2>14
    DEF Next, Step
<1>3. QED
  BY <1>1, <1>2, PTL DEF Spec

-----------------------------------------------------------------------------
(* Macrosteps. *)

(***************************************************************************)
(* No eventless transition without a condition can be taken.               *)
(***************************************************************************)
NoEventless(c) ==
    \A t \in TransIdx : Matches(t, c, NoEvent) => Trans[t].guarded

(***************************************************************************)
(* The strengthening of StableIsQuiescent: SPONTANEOUS is only dropped     *)
(* when no eventless transition is left, never comes back without STABLE   *)
(* being dropped, and a stable stepper has invoked what is active.         *)
(***************************************************************************)
QuiescenceInv ==
    /\ flags # {} /\ "SPONTANEOUS" \notin flags => NoEventless(configuration)
    /\ "STABLE" \in flags => "SPONTANEOUS" \notin flags
    /\ "STABLE" \in flags /\ "FINISHED" \notin flags => invocations = configuration

(***************************************************************************)
(* A microstep adds at most TOP_LEVEL_FINAL to the flags.                  *)
(***************************************************************************)
LEMMA TakeMicrostepFlags ==
    ASSUME NEW targets, NEW taken, NEW exit, NEW hist, NEW queue, NEW before,
           TakeMicrostep(targets, taken, exit, hist, queue, before)
    PROVE  before \subseteq flags' /\ flags' \subseteq before \cup {"TOP_LEVEL_FINAL"}
  BY DEF TakeMicrostep, Perform

(***************************************************************************)
(* Processing an event drops STABLE, and drops SPONTANEOUS only when no    *)
(* transition was found; without an event that means none is left.         *)
(***************************************************************************)
LEMMA ProcessEventFlags ==
    ASSUME NEW event, NEW queue, ProcessEvent(event, queue)
    PROVE  /\ "STABLE" \notin flags'
           /\ \/ "SPONTANEOUS" \in flags'
              \/ /\ configuration' = configuration
                 /\ event = NoEvent => NoEventless(configuration)
<1>1. PICK cond \in [{t \in TransIdx : Trans[t].guarded} -> {"true", "false", "error"}] :
         LET selected == SelectTransitions(configuration, event, cond)
             exit == ExitedStates(selected.taken, configuration)
         IN \/ /\ selected.taken = {}
               /\ flags' = flags \ {"STABLE", "SPONTANEOUS"}
               /\ configuration' = configuration
            \/ TakeMicrostep(TargetSet(selected.taken), selected.taken, exit,
                             RememberHistory(history, configuration, exit),
                             queue \o selected.errors,
                             (flags \ {"STABLE"}) \cup {"SPONTANEOUS"})
  BY DEF ProcessEvent, TakeSelected
<1> DEFINE selected == SelectTransitions(configuration, event, cond)
           exit == ExitedStates(selected.taken, configuration)
           hist == RememberHistory(history, configuration, exit)
<1>2. CASE /\ selected.taken = {}
           /\ flags' = flags \ {"STABLE", "SPONTANEOUS"}
           /\ configuration' = configuration
  <2>1. SelectedUpto(Len(Trans), selected.taken, configuration, event, cond)
    BY SelectionOptimal
  <2> HIDE DEF selected
  <2>2. ASSUME event = NoEvent, NEW t \in TransIdx, Matches(t, configuration, NoEvent)
        PROVE  Trans[t].guarded
    BY <1>2, <2>1, <2>2, LenTrans DEF SelectedUpto, Enabled
  <2>3. QED
    BY <1>2, <2>2 DEF NoEventless
<1>3. CASE TakeMicrostep(TargetSet(selected.taken), selected.taken, exit, hist,
                         queue \o selected.errors, (flags \ {"STABLE"}) \cup {"SPONTANEOUS"})
  <2> HIDE DEF selected, exit, hist
  <2>1. QED
    BY <1>3, TakeMicrostepFlags
<1>4. QED
  BY <1>1, <1>2, <1>3

(***************************************************************************)
(* Once the stepper reports a stable configuration no unconditional        *)
(* eventless transition is left and exactly the active states are invoked, *)
(* for every chart.                                                        *)
(***************************************************************************)
THEOREM StableQuiescent == Spec => []StableIsQuiescent
<1>1. Init => QuiescenceInv
  BY DEF Init, QuiescenceInv
<1>2. QuiescenceInv /\ [Next]_vars => QuiescenceInv'
  <2> SUFFICES ASSUME QuiescenceInv, [Next]_vars
               PROVE  QuiescenceInv'
    OBVIOUS
  <2>1. CASE StepInitialize
    BY <2>1 DEF StepInitialize, stepper, QuiescenceInv, NoEventless
  <2>2. CASE StepFinished
    BY <2>2 DEF StepFinished, stepper, QuiescenceInv, NoEventless
  <2>3. CASE StepComplete
    BY <2>3 DEF StepComplete, QuiescenceInv, NoEventless
  <2>4. CASE StepEnterInitial
    <3>1. TakeMicrostep(Completion[0], {}, {}, history, internalQueue, {"SPONTANEOUS", "INITIALIZED"})
      BY <2>4 DEF StepEnterInitial
    <3>2. "SPONTANEOUS" \in flags' /\ "STABLE" \notin flags'
      BY <3>1, TakeMicrostepFlags
    <3>3. QED
      BY <3>2 DEF QuiescenceInv
  <2>5. CASE StepSpontaneous
    <3>1. ProcessEvent(NoEvent, internalQueue)
      BY <2>5 DEF StepSpontaneous
    <3>2. QED
      BY <3>1, ProcessEventFlags DEF QuiescenceInv, NoEventless
  <2>6. CASE StepInternal
    <3>1. ProcessEvent(Head(internalQueue), Tail(internalQueue)) /\ NoEventless(configuration)
      BY <2>6 DEF StepInternal, QuiescenceInv
    <3>2. QED
      BY <3>1, ProcessEventFlags DEF QuiescenceInv, NoEventless
  <2>7. CASE StepStable
    BY <2>7 DEF StepStable, Quiescent, ManageInvocations, QuiescenceInv, NoEventless
  <2>8. CASE StepExternal
    <3>1. ProcessEvent(Head(externalQueue), internalQueue) /\ NoEventless(configuration)
      BY <2>8 DEF StepExternal, Quiescent, QuiescenceInv
    <3>2. QED
      BY <3>1, ProcessEventFlags DEF QuiescenceInv, NoEventless
  <2>9. CASE StepCancelled
    BY <2>9 DEF StepCancelled, Quiescent, ManageInvocations, QuiescenceInv, NoEventless
  <2>10. CASE StepIdle
    BY <2>10 DEF StepIdle, Quiescent, ManageInvocations, QuiescenceInv, NoEventless
  <2>11. CASE \E name \in ExternalEvents : Receive(name)
    BY <2>11 DEF Receive, stepper, QuiescenceInv, NoEventless
  <2>12. CASE Cancel
    BY <2>12 DEF Cancel, QuiescenceInv, NoEventless
  <2>13. CASE Reset
    BY <2>13 DEF Reset, QuiescenceInv
  <2>14. CASE UNCHANGED vars
    BY <2>14 DEF vars, stepper, QuiescenceInv, NoEventless
  <2>15. QED
    BY <2>1, <2>2, <2>3, <2>4, <2>5, <2>6, <2>7, <2>8, <2>9, <2>10, <2>11, <2>12, <2>13, <2>14
    DEF Next, Step
<1>3. QuiescenceInv => StableIsQuiescent
  BY DEF QuiescenceInv, StableIsQuiescent, NoEventless
<1>4. QED
  BY <1>1, <1>2, <1>3, PTL DEF Spec

-----------------------------------------------------------------------------
(* Invokers. *)

(***************************************************************************)
(* After the invocations are managed, the invokers that run belong to      *)
(* active states.                                                          *)
(***************************************************************************)
LEMMA ManageInvocationsAccounted ==
    ASSUME InvokersAccounted, ManageInvocations
    PROVE  InvokersAccounted'
  BY DEF InvokersAccounted, ManageInvocations

(***************************************************************************)
(* As long as nobody calls reset(), an invoker only runs for a state that  *)
(* counts as invoked.  With reset(), which forgets the invocations but     *)
(* stops no invoker, it does not hold.                                     *)
(***************************************************************************)
THEOREM InvokersStopped == Spec /\ [][~Reset]_vars => []InvokersAccounted
<1>1. Init => InvokersAccounted
  BY DEF Init, InvokersAccounted
<1>2. InvokersAccounted /\ [Next]_vars /\ [~Reset]_vars => InvokersAccounted'
  <2> SUFFICES ASSUME InvokersAccounted, [Next]_vars, [~Reset]_vars
               PROVE  InvokersAccounted'
    OBVIOUS
  <2>1. CASE UNCHANGED <<running, invocations>>
    BY <2>1 DEF InvokersAccounted
  <2>2. CASE ManageInvocations
    BY <2>2, ManageInvocationsAccounted
  <2>3. CASE StepComplete
    BY <2>3 DEF StepComplete, InvokersAccounted
  <2>4. StepInitialize \/ StepFinished \/ StepEnterInitial \/ StepSpontaneous \/ StepInternal
           => UNCHANGED <<running, invocations>>
    BY DEF StepInitialize, StepFinished, StepEnterInitial, StepSpontaneous, StepInternal, stepper
  <2>5. StepStable \/ StepExternal \/ StepCancelled \/ StepIdle => ManageInvocations
    BY DEF StepStable, StepExternal, StepCancelled, StepIdle
  <2>6. Cancel \/ (\E name \in ExternalEvents : Receive(name)) \/ UNCHANGED vars
           => UNCHANGED <<running, invocations>>
    BY DEF Cancel, Receive, stepper, vars
  <2>7. QED
    BY <2>1, <2>2, <2>3, <2>4, <2>5, <2>6 DEF Next, Step
<1>3. QED
  BY <1>1, <1>2, PTL DEF Spec

-----------------------------------------------------------------------------
(* The end of a session. *)

ExternalEvent == [name : ExternalEvents \cup {""}, of : Nat]
ExternalTypeOK == externalQueue \in Seq(ExternalEvent)

(***************************************************************************)
(* Appending to a sequence makes it longer and keeps its type.             *)
(***************************************************************************)
LEMMA AppendTyped ==
    ASSUME NEW S, NEW q \in Seq(S), NEW e \in S
    PROVE  Append(q, e) \in Seq(S)
  OBVIOUS

(***************************************************************************)
(* The external queue holds named events and the Event() of cancel().      *)
(***************************************************************************)
LEMMA ExternalTyped == Spec => []ExternalTypeOK
<1>1. Init => ExternalTypeOK
  BY DEF Init, ExternalTypeOK
<1>2. ExternalTypeOK /\ [Next]_vars => ExternalTypeOK'
  <2> SUFFICES ASSUME ExternalTypeOK, [Next]_vars
               PROVE  ExternalTypeOK'
    OBVIOUS
  <2>1. CASE UNCHANGED externalQueue
    BY <2>1 DEF ExternalTypeOK
  <2>2. CASE externalQueue # <<>> /\ externalQueue' = Tail(externalQueue)
    BY <2>2 DEF ExternalTypeOK
  <2>3. CASE \E name \in ExternalEvents \cup {""} : externalQueue' = Append(externalQueue, Ev(name))
    <3>1. \A name \in ExternalEvents \cup {""} : Ev(name) \in ExternalEvent
      BY DEF Ev, ExternalEvent
    <3>2. PICK name \in ExternalEvents \cup {""} : externalQueue' = Append(externalQueue, Ev(name))
      BY <2>3
    <3>3. Ev(name) \in ExternalEvent
      BY <3>1
    <3>4. QED
      BY <3>2, <3>3, AppendTyped DEF ExternalTypeOK
  <2>4. StepInitialize \/ StepFinished \/ StepComplete \/ StepEnterInitial \/ StepSpontaneous
           \/ StepInternal \/ StepStable \/ Reset \/ UNCHANGED vars
           => UNCHANGED externalQueue
    BY DEF StepInitialize, StepFinished, StepComplete, StepEnterInitial, StepSpontaneous,
           StepInternal, StepStable, Reset, vars
  <2>5. StepExternal => externalQueue # <<>> /\ externalQueue' = Tail(externalQueue)
    BY DEF StepExternal
  <2>6. StepCancelled \/ StepIdle =>
           \/ UNCHANGED externalQueue
           \/ externalQueue # <<>> /\ externalQueue' = Tail(externalQueue)
    BY DEF StepCancelled, StepIdle, DequeueNothing
  <2>7. Cancel \/ (\E name \in ExternalEvents : Receive(name)) =>
           \E name \in ExternalEvents \cup {""} : externalQueue' = Append(externalQueue, Ev(name))
    BY DEF Cancel, Receive, NoEvent
  <2>8. QED
    BY <2>1, <2>2, <2>3, <2>4, <2>5, <2>6, <2>7 DEF Next, Step
<1>3. QED
  BY <1>1, <1>2, PTL DEF Spec

(***************************************************************************)
(* A finished session stays as it is until it is reset.                    *)
(***************************************************************************)
THEOREM FinishedStays == Spec => FinishedIsFinal
<1> DEFINE Stays == ("FINISHED" \in flags /\ flags' # {}) =>
               /\ UNCHANGED <<flags, configuration, history, invocations, running, internalQueue>>
               /\ Len(externalQueue') >= Len(externalQueue)
<1>1. ExternalTypeOK /\ [Next]_vars => [Stays]_vars
  <2> SUFFICES ASSUME ExternalTypeOK, Next, "FINISHED" \in flags, flags' # {}
               PROVE  /\ UNCHANGED <<flags, configuration, history, invocations, running, internalQueue>>
                      /\ Len(externalQueue') >= Len(externalQueue)
    OBVIOUS
  <2>1. Len(externalQueue) \in Nat
    BY DEF ExternalTypeOK
  <2>2. CASE StepInitialize \/ StepFinished
    BY <2>1, <2>2 DEF StepInitialize, StepFinished, stepper
  <2>3. ~Running
    BY DEF Running
  <2>4. ~(StepEnterInitial \/ StepSpontaneous \/ StepInternal \/ StepStable \/ StepExternal
          \/ StepCancelled \/ StepIdle \/ StepComplete)
    BY <2>3 DEF StepEnterInitial, StepSpontaneous, StepInternal, StepStable, StepExternal,
           StepCancelled, StepIdle, StepComplete, Quiescent
  <2>5. CASE Cancel
    BY <2>1, <2>5 DEF Cancel, ExternalTypeOK
  <2>6. CASE \E name \in ExternalEvents : Receive(name)
    BY <2>1, <2>6 DEF Receive, ExternalTypeOK, stepper
  <2>7. ~Reset
    BY DEF Reset
  <2>8. QED
    BY <2>2, <2>4, <2>5, <2>6, <2>7 DEF Next, Step
<1>2. QED
  BY <1>1, ExternalTyped, PTL DEF Spec, FinishedIsFinal

-----------------------------------------------------------------------------
(* Configurations. *)

(***************************************************************************)
(* The strengthening of AlwaysLegal: a stepper that was entered stays      *)
(* INITIALIZED until it is reset, one that was not has nothing active, and *)
(* what is remembered for a history whose parent is not active can be      *)
(* entered in its place.                                                   *)
(***************************************************************************)
LegalInv ==
    /\ flags # {} => "INITIALIZED" \in flags /\ LegalConfiguration(configuration)
    /\ flags = {} => configuration = {}
    /\ HistoriesWhole(configuration, history)

(***************************************************************************)
(* Priming the two predicates of LegalInv.                                 *)
(***************************************************************************)
LEMMA LegalPrimed ==
    /\ LegalConfiguration(configuration)' <=> LegalConfiguration(configuration')
    /\ HistoriesWhole(configuration, history)' <=> HistoriesWhole(configuration', history')
  BY DEF LegalConfiguration, HistoriesWhole, Whole

(***************************************************************************)
(* Processing an event in a legal configuration leads to a legal one.      *)
(***************************************************************************)
LEMMA ProcessEventLegal ==
    ASSUME WellFormedChart, LegalInv, flags # {}, NEW event, NEW queue, ProcessEvent(event, queue)
    PROVE  /\ "INITIALIZED" \in flags'
           /\ LegalConfiguration(configuration')
           /\ HistoriesWhole(configuration', history')
<1>1. PICK cond \in [{t \in TransIdx : Trans[t].guarded} -> {"true", "false", "error"}] :
         LET selected == SelectTransitions(configuration, event, cond)
             exit == ExitedStates(selected.taken, configuration)
         IN \/ /\ flags' = flags \ {"STABLE", "SPONTANEOUS"}
               /\ configuration' = configuration /\ history' = history
            \/ TakeMicrostep(TargetSet(selected.taken), selected.taken, exit,
                             RememberHistory(history, configuration, exit),
                             queue \o selected.errors,
                             (flags \ {"STABLE"}) \cup {"SPONTANEOUS"})
  BY DEF ProcessEvent, TakeSelected
<1> DEFINE taken == SelectTransitions(configuration, event, cond).taken
           errors == SelectTransitions(configuration, event, cond).errors
           exit == ExitedStates(taken, configuration)
           hist == RememberHistory(history, configuration, exit)
<1>2. CASE /\ flags' = flags \ {"STABLE", "SPONTANEOUS"}
           /\ configuration' = configuration /\ history' = history
  BY <1>2 DEF LegalInv
<1>3. CASE TakeMicrostep(TargetSet(taken), taken, exit, hist, queue \o errors,
                         (flags \ {"STABLE"}) \cup {"SPONTANEOUS"})
  <2> DEFINE new == Microstep(TargetSet(taken), taken, configuration, hist, exit,
                              initializedData).config
  <2>1. LegalConfiguration(configuration) /\ HistoriesWhole(configuration, history)
    BY DEF LegalInv
  <2>2. LegalConfiguration(new) /\ HistoriesWhole(new, hist)
    BY <2>1, MicrostepLegal
  <2> HIDE DEF taken, errors, exit, hist
  <2>3. configuration' = new /\ history' = hist
    BY <1>3 DEF TakeMicrostep, Perform
  <2>4. "INITIALIZED" \in flags'
    BY <1>3, TakeMicrostepFlags DEF LegalInv
  <2>5. QED
    BY <2>2, <2>3, <2>4
<1>4. QED
  BY <1>1, <1>2, <1>3

(***************************************************************************)
(* LegalInv is inductive for every well-formed chart.                      *)
(***************************************************************************)
LEMMA LegalInvariant ==
    ASSUME WellFormedChart
    PROVE  Spec => []LegalInv
<1>1. Init => LegalInv
  BY DEF Init, LegalInv, HistoriesWhole
<1>2. LegalInv /\ [Next]_vars => LegalInv'
  <2> SUFFICES ASSUME LegalInv, [Next]_vars
               PROVE  LegalInv'
    OBVIOUS
  <2>1. CASE UNCHANGED <<flags, configuration, history>>
    BY <2>1, LegalPrimed DEF LegalInv
  <2>2. CASE UNCHANGED <<configuration, history>> /\ flags # {} /\ flags \subseteq flags'
    BY <2>2, LegalPrimed DEF LegalInv
  <2>3. CASE StepEnterInitial
    <3>1. /\ TakeMicrostep(Completion[0], {}, {}, history, internalQueue, {"SPONTANEOUS", "INITIALIZED"})
          /\ configuration = {}
      BY <2>3 DEF StepEnterInitial, LegalInv
    <3>2. /\ configuration' = Microstep(Completion[0], {}, {}, history, {}, initializedData).config
          /\ history' = history
      BY <3>1 DEF TakeMicrostep, Perform
    <3>3. LegalConfiguration(configuration') /\ HistoriesWhole(configuration', history')
      <4>1. HistoriesWhole({}, history)
        BY <3>1 DEF LegalInv
      <4>2. QED
        BY <3>2, <4>1, EnterInitialLegal
    <3>4. "INITIALIZED" \in flags'
      BY <3>1, TakeMicrostepFlags
    <3>5. QED
      BY <3>3, <3>4, LegalPrimed DEF LegalInv
  <2>4. CASE StepSpontaneous \/ StepInternal \/ StepExternal
    <3>1. flags # {} /\ \E event, queue : ProcessEvent(event, queue)
      BY <2>4 DEF StepSpontaneous, StepInternal, StepExternal, Quiescent
    <3>2. /\ "INITIALIZED" \in flags'
          /\ LegalConfiguration(configuration')
          /\ HistoriesWhole(configuration', history')
      BY <3>1, ProcessEventLegal
    <3>3. QED
      BY <3>2, LegalPrimed DEF LegalInv
  <2>5. CASE Reset
    <3>1. HistoriesWhole({}, {})
      BY DEF HistoriesWhole
    <3>2. flags' = {} /\ configuration' = {} /\ history' = {}
      BY <2>5 DEF Reset
    <3>3. QED
      BY <3>1, <3>2, LegalPrimed DEF LegalInv
  <2>6. StepInitialize \/ StepFinished \/ StepIdle \/ Cancel \/ UNCHANGED vars
           \/ (\E name \in ExternalEvents : Receive(name))
           => UNCHANGED <<flags, configuration, history>>
    BY DEF StepInitialize, StepFinished, StepIdle, Cancel, Receive, stepper, vars
  <2>7. StepComplete \/ StepStable \/ StepCancelled
           => UNCHANGED <<configuration, history>> /\ flags # {} /\ flags \subseteq flags'
    BY DEF StepComplete, StepStable, StepCancelled, Quiescent
  <2>8. QED
    BY <2>1, <2>2, <2>3, <2>4, <2>5, <2>6, <2>7 DEF Next, Step
<1>3. QED
  BY <1>1, <1>2, PTL DEF Spec

(***************************************************************************)
(* For every well-formed chart, whatever the events, the conditions,       *)
(* cancellations and resets, the stepper is in a legal configuration from  *)
(* its first microstep on.                                                 *)
(***************************************************************************)
THEOREM LegalAlways ==
    ASSUME WellFormedChart
    PROVE  Spec => []AlwaysLegal
<1>1. LegalInv => AlwaysLegal
  BY DEF LegalInv, AlwaysLegal
<1>2. QED
  BY <1>1, LegalInvariant, PTL

(***************************************************************************)
(* For every well-formed chart, what the histories of an inactive state    *)
(* remember is nothing or states that can be entered together, although    *)
(* REMEMBER_HISTORY keeps what all of them remember in one set.            *)
(***************************************************************************)
THEOREM HistoryLegalAlways ==
    ASSUME WellFormedChart
    PROVE  Spec => []HistoryIsLegal
<1>1. LegalInv => HistoryIsLegal
  <2> SUFFICES ASSUME LegalInv, NEW h \in Histories,
                      Parent[h] \notin configuration, Completion[h] \cap history # {},
                      NEW s \in (Completion[h] \cap history) \cup {Parent[h]}
               PROVE  /\ s # Parent[h] => Parent[s] \in (Completion[h] \cap history) \cup {Parent[h]}
                      /\ (s = Parent[h] \/ Type[h] = "deep") =>
                            /\ Type[s] = "compound" =>
                                  Cardinality(ChildStates[s] \cap (Completion[h] \cap history)) = 1
                            /\ Type[s] = "parallel" =>
                                  ChildStates[s] \subseteq Completion[h] \cap history
    BY DEF HistoryIsLegal
  <2> DEFINE p == Parent[h]
             known == Completion[h] \cap history
  <2>1. Whole(h, known)
    BY DEF LegalInv, HistoriesWhole
  <2>2. p \in States
    BY HistoryAbout
  <2> HIDE DEF known
  <2>3. known \subseteq Descendants[p] /\ known \subseteq States
    BY <2>1 DEF Whole, ProperStates
  <2>4. ASSUME s # p
        PROVE  Parent[s] \in known \cup {p}
    <3>1. s \in known /\ s \in States /\ s \in Descendants[p]
      BY <2>3, <2>4 DEF known
    <3>2. s # 0
      <4>1. p < s /\ p \in Nat /\ s \in Nat
        BY <2>2, <3>1, Nested, Tables
      <4>2. QED
        BY <4>1
    <3>3. Parent[s] \in States /\ s \in Descendants[Parent[s]]
          /\ (p = Parent[s] \/ Parent[s] \in Descendants[p])
      BY <2>2, <3>1, <3>2, ParentInnermost
    <3>4. Parent[s] \in Ancestors[s]
      BY <3>1, <3>3, Tables
    <3>5. QED
      BY <2>1, <3>1, <3>3, <3>4 DEF Whole
  <2>5. ASSUME s = p \/ Type[h] = "deep", Type[s] = "compound"
        PROVE  Cardinality(ChildStates[s] \cap known) = 1
    <3>1. s \in States /\ s \in known \cup {p}
      BY <2>2, <2>3 DEF known
    <3>2. ChildStates[s] \cap known # {}
      BY <2>1, <2>5, <3>1 DEF Whole
    <3>3. PICK x : x \in ChildStates[s] \cap known
      BY <3>2
    <3>4. \A y \in ChildStates[s] \cap known : y = x
      <4>1. ChildStates[s] \subseteq Children[s]
        BY <3>1, Tables
      <4>2. QED
        BY <2>1, <2>5, <3>1, <3>3, <4>1 DEF Whole
    <3>5. ChildStates[s] \cap known = {x}
      BY <3>3, <3>4
    <3>6. QED
      BY <3>5, FS_Singleton
  <2>6. ASSUME s = p \/ Type[h] = "deep", Type[s] = "parallel"
        PROVE  ChildStates[s] \subseteq known
    <3>1. s \in known \cup {p}
      BY DEF known
    <3>2. QED
      BY <2>1, <2>6, <3>1 DEF Whole
  <2>7. QED
    BY <2>4, <2>5, <2>6 DEF known
<1>2. QED
  BY <1>1, LegalInvariant, PTL

-----------------------------------------------------------------------------
(* What the linter calls unreachable. *)

(***************************************************************************)
(* Only states that getReachableStates found are active.                   *)
(***************************************************************************)
OnlyReachable == configuration \subseteq GetReachableStates

(***************************************************************************)
(* The strengthening of OnlyReachable: no others are remembered either.    *)
(***************************************************************************)
ReachInv == OnlyReachable /\ history \subseteq GetReachableStates

(***************************************************************************)
(* Processing an event enters and remembers no other state.                *)
(***************************************************************************)
LEMMA ProcessEventReached ==
    ASSUME WellFormedChart, RegionsExist, StepperTypeOK, ReachInv,
           NEW event, NEW queue, ProcessEvent(event, queue)
    PROVE  configuration' \subseteq GetReachableStates /\ history' \subseteq GetReachableStates
<1>1. PICK cond \in [{t \in TransIdx : Trans[t].guarded} -> {"true", "false", "error"}] :
         LET selected == SelectTransitions(configuration, event, cond)
             exit == ExitedStates(selected.taken, configuration)
         IN \/ UNCHANGED <<configuration, history>>
            \/ TakeMicrostep(TargetSet(selected.taken), selected.taken, exit,
                             RememberHistory(history, configuration, exit),
                             queue \o selected.errors,
                             (flags \ {"STABLE"}) \cup {"SPONTANEOUS"})
  BY DEF ProcessEvent, TakeSelected
<1> DEFINE taken == SelectTransitions(configuration, event, cond).taken
           errors == SelectTransitions(configuration, event, cond).errors
           exit == ExitedStates(taken, configuration)
           hist == RememberHistory(history, configuration, exit)
           new == Microstep(TargetSet(taken), taken, configuration, hist, exit, initializedData).config
<1>2. CASE UNCHANGED <<configuration, history>>
  BY <1>2 DEF ReachInv, OnlyReachable
<1>3. CASE TakeMicrostep(TargetSet(taken), taken, exit, hist, queue \o errors,
                         (flags \ {"STABLE"}) \cup {"SPONTANEOUS"})
  <2>1. /\ configuration \subseteq GetReachableStates \cap ProperStates
        /\ history \subseteq GetReachableStates \cap ProperStates
    BY DEF ReachInv, OnlyReachable, StepperTypeOK
  <2>2. new \subseteq GetReachableStates /\ hist \subseteq GetReachableStates
    BY <2>1, UnreachableNotEntered
  <2> HIDE DEF taken, errors, exit, hist
  <2>3. configuration' = new /\ history' = hist
    BY <1>3 DEF TakeMicrostep, Perform
  <2>4. QED
    BY <2>2, <2>3
<1>4. QED
  BY <1>1, <1>2, <1>3

(***************************************************************************)
(* For every well-formed chart whose <parallel>s have regions, whatever    *)
(* the events, the conditions, cancellations and resets, a state of which  *)
(* the linter says that it is unreachable is never active.                 *)
(***************************************************************************)
THEOREM UnreachableNeverActive ==
    ASSUME WellFormedChart, RegionsExist
    PROVE  Spec => []OnlyReachable
<1>1. Init => ReachInv
  BY DEF Init, ReachInv, OnlyReachable
<1>2. LegalInv /\ StepperTypeOK /\ ReachInv /\ [Next]_vars => ReachInv'
  <2> SUFFICES ASSUME LegalInv, StepperTypeOK, ReachInv, [Next]_vars
               PROVE  ReachInv'
    OBVIOUS
  <2>1. CASE UNCHANGED <<configuration, history>>
    BY <2>1 DEF ReachInv, OnlyReachable
  <2>2. CASE StepEnterInitial
    <3>1. /\ TakeMicrostep(Completion[0], {}, {}, history, internalQueue, {"SPONTANEOUS", "INITIALIZED"})
          /\ configuration = {}
      BY <2>2 DEF StepEnterInitial, LegalInv
    <3>2. /\ configuration' = Microstep(Completion[0], {}, {}, history, {}, initializedData).config
          /\ history' = history
      BY <3>1 DEF TakeMicrostep, Perform
    <3>3. history \subseteq GetReachableStates \cap ProperStates
      BY DEF ReachInv, StepperTypeOK
    <3>4. configuration' \subseteq GetReachableStates
      BY <3>2, <3>3, UnreachableNotEntered
    <3>5. QED
      BY <3>2, <3>3, <3>4 DEF ReachInv, OnlyReachable
  <2>3. CASE StepSpontaneous \/ StepInternal \/ StepExternal
    <3>1. \E event, queue : ProcessEvent(event, queue)
      BY <2>3 DEF StepSpontaneous, StepInternal, StepExternal
    <3>2. QED
      BY <3>1, ProcessEventReached DEF ReachInv, OnlyReachable
  <2>4. CASE Reset
    BY <2>4 DEF Reset, ReachInv, OnlyReachable
  <2>5. StepInitialize \/ StepFinished \/ StepComplete \/ StepStable \/ StepCancelled \/ StepIdle
           \/ Cancel \/ (\E name \in ExternalEvents : Receive(name)) \/ UNCHANGED vars
           => UNCHANGED <<configuration, history>>
    BY DEF StepInitialize, StepFinished, StepComplete, StepStable, StepCancelled, StepIdle,
           Cancel, Receive, stepper, vars
  <2>6. QED
    BY <2>1, <2>2, <2>3, <2>4, <2>5 DEF Next, Step
<1>3. ReachInv => OnlyReachable
  BY DEF ReachInv
<1>4. QED
  BY <1>1, <1>2, <1>3, StepperTyped, LegalInvariant, PTL DEF Spec

-----------------------------------------------------------------------------
(* Done events. *)

(***************************************************************************)
(* Every done event is raised as often as it is owed.                      *)
(***************************************************************************)
DoneExactly(raised, entered, config) ==
    \A s \in States \ {0} : Count(raised, DoneEvent(s)) = DoneOwed(s, entered, config)

(***************************************************************************)
(* This is DoneEventsExact, of this state and of the next.                 *)
(***************************************************************************)
LEMMA DoneExactlyMeans ==
    /\ DoneEventsExact <=> DoneExactly(last.raised, last.entered, configuration)
    /\ DoneEventsExact' <=> DoneExactly(last'.raised, last'.entered, configuration')
<1>1. DoneEventsExact <=> DoneExactly(last.raised, last.entered, configuration)
  BY DEF DoneEventsExact, DoneExactly, DoneOwed, TimesRaised, Count, Positions
<1>2. DoneEventsExact' <=> DoneExactly(last'.raised, last'.entered, configuration')
  BY DEF DoneEventsExact, DoneExactly, DoneOwed, TimesRaised, Count, Positions
<1>3. QED
  BY <1>1, <1>2

(***************************************************************************)
(* A call without a microstep owes no done event and raises none.          *)
(***************************************************************************)
LEMMA NothingOwed ==
    ASSUME NEW config
    PROVE  DoneExactly(<<>>, {}, config)
<1> SUFFICES ASSUME NEW s \in States \ {0}
             PROVE  Count(<<>>, DoneEvent(s)) = DoneOwed(s, {}, config)
  BY DEF DoneExactly
<1>1. Count(<<>>, DoneEvent(s)) = 0
  BY CountSmall
<1>2. {f \in {} : Type[f] = "final" /\ Parent[f] = s} = {}
  OBVIOUS
<1>3. Cardinality({f \in {} : Type[f] = "final" /\ Parent[f] = s}) = 0
  BY <1>2, FS_EmptySet
<1>4. DoneOwed(s, {}, config) = 0
  BY <1>3 DEF DoneOwed
<1>5. QED
  BY <1>1, <1>4

(***************************************************************************)
(* A microstep that ends in a legal configuration raises what it owes.     *)
(***************************************************************************)
LEMMA MicrostepOwed ==
    ASSUME FinalsInCompounds, ContentNotDone,
           NEW targets, NEW taken, NEW config, NEW hist, NEW exit, NEW init,
           LegalConfiguration(Microstep(targets, taken, config, hist, exit, init).config)
    PROVE  LET m == Microstep(targets, taken, config, hist, exit, init)
           IN DoneExactly(m.raised, m.entered, m.config)
<1> DEFINE e == EstablishEntrySet(targets, taken, config, hist, exit)
           kept == config \ exit
           entered == (e.entry \ kept) \cap ProperStates
           m == Microstep(targets, taken, config, hist, exit, init)
           L == kept \cup entered
<1>1. m = MoveTo(kept, entered, e.taken, exit, init)
  BY DEF Microstep
<1>2. m.config = L /\ m.entered = entered
  BY <1>1 DEF MoveTo
<1>3. kept \cap entered = {} /\ LegalConfiguration(kept \cup entered)
  BY <1>2
<1> HIDE DEF m, kept, entered, e
<1> SUFFICES ASSUME NEW s \in States \ {0}
             PROVE  Count(m.raised, DoneEvent(s)) = DoneOwed(s, entered, L)
  BY <1>2 DEF DoneExactly, m
<1>4. Count(MoveTo(kept, entered, e.taken, exit, init).raised, DoneEvent(s)) = DoneOwed(s, entered, L)
  BY <1>3, MoveRaisesDone
<1>5. QED
  BY <1>1, <1>4

(***************************************************************************)
(* The done events of a microstep are those the W3C algorithm asks for,    *)
(* for every well-formed chart with each <final> in a compound state and   *)
(* content that raises no done events by name, whatever the events,        *)
(* conditions, cancellations and resets (ENTER_STATES: the removal of      *)
(* children and the climb through the parallel ancestors).                 *)
(***************************************************************************)
THEOREM DoneEventsAlways ==
    ASSUME WellFormedChart, FinalsInCompounds, ContentNotDone
    PROVE  Spec => []DoneEventsExact
<1>1. ASSUME last' = NoMicrostep
      PROVE  DoneEventsExact'
  <2>1. last'.raised = <<>> /\ last'.entered = {}
    BY <1>1 DEF NoMicrostep
  <2>2. QED
    BY <2>1, NothingOwed, DoneExactlyMeans
<1>2. ASSUME NEW targets, NEW taken, NEW exit, NEW hist, NEW queue, NEW before,
             TakeMicrostep(targets, taken, exit, hist, queue, before),
             LegalConfiguration(configuration')
      PROVE  DoneEventsExact'
  <2> DEFINE m == Microstep(targets, taken, configuration, hist, exit, initializedData)
  <2>1. configuration' = m.config /\ last'.raised = m.raised /\ last'.entered = m.entered
    <3> HIDE DEF m
    <3>1. Perform(m, exit, hist, queue, before)
      BY <1>2 DEF TakeMicrostep, m
    <3>2. QED
      BY <3>1 DEF Perform
  <2>2. DoneExactly(m.raised, m.entered, m.config)
    BY <1>2, <2>1, MicrostepOwed
  <2>3. QED
    BY <2>1, <2>2, DoneExactlyMeans
<1>3. ASSUME LegalInv, flags # {}, NEW event, NEW queue, ProcessEvent(event, queue)
      PROVE  DoneEventsExact'
  <2>1. LegalConfiguration(configuration')
    BY <1>3, ProcessEventLegal
  <2>2. \/ last' = NoMicrostep
        \/ \E targets, taken, exit, hist, rest, before :
              TakeMicrostep(targets, taken, exit, hist, rest, before)
    BY <1>3 DEF ProcessEvent, TakeSelected
  <2>3. QED
    BY <1>1, <1>2, <2>1, <2>2
<1>4. Init => DoneEventsExact
  <2> SUFFICES ASSUME Init
               PROVE  DoneEventsExact
    OBVIOUS
  <2>1. last.raised = <<>> /\ last.entered = {}
    BY DEF Init, NoMicrostep
  <2>2. QED
    BY <2>1, NothingOwed, DoneExactlyMeans
<1>5. LegalInv /\ LegalInv' /\ DoneEventsExact /\ [Next]_vars => DoneEventsExact'
  <2> SUFFICES ASSUME LegalInv, LegalInv', DoneEventsExact, [Next]_vars
               PROVE  DoneEventsExact'
    OBVIOUS
  <2>1. CASE UNCHANGED vars
    <3>1. last' = last /\ configuration' = configuration
      BY <2>1 DEF vars, stepper
    <3>2. QED
      BY <3>1, DoneExactlyMeans
  <2>2. CASE StepEnterInitial
    <3>1. TakeMicrostep(Completion[0], {}, {}, history, internalQueue, {"SPONTANEOUS", "INITIALIZED"})
      BY <2>2 DEF StepEnterInitial
    <3>2. flags' # {}
      BY <3>1, TakeMicrostepFlags
    <3>3. LegalConfiguration(configuration')
      BY <3>2, LegalPrimed DEF LegalInv
    <3>4. QED
      BY <1>2, <3>1, <3>3
  <2>3. CASE StepSpontaneous \/ StepInternal \/ StepExternal
    <3>1. flags # {} /\ \E event, queue : ProcessEvent(event, queue)
      BY <2>3 DEF StepSpontaneous, StepInternal, StepExternal, Quiescent
    <3>2. QED
      BY <1>3, <3>1
  <2>4. \/ StepInitialize \/ StepFinished \/ StepComplete \/ StepStable \/ StepCancelled \/ StepIdle
        \/ Cancel \/ Reset \/ (\E name \in ExternalEvents : Receive(name))
        => last' = NoMicrostep
    BY DEF StepInitialize, StepFinished, StepComplete, StepStable, StepCancelled, StepIdle,
           Cancel, Reset, Receive
  <2>5. QED
    BY <1>1, <2>1, <2>2, <2>3, <2>4 DEF Next, Step
<1>6. QED
  BY <1>4, <1>5, LegalInvariant, PTL DEF Spec

-----------------------------------------------------------------------------
(* Histories. *)

(***************************************************************************)
(* What _history holds for a history whose parent is not active is what    *)
(* the record says was left; before the first microstep it is empty.       *)
(***************************************************************************)
RecordInv ==
    /\ flags = {} => history = {}
    /\ \A h \in Histories :
          Parent[h] \notin configuration => remembered[h] = history \cap Completion[h]

(***************************************************************************)
(* hist, which a microstep within the frame d is given as _history, holds  *)
(* what the step leaves, and otherwise what the record says was left.      *)
(***************************************************************************)
AgreesWithRecord(hist, d) ==
    \A h \in Histories : Parent[h] \notin configuration \ d =>
       hist \cap Completion[h] =
          IF Parent[h] \in configuration \cap d THEN configuration \cap Completion[h]
          ELSE remembered[h]

(***************************************************************************)
(* A microstep within a frame restores the histories it enters, when what  *)
(* it is given as remembered agrees with the record.                       *)
(***************************************************************************)
LEMMA MicrostepRestores ==
    ASSUME WellFormedChart, NEW targets \in SUBSET (States \ {0}), NEW taken \in SUBSET TransIdx,
           \A t \in taken : Trans[t].target \subseteq targets,
           NEW d, NEW hist, Frame(configuration, d), Remembered(configuration, d, hist),
           EntryInv(0, WithAncestors(targets), configuration, d),
           targets # {} \/ 0 \in configuration \ d,
           AgreesWithRecord(hist, d),
           NEW queue, NEW before, before # {},
           TakeMicrostep(targets, taken, configuration \cap d, hist, queue, before),
           remembered' = RememberedNext
    PROVE  RecordInv' /\ RestoresHistories
<1> DEFINE m == Microstep(targets, taken, configuration, hist, configuration \cap d, initializedData)
<1>1. LegalWithin(m.config, targets, configuration, d)
  BY FrameStepLegal
<1>0. ASSUME NEW h \in Histories
      PROVE  (\E t \in m.taken : Trans[t].target = {h}) /\ Parent[h] \in m.entered =>
                IF hist \cap Completion[h] # {}
                THEN m.config \cap Completion[h] = hist \cap Completion[h]
                ELSE \A t \in DefaultTransitions(h) : Trans[t].target \subseteq m.config
  BY HistoryEntered
<1>2. m.entered \cap (configuration \ (configuration \cap d)) = {}
  BY DEF Microstep, MoveTo
<1>3. Perform(m, configuration \cap d, hist, queue, before)
  BY DEF TakeMicrostep
<1> HIDE DEF m
<1>4. /\ configuration' = m.config /\ history' = hist /\ flags' # {}
      /\ last'.exited = configuration \cap d /\ last'.entered = m.entered /\ last'.taken = m.taken
  BY <1>3 DEF Perform
<1>5. ASSUME NEW h \in Histories, Parent[h] \notin configuration \ d
      PROVE  remembered'[h] = hist \cap Completion[h]
  <2>1. remembered'[h] = IF Parent[h] \in configuration \cap d
                         THEN configuration \cap Completion[h] ELSE remembered[h]
    BY <1>4 DEF RememberedNext
  <2>2. QED
    BY <1>5, <2>1 DEF AgreesWithRecord
<1>6. ASSUME NEW h \in Histories, Parent[h] \notin configuration'
      PROVE  remembered'[h] = history' \cap Completion[h]
  <2>1. Parent[h] \notin configuration \ d
    BY <1>1, <1>4, <1>6 DEF LegalWithin
  <2>2. QED
    BY <1>4, <1>5, <2>1
<1>7. RecordInv'
  BY <1>4, <1>6 DEF RecordInv
<1>8. ASSUME NEW h \in Histories, NEW t \in last'.taken, Trans[t].target = {h},
             Parent[h] \in last'.entered
      PROVE  IF remembered'[h] # {}
             THEN configuration' \cap Completion[h] = remembered'[h]
             ELSE \A u \in DefaultTransitions(h) : Trans[u].target \subseteq configuration'
  <2>1. Parent[h] \notin configuration \ d
    BY <1>2, <1>4, <1>8
  <2>2. remembered'[h] = hist \cap Completion[h]
    BY <1>5, <2>1
  <2>3. IF hist \cap Completion[h] # {}
        THEN m.config \cap Completion[h] = hist \cap Completion[h]
        ELSE \A u \in DefaultTransitions(h) : Trans[u].target \subseteq m.config
    BY <1>0, <1>4, <1>8
  <2>4. QED
    BY <1>4, <2>2, <2>3
<1>9. RestoresHistories
  BY <1>8 DEF RestoresHistories
<1>10. QED
  BY <1>7, <1>9

(***************************************************************************)
(* So does a call that takes no microstep and does not start over.         *)
(***************************************************************************)
LEMMA NothingRestored ==
    ASSUME RecordInv, last' = NoMicrostep, UNCHANGED <<configuration, history>>,
           flags # {} => flags' # {}, flags = {} => flags' = {},
           remembered' = RememberedNext
    PROVE  RecordInv' /\ RestoresHistories
<1>1. last'.exited = {} /\ last'.taken = {}
  BY DEF NoMicrostep
<1>2. RestoresHistories
  BY <1>1 DEF RestoresHistories
<1>3. CASE flags = {}
  <2>1. flags' = {} /\ history' = {}
    BY <1>3 DEF RecordInv
  <2>2. \A h \in Histories : remembered'[h] = {}
    BY <2>1 DEF RememberedNext
  <2>3. QED
    BY <1>2, <2>1, <2>2 DEF RecordInv
<1>4. CASE flags # {}
  <2>1. flags' # {}
    BY <1>4
  <2>2. \A h \in Histories : remembered'[h] = remembered[h]
    BY <1>1, <2>1 DEF RememberedNext
  <2>3. QED
    BY <1>2, <2>1, <2>2 DEF RecordInv
<1>5. QED
  BY <1>3, <1>4

(***************************************************************************)
(* Processing an event keeps the record and restores the histories that    *)
(* are entered.                                                            *)
(***************************************************************************)
LEMMA ProcessEventRestores ==
    ASSUME WellFormedChart, HistoriesApart, LegalInv, RecordInv, flags # {},
           NEW event, NEW queue, ProcessEvent(event, queue), remembered' = RememberedNext
    PROVE  RecordInv' /\ RestoresHistories
<1>1. PICK cond \in [{t \in TransIdx : Trans[t].guarded} -> {"true", "false", "error"}] :
         LET selected == SelectTransitions(configuration, event, cond)
             exit == ExitedStates(selected.taken, configuration)
         IN \/ /\ flags' = flags \ {"STABLE", "SPONTANEOUS"}
               /\ last' = NoMicrostep
               /\ UNCHANGED <<configuration, history>>
            \/ TakeMicrostep(TargetSet(selected.taken), selected.taken, exit,
                             RememberHistory(history, configuration, exit),
                             queue \o selected.errors,
                             (flags \ {"STABLE"}) \cup {"SPONTANEOUS"})
  BY DEF ProcessEvent, TakeSelected
<1> DEFINE taken == SelectTransitions(configuration, event, cond).taken
           errors == SelectTransitions(configuration, event, cond).errors
           exit == ExitedStates(taken, configuration)
           hist == RememberHistory(history, configuration, exit)
           before == (flags \ {"STABLE"}) \cup {"SPONTANEOUS"}
           d == Left(taken)
           set == TargetSet(taken)
<1>2. CASE /\ flags' = flags \ {"STABLE", "SPONTANEOUS"}
           /\ last' = NoMicrostep
           /\ UNCHANGED <<configuration, history>>
  <2>1. flags' # {}
    BY <1>2 DEF LegalInv
  <2>2. QED
    BY <1>2, <2>1, NothingRestored
<1>3. CASE TakeMicrostep(TargetSet(taken), taken, exit, hist, queue \o errors, before)
  <2>1. LegalConfiguration(configuration) /\ HistoriesWhole(configuration, history)
    BY DEF LegalInv
  <2>2. Selected(taken, configuration)
    BY TakenIsSelected
  <2> HIDE DEF taken, errors
  <2>3. /\ Frame(configuration, d)
        /\ EntryInv(0, WithAncestors(set), configuration, d)
        /\ exit = configuration \cap d
        /\ set \in SUBSET (States \ {0})
    BY <2>1, <2>2, SelectedFrame
  <2>4. set # {} \/ 0 \in configuration \ d
    <3>1. ASSUME set = {}
          PROVE  d = {}
      BY <3>1 DEF TargetSet, Left, Moving
    <3>2. QED
      BY <2>1, <3>1 DEF LegalConfiguration
  <2>5. taken \in SUBSET TransIdx /\ \A t \in taken : Trans[t].target \subseteq set
    BY <2>2 DEF Selected, TargetSet
  <2> HIDE DEF d, set
  <2>6. Remembered(configuration, d, hist)
    BY <2>1, <2>3, RememberWhole
  <2>7. ASSUME NEW h \in Histories, Parent[h] \notin configuration \ d
        PROVE  hist \cap Completion[h] =
                  IF Parent[h] \in configuration \cap d THEN configuration \cap Completion[h]
                  ELSE remembered[h]
    <3>1. history \subseteq ProperStates
      BY <2>1 DEF HistoriesWhole
    <3>2. hist \cap Completion[h] =
             IF Parent[h] \in configuration \cap d THEN configuration \cap Completion[h]
             ELSE history \cap Completion[h]
      BY <2>1, <2>3, <2>7, <3>1, RememberedFor
    <3> HIDE DEF hist
    <3>3. Parent[h] \notin configuration \cap d => Parent[h] \notin configuration
      BY <2>7
    <3>4. Parent[h] \notin configuration => remembered[h] = history \cap Completion[h]
      BY DEF RecordInv
    <3>5. QED
      BY <3>2, <3>3, <3>4
  <2>8. TakeMicrostep(set, taken, configuration \cap d, hist, queue \o errors, before)
    BY <1>3, <2>3 DEF set
  <2>9. before # {}
    OBVIOUS
  <2> HIDE DEF hist, before
  <2>10. AgreesWithRecord(hist, d)
    BY <2>7 DEF AgreesWithRecord
  <2>11. QED
    BY <2>3, <2>4, <2>5, <2>6, <2>8, <2>9, <2>10, MicrostepRestores
<1>4. QED
  BY <1>1, <1>2, <1>3

(***************************************************************************)
(* A state that is entered through its history comes back as it was left,  *)
(* for every well-formed chart without a history in the scope of a deep    *)
(* one, whatever the events, conditions, cancellations and resets          *)
(* (REMEMBER_HISTORY and the history cases of ESTABLISH_ENTRYSET).         *)
(***************************************************************************)
THEOREM HistoryComesBack ==
    ASSUME WellFormedChart, HistoriesApart
    PROVE  HistorySpec => HistoryRestored
<1>1. Init /\ remembered = RememberedInit => RecordInv
  BY DEF Init, RememberedInit, RecordInv
<1>2. LegalInv /\ RecordInv /\ Next /\ remembered' = RememberedNext => RecordInv' /\ RestoresHistories
  <2> SUFFICES ASSUME LegalInv, RecordInv, Next, remembered' = RememberedNext
               PROVE  RecordInv' /\ RestoresHistories
    OBVIOUS
  <2>1. CASE StepEnterInitial
    <3> DEFINE set == Completion[0]
               before == {"SPONTANEOUS", "INITIALIZED"}
    <3>1. /\ TakeMicrostep(set, {}, {}, history, internalQueue, before)
          /\ configuration = {} /\ history = {}
      BY <2>1 DEF StepEnterInitial, LegalInv, RecordInv
    <3>2. /\ Frame(configuration, States)
          /\ EntryInv(0, WithAncestors(set), configuration, States)
          /\ set \in SUBSET (States \ {0})
          /\ set # {}
      BY <3>1, InitialFrame
    <3>3. Remembered(configuration, States, history)
      BY <3>1 DEF Remembered
    <3>4. AgreesWithRecord(history, States)
      BY <3>1 DEF RecordInv, AgreesWithRecord
    <3>5. before # {} /\ {} \in SUBSET TransIdx /\ configuration \cap States = {}
          /\ \A t \in {} : Trans[t].target \subseteq set
      BY <3>1
    <3> HIDE DEF set, before
    <3>6. TakeMicrostep(set, {}, configuration \cap States, history, internalQueue, before)
      BY <3>1, <3>5
    <3>7. QED
      BY <3>2, <3>3, <3>4, <3>5, <3>6, MicrostepRestores
  <2>2. CASE StepSpontaneous \/ StepInternal \/ StepExternal
    <3>1. flags # {} /\ \E event, queue : ProcessEvent(event, queue)
      BY <2>2 DEF StepSpontaneous, StepInternal, StepExternal, Quiescent
    <3>2. QED
      BY <3>1, ProcessEventRestores
  <2>3. CASE Reset
    <3>1. flags' = {} /\ history' = {} /\ last'.taken = {}
      BY <2>3 DEF Reset, NoMicrostep
    <3>2. \A h \in Histories : remembered'[h] = {}
      BY <3>1 DEF RememberedNext
    <3>3. QED
      BY <3>1, <3>2 DEF RecordInv, RestoresHistories
  <2>4. \/ StepInitialize \/ StepFinished \/ StepComplete \/ StepStable \/ StepCancelled \/ StepIdle
        \/ Cancel \/ (\E name \in ExternalEvents : Receive(name))
        => /\ last' = NoMicrostep
           /\ UNCHANGED <<configuration, history>>
           /\ flags # {} => flags' # {}
           /\ flags = {} => flags' = {}
    BY DEF StepInitialize, StepFinished, StepComplete, StepStable, StepCancelled, StepIdle,
           Cancel, Receive, stepper, Quiescent
  <2>5. QED
    BY <2>1, <2>2, <2>3, <2>4, NothingRestored DEF Next, Step
<1>3. RecordInv /\ UNCHANGED <<vars, remembered>> => RecordInv'
  BY DEF RecordInv, vars, stepper
<1>4. [Next /\ remembered' = RememberedNext]_<<vars, remembered>> => [Next]_vars
  BY DEF vars
<1>5. LegalInv /\ RecordInv /\ [Next /\ remembered' = RememberedNext]_<<vars, remembered>>
         => RecordInv' /\ [RestoresHistories]_<<vars, remembered>>
  BY <1>2, <1>3
<1>6. QED
  BY <1>1, <1>4, <1>5, LegalInvariant, PTL DEF HistorySpec, Spec, HistoryRestored

=============================================================================
