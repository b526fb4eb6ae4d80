-------------------------------- MODULE Chart --------------------------------
(***************************************************************************)
(* A state chart as FastMicroStep::init tabulates it, and the pure part of *)
(* FastMicroStep::step: which transitions are selected, which states are   *)
(* left and entered, what the histories remember and which events are      *)
(* raised on the way.                                                      *)
(*                                                                         *)
(* States are numbered in document order, 0 being <scxml>, after           *)
(* resortStates has moved <initial> and <history> to the front of their    *)
(* parent.  Document order is a preorder, so the nesting of the elements   *)
(* is given by one function: the descendants of s are s+1 .. Last[s].      *)
(***************************************************************************)
EXTENDS Integers, Sequences, FiniteSets, FiniteSetsExt

CONSTANTS
    NumStates,    \* number of <scxml>, <state>, <parallel>, <final>, <history>, <initial>
    Last,         \* the last state nested in a state, itself if there is none
    Type,         \* the type init() gives a state
    InitialAttr,  \* the states its attribute "initial" names, {} without one
    Trans,        \* the transitions in the order init() sorts them (post-fix)
    OnData,       \* the internal events raised by initialising the data of a state
    OnEntry,      \* the internal events raised by the <onentry> blocks of a state
    OnExit        \* the internal events raised by the <onexit> blocks of a state

States == 0 .. NumStates - 1
TransIdx == 1 .. Len(Trans)

Pseudo == {"initial", "shallow", "deep"}
Types == Pseudo \cup {"atomic", "final", "parallel", "compound"}

(***************************************************************************)
(* An internal event is a name, and for done.state.<id> the state it is    *)
(* about.  NoEvent is Event(), the one that converts to false.             *)
(***************************************************************************)
Ev(name) == [name |-> name, of |-> 0]
NoEvent == Ev("")
DoneEvent(s) == [name |-> "done.state", of |-> s]
ErrorExecution == Ev("error.execution")

-----------------------------------------------------------------------------
(* The tables of init(). *)

Descendants == [s \in States |-> (s + 1) .. Last[s]]
Ancestors == [s \in States |-> {a \in States : s \in Descendants[a]}]
Parent == [s \in States \ {0} |-> CHOOSE p \in Ancestors[s] : \A a \in Ancestors[s] : a <= p]

IsProper(s) == Type[s] \notin Pseudo
IsHistory(s) == Type[s] \in {"shallow", "deep"}
ProperStates == {s \in States : IsProper(s)}
Histories == {s \in States : IsHistory(s)}
Children == [s \in States |-> {c \in Descendants[s] : Parent[c] = s}]
ChildStates == [s \in States |-> Children[s] \cap ProperStates]

(***************************************************************************)
(* What the chart has to look like: what the parser and resortStates give  *)
(* the stepper.  A <final> and an atomic state have no states of their     *)
(* own, the root is compound, and pseudo states come before their          *)
(* siblings, <initial> before <history>.  The transitions of a state come  *)
(* before those of the states around it.                                   *)
(***************************************************************************)
ASSUME ShapeAssumption ==
    /\ NumStates \in Nat \ {0}
    /\ Last \in [States -> States]
    /\ Last[0] = NumStates - 1
    /\ \A s \in States : Last[s] >= s
    /\ \A r, s \in States : s \in Descendants[r] => Last[s] <= Last[r]

ASSUME TypeAssumption ==
    /\ Type \in [States -> Types]
    /\ Type[0] = "compound"
    /\ InitialAttr \in [States -> SUBSET States]
    /\ \A s \in States : Type[s] \in Pseudo \cup {"atomic", "final"} => Last[s] = s
    /\ \A s \in States : Type[s] = "compound" => ChildStates[s] # {}
    /\ \A p, s \in States \ {0} :
          (Parent[p] = Parent[s] /\ ~IsProper(p) /\ IsProper(s)) => p < s
    /\ \A p, s \in States \ {0} :
          (Parent[p] = Parent[s] /\ Type[p] = "initial" /\ IsHistory(s)) => p < s

ASSUME TransAssumption ==
    /\ Trans \in Seq([source : States \ {0}, target : SUBSET (States \ {0}), internal : BOOLEAN,
                      events : SUBSET [name : STRING, of : Nat],
                      guarded : BOOLEAN, raises : Seq([name : STRING, of : Nat])])
    /\ \A t, u \in TransIdx : t < u => Trans[u].source \notin Descendants[Trans[t].source]
    /\ OnData \in [States -> Seq([name : STRING, of : Nat])]
    /\ OnEntry \in [States -> Seq([name : STRING, of : Nat])]
    /\ OnExit \in [States -> Seq([name : STRING, of : Nat])]

(***************************************************************************)
(* getCompletion: the states entered by default with a state.  For a       *)
(* history it is the mask of what is remembered.                           *)
(***************************************************************************)
HistoryCompletion(h) ==
    {s \in IF Type[h] = "deep" THEN Descendants[Parent[h]] ELSE Children[Parent[h]] : ~IsHistory(s)}

DefaultChild(s) ==
    LET initials == {c \in Children[s] : Type[c] = "initial"}
    IN IF initials # {} THEN {Min(initials)} ELSE {Min(ChildStates[s])}

Completion ==
    [s \in States |->
        CASE IsHistory(s) -> HistoryCompletion(s)
          [] Type[s] = "parallel" -> ChildStates[s]
          [] Type[s] \notin {"shallow", "deep", "parallel"} /\ InitialAttr[s] # {} -> InitialAttr[s]
          [] Type[s] = "compound" /\ InitialAttr[s] = {} -> DefaultChild(s)
          [] OTHER -> {}]

(***************************************************************************)
(* The transition's domain and exit set.  getSourceState takes the         *)
(* transition of an <initial> to start at the state around it.             *)
(***************************************************************************)
IsDefault(t) == ~IsProper(Trans[t].source)

SourceState(t) ==
    IF Type[Trans[t].source] = "initial" THEN Parent[Trans[t].source] ELSE Trans[t].source

FindLCCA(s, targets) ==
    Max({a \in Ancestors[s] : Type[a] = "compound" /\ targets \subseteq Descendants[a]} \cup {0})

TransitionDomain(t) ==
    LET src == SourceState(t)
    IN IF /\ Trans[t].internal
          /\ Type[src] = "compound"
          /\ Trans[t].target \subseteq Descendants[src]
       THEN src
       ELSE FindLCCA(src, Trans[t].target)

ExitSet ==
    [t \in TransIdx |->
        IF Trans[t].target = {} THEN {} ELSE Descendants[TransitionDomain(t)] \cap ProperStates]

\* Mutant: transitions of unrelated states never conflict.
ConflictsOfRelatedStates ==
    [t \in TransIdx |->
        {u \in TransIdx :
            \/ SourceState(t) = SourceState(u)
            \/ SourceState(t) \in Descendants[SourceState(u)]
            \/ SourceState(u) \in Descendants[SourceState(t)]}]

Conflicts ==
    [t \in TransIdx |->
        {u \in TransIdx :
            \/ SourceState(t) = SourceState(u)
            \/ SourceState(t) \in Descendants[SourceState(u)]
            \/ SourceState(u) \in Descendants[SourceState(t)]
            \/ ExitSet[t] \cap ExitSet[u] # {}}]

-----------------------------------------------------------------------------
(* SELECT_TRANSITIONS. *)

(***************************************************************************)
(* The transitions that match an event in a configuration.  Without an     *)
(* event those without an "event" attribute match.                         *)
(***************************************************************************)
Matches(t, config, event) ==
    /\ ~IsDefault(t)
    /\ Trans[t].source \in config
    /\ IF event = NoEvent THEN Trans[t].events = {} ELSE event \in Trans[t].events

(***************************************************************************)
(* One pass over the transitions: each that matches, is not pre-empted by  *)
(* an earlier one and whose condition holds is taken.  cond[t] is what     *)
(* evaluating the condition of t gives: "true", "false", or "error", which *)
(* counts as false and raises error.execution.                             *)
(***************************************************************************)
NothingSelected == [taken |-> {}, errors |-> <<>>]

ConsiderTransition(t, sofar, config, event, cond) ==
    LET free == /\ Matches(t, config, event)
                /\ \A u \in sofar.taken : t \notin Conflicts[u]
    IN CASE free /\ (Trans[t].guarded => cond[t] = "true") ->
              [sofar EXCEPT !.taken = @ \cup {t}]
         [] free /\ Trans[t].guarded /\ cond[t] = "error" ->
              [sofar EXCEPT !.errors = Append(@, ErrorExecution)]
         [] OTHER -> sofar

SelectTransitions(config, event, cond) ==
    LET pass[t \in 0 .. Len(Trans)] ==
            IF t = 0 THEN NothingSelected
            ELSE ConsiderTransition(t, pass[t - 1], config, event, cond)
    IN pass[Len(Trans)]

TargetSet(taken) == UNION {Trans[t].target : t \in taken}
ExitedStates(taken, config) == (UNION {ExitSet[t] : t \in taken}) \cap config

(***************************************************************************)
(* REMEMBER_HISTORY.  All histories share one set of remembered states;    *)
(* each whose parent is left replaces its own part of it.                  *)
(***************************************************************************)
\* Mutant: what a history remembers is added to what it remembered before.
RememberHistoryAdding(history, config, exit) ==
    history \cup UNION {Completion[h] \cap config : h \in {i \in Histories : Parent[i] \in exit}}
\* Mutant: what is remembered is what is active after the exit, not before.
RememberHistoryTooLate(history, config, exit) ==
    LET left == {h \in Histories : Parent[h] \in exit}
    IN (history \ UNION {Completion[h] : h \in left})
         \cup UNION {Completion[h] \cap (config \ {Max(exit)}) : h \in left}

RememberAt(h, sofar, config, exit) ==
    IF IsHistory(h) /\ Parent[h] \in exit
    THEN (sofar \ Completion[h]) \cup (Completion[h] \cap config)
    ELSE sofar

RememberHistory(history, config, exit) ==
    LET pass[i \in 0 .. NumStates] ==
            IF i = 0 THEN history ELSE RememberAt(i - 1, pass[i - 1], config, exit)
    IN pass[NumStates]

-----------------------------------------------------------------------------
(* ESTABLISH_ENTRYSET. *)

DefaultTransitions(s) == {t \in TransIdx : Trans[t].source = s}
WithAncestors(set) == set \cup UNION {Ancestors[s] : s \in set}

(***************************************************************************)
(* The switch over the type of one state of the entry set.  A history in a *)
(* state that is not active takes its default transition when nothing is   *)
(* remembered for it; in every other case what is remembered is entered.   *)
(* An <initial> is replaced by the targets of its transitions.  "children" *)
(* in the code are all descendants, so a compound state is only completed  *)
(* when none of them is entered or kept.                                   *)
(***************************************************************************)
\* Mutant: the default transition is followed whenever the parent is not active.
EnterHistoryByDefault(h, e, config, history) ==
    IF Parent[h] \in config
    THEN [e EXCEPT !.entry = @ \cup (Completion[h] \cap history)]
    ELSE [entry |-> e.entry \cup TargetSet(DefaultTransitions(h)),
          taken |-> e.taken \cup DefaultTransitions(h)]

EnterHistory(h, e, config, history) ==
    IF Completion[h] \cap history # {} \/ Parent[h] \in config
    THEN [e EXCEPT !.entry = @ \cup (Completion[h] \cap history)]
    ELSE IF DefaultTransitions(h) = {} THEN e
    ELSE LET t == Min(DefaultTransitions(h))
             below == {s \in Trans[t].target : s > h}
         IN [entry |-> e.entry \cup Trans[t].target
                          \cup IF Type[h] = "deep" /\ below # {} THEN Ancestors[Min(below)] ELSE {},
             taken |-> e.taken \cup {t}]

EnterInitial(s, e) ==
    IF DefaultTransitions(s) = {} THEN e
    ELSE [entry |-> (e.entry \ {s}) \cup WithAncestors(TargetSet(DefaultTransitions(s))),
          taken |-> e.taken \cup DefaultTransitions(s)]

\* Mutant: states that are kept do not keep a compound state from being completed.
EnterCompoundAlways(s, e, config, exit) ==
    IF e.entry \cap Descendants[s] # {} THEN e ELSE [e EXCEPT !.entry = @ \cup Completion[s]]

EnterCompound(s, e, config, exit) ==
    IF \/ e.entry \cap Descendants[s] # {}
       \/ config \cap Descendants[s] # {} /\ exit \cap Descendants[s] = {}
    THEN e
    ELSE LET below == {c \in Completion[s] : c > s}
         IN [e EXCEPT !.entry = @ \cup Completion[s]
                \cup IF Completion[s] \cap Descendants[s] = {} /\ below # {}
                     THEN Ancestors[Min(below)] ELSE {}]

\* Mutant: a parallel state is completed like a compound one.
CompleteParallelAsCompound(s, e, config, history, exit) ==
    CASE Type[s] \in {"parallel", "compound"} -> EnterCompound(s, e, config, exit)
      [] IsHistory(s) -> EnterHistory(s, e, config, history)
      [] Type[s] = "initial" -> EnterInitial(s, e)
      [] OTHER -> e

CompleteState(s, e, config, history, exit) ==
    CASE Type[s] = "parallel" -> [e EXCEPT !.entry = @ \cup Completion[s]]
      [] IsHistory(s) -> EnterHistory(s, e, config, history)
      [] Type[s] = "initial" -> EnterInitial(s, e)
      [] Type[s] = "compound" -> EnterCompound(s, e, config, exit)
      [] OTHER -> e

(***************************************************************************)
(* The targets and their ancestors, completed in one ascending pass.       *)
(***************************************************************************)
EstablishEntrySet(targets, taken, config, history, exit) ==
    LET pass[i \in 0 .. NumStates] ==
            IF i = 0 THEN [entry |-> WithAncestors(targets), taken |-> taken]
            ELSE LET e == pass[i - 1]
                 IN IF i - 1 \in e.entry
                    THEN CompleteState(i - 1, e, config, history, exit)
                    ELSE e
    IN pass[NumStates]

-----------------------------------------------------------------------------
(* EXIT_STATES, TAKE_TRANSITIONS, ENTER_STATES. *)

(***************************************************************************)
(* Step 3 and 4 of the comment in ENTER_STATES: the descendants of a       *)
(* parallel state that remain when every active final state has removed    *)
(* its siblings and its parent, and the parallel states that this emptied. *)
(***************************************************************************)
RemoveEmptiedParallels(from, remaining, p) ==
    LET climb[s \in States] ==
            [rem \in SUBSET States |->
                IF s = 0 \/ Type[Parent[s]] # "parallel" \/ rem \cap Descendants[Parent[s]] # {}
                THEN rem
                ELSE LET less == rem \ {Parent[s]}
                     IN IF less = {} \/ Parent[s] = p THEN less ELSE climb[Parent[s]][less]]
    IN climb[from][remaining]

SymmetricDifference(a, b) == (a \ b) \cup (b \ a)

RemainingOf(p, config) ==
    LET pass[i \in 0 .. NumStates] ==
            IF i = 0 THEN Descendants[p]
            ELSE LET k == i - 1
                 IN IF k \in config \cap Descendants[p] /\ Type[k] = "final"
                    THEN RemoveEmptiedParallels(
                             Parent[k],
                             SymmetricDifference(pass[k], Descendants[Parent[k]]) \ {Parent[k]},
                             p)
                    ELSE pass[k]
    IN pass[NumStates]

(***************************************************************************)
(* The done events of entering the final state f: that of its parent, then *)
(* of each parallel state in the unbroken chain above the parent whose     *)
(* states are all removed.                                                 *)
(***************************************************************************)
\* Mutant: a parallel state is done with the first of its regions.
DoneEventsOfFirst(f, config) ==
    IF Ancestors[f] = {0} THEN <<>>
    ELSE <<DoneEvent(Parent[f])>>
         \o IF Parent[f] # 0 /\ Type[Parent[Parent[f]]] = "parallel"
            THEN <<DoneEvent(Parent[Parent[f]])>> ELSE <<>>
\* Mutant: only the innermost parallel state is looked at.
DoneEventsInnermost(f, config) ==
    IF Ancestors[f] = {0} THEN <<>>
    ELSE <<DoneEvent(Parent[f])>>
         \o IF /\ Parent[f] # 0
               /\ Type[Parent[Parent[f]]] = "parallel"
               /\ RemainingOf(Parent[Parent[f]], config) = {}
            THEN <<DoneEvent(Parent[Parent[f]])>> ELSE <<>>

DoneEvents(f, config) ==
    LET climb[s \in States] ==
            IF s = 0 \/ Type[Parent[s]] # "parallel" THEN <<>>
            ELSE (IF RemainingOf(Parent[s], config) = {} THEN <<DoneEvent(Parent[s])>> ELSE <<>>)
                 \o climb[Parent[s]]
    IN IF Ancestors[f] = {0} THEN <<>> ELSE <<DoneEvent(Parent[f])>> \o climb[Parent[f]]

ExitEvents(exit) ==
    LET pass[i \in 0 .. NumStates] ==
            IF i = 0 THEN <<>>
            ELSE (IF i - 1 \in exit THEN OnExit[i - 1] ELSE <<>>) \o pass[i - 1]
    IN pass[NumStates]

TransEvents(set) ==
    LET pass[t \in 0 .. Len(Trans)] ==
            IF t = 0 THEN <<>> ELSE pass[t - 1] \o (IF t \in set THEN Trans[t].raises ELSE <<>>)
    IN pass[Len(Trans)]

(***************************************************************************)
(* Entering a state: its data the first time, its <onentry> blocks, the    *)
(* default transitions of its <history> and <initial> that were followed,  *)
(* its done events.                                                        *)
(***************************************************************************)
EnterState(s, kept, entered, taken, initialized) ==
    (IF s \in initialized THEN <<>> ELSE OnData[s])
      \o OnEntry[s]
      \o TransEvents({t \in taken : IsDefault(t) /\ Parent[Trans[t].source] = s})
      \o IF Type[s] = "final" THEN DoneEvents(s, kept \cup {i \in entered : i <= s}) ELSE <<>>

EntryEvents(kept, entered, taken, initialized) ==
    LET pass[i \in 0 .. NumStates] ==
            IF i = 0 THEN <<>>
            ELSE pass[i - 1]
                 \o IF i - 1 \in entered THEN EnterState(i - 1, kept, entered, taken, initialized) ELSE <<>>
    IN pass[NumStates]

(***************************************************************************)
(* The microstep from ESTABLISH_ENTRYSET on: the new configuration, the    *)
(* states entered, the transitions taken (default ones included) and the   *)
(* internal events raised, in order.                                       *)
(***************************************************************************)
MoveTo(kept, entered, taken, exit, initialized) ==
    [config |-> kept \cup entered,
     entered |-> entered,
     taken |-> taken,
     raised |-> ExitEvents(exit) \o TransEvents({t \in taken : ~IsDefault(t)})
                  \o EntryEvents(kept, entered, taken, initialized)]

Microstep(targets, taken, config, history, exit, initialized) ==
    LET e == EstablishEntrySet(targets, taken, config, history, exit)
        kept == config \ exit
    IN MoveTo(kept, (e.entry \ kept) \cap ProperStates, e.taken, exit, initialized)

IsTopLevelFinal(s) == Type[s] = "final" /\ Ancestors[s] = {0}
-----------------------------------------------------------------------------
(* What the algorithm is expected to compute. *)

(***************************************************************************)
(* The rules of hasLegalConfiguration (W3C SCXML 3.11): exactly one child  *)
(* of an active compound state is active, all children of an active        *)
(* parallel state are, with a state its parent is active, and no history   *)
(* or initial is.                                                          *)
(***************************************************************************)
LegalConfiguration(c) ==
    /\ 0 \in c
    /\ c \subseteq ProperStates
    /\ \A s \in c \ {0} : Parent[s] \in c
    /\ \A s \in c : Type[s] = "compound" => Cardinality(ChildStates[s] \cap c) = 1
    /\ \A s \in c : Type[s] = "parallel" => ChildStates[s] \subseteq c

(***************************************************************************)
(* A compound state is in a final state when one of its <final> children   *)
(* is active, a parallel state when all its children are in one.           *)
(***************************************************************************)
InFinalState(s, c) ==
    LET inFinal[r \in States] ==
            \/ Type[r] = "compound" /\ \E f \in ChildStates[r] : Type[f] = "final" /\ f \in c
            \/ Type[r] = "parallel" /\ \A k \in ChildStates[r] : inFinal[k]
    IN inFinal[s]

(***************************************************************************)
(* The states below a parallel state with nothing but parallel states      *)
(* between: its regions and those of the parallel states among them.       *)
(***************************************************************************)
RegionTree(p) ==
    {r \in Descendants[p] : \A a \in Ancestors[r] \ Ancestors[p] : Type[a] = "parallel"}

(***************************************************************************)
(* Only the states of a compound state are removed by its <final>, so a    *)
(* parallel state with a <history> of its own, or with an empty one among  *)
(* its regions, is never done.                                             *)
(***************************************************************************)
CanBeDone(p) ==
    \A r \in RegionTree(p) : IsProper(r) /\ (Type[r] = "parallel" => Descendants[r] # {})

(***************************************************************************)
(* States that can be targets together: no two of them ask for different   *)
(* children of one compound state, and a history is the only target inside *)
(* its parent.                                                             *)
(***************************************************************************)
Compatible(set) ==
    /\ set \subseteq (ProperStates \cup Histories) \ {0}
    /\ \A p \in States : Type[p] = "compound" =>
          \A c, d \in Children[p] \cap WithAncestors(set) : c = d
    /\ \A h \in set \cap Histories : WithAncestors(set) \cap Descendants[Parent[h]] = {h}

(***************************************************************************)
(* The regions of a parallel state, which are entered with it.             *)
(***************************************************************************)
Regions(p) == IF Type[p] = "parallel" THEN ChildStates[p] ELSE {}

(***************************************************************************)
(* A history has one default transition, into its parent, and the states   *)
(* around its targets are entered: by the regions of the parent, and for a *)
(* deep history those around the first target.                             *)
(***************************************************************************)
DefaultFits(h) ==
    \E t \in TransIdx :
        /\ DefaultTransitions(h) = {t}
        /\ Trans[t].target # {}
        /\ Trans[t].target \subseteq Descendants[Parent[h]] \cap ProperStates
        /\ \A s \in Trans[t].target :
              Ancestors[s] \subseteq
                  Ancestors[h] \cup Regions(Parent[h])
                    \cup (IF Type[h] = "deep" THEN Ancestors[Min(Trans[t].target)] ELSE {})

(***************************************************************************)
(* A chart whose targets are compatible, with transitions to a history     *)
(* that leave the history's parent, <initial> elements that have one       *)
(* transition into their parent and attributes "initial" that name a child *)
(* (those of <scxml> may name any compatible states).                      *)
(***************************************************************************)
WellFormedChart ==
    /\ \A t \in TransIdx : Compatible(Trans[t].target)
    /\ \A t \in TransIdx : ~IsDefault(t) =>
          \A h \in Trans[t].target \cap Histories : Parent[h] \in ExitSet[t]
    /\ Compatible(InitialAttr[0])
    /\ \A s \in States \ {0} :
          (Type[s] = "compound" /\ InitialAttr[s] # {}) =>
              \E c \in Children[s] : Type[c] # "initial" /\ InitialAttr[s] = {c}
    /\ \A s \in States :
          Type[s] = "initial" =>
              /\ Type[Parent[s]] = "compound"
              /\ \E t \in TransIdx :
                    /\ DefaultTransitions(s) = {t}
                    /\ Trans[t].target # {}
                    /\ Trans[t].target \subseteq Descendants[Parent[s]]
    /\ \A h \in Histories : DefaultFits(h)

(***************************************************************************)
(* A <final> is a child of a compound state: the schema has none in a      *)
(* <parallel>.                                                             *)
(***************************************************************************)
FinalsInCompounds == \A f \in States \ {0} : Type[f] = "final" => Type[Parent[f]] = "compound"

(***************************************************************************)
(* No history is nested in what a deep history of another state is about.  *)
(***************************************************************************)
HistoriesApart ==
    \A g, h \in Histories : Type[g] = "deep" => Parent[h] \notin Descendants[Parent[g]]

(***************************************************************************)
(* Executable content raises no done events by their name.                 *)
(***************************************************************************)
ContentEvents == {e \in [name : STRING, of : Nat] : e.name # "done.state"}
ContentNotDone ==
    /\ OnData \in [States -> Seq(ContentEvents)]
    /\ OnEntry \in [States -> Seq(ContentEvents)]
    /\ OnExit \in [States -> Seq(ContentEvents)]
    /\ \A t \in TransIdx : Trans[t].raises \in Seq(ContentEvents)
=============================================================================
