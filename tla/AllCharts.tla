------------------------------ MODULE AllCharts ------------------------------
(***************************************************************************)
(* The microstep of module Chart, and those of the code that is generated  *)
(* from a chart, on every chart of a bounded size: a chart is chosen       *)
(* initially, and before each microstep one or two transitions to choose   *)
(* from.  There are three families of charts:                              *)
(*   - every chart of GeneralSize states made of <state>, <parallel> and   *)
(*     <final>;                                                            *)
(*   - every chart of RegionalSize states that is one <parallel> of        *)
(*     regions;                                                            *)
(*   - every chart of PseudoSize states with one <initial> or <history>.   *)
(***************************************************************************)
EXTENDS Integers, Sequences, FiniteSets

CONSTANTS
    GeneralSize,   \* bound: the states of a chart
    RegionalSize,  \* bound: the states of a chart that is one <parallel> of regions;
                   \* its transitions are external, and pairs of them of different regions
    PseudoSize     \* bound: the states of a chart with a pseudo state; one transition
                   \* is offered at a time

VARIABLES
    size,      \* the number of states of the chart
    last,      \* the nesting of the chart
    type,      \* the types of its states
    defaults,  \* the transitions of its pseudo states
    trans,     \* the transitions that match in the next microstep
    config,    \* the configuration
    history,   \* what the histories remember
    raised,    \* the events raised by the last microstep
    entered,   \* the states it entered
    scope      \* the states the transitions it took may touch

vars == <<size, last, type, defaults, trans, config, history, raised, entered, scope>>

Nodes == 0 .. size - 1
Nothing == [s \in Nodes |-> <<>>]
NoAttribute == [s \in Nodes |-> {}]

C == INSTANCE GeneratedC WITH
        NumStates <- size, Last <- last, Type <- type, InitialAttr <- NoAttribute,
        Trans <- trans \o defaults, OnData <- Nothing, OnEntry <- Nothing, OnExit <- Nothing
P == INSTANCE GeneratedPromela WITH
        NumStates <- size, Last <- last, Type <- type, InitialAttr <- NoAttribute,
        Trans <- trans \o defaults, OnData <- Nothing, OnEntry <- Nothing, OnExit <- Nothing
V == INSTANCE GeneratedVHDL WITH
        NumStates <- size, Last <- last, Type <- type, InitialAttr <- NoAttribute,
        Trans <- trans \o defaults, OnData <- Nothing, OnEntry <- Nothing, OnExit <- Nothing

Nestings ==
    {l \in [Nodes -> Nodes] :
        /\ l[0] = size - 1
        /\ \A s \in Nodes : l[s] >= s
        /\ \A r, s \in Nodes : s \in (r + 1) .. l[r] => l[s] <= l[r]}

Pseudo == {"initial", "shallow", "deep"}
ParentIn(l, s) == CHOOSE p \in 0 .. s - 1 : l[p] >= s /\ \A q \in p + 1 .. s - 1 : l[q] < s

(***************************************************************************)
(* Only compound and parallel states have states of their own, a compound  *)
(* one a proper one, and a parallel state has no <final> and no <initial>  *)
(* child.  A pseudo state is the first child of its parent, and the other  *)
(* families have none.                                                     *)
(***************************************************************************)
Typings(l) ==
    {t \in [Nodes -> {"atomic", "final", "parallel", "compound"} \cup
                        IF size = PseudoSize THEN Pseudo ELSE {}] :
        /\ t[0] = "compound"
        /\ \A s \in Nodes : l[s] = s <=> t[s] \in {"atomic", "final"} \cup Pseudo
        /\ \A s \in Nodes \ {0} :
              /\ t[ParentIn(l, s)] = "parallel" => t[s] \notin {"final", "initial"}
              /\ t[s] \in Pseudo => s = ParentIn(l, s) + 1 /\ l[ParentIn(l, s)] > s
        /\ size = PseudoSize => Cardinality({s \in Nodes : t[s] \in Pseudo}) = 1}

Transition(source, target, internal) ==
    [source |-> source, target |-> {target}, internal |-> internal,
     events |-> {}, guarded |-> FALSE, raises |-> <<>>]

(***************************************************************************)
(* The default transition of a pseudo state goes to a state of its parent, *)
(* to a child for a shallow history.                                       *)
(***************************************************************************)
DefaultsOf(l, t) ==
    IF size # PseudoSize THEN {<<>>}
    ELSE LET h == CHOOSE s \in Nodes : t[s] \in Pseudo
             p == ParentIn(l, h)
         IN {<<Transition(h, s, FALSE)>> :
                s \in {r \in h + 1 .. l[p] : t[h] = "shallow" => ParentIn(l, r) = p}}

(***************************************************************************)
(* One active state, or two, with a transition to any state or to itself;  *)
(* in the post-fix order of init().  A <final> has no transitions, and no  *)
(* transition goes to an <initial>.  A history is a target only while its  *)
(* parent is not active: from inside, the stepper enters nothing in its    *)
(* place.                                                                  *)
(***************************************************************************)
Sources(c) == {s \in c \ {0} : type[s] # "final"}
Targets == {s \in Nodes \ {0} : type[s] \notin Pseudo}
Reentries(c) == {h \in Nodes : type[h] \in {"shallow", "deep"} /\ ParentIn(last, h) \notin c}

Single(c) ==
    {<<Transition(s, t, i)>> : s \in Sources(c), t \in Targets \cup Reentries(c),
                               i \in IF size = GeneralSize THEN BOOLEAN ELSE {FALSE}}

PairsOf(p, internals) ==
    {<<Transition(p[1], t1, i), Transition(p[2], t2, FALSE)>> :
        t1 \in Targets, t2 \in Targets, i \in internals}

Pairs(c) ==
    UNION {IF last[p[1]] < p[2] THEN PairsOf(p, IF size = GeneralSize THEN BOOLEAN ELSE {FALSE})
           ELSE IF size = GeneralSize /\ p[1] \in (p[2] + 1) .. last[p[2]] THEN PairsOf(p, {FALSE})
           ELSE {} : p \in Sources(c) \X Sources(c)}

(***************************************************************************)
(* The chart is one <parallel>, and each of its children has states of its *)
(* own.                                                                    *)
(***************************************************************************)
OneParallel ==
    /\ last[1] = size - 1
    /\ type[1] = "parallel"
    /\ \A s \in 2 .. size - 1 : last[s] > s \/ \E r \in 2 .. s - 1 : last[r] >= s

Init ==
    /\ size \in {GeneralSize, RegionalSize, PseudoSize}
    /\ last \in Nestings
    /\ type \in Typings(last)
    /\ size = RegionalSize => OneParallel
    /\ defaults \in DefaultsOf(last, type)
    /\ trans = <<>>
    /\ config = {}
    /\ history = {}
    /\ raised = <<>>
    /\ entered = {}
    /\ scope = {}

Apply(targets, taken, exit, remembered) ==
    LET m == C!Microstep(targets, taken, config, remembered, exit, {})
    IN /\ config' = m.config
       /\ history' = remembered
       /\ raised' = m.raised
       /\ entered' = m.entered
       /\ scope' = IF config = {} THEN Nodes ELSE UNION {C!ExitSet[t] : t \in taken}
       /\ trans' = <<>>
       /\ UNCHANGED <<size, last, type, defaults>>

Start ==
    /\ config = {}
    /\ Apply(C!Completion[0], {}, {}, {})

Choose ==
    /\ config # {}
    /\ trans = <<>>
    /\ trans' \in Single(config) \cup IF size = PseudoSize THEN {} ELSE Pairs(config)
    /\ raised' = <<>>
    /\ entered' = {}
    /\ scope' = {}
    /\ UNCHANGED <<size, last, type, defaults, config, history>>

Take ==
    /\ trans # <<>>
    /\ LET taken == C!SelectTransitions(config, C!NoEvent, [t \in {} |-> "true"]).taken
           exit == C!ExitedStates(taken, config)
       IN Apply(C!TargetSet(taken), taken, exit, C!RememberHistory(history, config, exit))

Next == Start \/ Choose \/ Take
Spec == Init /\ [][Next]_vars

(***************************************************************************)
(* On every chart, every microstep that enters a state ends in a legal     *)
(* configuration.                                                          *)
(***************************************************************************)
EveryChartLegal == entered # {} => C!LegalConfiguration(config)

(***************************************************************************)
(* A microstep enters no state outside the domains of the transitions it   *)
(* takes: completing the entry set with the ancestors of the targets and   *)
(* the regions around them (ESTABLISH_ENTRYSET) leaves every other region  *)
(* in the state it is in.                                                  *)
(***************************************************************************)
OtherRegionsKept == entered \subseteq scope

(***************************************************************************)
(* On every chart the done event of a parallel state is raised exactly in  *)
(* the microsteps that enter a <final> of one of its regions and leave all *)
(* of them in a final state (the removal of children in ENTER_STATES), if  *)
(* nothing else is among its regions.                                      *)
(***************************************************************************)
EveryParallelDone ==
    entered # {} => \A p \in {s \in Nodes : type[s] = "parallel"} :
        (\E i \in DOMAIN raised : raised[i] = C!DoneEvent(p)) <=>
            /\ p \in config
            /\ C!InFinalState(p, config)
            /\ C!CanBeDone(p)
            /\ \E f \in entered : type[f] = "final" /\ C!Parent[f] \in C!RegionTree(p)

(***************************************************************************)
(* The microsteps on which the generated code is compared: the first one,  *)
(* and on the charts of GeneralSize and PseudoSize every other one; those  *)
(* of C and Promela also on RegionalSize with one transition.              *)
(***************************************************************************)
Taken == C!SelectTransitions(config, C!NoEvent, [t \in {} |-> "true"]).taken
IsMicrostep == config = {} \/ (trans # <<>> /\ size # RegionalSize)
IsRegional == size = RegionalSize /\ Len(trans) = 1

\* The parallel states the C code has to report, and the cases in which it may err.
DoneParallels ==
    {p \in Nodes : /\ type[p] = "parallel"
                   /\ p \in config'
                   /\ C!InFinalState(p, config')
                   /\ \E f \in entered' : type[f] = "final" /\ f \in C!Descendants[p]}
EntersRegions(p) == Cardinality({s \in entered' \cap C!Descendants[p] : last[s] = s}) > 1
NestsRegions(p) == \E s \in C!Descendants[p] : last[s] > s /\ type[C!Parent[s]] = "compound"

SameAsC(targets, taken, exit) ==
    \E m \in {C!CMicrostep(targets, taken, config, history', exit)}, done \in {DoneParallels} :
        /\ m.config = config'
        /\ m.entered = entered'
        /\ done \subseteq m.done
        /\ \A p \in m.done \ done : EntersRegions(p) \/ NestsRegions(p)

(***************************************************************************)
(* The C code generated from a chart takes the same microsteps as the      *)
(* interpreter: the same states are entered and the same configuration is  *)
(* reached, for the first microstep whatever the uninitialised exit_set    *)
(* holds (uscxml_step jumps over the statement that clears it).  It raises *)
(* the done event of every parallel state whose regions are all in a final *)
(* state; it raises one too many only when the microstep enters several    *)
(* regions of it, or when a region has regions of its own.                 *)
(***************************************************************************)
GeneratedCAgrees ==
    [][IsMicrostep \/ IsRegional =>
         IF config = {}
         THEN \A exit \in {{}, Nodes} : SameAsC(C!Completion[0], {}, exit)
         ELSE LET taken == Taken
              IN SameAsC(C!TargetSet(taken), taken, C!ExitedStates(taken, config))]_vars

(***************************************************************************)
(* So does the generated Promela code, for charts whose <initial> elements *)
(* go to a child of their parent.                                          *)
(***************************************************************************)
GeneratedPromelaAgrees ==
    [][((IsMicrostep \/ IsRegional) /\ \A i \in DOMAIN defaults : \A s \in defaults[i].target :
             type[defaults[i].source] = "initial" => C!Parent[s] = C!Parent[defaults[i].source]) =>
         LET taken == Taken
             exit == C!ExitedStates(taken, config)
             targets == IF config = {} THEN C!Completion[0] ELSE C!TargetSet(taken)
         IN P!PMicrostep(targets, taken, config, history', exit).config = config']_vars

(***************************************************************************)
(* So does the generated VHDL code, which has no passes but one equation   *)
(* for each state, for charts without pseudo states and microsteps whose   *)
(* targets are children of states that stay active; its selection of       *)
(* transitions settles at the transitions the interpreter takes.           *)
(***************************************************************************)
GeneratedVHDLAgrees ==
    [][(IsMicrostep /\ defaults = <<>>) =>
         LET taken == Taken
             exit == C!ExitedStates(taken, config)
             targets == C!TargetSet(taken)
         IN /\ V!VOptimal(config, C!NoEvent, TRUE) = {taken}
            /\ V!VExitSet(taken, config) = exit
            /\ (\A s \in targets : C!Parent[s] \in config \ exit) =>
                 V!VMicrostep(targets, config, exit) = config']_vars
=============================================================================
