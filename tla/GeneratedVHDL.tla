---------------------------- MODULE GeneratedVHDL -----------------------------
(***************************************************************************)
(* The microstep of the VHDL code that ChartToVHDL generates: no passes    *)
(* over the states but one equation for each signal, all of which hold at  *)
(* once when the clock rises.  writeCompleteEntrySet asks whether a state  *)
(* is a child of itself where it means to ask for its children, so that a  *)
(* signal in_complete_entry_set_up only depends on the transitions that    *)
(* name the state as a target.                                             *)
(***************************************************************************)
EXTENDS GeneratedC

(***************************************************************************)
(* writeOptimalTransitionSetSelection: the values the signals              *)
(* in_optimal_transition_set_<t> can settle at.  A transition is           *)
(* pre-empted by those before it that it conflicts with, and one with an   *)
(* event by every spontaneous one, also by one that it pre-empts itself:   *)
(* then the equations are a loop.                                          *)
(***************************************************************************)
VOptimal(config, event, spontaneous) ==
    LET enabled(t, set) ==
            /\ Trans[t].source \in config
            /\ \A u \in 1 .. t - 1 : u \in Conflicts[t] => u \notin set
            /\ IF Trans[t].events = {}
               THEN spontaneous
               ELSE event \in Trans[t].events /\ \A u \in set : Trans[u].events # {}
    IN {set \in SUBSET TransIdx : set = {t \in TransIdx : enabled(t, set)}}

\* writeExitSet: in_exit_set_<s>.
VExitSet(taken, config) == {s \in config : \E t \in taken : s \in ExitSet[t]}

(***************************************************************************)
(* The child that is the default completion of a compound state: the one   *)
(* its attribute names, else the one right after it.                       *)
(***************************************************************************)
VIsDefault(s) ==
    IF InitialAttr[Parent[s]] # {} THEN InitialAttr[Parent[s]] = {s} ELSE s = Parent[s] + 1

(***************************************************************************)
(* writeCompleteEntrySet and writeEntrySet.  The default completion of a   *)
(* compound state looks at its siblings that stay active, not at those     *)
(* that are entered.                                                       *)
(***************************************************************************)
\* Mutant: the regions of a parallel state are not completed.
VEntryOfCompound(targets, config, exit) ==
    targets \cup {s \in States \ {0} :
                    Parent[s] \in targets /\ Type[Parent[s]] = "compound" /\ VIsDefault(s)}

VEntrySet(targets, config, exit) ==
    LET kept == config \ exit
        in[s \in States] ==
            \/ s \in targets
            \/ s = 0 /\ config = {}
            \/ /\ s # 0
               /\ in[Parent[s]]
               /\ \/ Type[Parent[s]] = "parallel"
                  \/ /\ Type[Parent[s]] = "compound"
                     /\ Parent[s] \notin kept
                     /\ VIsDefault(s)
                     /\ (Children[Parent[s]] \ {s}) \cap kept = {}
    IN {s \in States : in[s]}

(***************************************************************************)
(* writeActiveStateNplusOne: state_next_<s>.  That of <scxml> is set until *)
(* a final state of the chart is active.                                   *)
(***************************************************************************)
VMicrostep(targets, config, exit) ==
    (IF \E f \in config : IsTopLevelFinal(f) THEN {} ELSE {0})
      \cup (VEntrySet(targets, config, exit) \ {0}) \cup (config \ (exit \cup {0}))
=============================================================================
