------------------------------ MODULE GeneratedC ------------------------------
(***************************************************************************)
(* The microstep of the C code that ChartToC generates: the tables that    *)
(* prepare() computes and the entry set, history and done events of the    *)
(* uscxml_step that writeFSM emits.  It is a second implementation of the  *)
(* algorithm of module Chart; the selection of transitions, the exit set   *)
(* and the conflicts come from the same predicates.                        *)
(*                                                                         *)
(* Unlike FastMicroStep, "children" are the direct children of a state.    *)
(***************************************************************************)
EXTENDS Chart

(***************************************************************************)
(* setHistoryCompletion: the histories come in document order, and the     *)
(* states one of them is responsible for are taken from the histories of   *)
(* other parents that come after it.                                       *)
(***************************************************************************)
CHistoryCompletion(h) ==
    HistoryCompletion(h)
      \ UNION {HistoryCompletion(g) : g \in {i \in Histories : i < h /\ Parent[i] # Parent[h]}}

\* setStateCompletion.
CCompletion == [s \in States |-> IF IsHistory(s) THEN CHistoryCompletion(s) ELSE Completion[s]]

HasHistoryChild(s) == Children[s] \cap Histories # {}
HasNestedHistory(h) == (Descendants[Parent[h]] \cap Histories) \ {h} # {}

CRememberAt(h, sofar, config, exit) ==
    IF IsHistory(h) /\ Parent[h] \in exit
    THEN (sofar \ CCompletion[h]) \cup (CCompletion[h] \cap config)
    ELSE sofar

CRememberHistory(history, config, exit) ==
    LET pass[i \in 0 .. NumStates] ==
            IF i = 0 THEN history ELSE CRememberAt(i - 1, pass[i - 1], config, exit)
    IN pass[NumStates]

(***************************************************************************)
(* The default transition of a history: its targets, and for a deep one    *)
(* the ancestors of the first of them.                                     *)
(***************************************************************************)
CDefaultOfHistory(h, t, e) ==
    LET below == {s \in Trans[t].target : s > h}
    IN [entry |-> e.entry \cup Trans[t].target
                     \cup IF Type[h] = "deep" /\ below # {} THEN Ancestors[Min(below)] ELSE {},
        taken |-> e.taken \cup {t}]

(***************************************************************************)
(* What a history remembers; a deep one with histories nested in it adds   *)
(* those of the states it restores.                                        *)
(***************************************************************************)
CRestoredByHistory(h, e, history) ==
    LET restored == e.entry \cup (CCompletion[h] \cap history)
        nested == {s \in CCompletion[h] \cap restored : s > h /\ HasHistoryChild(s)}
    IN [e EXCEPT !.entry =
            restored \cup IF Type[h] = "deep" /\ HasNestedHistory(h)
                          THEN UNION {Children[s] \cap Histories : s \in nested} ELSE {}]

CEnterHistory(h, e, config, history) ==
    IF CCompletion[h] \cap history # {} \/ Parent[h] \in config
    THEN CRestoredByHistory(h, e, history)
    ELSE IF DefaultTransitions(h) = {} THEN e
    ELSE CDefaultOfHistory(h, Min(DefaultTransitions(h)), e)

CEnterInitial(s, e) ==
    IF DefaultTransitions(s) = {} THEN e
    ELSE LET targets == TargetSet(DefaultTransitions(s))
         IN [entry |-> (e.entry \ {s}) \cup targets
                          \cup UNION {Ancestors[k] : k \in {c \in targets : c > s}},
             taken |-> e.taken \cup DefaultTransitions(s)]

\* Mutant: the condition on the states that are left is dropped.
CEnterCompoundKeeping(s, e, config, exit) ==
    IF e.entry \cap Children[s] # {} \/ config \cap Children[s] # {}
    THEN e ELSE [e EXCEPT !.entry = @ \cup CCompletion[s]]

CEnterCompound(s, e, config, exit) ==
    IF \/ e.entry \cap Children[s] # {}
       \/ config \cap Children[s] # {} /\ exit \cap Children[s] = {}
    THEN e
    ELSE LET below == {c \in CCompletion[s] : c > s}
         IN [e EXCEPT !.entry = @ \cup CCompletion[s]
                \cup IF CCompletion[s] \cap Children[s] = {} /\ below # {}
                     THEN Ancestors[Min(below)] ELSE {}]

CCompleteState(s, e, config, history, exit) ==
    CASE Type[s] = "parallel" -> [e EXCEPT !.entry = @ \cup CCompletion[s]]
      [] IsHistory(s) -> CEnterHistory(s, e, config, history)
      [] Type[s] = "initial" -> CEnterInitial(s, e)
      [] Type[s] = "compound" -> CEnterCompound(s, e, config, exit)
      [] OTHER -> e

CEstablishEntrySet(targets, taken, config, history, exit) ==
    LET pass[i \in 0 .. NumStates] ==
            IF i = 0 THEN [entry |-> WithAncestors(targets), taken |-> taken]
            ELSE LET e == pass[i - 1]
                 IN IF i - 1 \in e.entry
                    THEN CCompleteState(i - 1, e, config, history, exit)
                    ELSE e
    IN pass[NumStates]

(***************************************************************************)
(* The four steps of the comment in ENTER_STATES: of the active states in  *)
(* the parallel state p those remain that are no final state and not       *)
(* around a final state that comes after them.                             *)
(***************************************************************************)
CRemainingOf(p, config) ==
    LET active == config \cap Descendants[p]
        finals == {f \in active : Type[f] = "final"}
    IN {s \in active \ finals : \A f \in finals : s \notin Ancestors[f]}

\* The parallel states around a final state f that are done when f is entered.
CDoneParallels(f, config) ==
    {p \in Ancestors[f] : Type[p] = "parallel" /\ CRemainingOf(p, config) = {}}

(***************************************************************************)
(* The microstep: the new configuration, the states entered in order, the  *)
(* transitions taken and the parallel states done, each with the final     *)
(* state whose entry raised the event.                                     *)
(***************************************************************************)
CMicrostep(targets, taken, config, history, exit) ==
    LET e == CEstablishEntrySet(targets, taken, config, history, exit)
        kept == config \ exit
        entered == (e.entry \ kept) \cap ProperStates
    IN [config |-> kept \cup entered,
        entered |-> entered,
        taken |-> e.taken,
        done |-> UNION {CDoneParallels(f, kept \cup {s \in entered : s <= f}) :
                          f \in {g \in entered : Type[g] = "final"}}]
=============================================================================
