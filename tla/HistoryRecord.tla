---------------------------- MODULE HistoryRecord ----------------------------
(***************************************************************************)
(* MicroStep with an auxiliary variable that records, independently of     *)
(* _history, which states were active when the parent of a history was     *)
(* last left.                                                              *)
(***************************************************************************)
EXTENDS MicroStep

VARIABLE remembered

RememberedInit == [h \in Histories |-> {}]

RememberedNext ==
    [h \in Histories |->
        IF flags' = {} THEN {}
        ELSE IF Parent[h] \in last'.exited THEN configuration \cap Completion[h]
        ELSE remembered[h]]

HistorySpec ==
    /\ Init /\ remembered = RememberedInit
    /\ [][Next /\ remembered' = RememberedNext]_<<vars, remembered>>

RestoresHistories ==
    \A h \in Histories :
        (/\ \E t \in last'.taken : Trans[t].target = {h}
         /\ Parent[h] \in last'.entered) =>
            IF remembered'[h] # {}
            THEN configuration' \cap Completion[h] = remembered'[h]
            ELSE \A t \in DefaultTransitions(h) : Trans[t].target \subseteq configuration'

(***************************************************************************)
(* A state that is entered through its history comes back as it was left:  *)
(* the same children for a shallow history, the same descendants for a     *)
(* deep one, and the target of the default transition if it was never left *)
(* (step(), REMEMBER_HISTORY and the history cases of ESTABLISH_ENTRYSET). *)
(***************************************************************************)
HistoryRestored == [][RestoresHistories]_<<vars, remembered>>
=============================================================================
