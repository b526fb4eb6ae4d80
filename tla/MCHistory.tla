------------------------------ MODULE MCHistory ------------------------------
(***************************************************************************)
(* The charts of MCMicroStep for module HistoryRecord.                     *)
(***************************************************************************)
EXTENDS MCMicroStep, HistoryRecord

(***************************************************************************)
(* Of the two charts with histories, the one of run Histories satisfies    *)
(* what the theorem about histories assumes and the other one does not.    *)
(***************************************************************************)
ASSUME ChartsAreApart == HistoriesApart <=> Last = HistoriesLast
=============================================================================
