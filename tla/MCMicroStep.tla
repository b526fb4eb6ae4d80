----------------------------- MODULE MCMicroStep -----------------------------
(***************************************************************************)
(* Charts for module MicroStep.  A chart is written as a table: the last   *)
(* nested state, the type and the transitions of each state.               *)
(***************************************************************************)
EXTENDS MicroStep

T(source, target, names) ==
    [source |-> source, target |-> target, internal |-> FALSE,
     events |-> {Ev(n) : n \in names}, guarded |-> FALSE, raises |-> <<>>]
OnDone(source, of, target) == [T(source, target, {}) EXCEPT !.events = {DoneEvent(of)}]
Guarded(t) == [t EXCEPT !.guarded = TRUE]
Internal(t) == [t EXCEPT !.internal = TRUE]
Raising(t, name) == [t EXCEPT !.raises = <<Ev(name)>>]
ByState(default, exceptions) ==
    [s \in States |-> IF s \in DOMAIN exceptions THEN exceptions[s] ELSE default]
Table(seq) == [s \in 0 .. Len(seq) - 1 |-> seq[s + 1]]
NoReset == -1
NoContent == [s \in States |-> <<>>]
NoAttr == [s \in States |-> {}]

(***************************************************************************)
(* Regions.  A parallel state with a compound region and a nested parallel *)
(* state, each with final states:                                          *)
(*   0 scxml( 1 idle, 2 parallel( 3 region( 4 busy, 5 final ),             *)
(*            6 parallel( 7 region( 8 busy, 9 final ),                     *)
(*                        10 region( 11 initial, 12 busy, 13 final ) ) ),  *)
(*            14 final )                                                   *)
(***************************************************************************)
RegionsLast == Table(<<14, 1, 13, 5, 4, 5, 13, 9, 8, 9, 13, 11, 12, 13, 14>>)
RegionsType == Table(<<"compound", "atomic", "parallel", "compound", "atomic", "final", "parallel",
                       "compound", "atomic", "final", "compound", "initial", "atomic", "final",
                       "final">>)
RegionsTrans ==
    <<T(1, {2}, {"go"}), T(1, {5, 13}, {"x"}), T(4, {5}, {"x"}), Guarded(Internal(T(3, {4}, {"z"}))),
      T(8, {9}, {"y"}), T(7, {1}, {"stop"}), T(11, {12}, {}), T(12, {13}, {"x", "w"}),
      Raising(T(6, {8}, {"z"}), "stop"), OnDone(2, 6, {}), OnDone(2, 2, {14}), T(2, {2}, {"go"})>>
RegionsEntry == ByState(<<>>, [s \in {9} |-> <<Ev("w")>>])
RegionsExit == ByState(<<>>, [s \in {2} |-> <<Ev("left")>>])
(***************************************************************************)
(* Histories.  A shallow history with another nested in a sibling, and a   *)
(* deep history of a parallel state, all entered while their parent is not *)
(* active:                                                                 *)
(*   0 scxml( 1 p( 2 initial, 3 shallow,                                   *)
(*                 4 a( 5 shallow, 6, 7 ),                                 *)
(*                 8 parallel( 9 deep, 10( 11, 12 ), 13( 14, 15 ) ) ),     *)
(*            16 out )                                                     *)
(***************************************************************************)
HistoriesLast == Table(<<16, 15, 2, 3, 7, 5, 6, 7, 15, 9, 12, 11, 12, 15, 14, 15, 16>>)
HistoriesType == Table(<<"compound", "compound", "initial", "shallow", "compound", "shallow", "atomic",
                         "atomic", "parallel", "deep", "compound", "atomic", "atomic", "compound",
                         "atomic", "atomic", "atomic">>)
HistoriesTrans ==
    <<T(2, {4}, {}), T(3, {8}, {}), T(5, {7}, {}), T(6, {7}, {"x"}), T(4, {8}, {"y"}),
      T(9, {12, 15}, {}), T(11, {12}, {"x"}), Raising(Guarded(T(14, {15}, {"x"})), "w"),
      T(15, {14}, {"w"}), T(8, {5}, {"y"}), T(1, {16}, {"out"}),
      T(16, {9}, {"x"}), T(16, {3}, {"y"}), T(16, {1}, {"out"})>>

(***************************************************************************)
(* Lifecycle.  A chart small enough for liveness: eventless and guarded    *)
(* transitions, content that raises events, data with an error, invoking   *)
(* states and a top-level final.                                           *)
(*   0 scxml( 1 start, 2 work( 3 try, 4 retry ), 5 final )                 *)
(***************************************************************************)
LifecycleLast == Table(<<5, 1, 4, 3, 4, 5>>)
LifecycleType == Table(<<"compound", "atomic", "compound", "atomic", "atomic", "final">>)
LifecycleTrans ==
    <<T(1, {2}, {"x"}), Guarded(T(3, {4}, {"x"})), T(4, {3}, {}), T(2, {5}, {"y"}),
      T(2, {1}, {"error.execution"})>>
LifecycleData == ByState(<<>>, [s \in {2} |-> <<Ev("bad")>>])
LifecycleEntry == ByState(<<>>, [s \in {3} |-> <<Ev("trying")>>])
LifecycleExit == ByState(<<>>, [s \in {2, 4} |-> <<Ev("left")>>])

(***************************************************************************)
(* HistoryErased.  Histories with overlapping scopes, which the stepper    *)
(* does not get right:                                                     *)
(*   0 scxml( 1( 2 deep, 3( 4 shallow, 5, 6 ), 7 ), 8 )                    *)
(***************************************************************************)
HistoryErasedLast == Table(<<8, 7, 2, 6, 4, 5, 6, 7, 8>>)
HistoryErasedType == Table(<<"compound", "compound", "deep", "compound", "shallow", "atomic", "atomic",
                             "atomic", "atomic">>)
HistoryErasedTrans ==
    <<T(2, {7}, {}), T(4, {6}, {}), T(3, {7}, {"x"}), T(7, {8}, {"x"}), T(8, {4}, {"x"})>>

(***************************************************************************)
(* The charts are well-formed, so that what is proved of such charts is    *)
(* about them.                                                             *)
(***************************************************************************)
ASSUME ChartsAreWellFormed == WellFormedChart /\ FinalsInCompounds /\ ContentNotDone
=============================================================================
