------------------------------- MODULE Content -------------------------------
(***************************************************************************)
(* BasicContentExecutor::process on a tree of executable content, with its *)
(* exceptions, and the way of an event from <send> to a queue.             *)
(*                                                                         *)
(* An element is a record: its tag, the elements nested in it, and what    *)
(* its evaluation yields.  Expressions are "true", "false" or "error".     *)
(* The state that is threaded through the execution has                    *)
(*   internal, external, others, delayed   what was put in which queue     *)
(*   thrown     the exception that is on its way: none, an ErrorEvent, or  *)
(*              the Event that process() throws after it has caught one    *)
(***************************************************************************)
EXTENDS Naturals, Sequences

Start == [internal |-> <<>>, external |-> <<>>, others |-> <<>>, delayed |-> <<>>,
          thrown |-> "none"]

Error == "error"
Throw(s) == [s EXCEPT !.thrown = "ErrorEvent"]
Internal(s, event) == [s EXCEPT !.internal = Append(@, event)]

-----------------------------------------------------------------------------
(* <send>. *)

Targets == {"none", "#_internal", "#_parent", "#_scxml_id", "#_invokeid", "other"}

\* SCXMLIOProcessor::isValidTarget, and checkValidSendType for a type that is known.
ValidTarget(target) == target # "other"

(***************************************************************************)
(* SCXMLIOProcessor::eventFromSCXML: the queue of this session or of       *)
(* another one, if it can be reached.                                      *)
(***************************************************************************)
EventFromSCXML(target, reachable, event, s) ==
    CASE target = "none" -> [s EXCEPT !.external = Append(@, event)]
      [] target = "#_internal" -> Internal(s, event)
      [] target \in {"#_parent", "#_scxml_id", "#_invokeid"} /\ reachable ->
            [s EXCEPT !.others = Append(@, event)]
      [] OTHER -> Throw(s)

\* InterpreterImpl::enqueue: without a delay the event is sent before enqueue() returns.
Enqueue(el, s) ==
    IF el.delayed THEN [s EXCEPT !.delayed = Append(@, el.event)]
    ELSE EventFromSCXML(el.target, el.reachable, el.event, s)

\* The attributes and children are evaluated first: nothing is sent when one of them is in error.
ProcessSend(el, s) ==
    IF el.value = "error" \/ ~ValidTarget(el.target) THEN Throw(s) ELSE Enqueue(el, s)

-----------------------------------------------------------------------------
(* The other elements. *)

ProcessRaise(el, s) == Internal(s, el.event)

\* <assign>, <log>, <script>, <cancel>: an evaluation that may be in error.
ProcessEvaluation(el, s) == IF el.value = "error" THEN Throw(s) ELSE s

\* InterpreterImpl::isTrue: an error is raised here and counts as false.
AfterTest(cond, s) == IF cond = "error" THEN Internal(s, Error) ELSE s

RECURSIVE Process(_, _), ProcessChildren(_, _), ProcessIf(_, _, _), ProcessForeach(_, _, _)

\* Elements one after the other; an exception leaves the loop.
ProcessChildren(els, s) ==
    IF els = <<>> \/ s.thrown # "none" THEN s
    ELSE ProcessChildren(Tail(els), Process(Head(els), s))

ProcessIf(els, blockIsTrue, s) ==
    IF els = <<>> \/ s.thrown # "none" THEN s
    ELSE CASE Head(els).tag = "elseif" ->
                  IF blockIsTrue THEN s
                  ELSE ProcessIf(Tail(els), Head(els).cond = "true", AfterTest(Head(els).cond, s))
           [] Head(els).tag = "else" -> IF blockIsTrue THEN s ELSE ProcessIf(Tail(els), TRUE, s)
           [] OTHER -> ProcessIf(Tail(els), blockIsTrue, IF blockIsTrue THEN Process(Head(els), s) ELSE s)

\* The value of each item tells whether setForeach succeeds.
ProcessForeach(els, items, s) ==
    IF items = <<>> \/ s.thrown # "none" THEN s
    ELSE IF Head(items) = "error" THEN Throw(s)
    ELSE ProcessForeach(els, Tail(items), ProcessChildren(els, s))

Dispatch(el, s) ==
    CASE el.tag = "raise" -> ProcessRaise(el, s)
      [] el.tag = "send" -> ProcessSend(el, s)
      [] el.tag = "evaluation" -> ProcessEvaluation(el, s)
      [] el.tag = "if" -> ProcessIf(el.children, el.cond = "true", AfterTest(el.cond, s))
      [] el.tag = "foreach" -> IF el.value = "error" THEN Throw(s)
                               ELSE ProcessForeach(el.children, el.items, s)

\* Mutant: the exception that was handled is caught again further out.
CaughtAgain(s) == IF s.thrown = "none" THEN s ELSE [Internal(s, Error) EXCEPT !.thrown = "Event"]

(***************************************************************************)
(* The handler of process() is for an ErrorEvent.  It raises the error and *)
(* throws it on as an Event, which the enclosing elements do not catch.    *)
(***************************************************************************)
Caught(s) == IF s.thrown = "ErrorEvent" THEN [Internal(s, Error) EXCEPT !.thrown = "Event"] ELSE s

Process(el, s) == Caught(Dispatch(el, s))

\* One <onentry>, <onexit> or <transition>: the stepper ignores the exception.
ProcessBlock(block, s) == [ProcessChildren(block, s) EXCEPT !.thrown = "none"]

RECURSIVE ProcessBlocks(_, _)
ProcessBlocks(blocks, s) ==
    IF blocks = <<>> THEN s ELSE ProcessBlocks(Tail(blocks), ProcessBlock(Head(blocks), s))
=============================================================================
