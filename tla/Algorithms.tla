----------------------------- MODULE Algorithms -----------------------------
(***************************************************************************)
(* The sequential algorithms of the interpreter, on every input of a       *)
(* bounded size, against definitions that say what they are to compute:    *)
(* the execution of content (module Content), the matching of event names  *)
(* (Names) and the static checks of a chart (Issues).                      *)
(***************************************************************************)
EXTENDS Content, Names, FiniteSets

S == INSTANCE SequencesExt

CONSTANTS
    MaxDescriptors, \* bound: the characters of a list of descriptors
    MaxName,        \* bound: the characters of a name
    MaxChildren,    \* bound: the elements in an <if>, those that begin a branch included
    Size            \* bound: the states of a chart

VARIABLES
    input,  \* executable content, descriptors and a name, or a chart
    output  \* what has been computed from it, a sequence of one value, empty at first

vars == <<input, output>>
None == <<>>
Result == output[1]

-----------------------------------------------------------------------------
(* Executable content. *)

Raise == [tag |-> "raise", event |-> "raised"]
SendTo(target, reachable, delayed, value) ==
    [tag |-> "send", event |-> "sent", target |-> target, reachable |-> reachable,
     delayed |-> delayed, value |-> value]
Evaluation(value) == [tag |-> "evaluation", value |-> value]
ElseIf(cond) == [tag |-> "elseif", cond |-> cond]
Else == [tag |-> "else", cond |-> "true"]
If(cond, children) == [tag |-> "if", cond |-> cond, children |-> children]
Foreach(value, items, children) ==
    [tag |-> "foreach", value |-> value, items |-> items, children |-> children]

Values == {"true", "false", "error"}
Markers == {ElseIf(c) : c \in Values} \cup {Else}
Sends ==
    {SendTo(t, r, d, v) : t \in Targets, r \in BOOLEAN, d \in BOOLEAN, v \in {"true", "error"}}
Fails == Evaluation("error")
Leaves == {Raise, Fails, SendTo("none", TRUE, FALSE, "true")}

WellFormed(children) ==
    \A i, j \in DOMAIN children : i < j /\ children[i] = Else => children[j] \notin Markers
Branches == {c \in S!BoundedSeq({Raise, Fails} \cup Markers, MaxChildren) : WellFormed(c)}
Ifs == {If(c, b) : c \in Values, b \in Branches}
Foreachs(els) ==
    {Foreach(v, i, b) : v \in {"true", "error"}, i \in S!BoundedSeq({"true", "error"}, 2),
                        b \in {<<e, f>> : e \in els, f \in {Raise, Fails}}}
Nested ==
    Foreachs({If(c, <<Raise, Else, Fails>>) : c \in Values} \cup Leaves)
        \cup {If(c, <<f, Else, Fails>>) : c \in Values, f \in Foreachs({Raise})}

\* Two blocks each, so that an error in the first one has something to spare.
Contents ==
    {<<<<e, Raise>>, <<Raise>>>> : e \in Ifs \cup Nested \cup Sends}
        \cup {<<<<e, f>>, <<f, e>>>> : e \in Leaves, f \in Leaves}

-----------------------------------------------------------------------------
(* Names. *)

Characters == {"a", "A", ".", "*", " "}
Descriptors == S!BoundedSeq(Characters, MaxDescriptors)
NameStrings == S!BoundedSeq({"a", "A", "."}, MaxName)

-----------------------------------------------------------------------------
(* Charts with one transition to one or two states and an attribute        *)
(* "initial" that names a child or none, or with two transitions.          *)

Nodes == 0 .. Size - 1
Nestings ==
    {l \in [Nodes -> Nodes] :
        /\ l[0] = Size - 1
        /\ \A s \in Nodes : l[s] >= s
        /\ \A r, s \in Nodes : s \in (r + 1) .. l[r] => l[s] <= l[r]}
Typings(l) ==
    {t \in [Nodes -> {"atomic", "final", "parallel", "compound"}] :
        /\ t[0] = "compound"
        /\ \A s \in Nodes : l[s] = s <=> t[s] \in {"atomic", "final"}
        /\ \A p \in Nodes : t[p] = "parallel" =>
              \A s \in p + 1 .. l[p] : t[s] = "final" => \E q \in p + 1 .. s - 1 : l[q] >= s}
IsChild(l, p, c) == c \in p + 1 .. l[p] /\ \A q \in p + 1 .. c - 1 : l[q] < c
InitialAttrs(l, t, x) ==
    {[s \in Nodes |-> {}]} \cup IF Len(x) > 1 THEN {} ELSE
    {[s \in Nodes |-> IF s = e[1] THEN {e[2]} ELSE {}] :
        e \in {d \in Nodes \X Nodes : t[d[1]] = "compound" /\ IsChild(l, d[1], d[2])}}

Transition(source, targets) ==
    [source |-> source, target |-> targets, internal |-> FALSE,
     events |-> {}, guarded |-> FALSE, raises |-> <<>>]
Transitions(t) ==
    LET from == {s \in Nodes \ {0} : t[s] # "final"} IN
    {<<Transition(s, {a, b})>> : s \in from, a \in Nodes \ {0}, b \in Nodes \ {0}}
        \cup {<<Transition(s, {a}), Transition(r, {b})>> :
                s \in from, r \in from, a \in Nodes \ {0}, b \in Nodes \ {0}}

G == INSTANCE Issues WITH
        NumStates <- Size, Last <- input.last, Type <- input.type, Trans <- input.trans,
        InitialAttr <- input.initial, OnData <- [s \in Nodes |-> <<>>],
        OnEntry <- [s \in Nodes |-> <<>>], OnExit <- [s \in Nodes |-> <<>>]

-----------------------------------------------------------------------------

Init ==
    /\ output = None
    /\ \/ \E b \in Contents : input = [kind |-> "content", blocks |-> b]
       \/ \E d \in Descriptors, n \in NameStrings : input = [kind |-> "names", descs |-> d, name |-> n]
       \/ \E l \in Nestings : \E t \in Typings(l) : \E x \in Transitions(t) :
             \E i \in InitialAttrs(l, t, x) :
                input = [kind |-> "chart", last |-> l, type |-> t, initial |-> i, trans |-> x]

Execute ==
    /\ input.kind = "content" /\ output = None
    /\ output' = <<ProcessBlocks(input.blocks, Start)>>
    /\ UNCHANGED input

Compare ==
    /\ input.kind = "names" /\ output = None
    /\ output' = <<NameMatch(input.descs, input.name)>>
    /\ UNCHANGED input

\* The checks are made and the first microstep is taken.
Check ==
    /\ input.kind = "chart" /\ output = None
    /\ output' = <<[config |-> G!Microstep(G!Completion[0], {}, {}, {}, {}, {}).config,
                    reachable |-> G!GetReachableStates,
                    configurations |-> G!AllConfigurations[0]]>>
    /\ UNCHANGED input

\* One transition is taken, from a legal configuration.
Take ==
    /\ input.kind = "chart" /\ output # None
    /\ G!LegalConfiguration(Result.config)
    /\ \E t \in DOMAIN input.trans :
          /\ input.trans[t].source \in Result.config
          /\ LET exit == G!ExitedStates({t}, Result.config)
             IN output' = [output EXCEPT ![1].config =
                    G!Microstep(input.trans[t].target, {t}, Result.config, {}, exit, {}).config]
    /\ UNCHANGED input

Next == Execute \/ Compare \/ Check \/ Take

Spec == Init /\ [][Next]_vars

-----------------------------------------------------------------------------
(* What the execution of content amounts to.  An effect puts an event into *)
(* a queue, or fails.                                                      *)

Put(queue, event) == [queue |-> queue, event |-> event]
Failure == Put("internal", Error)
Fail == [Failure EXCEPT !.event = "fail"]

SendEffect(el) ==
    CASE el.value = "error" \/ el.target = "other" -> Fail
      [] el.delayed -> Put("delayed", el.event)
      [] el.target = "none" -> Put("external", el.event)
      [] el.target = "#_internal" -> Put("internal", el.event)
      [] OTHER -> IF el.reachable THEN Put("others", el.event) ELSE Fail

\* The positions in an <if> where a branch begins, 0 for the first one, and a branch's extent.
BranchStarts(el) == {0} \cup {i \in DOMAIN el.children : el.children[i] \in Markers}
CondAt(el, b) == IF b = 0 THEN el.cond ELSE el.children[b].cond
BranchAt(el, b) ==
    LET ends == {i - 1 : i \in {j \in BranchStarts(el) : j > b}} \cup {Len(el.children)}
    IN SubSeq(el.children, b + 1, CHOOSE e \in ends : \A f \in ends : e <= f)

RECURSIVE Effects(_)
EffectsOf(els) == S!FlattenSeq([i \in DOMAIN els |-> Effects(els[i])])
Effects(el) ==
    CASE el.tag = "raise" -> <<Put("internal", el.event)>>
      [] el.tag = "evaluation" -> IF el.value = "error" THEN <<Fail>> ELSE <<>>
      [] el.tag = "send" -> <<SendEffect(el)>>
      [] el.tag = "if" ->
            LET true == {b \in BranchStarts(el) : CondAt(el, b) = "true"}
                errors == {b \in BranchStarts(el) :
                              CondAt(el, b) = "error" /\ \A c \in true : b < c}
            IN [i \in 1 .. Cardinality(errors) |-> Failure] \o
               IF true = {} THEN <<>>
               ELSE EffectsOf(BranchAt(el, CHOOSE b \in true : \A c \in true : b <= c))
      [] el.tag = "foreach" ->
            IF el.value = "error" THEN <<Fail>>
            ELSE S!FlattenSeq([i \in DOMAIN el.items |->
                    IF el.items[i] = "error" THEN <<Fail>> ELSE EffectsOf(el.children)])

\* A block has its effects up to the first failure, which raises one error.
BlockEffects(block) ==
    LET all == EffectsOf(block)
        fails == {i \in DOMAIN all : all[i] = Fail}
    IN IF fails = {} THEN all
       ELSE Append(SubSeq(all, 1, (CHOOSE i \in fails : \A j \in fails : i <= j) - 1), Failure)

QueuedIn(effects, queue) ==
    LET here == SelectSeq(effects, LAMBDA e : e.queue = queue)
    IN [i \in DOMAIN here |-> here[i].event]

(***************************************************************************)
(* Executing nested content puts each event into its queue in document     *)
(* order, up to the first element of each block that fails: that one       *)
(* raises a single error however deep it is nested, ends its own block     *)
(* and no other; a condition that fails raises an error and counts as      *)
(* false (BasicContentExecutor::process, processIf, processForeach and     *)
(* processSend).                                                           *)
(***************************************************************************)
ContentAsUnfolded ==
    (input.kind = "content" /\ output # None) =>
        LET effects == S!FlattenSeq([i \in DOMAIN input.blocks |-> BlockEffects(input.blocks[i])])
        IN /\ Result.thrown = "none"
           /\ Result.internal = QueuedIn(effects, "internal")
           /\ Result.external = QueuedIn(effects, "external")
           /\ Result.others = QueuedIn(effects, "others")
           /\ Result.delayed = QueuedIn(effects, "delayed")

-----------------------------------------------------------------------------
(* The words of a list of descriptors. *)

Words(s) ==
    {w \in {<<i, j>> : i, j \in DOMAIN s} :
        /\ w[1] <= w[2]
        /\ \A k \in w[1] .. w[2] : s[k] # " "
        /\ w[1] = 1 \/ s[w[1] - 1] = " "
        /\ w[2] = Len(s) \/ s[w[2] + 1] = " "}

\* An event descriptor is a sequence of tokens: a prefix of those of the name.
Dots(s) == {i \in DOMAIN s : s[i] = "."}
TokenPrefix(d, name) == S!IsPrefix(d, name) /\ (Len(d) = Len(name) \/ Len(d) + 1 \in Dots(name))
Stripped(w) ==
    {u \in {SubSeq(w, 1, n) : n \in 0 .. Len(w)} :
        \/ u = w /\ ~S!IsSuffix(<<"*">>, w) /\ ~S!IsSuffix(<<".">>, w)
        \/ w = Append(u, "*") /\ ~S!IsSuffix(<<".">>, u)
        \/ w = Append(u, ".")
        \/ w = u \o <<".", "*">>}
Describes(w, name) ==
    \E u \in Stripped(w) : u = <<>> \/ TokenPrefix(u, name) \/ IEquals(u, name)

(***************************************************************************)
(* An event matches a transition exactly when one of the descriptors,      *)
(* without a trailing dot or wildcard, is a prefix of its name that ends   *)
(* at a dot, or its whole name in upper or lower case (nameMatch); only    *)
(* descriptors of a single character in a list of several are passed over, *)
(* "*" being one of them.                                                  *)
(***************************************************************************)
NamesMatchByToken ==
    (input.kind = "names" /\ output # None) =>
        (Result <=> /\ input.descs # <<>> /\ input.name # <<>>
                    /\ \/ IEquals(input.descs, input.name)
                       \/ \E w \in Words(input.descs) :
                             /\ w[1] < w[2] \/ input.descs = <<input.descs[w[1]]>>
                             /\ Describes(SubSeq(input.descs, w[1], w[2]), input.name))

-----------------------------------------------------------------------------

(***************************************************************************)
(* A state that is reported as unreachable is never entered, whatever      *)
(* transitions are taken: getReachableStates finds the states that are     *)
(* entered by default, with their ancestors or as another region, too.     *)
(***************************************************************************)
UnreachableNeverEntered ==
    (input.kind = "chart" /\ output # None) => Result.config \subseteq Result.reachable

(***************************************************************************)
(* hasLegalCompletion against its comment, "Can the given states ever      *)
(* appear in an active configuration?", by getAllConfigurations: a set of  *)
(* targets that is reported is in no configuration, and one that is not    *)
(* reported is in some configuration unless it is all inside a <parallel>, *)
(* where two children of one compound state pass.  If the targets of every *)
(* transition are in a configuration, the one a microstep leads to is      *)
(* listed.                                                                 *)
(***************************************************************************)
TargetsChecked ==
    (input.kind = "chart" /\ output # None) =>
        /\ \A t \in DOMAIN input.trans :
              LET targets == input.trans[t].target
                  possible == \E c \in Result.configurations : targets \subseteq c
              IN /\ possible => G!HasLegalCompletion(targets)
                 /\ (G!HasLegalCompletion(targets) /\ ~possible) =>
                       \E p \in Nodes : input.type[p] = "parallel" /\ targets \subseteq G!Descendants[p]
        /\ (\A t \in DOMAIN input.trans :
               \E c \in Result.configurations : input.trans[t].target \subseteq c) =>
           Result.config \ {0} \in Result.configurations
=============================================================================
