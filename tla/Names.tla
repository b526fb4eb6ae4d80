-------------------------------- MODULE Names --------------------------------
(***************************************************************************)
(* nameMatch(): the event descriptors of a transition against the name of  *)
(* an event.  A string is a sequence of characters.                        *)
(***************************************************************************)
EXTENDS Naturals, Sequences

Upper(c) == CASE c = "a" -> "A" [] c = "b" -> "B" [] OTHER -> c
IEquals(s, t) == Len(s) = Len(t) /\ \A i \in 1 .. Len(s) : Upper(s[i]) = Upper(t[i])
Drop(s, c) == IF s # <<>> /\ s[Len(s)] = c THEN SubSeq(s, 1, Len(s) - 1) ELSE s

\* Mutant: the name may go on without a dot.
DescriptorMatchesAnyPrefix(desc, name) ==
    LET d == Drop(Drop(desc, "*"), ".") IN
    \/ d = <<>>
    \/ IEquals(d, name)
    \/ Len(d) < Len(name) /\ SubSeq(name, 1, Len(d)) = d

\* A single descriptor: its trailing "*" and "." are dropped.
DescriptorMatches(desc, name) ==
    LET d == Drop(Drop(desc, "*"), ".") IN
    \/ d = <<>>
    \/ IEquals(d, name)
    \/ Len(d) < Len(name) /\ SubSeq(name, 1, Len(d)) = d /\ name[Len(d) + 1] = "."

\* The end of the whitespace that begins behind position i.
RECURSIVE SkipWhitespace(_, _)
SkipWhitespace(descs, i) ==
    IF i + 1 <= Len(descs) /\ descs[i + 1] = " " THEN SkipWhitespace(descs, i + 1) ELSE i + 1

(***************************************************************************)
(* The loop over the descriptors, from position i, the current one having  *)
(* begun at start.  Behind whitespace the loop goes on one position after  *)
(* the start of the next descriptor.                                       *)
(***************************************************************************)
RECURSIVE MatchFrom(_, _, _, _)
MatchFrom(descs, name, i, start) ==
    /\ i <= Len(descs)
    /\ IF descs[i] = " "
       THEN LET next == SkipWhitespace(descs, i) IN
            \/ start < i - 1 /\ DescriptorMatches(SubSeq(descs, start, i - 1), name)
            \/ MatchFrom(descs, name, next + 1, next)
       ELSE \/ i = Len(descs) /\ DescriptorMatches(SubSeq(descs, start, i), name)
            \/ MatchFrom(descs, name, i + 1, start)

NameMatch(descs, name) ==
    /\ descs # <<>> /\ name # <<>>
    /\ IEquals(descs, name) \/ MatchFrom(descs, name, 1, 1)
=============================================================================
