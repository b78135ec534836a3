---------------------------- MODULE RouteLookup -----------------------------
(***************************************************************************)
(* The search of LuaServerApplication::create_handler (http-server) among  *)
(* the paths registered for a method, the keys of a std::map.  A path is a *)
(* sequence of characters; characters are numbers, ordered as char is.     *)
(***************************************************************************)
EXTENDS Integers, Sequences, SequencesExt

CONSTANT Slash

ASSUME SlashAssumption == Slash \in Nat

\* std::less on strings.
Less(s, t) ==
  \E n \in 0 .. Len(s) :
    /\ n < Len(t)
    /\ SubSeq(s, 1, n) = SubSeq(t, 1, n)
    /\ n = Len(s) \/ s[n + 1] < t[n + 1]

\* Mutant: lower_bound.
NotAbove_Below(keys, path) == {k \in keys : Less(k, path)}

\* What is before upper_bound.
NotAbove(keys, path) == {k \in keys : ~Less(path, k)}

\* Mutant: the end of the key need not be the end of a segment.
Matches_AnyPrefix(key, path) == IsPrefix(key, path)

Matches(key, path) ==
  /\ IsPrefix(key, path)
  /\ \/ Len(path) = Len(key)
     \/ path[Len(key) + 1] = Slash
     \/ key[Len(key)] = Slash

\* The key whose endpoint handles the path, as a set: empty if none does.  Only
\* the greatest key that is not above the path is looked at.
Lookup(keys, path) ==
  {k \in NotAbove(keys, path) :
     /\ Matches(k, path)
     /\ \A other \in NotAbove(keys, path) : ~Less(k, other)}

=============================================================================
