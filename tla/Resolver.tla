------------------------------ MODULE Resolver ------------------------------
(***************************************************************************)
(* resolver.go.  A resolver is a function from destinations to what it     *)
(* answers: another destination, Unknown (the empty string), or Fails.     *)
(***************************************************************************)
EXTENDS Integers, Sequences

CONSTANTS Dests, Unknown, Fails

ASSUME ResolverAssumption ==
  Unknown \notin Dests /\ Fails \notin Dests /\ Unknown # Fails

Resolvers == [Dests -> Dests \cup {Unknown, Fails}]

(* ResolveDest: the first resolver that fails or knows the destination. *)
ResolveDest(dest, resolvers) ==
  LET knows == {i \in 1..Len(resolvers) : resolvers[i][dest] # Unknown} IN
  IF knows = {} THEN Unknown
  ELSE resolvers[CHOOSE i \in knows : \A j \in knows : i <= j][dest]

(* The loop of ResolveDestN: loop[i] is where it is after i rounds.  Fails *)
(* stands for a resolver's error and for ErrResolveLimit.                  *)
ResolveLoop(dest, resolvers, rounds) ==
  LET loop[i \in 0..rounds] ==
        IF i = 0 THEN [dest |-> dest, done |-> FALSE]
        ELSE LET l == loop[i - 1]
                 d == IF l.done THEN Fails ELSE ResolveDest(l.dest, resolvers)
             IN IF l.done THEN l
                ELSE IF d = Fails THEN [dest |-> Fails, done |-> TRUE]
                ELSE IF d = Unknown THEN [dest |-> l.dest, done |-> TRUE]
                ELSE [dest |-> d, done |-> FALSE]
  IN IF loop[rounds].done THEN loop[rounds].dest ELSE Fails

(* Mutant: i <= depth. *)
ResolveDestNOnceMore(dest, resolvers, depth) ==
  ResolveLoop(dest, resolvers, depth + 1)

ResolveDestN(dest, resolvers, depth) == ResolveLoop(dest, resolvers, depth)

(* ResolveDests: what cannot be resolved is left out. *)
ResolveDests(dests, resolvers, depth) ==
  LET resolved[i \in 0..Len(dests)] ==
        IF i = 0 THEN <<>>
        ELSE LET d == ResolveDestN(dests[i], resolvers, depth)
             IN IF d = Fails THEN resolved[i - 1] ELSE Append(resolved[i - 1], d)
  IN resolved[Len(dests)]

-----------------------------------------------------------------------------
(* What resolving means: dest leads to e over fewer than depth hops, and   *)
(* no resolver knows e.                                                    *)
LeadsTo(dest, e, resolvers, depth) ==
  \E k \in 0..(depth - 1) : \E path \in [0..k -> Dests] :
    /\ path[0] = dest /\ path[k] = e
    /\ \A j \in 0..(k - 1) : ResolveDest(path[j], resolvers) = path[j + 1]
    /\ ResolveDest(e, resolvers) = Unknown
=============================================================================
