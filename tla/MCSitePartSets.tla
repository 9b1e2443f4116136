--------------------------- MODULE MCSitePartSets ---------------------------
(* Small instances of SitePartSets for TLC. *)
EXTENDS SitePartSets, TLC

Symmetric == Permutations(Admins)

LocksUpTo(n) == \A s \in Sets, k \in Kinds : part[s][k].lock_version <= n
OneSet == Cardinality({s \in Sets : Stored(s)}) <= 1

\* Bound: a set of elements with a long history, a set of blocks with one that
\* outlives a release with another compiler, or several sets with a short one.
LongOrWide == \/ compiler = 1 /\ OneSet /\ \A s \in Sets \ Elements : ~Stored(s)
              \/ OneSet /\ LocksUpTo(3) /\ \A s \in Elements : ~Stored(s)
              \/ compiler = 1 /\ LocksUpTo(2)

BoundedSpec == Init /\ [][Next /\ LongOrWide']_vars
=============================================================================
