------------------------------ MODULE MCFsCache -----------------------------
(* Model-checking instances of FsCache, and the bounds of its run.         *)
EXTENDS FsCache, Naturals, TLC

CONSTANT MaxObservations

Symmetry == Permutations(Workers) \cup Permutations(Versions)

\* What is listed is a directory, and is not read as a file too.
ListsOrReads(w, p) ==
    LET node == session[w].archive.nodes[p]
        listed == \/ pending[w] # None /\ pending[w].op = "opendir"
                  \/ node # None /\ \E s \in {"names", "entries"} : node.slots[s] # None
    IN  session[w].mode = "record" /\ listed =>
            tree[p].kind = "dir" /\ (node = None \/ node.slots["content"] = None)

\* The slots that calls filled, an open with what it captures being one.
Observed(node) ==
    {s \in Slots : node.slots[s] # None}
        \ (IF IsOk(node.slots["open"]) THEN {"content", "stat:number", "stat:bigint"} ELSE {})

Observations(w, p) ==
    IF session[w].mode = "record" /\ session[w].archive.nodes[p] # None
    THEN {w} \X Observed(session[w].archive.nodes[p])
    ELSE {}

FewObservations ==
    \A p \in Paths :
        Cardinality(UNION {Observations(w, p) : w \in Workers}) =< MaxObservations

Bounded == FewObservations /\ \A w \in Workers, p \in Paths : ListsOrReads(w, p)
=============================================================================
