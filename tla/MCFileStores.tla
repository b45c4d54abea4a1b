---------------------------- MODULE MCFileStores ----------------------------
(* Model-checking instance of FileStores.                                  *)
EXTENDS FileStores, TLC

CONSTANTS t1, t2, app, pkg

\* The IDE looks tsconfigs up, is given one, or excludes a manifest; a scanner looks
\* them up.
MCConfigurations ==
    {[sonarlint |-> TRUE, excluded |-> {}, provided |-> {}],
     [sonarlint |-> TRUE, excluded |-> {}, provided |-> {app}],
     [sonarlint |-> TRUE, excluded |-> {pkg}, provided |-> {}],
     [sonarlint |-> FALSE, excluded |-> {}, provided |-> {}]}

Symmetry == Permutations(TsConfigJsons)
=============================================================================
