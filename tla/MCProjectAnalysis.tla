------------------------- MODULE MCProjectAnalysis -------------------------
(***************************************************************************)
(* Three files, one of them a style sheet, and two tsconfigs,              *)
(* whose programs may have a library too.                                  *)
(***************************************************************************)
EXTENDS ProjectAnalysis

CONSTANTS module, script, style, library, base, package

AllFiles == {module, script, style}
Scripts == {module, script}
Libraries == {library}
AllTsConfigs == {base, package}
=============================================================================
