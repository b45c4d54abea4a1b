--------------------------- MODULE MCProgramCache ---------------------------
(***************************************************************************)
(* Small projects to check ProgramCache on.                                *)
(***************************************************************************)
EXTENDS ProgramCache

CONSTANTS app, lib, v1, v2

Two == {app, lib}
TwoContents == {v1, v2}

\* A cache with room for both programs, and one without.
OneOrTwo == {1, 2}
OnlyTwo == {2}

\* Programs for orphan files in every request, or as the request says.
Always == {TRUE}
Either == BOOLEAN

\* app imports lib in its first content.
AppImportedLib == [f \in Files |-> [c \in Contents |->
    IF f = app /\ c = v1 THEN {lib} ELSE {}]]

\* A tsconfig of each file, one of both, or one of app only: lib is an orphan.
EachBothOrApp == {<<{app}, {lib}>>, <<{app, lib}>>, <<{app}>>}
\* A tsconfig of each of two files.
Each == {<<{app}, {lib}>>}
=============================================================================
