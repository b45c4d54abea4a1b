------------------------ MODULE MCTsConfigSelection ------------------------
(***************************************************************************)
(* A project with two packages, web and web/ui, and a tsconfig in each of  *)
(* its three directories.                                                  *)
(***************************************************************************)
EXTENDS TsConfigSelection

CONSTANTS main, page, root, web, ui

AllFiles == {main, page}
AllTsConfigs == {root, web, ui}

Paths ==
    [x \in {main, page, root, web, ui} |->
        CASE x = main -> <<"main.ts">>
          [] x = page -> <<"web", "ui", "page.ts">>
          [] x = root -> <<"tsconfig.json">>
          [] x = web  -> <<"web", "tsconfig.json">>
          [] x = ui   -> <<"web", "ui", "tsconfig.json">>]

\* The root references both packages; these reference each other.
Refs == [t \in {root, web, ui} |->
    CASE t = root -> <<ui, web>>
      [] t = web  -> <<ui>>
      [] t = ui   -> <<web>>]

\* What sonar.typescript.tsconfigPaths may list: up to two, in any order.
ListsOfTwo == {l \in BoundedSeq({root, web, ui}, 2) : IsInjective(l)}
=============================================================================
