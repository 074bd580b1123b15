--------------------------- MODULE MCFileWatcher ---------------------------
(* Small packages: a chain with a shortcut, a cycle, a module that imports  *)
(* itself, an import of no file, and one alias used twice.                  *)
EXTENDS FileWatcher

MCFiles == {"main", "a", "b"}
Says(m, a, b) == ("main" :> m) @@ ("a" :> a) @@ ("b" :> b)
MCProjects ==
  {Says(<<<<"a", "a">>, <<"b", "b">>>>, <<<<"b", "b">>>>, << >>),
   Says(<<<<"a", "a">>, <<"again", "a">>>>, <<<<"b", "b">>, <<"none", "gone">>>>, << >>),
   Says(<<<<"a", "a">>>>, <<<<"b", "b">>>>, <<<<"a", "a">>>>),
   Says(<<<<"x", "a">>, <<"x", "b">>>>, << >>, << >>)}
=============================================================================
