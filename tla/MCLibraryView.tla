----------------------------- MODULE MCLibraryView -----------------------------
(* The UI thread and the watcher, two loaders, and two roots.                *)
EXTENDS LibraryView

CONSTANTS a, b, c

TwoRoots == {<<a, b>>, <<c>>}
================================================================================
