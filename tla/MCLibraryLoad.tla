----------------------------- MODULE MCLibraryLoad -----------------------------
(* The UI thread and the watcher, three loaders, and three things to find:   *)
(* three albums, one other album, and none.                                  *)
EXTENDS LibraryLoad

CONSTANTS a, b, c, d

TwoRootsAndNone == {<<a, b, c>>, <<d>>, <<>>}
================================================================================
