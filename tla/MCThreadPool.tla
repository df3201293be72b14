---------------------------- MODULE MCThreadPool ----------------------------
(* Small instances of ThreadPool for TLC. *)
EXTENDS ThreadPool

CONSTANTS importA, importB, meshA, meshB, plain

\* Two model imports that each enqueue one sub-task, and one plain task.
TwoImports == {importA, importB, meshA, meshB, plain}
TwoRoots == {importA, importB, plain}
TwoChildren == [t \in TwoImports |->
  CASE t = importA -> {meshA} [] t = importB -> {meshB} [] OTHER -> {}]

\* One import with two sub-tasks, and one plain task.
OneImport == {importA, meshA, meshB, plain}
OneRoots == {importA, plain}
OneChildren == [t \in OneImport |->
  IF t = importA THEN {meshA, meshB} ELSE {}]
=============================================================================
