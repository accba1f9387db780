------------------------------ MODULE MCWatcher ------------------------------
(* Trees for the runs of Watcher: model values for the directories. *)
EXTENDS Watcher

CONSTANTS root, d, e

\* A file of one name in each of two directories, and an ignored one.
MCPath == {<<d, "x">>, <<e, "x">>, <<root, "ignored">>}
MCIgnored == {<<root, "ignored">>}
\* A file and the temporary file it is saved through.
MCSave == {<<root, "file">>, <<root, "temp">>}
\* A rule of a whole path: the file is ignored in one of the directories only.
MCRulePath == {<<d, "x">>, <<e, "x">>}
MCRule == {<<e, "x">>}
=============================================================================
