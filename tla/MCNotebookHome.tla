---------------------------- MODULE MCNotebookHome ---------------------------
(***************************************************************************)
(* The scenes the runs play.  Each gives the user a few operations that    *)
(* interfere and the world a part; together they are too many to check.    *)
(***************************************************************************)
EXTENDS NotebookHome, FiniteSetsExt, TLC

Play(size, ops, outsiders, watching, failing) ==
    {[notes |-> ns, ops |-> ops, outsiders |-> outsiders,
      watching |-> watching, failing |-> failing] : ns \in kSubset(size, Notes)}

\* The page at work: a rival writer, the watcher, selecting, creating.
PageScenes ==
    Play(1, {"overwrite", "retry"}, TRUE, FALSE, TRUE) \cup
    Play(1, {}, TRUE, TRUE, FALSE) \cup
    Play(2, {"select"}, FALSE, FALSE, TRUE) \cup
    Play(2, {"create"}, FALSE, FALSE, TRUE)

\* Notes that go away: deleting, renaming, reloading, closing.
FileScenes ==
    Play(2, {"delete", "select"}, FALSE, FALSE, FALSE) \cup
    Play(2, {"rename"}, FALSE, FALSE, TRUE) \cup
    Play(1, {"close", "overwrite", "reload"}, FALSE, FALSE, TRUE)

\* Where the editor must be given back and text must get to the disk.
ProgressScenes ==
    Play(1, {"retry"}, FALSE, FALSE, TRUE) \cup
    Play(2, {"create"}, FALSE, FALSE, FALSE) \cup
    Play(1, {"close", "retry"}, FALSE, FALSE, FALSE)

\* Single operations, for what goes wrong with them.
ReloadScenes == Play(1, {"reload"}, TRUE, FALSE, FALSE)
CreateAndSelectScenes == Play(2, {"create", "select"}, FALSE, FALSE, FALSE)
DeleteScenes == Play(2, {"delete"}, FALSE, FALSE, FALSE)

\* Init and the scenes leave every note and every content but Blank alike.
Symmetry == Permutations(Notes) \cup Permutations(Contents \ {Blank})
==============================================================================
