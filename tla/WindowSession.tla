---------------------------- MODULE WindowSession ----------------------------
(***************************************************************************)
(* The windows of the desktop application and what each may touch.         *)
(*                                                                         *)
(* Three tables, each under its own lock: the WindowSessionRegistry (which *)
(* window was opened for which file, and in which mode), the               *)
(* ExternalAccessGrants (what an opaque token allows) and the NotebookRoot *)
(* of every window.  Opening and destroying windows is work of the main    *)
(* thread; IPC commands run on Threads and take the locks one after the    *)
(* other, so every lock-protected block is a step of its own.  Only        *)
(* commit_prepared_notebook_promotion holds all three at once.             *)
(***************************************************************************)
CONSTANTS
    Windows,    \* window labels; every one but Main is a fresh UUID
    Main,       \* the label "main"
    Notes,      \* files opened as notes
    Documents,  \* files opened for conversion (.docx, .pdf, .xlsx, .xls)
    Tokens,     \* access tokens
    Threads,    \* threads that run IPC commands
    None

Files == Notes \cup Documents

ASSUME MainAssumption == Main \in Windows
ASSUME FilesAssumption == Notes \cap Documents = {}
ASSUME NoneAssumption == None \notin Windows \cup Notes \cup Documents \cup Tokens

VARIABLES
    live,       \* windows Tauri has
    sessions,   \* WindowSessionState.sessions
    labels,     \* WindowSessionState.labels_by_path
    grants,     \* ExternalAccessGrants
    roots,      \* windows with an entry in NotebookRoot
    opening,    \* the main thread that opens or cleans up a window
    cmd         \* the IPC command a thread runs

vars == <<live, sessions, labels, grants, roots, opening, cmd>>

Modes == {"workspace", "readonly", "edit", "import"}

\* payload, path_key, and the opened_file of an external payload.
Session == [mode : Modes, key : Files \cup {None}, token : Tokens \cup {None}]

\* fresh: expires_at lies ahead.
Grant == [owner : Windows, file : Notes, dir : BOOLEAN,
          write : BOOLEAN, fresh : BOOLEAN]

ASSUME RecordAssumption == None \notin Session \cup Grant

\* label: the window; old: the label whose traces are removed.
Opening == [step : {"idle", "grant", "register", "build", "unregister", "unroot",
                    "disown", "fallback"},
            label : Windows, file : Files \cup {None}, token : Tokens \cup {None},
            old : Windows \cup {None}]

Steps == {"idle", "owner", "upgrade", "enter", "downgrade", "prepare",
          "commit", "resolve", "put", "issue", "replace", "revoke"}

Ops == {"enable", "promote", "openExternal", "write", "saveAs", "saveImport",
        "revokeAccess"}

Command == [op : Ops, step : Steps, window : Windows,
            token : Tokens \cup {None}, file : Files \cup {None}]

Workspace == [mode |-> "workspace", key |-> None, token |-> None]

Idle == [step |-> "idle", label |-> Main, file |-> None, token |-> None, old |-> None]

Resting == [op |-> "enable", step |-> "idle", window |-> Main,
            token |-> None, file |-> None]

External(w) == sessions[w] # None /\ sessions[w].mode \in {"readonly", "edit"}
IsWorkspace(w) == sessions[w] # None /\ sessions[w].mode = "workspace"

FirstStep(f) == IF f \in Notes THEN "grant" ELSE "register"

Busy(w) == \E t \in Threads : cmd[t].step # "idle" /\ cmd[t].window = w

\* setup: the main window is there; with a file on the command line it is
\* opened in it, otherwise ensure_workspace("main").
Init ==
    /\ live = {Main}
    /\ labels = [f \in Files |-> None]
    /\ grants = [x \in Tokens |-> None]
    /\ roots = {}
    /\ cmd = [t \in Threads |-> Resting]
    /\ \/ /\ sessions = [w \in Windows |-> IF w = Main THEN Workspace ELSE None]
          /\ opening = Idle
       \/ /\ sessions = [w \in Windows |-> None]
          /\ \E f \in Files :
                opening = [Idle EXCEPT !.file = f, !.step = FirstStep(f)]

-----------------------------------------------------------------------------
(***************************************************************************)
(* The tables                                                              *)
(***************************************************************************)

\* WindowSessionRegistry::remove
Forget(w) ==
    /\ sessions' = [sessions EXCEPT ![w] = None]
    /\ labels' = [f \in Files |->
          IF sessions[w] # None /\ sessions[w].key = f THEN None ELSE labels[f]]

\* Mutant of Revoked: the grants of a window outlive it.
RevokedNothing(w) == grants

\* revoke_for_window
Revoked(w) == [x \in Tokens |->
    IF grants[x] # None /\ grants[x].owner = w THEN None ELSE grants[x]]

\* A UUID nothing refers to.
Unused(x) ==
    /\ grants[x] = None
    /\ opening.token # x
    /\ \A w \in Windows : sessions[w] # None => sessions[w].token # x
    /\ \A t \in Threads : cmd[t].token # x

Issue(x, f, w, write) ==
    /\ Unused(x)
    /\ grants' = [grants EXCEPT ![x] =
          [owner |-> w, file |-> f, dir |-> FALSE, write |-> write, fresh |-> TRUE]]

\* Mutant of Taken: the registry is not asked again under its lock.
NeverTaken(f, w) == FALSE

\* labels_by_path has the file under another label.
Taken(f, w) == labels[f] \notin {None, w}

Register(w, f, s) ==
    /\ sessions' = [sessions EXCEPT ![w] = s]
    /\ labels' = [labels EXCEPT ![f] = w]

-----------------------------------------------------------------------------
(***************************************************************************)
(* The main thread                                                         *)
(***************************************************************************)

\* open_external_file_in_window, the lookup: a live window that has the file is
\* only focused; the traces of a dead one are removed before the file is opened
\* again (IndexMatchesSessions and NothingLeftBehind: there never are any).
OpenFile(w, f) ==
    /\ opening = Idle
    /\ labels[f] \notin live
    /\ w \notin live /\ w # Main /\ sessions[w] = None
    /\ opening' = [step |-> IF labels[f] = None THEN FirstStep(f) ELSE "unregister",
                   label |-> w, file |-> f, token |-> None, old |-> labels[f]]
    /\ UNCHANGED <<live, sessions, labels, grants, roots, cmd>>

\* Mutant of GrantOpened: an opened file gets the rights of a saved one.
GrantOpenedWritable(x) ==
    /\ opening.step = "grant"
    /\ Issue(x, opening.file, opening.label, TRUE)
    /\ opening' = [opening EXCEPT !.step = "register", !.token = x]
    /\ UNCHANGED <<live, sessions, labels, roots, cmd>>

\* grant_for_existing_file
GrantOpened(x) ==
    /\ opening.step = "grant"
    /\ Issue(x, opening.file, opening.label, FALSE)
    /\ opening' = [opening EXCEPT !.step = "register", !.token = x]
    /\ UNCHANGED <<live, sessions, labels, roots, cmd>>

\* register_external, register_document_import
RegisterOpened ==
    /\ opening.step = "register"
    /\ ~Taken(opening.file, opening.label)
    /\ Register(opening.label, opening.file,
          [mode |-> IF opening.file \in Notes THEN "readonly" ELSE "import",
           key |-> opening.file, token |-> opening.token])
    /\ opening' = IF opening.label \in live THEN Idle
                                            ELSE [opening EXCEPT !.step = "build"]
    /\ UNCHANGED <<live, grants, roots, cmd>>

BuildWindow ==
    /\ opening.step = "build"
    /\ live' = live \cup {opening.label}
    /\ opening' = Idle
    /\ UNCHANGED <<sessions, labels, grants, roots, cmd>>

\* The opening is over; at start-up the main window becomes a workspace.
Ended == IF opening.file # None /\ opening.label \in live
         THEN [opening EXCEPT !.step = "fallback"] ELSE Idle

\* The file is gone.
GrantFails ==
    /\ opening.step = "grant"
    /\ opening' = Ended
    /\ UNCHANGED <<live, sessions, labels, grants, roots, cmd>>

\* The path is taken, or the document is gone; only a note has a grant by now.
RegisterFails ==
    /\ opening.step = "register"
    /\ opening' = IF opening.file \in Notes
                  THEN [opening EXCEPT !.step = "disown", !.old = opening.label]
                  ELSE Ended
    /\ UNCHANGED <<live, sessions, labels, grants, roots, cmd>>

\* create_workspace_window leaves its session behind.
BuildFails ==
    /\ opening.step = "build"
    /\ opening' = IF opening.file = None THEN Idle
                  ELSE [opening EXCEPT !.step = "unregister", !.old = opening.label]
    /\ UNCHANGED <<live, sessions, labels, grants, roots, cmd>>

\* open_startup_main_window: ensure_workspace
Fallback ==
    /\ opening.step = "fallback"
    /\ sessions' = [sessions EXCEPT ![opening.label] = IF @ = None THEN Workspace ELSE @]
    /\ opening' = Idle
    /\ UNCHANGED <<live, labels, grants, roots, cmd>>

\* create_workspace_window("main"): ensure_workspace, then build_window.
CreateWorkspace ==
    /\ opening = Idle
    /\ Main \notin live
    /\ sessions' = [sessions EXCEPT ![Main] = IF @ = None THEN Workspace ELSE @]
    /\ opening' = [Idle EXCEPT !.step = "build"]
    /\ UNCHANGED <<live, labels, grants, roots, cmd>>

\* attach_window_cleanup: WindowEvent::Destroyed comes to the main thread, where
\* no command of the window is under way.
Destroyed(w) ==
    /\ opening = Idle
    /\ w \in live /\ ~Busy(w)
    /\ live' = live \ {w}
    /\ opening' = [Idle EXCEPT !.step = "unregister", !.label = w, !.old = w]
    /\ UNCHANGED <<sessions, labels, grants, roots, cmd>>

\* WindowSessionRegistry::remove
Unregister ==
    /\ opening.step = "unregister"
    /\ Forget(opening.old)
    /\ opening' = [opening EXCEPT !.step = IF opening.file = None THEN "unroot" ELSE "disown"]
    /\ UNCHANGED <<live, grants, roots, cmd>>

\* NotebookRoot::remove_for
Unroot ==
    /\ opening.step = "unroot"
    /\ roots' = roots \ {opening.old}
    /\ opening' = [opening EXCEPT !.step = "disown"]
    /\ UNCHANGED <<live, sessions, labels, grants, cmd>>

\* revoke_for_window; after a dead window the file is opened.
Disown ==
    /\ opening.step = "disown"
    /\ grants' = Revoked(opening.old)
    /\ opening' = IF opening.old = opening.label THEN Ended
                  ELSE [opening EXCEPT !.step = FirstStep(opening.file), !.old = None]
    /\ UNCHANGED <<live, sessions, labels, roots, cmd>>

-----------------------------------------------------------------------------
(***************************************************************************)
(* IPC commands.  A command starts with its first lookup in the registry;  *)
(* one that is refused there changes nothing and is left out.              *)
(***************************************************************************)
tables == <<live, sessions, labels, grants, roots, opening>>

Begin(t, op, step, w, x, f) ==
    /\ cmd[t].step = "idle"
    /\ w \in live
    /\ cmd' = [cmd EXCEPT ![t] =
          [op |-> op, step |-> step, window |-> w, token |-> x, file |-> f]]
    /\ UNCHANGED tables

\* enable_external_edit: external_file_for
BeginEnable(t, w) ==
    /\ External(w)
    /\ Begin(t, "enable", "upgrade", w, sessions[w].token, sessions[w].key)

\* promote_external_file_to_notebook: the snapshot
BeginPromote(t, w) ==
    /\ External(w)
    /\ Begin(t, "promote", "owner", w, sessions[w].token, sessions[w].key)

\* open_external_notebook: assert_workspace
BeginOpenExternal(t, w, x) ==
    IsWorkspace(w) /\ Begin(t, "openExternal", "owner", w, x, None)

\* write_external_note_file for some file beside the note, or for a path that
\* leaves its directory (None): assert_external_edit
BeginWrite(t, w, f) ==
    /\ External(w) /\ sessions[w].mode = "edit"
    /\ Begin(t, "write", "owner", w, sessions[w].token, f)

\* save_external_note_as: assert_save_as_allowed, then the dialog
BeginSaveAs(t, w, f) ==
    /\ sessions[w] # None /\ sessions[w].mode \in {"workspace", "edit"}
    /\ Begin(t, "saveAs", "issue", w, None, f)

\* save_completed_document_to_target: label_for_path.  A conversion job is
\* one of an import session, and its page runs one save at a time.
BeginSaveImport(t, w, f) ==
    /\ sessions[w] # None /\ sessions[w].mode = "import"
    /\ labels[f] \in {None, w}
    /\ \A u \in Threads : ~(cmd[u].step # "idle" /\ cmd[u].op = "saveImport"
                                                 /\ cmd[u].window = w)
    /\ Begin(t, "saveImport", "issue", w, None, f)

BeginRevoke(t, w, x) == Begin(t, "revokeAccess", "owner", w, x, None)

Goto(t, step) == cmd' = [cmd EXCEPT ![t].step = step]
Done(t) == cmd' = [cmd EXCEPT ![t] = Resting]

AfterOwner == [promote |-> "prepare", openExternal |-> "prepare",
               write |-> "resolve", revokeAccess |-> "revoke"]

\* ExternalAccessGrants::assert_owner: it does not look at the expiry.
AssertOwner(t) ==
    LET g == grants[cmd[t].token] IN
    /\ cmd[t].step = "owner"
    /\ IF g # None /\ g.owner = cmd[t].window THEN Goto(t, AfterOwner[cmd[t].op])
                                              ELSE Done(t)
    /\ UNCHANGED tables

\* The grant is there and not expired; the caller asks for more.
Usable(x) == grants[x] # None /\ grants[x].fresh

\* An expired grant is removed by the call that finds it.
Refuse(t) ==
    /\ grants' = [x \in Tokens |->
          IF x = cmd[t].token /\ ~Usable(x) THEN None ELSE grants[x]]
    /\ Done(t)

Upgradable(t) ==
    /\ grants[cmd[t].token].owner = cmd[t].window
    /\ grants[cmd[t].token].file = cmd[t].file
    /\ ~grants[cmd[t].token].dir

\* enable_file_write
EnableFileWrite(t) ==
    LET x == cmd[t].token IN
    /\ cmd[t].step = "upgrade"
    /\ IF Usable(x) /\ Upgradable(t)
       THEN /\ grants' = [grants EXCEPT ![x].write = TRUE]
            /\ Goto(t, "enter")
       ELSE Refuse(t)
    /\ UNCHANGED <<live, sessions, labels, roots, opening>>

\* WindowSessionRegistry::enable_external_edit
EnterEdit(t) ==
    LET w == cmd[t].window IN
    /\ cmd[t].step = "enter"
    /\ IF External(w)
       THEN /\ sessions' = [sessions EXCEPT ![w].mode = "edit"]
            /\ Done(t)
       ELSE UNCHANGED sessions /\ Goto(t, "downgrade")
    /\ UNCHANGED <<live, labels, grants, roots, opening>>

\* disable_file_write
DisableFileWrite(t) ==
    LET x == cmd[t].token IN
    /\ cmd[t].step = "downgrade"
    /\ grants' = [grants EXCEPT ![x] =
          IF @ # None /\ ~@.dir THEN [@ EXCEPT !.write = FALSE] ELSE @]
    /\ Done(t)
    /\ UNCHANGED <<live, sessions, labels, roots, opening>>

\* A grant of the caller's own that is not a notebook yet.
Promotable(t) ==
    LET g == grants[cmd[t].token] IN
    /\ Usable(cmd[t].token)
    /\ g.owner = cmd[t].window
    /\ ~g.dir

\* prepare_notebook_promotion
Prepare(t) ==
    /\ cmd[t].step = "prepare"
    /\ \/ Promotable(t) /\ Goto(t, "commit") /\ UNCHANGED grants
       \/ ~Promotable(t) /\ Refuse(t)
    /\ UNCHANGED <<live, sessions, labels, roots, opening>>

\* canonical_readable_notebook_root: the directory is gone or unreadable.
PrepareFails(t) == cmd[t].step = "commit" /\ Done(t) /\ UNCHANGED tables

\* Mutant of Whole: the token keeps the right to write its file.
WholeKeepingWrite(g) == [g EXCEPT !.dir = TRUE]

\* The grant of a notebook: the whole directory, but no write by token.
Whole(g) == [g EXCEPT !.dir = TRUE, !.write = FALSE]

\* The session the promotion started from is still the window's.
SameSession(t) ==
    LET s == sessions[cmd[t].window] IN
    External(cmd[t].window) /\ s.token = cmd[t].token /\ s.key = cmd[t].file

\* The payload changes, the path stays the window's.
Promoted(s) == [s EXCEPT !.mode = "workspace", !.token = None]

\* Mutant of CommitPromotion: the session changes before the grant agrees.
CommitPromotionEarly(t) ==
    LET w == cmd[t].window  x == cmd[t].token IN
    /\ cmd[t].step = "commit" /\ cmd[t].op = "promote"
    /\ IF SameSession(t)
       THEN sessions' = [sessions EXCEPT ![w] = Promoted(@)]
       ELSE UNCHANGED sessions
    /\ IF SameSession(t) /\ Promotable(t)
       THEN /\ grants' = [grants EXCEPT ![x] = Whole(@)]
            /\ roots' = roots \cup {w}
            /\ Done(t)
       ELSE Refuse(t) /\ UNCHANGED roots
    /\ UNCHANGED <<live, labels, opening>>

\* promote_external around commit_prepared_notebook_promotion around set_for
CommitPromotion(t) ==
    LET w == cmd[t].window  x == cmd[t].token IN
    /\ cmd[t].step = "commit" /\ cmd[t].op = "promote"
    /\ \/ /\ SameSession(t) /\ Promotable(t)
          /\ grants' = [grants EXCEPT ![x] = Whole(@)]
          /\ roots' = roots \cup {w}
          /\ sessions' = [sessions EXCEPT ![w] = Promoted(@)]
          /\ Done(t)
       \/ SameSession(t) /\ ~Promotable(t) /\ Refuse(t) /\ UNCHANGED <<sessions, roots>>
       \/ ~SameSession(t) /\ Done(t) /\ UNCHANGED <<sessions, grants, roots>>
    /\ UNCHANGED <<live, labels, opening>>

\* open_external_notebook: the same commit without the session lock
CommitOpenExternal(t) ==
    LET x == cmd[t].token IN
    /\ cmd[t].step = "commit" /\ cmd[t].op = "openExternal"
    /\ \/ /\ Promotable(t)
          /\ grants' = [grants EXCEPT ![x] = Whole(@)]
          /\ roots' = roots \cup {cmd[t].window}
          /\ Done(t)
       \/ ~Promotable(t) /\ Refuse(t) /\ UNCHANGED roots
    /\ UNCHANGED <<live, sessions, labels, opening>>

\* open_notebook
OpenNotebook(w) ==
    /\ w \in live /\ IsWorkspace(w)
    /\ roots' = roots \cup {w}
    /\ UNCHANGED <<live, sessions, labels, grants, opening, cmd>>

\* The files beside one another that a grant covers.
Reach(g) == IF g.dir THEN Notes ELSE {g.file}

Writable(x, f) == Usable(x) /\ grants[x].write /\ f \in Reach(grants[x])

\* resolve_file_inner(.., for_write): the path may also be gone or unreadable.
Resolve(t) ==
    /\ cmd[t].step = "resolve"
    /\ \/ Writable(cmd[t].token, cmd[t].file) /\ Goto(t, "put") /\ UNCHANGED grants
       \/ Refuse(t)
    /\ UNCHANGED <<live, sessions, labels, roots, opening>>

\* The write of FileMutation.
Put(t) == cmd[t].step = "put" /\ Done(t) /\ UNCHANGED tables

\* Mutant of IssueSaved: every copy takes the place of the window's file.
IssueSavedReplacing(t, x) ==
    /\ cmd[t].step = "issue"
    /\ Issue(x, cmd[t].file, cmd[t].window, TRUE)
    /\ cmd' = [cmd EXCEPT ![t].step = "replace", ![t].token = x]
    /\ UNCHANGED <<live, sessions, labels, roots, opening>>

\* grant_for_saved_file once the file is written
IssueSaved(t, x) ==
    /\ cmd[t].step = "issue"
    /\ Issue(x, cmd[t].file, cmd[t].window, TRUE)
    /\ IF cmd[t].op = "saveAs" THEN Done(t)
       ELSE cmd' = [cmd EXCEPT ![t].step = "replace", ![t].token = x]
    /\ UNCHANGED <<live, sessions, labels, roots, opening>>

\* The dialog is cancelled or the file cannot be written.
SaveFails(t) == cmd[t].step = "issue" /\ Done(t) /\ UNCHANGED tables

\* Mutant of Replace: the path of the document stays in the index.
ReplaceKeepingOldKey(t) ==
    LET w == cmd[t].window  f == cmd[t].file IN
    /\ cmd[t].step = "replace"
    /\ IF ~Taken(f, w)
       THEN /\ Register(w, f, [mode |-> "edit", key |-> f, token |-> cmd[t].token])
            /\ Done(t)
       ELSE UNCHANGED <<sessions, labels>> /\ Goto(t, "revoke")
    /\ UNCHANGED <<live, grants, roots, opening>>

\* replace_document_with_external_edit
Replace(t) ==
    LET w == cmd[t].window  f == cmd[t].file IN
    /\ cmd[t].step = "replace"
    /\ IF sessions[w] # None /\ ~Taken(f, w)
       THEN /\ sessions' = [sessions EXCEPT ![w] =
                  [mode |-> "edit", key |-> f, token |-> cmd[t].token]]
            /\ labels' = [labels EXCEPT ![sessions[w].key] = None, ![f] = w]
            /\ Done(t)
       ELSE UNCHANGED <<sessions, labels>> /\ Goto(t, "revoke")
    /\ UNCHANGED <<live, grants, roots, opening>>

\* revoke
Revoke(t) ==
    /\ cmd[t].step = "revoke"
    /\ grants' = [grants EXCEPT ![cmd[t].token] = None]
    /\ Done(t)
    /\ UNCHANGED <<live, sessions, labels, roots, opening>>

\* EXTERNAL_GRANT_IDLE_TIMEOUT without a use
Expire(x) ==
    /\ Usable(x)
    /\ grants' = [grants EXCEPT ![x].fresh = FALSE]
    /\ UNCHANGED <<live, sessions, labels, roots, opening, cmd>>

-----------------------------------------------------------------------------

MainThread ==
    \/ \E w \in Windows, f \in Files : OpenFile(w, f)
    \/ \E x \in Tokens : GrantOpened(x)
    \/ RegisterOpened \/ BuildWindow \/ CreateWorkspace
    \/ GrantFails \/ RegisterFails \/ BuildFails \/ Fallback
    \/ \E w \in Windows : Destroyed(w)
    \/ Unregister \/ Unroot \/ Disown

BeginCommand(t) == \E w \in Windows :
    \/ BeginEnable(t, w) \/ BeginPromote(t, w)
    \/ \E f \in Notes \cup {None} : BeginWrite(t, w, f)
    \/ \E f \in Notes : BeginSaveAs(t, w, f) \/ BeginSaveImport(t, w, f)
    \/ \E x \in Tokens : BeginOpenExternal(t, w, x) \/ BeginRevoke(t, w, x)

StepCommand(t) ==
    \/ AssertOwner(t) \/ EnableFileWrite(t) \/ EnterEdit(t) \/ DisableFileWrite(t)
    \/ Prepare(t) \/ PrepareFails(t) \/ CommitPromotion(t) \/ CommitOpenExternal(t)
    \/ Resolve(t) \/ Put(t) \/ SaveFails(t) \/ Replace(t) \/ Revoke(t)
    \/ \E x \in Tokens : IssueSaved(t, x)

Next ==
    \/ MainThread
    \/ \E t \in Threads : BeginCommand(t) \/ StepCommand(t)
    \/ \E w \in Windows : OpenNotebook(w)
    \/ \E x \in Tokens : Expire(x)

Spec == Init /\ [][Next]_vars

-----------------------------------------------------------------------------
(***************************************************************************)
(* Properties                                                              *)
(***************************************************************************)

Types ==
    /\ live \subseteq Windows
    /\ sessions \in [Windows -> Session \cup {None}]
    /\ labels \in [Files -> Windows \cup {None}]
    /\ grants \in [Tokens -> Grant \cup {None}]
    /\ roots \subseteq Windows
    /\ opening \in Opening
    /\ cmd \in [Threads -> Command]

StepsOf == [enable |-> {"upgrade", "enter", "downgrade"},
            promote |-> {"owner", "prepare", "commit"},
            openExternal |-> {"owner", "prepare", "commit"},
            write |-> {"owner", "resolve", "put"},
            saveAs |-> {"issue"},
            saveImport |-> {"issue", "replace", "revoke"},
            revokeAccess |-> {"owner", "revoke"}]

StepsFit == \A t \in Threads : cmd[t].step \in {"idle"} \cup StepsOf[cmd[t].op]

\* The variables keep their types, and every command takes the locks of its
\* own kind only: just the copy of an import replaces the window's session.
TypeOK == Types /\ StepsFit

\* The path index and the sessions tell the same story, whatever openings,
\* failures, promotions and saves interleave: it has a label for a path
\* exactly when that window's session has the path (window_session.rs:202).
IndexMatchesSessions ==
    \A f \in Files, w \in Windows :
        labels[f] = w <=> sessions[w] # None /\ sessions[w].key = f

\* The token a window was opened with writes its file only once the window
\* is in edit mode, or for the moment enable_external_edit needs to get
\* there; a failed upgrade is taken back (window_session.rs:560-569).
WriteMeansEdit ==
    \A w \in Windows : External(w) =>
        LET x == sessions[w].token IN
        grants[x] # None /\ grants[x].write =>
            \/ sessions[w].mode = "edit"
            \/ \E t \in Threads : /\ cmd[t].step = "enter"
                                  /\ cmd[t].window = w /\ cmd[t].token = x

\* Session and root change together: of the windows that are there only a
\* workspace has a notebook root, and a promoted one always has one (spec/decisions.md:177).
RootsAreWorkspaces ==
    \A w \in Windows :
        /\ w \in roots \cap live => IsWorkspace(w)
        /\ IsWorkspace(w) /\ sessions[w].key # None => w \in roots

\* A label without a window keeps nothing: no root, no grant and no session
\* but the empty one create_workspace_window leaves when it cannot build. The
\* clean-up of a destroyed window and of a failed opening takes three locks one
\* after the other while other windows go on.
NothingLeftBehind ==
    \A w \in Windows \ live :
        opening = Idle \/ w \notin {opening.label, opening.old} =>
        /\ w \notin roots
        /\ sessions[w] \in {None, Workspace}
        /\ \A x \in Tokens : grants[x] = None \/ grants[x].owner # w

\* A write is only let through for a window in edit mode and to the very
\* file it was opened for, even when a promotion commits between the check
\* of the mode and the use of the token (fs_ops.rs:591-594).
WritesStayInTheSession ==
    [][\A t \in Threads : cmd[t].step = "resolve" /\ cmd'[t].step = "put" =>
          LET w == cmd[t].window IN
          /\ External(w) /\ sessions[w].mode = "edit"
          /\ cmd[t].file = sessions[w].key
          /\ grants[cmd[t].token].file = sessions[w].key
          /\ grants[cmd[t].token].owner = w]_vars

Held == [w \in Windows |-> IF sessions[w] = None THEN None ELSE sessions[w].key]
Right == [w \in Windows |-> IF sessions[w] = None THEN "none" ELSE sessions[w].mode]

Ownership == INSTANCE FileOwnership WITH held <- Held, right <- Right

\* The registry implements the abstract ownership of files.
ImplementsOwnership == Ownership!Spec
=============================================================================
