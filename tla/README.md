# A verification project for JotLuck

JotLuck is a local-first Markdown notebook: a Vue 3 application in a Tauri 2
window, with a Rust side that owns the files. A note is a plain file in a folder
of the user, and other programs (a sync client, another editor, a second window)
use the same folder. There is no save button in the normal flow: what is typed
has to get to the disk by itself, must not overwrite what somebody else wrote,
and must survive switching, renaming, closing and power loss. This directory
holds TLA+ models of that core, the TLC runs that check them and TLAPS proofs.

## 1. Inventory

Paths are relative to `src/packages/app/src` (page) and
`src/packages/app/src-tauri/src` (Rust).

### The components modelled so far

**Coordinated file mutation** (`fs_ops.rs`). State: the files, a registry from
mutation keys to weak references of mutexes, the temporary file of each call.
Operations: conditional write, plain write, delete, rename, all inside
`FileMutationCoordinator::with_paths`. Tauri runs the synchronous commands, and the
file commands are synchronous, on the main thread; `with_paths` is written for
any thread and does not rely on that, so the model lets every step of two
commands interleave. Other programs write between any two steps; power may
fail. Correct means: one command at a time per file, however its path is spelled, no
deadlock of crossing renames, no save over another command's write, never a half
written note, an acknowledged save survives a power loss, no forgotten temporary
file.

**Save pipeline** (`composables/useSavePipeline.ts`). State: `isDirty`,
`currentContent`, `currentDiskRevision`, the save timer, the chain of save tasks
(`currentSavePromise`), `saveIssue`, `isSaving`, and three counters that tell
whether a captured value is still current (`contentRevision`, `saveGeneration`,
`localWriteEpoch`). Operations: `scheduleSave`, `debouncedSave`,
`flushPendingCurrentSave`, `retryCurrentSave`, and the editor's
`onContentUpdate`. A save awaits four times (the task before it, the write, the
index refresh, the feedback of the editor), and the user types at each of them.
Correct means: a clean page has nothing unsaved, a dirty page resolves or says
why not, a save expects a version the user knows of.

**Notebook page** (`pages/NotebookHome.vue`): `onSelectNote`, `confirmNewFile`
and its siblings, `onDeleteFile`, `onRenameFile`. Each flushes the pipeline,
awaits the Rust side one to three times and then replaces the page's state.
Selections overtake each other (`noteSelectionVersion`); a shared boolean
`isNoteSwitching` locks the editor. Correct means: typed text is never replaced
before it was saved, the editor is given back, errors can be acted on.

**Recovery dialog and closing** (`pages/NotebookHome.vue`):
`overwriteCurrentDiskVersion`, `reloadCurrentFromDisk`,
`discardUnsavedAndClose`, `cancelUnsavedExit`, `requestDesktopWindowClose`,
`closeCurrentWindow`. Correct means: only what the user chose is lost.

**Watcher refresh, page side** (`pages/NotebookHome.vue`): events are collected
for 120 ms, the tree and the index are refreshed, then the open note is read
again and adopted if the page is clean and nothing happened meanwhile.

**Windows, sessions and grants** (`window_session.rs`, `lib.rs`, `fs_ops.rs`).
State: which window was opened for which file and in which mode, the index from
paths to windows, the tokens with their rights, the notebook root of each
window; three tables under three locks. Operations: opening a file in a window
(with its failures), edit, promotion to a workspace, opening an external file in
a workspace, writing with a token, the two ways of saving a copy, revoking,
destroying a window. Correct means: a file has one window, the tables agree,
rights follow the session, nothing outlives its window.

**Notebook switching with watcher, index and uploads** (`pages/NotebookHome.vue`,
`services/TauriIPCService.ts`, `file_watcher.rs`, `composables/useImageUpload.ts`,
`stores/notebookIndex.ts`). State: the root of the backend and that of the page,
the gate, two locks, several generations and request numbers, the service's
chain of watcher transitions, the OS watcher and its events, the index, the
queue of pictures, the chain of saves. Correct means: everything is about one notebook once the
switch is over, whatever failed; the notebook is watched; the switch ends.

**Document import** (`document_import.rs`, `pages/ExternalReaderPage.vue`). State: a
job per conversion with flags and a private directory, the registry, the gate,
the worker process and its channel, the watcher on the source, what the page
shows. Correct means: nothing is left behind, the gate is not leaked, an
outdated conversion is not saved, cancelling ends a conversion.

### How they interact

    editor --onContentUpdate--> save pipeline --writeFileIfUnchanged--> Rust
    page operations --flush--> save pipeline        page --IPC--> Rust
    Rust (with_paths) --rename, replace, delete--> folder <-- other programs
    folder --notify--> file_watcher.rs --file-change--> page --> pipeline state
    page --watch, unwatch--> TauriIPCService (a chain) --start, stop--> file_watcher.rs
    windows --commands--> sessions, grants, roots <-- open, Destroyed (main thread)
    page --start, cancel, save--> document_import.rs --frames--> page

Calls to the Rust side are messages with an answer; the page runs on one
JavaScript thread and interleaves only at awaits. Pipeline and page share their
state: the pipeline receives the page's refs and callbacks.

### The other components

`PROJECT.json` lists all 37 components with their status. Not modelled: version
review, navigation, search and the contents of the index, the completion decoder
and the ReInk engine with their processes, themes, image resolving, and the pure
converters (export, templates, renderer, predictor, the document converters),
which keep no state that a model checker would help with. They, the build and
training scripts and the styling of the components are by far the largest part
of the repository, so the models stand for a small share of its lines: for the
part in which several actors change shared state.

## 2. Modules

| module | models | built on |
| --- | --- | --- |
| `FileMutation` | `with_paths` and the file commands, step by step | |
| `AtomicFiles` | what those commands promise: one step each | |
| `FileMutationProofs` | theorems about `FileMutation` | `FileMutation` |
| `FileMutationRefinement` | `FileMutation` implements `AtomicFiles` | `FileMutationProofs` |
| `MCFileMutation` | symmetry for the runs | `FileMutation` |
| `SavePipeline` | typing, timer, save tasks, flush, shortcut | |
| `NotebookHome` | the page's operations, dialog, closing, watcher, Next | `SavePipeline` |
| `NotebookHomeInvariant` | its inductive invariant, for all operations | `NotebookHome` |
| `NotebookHomeProofs` | theorems about `NotebookHome` | `NotebookHomeInvariant` |
| `NotebookHomeMoves` | theorems about leaving a note: select, create, close | `NotebookHomeProofs` |
| `MCNotebookHome` | the scenes of the runs, symmetry | `NotebookHome` |
| `WindowSession` | windows, sessions, grants and roots under their locks | |
| `FileOwnership` | what they promise: a file has one owner, rights only grow | |
| `WindowSessionProofs` | theorems, and the refinement of `FileOwnership` | `WindowSession` |
| `MCWindowSession` | symmetry | `WindowSession` |
| `NotebookSwitch` | switching notebooks, watcher, listing, index, an image | |
| `NotebookSwitchProofs` | theorems about `NotebookSwitch` | `NotebookSwitch` |
| `MCNotebookSwitch` | its instance | `NotebookSwitch` |
| `DocumentImport` | conversion jobs, gate, worker, saving a copy, the page | |
| `DocumentImportProofs` | theorems about `DocumentImport` | `DocumentImport` |
| `MCDocumentImport` | its instance | `DocumentImport` |

The layers meet at the commands. `AtomicFiles` lets callers treat a command as one
step between call and answer, and `NotebookHome` does: a command is sent,
executed in one step and answered (`calls`, `answers`). It may fail before its
effect. A save or a creation may also fail after it, as `AtomicFiles` allows: the
directory could not be synchronised. Deleting and renaming are one system call.

### FileMutation

`Paths` are what the commands are called with, `FileAt` the file the file system finds
there and `KeyAt` the mutation key. `PathsAssumption` says that two paths of one file
have one key: `resolve_safe_path` canonicalises the paths of existing files, and
`mutation_path_key` lowers the case on Windows. It excludes one corner of the
code: two spellings of a note that does not exist yet, on a volume that ignores
case under macOS, get two keys.

`pc` is where a call is, `request` its arguments, `refs` and `guards` the Arcs and
the MutexGuards it owns, `registry` the coordinator's map. `Fetch` is the block
under the registry lock (prune, then upgrade or insert), `Lock` takes the next
mutex in key order, `FirstCheck`, `CreateTemp`, `FillTemp` (`write_all`),
`FlushTemp` (`sync_all`), `FinalCheck`, `Replace`, `SyncDirectory` are the steps
of a conditional write, `Delete` and `Rename` one step each. Every step may fail,
and each error and conflict path has its own `remove_file`, whose failure the code
ignores: the file then is `"left"` (`RemoveTemp`). A revision is a hash of the
content, so it is the content here. `Outside` and `PowerLoss` are the environment.
A power loss drops any subset of directory entries that were not synchronised, and
tears the bytes of any file that was renamed into place before they were
(`unflushed`). A temporary file that a failed removal or a power loss leaves
behind is not tracked further; the program does not clean it up either, and
`NoStrayTemp` is about files nobody tried to remove.

### SavePipeline and NotebookHome

An action is what the page runs between two awaits that leave the JavaScript job
queue; continuations that only wait for promises of the page run first, which
`Quiet` says. So `StartTask`, `Flush(o)`, `FlushGoesOn(o)` and the `...Flushed`
actions have priority over user input, timers and answers.

- `tasks` is the chain that ends in `currentSavePromise`; the head runs. Its
  stages are the awaits of `debouncedSave`: queued, calling, indexing, settling.
- `jobs[o]` is the handler of operation `o` that is in progress, with its own stage
  and captured values. There is at most one handler of each operation at a
  time, except selections, of which the latest waits in `queued`.
- The counters are modelled by who holds a current capture: `current`,
  `task.fresh` (`contentRevision`), `task.mine` (`saveGeneration`), `pinned` (the
  issue object a reload started from). The code only compares them for
  equality, so nothing is lost and nothing needs a bound.
- `dialog` is `showScratchExitDialog` with its intent; `locked` is
  `isNoteSwitching`; `lamp` is the delayed switch-off of `isSaving`.
- `unsaved`, `lost` and `known` are history variables: text was typed and no save of
  it hit the disk; such text was replaced without consent; the versions of a
  note the user has seen or written.
- A save is of the one notebook of this module. What `debouncedSave` checks of root,
  generation and `isNotebookOpening` before it writes is in `NotebookSwitch` (`StartSave`).
- `scene` is what the user and the world do in a behaviour: which notes, which
  operations, whether other programs write, the watcher delivers, commands
  fail. It is fixed by `Init`; all operations at once are too many to check.

### WindowSession and FileOwnership

`cmd[t]` is the IPC command a thread runs and the next lock-protected block it has
to run; a block is an action, and commands interleave between blocks. `opening` is
the main thread: inside `open_external_file_in_window` (look up, forget a stale
entry, revoke its grants, grant, register, build, with the roll-back after each),
or cleaning up after a destroyed window, which takes three locks in three steps
(`Unregister`, `Unroot`, `Disown`), as the code does. `sessions`, `labels`,
`grants` and `roots` are the tables. Only `commit_prepared_notebook_promotion`
holds all three locks and is one step. `Reach` and `Writable` are the checks of
`resolve_file_inner`: a token for a file writes that file and none beside it, a
token for a directory any of it. On the desktop Tauri runs these synchronous
commands on the main thread: that is one of the schedules explored, and the code
does not rely on it but in one place: a window's `Destroyed` is handled on the
same thread, hence when no command of that window is in flight (`~Busy(w)`).
Assumed besides: UUIDs are fresh. The refinement mapping reads the owner of a file
and the right of a window off the sessions alone. After a promotion the session
keeps its path, so opening that file again only focuses the window.

### NotebookSwitch

`sw` is `performOpenNotebook` at one of its awaits, `svc` the service's chain of
`watch` and `unwatchAll`, `os` the watcher of the window with its generation,
`wire` the events that were emitted and not delivered, `refresh` the batch, its
timer and the chain of flushes, `tasks` whatever lists the notebook (a refresh of
the tree, the background listing, a flush, a creation), `image` the upload at the
head of the queue with the pictures behind it (`tail`), `saves` the chain of
saves. A switch runs beside all of them. The picker may answer, answer nothing or
fail (`PickFails`); the picture may turn out not to be insertable, and taking its
file away again may fail. A picture gets in under a switch only through an
operation on a note that releases the shared lock (finding 2); a save also from
the timer of an edit, while the switch waits for the uploads. `Init` is a window
at the gate, or settled in an indexed and watched notebook: the start of the
application, the guided sample and external sessions are not modelled. IPC calls
are answered in order, and `listen()` after the events emitted before it. The
flush of the save pipeline is an await that may be refused and that waits for the
chain of saves; what is saved and which version it expects is `SavePipeline`'s
subject, in which notebook it ends up is this module's. A save that waited behind
another one checks root, generation, opening and note when it starts
(`StartSave`); one that waits for none starts at once. From there the model relies
on commands being executed in the order of their calls (they are synchronous and
run on the main thread): a write that was called is done before a later
`open_notebook` moves the root.

### DocumentImport

`job[j]` is a `ConversionJob` and where its thread is (`stage`), its worker, its
watcher and the events on its channel; `registry` and `active` are
`DocumentImportInner.jobs` and `WorkerGate.active`; `main` is the command the main
thread is in, with the jobs it still has to cancel; `page`, `calls`, `replies` are
the page. The commands of a window are synchronous and run one after the other,
including the save dialog and what follows `Destroyed`; threads, workers and
watcher callbacks run beside them. A revision is hash, size and time, so a number
that is never reused: a file that vanishes and comes back unchanged is not
modelled. `cancel()` is two steps, flag and kill, because the lock of the child
lies between. Removing a directory may fail, and the error is ignored, while files
in it are in use: by the thread that copies the source, by a running worker, and
by one that was killed and not waited for (`Dying`); otherwise it succeeds. A
worker that was started and not given its request (`"orphan"`) uses no file; it
ends because its pipes are closed. The end of the process is not modelled: it
leaves the directories it had, and nothing sweeps the temporary folder later. The
page's path for chunks out of order is not reachable: the thread compares their
numbers before it passes them on and the channel keeps the order. Frames, assets
and warnings, the converters and the worker's side are left out. A job that no
thread and no registry holds is normalised (`Dropped`).

## 3. Runs

| run | scenes | checks |
| --- | --- | --- |
| `FileMutation_crossing` | 2 threads, 2 files of which one has two spellings, all commands, outsiders | types, deadlock, forgotten files, refinement of `AtomicFiles` |
| `FileMutation_race` | 3 threads, 1 file, 2 contents, outsiders, power loss | exclusion, lost updates, torn notes, durability |
| `NotebookHome_page` | overwrite and retry against outsiders and failures; watcher against outsiders; selections with failures; creating with failures | `NoTypingLost`, `CleanIsBaseline`, `ErrorIsActionable`, `IssueIsAboutTheNote`, `NoBlindOverwrite` |
| `NotebookHome_files` | delete and select; rename with failures; close, overwrite and reload with failures | `TypeOK`, `CleanMeansSaved`, `SavesGoToTheOpenNote` |
| `NotebookHome_progress` | retry with failures; create; close and retry; under fairness | `SavingHasACause`, `DirtyResolves`, `LockEnds` |
| `NotebookHome_discard` | reload against outsiders | violated: `DiscardedStaysDiscarded` |
| `NotebookHome_unlock` | create and select | violated: `NoTypingLost` |
| `NotebookHome_wedge` | delete | violated: `ErrorIsActionable` |
| `WindowSession_all` | 2 windows, two notes beside one another and a document, 2 tokens, 2 threads | types, `IndexMatchesSessions`, `WriteMeansEdit`, `RootsAreWorkspaces`, `NothingLeftBehind`, `WritesStayInTheSession`, refinement of `FileOwnership` |
| `NotebookSwitch_all` | 2 notebooks, 2 switches, 2 faults or disturbances | types, `RootsAgree`, `ShowsOneNotebook`, `WatcherIsHeard`, `OwnEventsOnly`, `NoSilentOrphan`, `SavesStayHome`, under fairness `SwitchEnds`, `WatchedAgain` |
| `NotebookSwitch_rebuilt` | one switch, one disturbance, no fault | violated: `IndexIsRebuilt` |
| `DocumentImport_all` | a window, 2 conversions, 1 permit, 2 changes of the document | types and gate, `NoTempLeak`, `SavedIsCurrent`, under fairness `CancelEnds`, `ConversionEnds` |

Every property of a passing run has a mutant in the module it guards: a small
plausible bug (a check left out, a timer not cancelled, a revision not kept)
under which TLC finds the property violated.

### Bounds

- Threads and files: a circular wait of renames needs two threads and two
  files; lost updates and the pruning of the registry need a third thread that
  fetches while one holds and one waits.
- Contents: `c0` is the empty note and `c1` anything else. Two suffice to tell a
  draft from a version on disk and a stale answer from a fresh one. A
  consequence: typing back to the saved text makes the draft equal to the disk.
- Notes: two, the one shown and another; one where the operations stay on it.
- `MaxTasks = 2` bounds only `TimerFires`: the timer does not fire while two tasks
  are queued. Operations push tasks regardless, so chains get longer than that.
- The watcher's events are a set per note, not a list: a batch is a set in the
  code too, as it looks only for the open path and for kinds.
- `Outside` is not bounded: other programs may write for ever.
- Windows: two, one of them `main`; a race for a path or a promotion needs two.
  Notes: two, as a token must not reach the file beside its own. Tokens: two, so
  that a window's token meets one being issued.
- Switches: two, so that what the first left under way (a listing, a flush, a
  watcher that starts, an image) meets the second. `MaxFaults` bounds the IPC
  calls that fail, `MaxDisturb` the watcher events, operations, images and saves,
  `MaxUpsets` both together; a roll-back that fails needs two faults. The
  removal of a picture may fail without being counted: it ends the upload. `MaxSaves`
  bounds the chain of saves. A save under way and the one that waits behind it count
  as one disturbance: for the latter to start under a switch an operation must have
  released the lock as well.
- Conversions: two of one window contend for the single permit, which a third
  could only queue behind; two windows multiply the states (over 12 million)
  without sharing more than the gate. `MaxEdits = 2`: a change during the
  conversion and one during the save.

### Fairness

`WF(Continuation)`: promise continuations run. `WF(Backend)`: the Rust side
executes the commands it is sent; `FileMutation` shows it cannot deadlock. `SF` of
`SaveEvent`, `OperationEvent`, `WatchEvent` and `LampOff`: an event of the page is
disabled for an instant whenever continuations run (`Quiet`), and the browser's
task queue starves none of them. `SF(TimerFires)`: typing resets the timer, and
then it need not fire; if it is armed again and again it eventually fires.
Nothing is assumed of the user, of other programs or of failures.

In `NotebookSwitch`: `WF` of the switch, the service's chain, the delivery of
events, the page's tasks and the upload, as promises and commands are run; of
`User`, who closes the picker; and of `FocusRetry`: a watcher that could not be
started is only started again when the user comes back to the window, which
`WatchedAgain` therefore assumes. In `DocumentImport`: `WF` of each job's thread, of the
main thread (the user closes the save dialog), of messages, and of a worker
whose output is read (`WorkerDrained`). A worker whose output nobody reads need
not end.

## 4. Findings

Four runs expect a violation; the traces are short, and `PROJECT.json` quotes the
documents they contradict.

1. `NotebookHome_discard`: `reloadCurrentFromDisk` does not cancel the scheduled
   save. Type, get a conflict from an earlier save, choose "reload": the timer
   then saves the discarded draft, expecting the revision just adopted.
2. `NotebookHome_unlock`: `isNoteSwitching` is one boolean for all operations. A
   creation that ends unlocks the editor while a selection is still under way,
   and the selection replaces what was typed since.
3. `NotebookHome_wedge`: the editor stays writable while the open note is deleted.
   A save scheduled meanwhile fails after the note was closed; its issue then
   blocks every operation, and with no note open no button resolves it.
4. `NotebookSwitch_rebuilt`: the background listing after a switch gives way to any
   later `refreshFileTree`, as when a note is created meanwhile, and then nobody
   builds the index of the opened notebook; no warning is shown.

Four more were met in the same way and can be reproduced by giving
`MCNotebookHome` the scene named here:

- cancelling the recovery dialog unlocks the editor under a close request
  (`{"close"}` with failures: `NoTypingLost`), and under a selection or creation
  (`{"select"}` and `{"create"}` with outsiders: `CleanMeansSaved`, `NoTypingLost`);
- renaming the open note during a save moves `saveGeneration` on with no new save,
  so nothing switches the saving indicator off (`{"rename"}`: `SavingHasACause`),
  and text typed during the renaming is saved to the old path, which ends in an
  issue that names it (`{"rename"}`: `IssueIsAboutTheNote`);
- text typed under a disk issue is not scheduled, and an overwrite under way
  that clears the issue leaves it so (`{"overwrite"}` with outsiders:
  `DirtyResolves`).

The passing runs leave these scenes out of those properties, and only of those.

Met in the other modules:

- `DocumentImport`: `cancel()` sets the flag before it takes the lock of the child. A
  thread that leaves the loop over the frames on the flag then holds that lock
  and waits for a worker whose output nobody reads any more; if the output does
  not fit the pipe, thread, worker and main thread wait for ever. `doc/PRD.md:39` wants the
  process terminated: `CancelEndsTheWorker`, which TLC finds violated with one
  conversion. `CancelEnds` and `ConversionEnds` name this wait (`Hung`) as their exception.
- `DocumentImport`: when reading fails, the worker is killed but not waited for and its
  directory removed at once; what the dying worker still holds stays, the error is
  ignored and nothing comes back to it. The same line of the requirements wants
  the data cleaned up: `TempIsCleanedUp`, which TLC finds violated with one conversion.
  `NoTempLeak` names it (`Stranded`) as its exception.
- `DocumentImport`: a source that changes between the verification and the start of its
  watcher is noticed by nobody, and `Complete` stores its event whatever the
  terminal flag was: the page may show an outdated conversion as complete. A
  save still refuses it (`SavedIsCurrent`).
- `DocumentImport`: a late answer to the check on focus marks the page stale although a
  newer conversion runs; a save whose session cannot be replaced reports an error
  although the copy was written.
- `NotebookSwitch`: a switch that fails has reset the index as well and does not
  rebuild it (`MaxFaults = 1` shows it); a change saved while the index is being
  built is not entered in it.

## 5. Proofs

Every invariant the runs check is the subject of a theorem, and so is every
action property and refinement; those of `NotebookHome` but `TypeOK` under the
hypotheses listed below. TLC was used first to look for counterexamples to the
invariants.

### Files

`FileMutationProofs` and `FileMutationRefinement` hold for any number of threads,
files, paths, mutexes and contents. Assumptions: keys are numbers (the order in
which `with_paths` sorts them), paths of one file have one key, the sentinels
differ from proper values, the commands called are among the four kinds.

- `TypeCorrect`, `MutualExclusion`: `OneCallPerFile` is not inductive. Why a mutex
  found through a weak reference is the right one takes `MutexInv`: whoever owns
  an Arc for a key owns the one the registry maps that key to; no mutex serves
  two keys; a guard has one holder; a call in its critical section holds the
  guards of all its keys; by `PathsAssumption` two paths of one file have one key.
  `TypeOK` is `Types` and `CallInv`, which ties the step of a call to its kind. The
  invariant is `IInv == Types /\ CallInv /\ MutexInv`.
- `NoLostUpdate`, `NeverTorn`, `SavedIsDurable`: from exclusion and `WriteInv`, which
  says what a call knows of its file and its temporary file at each step.
- `TempsAreRemoved`: `NoStrayTemp` is inductive beside `IInv`. Leaving a command
  does not touch the temporary file; every return after staging goes with a removal
  of its own (`Cleans`), and leaving one out breaks the theorem.
- `NoDeadlock`: a call takes its mutexes in the order of the keys (`TakenInOrder`),
  so who is waited for waits for a later key; finitely many calls run
  (`OrderInv`), so a set of calls that all wait for each other has a greatest
  awaited key, and its holder cannot wait. This is the argument behind the
  `sort` in `with_paths`, for any number of keys per call.
- `AtomicFilesImplemented`: `Spec => ImplementsAtomicFiles`. The mapping keeps the
  disk, the requests and the answers and turns `pc` into three phases; every step
  outside the commit maps to a stutter.

### The notebook page

`NotebookHomeInvariant`, `NotebookHomeProofs` and `NotebookHomeMoves` hold for any
notes, contents, scenes and any `MaxTasks`. Assumptions: the scenes are scenes,
the empty content is a content, and three values the code uses for "none" are not
proper values: no note has the empty path (`NoNoteAssumption`: `activePath` is
`''` when no note is open), no content is the revision of a missing file
(`MissingAssumption`) and no issue is the absent one (`NoIssueAssumption`), both
`null` in the code.

`IInv` holds whatever the user may do. Its parts, and what each is needed for:

- `JobInv`, `RequestInv`: a handler runs only for an operation the scene gives the
  user, and names notes where the operation is about notes.
- `TaskInv`, `WakeInv`: only the first save of the chain is under way, its stages
  follow the awaits of `performSaveFileWithExpected`, and a flush waits for one
  save. `CallInv`: a caller has at most one command on the way, and awaits it.
- `FreshInv`: a save, and the timer, that still match the content revision hold the
  text of the editor. This is the reason for counting revisions at all: whoever
  replaces the text outdates every save (`PageSteps`, `TasksGoOn`).
- `SavedInv`: a save of the text shown that reached the disk left nothing unsaved.
  The case that makes it hard is a rename while a save is running: the save is
  then of another path. `RenameSteps` shows that a rename goes on only when no
  save is running. `CloseInv` is what the end of a recovery relies on.

The proof has a layer between the actions and the invariants: `Moves`, `CommandStep`,
`Origins`, `PageStep` say once what any of the steps may do to jobs, commands, saves
and the page; each invariant is then proved from those and not from the actions.

What else holds depends on the operations in play, because handlers do not
exclude each other (section 4). The theorems name them through `scene.ops`; a scene
is fixed in a behaviour. Other programs, failures and the watcher are restricted
only where it says so.

| theorem | property | operations in play | added invariant |
| --- | --- | --- | --- |
| `Typed` | `TypeOK` | all | |
| `CleanPageIsSaved` | `CleanMeansSaved` | all but select | |
| `TypingIsKept` | `NoTypingLost` | delete, rename, retry, overwrite, reload | `CleanInv` |
| `SavingIsShownForACause` | `SavingHasACause` | all but delete and rename | `OwnedInv` |
| `KnownVersionsAreReplaced` | `NoBlindOverwrite` | delete, retry, overwrite, reload, close | `KnowingInv` |
| `CleanPageShowsItsBaseline` | `CleanIsBaseline` | `Editing` | `EditInv` |
| `ErrorsCanBeResolved` | `ErrorIsActionable` | `Editing` | `EditInv` |
| `IssuesAreAboutTheNote` | `IssueIsAboutTheNote` | `Editing` | `EditInv` |
| `GivenUpDraftsStayAway` | `DiscardedStaysDiscarded` | `Editing` | `EditInv` |
| `SavesAreOfTheOpenNote` | `SavesGoToTheOpenNote` | `Editing` | `EditInv` |
| `CleanPageIsSavedWhenLeft` | `CleanMeansSaved` | `Moving` | `MovedInv` |
| `TypingIsKeptWhenLeft` | `NoTypingLost` | `Moving` | `MovedInv` |
| `BaselineFollowsTheNote` | `CleanIsBaseline` | `Moving` | `MovedInv` |
| `ErrorsCanBeResolvedWhenLeft` | `ErrorIsActionable` | `Moving` | `MovedInv` |
| `IssuesFollowTheNote` | `IssueIsAboutTheNote` | `Moving` | `MovedInv` |
| `KnownVersionsAreReplacedWhenLeft` | `NoBlindOverwrite` | `Moving` | `MovedInv` |
| `DraftsStayAwayWhenLeft` | `DiscardedStaysDiscarded` | `Moving` | `MovedInv` |
| `SavesFollowTheNote` | `SavesGoToTheOpenNote` | `Moving` | `MovedInv` |

`Editing` is one note at work: typing, autosave, retry, overwrite and closing with
failures and other programs, or typing with the watcher following changes.
`EditInv` says that the timer, the issue and every save are of the open note
(`PageInv`, `ChainInv`), that the outdated saves of the chain come first, and that
where changes are followed the text shown is saved once (`WatchedInv`).

`Moving` is leaving the open note by one operation, selecting, creating or closing,
as often as the user likes, beside typing, autosave and retry; saves may fail,
before or after the file was replaced, except where the window is closed, since
there a failing save opens the recovery dialog. `MovedInv` is `MoveInv` with
`CleanMeansSaved` and `NoTypingLost`. `MoveInv` shares with `Editing` what ties timer,
issue and saves to the open note, and adds

- `DiskInv`: what the disk has of the open note, by the stage of the save at the head.
  After a failure it may be ahead of the page (`Diverged`); then the page is dirty;
- `MoverFits`: during an operation the editor is locked, so the last save of the
  chain is of the text shown and wakes the handler; past its flush nothing is
  unsaved, scheduled or queued. Where the disk diverged the flush is refused
  and the handler gives up, which is why unlocking the editor then does no harm;
- `ReadInv`, `KnownInv`: what was read for a selection, or created, is what the disk
  has and the user then knows; `RetryInv`, `CalmInv`, `QueuedInv`: saving again waits
  for its own save, without failures no save fails, and a selection that waits
  keeps the editor locked.

`MoverActions` says which actions are possible; `MoveStep` and `ChainStep` say once
what they do to the page and to the saves, and the parts are proved from those.

The hypotheses are not there for the prover. Simulating the model with every
combination of operations breaks the properties just outside them:
`CleanMeansSaved` with create and select; `NoTypingLost` with create and select, or
close and a failing save; `SavingHasACause` with a rename or a delete;
`NoBlindOverwrite` with a rename or, if saves fail, a creation against other
programs; `CleanIsBaseline` with create and select, or overwrite and reload;
`ErrorIsActionable` and `IssueIsAboutTheNote` with a delete, or with the watcher and
select or create; `DiscardedStaysDiscarded` with reload; `SavesGoToTheOpenNote` with a
delete or a rename against other programs. Around `Moving`
`CleanMeansSaved` breaks with select and overwrite, with select and close, and with
select alone if other programs write; `NoTypingLost` with create and overwrite, and
with create alone if other programs write. In all of these the editor is unlocked
under a selection or creation that still goes on: by an overwrite that ends, by
a window that could not be closed, or by cancelling the recovery dialog before a
later save succeeds. In between lie combinations that seem to hold
and are only model-checked: deleting while selecting, closing with overwrite and
reload (the scenes of section 3).

### Windows

`WindowSessionProofs` holds for any windows, files, tokens and threads.

- `Typed`, `IndexIsExact`, `PromotionIsWhole`: `TypeOK` is `Types` and `StepsFit`, that a
  command takes the locks of its own kind only. The invariant adds `Control` to the three
  properties: what a command in flight may rely on after it released the first
  lock (`CommandFits`), that an import window saves once at a time, and what the
  main thread relies on while it opens a file or cleans up (`OpeningFits`).
- `WriteNeedsEdit`, `WindowsLeaveNothing`, `WritesKeepToTheSession`: from `TokenInv`, who
  refers to a token and what is left of its grant: the session of a window, the
  main thread that opens a file, a command between its locks. A token somebody
  refers to is not given out again (`StillBelongs`), and a write in flight can
  still use its token only while the window edits with it (`WriteFits`).
- `OwnershipImplemented`: `Spec => ImplementsOwnership`, a step of the registry is
  a step of `FileOwnership` or a stutter; `OneWindowPerFile` follows from it.

### Switching notebooks

`NotebookSwitchProofs` holds for any notebooks and any bounds on switches, faults
and disturbances. The properties of the page are conjuncts of one invariant,
because each generation counter is only worth what the others guarantee:

- `PhaseInv` and `QueueInv` say at which await of `performOpenNotebook` the service's
  chain may still hold which `watch` and `unwatchAll`, and which of them is awaited;
- `WatchInv` and `WireInv` tie service, operating system and listener together: an
  event on the wire that has the current generation is of the watched notebook;
- `RefreshInv` and `TaskInv` say of every delayed flush, listing and build that, if its
  generation is current, it has seen the page's notebook only; `DistinctInv` that
  requests are told apart by their numbers and one flush runs at a time;
- `IndexInv`, `NoteInv`, `ImageInv` say of which notebook index, note and pictures are;
- `SavesStayHome` is the last conjunct: a save that starts has passed the checks on root and
  opening, and where no switch is at work the backend has the page's root (`RootsAgree`).

The theorems are `Typed`, `BackendFollowsThePage` (`RootsAgree`), `OneNotebookIsShown`
(`ShowsOneNotebook`), `WatcherAndPageMeet` (`WatcherIsHeard`), `FlushesWorkOnOwnEvents`
(`OwnEventsOnly`), `NoPictureIsLost` (`NoSilentOrphan`) and `NoSaveGoesAstray`
(`SavesStayHome`), without hypotheses.

### Conversions

`DocumentImportProofs` holds for any windows, conversions, permits and changes. The
identifiers are finitely many numbers (they are drawn in order; the gate counts
a finite set).

- `Typed`: with the types, that `active` counts the threads that hold a permit.
- `NothingLeft`: `NoTempLeak` is not inductive. `Tracked` says of every job that is not
  registered and has, or may still make, a directory: it is cancelled, or the
  main thread has it on the list of jobs to cancel. For that `MainFits` says what
  the main thread relies on in the middle of a command, and `OneJobPerWindow`
  that a window has at most one registered job, so that no other job of it is
  left when it closes or becomes a note. What a worker that was killed and not waited for
  keeps is the exception (`Stranded`, section 4).
- `SavedWasCurrent`: the revision of a job that is settled does not change.

### Only model-checked

The liveness properties (`DirtyResolves`, `LockEnds`, `SwitchEnds`, `WatchedAgain`,
`CancelEnds`, `ConversionEnds`): fairness and ENABLED are out of the prover's reach.
The last two except the wait named `Hung` (section 4).
The `NotebookHome` properties in the scenes that the table leaves out. The four
findings are violations and have TLC's traces only.

## 6. Not modelled in the modelled components

- `saveCurrentAsCopy`, switching autosave off, folders, the guided sample and
  scratch notes, and the external-session branches of each handler.
- The wait for image uploads before closing the window.
- Two concurrent calls of the same operation (two deletions at once).
- Hash collisions, and the reading of a file while it is replaced (atomic by the
  rename).
- Indexing and the tree: an await that may fail, without their contents.
- Reading siblings and assets with a token, the end of the process while documents
  are converted, the clean-up of watcher and
  retrieval of a destroyed window, the containment of paths.
- The start of the application in a notebook, note selections during a switch
  (they are `NotebookHome`'s), the debouncing of raw notifications.
- Two windows over one document and the same file opened for conversion twice:
  `WindowSession` shows that a file has one window.

## 7. Plan

Done: `FileMutation` with `AtomicFiles`; `SavePipeline` and `NotebookHome`;
`WindowSession` with `FileOwnership`; `NotebookSwitch`, which joins switching, the
watcher's life cycle and an upload; `DocumentImport`. What is left, by what it
would add:

1. `ReviewSession`: snapshots, drafts and applied marks against edits and switching.
2. `CompletionDecoder` and `ReinkEngine`: one worker process, requests by number,
   timeouts, restart; an answer goes to the request that waits for it.
3. `NotebookIndex` contents (training queue, stale entries), `DocumentNavigation` (pending
   restores), `ThemePack` (installation and roll-back), the page of an external note.
4. Proofs: the properties of `NotebookHome` where notes are deleted or renamed, and
   where notes are left in more than one way, as far as they hold (section 5).
