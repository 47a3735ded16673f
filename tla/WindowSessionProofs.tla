------------------------- MODULE WindowSessionProofs -------------------------
(***************************************************************************)
(* Theorems about WindowSession for any number of windows, files, tokens   *)
(* and threads.                                                            *)
(***************************************************************************)
EXTENDS WindowSession, TLAPS

(***************************************************************************)
(* The inductive invariant                                                 *)
(***************************************************************************)

\* An opening works for a label without a session until it registers one; a
\* clean-up works for a label that has no session once its root is next.
OpeningFits ==
    /\ opening.step = "idle" => opening = Idle
    /\ opening.old \in {None, opening.label}
    /\ opening.step \in {"unregister", "unroot", "disown"} => opening.old = opening.label
    /\ opening.step \in {"grant", "register", "fallback"} => opening.file \in Files
    /\ opening.step = "grant" => opening.file \in Notes
    /\ opening.step \in {"grant", "register", "fallback", "unroot", "disown"} =>
           sessions[opening.label] = None
    /\ opening.step \in {"build", "unregister", "unroot"} => opening.label \notin live
    /\ opening.step = "fallback" => opening.label \in live
    /\ opening.step = "build" /\ opening.file = None => sessions[opening.label] = Workspace

\* A command in flight has a live window, arguments its steps can use, and
\* the session that let it start when that session cannot go away.
CommandFits(t) ==
    LET c == cmd[t] IN
    c.step # "idle" =>
        /\ c.step \in StepsOf[c.op]
        /\ c.window \in live
        /\ c.step \in {"issue", "replace"} => c.file \in Notes
        /\ c.op = "openExternal" => IsWorkspace(c.window)
        /\ c.op = "saveImport" /\ c.step \in {"issue", "replace"} =>
               sessions[c.window] # None /\ sessions[c.window].mode = "import"

Saving(t, w) ==
    cmd[t].step # "idle" /\ cmd[t].op = "saveImport" /\ cmd[t].window = w

OneSaveAtATime ==
    \A t, u \in Threads, w \in Windows : Saving(t, w) /\ Saving(u, w) => t = u

ImportsHaveDocuments ==
    \A w \in Windows :
        sessions[w] # None /\ sessions[w].mode = "import" =>
            sessions[w].key \in Documents

\* A label without a window has at most an empty session, unless the main
\* thread is at it.
DeadSessions ==
    \A w \in Windows \ live :
        opening = Idle \/ w # opening.label => sessions[w] \in {None, Workspace}

Control ==
    /\ OpeningFits
    /\ \A t \in Threads : CommandFits(t)
    /\ OneSaveAtATime
    /\ ImportsHaveDocuments
    /\ DeadSessions

\* Only the roots of windows that are there, or are being cleaned up.
RootsAreThere ==
    \A w \in roots :
        \/ w \in live
        \/ /\ w = opening.label /\ opening.file = None
           /\ opening.step \in {"unregister", "unroot"}

Rooted == RootsAreWorkspaces /\ RootsAreThere

Inv ==
    /\ Types
    /\ Control
    /\ IndexMatchesSessions
    /\ Rooted

-----------------------------------------------------------------------------
(***************************************************************************)
(* Types                                                                   *)
(***************************************************************************)

\* Beginning a command keeps the types.
LEMMA BeginType ==
    ASSUME Types, NEW t \in Threads, NEW op \in Ops, NEW step \in Steps,
           NEW w \in Windows, NEW x \in Tokens \cup {None},
           NEW f \in Files \cup {None}, Begin(t, op, step, w, x, f)
    PROVE  Types'
  BY DEF Types, Begin, Command, tables

LEMMA GotoType ==
    ASSUME Types, NEW t \in Threads, NEW step \in Steps, Goto(t, step)
    PROVE  cmd' \in [Threads -> Command]
  BY DEF Types, Goto, Command

LEMMA DoneType ==
    ASSUME Types, NEW t \in Threads, Done(t)
    PROVE  cmd' \in [Threads -> Command]
  BY MainAssumption DEF Types, Done, Command, Resting, Ops, Steps

LEMMA ForgetType ==
    ASSUME Types, NEW w, Forget(w)
    PROVE  /\ sessions' \in [Windows -> Session \cup {None}]
           /\ labels' \in [Files -> Windows \cup {None}]
  BY DEF Types, Forget

LEMMA RevokedType ==
    ASSUME Types, NEW w
    PROVE  Revoked(w) \in [Tokens -> Grant \cup {None}]
  BY DEF Types, Revoked

LEMMA WorkspaceIsThere == Workspace \in Session /\ Workspace # None
  BY RecordAssumption DEF Workspace, Session, Modes

\* The main thread's record keeps its shape.
LEMMA OpeningType ==
    ASSUME Types
    PROVE  /\ Idle \in Opening /\ Idle.step = "idle" /\ Idle.label = Main
           /\ Idle.file = None /\ Idle.old = None
           /\ Ended \in Opening
           /\ \A step \in {"register", "build", "unregister", "unroot", "disown"},
                 x \in Tokens \cup {None}, old \in Windows \cup {None} :
                 /\ [opening EXCEPT !.step = step] \in Opening
                 /\ [opening EXCEPT !.step = step, !.token = x] \in Opening
                 /\ [opening EXCEPT !.step = step, !.old = old] \in Opening
  BY MainAssumption DEF Types, Opening, Idle, Ended

LEMMA IssueType ==
    ASSUME Types, NEW x \in Tokens, NEW f \in Notes, NEW w \in Windows,
           NEW write \in BOOLEAN, Issue(x, f, w, write)
    PROVE  grants' \in [Tokens -> Grant \cup {None}]
  BY DEF Types, Issue, Grant

LEMMA RefuseType ==
    ASSUME Types, NEW t \in Threads, Refuse(t)
    PROVE  /\ grants' \in [Tokens -> Grant \cup {None}]
           /\ cmd' \in [Threads -> Command]
  BY DoneType DEF Types, Refuse

LEMMA TypeStep == Types /\ Control /\ Next => Types'
<1> SUFFICES ASSUME Types, Control, Next PROVE Types'
  OBVIOUS
<1>0. opening \in Opening /\ opening.label \in Windows /\ OpeningFits
  BY DEF Types, Opening, Control
<1>1. ASSUME NEW w \in Windows, NEW f \in Files, OpenFile(w, f) PROVE Types'
  BY <1>1 DEF OpenFile, FirstStep, Types, Opening, Files
<1>2. ASSUME NEW x \in Tokens, GrantOpened(x) PROVE Types'
  <2>1. opening.file \in Notes /\ opening.label \in Windows
    BY <1>0, <1>2 DEF GrantOpened, OpeningFits
  <2>2. grants' \in [Tokens -> Grant \cup {None}]
    BY <1>2, <2>1, IssueType DEF GrantOpened
  <2> QED
    BY <1>2, <2>2, OpeningType DEF GrantOpened, Types
<1>3. CASE RegisterOpened
  <2>1. opening.file \in Files /\ opening' \in Opening
    BY <1>0, <1>3, OpeningType DEF RegisterOpened, OpeningFits
  <2>2. [mode |-> IF opening.file \in Notes THEN "readonly" ELSE "import",
         key |-> opening.file, token |-> opening.token] \in Session
    BY <1>0, <2>1 DEF Opening, Session, Modes
  <2> QED
    BY <1>0, <1>3, <2>1, <2>2 DEF RegisterOpened, Register, Types
<1>4. CASE BuildWindow
  BY <1>0, <1>4, OpeningType DEF BuildWindow, Types
<1>5. CASE GrantFails \/ RegisterFails \/ BuildFails
  <2>1. \A step \in {"disown", "unregister"} :
            [opening EXCEPT !.step = step, !.old = opening.label] \in Opening
    BY <1>0, OpeningType
  <2>2. opening' \in Opening
    BY <1>5, <2>1, OpeningType DEF GrantFails, RegisterFails, BuildFails
  <2> QED
    BY <1>5, <2>2 DEF GrantFails, RegisterFails, BuildFails, Types
<1>6. CASE CreateWorkspace \/ Fallback
  <2>1. opening' \in Opening
    <3>1. [Idle EXCEPT !.step = "build"] \in Opening
      BY OpeningType DEF Opening
    <3> QED
      BY <1>6, <3>1, OpeningType DEF CreateWorkspace, Fallback
  <2> QED
    BY <1>0, <1>6, <2>1, WorkspaceIsThere, MainAssumption DEF CreateWorkspace, Fallback, Types
<1>7. ASSUME NEW w \in Windows, Destroyed(w) PROVE Types'
  <2>1. [Idle EXCEPT !.step = "unregister", !.label = w, !.old = w] \in Opening
    BY DEF Idle, Opening
  <2> QED
    BY <1>7, <2>1 DEF Destroyed, Types
<1>12. CASE Unregister \/ Unroot
  BY <1>12, ForgetType, OpeningType DEF Unregister, Unroot, Types
<1>13. CASE Disown
  <2>1. opening' \in Opening
    BY <1>0, <1>13, OpeningType DEF Disown, OpeningFits
  <2> QED
    BY <1>13, <2>1, RevokedType DEF Disown, Types
<1>8. ASSUME NEW t \in Threads, BeginCommand(t) PROVE Types'
  <2>1. \A w \in Windows : External(w) => /\ sessions[w].token \in Tokens \cup {None}
                                          /\ sessions[w].key \in Files \cup {None}
    BY DEF External, Types, Session
  <2>2. \A f \in Notes : f \in Files
    BY DEF Files
  <2>3. ASSUME NEW w \in Windows,
               \/ BeginEnable(t, w) \/ BeginPromote(t, w)
               \/ \E f \in Notes \cup {None} : BeginWrite(t, w, f)
        PROVE  Types'
    BY <2>1, <2>2, <2>3, BeginType DEF BeginEnable, BeginPromote, BeginWrite, Ops, Steps
  <2>4. ASSUME NEW w \in Windows, NEW f \in Notes,
               BeginSaveAs(t, w, f) \/ BeginSaveImport(t, w, f)
        PROVE  Types'
    BY <2>2, <2>4, BeginType DEF BeginSaveAs, BeginSaveImport, Ops, Steps
  <2>5. ASSUME NEW w \in Windows, NEW x \in Tokens,
               BeginOpenExternal(t, w, x) \/ BeginRevoke(t, w, x)
        PROVE  Types'
    BY <2>5, BeginType DEF BeginOpenExternal, BeginRevoke, Ops, Steps
  <2> QED
    BY <1>8, <2>3, <2>4, <2>5 DEF BeginCommand
<1>9. ASSUME NEW t \in Threads, StepCommand(t) PROVE Types'
  <2> DEFINE x == cmd[t].token  w == cmd[t].window  f == cmd[t].file
  <2>0. cmd[t] \in Command /\ w \in Windows /\ CommandFits(t)
    BY DEF Types, Command, Control
  <2>1. CASE AssertOwner(t)
    <3>1. cmd[t].step = "owner" => AfterOwner[cmd[t].op] \in Steps
      BY <2>0 DEF CommandFits, StepsOf, Command, Ops, AfterOwner, Steps
    <3> QED
      BY <2>1, <3>1, GotoType, DoneType DEF AssertOwner, tables, Types
  <2>2. CASE EnableFileWrite(t)
    <3>1. CASE Usable(x) /\ Upgradable(t)
      <4>1. grants' = [grants EXCEPT ![x].write = TRUE] /\ Goto(t, "enter")
        BY <2>2, <3>1 DEF EnableFileWrite
      <4>2. grants' \in [Tokens -> Grant \cup {None}]
        BY <4>1, <3>1 DEF Types, Usable, Grant
      <4>3. cmd' \in [Threads -> Command]
        BY <4>1, GotoType DEF Steps
      <4> QED
        BY <2>2, <4>2, <4>3 DEF EnableFileWrite, Types
    <3>2. CASE ~(Usable(x) /\ Upgradable(t))
      BY <2>2, <3>2, RefuseType DEF EnableFileWrite, Types
    <3> QED
      BY <3>1, <3>2
  <2>3. CASE EnterEdit(t)
    <3>1. cmd' \in [Threads -> Command]
      BY <2>3, DoneType, GotoType DEF EnterEdit, Steps
    <3>2. sessions' \in [Windows -> Session \cup {None}]
      BY <2>3, <2>0 DEF EnterEdit, External, Types, Session, Modes
    <3> QED
      BY <2>3, <3>1, <3>2 DEF EnterEdit, Types
  <2>4. CASE DisableFileWrite(t)
    <3>1. grants' \in [Tokens -> Grant \cup {None}]
      BY <2>4 DEF DisableFileWrite, Types, Grant
    <3> QED
      BY <2>4, <3>1, DoneType DEF DisableFileWrite, Types
  <2>5. CASE Prepare(t)
    BY <2>5, GotoType, RefuseType DEF Prepare, Types, Steps
  <2>6. CASE PrepareFails(t) \/ Put(t) \/ SaveFails(t)
    BY <2>6, DoneType DEF PrepareFails, Put, SaveFails, tables, Types
  <2>7. ASSUME Promotable(t) PROVE [grants EXCEPT ![x] = Whole(@)] \in [Tokens -> Grant \cup {None}]
    BY <2>7 DEF Promotable, Usable, Whole, Types, Grant
  <2>8. CASE CommitPromotion(t)
    <3>1. SameSession(t) => [sessions EXCEPT ![w] = Promoted(@)] \in [Windows -> Session \cup {None}]
      BY <2>0 DEF SameSession, External, Promoted, Types, Session, Modes
    <3> QED
      BY <2>0, <2>7, <2>8, <3>1, DoneType, RefuseType DEF CommitPromotion, Types
  <2>9. CASE CommitOpenExternal(t)
    BY <2>0, <2>7, <2>9, DoneType, RefuseType DEF CommitOpenExternal, Types
  <2>10. CASE Resolve(t)
    BY <2>10, GotoType, RefuseType DEF Resolve, Types, Steps
  <2>11. CASE Replace(t)
    <3>1. cmd' \in [Threads -> Command]
      BY <2>11, DoneType, GotoType DEF Replace, Steps
    <3>2. [mode |-> "edit", key |-> f, token |-> x] \in Session
      BY <2>0 DEF Command, Session, Modes
    <3>3. labels' \in [Files -> Windows \cup {None}] /\ sessions' \in [Windows -> Session \cup {None}]
      BY <2>0, <2>11, <3>2 DEF Replace, Types
    <3> QED
      BY <2>11, <3>1, <3>3 DEF Replace, Types
  <2>12. CASE Revoke(t)
    BY <2>12, DoneType DEF Revoke, Types
  <2>13. ASSUME NEW y \in Tokens, IssueSaved(t, y) PROVE Types'
    <3>1. grants' \in [Tokens -> Grant \cup {None}]
      BY <2>0, <2>13, IssueType DEF IssueSaved, CommandFits
    <3>2. cmd' \in [Threads -> Command]
      BY <2>0, <2>13, DoneType DEF IssueSaved, Types, Command, Steps
    <3> QED
      BY <2>13, <3>1, <3>2 DEF IssueSaved, Types
  <2> QED
    BY <1>9, <2>1, <2>2, <2>3, <2>4, <2>5, <2>6, <2>8, <2>9, <2>10, <2>11, <2>12, <2>13 DEF StepCommand
<1>10. ASSUME NEW w \in Windows, OpenNotebook(w) PROVE Types'
  BY <1>10 DEF OpenNotebook, Types
<1>11. ASSUME NEW x \in Tokens, Expire(x) PROVE Types'
  BY <1>11 DEF Expire, Usable, Types, Grant
<1> QED
  BY <1>1, <1>2, <1>3, <1>4, <1>5, <1>6, <1>7, <1>8, <1>9, <1>10, <1>11, <1>12, <1>13
  DEF Next, MainThread

-----------------------------------------------------------------------------
(***************************************************************************)
(* Control                                                                 *)
(***************************************************************************)

\* A command nobody moved fits as long as its window and session stay.
LEMMA StillFits ==
    ASSUME NEW t \in Threads, CommandFits(t), cmd'[t] = cmd[t],
           cmd[t].step # "idle" => /\ cmd[t].window \in live'
                                   /\ sessions'[cmd[t].window] = sessions[cmd[t].window]
    PROVE  CommandFits(t)'
  BY DEF CommandFits, IsWorkspace

\* Moving on and ending leave the other threads alone.
LEMMA Moved ==
    ASSUME Types, NEW t \in Threads, NEW step, Goto(t, step)
    PROVE  /\ cmd'[t] = [cmd[t] EXCEPT !.step = step]
           /\ cmd'[t].step = step /\ cmd'[t].op = cmd[t].op
           /\ cmd'[t].window = cmd[t].window /\ cmd'[t].file = cmd[t].file
           /\ \A u \in Threads \ {t} : cmd'[u] = cmd[u]
  BY DEF Types, Command, Goto

LEMMA Finished ==
    ASSUME Types, NEW t \in Threads, Done(t)
    PROVE  /\ cmd'[t].step = "idle"
           /\ \A u \in Threads \ {t} : cmd'[u] = cmd[u]
  BY DEF Types, Command, Done, Resting

\* A thread that moves on or ends starts no save.
LEMMA NoNewSave ==
    ASSUME Types, OneSaveAtATime, NEW t \in Threads, cmd[t].step # "idle",
           Done(t) \/ \E step : Goto(t, step)
    PROVE  OneSaveAtATime'
  <1>1. \A u \in Threads, w \in Windows : Saving(u, w)' => Saving(u, w)
    <2>1. CASE Done(t)
      BY <2>1, Finished DEF Saving
    <2>2. ASSUME NEW step, Goto(t, step)
          PROVE  \A u \in Threads, w \in Windows : Saving(u, w)' => Saving(u, w)
      BY <2>2, Moved DEF Saving
    <2> QED
      BY <2>1, <2>2
  <1> QED
    BY <1>1 DEF OneSaveAtATime

\* A step of a command that leaves the registry and the main thread alone.
LEMMA PlainStep ==
    ASSUME Types, Control, NEW t \in Threads, cmd[t].step # "idle",
           UNCHANGED <<live, sessions, opening>>,
           \/ Done(t)
           \/ \E step \in StepsOf[cmd[t].op] \ {"owner", "issue", "replace"} : Goto(t, step)
    PROVE  Control'
  <1>1. ASSUME NEW u \in Threads PROVE CommandFits(u)'
    <2>1. CASE u # t
      <3>1. cmd'[u] = cmd[u]
        BY <2>1, Moved, Finished
      <3> QED
        BY <3>1, StillFits DEF Control, CommandFits
    <2>2. CASE u = t /\ Done(t)
      BY <2>2, Finished DEF CommandFits
    <2>3. ASSUME u = t, NEW step \in StepsOf[cmd[t].op] \ {"owner", "issue", "replace"},
                 Goto(t, step)
          PROVE  CommandFits(u)'
      <3>1. CommandFits(t)
        BY DEF Control
      <3> QED
        BY <2>3, <3>1, Moved DEF CommandFits, IsWorkspace
    <2> QED
      BY <2>1, <2>2, <2>3
  <1>2. OneSaveAtATime'
    BY NoNewSave DEF Control
  <1>3. OpeningFits' /\ ImportsHaveDocuments' /\ DeadSessions'
    BY DEF Control, OpeningFits, ImportsHaveDocuments, DeadSessions
  <1> QED
    BY <1>1, <1>2, <1>3 DEF Control

LEMMA RefuseIsDone == ASSUME NEW t, Refuse(t) PROVE Done(t)
  BY DEF Refuse

\* A step of the main thread that keeps the windows and sessions of commands.
LEMMA MainStep ==
    ASSUME Control, UNCHANGED cmd,
           \A t \in Threads : cmd[t].step # "idle" =>
               /\ cmd[t].window \in live'
               /\ sessions'[cmd[t].window] = sessions[cmd[t].window]
    PROVE  (\A t \in Threads : CommandFits(t))' /\ OneSaveAtATime'
  <1>1. ASSUME NEW t \in Threads PROVE CommandFits(t)'
    BY StillFits DEF Control
  <1>2. OneSaveAtATime'
    BY DEF Control, OneSaveAtATime, Saving
  <1> QED
    BY <1>1, <1>2

LEMMA ForgetKeeps ==
    ASSUME Types, Control, NEW w \in Windows, Forget(w)
    PROVE  /\ \A v \in Windows : v # w => sessions'[v] = sessions[v]
           /\ sessions'[w] = None
           /\ ImportsHaveDocuments'
  BY DEF Types, Forget, Control, ImportsHaveDocuments

LEMMA SavesAreImports ==
    ASSUME Types, Control, NEW t \in Threads, cmd[t].step = "replace"
    PROVE  cmd[t].op = "saveImport"
  BY DEF Types, Command, Control, CommandFits, StepsOf, Ops

LEMMA LiveWindows ==
    ASSUME Types, Control, NEW t \in Threads, cmd[t].step # "idle"
    PROVE  cmd[t].window \in live /\ cmd[t].window \in Windows
  BY DEF Types, Control, CommandFits, Command

\* A step of the main thread that leaves the sessions alone and closes no window.
LEMMA QuietMain ==
    ASSUME Types, Control, UNCHANGED <<sessions, cmd>>, live \subseteq live', OpeningFits',
           \/ opening = Idle \/ opening.label \in live'
           \/ sessions[opening.label] \in {None, Workspace}
           \/ opening'.label = opening.label /\ opening' # Idle
    PROVE  Control'
  <1>1. (\A t \in Threads : CommandFits(t))' /\ OneSaveAtATime'
    BY LiveWindows, MainStep
  <1>2. ImportsHaveDocuments' /\ DeadSessions'
    BY DEF Control, ImportsHaveDocuments, DeadSessions
  <1> QED
    BY <1>1, <1>2 DEF Control

\* A step of the main thread that sets the session of a window without one, or
\* of a label without a window.
LEMMA MainSets ==
    ASSUME Types, Control, UNCHANGED <<live, cmd>>, OpeningFits', NEW w \in Windows,
           \A v \in Windows \ {w} : sessions'[v] = sessions[v],
           w \notin live \/ sessions[w] = None,
           sessions'[w] # None /\ sessions'[w].mode = "import" => sessions'[w].key \in Documents,
           opening = Idle \/ opening.label = w,
           \/ w \in live \/ sessions'[w] \in {None, Workspace}
           \/ opening'.label = w /\ opening' # Idle
    PROVE  Control'
  <1>1. ASSUME NEW t \in Threads PROVE CommandFits(t)'
    <2>1. CommandFits(t) /\ cmd'[t] = cmd[t]
      BY DEF Control
    <2>2. cmd[t].step # "idle" => cmd[t].window \in Windows /\ cmd[t].window \in live
      BY LiveWindows
    <2>3. CASE cmd[t].window = w
      BY <2>1, <2>2, <2>3 DEF CommandFits, IsWorkspace
    <2> QED
      BY <2>1, <2>2, <2>3, StillFits
  <1>2. OneSaveAtATime'
    BY DEF Control, OneSaveAtATime, Saving
  <1>3. ImportsHaveDocuments' /\ DeadSessions'
    BY DEF Control, ImportsHaveDocuments, DeadSessions
  <1> QED
    BY <1>1, <1>2, <1>3 DEF Control

\* A file the index gives to a dead label would be the main thread's.
LEMMA NothingStale ==
    ASSUME Types, Control, IndexMatchesSessions, opening = Idle, NEW f \in Files,
           labels[f] \notin live
    PROVE  labels[f] = None
  <1> SUFFICES ASSUME NEW w \in Windows, labels[f] = w PROVE FALSE
    BY DEF Types
  <1>1. sessions[w] # None /\ sessions[w].key = f /\ w \in Windows \ live
    BY DEF IndexMatchesSessions
  <1>2. sessions[w] = Workspace
    BY <1>1 DEF Control, DeadSessions
  <1> QED
    BY <1>1, <1>2, NoneAssumption DEF Workspace, Files

\* How an opening ends.
LEMMA EndedFits ==
    ASSUME Types, OpeningFits, UNCHANGED <<live, sessions>>, opening' = Ended,
           opening.step \in {"grant", "disown"} \/ (opening.step = "register" /\ opening.file \notin Notes)
    PROVE  OpeningFits'
  <1>1. opening.file \in Files \cup {None} /\ opening.label \in Windows
    BY DEF Types, Opening
  <1>2. CASE opening.file # None /\ opening.label \in live
    <2> DEFINE o == [opening EXCEPT !.step = "fallback"]
    <2>1. opening' = [opening EXCEPT !.step = "fallback"]
      BY <1>2 DEF Ended
    <2> QED
      BY <1>1, <1>2, <2>1 DEF OpeningFits, Types, Opening
  <1>3. CASE ~(opening.file # None /\ opening.label \in live)
    <2>1. opening' = Idle
      BY <1>3 DEF Ended
    <2> QED
      BY <2>1, OpeningType DEF OpeningFits
  <1> QED
    BY <1>2, <1>3

LEMMA MainControl == Types /\ Control /\ IndexMatchesSessions /\ MainThread => Control'
<1> SUFFICES ASSUME Types, Control, IndexMatchesSessions, MainThread PROVE Control'
  OBVIOUS
<1>0. opening \in Opening /\ opening.label \in Windows /\ OpeningFits
  BY DEF Types, Opening, Control
<1>1. ASSUME NEW w \in Windows, NEW f \in Files, OpenFile(w, f) PROVE Control'
  <2>1. opening = Idle /\ UNCHANGED <<live, sessions, cmd>> /\ sessions[w] = None
    BY <1>1 DEF OpenFile
  <2>2. labels[f] = None
    BY <1>1, <2>1, NothingStale DEF OpenFile
  <2>3. opening' = [step |-> FirstStep(f), label |-> w, file |-> f, token |-> None, old |-> None]
    BY <1>1, <2>2 DEF OpenFile
  <2>4. OpeningFits'
    BY <2>1, <2>3 DEF OpeningFits, FirstStep
  <2> QED
    BY <2>1, <2>4, QuietMain
<1>2. ASSUME NEW x \in Tokens, GrantOpened(x) PROVE Control'
  <2>1. opening.step = "grant" /\ opening' = [opening EXCEPT !.step = "register", !.token = x]
        /\ UNCHANGED <<live, sessions, cmd>>
    BY <1>2 DEF GrantOpened
  <2>2. OpeningFits'
    BY <1>0, <2>1 DEF OpeningFits, Opening, Files
  <2> QED
    BY <1>0, <2>1, <2>2, QuietMain DEF OpeningFits
<1>3. CASE RegisterOpened
  <2> DEFINE w == opening.label
  <2>1. /\ sessions[w] = None /\ UNCHANGED <<live, cmd>> /\ opening.file \in Files
        /\ opening.step = "register"
        /\ opening' = IF w \in live THEN Idle ELSE [opening EXCEPT !.step = "build"]
    BY <1>0, <1>3 DEF RegisterOpened, OpeningFits
  <2>2. /\ \A v \in Windows \ {w} : sessions'[v] = sessions[v]
        /\ sessions'[w].mode = "import" => sessions'[w].key \in Documents
    BY <1>0, <1>3, <2>1 DEF RegisterOpened, Register, Types, Files
  <2>3. CASE w \in live
    <3>1. opening' = Idle
      BY <2>1, <2>3
    <3>2. OpeningFits'
      BY <3>1, OpeningType DEF OpeningFits
    <3> QED
      BY <1>0, <2>1, <2>2, <2>3, <3>2, MainSets
  <2>4. CASE w \notin live
    <3>1. /\ opening'.step = "build" /\ opening'.label = w /\ opening'.file = opening.file
          /\ opening'.old = opening.old
      BY <1>0, <2>1, <2>4 DEF Opening
    <3>2. opening.file # None
      BY <2>1, NoneAssumption DEF Files
    <3>3. OpeningFits'
      BY <1>0, <2>1, <2>4, <3>1, <3>2 DEF OpeningFits
    <3>4. opening' # Idle
      BY <3>1, OpeningType
    <3> QED
      BY <1>0, <2>1, <2>2, <2>4, <3>1, <3>3, <3>4, MainSets
  <2> QED
    BY <2>3, <2>4
<1>4. CASE BuildWindow
  <2>1. OpeningFits'
    BY <1>4, OpeningType DEF BuildWindow, OpeningFits
  <2> QED
    BY <1>4, <2>1, QuietMain DEF BuildWindow
<1>5. CASE GrantFails
  <2>1. OpeningFits'
    BY <1>0, <1>5, EndedFits DEF GrantFails
  <2> QED
    BY <1>0, <1>5, <2>1, QuietMain DEF GrantFails, OpeningFits
<1>6. CASE RegisterFails
  <2>1. CASE opening.file \in Notes
    <3>1. /\ opening.step = "register" /\ UNCHANGED <<live, sessions>>
          /\ opening' = [opening EXCEPT !.step = "disown", !.old = opening.label]
      BY <1>6, <2>1 DEF RegisterFails
    <3>2. OpeningFits'
      BY <1>0, <3>1 DEF OpeningFits, Opening
    <3> QED
      BY <1>0, <1>6, <3>1, <3>2, QuietMain DEF RegisterFails, OpeningFits
  <2>2. CASE opening.file \notin Notes
    <3>1. OpeningFits'
      BY <1>0, <1>6, <2>2, EndedFits DEF RegisterFails
    <3> QED
      BY <1>0, <1>6, <3>1, QuietMain DEF RegisterFails, OpeningFits
  <2> QED
    BY <2>1, <2>2
<1>7. CASE BuildFails
  <2>0. opening.step = "build" /\ UNCHANGED <<live, sessions, cmd>>
    BY <1>7 DEF BuildFails
  <2>1. CASE opening.file = None
    <3>1. opening' = Idle
      BY <1>7, <2>1 DEF BuildFails
    <3>2. OpeningFits'
      BY <3>1, OpeningType DEF OpeningFits
    <3> QED
      BY <1>0, <2>0, <2>1, <3>2, QuietMain DEF OpeningFits
  <2>2. CASE opening.file # None
    <3>1. opening' = [opening EXCEPT !.step = "unregister", !.old = opening.label]
      BY <1>7, <2>2 DEF BuildFails
    <3>2. opening'.step = "unregister" /\ opening'.label = opening.label
          /\ opening'.old = opening.label
      BY <1>0, <3>1 DEF Opening
    <3>3. OpeningFits' /\ opening' # Idle
      BY <1>0, <2>0, <3>2, OpeningType DEF OpeningFits
    <3> QED
      BY <2>0, <3>2, <3>3, QuietMain
  <2> QED
    BY <2>1, <2>2
<1>8. CASE Fallback
  <2> DEFINE w == opening.label
  <2>1. /\ sessions[w] = None /\ UNCHANGED <<live, cmd>> /\ opening' = Idle
        /\ sessions' = [sessions EXCEPT ![w] = Workspace] /\ w \in live
    BY <1>0, <1>8 DEF Fallback, OpeningFits, Types
  <2>2. OpeningFits'
    BY <2>1, OpeningType DEF OpeningFits
  <2>3. sessions'[w] = Workspace /\ \A v \in Windows \ {w} : sessions'[v] = sessions[v]
    BY <1>0, <2>1 DEF Types
  <2>4. Workspace.mode # "import"
    BY DEF Workspace
  <2> QED
    BY <1>0, <2>1, <2>2, <2>3, <2>4, MainSets
<1>9. CASE CreateWorkspace
  <2>1. /\ opening = Idle /\ Main \notin live /\ UNCHANGED <<live, cmd>>
        /\ opening' = [Idle EXCEPT !.step = "build"]
    BY <1>9 DEF CreateWorkspace
  <2>2. /\ opening'.step = "build" /\ opening'.label = Main
        /\ opening'.file = None /\ opening'.old = None
    BY <2>1 DEF Idle
  <2>3. sessions[Main] \in {None, Workspace}
    BY <2>1, MainAssumption DEF Control, DeadSessions
  <2>4. sessions'[Main] = Workspace /\ \A v \in Windows \ {Main} : sessions'[v] = sessions[v]
    BY <1>9, <2>3, MainAssumption DEF CreateWorkspace, Types
  <2>5. OpeningFits'
    BY <2>1, <2>2, <2>4 DEF OpeningFits
  <2>6. Workspace.mode # "import"
    BY DEF Workspace
  <2> QED
    BY <2>1, <2>4, <2>5, <2>6, MainAssumption, MainSets
<1>10. ASSUME NEW w \in Windows, Destroyed(w) PROVE Control'
  <2>1. /\ opening = Idle /\ live' = live \ {w} /\ UNCHANGED <<sessions, cmd>>
        /\ opening' = [Idle EXCEPT !.step = "unregister", !.label = w, !.old = w]
    BY <1>10 DEF Destroyed
  <2>2. \A t \in Threads : cmd[t].step # "idle" => cmd[t].window # w
    BY <1>10 DEF Destroyed, Busy
  <2>3. (\A t \in Threads : CommandFits(t))' /\ OneSaveAtATime'
    BY <2>1, <2>2, LiveWindows, MainStep
  <2>4. opening'.step = "unregister" /\ opening'.label = w /\ opening'.old = w /\ opening' # Idle
    BY <2>1, OpeningType DEF Idle
  <2>5. OpeningFits'
    BY <2>1, <2>4 DEF OpeningFits
  <2>6. ImportsHaveDocuments' /\ DeadSessions'
    BY <2>1, <2>4 DEF Control, ImportsHaveDocuments, DeadSessions
  <2> QED
    BY <2>3, <2>5, <2>6 DEF Control
<1>11. CASE Unregister
  <2> DEFINE w == opening.label
  <2>1. /\ opening.step = "unregister" /\ opening.old = w /\ Forget(w) /\ UNCHANGED <<live, cmd>>
        /\ opening' = [opening EXCEPT !.step = IF opening.file = None THEN "unroot" ELSE "disown"]
        /\ w \notin live
    BY <1>0, <1>11 DEF Unregister, OpeningFits
  <2>2. /\ opening'.step \in {"unroot", "disown"} /\ opening'.label = w
        /\ opening'.old = w /\ opening'.file = opening.file
    BY <1>0, <2>1 DEF Opening
  <2>3. sessions'[w] = None /\ \A v \in Windows \ {w} : sessions'[v] = sessions[v]
    BY <1>0, <2>1, ForgetKeeps
  <2>4. OpeningFits'
    BY <2>1, <2>2, <2>3 DEF OpeningFits
  <2> QED
    BY <1>0, <2>1, <2>3, <2>4, MainSets
<1>12. CASE Unroot
  <2>1. /\ opening.step = "unroot" /\ UNCHANGED <<live, sessions, cmd>>
        /\ opening' = [opening EXCEPT !.step = "disown"]
    BY <1>12 DEF Unroot
  <2>2. OpeningFits'
    BY <1>0, <2>1 DEF OpeningFits, Opening
  <2> QED
    BY <1>0, <2>1, <2>2, QuietMain DEF OpeningFits
<1>13. CASE Disown
  <2>1. /\ opening.step = "disown" /\ opening' = Ended /\ UNCHANGED <<live, sessions, cmd>>
    BY <1>0, <1>13 DEF Disown, OpeningFits
  <2>2. OpeningFits'
    BY <1>0, <2>1, EndedFits
  <2> QED
    BY <1>0, <2>1, <2>2, QuietMain DEF OpeningFits
<1> QED
  BY <1>1, <1>2, <1>3, <1>4, <1>5, <1>6, <1>7, <1>8, <1>9, <1>10, <1>11, <1>12, <1>13
  DEF MainThread

\* What a command starts with.
Started(t, op, step, w, x, f) ==
    /\ Begin(t, op, step, w, x, f)
    /\ step \in StepsOf[op] \ {"replace"}
    /\ step = "issue" => f \in Notes
    /\ op = "openExternal" => IsWorkspace(w)
    /\ op = "saveImport" => /\ sessions[w] # None /\ sessions[w].mode = "import"
                            /\ \A u \in Threads : ~Saving(u, w)

LEMMA BeginControl ==
    ASSUME Types, Control, NEW t \in Threads, BeginCommand(t)
    PROVE  Control'
  <1> DEFINE New(op, step, w, x, f) ==
          [op |-> op, step |-> step, window |-> w, token |-> x, file |-> f]
  <1>1. PICK op \in Ops, step \in Steps, w \in Windows, x \in Tokens \cup {None},
             f \in Files \cup {None} : Started(t, op, step, w, x, f)
    <2> DEFINE Some == \E op \in Ops, step \in Steps, w \in Windows, x \in Tokens \cup {None},
                          f \in Files \cup {None} : Started(t, op, step, w, x, f)
    <2>1. \A w \in Windows : External(w) => /\ sessions[w].token \in Tokens \cup {None}
                                            /\ sessions[w].key \in Files \cup {None}
      BY DEF External, Types, Session
    <2>2. ASSUME NEW w \in Windows, BeginEnable(t, w) PROVE Some
      <3>1. Started(t, "enable", "upgrade", w, sessions[w].token, sessions[w].key)
        BY <2>2 DEF BeginEnable, Started, StepsOf
      <3> QED
        BY <2>1, <2>2, <3>1 DEF BeginEnable, Ops, Steps, Files
    <2>3. ASSUME NEW w \in Windows, BeginPromote(t, w) PROVE Some
      <3>1. Started(t, "promote", "owner", w, sessions[w].token, sessions[w].key)
        BY <2>3 DEF BeginPromote, Started, StepsOf
      <3> QED
        BY <2>1, <2>3, <3>1 DEF BeginPromote, Ops, Steps, Files
    <2>4. ASSUME NEW w \in Windows, NEW f \in Notes \cup {None}, BeginWrite(t, w, f) PROVE Some
      <3>1. Started(t, "write", "owner", w, sessions[w].token, f)
        BY <2>4 DEF BeginWrite, Started, StepsOf
      <3> QED
        BY <2>1, <2>4, <3>1 DEF BeginWrite, Ops, Steps, Files
    <2>5. ASSUME NEW w \in Windows, NEW f \in Notes, BeginSaveAs(t, w, f) PROVE Some
      <3>1. Started(t, "saveAs", "issue", w, None, f)
        BY <2>5 DEF BeginSaveAs, Started, StepsOf
      <3> QED
        BY <2>5, <3>1 DEF BeginSaveAs, Ops, Steps, Files
    <2>6. ASSUME NEW w \in Windows, NEW f \in Notes, BeginSaveImport(t, w, f) PROVE Some
      <3>1. Started(t, "saveImport", "issue", w, None, f)
        BY <2>6 DEF BeginSaveImport, Started, Saving, StepsOf
      <3> QED
        BY <2>6, <3>1 DEF BeginSaveImport, Ops, Steps, Files
    <2>7. ASSUME NEW w \in Windows, NEW x \in Tokens, BeginOpenExternal(t, w, x) PROVE Some
      <3>1. Started(t, "openExternal", "owner", w, x, None)
        BY <2>7 DEF BeginOpenExternal, Started, StepsOf
      <3> QED
        BY <2>7, <3>1 DEF BeginOpenExternal, Ops, Steps, Files
    <2>8. ASSUME NEW w \in Windows, NEW x \in Tokens, BeginRevoke(t, w, x) PROVE Some
      <3>1. Started(t, "revokeAccess", "owner", w, x, None)
        BY <2>8 DEF BeginRevoke, Started, StepsOf
      <3> QED
        BY <2>8, <3>1 DEF BeginRevoke, Ops, Steps, Files
    <2> QED
      BY <2>2, <2>3, <2>4, <2>5, <2>6, <2>7, <2>8 DEF BeginCommand
  <1>2. /\ cmd[t].step = "idle" /\ w \in live /\ cmd'[t] = New(op, step, w, x, f)
        /\ \A u \in Threads \ {t} : cmd'[u] = cmd[u]
        /\ UNCHANGED <<live, sessions, opening>>
    BY <1>1 DEF Started, Begin, tables, Types
  <1>3. ASSUME NEW u \in Threads PROVE CommandFits(u)'
    <2>1. CASE u = t
      BY <1>1, <1>2, <2>1 DEF CommandFits, IsWorkspace, Started
    <2>2. CASE u # t
      BY <1>2, <2>2, StillFits DEF Control, CommandFits
    <2> QED
      BY <2>1, <2>2
  <1>4. OneSaveAtATime'
    <2>1. \A u \in Threads \ {t}, v \in Windows : Saving(u, v)' => Saving(u, v)
      BY <1>2 DEF Saving
    <2>2. \A v \in Windows : Saving(t, v)' => v = w /\ op = "saveImport"
      BY <1>2 DEF Saving
    <2> QED
      BY <1>1, <2>1, <2>2 DEF Control, OneSaveAtATime, Started
  <1>5. OpeningFits' /\ ImportsHaveDocuments' /\ DeadSessions'
    BY <1>2 DEF Control, OpeningFits, ImportsHaveDocuments, DeadSessions
  <1> QED
    BY <1>3, <1>4, <1>5 DEF Control

\* A command that ends by changing the session of its own window.
LEMMA SessionStep ==
    ASSUME Types, Control, NEW t \in Threads, cmd[t].step # "idle", Done(t),
           NEW w \in Windows, w \in live, sessions[w] # None,
           External(w) \/ (Saving(t, w) /\ sessions[w].mode = "import"),
           \A v \in Windows \ {w} : sessions'[v] = sessions[v],
           sessions'[w].mode # "import",
           UNCHANGED <<live, opening>>
    PROVE  Control'
  <1>1. ASSUME NEW u \in Threads PROVE CommandFits(u)'
    <2>1. CASE u = t
      BY <2>1, Finished DEF CommandFits
    <2>2. CASE u # t /\ cmd[u].window # w
      BY <2>2, Finished, StillFits, LiveWindows DEF Control
    <2>3. CASE u # t /\ cmd[u].window = w
      <3>1. cmd'[u] = cmd[u] /\ CommandFits(u)
        BY <2>3, Finished DEF Control
      <3>2. cmd[u].step # "idle" => cmd[u].op # "openExternal"
        BY <2>3, <3>1 DEF CommandFits, IsWorkspace, External
      <3>3. cmd[u].step # "idle" /\ cmd[u].op = "saveImport" =>
               cmd[u].step \notin {"issue", "replace"}
        <4>1. CASE External(w)
          BY <2>3, <3>1, <4>1 DEF CommandFits, External
        <4>2. CASE Saving(t, w)
          BY <2>3, <4>2 DEF Control, OneSaveAtATime, Saving
        <4> QED
          BY <4>1, <4>2
      <3> QED
        BY <3>1, <3>2, <3>3 DEF CommandFits
    <2> QED
      BY <2>1, <2>2, <2>3
  <1>2. OneSaveAtATime'
    BY NoNewSave DEF Control
  <1>3. OpeningFits'
    BY DEF Control, OpeningFits, Types, Opening
  <1>4. ImportsHaveDocuments' /\ DeadSessions'
    BY DEF Control, ImportsHaveDocuments, DeadSessions
  <1> QED
    BY <1>1, <1>2, <1>3, <1>4 DEF Control

LEMMA StepControl ==
    ASSUME Types, Control, NEW t \in Threads, StepCommand(t)
    PROVE  Control'
  <1> DEFINE w == cmd[t].window
  <1>0. w \in Windows /\ CommandFits(t) /\ cmd[t].op \in Ops
    BY DEF Types, Command, Control
  <1>1. CASE AssertOwner(t)
    <2>1. cmd[t].step = "owner" => AfterOwner[cmd[t].op] \in StepsOf[cmd[t].op] \ {"owner", "issue", "replace"}
      BY <1>0 DEF CommandFits, AfterOwner, StepsOf, Ops
    <2> QED
      BY <1>1, <2>1, PlainStep DEF AssertOwner, tables
  <1>2. CASE EnableFileWrite(t)
    <2>1. EnableFileWrite(t) => "enter" \in StepsOf[cmd[t].op]
      BY <1>0 DEF EnableFileWrite, CommandFits, StepsOf, Ops
    <2> QED
      BY <1>2, <2>1, PlainStep, RefuseIsDone DEF EnableFileWrite
  <1>3. CASE EnterEdit(t)
    <2>1. CASE External(w)
      <3>1. /\ Done(t) /\ UNCHANGED <<live, opening>> /\ cmd[t].step # "idle"
            /\ sessions' = [sessions EXCEPT ![w].mode = "edit"]
        BY <1>3, <2>1 DEF EnterEdit
      <3>2. sessions[w] # None /\ sessions[w] \in Session
        BY <1>0, <2>1 DEF External, Types
      <3>3. sessions'[w].mode # "import" /\ \A v \in Windows \ {w} : sessions'[v] = sessions[v]
        BY <1>0, <3>1, <3>2 DEF Types, Session
      <3> QED
        BY <1>0, <2>1, <3>1, <3>2, <3>3, SessionStep, LiveWindows
    <2>2. CASE ~External(w)
      <3>1. "downgrade" \in StepsOf[cmd[t].op]
        BY <1>0, <1>3 DEF EnterEdit, CommandFits, StepsOf, Ops
      <3> QED
        BY <1>3, <2>2, <3>1, PlainStep DEF EnterEdit
    <2> QED
      BY <2>1, <2>2
  <1>4. CASE DisableFileWrite(t)
    BY <1>4, PlainStep DEF DisableFileWrite
  <1>5. CASE Prepare(t)
    <2>1. Prepare(t) => "commit" \in StepsOf[cmd[t].op]
      BY <1>0 DEF Prepare, CommandFits, StepsOf, Ops
    <2> QED
      BY <1>5, <2>1, PlainStep, RefuseIsDone DEF Prepare
  <1>6. CASE PrepareFails(t) \/ Put(t) \/ SaveFails(t)
    BY <1>6, PlainStep DEF PrepareFails, Put, SaveFails, tables
  <1>7. CASE CommitPromotion(t)
    <2>1. CASE SameSession(t) /\ Promotable(t)
      <3>1. /\ Done(t) /\ UNCHANGED <<live, opening>> /\ cmd[t].step # "idle"
            /\ sessions' = [sessions EXCEPT ![w] = Promoted(@)]
        BY <1>7, <2>1 DEF CommitPromotion
      <3>2. External(w) /\ sessions[w] # None /\ sessions[w] \in Session
        BY <1>0, <2>1 DEF SameSession, External, Types
      <3>3. sessions'[w].mode # "import" /\ \A v \in Windows \ {w} : sessions'[v] = sessions[v]
        BY <1>0, <3>1, <3>2 DEF Types, Session, Promoted
      <3> QED
        BY <1>0, <3>1, <3>2, <3>3, SessionStep, LiveWindows
    <2>2. CASE ~(SameSession(t) /\ Promotable(t))
      BY <1>7, <2>2, PlainStep, RefuseIsDone DEF CommitPromotion
    <2> QED
      BY <2>1, <2>2
  <1>8. CASE CommitOpenExternal(t)
    BY <1>8, PlainStep, RefuseIsDone DEF CommitOpenExternal
  <1>9. CASE Resolve(t)
    <2>1. Resolve(t) => "put" \in StepsOf[cmd[t].op]
      BY <1>0 DEF Resolve, CommandFits, StepsOf, Ops
    <2> QED
      BY <1>9, <2>1, PlainStep, RefuseIsDone DEF Resolve
  <1>10. CASE Replace(t)
    <2>1. cmd[t].step = "replace" /\ cmd[t].op = "saveImport" /\ sessions[w] # None
          /\ sessions[w].mode = "import" /\ Saving(t, w)
      BY <1>0, <1>10 DEF Replace, CommandFits, Saving, StepsOf, Ops
    <2>2. CASE ~Taken(cmd[t].file, w)
      <3>1. /\ Done(t) /\ UNCHANGED <<live, opening>>
            /\ sessions' = [sessions EXCEPT ![w] =
                  [mode |-> "edit", key |-> cmd[t].file, token |-> cmd[t].token]]
        BY <1>10, <2>1, <2>2 DEF Replace
      <3>2. sessions'[w].mode # "import" /\ \A v \in Windows \ {w} : sessions'[v] = sessions[v]
        BY <1>0, <3>1 DEF Types
      <3> QED
        BY <1>0, <2>1, <3>1, <3>2, SessionStep, LiveWindows
    <2>3. CASE Taken(cmd[t].file, w)
      <3>1. "revoke" \in StepsOf[cmd[t].op]
        BY <2>1 DEF StepsOf
      <3> QED
        BY <1>10, <2>1, <2>3, <3>1, PlainStep DEF Replace
    <2> QED
      BY <2>2, <2>3
  <1>11. CASE Revoke(t)
    BY <1>11, PlainStep DEF Revoke
  <1>12. ASSUME NEW x \in Tokens, IssueSaved(t, x) PROVE Control'
    <2>1. cmd[t].step = "issue" /\ UNCHANGED <<live, sessions, opening>>
      BY <1>12 DEF IssueSaved
    <2>2. CASE cmd[t].op = "saveAs"
      BY <1>12, <2>1, <2>2, PlainStep DEF IssueSaved
    <2>3. CASE cmd[t].op # "saveAs"
      <3>1. cmd' = [cmd EXCEPT ![t].step = "replace", ![t].token = x]
        BY <1>12, <2>3 DEF IssueSaved
      <3>2. /\ cmd'[t].step = "replace" /\ cmd'[t].op = cmd[t].op
            /\ cmd'[t].window = w /\ cmd'[t].file = cmd[t].file
            /\ \A u \in Threads \ {t} : cmd'[u] = cmd[u]
        BY <3>1 DEF Types, Command
      <3>3. cmd[t].op = "saveImport"
        BY <1>0, <2>1, <2>3 DEF CommandFits, StepsOf, Ops
      <3>4. CommandFits(t)'
        BY <1>0, <2>1, <3>2, <3>3 DEF CommandFits, StepsOf
      <3>5. ASSUME NEW u \in Threads \ {t} PROVE CommandFits(u)'
        <4>1. CommandFits(u) /\ cmd'[u] = cmd[u]
          BY <3>2 DEF Control
        <4> QED
          BY <2>1, <4>1, StillFits, LiveWindows
      <3>6. OneSaveAtATime'
        BY <2>1, <3>2 DEF Control, OneSaveAtATime, Saving
      <3>7. OpeningFits' /\ ImportsHaveDocuments' /\ DeadSessions'
        BY <2>1 DEF Control, OpeningFits, ImportsHaveDocuments, DeadSessions
      <3> QED
        BY <3>4, <3>5, <3>6, <3>7 DEF Control
    <2> QED
      BY <2>2, <2>3
  <1> QED
    BY <1>1, <1>2, <1>3, <1>4, <1>5, <1>6, <1>7, <1>8, <1>9, <1>10, <1>11, <1>12
    DEF StepCommand

LEMMA ControlStep == Types /\ Control /\ IndexMatchesSessions /\ Next => Control'
<1> SUFFICES ASSUME Types, Control, IndexMatchesSessions, Next PROVE Control'
  OBVIOUS
<1>1. ASSUME UNCHANGED <<live, sessions, opening, cmd>> PROVE Control'
  BY <1>1 DEF Control, OpeningFits, CommandFits, OneSaveAtATime, ImportsHaveDocuments,
              DeadSessions, Saving, IsWorkspace
<1>2. CASE \E w \in Windows : OpenNotebook(w)
  BY <1>1, <1>2 DEF OpenNotebook
<1>3. CASE \E x \in Tokens : Expire(x)
  BY <1>1, <1>3 DEF Expire
<1> QED
  BY <1>2, <1>3, MainControl, BeginControl, StepControl DEF Next

-----------------------------------------------------------------------------
(***************************************************************************)
(* The path index and the roots                                            *)
(***************************************************************************)

\* What no step may change about a window to leave the index valid.
Key(w) == IF sessions[w] = None THEN None ELSE sessions[w].key

LEMMA SameKeys ==
    ASSUME IndexMatchesSessions, UNCHANGED labels,
           \A w \in Windows : Key(w)' = Key(w)
    PROVE  IndexMatchesSessions'
  <1>1. \A f \in Files : f # None
    BY NoneAssumption DEF Files
  <1>2. \A f \in Files, w \in Windows :
            (sessions[w] # None /\ sessions[w].key = f <=> Key(w) = f)
    BY <1>1 DEF Key
  <1>3. \A f \in Files, w \in Windows :
            (sessions'[w] # None /\ sessions'[w].key = f <=> Key(w)' = f)
    BY <1>1 DEF Key
  <1> QED
    BY <1>2, <1>3 DEF IndexMatchesSessions

\* A new payload for the same path.
LEMMA SamePath ==
    ASSUME Types, NEW w \in Windows, sessions[w] # None, NEW s \in Session,
           s.key = sessions[w].key, sessions' = [sessions EXCEPT ![w] = s]
    PROVE  \A v \in Windows : Key(v)' = Key(v)
  BY RecordAssumption DEF Types, Key

LEMMA ForgetIndex ==
    ASSUME Types, IndexMatchesSessions, NEW w \in Windows, Forget(w)
    PROVE  IndexMatchesSessions'
  BY NoneAssumption DEF Types, IndexMatchesSessions, Forget

LEMMA IndexStep == Types /\ Control /\ IndexMatchesSessions /\ Next => IndexMatchesSessions'
<1> SUFFICES ASSUME Types, Control, IndexMatchesSessions, Next PROVE IndexMatchesSessions'
  OBVIOUS
<1>0. ASSUME UNCHANGED <<sessions, labels>> PROVE IndexMatchesSessions'
  BY <1>0 DEF IndexMatchesSessions
<1>1. CASE MainThread
  <2>2. CASE RegisterOpened
    <3> DEFINE w == opening.label  f == opening.file
    <3>1. w \in Windows /\ f \in Files /\ sessions[w] = None
      BY <2>2 DEF RegisterOpened, Types, Opening, Control, OpeningFits
    <3>2. /\ sessions'[w] # None => sessions'[w].key = f
          /\ \A v \in Windows \ {w} : sessions'[v] = sessions[v]
          /\ labels' = [labels EXCEPT ![f] = w]
          /\ labels[f] \in {None, w}
      BY <2>2, <3>1 DEF RegisterOpened, Register, Taken, Types
    <3>3. sessions'[w] = [mode |-> IF f \in Notes THEN "readonly" ELSE "import",
                          key |-> f, token |-> opening.token]
      BY <2>2, <3>1 DEF RegisterOpened, Register, Types
    <3>4. sessions'[w] # None
      BY <3>1, <3>3, RecordAssumption DEF Session, Modes, Types, Opening
    <3> QED
      BY <3>1, <3>2, <3>4, NoneAssumption DEF IndexMatchesSessions, Types
  <2>3. CASE Fallback \/ CreateWorkspace
    <3>1. \A v \in Windows : Key(v)' = Key(v)
      BY <2>3 DEF Fallback, CreateWorkspace, Key, Types, Workspace
    <3> QED
      BY <2>3, <3>1, SameKeys DEF Fallback, CreateWorkspace
  <2>4. CASE Unregister
    <3>1. opening.old \in Windows
      BY <2>4 DEF Unregister, Types, Opening, Control, OpeningFits
    <3> QED
      BY <2>4, <3>1, ForgetIndex DEF Unregister
  <2> QED
    BY <1>0, <1>1, <2>2, <2>3, <2>4 DEF MainThread, OpenFile, GrantOpened, BuildWindow,
       GrantFails, RegisterFails, BuildFails, Destroyed, Unroot, Disown
<1>2. ASSUME NEW t \in Threads, BeginCommand(t) PROVE IndexMatchesSessions'
  BY <1>0, <1>2 DEF BeginCommand, BeginEnable, BeginPromote, BeginWrite, BeginSaveAs,
     BeginSaveImport, BeginOpenExternal, BeginRevoke, Begin, tables
<1>3. ASSUME NEW t \in Threads, StepCommand(t) PROVE IndexMatchesSessions'
  <2> DEFINE w == cmd[t].window  f == cmd[t].file
  <2>0. w \in Windows /\ CommandFits(t)
    BY DEF Types, Command, Control
  <2>1. CASE EnterEdit(t)
    <3>1. \A v \in Windows : Key(v)' = Key(v)
      <4>1. CASE External(w)
        <5>1. sessions[w] \in Session /\ sessions[w] # None
          BY <2>0, <4>1 DEF External, Types
        <5>2. [sessions[w] EXCEPT !.mode = "edit"] \in Session
          BY <5>1 DEF Session, Modes
        <5> QED
          BY <2>0, <2>1, <4>1, <5>1, <5>2, SamePath DEF EnterEdit, Session
      <4> QED
        BY <2>1, <4>1 DEF EnterEdit, Key
    <3> QED
      BY <2>1, <3>1, SameKeys DEF EnterEdit
  <2>2. CASE CommitPromotion(t)
    <3>1. \A v \in Windows : Key(v)' = Key(v)
      <4>1. CASE SameSession(t) /\ Promotable(t)
        <5>1. sessions[w] \in Session /\ sessions[w] # None
          BY <2>0, <4>1 DEF SameSession, External, Types
        <5>2. Promoted(sessions[w]) \in Session /\ Promoted(sessions[w]).key = sessions[w].key
          BY <5>1 DEF Session, Modes, Promoted
        <5> QED
          BY <2>0, <2>2, <4>1, <5>1, <5>2, SamePath DEF CommitPromotion
      <4> QED
        BY <2>2, <4>1 DEF CommitPromotion, Key
    <3> QED
      BY <2>2, <3>1, SameKeys DEF CommitPromotion
  <2>3. CASE Replace(t)
    <3>1. f \in Files /\ sessions[w] # None /\ sessions[w].key \in Files
      BY <2>0, <2>3, SavesAreImports DEF Replace, CommandFits, Control, ImportsHaveDocuments, Files
    <3>2. CASE ~Taken(f, w)
      <4>1. /\ sessions'[w] = [mode |-> "edit", key |-> f, token |-> cmd[t].token]
            /\ \A v \in Windows \ {w} : sessions'[v] = sessions[v]
            /\ labels' = [labels EXCEPT ![sessions[w].key] = None, ![f] = w]
            /\ labels[f] \in {None, w}
        BY <2>0, <2>3, <3>1, <3>2 DEF Replace, Taken, Types
      <4>2. sessions'[w] # None /\ sessions'[w].key = f
        BY <3>1, <4>1, RecordAssumption DEF Session, Modes, Types, Command
      <4>3. labels[sessions[w].key] = w
        BY <2>0, <3>1 DEF IndexMatchesSessions
      <4> QED
        BY <2>0, <3>1, <4>1, <4>2, <4>3, NoneAssumption DEF IndexMatchesSessions, Types
    <3>3. CASE Taken(f, w)
      BY <1>0, <2>3, <3>3 DEF Replace
    <3> QED
      BY <3>2, <3>3
  <2> QED
    BY <1>0, <1>3, <2>1, <2>2, <2>3 DEF StepCommand, AssertOwner, EnableFileWrite,
       DisableFileWrite, Prepare, PrepareFails, CommitOpenExternal, Resolve, Put, SaveFails,
       Revoke, IssueSaved, tables
<1> QED
  BY <1>0, <1>1, <1>2, <1>3 DEF Next, OpenNotebook, Expire

\* Windows that keep their roots and their sessions stay as they should be.
LEMMA StillRooted ==
    ASSUME Rooted, UNCHANGED roots, roots \cap live' \subseteq live, RootsAreThere',
           \A w \in Windows :
               \/ sessions'[w] = sessions[w]
               \/ w \notin roots /\ ~(IsWorkspace(w) /\ sessions[w].key # None)'
    PROVE  Rooted'
  BY DEF Rooted, RootsAreWorkspaces, IsWorkspace

\* The main thread goes on with an opening.
LEMMA StillThere ==
    ASSUME Rooted, UNCHANGED roots, live \subseteq live',
           opening.step \notin {"unregister", "unroot"} \/ UNCHANGED opening
    PROVE  RootsAreThere'
  BY DEF Rooted, RootsAreThere

LEMMA RootsStep == Types /\ Control /\ Rooted /\ Next => Rooted'
<1> SUFFICES ASSUME Types, Control, Rooted, Next PROVE Rooted'
  OBVIOUS
<1>0. ASSUME UNCHANGED <<sessions, roots, live, opening>> PROVE Rooted'
  BY <1>0, StillRooted, StillThere
<1>1. CASE MainThread
  <2>0. opening \in Opening /\ opening.label \in Windows /\ OpeningFits /\ Idle.step = "idle"
    BY DEF Types, Opening, Control, Idle
  <2>1. CASE \/ \E w \in Windows, f \in Files : OpenFile(w, f)
             \/ \E x \in Tokens : GrantOpened(x)
             \/ GrantFails \/ RegisterFails \/ BuildFails \/ Disown
    <3>1. UNCHANGED <<roots, live, sessions>> /\ opening.step \notin {"unregister", "unroot"}
      BY <2>0, <2>1 DEF OpenFile, GrantOpened, GrantFails, RegisterFails, BuildFails, Disown
    <3> QED
      BY <3>1, StillRooted, StillThere
  <2>2. CASE RegisterOpened
    <3> DEFINE w == opening.label
    <3>1. sessions[w] = None
      BY <2>0, <2>2 DEF RegisterOpened, OpeningFits
    <3>2. /\ \A v \in Windows \ {w} : sessions'[v] = sessions[v]
          /\ sessions'[w].mode # "workspace"
          /\ UNCHANGED <<live, roots>> /\ opening.step = "register"
      BY <2>0, <2>2, <3>1 DEF RegisterOpened, Register, Types
    <3>3. w \notin roots
      BY <2>0, <3>1, <3>2 DEF Rooted, RootsAreWorkspaces, RootsAreThere, IsWorkspace
    <3> QED
      BY <2>0, <3>2, <3>3, StillRooted, StillThere DEF IsWorkspace
  <2>3. CASE Fallback \/ CreateWorkspace
    <3> DEFINE w == IF Fallback THEN opening.label ELSE Main
    <3>1. /\ w \in Windows /\ UNCHANGED <<live, roots>>
          /\ opening.step \in {"fallback", "idle"}
          /\ sessions' = [sessions EXCEPT ![w] = IF @ = None THEN Workspace ELSE @]
      BY <2>0, <2>3, MainAssumption DEF Fallback, CreateWorkspace
    <3>2. w \notin roots \/ sessions[w] # None
      BY <3>1 DEF Rooted, RootsAreWorkspaces, RootsAreThere, IsWorkspace
    <3>3. \A v \in Windows : sessions'[v] = sessions[v] \/ (v = w /\ sessions[v] = None /\ sessions'[v] = Workspace)
      BY <3>1 DEF Types
    <3> QED
      BY <3>1, <3>2, <3>3, StillRooted, StillThere DEF IsWorkspace, Workspace
  <2>4. CASE BuildWindow
    <3>1. /\ UNCHANGED <<roots, sessions>> /\ live' = live \cup {opening.label}
          /\ opening.step = "build" /\ opening.label \notin live
      BY <2>0, <2>4 DEF BuildWindow, OpeningFits
    <3>2. opening.label \notin roots
      BY <3>1 DEF Rooted, RootsAreThere
    <3> QED
      BY <3>1, <3>2, StillRooted, StillThere
  <2>5. ASSUME NEW w \in Windows, Destroyed(w) PROVE Rooted'
    <3>1. /\ UNCHANGED <<roots, sessions>> /\ live' = live \ {w} /\ opening = Idle
          /\ opening'.step = "unregister" /\ opening'.label = w /\ opening'.file = None
      BY <2>5 DEF Destroyed, Idle
    <3>2. RootsAreThere'
      BY <2>0, <3>1 DEF Rooted, RootsAreThere
    <3> QED
      BY <3>1, <3>2, StillRooted
  <2>6. CASE Unregister
    <3> DEFINE w == opening.label
    <3>1. /\ UNCHANGED <<roots, live>> /\ Forget(w) /\ w \notin live /\ opening.step = "unregister"
          /\ opening' = [opening EXCEPT !.step = IF opening.file = None THEN "unroot" ELSE "disown"]
      BY <2>0, <2>6 DEF Unregister, OpeningFits
    <3>2. sessions'[w] = None /\ \A v \in Windows \ {w} : sessions'[v] = sessions[v]
      BY <2>0, <3>1, ForgetKeeps
    <3>3. RootsAreWorkspaces'
      BY <3>1, <3>2 DEF Rooted, RootsAreWorkspaces, IsWorkspace
    <3>4. RootsAreThere'
      <4>1. /\ opening'.label = w /\ opening'.file = opening.file
            /\ opening.file = None => opening'.step = "unroot"
        BY <2>0, <3>1 DEF Opening
      <4> QED
        BY <3>1, <4>1 DEF Rooted, RootsAreThere
    <3> QED
      BY <3>3, <3>4 DEF Rooted
  <2>7. CASE Unroot
    <3>1. /\ roots' = roots \ {opening.label} /\ UNCHANGED <<live, sessions>>
          /\ sessions[opening.label] = None
      BY <2>0, <2>7 DEF Unroot, OpeningFits
    <3> QED
      BY <3>1 DEF Rooted, RootsAreWorkspaces, RootsAreThere, IsWorkspace
  <2> QED
    BY <1>1, <2>1, <2>2, <2>3, <2>4, <2>5, <2>6, <2>7 DEF MainThread
<1>2. ASSUME NEW t \in Threads, BeginCommand(t) PROVE Rooted'
  BY <1>0, <1>2 DEF BeginCommand, BeginEnable, BeginPromote, BeginWrite, BeginSaveAs,
     BeginSaveImport, BeginOpenExternal, BeginRevoke, Begin, tables
<1>3. ASSUME NEW t \in Threads, StepCommand(t) PROVE Rooted'
  <2> DEFINE w == cmd[t].window
  <2>0. w \in Windows /\ CommandFits(t)
    BY DEF Types, Command, Control
  <2>1. CASE EnterEdit(t)
    <3>1. CASE External(w)
      <4>1. w \notin roots /\ sessions[w] \in Session
        BY <2>0, <2>1, <3>1, LiveWindows DEF EnterEdit, External, Rooted, RootsAreWorkspaces, IsWorkspace, Types
      <4>2. UNCHANGED <<live, roots>> /\ sessions' = [sessions EXCEPT ![w].mode = "edit"]
        BY <2>1, <3>1 DEF EnterEdit
      <4>3. sessions'[w].mode = "edit" /\ \A v \in Windows \ {w} : sessions'[v] = sessions[v]
        BY <2>0, <4>1, <4>2 DEF Types, Session
      <4> QED
        BY <2>1, <4>1, <4>2, <4>3, StillRooted, StillThere DEF EnterEdit, IsWorkspace
    <3>2. CASE ~External(w)
      BY <1>0, <2>1, <3>2 DEF EnterEdit
    <3> QED
      BY <3>1, <3>2
  <2>2. CASE CommitPromotion(t)
    <3>1. CASE SameSession(t) /\ Promotable(t)
      <4>1. sessions[w] \in Session /\ w \in live
        BY <2>0, <2>2, <3>1 DEF SameSession, External, Types, CommitPromotion, CommandFits
      <4>2. /\ UNCHANGED live /\ roots' = roots \cup {w}
            /\ sessions' = [sessions EXCEPT ![w] = Promoted(@)]
        BY <2>2, <3>1 DEF CommitPromotion
      <4>3. Promoted(sessions[w]) \in Session /\ Promoted(sessions[w]).mode = "workspace"
        BY <4>1 DEF Session, Modes, Promoted
      <4>4. sessions'[w] # None /\ sessions'[w].mode = "workspace"
            /\ \A v \in Windows \ {w} : sessions'[v] = sessions[v]
        BY <2>0, <4>2, <4>3, RecordAssumption DEF Types
      <4> QED
        BY <2>0, <2>2, <4>1, <4>2, <4>4
        DEF CommitPromotion, Rooted, RootsAreWorkspaces, RootsAreThere, IsWorkspace
    <3>2. CASE ~(SameSession(t) /\ Promotable(t))
      BY <1>0, <2>2, <3>2 DEF CommitPromotion
    <3> QED
      BY <3>1, <3>2
  <2>3. CASE Replace(t)
    <3>1. sessions[w] # None /\ sessions[w].mode = "import" /\ UNCHANGED <<live, roots>>
      BY <2>0, <2>3, SavesAreImports DEF Replace, CommandFits
    <3>2. CASE ~Taken(cmd[t].file, w)
      <4>1. sessions'[w].mode = "edit" /\ \A v \in Windows \ {w} : sessions'[v] = sessions[v]
        BY <2>0, <2>3, <3>1, <3>2 DEF Replace, Types
      <4> QED
        BY <2>0, <2>3, <3>1, <4>1, StillRooted, StillThere, LiveWindows
        DEF Replace, Rooted, RootsAreWorkspaces, IsWorkspace
    <3>3. CASE Taken(cmd[t].file, w)
      BY <1>0, <2>3, <3>3 DEF Replace
    <3> QED
      BY <3>2, <3>3
  <2>4. CASE CommitOpenExternal(t)
    BY <1>0, <2>0, <2>4
    DEF CommitOpenExternal, CommandFits, Rooted, RootsAreWorkspaces, RootsAreThere, IsWorkspace
  <2> QED
    BY <1>0, <1>3, <2>1, <2>2, <2>3, <2>4 DEF StepCommand, AssertOwner, EnableFileWrite,
       DisableFileWrite, Prepare, PrepareFails, Resolve, Put, SaveFails, Revoke, IssueSaved, tables
<1>4. ASSUME NEW w \in Windows, OpenNotebook(w) PROVE Rooted'
  BY <1>4 DEF OpenNotebook, Rooted, RootsAreWorkspaces, RootsAreThere, IsWorkspace
<1> QED
  BY <1>0, <1>1, <1>2, <1>3, <1>4 DEF Next, Expire

-----------------------------------------------------------------------------
(***************************************************************************)
(* Theorems                                                                *)
(***************************************************************************)

LEMMA OpeningIdle == Idle \in Opening /\ Idle.step = "idle" /\ Idle.old = None
  BY MainAssumption DEF Idle, Opening

LEMMA InitInv == Init => Inv
<1> SUFFICES ASSUME Init PROVE Inv
  OBVIOUS
<1>1. Workspace \in Session /\ Resting \in Command
  BY MainAssumption DEF Session, Workspace, Modes, Resting, Command, Ops, Steps
<1>2. /\ sessions \in [Windows -> {None, Workspace}]
      /\ \A t \in Threads : cmd[t] = Resting
      /\ cmd \in [Threads -> Command]
  BY <1>1 DEF Init
<1>3. /\ opening \in Opening /\ opening.old = None
      /\ opening = Idle \/ /\ opening.step \in {"grant", "register"}
                           /\ opening.file \in Files
                           /\ opening.step = "grant" => opening.file \in Notes
                           /\ \A w \in Windows : sessions[w] = None
  <2>1. CASE opening = Idle
    BY <2>1, OpeningIdle
  <2>2. ASSUME \A w \in Windows : sessions[w] = None, NEW f \in Files,
               opening = [Idle EXCEPT !.file = f, !.step = FirstStep(f)]
        PROVE  <1>3
    <3>1. opening = [step |-> FirstStep(f), label |-> Main, file |-> f,
                     token |-> None, old |-> None]
      BY <2>2 DEF Idle
    <3>2. opening.step \in {"grant", "register"} /\ (opening.step = "grant" => f \in Notes)
      BY <3>1 DEF FirstStep
    <3>3. opening \in Opening
      BY <3>1, MainAssumption DEF Opening, FirstStep
    <3>4. opening.old = None /\ opening.file = f
      BY <3>1
    <3> QED
      BY <2>2, <3>2, <3>3, <3>4
  <2> QED
    BY <2>1, <2>2 DEF Init
<1>4. Types
  BY <1>1, <1>2, <1>3, MainAssumption DEF Init, Types
<1>5. Control
  <2>1. OpeningFits
    <3>1. opening = Idle \/ opening.step \in {"grant", "register"}
      BY <1>3
    <3> QED
      BY <1>3, <3>1, OpeningIdle DEF OpeningFits, Opening
  <2>2. \A t \in Threads : CommandFits(t)
    BY <1>2 DEF CommandFits, Resting
  <2>3. OneSaveAtATime
    BY <1>2 DEF OneSaveAtATime, Saving, Resting
  <2>4. ImportsHaveDocuments
    BY <1>2 DEF ImportsHaveDocuments, Workspace
  <2>5. DeadSessions
    BY <1>2 DEF DeadSessions
  <2> QED
    BY <2>1, <2>2, <2>3, <2>4, <2>5 DEF Control
<1>6. /\ \A w \in Windows : sessions[w] = None \/ sessions[w].key = None
      /\ \A f \in Files : labels[f] = None /\ f # None
      /\ \A w \in Windows : w # None
      /\ roots = {}
  <2>1. \A w \in Windows : sessions[w] = None \/ sessions[w].key = None
    BY <1>2 DEF Workspace
  <2>2. roots = {} /\ labels = [f \in Files |-> None]
    BY DEF Init
  <2> QED
    BY <2>1, <2>2, NoneAssumption DEF Files
<1>7. IndexMatchesSessions
  BY <1>6 DEF IndexMatchesSessions
<1>8. Rooted
  BY <1>6 DEF Rooted, RootsAreWorkspaces, RootsAreThere, IsWorkspace
<1> QED
  BY <1>4, <1>5, <1>7, <1>8 DEF Inv

\* The invariant of the three tables and of the commands that use them.
LEMMA InvHolds == Spec => []Inv
<1>1. Inv /\ [Next]_vars => Inv'
  <2>1. CASE Next
    BY <2>1, TypeStep, ControlStep, IndexStep, RootsStep DEF Inv
  <2>2. CASE UNCHANGED vars
    BY <2>2 DEF vars, Inv, Types, Control, OpeningFits, CommandFits, OneSaveAtATime,
       ImportsHaveDocuments, DeadSessions, Saving, IndexMatchesSessions, Rooted,
       RootsAreWorkspaces, RootsAreThere, IsWorkspace
  <2> QED
    BY <2>1, <2>2
<1> QED
  BY <1>1, InitInv, PTL DEF Spec

\* The variables keep their types, and no command takes a lock of another kind
\* of command: only the copy of an import replaces the session of its window.
THEOREM Typed == Spec => []TypeOK
<1>1. Inv => TypeOK
  BY DEF Inv, Control, CommandFits, TypeOK, StepsFit
<1> QED
  BY <1>1, InvHolds, PTL

\* The registry's two maps agree: a path leads to the window whose session
\* has it, whatever openings, saves and promotions interleave.
THEOREM IndexIsExact == Spec => []IndexMatchesSessions
  BY InvHolds, PTL DEF Inv

\* Of the windows that are there only workspaces have a notebook root, and
\* every promoted one has.
THEOREM PromotionIsWhole == Spec => []RootsAreWorkspaces
  BY InvHolds, PTL DEF Inv, Rooted

-----------------------------------------------------------------------------
(***************************************************************************)
(* The registry implements FileOwnership                                   *)
(***************************************************************************)

\* A step that gives one window another file or right.
LEMMA OneWindowChanges ==
    ASSUME NEW w \in Windows, \A v \in Windows \ {w} : sessions'[v] = sessions[v],
           NEW f, NEW r,
           IF sessions'[w] = None THEN f = None /\ r = "none"
           ELSE sessions'[w].key = f /\ sessions'[w].mode = r
    PROVE  Ownership!Become(w, f, r)
  BY DEF Ownership!Become, Held, Right

LEMMA NothingChanges ==
    ASSUME UNCHANGED sessions PROVE UNCHANGED <<Held, Right>>
  BY DEF Held, Right

LEMMA ForgetReleases ==
    ASSUME Types, Control, NEW w \in Windows, Forget(w)
    PROVE  Ownership!Release(w)
  BY ForgetKeeps, OneWindowChanges DEF Ownership!Release

\* A file the index gives to nobody else is free once its window has none.
LEMMA NotTakenIsFree ==
    ASSUME Types, IndexMatchesSessions, NEW f \in Files, NEW w \in Windows,
           ~Taken(f, w), sessions[w] = None \/ sessions[w].key # f
    PROVE  Ownership!Free(f)
  BY NoneAssumption DEF Ownership!Free, Held, Taken, IndexMatchesSessions, Files

LEMMA AbstractStep == Inv /\ [Next]_vars => [Ownership!Next]_<<Held, Right>>
<1> SUFFICES ASSUME Inv, [Next]_vars
             PROVE  Ownership!Next \/ UNCHANGED <<Held, Right>>
  OBVIOUS
<1>0. Types /\ Control /\ IndexMatchesSessions
  BY DEF Inv
<1> DEFINE Goal == Ownership!Next \/ UNCHANGED <<Held, Right>>
<1>1. CASE MainThread
  <2> DEFINE w == opening.label  f == opening.file
  <2>0. w \in Windows
    BY <1>0 DEF Types, Opening
  <2>2. CASE RegisterOpened
    <3> DEFINE s == [mode |-> IF f \in Notes THEN "readonly" ELSE "import",
                     key |-> f, token |-> opening.token]
    <3>1. sessions[w] = None /\ f \in Files /\ ~Taken(f, w)
      BY <1>0, <2>2 DEF RegisterOpened, Control, OpeningFits
    <3>2. sessions'[w] = s /\ \A v \in Windows \ {w} : sessions'[v] = sessions[v]
      BY <1>0, <2>0, <2>2 DEF RegisterOpened, Register, Types
    <3>3. s # None
      BY <1>0, <3>1, RecordAssumption DEF Session, Modes, Types, Opening
    <3>4. s.mode = IF f \in Documents THEN "import" ELSE "readonly"
      BY <3>1, FilesAssumption DEF Files
    <3>5. Ownership!Become(w, f, IF f \in Documents THEN "import" ELSE "readonly")
      BY <2>0, <3>2, <3>3, <3>4, OneWindowChanges
    <3>6. Ownership!Free(f)
      BY <1>0, <2>0, <3>1, NotTakenIsFree
    <3>7. Right[w] = "none"
      BY <2>0, <3>1 DEF Right
    <3>8. Ownership!Claim(w, f)
      BY <3>5, <3>6, <3>7 DEF Ownership!Claim
    <3> QED
      BY <2>0, <3>1, <3>8 DEF Ownership!Next, Files
  <2>3. CASE Fallback \/ CreateWorkspace
    <3> DEFINE v == IF Fallback THEN opening.label ELSE Main
    <3>1. /\ v \in Windows
          /\ sessions' = [sessions EXCEPT ![v] = IF @ = None THEN Workspace ELSE @]
      BY <2>0, <2>3, MainAssumption DEF Fallback, CreateWorkspace
    <3>2. CASE sessions[v] = None
      <4>1. sessions'[v] = Workspace /\ \A u \in Windows \ {v} : sessions'[u] = sessions[u]
        BY <1>0, <3>1, <3>2 DEF Types
      <4>2. Right[v] = "none"
        BY <3>1, <3>2 DEF Right
      <4>3. Ownership!Become(v, None, "workspace")
        BY <3>1, <4>1, OneWindowChanges, WorkspaceIsThere DEF Workspace
      <4> QED
        BY <3>1, <4>2, <4>3 DEF Ownership!Enter, Ownership!Next
    <3>3. CASE sessions[v] # None
      BY <1>0, <3>1, <3>3, NothingChanges DEF Types
    <3> QED
      BY <3>2, <3>3
  <2>4. CASE Unregister
    <3>1. Forget(w)
      BY <1>0, <2>4 DEF Unregister, Control, OpeningFits
    <3> QED
      BY <1>0, <2>0, <3>1, ForgetReleases DEF Ownership!Next
  <2> QED
    BY <1>1, <2>2, <2>3, <2>4, NothingChanges DEF MainThread, OpenFile, GrantOpened, BuildWindow,
       GrantFails, RegisterFails, BuildFails, Destroyed, Unroot, Disown
<1>2. ASSUME NEW t \in Threads, BeginCommand(t) PROVE Goal
  BY <1>2, NothingChanges DEF BeginCommand, BeginEnable, BeginPromote, BeginWrite, BeginSaveAs,
     BeginSaveImport, BeginOpenExternal, BeginRevoke, Begin, tables
<1>3. ASSUME NEW t \in Threads, StepCommand(t) PROVE Goal
  <2> DEFINE w == cmd[t].window  f == cmd[t].file
  <2>0. w \in Windows /\ CommandFits(t)
    BY <1>0 DEF Types, Command, Control
  <2>1. CASE EnterEdit(t)
    <3>1. CASE External(w)
      <4> DEFINE s == [sessions[w] EXCEPT !.mode = "edit"]
      <4>1. sessions[w] \in Session /\ sessions[w] # None
        BY <1>0, <2>0, <3>1 DEF External, Types
      <4>2. s \in Session /\ s # None /\ s.key = sessions[w].key /\ s.mode = "edit"
        BY <4>1, RecordAssumption DEF Session, Modes
      <4>3. sessions'[w] = s /\ \A v \in Windows \ {w} : sessions'[v] = sessions[v]
        BY <1>0, <2>0, <2>1, <3>1 DEF EnterEdit, Types
      <4>4. Held[w] = sessions[w].key /\ Right[w] = sessions[w].mode
        BY <2>0, <4>1 DEF Held, Right
      <4>5. Ownership!Become(w, Held[w], "edit")
        BY <2>0, <4>2, <4>3, <4>4, OneWindowChanges
      <4>6. CASE sessions[w].mode = "readonly"
        BY <2>0, <4>4, <4>5, <4>6 DEF Ownership!Allow, Ownership!Next
      <4>7. CASE sessions[w].mode = "edit"
        BY <2>0, <4>4, <4>5, <4>7 DEF Ownership!Become, Held, Right
      <4> QED
        BY <3>1, <4>6, <4>7 DEF External
    <3>2. CASE ~External(w)
      BY <2>1, <3>2, NothingChanges DEF EnterEdit
    <3> QED
      BY <3>1, <3>2
  <2>2. CASE CommitPromotion(t)
    <3>1. CASE SameSession(t) /\ Promotable(t)
      <4> DEFINE s == Promoted(sessions[w])
      <4>1. sessions[w] \in Session /\ sessions[w] # None
        BY <1>0, <2>0, <3>1 DEF SameSession, External, Types
      <4>2. s \in Session /\ s # None /\ s.key = sessions[w].key /\ s.mode = "workspace"
        BY <4>1, RecordAssumption DEF Session, Modes, Promoted
      <4>3. sessions'[w] = s /\ \A v \in Windows \ {w} : sessions'[v] = sessions[v]
        BY <1>0, <2>0, <2>2, <3>1 DEF CommitPromotion, Types
      <4>4. Held[w] = sessions[w].key /\ Right[w] \in {"readonly", "edit"}
        BY <2>0, <3>1, <4>1 DEF Held, Right, SameSession, External
      <4>5. Ownership!Become(w, Held[w], "workspace")
        BY <2>0, <4>2, <4>3, <4>4, OneWindowChanges
      <4> QED
        BY <2>0, <4>4, <4>5 DEF Ownership!Promote, Ownership!Next
    <3>2. CASE ~(SameSession(t) /\ Promotable(t))
      BY <2>2, <3>2, NothingChanges DEF CommitPromotion
    <3> QED
      BY <3>1, <3>2
  <2>3. CASE Replace(t)
    <3>1. f \in Notes /\ sessions[w] # None /\ sessions[w].mode = "import"
          /\ sessions[w].key \in Documents
      BY <1>0, <2>0, <2>3, SavesAreImports DEF Replace, CommandFits, Control, ImportsHaveDocuments
    <3>2. CASE ~Taken(f, w)
      <4> DEFINE s == [mode |-> "edit", key |-> f, token |-> cmd[t].token]
      <4>1. sessions'[w] = s /\ \A v \in Windows \ {w} : sessions'[v] = sessions[v]
        BY <1>0, <2>0, <2>3, <3>1, <3>2 DEF Replace, Types
      <4>2. s # None
        BY <1>0, <3>1, RecordAssumption DEF Session, Modes, Types, Command, Files
      <4>3. Ownership!Become(w, f, "edit")
        BY <2>0, <4>1, <4>2, OneWindowChanges
      <4>4. Ownership!Free(f)
        BY <1>0, <2>0, <3>1, <3>2, NotTakenIsFree, FilesAssumption DEF Files
      <4>5. Right[w] = "import"
        BY <2>0, <3>1 DEF Right
      <4> QED
        BY <2>0, <3>1, <4>3, <4>4, <4>5 DEF Ownership!Settle, Ownership!Next
    <3>3. CASE Taken(f, w)
      BY <2>3, <3>3, NothingChanges DEF Replace
    <3> QED
      BY <3>2, <3>3
  <2> QED
    BY <1>3, <2>1, <2>2, <2>3, NothingChanges DEF StepCommand, AssertOwner, EnableFileWrite,
       DisableFileWrite, Prepare, PrepareFails, CommitOpenExternal, Resolve, Put, SaveFails,
       Revoke, IssueSaved, tables
<1> QED
  BY <1>1, <1>2, <1>3, NothingChanges DEF Next, OpenNotebook, Expire, vars

\* The registry, with its locks, failures and interleavings, implements the
\* abstract ownership of files by windows.
THEOREM OwnershipImplemented == Spec => ImplementsOwnership
<1>1. Init => Ownership!Init
  <2> SUFFICES ASSUME Init PROVE Ownership!Init
    OBVIOUS
  <2>1. \A w \in Windows : sessions[w] \in {None, Workspace}
    BY DEF Init
  <2>2. \A w \in Windows :
            /\ (IF sessions[w] = None THEN None ELSE sessions[w].key) = None
            /\ (IF sessions[w] = None THEN "none" ELSE sessions[w].mode)
                   \in {"none", "workspace"}
    <3>1. Workspace.key = None /\ Workspace.mode = "workspace"
      BY DEF Workspace
    <3> QED
      BY <2>1, <3>1
  <2> QED
    BY <2>2 DEF Ownership!Init, Held, Right
<1>2. Spec => []Inv
  BY InvHolds
<1> QED
  BY <1>1, <1>2, AbstractStep, PTL DEF Spec, ImplementsOwnership, Ownership!Spec, Ownership!abstract

\* No file from outside belongs to two windows at once.
THEOREM OneWindowPerFile == Spec => []Ownership!Exclusive
<1>1. Inv => Ownership!Exclusive
  <2> SUFFICES ASSUME Inv, NEW v \in Windows, NEW w \in Windows, v # w, Held[v] # None,
                      Held[v] = Held[w]
               PROVE  FALSE
    BY DEF Ownership!Exclusive
  <2>1. sessions[v] # None /\ sessions[w] # None /\ sessions[v].key = sessions[w].key
        /\ sessions[v].key # None
    BY DEF Held
  <2>2. sessions[v].key \in Files
    BY <2>1 DEF Inv, Types, Session
  <2> QED
    BY <2>1, <2>2 DEF Inv, IndexMatchesSessions
<1> QED
  BY <1>1, InvHolds, PTL

-----------------------------------------------------------------------------
(***************************************************************************)
(* What one step may do to a grant, a session and a command                *)
(***************************************************************************)

\* enable_file_write turned the token x writable and its caller goes on to
\* enable_external_edit.
Upgraded(x) == \E t \in Threads :
    /\ cmd[t].step = "upgrade" /\ cmd[t].token = x
    /\ grants[x].owner = cmd[t].window /\ ~grants[x].dir
    /\ cmd'[t].step = "enter" /\ cmd'[t].token = x /\ cmd'[t].window = cmd[t].window

\* The grant of x stays with its owner and file, a notebook's grant stays one.
Kept(x) ==
    /\ grants[x] # None /\ grants'[x] # None
    /\ grants'[x].owner = grants[x].owner /\ grants'[x].file = grants[x].file
    /\ grants[x].dir /\ ~grants[x].write => grants'[x].dir /\ ~grants'[x].write
    /\ grants'[x].write => grants[x].write \/ Upgraded(x)
    /\ grants'[x].dir /\ grants'[x].write => grants[x].dir /\ grants[x].write

\* x is given out: to the window being opened or to one that is there.
Issued(x) ==
    /\ Unused(x)
    /\ ~grants'[x].dir
    /\ \/ grants'[x].owner \in live
       \/ /\ opening.step = "grant" /\ grants'[x].owner = opening.label
          /\ opening'.step = "register" /\ opening'.file \in Notes
          /\ opening'.label = opening.label

GrantChange(x) == grants'[x] = None \/ Issued(x) \/ grants'[x] = grants[x] \/ Kept(x)

LEMMA RefusedGrant ==
    ASSUME Types, NEW t \in Threads, Refuse(t), NEW x \in Tokens
    PROVE  GrantChange(x)
  BY DEF Types, Refuse, GrantChange

LEMMA IssuedGrant ==
    ASSUME Types, NEW y \in Tokens, NEW f, NEW w, NEW write, Issue(y, f, w, write),
           NEW x \in Tokens,
           \/ w \in live
           \/ /\ opening.step = "grant" /\ w = opening.label /\ opening'.step = "register"
              /\ opening'.file \in Notes /\ opening'.label = opening.label
    PROVE  GrantChange(x)
  BY DEF Types, Issue, GrantChange, Issued

LEMMA RevokedGrant ==
    ASSUME Types, NEW w, grants' = Revoked(w), NEW x \in Tokens
    PROVE  GrantChange(x)
  BY DEF Types, Revoked, GrantChange

LEMMA WholeKeeps ==
    ASSUME NEW g \in Grant
    PROVE  /\ Whole(g) # None /\ Whole(g).dir /\ ~Whole(g).write
           /\ Whole(g).owner = g.owner /\ Whole(g).file = g.file
  <1>1. Whole(g) \in Grant
    BY DEF Whole, Grant
  <1>2. Whole(g).dir = TRUE /\ Whole(g).write = FALSE
    BY DEF Whole, Grant
  <1>3. Whole(g).owner = g.owner /\ Whole(g).file = g.file
    BY DEF Whole, Grant
  <1> QED
    BY <1>1, <1>2, <1>3, RecordAssumption

LEMMA WholeGrant ==
    ASSUME Types, NEW t \in Threads, Promotable(t),
           grants' = [grants EXCEPT ![cmd[t].token] = Whole(@)], NEW x \in Tokens
    PROVE  /\ GrantChange(x)
           /\ x = cmd[t].token => grants'[x] # None /\ grants'[x].dir /\ ~grants'[x].write
  <1>1. CASE x = cmd[t].token
    <2>1. grants[x] \in Grant /\ grants[x] # None
      BY <1>1 DEF Promotable, Usable, Types
    <2>2. grants'[x] = Whole(grants[x])
      BY <1>1 DEF Types
    <2> QED
      BY <2>1, <2>2, WholeKeeps DEF GrantChange, Kept
  <1>2. CASE x # cmd[t].token
    BY <1>2 DEF Types, GrantChange
  <1> QED
    BY <1>1, <1>2

LEMMA GrantChanges ==
    ASSUME Types, Control, Next, NEW x \in Tokens
    PROVE  GrantChange(x)
  <1>0. ASSUME UNCHANGED grants PROVE GrantChange(x)
    BY <1>0 DEF GrantChange
  <1>1. CASE MainThread
    <2>1. ASSUME NEW y \in Tokens, GrantOpened(y) PROVE GrantChange(x)
      <3>1. /\ opening.step = "grant" /\ opening'.step = "register"
            /\ opening'.file \in Notes /\ opening'.label = opening.label
        BY <2>1 DEF GrantOpened, Control, OpeningFits, Types, Opening
      <3> QED
        BY <2>1, <3>1, IssuedGrant DEF GrantOpened
    <2> QED
      BY <1>0, <1>1, <2>1, RevokedGrant DEF MainThread, OpenFile, RegisterOpened, BuildWindow,
         GrantFails, RegisterFails, BuildFails, Fallback, CreateWorkspace, Destroyed,
         Unregister, Unroot, Disown
  <1>2. ASSUME NEW t \in Threads, BeginCommand(t) PROVE GrantChange(x)
    BY <1>0, <1>2 DEF BeginCommand, BeginEnable, BeginPromote, BeginWrite, BeginSaveAs,
       BeginSaveImport, BeginOpenExternal, BeginRevoke, Begin, tables
  <1>3. ASSUME NEW t \in Threads, StepCommand(t) PROVE GrantChange(x)
    <2> DEFINE y == cmd[t].token
    <2>1. CASE EnableFileWrite(t)
      <3>1. CASE Usable(y) /\ Upgradable(t) /\ x = y
        <4>1. /\ grants' = [grants EXCEPT ![y].write = TRUE] /\ Goto(t, "enter")
              /\ cmd[t].step = "upgrade" /\ grants[x].owner = cmd[t].window /\ ~grants[x].dir
          BY <2>1, <3>1 DEF EnableFileWrite, Upgradable
        <4>2. Upgraded(x)
          BY <3>1, <4>1 DEF Upgraded, Goto, Types, Command
        <4>3. grants[x] \in Grant /\ grants[x] # None
          BY <3>1 DEF Usable, Types
        <4>4. grants'[x] = [grants[x] EXCEPT !.write = TRUE]
          BY <3>1, <4>1 DEF Types
        <4>5. grants'[x] \in Grant /\ grants'[x] # None
          BY <4>3, <4>4, RecordAssumption DEF Grant
        <4> QED
          BY <4>1, <4>2, <4>3, <4>4, <4>5 DEF GrantChange, Kept, Grant
      <3>2. CASE ~(Usable(y) /\ Upgradable(t))
        BY <2>1, <3>2, RefusedGrant DEF EnableFileWrite
      <3>3. CASE Usable(y) /\ Upgradable(t) /\ x # y
        <4>1. grants' = [grants EXCEPT ![y].write = TRUE]
          BY <2>1, <3>3 DEF EnableFileWrite
        <4> QED
          BY <3>3, <4>1 DEF GrantChange, Types
      <3> QED
        BY <3>1, <3>2, <3>3
    <2>2. CASE DisableFileWrite(t)
      <3>1. CASE x = y /\ grants[x] # None /\ ~grants[x].dir
        <4>1. grants[x] \in Grant /\ grants'[x] = [grants[x] EXCEPT !.write = FALSE]
          BY <2>2, <3>1 DEF DisableFileWrite, Types
        <4>2. grants'[x] \in Grant /\ grants'[x] # None
          BY <4>1, RecordAssumption DEF Grant
        <4> QED
          BY <3>1, <4>1, <4>2 DEF GrantChange, Kept, Grant
      <3>2. CASE ~(x = y /\ grants[x] # None /\ ~grants[x].dir)
        BY <2>2, <3>2 DEF DisableFileWrite, GrantChange, Types
      <3> QED
        BY <3>1, <3>2
    <2>3. CASE Prepare(t) \/ Resolve(t)
      BY <1>0, <2>3, RefusedGrant DEF Prepare, Resolve
    <2>4. CASE CommitPromotion(t) \/ CommitOpenExternal(t)
      BY <1>0, <2>4, RefusedGrant, WholeGrant DEF CommitPromotion, CommitOpenExternal
    <2>5. CASE Revoke(t)
      BY <2>5 DEF Revoke, GrantChange, Types
    <2>6. ASSUME NEW z \in Tokens, IssueSaved(t, z) PROVE GrantChange(x)
      <3>1. cmd[t].window \in live
        BY <2>6, LiveWindows DEF IssueSaved
      <3> QED
        BY <2>6, <3>1, IssuedGrant DEF IssueSaved
    <2> QED
      BY <1>0, <1>3, <2>1, <2>2, <2>3, <2>4, <2>5, <2>6 DEF StepCommand, AssertOwner, EnterEdit,
         PrepareFails, Put, SaveFails, Replace, tables
  <1>4. ASSUME NEW y \in Tokens, Expire(y) PROVE GrantChange(x)
    <2>1. CASE x = y
      <3>1. grants[x] \in Grant /\ grants[x] # None /\ grants'[x] = [grants[x] EXCEPT !.fresh = FALSE]
        BY <1>4, <2>1 DEF Expire, Usable, Types
      <3>2. grants'[x] \in Grant /\ grants'[x] # None
        BY <3>1, RecordAssumption DEF Grant
      <3> QED
        BY <3>1, <3>2 DEF GrantChange, Kept, Grant
    <2>2. CASE x # y
      BY <1>4, <2>2 DEF Expire, GrantChange, Types
    <2> QED
      BY <2>1, <2>2
  <1> QED
    BY <1>0, <1>1, <1>2, <1>3, <1>4 DEF Next, OpenNotebook

\* The session of w: as it was, dropped, opened, made a workspace, allowed to
\* edit, promoted with its grant, or an import that became a note.
SessionChange(w) ==
    LET s == sessions[w]  n == sessions'[w] IN
    \/ n = s
    \/ n = None /\ ~Busy(w)
    \/ /\ s = None /\ n # None
       /\ w = opening.label /\ opening.step = "register"
       /\ n.key = opening.file /\ n.token = opening.token
       /\ n.mode = IF opening.file \in Notes THEN "readonly" ELSE "import"
       /\ UNCHANGED <<grants, cmd>>
    \/ s = None /\ n = Workspace
    \/ External(w) /\ n # None /\ n = [s EXCEPT !.mode = "edit"]
    \/ /\ External(w) /\ n # None /\ n = Promoted(s)
       /\ s.token \in Tokens => /\ grants'[s.token] # None
                                /\ grants'[s.token].dir /\ ~grants'[s.token].write
    \/ \E t \in Threads :
          /\ s # None /\ s.mode = "import" /\ n # None
          /\ cmd[t].step = "replace" /\ cmd[t].window = w
          /\ n = [mode |-> "edit", key |-> cmd[t].file, token |-> cmd[t].token]
          /\ UNCHANGED grants

LEMMA ForgottenSession ==
    ASSUME Types, Control, NEW v, Forget(v), NEW w \in Windows, w = v => ~Busy(w)
    PROVE  SessionChange(w)
  <1>1. CASE w = v
    BY <1>1, ForgetKeeps DEF SessionChange
  <1>2. CASE w # v
    BY <1>2 DEF Forget, SessionChange, Types
  <1> QED
    BY <1>1, <1>2

LEMMA BusyIsLive ==
    ASSUME Types, Control, NEW w \in Windows, Busy(w)
    PROVE  w \in live
  BY LiveWindows DEF Busy

LEMMA SessionChanges ==
    ASSUME Types, Control, Next, NEW w \in Windows
    PROVE  SessionChange(w)
  <1>0. ASSUME UNCHANGED sessions PROVE SessionChange(w)
    BY <1>0 DEF SessionChange
  <1>1. CASE MainThread
    <2>1. CASE RegisterOpened
      <3> DEFINE s == [mode |-> IF opening.file \in Notes THEN "readonly" ELSE "import",
                       key |-> opening.file, token |-> opening.token]
      <3>1. /\ opening.label \in Windows /\ sessions[opening.label] = None
            /\ opening.step = "register" /\ UNCHANGED <<grants, cmd>>
            /\ sessions' = [sessions EXCEPT ![opening.label] = s]
        BY <2>1 DEF RegisterOpened, Register, Types, Opening, Control, OpeningFits
      <3>2. s \in Session
        BY <2>1 DEF RegisterOpened, Types, Opening, Session, Modes, Control, OpeningFits
      <3>3. s # None
        BY <3>2, RecordAssumption
      <3>4. CASE w = opening.label
        <4>1. sessions'[w] = s
          BY <3>1, <3>4 DEF Types
        <4> QED
          BY <3>1, <3>3, <3>4, <4>1 DEF SessionChange
      <3>5. CASE w # opening.label
        BY <3>1, <3>5 DEF SessionChange, Types
      <3> QED
        BY <3>4, <3>5
    <2>2. CASE Fallback \/ CreateWorkspace
      BY <2>2 DEF Fallback, CreateWorkspace, SessionChange, Types
    <2>3. CASE Unregister
      <3>1. Forget(opening.label) /\ opening.label \notin live
        BY <2>3 DEF Unregister, Control, OpeningFits
      <3> QED
        BY <3>1, ForgottenSession, BusyIsLive
    <2> QED
      BY <1>0, <1>1, <2>1, <2>2, <2>3 DEF MainThread, OpenFile, GrantOpened, BuildWindow,
         GrantFails, RegisterFails, BuildFails, Destroyed, Unroot, Disown
  <1>2. ASSUME NEW t \in Threads, BeginCommand(t) PROVE SessionChange(w)
    BY <1>0, <1>2 DEF BeginCommand, BeginEnable, BeginPromote, BeginWrite, BeginSaveAs,
       BeginSaveImport, BeginOpenExternal, BeginRevoke, Begin, tables
  <1>3. ASSUME NEW t \in Threads, StepCommand(t) PROVE SessionChange(w)
    <2> DEFINE v == cmd[t].window
    <2>0. v \in Windows /\ CommandFits(t)
      BY DEF Types, Command, Control
    <2>1. CASE EnterEdit(t)
      <3>1. CASE External(v)
        <4>1. sessions' = [sessions EXCEPT ![v].mode = "edit"] /\ sessions[v] \in Session
          BY <2>0, <2>1, <3>1 DEF EnterEdit, External, Types
        <4>2. sessions'[v] = [sessions[v] EXCEPT !.mode = "edit"]
          BY <2>0, <4>1 DEF Types
        <4>3. sessions'[v] \in Session
          BY <4>1, <4>2 DEF Session, Modes
        <4>4. sessions'[v] # None
          BY <4>3, RecordAssumption
        <4> QED
          BY <2>0, <3>1, <4>1, <4>2, <4>4 DEF SessionChange, Types
      <3> QED
        BY <1>0, <2>1, <3>1 DEF EnterEdit
    <2>2. CASE CommitPromotion(t)
      <3>1. CASE SameSession(t) /\ Promotable(t)
        <4>1. /\ grants' = [grants EXCEPT ![cmd[t].token] = Whole(@)]
              /\ sessions' = [sessions EXCEPT ![v] = Promoted(@)]
              /\ External(v) /\ sessions[v].token = cmd[t].token
          BY <2>2, <3>1 DEF CommitPromotion, SameSession
        <4>3. Promoted(sessions[v]) \in Session
          BY <2>0, <4>1 DEF External, Types, Session, Modes, Promoted
        <4>4. Promoted(sessions[v]) # None
          BY <4>3, RecordAssumption
        <4>2. sessions[v].token \in Tokens =>
                 /\ grants'[sessions[v].token] # None
                 /\ grants'[sessions[v].token].dir /\ ~grants'[sessions[v].token].write
          BY <3>1, <4>1, WholeGrant
        <4> QED
          BY <2>0, <4>1, <4>2, <4>4 DEF SessionChange, Types
      <3>2. CASE ~(SameSession(t) /\ Promotable(t))
        BY <1>0, <2>2, <3>2 DEF CommitPromotion
      <3> QED
        BY <3>1, <3>2
    <2>3. CASE Replace(t)
      <3> DEFINE s == [mode |-> "edit", key |-> cmd[t].file, token |-> cmd[t].token]
      <3>1. CASE ~Taken(cmd[t].file, v)
        <4>1. /\ cmd[t].step = "replace" /\ sessions[v] # None /\ sessions[v].mode = "import"
              /\ sessions' = [sessions EXCEPT ![v] = s] /\ UNCHANGED grants
          BY <2>0, <2>3, <3>1, SavesAreImports DEF Replace, CommandFits
        <4>2. s \in Session
          BY DEF Types, Command, Session, Modes
        <4>3. s # None
          BY <4>2, RecordAssumption
        <4> QED
          BY <2>0, <4>1, <4>3 DEF SessionChange, Types
      <3>2. CASE Taken(cmd[t].file, v)
        BY <1>0, <2>3, <3>2 DEF Replace
      <3> QED
        BY <3>1, <3>2
    <2> QED
      BY <1>0, <1>3, <2>1, <2>2, <2>3 DEF StepCommand, AssertOwner, EnableFileWrite,
         DisableFileWrite, Prepare, PrepareFails, CommitOpenExternal, Resolve, Put, SaveFails,
         Revoke, IssueSaved, tables
  <1> QED
    BY <1>0, <1>1, <1>2, <1>3 DEF Next, OpenNotebook, Expire

\* The command of t: as it was, over, begun, moved on, or holding the token
\* of the file it saved.
CommandChange(t) ==
    LET c == cmd[t]  d == cmd'[t] IN
    \/ d = c
    \/ d.step = "idle"
    \/ /\ c.step = "idle" /\ UNCHANGED tables
       /\ d.step \in {"upgrade", "owner", "issue"}
       /\ d.step = "upgrade" => External(d.window) /\ d.token = sessions[d.window].token
       /\ d.step = "owner" /\ d.op = "write" =>
             /\ External(d.window) /\ sessions[d.window].mode = "edit"
             /\ d.token = sessions[d.window].token
    \/ /\ c.step # "idle" /\ UNCHANGED sessions
       /\ d.op = c.op /\ d.window = c.window /\ d.token = c.token /\ d.file = c.file
       /\ \/ c.step = "upgrade" /\ d.step = "enter"
          \/ c.step = "enter" /\ d.step = "downgrade"
          \/ c.step = "owner" /\ c.op = "write" /\ d.step = "resolve"
          \/ c.step = "resolve" /\ d.step = "put"
          \/ d.step \in {"prepare", "revoke", "commit"}
    \/ /\ c.step = "issue" /\ d.step = "replace" /\ UNCHANGED sessions
       /\ d.window = c.window /\ d.file = c.file /\ d.token \in Tokens
       /\ grants'[d.token].owner = d.window /\ grants'[d.token].file = d.file

\* Every step changes a command in one of these ways only.
LEMMA CommandChanges ==
    ASSUME Types, Control, Next, NEW t \in Threads
    PROVE  CommandChange(t)
  <1>0. ASSUME UNCHANGED cmd PROVE CommandChange(t)
    BY <1>0 DEF CommandChange
  <1>1. ASSUME NEW u \in Threads, BeginCommand(u) PROVE CommandChange(t)
    <2>1. CASE t # u
      BY <1>1, <2>1 DEF Types, CommandChange, BeginCommand, BeginEnable, BeginPromote,
         BeginWrite, BeginSaveAs, BeginSaveImport, BeginOpenExternal, BeginRevoke, Begin
    <2>2. CASE t = u
      <3>1. ASSUME NEW w \in Windows, BeginEnable(t, w) PROVE CommandChange(t)
        <4>1. /\ cmd'[t].step = "upgrade" /\ cmd'[t].window = w /\ cmd'[t].token = sessions[w].token
              /\ External(w) /\ cmd[t].step = "idle" /\ UNCHANGED tables
          BY <3>1 DEF BeginEnable, Begin, Types
        <4> QED
          BY <4>1 DEF CommandChange
      <3>2. ASSUME NEW w \in Windows, NEW f \in Notes \cup {None}, BeginWrite(t, w, f)
            PROVE  CommandChange(t)
        <4>1. /\ cmd'[t].step = "owner" /\ cmd'[t].window = w /\ cmd'[t].token = sessions[w].token
              /\ External(w) /\ sessions[w].mode = "edit"
              /\ cmd[t].step = "idle" /\ UNCHANGED tables
          BY <3>2 DEF BeginWrite, Begin, Types
        <4> QED
          BY <4>1 DEF CommandChange
      <3>3. ASSUME NEW w \in Windows,
                   \/ BeginPromote(t, w)
                   \/ \E f \in Notes : BeginSaveAs(t, w, f) \/ BeginSaveImport(t, w, f)
                   \/ \E x \in Tokens : BeginOpenExternal(t, w, x) \/ BeginRevoke(t, w, x)
            PROVE  CommandChange(t)
        <4>1. /\ cmd'[t].step \in {"owner", "issue"} /\ cmd'[t].op # "write"
              /\ cmd[t].step = "idle" /\ UNCHANGED tables
          BY <3>3 DEF BeginPromote, BeginSaveAs, BeginSaveImport, BeginOpenExternal, BeginRevoke,
             Begin, Types
        <4> QED
          BY <4>1 DEF CommandChange
      <3> QED
        BY <1>1, <2>2, <3>1, <3>2, <3>3 DEF BeginCommand
    <2> QED
      BY <2>1, <2>2
  <1>2. ASSUME NEW u \in Threads, StepCommand(u) PROVE CommandChange(t)
    <2>0. CommandFits(u) /\ cmd[u].step # "idle"
      BY <1>2 DEF Control, StepCommand, AssertOwner, EnableFileWrite, EnterEdit, DisableFileWrite,
         Prepare, PrepareFails, CommitPromotion, CommitOpenExternal, Resolve, Put, SaveFails,
         Replace, Revoke, IssueSaved
    <2>1. ASSUME Done(u) PROVE CommandChange(t)
      BY <2>1, Finished DEF CommandChange
    <2>2. ASSUME NEW step, Goto(u, step), UNCHANGED sessions,
                 \/ cmd[u].step = "upgrade" /\ step = "enter"
                 \/ cmd[u].step = "enter" /\ step = "downgrade"
                 \/ cmd[u].step = "owner" /\ cmd[u].op = "write" /\ step = "resolve"
                 \/ cmd[u].step = "resolve" /\ step = "put"
                 \/ step \in {"prepare", "revoke", "commit"}
          PROVE  CommandChange(t)
      <3>1. cmd' = [cmd EXCEPT ![u].step = step]
        BY <2>2 DEF Goto
      <3> QED
        BY <2>0, <2>2, <3>1 DEF CommandChange, Types, Command
    <2>3. CASE AssertOwner(u)
      <3>1. cmd[u].step = "owner" => /\ AfterOwner[cmd[u].op] \in {"prepare", "resolve", "revoke"}
                                   /\ (AfterOwner[cmd[u].op] = "resolve" => cmd[u].op = "write")
        BY <2>0 DEF AfterOwner, CommandFits, StepsOf, Types, Command, Ops
      <3> QED
        BY <2>0, <2>1, <2>2, <2>3, <3>1 DEF AssertOwner, tables
    <2>4. CASE EnableFileWrite(u) \/ EnterEdit(u) \/ Resolve(u) \/ Prepare(u)
      BY <2>1, <2>2, <2>4, RefuseIsDone DEF EnableFileWrite, EnterEdit, Resolve, Prepare
    <2>5. CASE Replace(u)
      BY <2>1, <2>2, <2>5 DEF Replace
    <2>6. ASSUME NEW x \in Tokens, IssueSaved(u, x) PROVE CommandChange(t)
      <3>1. CASE cmd[u].op # "saveAs"
        <4>1. /\ cmd' = [cmd EXCEPT ![u].step = "replace", ![u].token = x]
              /\ cmd[u].step = "issue" /\ UNCHANGED sessions
              /\ grants' = [grants EXCEPT ![x] =
                    [owner |-> cmd[u].window, file |-> cmd[u].file, dir |-> FALSE,
                     write |-> TRUE, fresh |-> TRUE]]
          BY <2>6, <3>1 DEF IssueSaved, Issue
        <4>2. grants'[x].owner = cmd[u].window /\ grants'[x].file = cmd[u].file
          BY <4>1 DEF Types
        <4> QED
          BY <4>1, <4>2 DEF CommandChange, Types, Command
      <3> QED
        BY <2>1, <2>6, <3>1 DEF IssueSaved
    <2> QED
      BY <1>2, <2>1, <2>3, <2>4, <2>5, <2>6, RefuseIsDone DEF StepCommand, DisableFileWrite, PrepareFails,
         CommitPromotion, CommitOpenExternal, Put, SaveFails, Revoke
  <1> QED
    BY <1>0, <1>1, <1>2 DEF Next, MainThread, OpenFile, GrantOpened, RegisterOpened, BuildWindow,
       GrantFails, RegisterFails, BuildFails, Fallback, CreateWorkspace, Destroyed,
       Unregister, Unroot, Disown, OpenNotebook, Expire

-----------------------------------------------------------------------------
(***************************************************************************)
(* Tokens                                                                  *)
(***************************************************************************)

\* What is left of the grant of x is the window w's, for the file f.
Belongs(x, w, f) ==
    x \in Tokens /\ (grants[x] # None => grants[x].owner = w /\ grants[x].file = f)

\* A write in flight: its token may still write only as long as the window
\* edits with it; a promotion in between has made it a notebook's.
WriteFits(t) ==
    LET c == cmd[t] IN
    /\ c.token \in Tokens
    /\ grants[c.token] # None =>
          /\ grants[c.token].owner = c.window
          /\ \/ /\ External(c.window) /\ sessions[c.window].mode = "edit"
                /\ sessions[c.window].token = c.token
             \/ grants[c.token].dir /\ ~grants[c.token].write

SessionTokens == \A w \in Windows :
    External(w) => Belongs(sessions[w].token, w, sessions[w].key)

OpeningToken == opening.step = "register" /\ opening.file \in Notes =>
    /\ Belongs(opening.token, opening.label, opening.file)
    /\ grants[opening.token] # None => ~grants[opening.token].write

CommandTokens == \A t \in Threads :
    /\ cmd[t].step = "replace" => Belongs(cmd[t].token, cmd[t].window, cmd[t].file)
    /\ cmd[t].step \in {"upgrade", "enter", "downgrade"} =>
           sessions[cmd[t].window] # None /\ cmd[t].token \in Tokens
    /\ cmd[t].step \in {"resolve", "put"} \/ (cmd[t].step = "owner" /\ cmd[t].op = "write")
           => WriteFits(t)

\* The token of a notebook writes no file.
WholeWritesNothing == \A x \in Tokens :
    grants[x] # None /\ grants[x].dir => ~grants[x].write

TokenInv == WholeWritesNothing /\ SessionTokens /\ OpeningToken /\ CommandTokens

\* A token somebody refers to is not given out again.
LEMMA StillBelongs ==
    ASSUME Types, Control, Next, NEW x, NEW w, NEW f, Belongs(x, w, f), ~Unused(x)
    PROVE  x \in Tokens /\ (grants'[x] # None => grants'[x].owner = w /\ grants'[x].file = f)
  BY GrantChanges DEF Belongs, GrantChange, Issued, Kept

LEMMA ReferredTo ==
    ASSUME Types
    PROVE  /\ \A w \in Windows : External(w) => ~Unused(sessions[w].token)
           /\ ~Unused(opening.token)
           /\ \A t \in Threads : ~Unused(cmd[t].token)
  BY DEF Unused, External

\* A window in which a command runs is not forgotten.
LEMMA BusyKeepsSession ==
    ASSUME Types, Control, Next, NEW t \in Threads, cmd[t].step # "idle",
           sessions[cmd[t].window] # None
    PROVE  sessions'[cmd[t].window] # None
  <1>1. cmd[t].window \in Windows /\ Busy(cmd[t].window)
    BY LiveWindows DEF Busy
  <1>2. SessionChange(cmd[t].window)
    BY <1>1, SessionChanges
  <1> QED
    BY <1>1, <1>2, WorkspaceIsThere DEF SessionChange

LEMMA WholeStep ==
    ASSUME Types, Control, TokenInv, Next
    PROVE  WholeWritesNothing'
  BY GrantChanges DEF TokenInv, WholeWritesNothing, GrantChange, Issued, Kept

LEMMA SessionTokensStep ==
    ASSUME Types, Control, TokenInv, Next
    PROVE  SessionTokens'
  <1> SUFFICES ASSUME NEW w \in Windows, External(w)'
               PROVE  Belongs(sessions[w].token, w, sessions[w].key)'
    BY DEF SessionTokens
  <1>1. ASSUME External(w), sessions'[w].token = sessions[w].token, sessions'[w].key = sessions[w].key
        PROVE  Belongs(sessions[w].token, w, sessions[w].key)'
    <2>1. Belongs(sessions[w].token, w, sessions[w].key) /\ ~Unused(sessions[w].token)
      BY <1>1, ReferredTo DEF TokenInv, SessionTokens
    <2> QED
      BY <1>1, <2>1, StillBelongs DEF Belongs
  <1>2. SessionChange(w)
    BY SessionChanges
  <1>3. CASE sessions'[w] = sessions[w]
    BY <1>1, <1>3 DEF External
  <1>4. CASE sessions'[w] = None \/ sessions'[w] = Workspace
    BY <1>4 DEF External, Workspace
  <1>5. CASE /\ w = opening.label /\ opening.step = "register"
             /\ sessions'[w].key = opening.file /\ sessions'[w].token = opening.token
             /\ sessions'[w].mode = IF opening.file \in Notes THEN "readonly" ELSE "import"
             /\ UNCHANGED <<grants, cmd>>
    <2>1. opening.file \in Notes
      BY <1>5 DEF External
    <2> QED
      BY <1>5, <2>1 DEF TokenInv, OpeningToken, Belongs
  <1>6. CASE External(w) /\ sessions'[w] = [sessions[w] EXCEPT !.mode = "edit"]
    <2>1. sessions'[w].token = sessions[w].token /\ sessions'[w].key = sessions[w].key
      BY <1>6 DEF External, Types, Session
    <2> QED
      BY <1>1, <1>6, <2>1
  <1>7. CASE External(w) /\ sessions'[w] = Promoted(sessions[w])
    BY <1>7 DEF External, Types, Session, Promoted
  <1>8. ASSUME NEW t \in Threads, cmd[t].step = "replace", cmd[t].window = w, UNCHANGED grants,
               sessions'[w] = [mode |-> "edit", key |-> cmd[t].file, token |-> cmd[t].token]
        PROVE  Belongs(sessions[w].token, w, sessions[w].key)'
    BY <1>8 DEF TokenInv, CommandTokens, Belongs
  <1> QED
    BY <1>2, <1>3, <1>4, <1>5, <1>6, <1>7, <1>8 DEF SessionChange

\* The main thread between the grant of a note and its registration.
LEMMA OpeningChanges ==
    ASSUME Types, Control, Next, opening'.step = "register", opening'.file \in Notes
    PROVE  \/ opening' = opening
           \/ \E x \in Tokens : /\ opening.step = "grant" /\ opening'.token = x
                             /\ grants'[x].owner = opening'.label
                                /\ grants'[x].file = opening'.file /\ ~grants'[x].write
  <1>1. CASE MainThread
    <2>1. ASSUME NEW x \in Tokens, GrantOpened(x)
          PROVE  /\ opening.step = "grant" /\ opening'.token = x /\ grants'[x].owner = opening'.label
                 /\ grants'[x].file = opening'.file /\ ~grants'[x].write
      BY <2>1 DEF GrantOpened, Issue, Types, Opening
    <2>2. ASSUME NEW w \in Windows, NEW f \in Files, OpenFile(w, f) PROVE FALSE
      BY <2>2 DEF OpenFile, FirstStep
    <2>3. CASE GrantFails \/ Disown
      <3>1. opening' = Ended
        BY <2>3 DEF GrantFails, Disown, Control, OpeningFits
      <3> QED
        BY <3>1, OpeningIdle DEF Ended, Types, Opening
    <2>4. CASE RegisterFails
      <3>1. opening' = [opening EXCEPT !.step = "disown", !.old = opening.label] \/ opening' = Ended
        BY <2>4 DEF RegisterFails
      <3> QED
        BY <3>1, OpeningIdle DEF Ended, Types, Opening
    <2>5. CASE RegisterOpened \/ BuildWindow \/ BuildFails \/ Fallback \/ Unregister \/ Unroot
      BY <2>5, OpeningIdle DEF RegisterOpened, BuildWindow, BuildFails, Fallback, Unregister, Unroot,
         Types, Opening
    <2>6. CASE CreateWorkspace
      BY <2>6 DEF CreateWorkspace, Idle
    <2>7. ASSUME NEW w \in Windows, Destroyed(w) PROVE FALSE
      BY <2>7 DEF Destroyed, Idle
    <2> QED
      BY <1>1, <2>1, <2>2, <2>3, <2>4, <2>5, <2>6, <2>7 DEF MainThread
  <1>2. ASSUME NEW t \in Threads, BeginCommand(t) PROVE opening' = opening
    BY <1>2 DEF BeginCommand, BeginEnable, BeginPromote, BeginWrite, BeginSaveAs,
       BeginSaveImport, BeginOpenExternal, BeginRevoke, Begin, tables
  <1>3. ASSUME NEW t \in Threads, StepCommand(t) PROVE opening' = opening
    BY <1>3 DEF StepCommand, AssertOwner, EnableFileWrite, EnterEdit, DisableFileWrite, Prepare,
       PrepareFails, CommitPromotion, CommitOpenExternal, Resolve, Put, SaveFails, Replace,
       Revoke, IssueSaved, tables
  <1> QED
    BY <1>1, <1>2, <1>3 DEF Next, OpenNotebook, Expire

\* The window being opened has no session, so no enable_external_edit runs in
\* it and nobody makes its token writable.
LEMMA OpeningTokenStep ==
    ASSUME Types, Control, TokenInv, Next
    PROVE  OpeningToken'
  <1> SUFFICES ASSUME opening'.step = "register", opening'.file \in Notes
               PROVE  /\ Belongs(opening.token, opening.label, opening.file)'
                      /\ grants'[opening'.token] # None => ~grants'[opening'.token].write
    BY DEF OpeningToken
  <1>1. CASE opening' = opening
    <2> DEFINE x == opening.token
    <2>1. Belongs(x, opening.label, opening.file) /\ x \in Tokens
          /\ (grants[x] # None => ~grants[x].write)
      BY <1>1 DEF TokenInv, OpeningToken, Belongs
    <2>2. Belongs(opening.token, opening.label, opening.file)'
      BY <1>1, <2>1, StillBelongs, ReferredTo DEF Belongs
    <2>3. grants[x] # None => ~Upgraded(x)
      <3> SUFFICES ASSUME NEW t \in Threads, cmd[t].step = "upgrade", cmd[t].token = x,
                          grants[x].owner = cmd[t].window, grants[x] # None
                   PROVE  FALSE
        BY DEF Upgraded
      <3>1. cmd[t].window = opening.label /\ sessions[opening.label] # None
        BY <2>1 DEF Belongs, TokenInv, CommandTokens
      <3> QED
        BY <1>1, <3>1 DEF Control, OpeningFits
    <2>4. GrantChange(x) /\ ~Unused(x)
      BY <2>1, GrantChanges, ReferredTo
    <2> QED
      BY <1>1, <2>1, <2>2, <2>3, <2>4 DEF GrantChange, Issued, Kept
  <1>2. ASSUME NEW x \in Tokens, opening'.token = x, grants'[x].owner = opening'.label,
               grants'[x].file = opening'.file, ~grants'[x].write
        PROVE  /\ Belongs(opening.token, opening.label, opening.file)'
               /\ grants'[opening'.token] # None => ~grants'[opening'.token].write
    BY <1>2 DEF Belongs
  <1> QED
    BY <1>1, <1>2, OpeningChanges

\* A write that has passed its first check stays one its window may do.
LEMMA WriteStillFits ==
    ASSUME Types, Control, Next, NEW t \in Threads, WriteFits(t), cmd[t].step # "idle",
           cmd'[t].token = cmd[t].token, cmd'[t].window = cmd[t].window
    PROVE  WriteFits(t)'
  <1> DEFINE x == cmd[t].token  w == cmd[t].window
  <1>0. x \in Tokens /\ w \in Windows /\ w \in live
    BY LiveWindows DEF WriteFits
  <1>1. GrantChange(x) /\ ~Unused(x)
    BY <1>0, GrantChanges, ReferredTo
  <1>2. SUFFICES ASSUME grants'[x] # None
                 PROVE  /\ grants'[x].owner = w
                        /\ \/ /\ External(w)' /\ sessions'[w].mode = "edit"
                              /\ sessions'[w].token = x
                           \/ grants'[x].dir /\ ~grants'[x].write
    BY <1>0 DEF WriteFits
  <1>3. grants[x] # None /\ grants[x].owner = w /\ grants'[x].owner = w
    BY <1>1, <1>2 DEF GrantChange, Issued, Kept, WriteFits
  <1>4. CASE grants[x].dir /\ ~grants[x].write
    BY <1>1, <1>2, <1>3, <1>4 DEF GrantChange, Issued, Kept
  <1>5. CASE External(w) /\ sessions[w].mode = "edit" /\ sessions[w].token = x
    <2>1. SessionChange(w)
      BY <1>0, SessionChanges
    <2>2. CASE sessions'[w] = sessions[w]
      BY <1>3, <1>5, <2>2 DEF External
    <2>3. CASE sessions'[w] # None /\ sessions'[w] = [sessions[w] EXCEPT !.mode = "edit"]
      <3>1. sessions'[w].mode = "edit" /\ sessions'[w].token = x
        BY <1>0, <1>5, <2>3 DEF External, Types, Session
      <3> QED
        BY <1>3, <2>3, <3>1 DEF External
    <2>4. CASE sessions'[w] = None
      BY <1>0, <1>5, <2>4, BusyKeepsSession DEF External
    <2>5. CASE grants'[sessions[w].token].dir /\ ~grants'[sessions[w].token].write
      BY <1>3, <1>5, <2>5
    <2> QED
      BY <1>0, <1>5, <2>1, <2>2, <2>3, <2>4, <2>5 DEF SessionChange, External
  <1> QED
    BY <1>3, <1>4, <1>5 DEF WriteFits

LEMMA CommandTokensStep ==
    ASSUME Types, Control, TokenInv, Next
    PROVE  CommandTokens'
  <1> SUFFICES ASSUME NEW t \in Threads
               PROVE  /\ cmd'[t].step = "replace" =>
                             Belongs(cmd[t].token, cmd[t].window, cmd[t].file)'
                      /\ cmd'[t].step \in {"upgrade", "enter", "downgrade"} =>
                             sessions'[cmd'[t].window] # None /\ cmd'[t].token \in Tokens
                      /\ \/ cmd'[t].step \in {"resolve", "put"}
                         \/ cmd'[t].step = "owner" /\ cmd'[t].op = "write"
                         => WriteFits(t)'
    BY DEF CommandTokens
  <1> DEFINE c == cmd[t]  d == cmd'[t]
  <1>0. ~Unused(c.token) /\ CommandChange(t)
    BY ReferredTo, CommandChanges
  <1>1. CASE d = c
    <2>1. c.step = "replace" => Belongs(cmd[t].token, cmd[t].window, cmd[t].file)'
      <3>1. c.step = "replace" => Belongs(c.token, c.window, c.file)
        BY DEF TokenInv, CommandTokens
      <3> QED
        BY <1>0, <1>1, <3>1, StillBelongs DEF Belongs
    <2>2. c.step \in {"upgrade", "enter", "downgrade"} =>
              sessions'[c.window] # None /\ c.token \in Tokens
      BY BusyKeepsSession DEF TokenInv, CommandTokens
    <2>3. c.step \in {"resolve", "put"} \/ (c.step = "owner" /\ c.op = "write") => WriteFits(t)'
      BY <1>1, WriteStillFits DEF TokenInv, CommandTokens
    <2> QED
      BY <1>1, <2>1, <2>2, <2>3
  <1>2. CASE d.step = "idle"
    BY <1>2
  <1>3. CASE /\ c.step = "idle" /\ UNCHANGED tables
             /\ d.step \in {"upgrade", "owner", "issue"}
             /\ d.step = "upgrade" => External(d.window) /\ d.token = sessions[d.window].token
             /\ d.step = "owner" /\ d.op = "write" =>
                   /\ External(d.window) /\ sessions[d.window].mode = "edit"
                   /\ d.token = sessions[d.window].token
    <2>1. d.window \in Windows /\ UNCHANGED <<sessions, grants>>
      BY <1>3, TypeStep DEF Types, Command, tables
    <2>2. External(d.window) => Belongs(sessions[d.window].token, d.window, sessions[d.window].key)
      BY <2>1 DEF TokenInv, SessionTokens
    <2>3. CASE d.step = "upgrade"
      BY <1>3, <2>1, <2>2, <2>3 DEF Belongs, External
    <2>4. CASE d.step = "owner" /\ d.op = "write"
      <3>1. External(cmd[t].window)'
        BY <1>3, <2>1, <2>4 DEF External
      <3> QED
        BY <1>3, <2>1, <2>2, <2>4, <3>1 DEF Belongs, WriteFits
    <2> QED
      BY <1>3, <2>3, <2>4
  <1>4. CASE /\ c.step # "idle" /\ UNCHANGED sessions
             /\ d.op = c.op /\ d.window = c.window /\ d.token = c.token /\ d.file = c.file
             /\ \/ c.step = "upgrade" /\ d.step = "enter"
                \/ c.step = "enter" /\ d.step = "downgrade"
                \/ c.step = "owner" /\ c.op = "write" /\ d.step = "resolve"
                \/ c.step = "resolve" /\ d.step = "put"
                \/ d.step \in {"prepare", "revoke", "commit"}
    BY <1>4, WriteStillFits DEF TokenInv, CommandTokens
  <1>5. CASE /\ c.step = "issue" /\ d.step = "replace" /\ UNCHANGED sessions
             /\ d.window = c.window /\ d.file = c.file /\ d.token \in Tokens
             /\ grants'[d.token].owner = d.window /\ grants'[d.token].file = d.file
    BY <1>5 DEF Belongs
  <1> QED
    BY <1>0, <1>1, <1>2, <1>3, <1>4, <1>5 DEF CommandChange

-----------------------------------------------------------------------------
(***************************************************************************)
(* What a token may do                                                     *)
(***************************************************************************)

\* A thread leaves the commands of the others alone.
LEMMA OthersRest ==
    ASSUME Types, NEW t \in Threads, NEW u \in Threads, u # t,
           BeginCommand(u) \/ StepCommand(u)
    PROVE  cmd'[t] = cmd[t]
  <1>1. CASE BeginCommand(u)
    BY <1>1 DEF Types, BeginCommand, BeginEnable, BeginPromote, BeginWrite, BeginSaveAs,
       BeginSaveImport, BeginOpenExternal, BeginRevoke, Begin
  <1>2. CASE Done(u) \/ \E step : Goto(u, step)
    BY <1>2 DEF Types, Done, Goto
  <1>3. ASSUME NEW x \in Tokens, IssueSaved(u, x) PROVE cmd'[t] = cmd[t]
    BY <1>2, <1>3 DEF Types, IssueSaved
  <1>4. CASE StepCommand(u) /\ ~\E x \in Tokens : IssueSaved(u, x)
    BY <1>2, <1>4, RefuseIsDone DEF StepCommand, AssertOwner, EnableFileWrite, EnterEdit,
       DisableFileWrite, Prepare, PrepareFails, CommitPromotion, CommitOpenExternal, Resolve,
       Put, SaveFails, Replace, Revoke
  <1> QED
    BY <1>1, <1>3, <1>4

\* enable_external_edit that finds the session turns it into an edit session.
LEMMA EnteringWindow ==
    ASSUME Types, Next, NEW t \in Threads, cmd[t].step = "enter",
           External(cmd[t].window), sessions'[cmd[t].window] # None,
           sessions'[cmd[t].window].mode # "edit"
    PROVE  cmd'[t] = cmd[t]
  <1> DEFINE w == cmd[t].window
  <1>0. w \in Windows
    BY DEF Types, Command
  <1>1. ~EnterEdit(t)
    <2> SUFFICES ASSUME EnterEdit(t) PROVE FALSE
      OBVIOUS
    <2>1. sessions' = [sessions EXCEPT ![w].mode = "edit"] /\ sessions[w] \in Session
      BY <1>0 DEF EnterEdit, External, Types
    <2> QED
      BY <1>0, <2>1 DEF Types, Session
  <1>2. ~BeginCommand(t)
    BY DEF BeginCommand, BeginEnable, BeginPromote, BeginWrite, BeginSaveAs, BeginSaveImport,
       BeginOpenExternal, BeginRevoke, Begin
  <1>3. ~StepCommand(t)
    BY <1>1 DEF StepCommand, AssertOwner, EnableFileWrite, DisableFileWrite, Prepare,
       PrepareFails, CommitPromotion, CommitOpenExternal, Resolve, Put, SaveFails, Replace,
       Revoke, IssueSaved
  <1> QED
    BY <1>2, <1>3, OthersRest DEF Next, MainThread, OpenFile, GrantOpened, RegisterOpened, BuildWindow,
       GrantFails, RegisterFails, BuildFails, Fallback, CreateWorkspace, Destroyed,
       Unregister, Unroot, Disown, OpenNotebook, Expire

LEMMA WriteMeansEditStep ==
    ASSUME Types, Control, TokenInv, WriteMeansEdit, Next
    PROVE  WriteMeansEdit'
  <1> SUFFICES ASSUME NEW w \in Windows, External(w)', sessions'[w].mode # "edit",
                      grants'[sessions'[w].token] # None, grants'[sessions'[w].token].write
               PROVE  \E t \in Threads : /\ cmd'[t].step = "enter" /\ cmd'[t].window = w
                                         /\ cmd'[t].token = sessions'[w].token
    BY DEF WriteMeansEdit
  <1>1. SessionChange(w)
    BY SessionChanges
  <1>2. CASE sessions'[w] = sessions[w]
    <2> DEFINE x == sessions[w].token
    <2>1. External(w) /\ Belongs(x, w, sessions[w].key) /\ x \in Tokens
      BY <1>2 DEF External, TokenInv, SessionTokens, Belongs
    <2>2. GrantChange(x) /\ ~Unused(x)
      BY <2>1, GrantChanges, ReferredTo
    <2>3. grants[x] # None /\ grants[x].owner = w
      BY <1>2, <2>1, <2>2 DEF GrantChange, Issued, Kept, Belongs
    <2>4. CASE Upgraded(x)
      BY <1>2, <2>3, <2>4 DEF Upgraded
    <2>5. CASE grants[x].write
      <3>1. PICK t \in Threads : cmd[t].step = "enter" /\ cmd[t].window = w /\ cmd[t].token = x
        BY <1>2, <2>1, <2>3, <2>5 DEF WriteMeansEdit
      <3>2. cmd'[t] = cmd[t]
        BY <1>2, <2>1, <3>1, EnteringWindow DEF External
      <3> QED
        BY <1>2, <3>1, <3>2
    <2> QED
      BY <1>2, <2>2, <2>4, <2>5 DEF GrantChange, Issued, Kept
  <1>3. CASE /\ w = opening.label /\ opening.step = "register"
             /\ sessions'[w].key = opening.file /\ sessions'[w].token = opening.token
             /\ sessions'[w].mode = IF opening.file \in Notes THEN "readonly" ELSE "import"
             /\ UNCHANGED <<grants, cmd>>
    BY <1>3 DEF External, TokenInv, OpeningToken
  <1>4. CASE sessions'[w] = None \/ sessions'[w] = Workspace
    BY <1>4 DEF External, Workspace
  <1>5. CASE External(w) /\ sessions'[w] = [sessions[w] EXCEPT !.mode = "edit"]
    BY <1>5 DEF External, Types, Session
  <1>6. CASE External(w) /\ sessions'[w] = Promoted(sessions[w])
    BY <1>6 DEF External, Types, Session, Promoted
  <1>7. ASSUME NEW t \in Threads,
               sessions'[w] = [mode |-> "edit", key |-> cmd[t].file, token |-> cmd[t].token]
        PROVE  FALSE
    BY <1>7
  <1> QED
    BY <1>1, <1>2, <1>3, <1>4, <1>5, <1>6, <1>7 DEF SessionChange

-----------------------------------------------------------------------------
(***************************************************************************)
(* What a window leaves behind                                             *)
(***************************************************************************)

Ungranted(w) == \A x \in Tokens : grants[x] = None \/ grants[x].owner # w

\* An opening that has nothing to take back when it fails has given out nothing.
NothingYet ==
    /\ opening.label \notin live
    /\ \/ opening.step = "grant"
       \/ opening.step = "register" /\ opening.file \notin Notes
       \/ opening.step = "build" /\ opening.file = None
    => Ungranted(opening.label)

\* No step gives a grant to a label without a window but the opening's.
LEMMA StillUngranted ==
    ASSUME Types, Control, Next, NEW w \in Windows, w \notin live, Ungranted(w),
           \/ w # opening.label
           \/ ~(opening'.step = "register" /\ opening'.file \in Notes)
    PROVE  Ungranted(w)'
  BY GrantChanges DEF Ungranted, GrantChange, Issued, Kept

\* A label the main thread is done with.
Tidy(w) == w \notin roots /\ sessions[w] \in {None, Workspace} /\ Ungranted(w)

LEMMA TidyLabels ==
    ASSUME Types, Control
    PROVE  NothingLeftBehind <=>
               \A w \in Windows \ live : opening = Idle \/ w # opening.label => Tidy(w)
  BY NoneAssumption DEF Control, OpeningFits, NothingLeftBehind, Tidy, Ungranted

\* What a step leaves alone stays tidy.
LEMMA StillTidy ==
    ASSUME Inv, NothingLeftBehind, Next, NEW w \in Windows, w \notin live, w \notin live',
           opening = Idle \/ w # opening.label,
           opening' = Idle \/ w # opening'.label
    PROVE  Tidy(w)'
  <1>0. Types /\ Control /\ Inv'
    BY TypeStep, ControlStep, IndexStep, RootsStep DEF Inv
  <1>1. Tidy(w)
    BY <1>0, TidyLabels
  <1>2. w \notin roots'
    BY <1>0, OpeningIdle DEF Inv, Rooted, RootsAreThere
  <1>3. sessions'[w] \in {None, Workspace}
    BY <1>0 DEF Inv, Control, DeadSessions
  <1>4. w # opening.label \/ ~(opening'.step = "register" /\ opening'.file \in Notes)
    <2> SUFFICES ASSUME opening = Idle, opening'.step = "register", opening'.file \in Notes
                 PROVE  FALSE
      OBVIOUS
    <2>1. opening.step = "idle"
      BY OpeningIdle
    <2> QED
      BY <1>0, <2>1, OpeningChanges
  <1>5. Ungranted(w)'
    BY <1>0, <1>1, <1>4, StillUngranted DEF Tidy
  <1> QED
    BY <1>2, <1>3, <1>5 DEF Tidy

\* A live window goes only when the main thread is told, which then is at it.
LEMMA OnlyDestroyed ==
    ASSUME Types, Next, NEW w \in live, w \notin live'
    PROVE  opening' # Idle /\ opening'.label = w
  <1>1. ASSUME NEW v \in Windows, Destroyed(v) PROVE opening' # Idle /\ opening'.label = w
    <2>1. v = w /\ opening' = [Idle EXCEPT !.step = "unregister", !.label = w, !.old = w]
      BY <1>1 DEF Destroyed
    <2>2. opening'.step = "unregister" /\ opening'.label = w
      BY <2>1 DEF Idle
    <2> QED
      BY <2>2, OpeningIdle
  <1>2. CASE live \subseteq live'
    BY <1>2
  <1>3. CASE MainThread
    BY <1>1, <1>2, <1>3 DEF MainThread, OpenFile, GrantOpened, RegisterOpened, BuildWindow,
       GrantFails, RegisterFails, BuildFails, Fallback, CreateWorkspace,
       Unregister, Unroot, Disown
  <1>4. ASSUME NEW t \in Threads, BeginCommand(t) \/ StepCommand(t) PROVE UNCHANGED live
    BY <1>4 DEF BeginCommand, BeginEnable, BeginPromote, BeginWrite, BeginSaveAs,
       BeginSaveImport, BeginOpenExternal, BeginRevoke, Begin, StepCommand, AssertOwner,
       EnableFileWrite, EnterEdit, DisableFileWrite, Prepare, PrepareFails, CommitPromotion,
       CommitOpenExternal, Resolve, Put, SaveFails, Replace, Revoke, IssueSaved, tables
  <1> QED
    BY <1>2, <1>3, <1>4 DEF Next, OpenNotebook, Expire

\* The other steps leave the main thread where it is.
LEMMA MainThreadAlone ==
    ASSUME Next, ~MainThread
    PROVE  UNCHANGED <<opening, live>>
  <1>1. ASSUME NEW t \in Threads, BeginCommand(t) PROVE UNCHANGED <<opening, live>>
    BY <1>1 DEF BeginCommand, BeginEnable, BeginPromote, BeginWrite, BeginSaveAs,
       BeginSaveImport, BeginOpenExternal, BeginRevoke, Begin, tables
  <1>2. ASSUME NEW t \in Threads, StepCommand(t) PROVE UNCHANGED <<opening, live>>
    BY <1>2 DEF StepCommand, AssertOwner, EnableFileWrite, EnterEdit, DisableFileWrite, Prepare,
       PrepareFails, CommitPromotion, CommitOpenExternal, Resolve, Put, SaveFails,
       Replace, Revoke, IssueSaved, tables
  <1> QED
    BY <1>1, <1>2 DEF Next, OpenNotebook, Expire

\* An opening that ends without its window has taken back what it gave out.
LEMMA EndedTidy ==
    ASSUME Inv, NothingYet, MainThread, opening # Idle, opening.label \notin live',
           opening' = Idle \/ opening.label # opening'.label
    PROVE  /\ sessions'[opening.label] \in {None, Workspace}
           /\ \A x \in Tokens : grants'[x] = None \/ grants'[x].owner # opening.label
<1> DEFINE w == opening.label
<1>0. /\ opening \in Opening /\ w \in Windows /\ OpeningFits /\ Idle.step = "idle"
      /\ opening.step # "idle" /\ Types
  BY OpeningIdle DEF Inv, Types, Opening, Control, OpeningFits
<1>1. \/ GrantFails \/ (RegisterFails /\ opening.file \notin Notes)
      \/ (BuildFails /\ opening.file = None) \/ Disown
  <2>1. CASE \/ \E v \in Windows, f \in Files : OpenFile(v, f)
             \/ CreateWorkspace \/ \E v \in Windows : Destroyed(v)
    BY <1>0, <2>1 DEF CreateWorkspace, Destroyed, OpenFile
  <2>2. CASE \/ \E x \in Tokens : GrantOpened(x)
             \/ Unregister \/ Unroot \/ (RegisterOpened /\ w \notin live)
             \/ (RegisterFails /\ opening.file \in Notes)
             \/ (BuildFails /\ opening.file # None)
    <3>1. opening'.label = w /\ opening'.step # "idle"
      BY <1>0, <2>2 DEF GrantOpened, Unregister, Unroot, RegisterOpened, RegisterFails, BuildFails,
         Opening
    <3> QED
      BY <1>0, <3>1
  <2>3. CASE BuildWindow \/ Fallback \/ (RegisterOpened /\ w \in live)
    BY <1>0, <2>3 DEF BuildWindow, Fallback, RegisterOpened, OpeningFits
  <2> QED
    BY <2>1, <2>2, <2>3 DEF MainThread
<1>2. w \notin live
  BY <1>1 DEF GrantFails, RegisterFails, BuildFails, Disown
<1>3. CASE \/ GrantFails \/ (RegisterFails /\ opening.file \notin Notes)
           \/ (BuildFails /\ opening.file = None)
  <2>1. UNCHANGED <<sessions, grants>> /\ Ungranted(w)
    BY <1>2, <1>3 DEF GrantFails, RegisterFails, BuildFails, NothingYet
  <2>2. sessions[w] \in {None, Workspace}
    BY <1>0, <1>3 DEF GrantFails, RegisterFails, BuildFails, OpeningFits
  <2>3. \A x \in Tokens : grants'[x] = None \/ grants'[x].owner # w
    BY <2>1 DEF Ungranted
  <2> QED
    BY <2>1, <2>2, <2>3
<1>4. CASE Disown
  <2>1. UNCHANGED sessions /\ sessions[w] = None /\ grants' = Revoked(w)
    BY <1>0, <1>4 DEF Disown, OpeningFits
  <2>2. \A x \in Tokens : grants'[x] = None \/ grants'[x].owner # w
    BY <2>1 DEF Revoked
  <2> QED
    BY <2>1, <2>2
<1> QED
  BY <1>1, <1>3, <1>4

LEMMA TidyStep ==
    ASSUME Inv, NothingLeftBehind, NothingYet, Next
    PROVE  NothingLeftBehind'
<1>0. Types /\ Control /\ Inv'
  BY TypeStep, ControlStep, IndexStep, RootsStep DEF Inv
<1> SUFFICES ASSUME NEW w \in Windows, w \notin live', opening' = Idle \/ w # opening'.label
             PROVE  Tidy(w)'
  BY DEF NothingLeftBehind, Tidy, Ungranted
<1>1. w \notin live
  BY <1>0, OnlyDestroyed
<1>2. CASE opening = Idle \/ w # opening.label
  BY <1>1, <1>2, StillTidy
<1>3. CASE opening # Idle /\ w = opening.label
  <2>1. w \notin roots'
    BY <1>0, OpeningIdle DEF Inv, Rooted, RootsAreThere
  <2>2. MainThread
    BY <1>3, MainThreadAlone
  <2>3. sessions'[w] \in {None, Workspace} /\ Ungranted(w)'
    BY <1>3, <2>2, EndedTidy DEF Ungranted
  <2> QED
    BY <2>1, <2>3 DEF Tidy
<1> QED
  BY <1>2, <1>3

LEMMA NothingYetStep ==
    ASSUME Inv, NothingLeftBehind, NothingYet, Next
    PROVE  NothingYet'
<1>0. /\ Types /\ Control /\ opening \in Opening /\ opening.label \in Windows
      /\ OpeningFits /\ Idle.step = "idle"
  BY OpeningIdle DEF Inv, Types, Opening, Control
<1> SUFFICES ASSUME opening'.label \notin live',
                    \/ opening'.step = "grant"
                    \/ opening'.step = "register" /\ opening'.file \notin Notes
                    \/ opening'.step = "build" /\ opening'.file = None
             PROVE  Ungranted(opening.label)'
  BY DEF NothingYet, Ungranted
<1>1. CASE ~MainThread
  <2>1. UNCHANGED <<opening, live>>
    BY <1>1, MainThreadAlone
  <2>2. Ungranted(opening.label)
    BY <2>1 DEF NothingYet
  <2>3. Ungranted(opening.label)'
    BY <1>0, <2>1, <2>2, StillUngranted
  <2> QED
    BY <2>1, <2>3
<1>2. CASE MainThread
  <2>1. ASSUME NEW w \in Windows, opening = Idle, UNCHANGED <<live, grants>>, opening'.label = w
        PROVE  Ungranted(opening.label)'
    <3>1. Ungranted(w)
      BY <1>0, <2>1, TidyLabels DEF Tidy
    <3> QED
      BY <2>1, <3>1 DEF Ungranted
  <2>2. ASSUME NEW w \in Windows, NEW f \in Files, OpenFile(w, f)
        PROVE  Ungranted(opening.label)'
    BY <2>1, <2>2 DEF OpenFile
  <2>3. CASE CreateWorkspace
    BY <2>1, <2>3, MainAssumption DEF CreateWorkspace, Idle
  <2>4. ASSUME NEW x \in Tokens, GrantOpened(x) PROVE FALSE
    BY <1>0, <2>4 DEF GrantOpened, OpeningFits, Opening
  <2>5. CASE RegisterOpened
    <3>1. opening' = Idle \/ opening' = [opening EXCEPT !.step = "build"]
      BY <2>5 DEF RegisterOpened
    <3>2. opening.file # None
      BY <1>0, <2>5, NoneAssumption DEF RegisterOpened, OpeningFits, Files
    <3> QED
      BY <1>0, <3>1, <3>2 DEF Opening
  <2>6. CASE GrantFails \/ RegisterFails \/ BuildFails \/ Disown
    <3>1. \/ opening' = Ended \/ opening' = Idle
          \/ opening' = [opening EXCEPT !.step = "disown", !.old = opening.label]
          \/ opening' = [opening EXCEPT !.step = "unregister", !.old = opening.label]
      BY <1>0, <2>6 DEF GrantFails, RegisterFails, BuildFails, Disown, OpeningFits
    <3> QED
      BY <1>0, <3>1 DEF Ended, Opening
  <2>7. CASE BuildWindow \/ Fallback \/ Unregister \/ Unroot
    BY <1>0, <2>7 DEF BuildWindow, Fallback, Unregister, Unroot, Opening
  <2>8. CASE \E w \in Windows : Destroyed(w)
    BY <2>8 DEF Destroyed, Idle
  <2> QED
    BY <1>2, <2>2, <2>3, <2>4, <2>5, <2>6, <2>7, <2>8 DEF MainThread
<1> QED
  BY <1>1, <1>2

-----------------
(***************************************************************************)
(* Theorems about tokens                                                   *)
(***************************************************************************)

\* Who owns what a token allows, and which commands still count on it.
AccessInv == Inv /\ TokenInv /\ WriteMeansEdit /\ NothingLeftBehind /\ NothingYet

LEMMA InitAccess == Init => AccessInv
<1> SUFFICES ASSUME Init PROVE AccessInv
  OBVIOUS
<1>1. Inv
  BY InitInv
<1>2. /\ \A x \in Tokens : grants[x] = None
      /\ \A w \in Windows : sessions[w] \in {None, Workspace} /\ ~External(w)
      /\ \A t \in Threads : cmd[t].step = "idle"
      /\ roots = {}
  <2>1. \A w \in Windows : sessions[w] \in {None, Workspace}
    BY DEF Init
  <2>2. \A w \in Windows : ~External(w)
    <3>1. Workspace.mode = "workspace"
      BY DEF Workspace
    <3> QED
      BY <2>1, <3>1 DEF External
  <2> QED
    BY <2>1, <2>2 DEF Init, Resting
<1>3. opening.step = "register" => opening.file \notin Notes
  <2>1. ASSUME NEW f \in Files, opening = [Idle EXCEPT !.file = f, !.step = FirstStep(f)]
        PROVE  <1>3
    BY <2>1 DEF Idle, FirstStep
  <2> QED
    BY <2>1, OpeningIdle DEF Init
<1>4. WholeWritesNothing /\ SessionTokens /\ OpeningToken /\ CommandTokens
  BY <1>2, <1>3 DEF WholeWritesNothing, SessionTokens, OpeningToken, CommandTokens
<1> QED
  BY <1>1, <1>2, <1>4
  DEF AccessInv, TokenInv, WriteMeansEdit, NothingLeftBehind, NothingYet, Ungranted

LEMMA AccessStep == AccessInv /\ [Next]_vars => AccessInv'
<1>1. ASSUME AccessInv, Next PROVE AccessInv'
  <2>1. Inv'
    BY <1>1, TypeStep, ControlStep, IndexStep, RootsStep DEF AccessInv, Inv
  <2>2. TokenInv'
    BY <1>1, WholeStep, SessionTokensStep, OpeningTokenStep,
       CommandTokensStep DEF AccessInv, Inv, TokenInv
  <2>3. WriteMeansEdit'
    BY <1>1, WriteMeansEditStep DEF AccessInv, Inv
  <2>4. NothingLeftBehind' /\ NothingYet'
    BY <1>1, TidyStep, NothingYetStep DEF AccessInv
  <2> QED
    BY <2>1, <2>2, <2>3, <2>4 DEF AccessInv
<1>2. ASSUME AccessInv, UNCHANGED vars PROVE AccessInv'
  BY <1>2 DEF vars, AccessInv, Inv, Types, Control, OpeningFits, CommandFits, OneSaveAtATime,
     ImportsHaveDocuments, DeadSessions, Saving, IndexMatchesSessions, Rooted,
     RootsAreWorkspaces, RootsAreThere, IsWorkspace, NothingYet, Ungranted, TokenInv, WholeWritesNothing, SessionTokens, OpeningToken, CommandTokens, Belongs, WriteFits, External,
     WriteMeansEdit, NothingLeftBehind
<1> QED
  BY <1>1, <1>2

LEMMA AccessInvHolds == Spec => []AccessInv
  BY InitAccess, AccessStep, PTL DEF Spec

\* The token of an external window writes only once the window is in edit
\* mode or while enable_external_edit is on its way there, whatever expires,
\* is promoted, saved or refused meanwhile.
THEOREM WriteNeedsEdit == Spec => []WriteMeansEdit
  BY AccessInvHolds, PTL DEF AccessInv

\* A destroyed window, and an opening that failed, leave neither a root nor a
\* grant nor a session with a file.
THEOREM WindowsLeaveNothing == Spec => []NothingLeftBehind
  BY AccessInvHolds, PTL DEF AccessInv

\* A write that resolve_file lets through is one of a window in edit mode, to
\* the file of its session, by a token of its own.
THEOREM WritesKeepToTheSession == Spec => WritesStayInTheSession
<1> DEFINE Let(t) == LET w == cmd[t].window IN
                     /\ External(w) /\ sessions[w].mode = "edit"
                     /\ cmd[t].file = sessions[w].key
                     /\ grants[cmd[t].token].file = sessions[w].key
                     /\ grants[cmd[t].token].owner = w
<1>1. ASSUME AccessInv, Next, NEW t \in Threads, cmd[t].step = "resolve", cmd'[t].step = "put"
      PROVE  Let(t)
  <2>0. Types /\ Control /\ WholeWritesNothing /\ SessionTokens /\ WriteFits(t)
    BY <1>1 DEF AccessInv, Inv, TokenInv, CommandTokens
  <2>1. StepCommand(t)
    <3>1. ASSUME NEW u \in Threads, BeginCommand(u) \/ StepCommand(u) PROVE u = t
      BY <1>1, <2>0, <3>1, OthersRest
    <3>2. ~BeginCommand(t)
      BY <1>1 DEF BeginCommand, BeginEnable, BeginPromote, BeginWrite, BeginSaveAs,
         BeginSaveImport, BeginOpenExternal, BeginRevoke, Begin
    <3>3. cmd' # cmd
      BY <1>1
    <3> QED
      BY <1>1, <3>1, <3>2, <3>3 DEF Next, MainThread, OpenFile, GrantOpened, RegisterOpened, BuildWindow,
       GrantFails, RegisterFails, BuildFails, Fallback, CreateWorkspace, Destroyed,
       Unregister, Unroot, Disown, OpenNotebook, Expire
  <2>2. Resolve(t)
    BY <1>1, <2>1 DEF StepCommand, AssertOwner, EnableFileWrite, EnterEdit, DisableFileWrite,
       Prepare, PrepareFails, CommitPromotion, CommitOpenExternal, Put, SaveFails, Replace,
       Revoke, IssueSaved
  <2>3. Writable(cmd[t].token, cmd[t].file)
    BY <1>1, <2>0, <2>2, RefuseIsDone, Finished DEF Resolve
  <2>4. /\ External(cmd[t].window) /\ sessions[cmd[t].window].mode = "edit"
        /\ sessions[cmd[t].window].token = cmd[t].token
        /\ grants[cmd[t].token].owner = cmd[t].window
    BY <2>0, <2>3 DEF WriteFits, Writable, Usable
  <2>5. grants[cmd[t].token].file = sessions[cmd[t].window].key
    BY <2>0, <2>3, <2>4 DEF SessionTokens, Belongs, Writable, Usable, Types, Command
  <2> QED
    BY <2>0, <2>3, <2>4, <2>5 DEF WholeWritesNothing, WriteFits, Writable, Usable, Reach
<1>2. AccessInv /\ [Next]_vars =>
          [\A t \in Threads : cmd[t].step = "resolve" /\ cmd'[t].step = "put" => Let(t)]_vars
  BY <1>1
<1> QED
  BY <1>2, AccessInvHolds, PTL DEF Spec, WritesStayInTheSession

=============================================================================
