---------------------------- MODULE FileOwnership ----------------------------
(***************************************************************************)
(* What the window registry promises: a file from outside the notebooks    *)
(* belongs to at most one window, which reads it, then may write that one  *)
(* file, and may in the end turn into a notebook window for good.          *)
(* WindowSession is shown to implement this specification.                 *)
(***************************************************************************)
CONSTANTS Windows, Notes, Documents, None

VARIABLES
    held,   \* the file a window was opened for
    right   \* what the window may do

abstract == <<held, right>>

Rights == {"none", "import", "readonly", "edit", "workspace"}

Free(f) == \A w \in Windows : held[w] # f

Init ==
    /\ held = [w \in Windows |-> None]
    /\ right \in [Windows -> {"none", "workspace"}]

Become(w, f, r) ==
    /\ held' = [held EXCEPT ![w] = f]
    /\ right' = [right EXCEPT ![w] = r]

\* A window without a file of its own.
Enter(w) == right[w] = "none" /\ Become(w, None, "workspace")

\* A window is opened for a file nobody has.
Claim(w, f) ==
    /\ right[w] = "none"
    /\ Free(f)
    /\ Become(w, f, IF f \in Documents THEN "import" ELSE "readonly")

Allow(w) == right[w] = "readonly" /\ Become(w, held[w], "edit")

Promote(w) == right[w] \in {"readonly", "edit"} /\ Become(w, held[w], "workspace")

\* The Markdown copy of an imported document takes its place.
Settle(w, f) ==
    /\ right[w] = "import"
    /\ Free(f)
    /\ Become(w, f, "edit")

Release(w) == Become(w, None, "none")

Next == \E w \in Windows :
    \/ Enter(w) \/ Allow(w) \/ Promote(w) \/ Release(w)
    \/ \E f \in Notes \cup Documents : Claim(w, f)
    \/ \E f \in Notes : Settle(w, f)

Spec == Init /\ [][Next]_abstract

-----------------------------------------------------------------------------

\* No file belongs to two windows (window_session.rs:202, 252).
Exclusive ==
    \A v, w \in Windows : v # w /\ held[v] # None => held[v] # held[w]
=============================================================================
