---------------------------- MODULE LockService ----------------------------
(***************************************************************************)
(* What WorkspaceManager.lock promises to the operations of a workspace,   *)
(* whatever directories, lock files and commands do it: one holder at a    *)
(* time, released by its holder alone, and never again free once its       *)
(* holder died with the process.                                           *)
(***************************************************************************)
CONSTANTS
  Workspace,  \* what is locked
  Handler     \* who locks

VARIABLES
  held,  \* pairs <<h, w>>: handler h is inside the lock of w
  dead   \* workspaces whose holder died

locked == <<held, dead>>

Free(w) == w \notin dead /\ \A h \in Handler : <<h, w>> \notin held

Init == held = {} /\ dead = {}

(* A free lock is taken by a handler that has none. *)
Acquire(h, w) ==
  /\ Free(w)
  /\ \A v \in Workspace : <<h, v>> \notin held
  /\ held' = held \cup {<<h, w>>}
  /\ UNCHANGED dead

Release(h, w) ==
  /\ <<h, w>> \in held
  /\ held' = held \ {<<h, w>>}
  /\ UNCHANGED dead

(* The process dies: every holder with it, and whoever was inside a lock   *)
(* it would have given back before its next await.                         *)
Die ==
  /\ held' = {}
  /\ \E inside \in SUBSET {w \in Workspace : Free(w)} :
       dead' = dead \cup inside \cup {w \in Workspace : \E h \in Handler : <<h, w>> \in held}

Next ==
  \/ \E h \in Handler, w \in Workspace : Acquire(h, w) \/ Release(h, w)
  \/ Die

Spec == Init /\ [][Next]_locked
=============================================================================
