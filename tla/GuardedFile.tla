----------------------------- MODULE GuardedFile -----------------------------
(***************************************************************************)
(* What a transaction promises about its file, whatever the processes that  *)
(* open one do and wherever they fail: only who is inside changes the file, *)
(* nobody enters while somebody is inside, and a roll back brings back what *)
(* the file was when it was entered.  The promise ends with the first lock  *)
(* file that is removed under its owner.                                    *)
(***************************************************************************)
CONSTANTS Procs, Contents, None

VARIABLES
    doc,      \* the content of the file
    inside,   \* the process that is inside, as a set
    saved,    \* saved[p]: the file as it was when p entered
    lost      \* a lock file has been removed under its owner

guardVars == <<doc, inside, saved, lost>>

Init ==
    /\ doc \in Contents
    /\ inside = {}
    /\ saved = [p \in Procs |-> None]
    /\ lost = FALSE

\* __enter__ returns.
Enter(p) ==
    /\ inside = {}
    /\ inside' = {p}
    /\ saved' = [saved EXCEPT ![p] = doc]
    /\ UNCHANGED doc

\* The body or a serializer writes; or a roll back has begun to.
Write(p) ==
    /\ inside = {p}
    /\ doc' \in Contents
    /\ UNCHANGED <<inside, saved>>

Exit(p) ==
    /\ inside = {p}
    /\ inside' = {}
    /\ saved' = [saved EXCEPT ![p] = None]

\* commit(); or a roll back that is given up, or the end of the process.
Leave(p) == Exit(p) /\ UNCHANGED doc

\* rollback().
Restore(p) == Exit(p) /\ doc' = saved[p]

Next ==
    \/ lost' = TRUE
    \/ /\ UNCHANGED lost
       /\ \E p \in Procs : Enter(p) \/ Write(p) \/ Leave(p) \/ Restore(p)

Spec == Init /\ [][Next]_guardVars

=============================================================================
