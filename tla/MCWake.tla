------------------------------- MODULE MCWake -------------------------------
(***************************************************************************)
(* The pool loses nobody, and what has stopped is set going again: staged  *)
(* work wakes the engine (PendingPool), and a node that fell behind        *)
(* catches up (SyncLoop).  A behaviour runs one of three parts on its      *)
(* small instance while the others stand still: the pool with failing      *)
(* reads, for a forwarded transaction and its re-forward; the pool with    *)
(* sound reads, for a forwarded transaction and a local one; the sync.     *)
(***************************************************************************)
EXTENDS MCPendingPool, SyncLoop

VARIABLE part

Sound == INSTANCE PendingPool WITH DbFaults <- FALSE, MaxRestages <- 0

\* The second peer is always sound, the first may be anything
MCConducts == {<<c, "sound">> : c \in {"sound", "faulty", "garbled", "crossed"}}

\* The idle sync has one initial state
MCInit ==
    /\ part \in {"faults", "pool", "sync"} /\ Init /\ SyncInit
    /\ part # "sync" => tip = <<0, 0>> /\ conduct[1] = "sound" /\ ~polls
MCNext ==
    \/ /\ part = "faults" /\ Next
       /\ pushing'[w3] = "new" /\ committed'[n2] = 0
       /\ UNCHANGED <<part, syncVars>>
    \/ /\ part = "pool" /\ Sound!Next
       /\ pushing'[w2] = "new"
       /\ UNCHANGED <<part, syncVars>>
    \/ part = "sync" /\ SyncNext /\ UNCHANGED <<part, vars>>

\* Each part's fairness, owed only while that part has work to do
InPool(A) == part = "pool" /\ ~OutOfHeights /\ Waiting # {} /\ A
InSync(A) == part = "sync" /\ A
MCFairness ==
    /\ WF_vars(InPool(Sound!Driver)) /\ WF_vars(InPool(Sound!Settler))
    /\ WF_vars(InPool(ShellResume)) /\ WF_vars(InPool(Publish))
    /\ WF_vars(InPool(~paused /\ DecideSome))
    /\ WF_syncVars(InSync(Loop)) /\ WF_syncVars(InSync(ShellTakes))
    /\ WF_syncVars(InSync(TipPoll))
    /\ \A p \in Peers :
        WF_syncVars(InSync(conduct[p] = "sound" /\ KickSyncIfBehind(p)))
MCSpec == MCInit /\ [][MCNext]_<<part, vars, syncVars>> /\ MCFairness

\* Where the pool's reads are sound, no wake-up is lost (PendingPool): a settle
\* whose first read fails gives up without re-arming the driver.
PoolWakes == part = "pool" => NoLostWake
=============================================================================
