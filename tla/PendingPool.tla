---------------------------- MODULE PendingPool ----------------------------
(***************************************************************************)
(* One node's PendingPool (src/consensus/queue.rs) together with the tasks *)
(* that touch it: the pushers (batch processor and forwarded requests),    *)
(* the engine driver that answers NeedValue, the settler that resolves     *)
(* submitters as heights decide, and the shell that decides heights.       *)
(*                                                                         *)
(* Every critical section of the code (one lock held once) is one action,  *)
(* so that the tasks interleave exactly where the locks let them.  The two *)
(* vectors of the pool and the driver's and settler's local vectors are    *)
(* one set of entries, each tagged with the place that holds it; the order *)
(* inside a vector is not modelled, so a proposal takes any nonempty batch *)
(* where the code takes the longest prefix that fits its budgets.          *)
(***************************************************************************)
EXTENDS Integers, FiniteSets

CONSTANTS
    Nonces,       \* transaction nonces
    Waiters,      \* submissions: one oneshot channel each
    NonceOf,      \* the nonce each submission carries
    Local,        \* submissions made through this node's own submit channel
    MaxBatch,     \* MAX_BATCH_SIZE
    MaxRestages,  \* MAX_TRANSIENT_RESTAGES
    MaxHeight,    \* bound: last height that may decide
    MaxRounds,    \* bound: NeedValue events per height
    DbFaults      \* whether nonce reads and builds may fail

ASSUME PoolAssumption ==
    /\ NonceOf \in [Waiters -> Nonces]
    /\ Local \subseteq Waiters
    /\ \A w \in Local, x \in Waiters : NonceOf[w] = NonceOf[x] => w = x
    /\ MaxBatch \in Nat \ {0}
    /\ MaxRestages \in Nat
    /\ MaxHeight \in Nat
    /\ MaxRounds \in Nat
    /\ DbFaults \in BOOLEAN

VARIABLES
    pool,       \* every entry, tagged with the vector that holds it
    pushing,    \* how far each submission's push has got
    answer,     \* what each submission was told
    work,       \* stored permit of PendingPool::work
    kick,       \* stored permit of PendingPool::settle_kick
    driver,     \* the driver task: program counter and NeedValue height
    needs,      \* NeedValue events waiting for the driver, per height
    settler,    \* the settler task: program counter and height it settles
    decided,    \* last decided height in the database
    committed,  \* height at which each nonce was committed, 0 if it was not
    watch,      \* the decided watch channel
    unseen,     \* the settler has not yet seen the watch's value
    paused,     \* the next height is deferred (on-demand heights)
    resume,     \* a Resume waits in the shell's input channel
    asks        \* NeedValue events already emitted for the running height

engineVars == <<decided, committed, watch, paused, asks>>
driverVars == <<driver, needs>>
vars == <<pool, pushing, answer, work, kick, driver, needs, settler,
          decided, committed, watch, unseen, paused, resume, asks>>

\* queued and inflight are the pool's two vectors, ticket/restage/include
\* are handle_need_value's locals, repool is settle's local
Places == {"queued", "inflight", "ticket", "restage", "include", "repool"}
Entry == [nonce : Nonces, waiters : SUBSET Waiters, attempts : 0 .. MaxRestages,
          place : Places, at : 0 .. MaxHeight]

\* A task with no NeedValue or settle at hand
Idle == [pc |-> "idle", height |-> 0]

At(p) == {e \in pool : e.place = p}
IsCommitted(n) == committed[n] > 0
WaitersOf(S) == UNION {e.waiters : e \in S}

\* The answers after every waiter of S is sent kind
Send(S, kind) == [w \in Waiters |-> IF w \in WaitersOf(S) THEN kind ELSE answer[w]]

\* The pool after the entries of S move to place p
Move(S, p) == (pool \ S) \cup {[e EXCEPT !.place = p] : e \in S}

\* A fresh QueuedTransaction for submission w
NewEntry(w) == [nonce |-> NonceOf[w], waiters |-> {w}, attempts |-> 0,
                place |-> "queued", at |-> 0]

\* The pool after submission w's waiter joins entry e
Join(e, w) == (pool \ {e}) \cup {[e EXCEPT !.waiters = @ \cup {w}]}

Init ==
    /\ pool = {}
    /\ pushing = [w \in Waiters |-> "new"]
    /\ answer = [w \in Waiters |-> "none"]
    /\ work = FALSE /\ kick = FALSE
    /\ driver = Idle
    /\ needs = [h \in 1 .. MaxHeight |-> 0]
    /\ settler = Idle
    /\ decided = 0 /\ committed = [n \in Nonces |-> 0]
    /\ watch = 0 /\ unseen = FALSE
    /\ paused = TRUE /\ resume = FALSE /\ asks = 0

-----------------------------------------------------------------------------
(* Submissions *)

\* push, first critical section: under the inflight lock
PushInflight(w) ==
    /\ pushing[w] = "new"
    /\ LET same == {e \in At("inflight") : e.nonce = NonceOf[w]}
       IN IF same # {}
          THEN /\ \E e \in same : pool' = Join(e, w)
               /\ pushing' = [pushing EXCEPT ![w] = "in"]
          ELSE /\ pushing' = [pushing EXCEPT ![w] = "checked"]
               /\ UNCHANGED pool
    /\ UNCHANGED <<answer, work, kick, driverVars, settler, engineVars,
                   unseen, resume>>

\* push, second critical section: under the queued lock
PushQueued(w) ==
    /\ pushing[w] = "checked"
    /\ pushing' = [pushing EXCEPT ![w] = "in"]
    /\ LET same == {e \in At("queued") : e.nonce = NonceOf[w]}
       IN IF same # {}
          THEN /\ \E e \in same : pool' = Join(e, w)
               /\ UNCHANGED work
          ELSE /\ pool' = pool \cup {NewEntry(w)}
               /\ work' = TRUE
    /\ UNCHANGED <<answer, kick, driverVars, settler, engineVars, unseen,
                   resume>>

\* stage_for_settle: a remote proposer claims it committed our transaction
StageForSettle(w) ==
    /\ w \in Local
    /\ pushing[w] = "new"
    /\ pushing' = [pushing EXCEPT ![w] = "in"]
    /\ pool' = pool \cup {NewEntry(w)}
    /\ kick' = TRUE
    /\ UNCHANGED <<answer, work, driverVars, settler, engineVars, unseen,
                   resume>>

-----------------------------------------------------------------------------
(* The driver *)

\* spawn_driver's second select arm: staged work wakes the pending height
DriverResume ==
    /\ driver.pc = "idle"
    /\ work
    /\ work' = FALSE
    /\ resume' = TRUE
    /\ UNCHANGED <<pool, pushing, answer, kick, driverVars, settler,
                   engineVars, unseen>>

\* spawn_driver's first select arm: handle_need_value starts and looks
\* whether anything is staged
DriverNeed ==
    /\ driver.pc = "idle"
    /\ \E h \in DOMAIN needs :
         /\ needs[h] > 0
         /\ \A g \in 1 .. h - 1 : needs[g] = 0
         /\ needs' = [needs EXCEPT ![h] = @ - 1]
         /\ driver' = [pc |-> IF At("queued") = {} THEN "linger" ELSE "take",
                       height |-> h]
    /\ UNCHANGED <<pool, pushing, answer, work, kick, settler, engineVars,
                   unseen, resume>>

\* ... if not, it waits for the work signal: a permit that is stored, or comes
\* in time, is consumed; otherwise EMPTY_POOL_LINGER_MS pass without one
DriverLinger ==
    /\ driver.pc = "linger"
    /\ driver' = [driver EXCEPT !.pc = "take"]
    /\ work' = FALSE
    /\ UNCHANGED <<pool, pushing, answer, kick, needs, settler, engineVars,
                   unseen, resume>>

\* take_for_proposal: the entries leave the pool for a caller-held ticket
DriverTake ==
    /\ driver.pc = "take"
    /\ driver' = [driver EXCEPT !.pc = "build"]
    /\ \E S \in SUBSET At("queued") :
         /\ Cardinality(S) <= MaxBatch
         /\ At("queued") # {} => S # {}
         /\ pool' = Move(S, "ticket")
    /\ UNCHANGED <<pushing, answer, work, kick, needs, settler,
                   engineVars, unseen, resume>>

\* What preflight may say of a ticket entry: a committed nonce is recognised
\* unless the nonce read fails or comes before the commit, at the height being
\* built or a later one; any other entry is dry-run, after which it may be
\* refused for good (invalid, stale, too large, a semantic duplicate)
Unrecognised(n) == committed[n] >= driver.height \/ DbFaults
Verdicts(e) ==
    (IF IsCommitted(e.nonce) THEN {"committed"} ELSE {})
    \cup (IF IsCommitted(e.nonce) /\ ~Unrecognised(e.nonce) THEN {}
          ELSE {"include", "reject", "defer", "transient"})

\* Solo blocks and the lock budget defer entries, never the first candidate
Preflight(v) ==
    /\ \A e \in At("ticket") : v[e] \in Verdicts(e)
    /\ (\E e \in At("ticket") : v[e] = "defer")
         => \E e \in At("ticket") : v[e] \in {"include", "reject", "transient"}

\* The entry after a transient preflight failure, if its budget allows
Retried(e) == [e EXCEPT !.attempts = @ + 1, !.place = "restage"]

\* The ticket entries of verdict k, and those whose restage budget is spent
Of(v, k) == {e \in At("ticket") : v[e] = k}
Spent(v) == {e \in Of(v, "transient") : e.attempts = MaxRestages}

\* resolve_preflight_verdicts: each entry is answered, set aside for
\* restaging, or included in the block
Resolve(v) ==
    /\ pool' = (pool \ At("ticket"))
               \cup {[e EXCEPT !.place = "include"] : e \in Of(v, "include")}
               \cup {[e EXCEPT !.place = "restage"] : e \in Of(v, "defer")}
               \cup {Retried(e) : e \in Of(v, "transient") \ Spent(v)}
    /\ answer' = [w \in Waiters |->
                    IF w \in WaitersOf(Of(v, "committed")) THEN "Committed"
                    ELSE IF w \in WaitersOf(Of(v, "reject")) THEN "Rejected"
                    ELSE IF w \in WaitersOf(Spent(v)) THEN "Failed"
                    ELSE answer[w]]

\* build_value, and the verdicts of its preflight applied to the ticket
DriverBuild ==
    /\ driver.pc = "build"
    /\ driver' = [driver EXCEPT !.pc = "restage"]
    /\ \E v \in [At("ticket") ->
                   {"committed", "reject", "include", "defer", "transient"}] :
         Preflight(v) /\ Resolve(v)
    /\ UNCHANGED <<pushing, work, kick, needs, settler, engineVars, unseen, resume>>

\* A build that fails drops its ticket on the error path
DriverBuildFailsDropsTicket ==
    /\ driver.pc = "build"
    /\ DbFaults
    /\ driver' = Idle
    /\ pool' = pool \ At("ticket")
    /\ UNCHANGED <<pushing, answer, work, kick, needs, settler, engineVars,
                   unseen, resume>>

\* A build that fails restages its whole ticket
DriverBuildFails ==
    /\ driver.pc = "build"
    /\ DbFaults
    /\ driver' = Idle
    /\ pool' = Move(At("ticket"), "queued")
    /\ work' = TRUE
    /\ UNCHANGED <<pushing, answer, kick, needs, settler, engineVars,
                   unseen, resume>>

\* restage, when there is something to restage
DriverRestage ==
    /\ driver.pc = "restage"
    /\ driver' = [driver EXCEPT !.pc = "mark"]
    /\ pool' = Move(At("restage"), "queued")
    /\ work' = (work \/ At("restage") # {})
    /\ UNCHANGED <<pushing, answer, kick, needs, settler, engineVars,
                   unseen, resume>>

\* mark_inflight, then Propose is sent; the engine ignores a proposal for a
\* height it has left, and Decide covers what it does with any other
DriverMark ==
    /\ driver.pc = "mark"
    /\ driver' = Idle
    /\ pool' = (pool \ At("include"))
               \cup {[e EXCEPT !.place = "inflight", !.at = driver.height]
                       : e \in At("include")}
    /\ UNCHANGED <<pushing, answer, work, kick, needs, settler,
                   engineVars, unseen, resume>>

-----------------------------------------------------------------------------
(* The settler *)

\* The settler wakes on a new decide or on a kick; borrow_and_update marks
\* the watch seen either way
SettlerWake ==
    /\ settler.pc = "idle"
    /\ unseen \/ kick
    /\ settler' = [pc |-> "inflight", height |-> watch]
    /\ \E byKick \in {k \in BOOLEAN : IF k THEN kick ELSE unseen} :
         kick' = (kick /\ ~byKick)
    /\ unseen' = FALSE
    /\ UNCHANGED <<pool, pushing, answer, work, driverVars, engineVars,
                   resume>>

\* No connection, and a newer decide supersedes this settle
SettlerSuperseded ==
    /\ DbFaults
    /\ settler.pc = "inflight"
    /\ watch # settler.height
    /\ settler' = Idle
    /\ UNCHANGED <<pool, pushing, answer, work, kick, driverVars,
                   engineVars, unseen, resume>>

\* settle, first pass, taking a decided height for a committed transaction
SettleInflightByHeight ==
    /\ settler.pc = "inflight"
    /\ settler' = [settler EXCEPT !.pc = "repool"]
    /\ LET done == {e \in At("inflight") : e.at <= settler.height}
       IN /\ pool' = pool \ done
          /\ answer' = Send(done, "Committed")
    /\ UNCHANGED <<pushing, work, kick, driverVars, engineVars, unseen, resume>>

\* settle, first pass, under the inflight lock
SettleInflight ==
    /\ settler.pc = "inflight"
    /\ settler' = [settler EXCEPT !.pc = "repool"]
    /\ LET done == {e \in At("inflight") : IsCommitted(e.nonce)}
           lost == {e \in At("inflight") \ done : e.at <= settler.height}
       IN /\ pool' = (pool \ (done \cup lost))
                     \cup {[e EXCEPT !.place = "repool", !.at = 0] : e \in lost}
          /\ answer' = Send(done, "Committed")
    /\ UNCHANGED <<pushing, work, kick, driverVars, engineVars, unseen, resume>>

\* settle, first pass, when the nonce read fails: it gives up altogether
SettleInflightFails ==
    /\ DbFaults
    /\ settler.pc = "inflight"
    /\ At("inflight") # {}
    /\ settler' = Idle
    /\ UNCHANGED <<pool, pushing, answer, work, kick, driverVars,
                   engineVars, unseen, resume>>

\* settle: the lost rounds' entries go back to staging, under the queued lock
SettleRepool ==
    /\ settler.pc = "repool"
    /\ settler' = [settler EXCEPT !.pc = "queued"]
    /\ pool' = Move(At("repool"), "queued")
    /\ UNCHANGED <<pushing, answer, work, kick, driverVars, engineVars,
                   unseen, resume>>

\* settle, second pass, without the wake for what remains staged
SettleQueuedNoWake ==
    /\ settler.pc = "queued"
    /\ settler' = Idle
    /\ LET done == {e \in At("queued") : IsCommitted(e.nonce)}
       IN /\ pool' = pool \ done
          /\ answer' = Send(done, "Committed")
    /\ UNCHANGED <<pushing, work, kick, driverVars, engineVars, unseen, resume>>

\* settle, second pass, under the queued lock: resolve what committed
\* through another proposer and re-arm the driver while work remains
SettleQueued ==
    /\ settler.pc = "queued"
    /\ settler' = Idle
    /\ LET done == {e \in At("queued") : IsCommitted(e.nonce)}
       IN /\ pool' = pool \ done
          /\ answer' = Send(done, "Committed")
          /\ work' = (work \/ At("queued") # done)
    /\ UNCHANGED <<pushing, kick, driverVars, engineVars, unseen, resume>>

\* settle, second pass, when the nonce read fails: only the wake is re-armed
SettleQueuedFails ==
    /\ DbFaults
    /\ settler.pc = "queued"
    /\ At("queued") # {}
    /\ settler' = Idle
    /\ work' = TRUE
    /\ UNCHANGED <<pool, pushing, answer, kick, driverVars, engineVars,
                   unseen, resume>>

-----------------------------------------------------------------------------
(* The shell; it takes its next input only after draining its outputs *)

\* HostInput::Resume starts the deferred height, if one is deferred
ShellResume ==
    /\ watch = decided
    /\ resume
    /\ resume' = FALSE
    /\ paused' = FALSE
    /\ UNCHANGED <<pool, pushing, answer, work, kick, driverVars, settler,
                   decided, committed, watch, unseen, asks>>

\* This node is the proposer of a round of the running height
ShellNeedValue ==
    /\ watch = decided
    /\ ~paused
    /\ asks < MaxRounds
    /\ decided < MaxHeight
    /\ asks' = asks + 1
    /\ needs' = [needs EXCEPT ![decided + 1] = @ + 1]
    /\ UNCHANGED <<pool, pushing, answer, work, kick, driver, settler,
                   decided, committed, watch, unseen, paused, resume>>

\* The next height decides a block carrying the nonces S (ours or another
\* proposer's); block, nonces and height are one database transaction, and
\* the height after it is deferred
Decide(S) ==
    /\ watch = decided
    /\ decided < MaxHeight
    /\ \A n \in S : ~IsCommitted(n)
    /\ decided' = decided + 1
    /\ committed' = [n \in Nonces |-> IF n \in S THEN decided + 1 ELSE committed[n]]
    /\ paused' = TRUE
    /\ asks' = 0
    /\ UNCHANGED <<pool, pushing, answer, work, kick, driverVars, settler,
                   watch, unseen, resume>>

\* drain: the decided watch is updated
Publish ==
    /\ watch # decided
    /\ watch' = decided
    /\ unseen' = TRUE
    /\ UNCHANGED <<pool, pushing, answer, work, kick, driverVars, settler,
                   decided, committed, paused, resume, asks>>

-----------------------------------------------------------------------------
Driver == DriverResume \/ DriverNeed \/ DriverLinger \/ DriverTake
          \/ DriverBuild \/ DriverBuildFails \/ DriverRestage \/ DriverMark
Settler == SettlerWake \/ SettlerSuperseded \/ SettleInflight
           \/ SettleInflightFails \/ SettleRepool \/ SettleQueued
           \/ SettleQueuedFails
DecideSome == \E S \in SUBSET Nonces : Decide(S)

Next ==
    \/ \E w \in Waiters : PushInflight(w) \/ PushQueued(w) \/ StageForSettle(w)
    \/ Driver
    \/ Settler
    \/ ShellResume \/ ShellNeedValue \/ DecideSome \/ Publish

\* The tasks run on their own runtime and always make progress; a running
\* height always decides.  Nothing obliges an idle mesh to decide anything.
Fairness ==
    /\ WF_vars(Driver) /\ WF_vars(Settler)
    /\ WF_vars(ShellResume) /\ WF_vars(Publish)
    /\ WF_vars(~paused /\ DecideSome)

Spec == Init /\ [][Next]_vars
FairSpec == Spec /\ Fairness
-----------------------------------------------------------------------------
(* Properties *)

\* Type correctness of the pool, its tasks and the shell.
TypeOK ==
    /\ pool \subseteq Entry
    /\ pushing \in [Waiters -> {"new", "checked", "in"}]
    /\ answer \in [Waiters -> {"none", "Committed", "Rejected", "Failed"}]
    /\ work \in BOOLEAN /\ kick \in BOOLEAN
    /\ driver \in [pc : {"idle", "linger", "take", "build", "restage", "mark"},
                   height : 0 .. MaxHeight]
    /\ needs \in [1 .. MaxHeight -> Nat]
    /\ settler \in [pc : {"idle", "inflight", "repool", "queued"},
                    height : 0 .. MaxHeight]
    /\ decided \in 0 .. MaxHeight
    /\ committed \in [Nonces -> 0 .. MaxHeight]
    /\ watch \in 0 .. MaxHeight
    /\ unseen \in BOOLEAN /\ paused \in BOOLEAN /\ resume \in BOOLEAN
    /\ asks \in Nat

\* No submitter is ever lost or answered twice: every submission that has
\* been pushed is held by exactly one entry, until it is answered, and is then
\* held by none (push, take_for_proposal, restage, mark_inflight and settle
\* hand the notifiers from vector to vector without dropping or copying one).
Conservation ==
    /\ \A e, f \in pool : e # f => e.waiters \cap f.waiters = {}
    /\ \A w \in Waiters : w \in WaitersOf(pool)
                           <=> pushing[w] = "in" /\ answer[w] = "none"

\* A submitter told Committed has its transaction applied on this node
\* (ConsensusResult::Committed: "Decided AND applied on THIS node").
CommittedIsApplied ==
    \A w \in Waiters : answer[w] = "Committed" => IsCommitted(NonceOf[w])

\* Submission w sits in flight at a height that has passed, and no settle is
\* running or due to look at it.
Stranded(w) ==
    /\ \E e \in At("inflight") : w \in e.waiters /\ e.at <= decided
    /\ settler.pc = "idle" /\ ~unseen /\ ~kick /\ watch = decided

Answered(w) == answer[w] # "none"
OutOfHeights == decided = MaxHeight

\* An entry whose proposal height has passed without committing goes back to
\* staging for a retry (settle), so that its submitter is answered or heights
\* keep deciding.
LostRoundsAreRetried ==
    \A w \in Waiters : pushing[w] = "in" ~> (Answered(w) \/ OutOfHeights)

\* No wake-up is lost: staged work always keeps heights deciding until all of
\* it is answered, except for entries marked in flight after their own height
\* was settled.
Waiting == {w \in Waiters : pushing[w] = "in" /\ ~Answered(w)}
Served == OutOfHeights \/ \A w \in Waiting : Stranded(w)
NoLostWake == Waiting # {} ~> Served
=============================================================================
