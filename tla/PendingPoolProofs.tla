------------------------- MODULE PendingPoolProofs -------------------------
(***************************************************************************)
(* Proofs about PendingPool, for every set of submissions and nonces and   *)
(* every bound: no submitter is lost or answered twice, and no submitter   *)
(* is told Committed before its transaction is applied on this node.  And  *)
(* about the sync that brings a lagging node up (SyncLoop), for any number *)
(* of peers: one that ends well has reached every tip its peers had when   *)
(* it began.                                                               *)
(***************************************************************************)
EXTENDS PendingPool, SyncLoop, TLAPS

\* An entry's waiters all submitted the entry's nonce
NoncesMatch(P) == \A e \in P : \A w \in e.waiters : NonceOf[w] = e.nonce

Disjoint(P) == \A e, f \in P : e # f => e.waiters \cap f.waiters = {}

\* Only a submission that was pushed is answered
NotYetPushed == \A w \in Waiters : pushing[w] # "in" => answer[w] = "none"

\* The inductive invariant.  Conservation needs NotYetPushed; that a Committed
\* answer is true needs entries to keep the nonce of their waiters.
IInv ==
    /\ TypeOK
    /\ Conservation
    /\ CommittedIsApplied
    /\ NoncesMatch(pool)
    /\ NotYetPushed
    /\ driver.pc # "idle" => driver.height >= 1

\* The part of it about the entries and the submitters
PoolOK == /\ pool \subseteq Entry
          /\ Conservation
          /\ CommittedIsApplied
          /\ NoncesMatch(pool)
          /\ NotYetPushed

\* TypeOK in three parts: the flags, the entries, and everything else
Flags == /\ work \in BOOLEAN /\ kick \in BOOLEAN
         /\ unseen \in BOOLEAN /\ paused \in BOOLEAN /\ resume \in BOOLEAN
Others ==
    /\ pushing \in [Waiters -> {"new", "checked", "in"}]
    /\ answer \in [Waiters -> {"none", "Committed", "Rejected", "Failed"}]
    /\ driver \in [pc : {"idle", "linger", "take", "build", "restage", "mark"},
                   height : 0 .. MaxHeight]
    /\ needs \in [1 .. MaxHeight -> Nat]
    /\ settler \in [pc : {"idle", "inflight", "repool", "queued"},
                    height : 0 .. MaxHeight]
    /\ decided \in 0 .. MaxHeight
    /\ committed \in [Nonces -> 0 .. MaxHeight]
    /\ watch \in 0 .. MaxHeight
    /\ asks \in Nat
    /\ driver.pc # "idle" => driver.height >= 1

LEMMA TypeParts ==
    (TypeOK /\ (driver.pc # "idle" => driver.height >= 1))
      <=> (pool \subseteq Entry /\ Flags /\ Others)
  BY Zenon DEF TypeOK, Flags, Others

-----------------------------------------------------------------------------
\* Relabelling entries (changing place, attempts or height, never waiters or
\* nonce) keeps them disjoint and keeps every waiter.
LEMMA Relabel ==
    ASSUME NEW D, D \subseteq Entry, Disjoint(D), NoncesMatch(D),
           NEW g \in [D -> Entry],
           \A e \in D : g[e].waiters = e.waiters /\ g[e].nonce = e.nonce,
           NEW Q, Q = {g[e] : e \in D}
    PROVE  /\ Q \subseteq Entry
           /\ Disjoint(Q)
           /\ NoncesMatch(Q)
           /\ WaitersOf(Q) = WaitersOf(D)
  <1>1. Q \subseteq Entry
    OBVIOUS
  <1>2. Disjoint(Q)
    <2> SUFFICES ASSUME NEW a \in D, NEW b \in D, g[a] # g[b]
                 PROVE  g[a].waiters \cap g[b].waiters = {}
      BY DEF Disjoint
    <2>1. a # b
      OBVIOUS
    <2> QED
      BY <2>1 DEF Disjoint
  <1>3. NoncesMatch(Q)
    BY DEF NoncesMatch
  <1>4. WaitersOf(Q) = WaitersOf(D)
    BY DEF WaitersOf
  <1> QED
    BY <1>1, <1>2, <1>3, <1>4

\* Removing the entries of a disjoint pool that are not in D removes exactly
\* the waiters of those entries.
LEMMA Split ==
    ASSUME NEW P, Disjoint(P), NEW D \in SUBSET P, NEW w
    PROVE  w \in WaitersOf(D) <=> w \in WaitersOf(P) /\ w \notin WaitersOf(P \ D)
  <1>1. ASSUME w \in WaitersOf(D) PROVE w \in WaitersOf(P) /\ w \notin WaitersOf(P \ D)
    BY <1>1 DEF WaitersOf, Disjoint
  <1>2. ASSUME w \in WaitersOf(P), w \notin WaitersOf(P \ D) PROVE w \in WaitersOf(D)
    BY <1>2 DEF WaitersOf
  <1> QED
    BY <1>1, <1>2

-----------------------------------------------------------------------------
LEMMA InitIInv == Init => IInv
  <1> SUFFICES ASSUME Init PROVE IInv
    OBVIOUS
  <1>1. TypeOK
    <2>1. pool \subseteq Entry
      BY DEF Init
    <2>2. Flags
      BY Zenon DEF Init, Flags
    <2>3. Others
      BY PoolAssumption DEF Init, Others, Idle
    <2> QED
      BY <2>1, <2>2, <2>3, TypeParts
  <1>2. Conservation
    BY DEF Init, Conservation, WaitersOf
  <1>3. CommittedIsApplied
    BY DEF Init, CommittedIsApplied
  <1>4. NoncesMatch(pool) /\ NotYetPushed /\ driver.pc = "idle"
    BY DEF Init, NoncesMatch, NotYetPushed, Idle
  <1> QED
    BY <1>1, <1>2, <1>3, <1>4 DEF IInv

\* What the pool's part of the invariant needs of a step: the pool is a
\* relabelling of some of its entries, the waiters of the others are answered,
\* and Committed is only sent to waiters of committed nonces.
LEMMA PoolStep ==
    ASSUME IInv, UNCHANGED pushing,
           NEW D \in SUBSET pool,
           NEW g \in [D -> Entry],
           \A e \in D : g[e].waiters = e.waiters /\ g[e].nonce = e.nonce,
           pool' = {g[e] : e \in D},
           \A w \in Waiters : w \in WaitersOf(pool \ D) => answer'[w] # "none",
           \A w \in Waiters : w \notin WaitersOf(pool \ D) => answer'[w] = answer[w],
           \A e \in pool \ D : \A w \in e.waiters :
               answer'[w] = "Committed" => IsCommitted(e.nonce),
           UNCHANGED committed
    PROVE  PoolOK'
  <1> USE DEF IInv
  <1>1. D \subseteq Entry /\ Disjoint(D) /\ NoncesMatch(D) /\ Disjoint(pool)
    BY DEF TypeOK, Conservation, Disjoint, NoncesMatch
  <1>2. /\ pool' \subseteq Entry
        /\ Disjoint(pool')
        /\ NoncesMatch(pool')
        /\ WaitersOf(pool') = WaitersOf(D)
    BY <1>1, Relabel
  <1>3. \A w : w \in WaitersOf(D) <=> w \in WaitersOf(pool) /\ w \notin WaitersOf(pool \ D)
    BY Zenon, <1>1, Split
  <1>4. NoncesMatch(pool)'
    BY <1>2 DEF NoncesMatch
  <1>5. Conservation'
    <2>1. \A e, f \in pool' : e # f => e.waiters \cap f.waiters = {}
      BY <1>2 DEF Disjoint
    <2>2. ASSUME NEW w \in Waiters
          PROVE  w \in WaitersOf(pool') <=> pushing'[w] = "in" /\ answer'[w] = "none"
      BY Zenon, <1>2, <1>3 DEF Conservation
    <2> QED
      BY <2>1, <2>2 DEF Conservation, WaitersOf
  <1>6. CommittedIsApplied'
    <2> SUFFICES ASSUME NEW w \in Waiters, answer'[w] = "Committed"
                 PROVE  IsCommitted(NonceOf[w])
      BY DEF CommittedIsApplied, IsCommitted
    <2>1. CASE w \in WaitersOf(pool \ D)
      <3>1. PICK e \in pool \ D : w \in e.waiters
        BY <2>1 DEF WaitersOf
      <3> QED
        BY <3>1 DEF NoncesMatch
    <2>2. CASE w \notin WaitersOf(pool \ D)
      BY Zenon, <2>2 DEF CommittedIsApplied
    <2> QED
      BY <2>1, <2>2
  <1>7. NotYetPushed'
    <2> SUFFICES ASSUME NEW w \in Waiters, pushing[w] # "in" PROVE answer'[w] = "none"
      BY DEF NotYetPushed
    <2>1. w \notin WaitersOf(pool \ D)
      BY DEF Conservation, WaitersOf
    <2> QED
      BY Zenon, <2>1 DEF NotYetPushed
  <1> QED
    BY <1>2, <1>4, <1>5, <1>6, <1>7 DEF PoolOK

\* A step that leaves the pool, the pushes and the answers alone and commits
\* nothing back keeps the pool's part of the invariant.
LEMMA PoolStutter ==
    ASSUME IInv, UNCHANGED <<pool, pushing, answer>>,
           \A n \in Nonces : IsCommitted(n) => IsCommitted(n)'
    PROVE  PoolOK'
  <1> USE DEF IInv
  <1>1. Conservation' /\ NoncesMatch(pool)'
    BY DEF Conservation, NoncesMatch, WaitersOf
  <1>2. CommittedIsApplied'
    BY PoolAssumption DEF CommittedIsApplied
  <1>3. pool' \subseteq Entry /\ NotYetPushed'
    BY DEF TypeOK, NotYetPushed
  <1> QED
    BY <1>1, <1>2, <1>3 DEF PoolOK

\* One step of a push: a new entry for w, or w joining an entry of its nonce.
LEMMA PushStep ==
    ASSUME IInv, NEW w \in Waiters, pushing[w] # "in",
           pushing' = [pushing EXCEPT ![w] = "in"],
           \/ pool' = pool \cup {NewEntry(w)}
           \/ \E e \in pool : e.nonce = NonceOf[w] /\ pool' = Join(e, w),
           UNCHANGED <<answer, committed>>
    PROVE  PoolOK'
  <1> USE DEF IInv
  <1>0. answer[w] = "none" /\ NotYetPushed'
    BY DEF NotYetPushed, TypeOK
  <1>1. w \notin WaitersOf(pool)
    BY DEF Conservation
  <1>2. CommittedIsApplied'
    BY DEF CommittedIsApplied, IsCommitted
  <1>3. CASE pool' = pool \cup {NewEntry(w)}
    <2> DEFINE n == NewEntry(w)
    <2>0. n.waiters = {w} /\ n.nonce = NonceOf[w] /\ pool' = pool \cup {n}
      BY <1>3 DEF NewEntry
    <2>5. n \in Entry
      BY PoolAssumption DEF NewEntry, Entry, Places
    <2> HIDE DEF n
    <2>1. NoncesMatch(pool)'
      BY <2>0 DEF NoncesMatch
    <2>2. \A e, f \in pool' : e # f => e.waiters \cap f.waiters = {}
      BY <1>1, <2>0 DEF Conservation, WaitersOf
    <2>3. WaitersOf(pool)' = WaitersOf(pool) \cup {w}
      BY <2>0 DEF WaitersOf
    <2>4. \A x \in Waiters : x \in WaitersOf(pool)' <=> pushing'[x] = "in" /\ answer'[x] = "none"
      BY <1>0, <2>3 DEF Conservation, TypeOK
    <2>6. pool' \subseteq Entry
      BY <2>0, <2>5 DEF TypeOK
    <2> QED
      BY <1>0, <1>2, <2>1, <2>2, <2>4, <2>6 DEF Conservation, PoolOK
  <1>4. ASSUME NEW e \in pool, e.nonce = NonceOf[w], pool' = Join(e, w)
        PROVE  pool' \subseteq Entry /\ Conservation' /\ NoncesMatch(pool)'
    <2> DEFINE j == [e EXCEPT !.waiters = @ \cup {w}]
    <2>0. e \in Entry
      BY DEF TypeOK
    <2>1. j.waiters = e.waiters \cup {w} /\ j.nonce = e.nonce
      BY <2>0 DEF Entry
    <2>2. pool' = (pool \ {e}) \cup {j}
      BY <1>4 DEF Join
    <2>7. j \in Entry
      BY <2>0 DEF Entry
    <2> HIDE DEF j
    <2>3. NoncesMatch(pool)'
      BY <1>4, <2>1, <2>2 DEF NoncesMatch
    <2>4. \A a, b \in pool' : a # b => a.waiters \cap b.waiters = {}
      BY <1>1, <2>1, <2>2 DEF Conservation, WaitersOf
    <2>5. WaitersOf(pool)' = WaitersOf(pool) \cup {w}
      BY <2>1, <2>2 DEF WaitersOf
    <2>6. \A x \in Waiters : x \in WaitersOf(pool)' <=> pushing'[x] = "in" /\ answer'[x] = "none"
      BY <1>0, <2>5 DEF Conservation, TypeOK
    <2>8. pool' \subseteq Entry
      BY <2>2, <2>7 DEF TypeOK
    <2> QED
      BY <2>3, <2>4, <2>6, <2>8 DEF Conservation
  <1> QED
    BY <1>0, <1>2, <1>3, <1>4 DEF PoolOK

-----------------------------------------------------------------------------
\* Every step keeps the flags Boolean.
LEMMA FlagsStep == ASSUME Flags, Next PROVE Flags'
  <1> USE DEF Flags, driverVars, engineVars
  <1>1. ASSUME NEW w \in Waiters, PushInflight(w) PROVE Flags'
    BY <1>1, Zenon DEF PushInflight
  <1>2. ASSUME NEW w \in Waiters, PushQueued(w) PROVE Flags'
    BY <1>2, Zenon DEF PushQueued
  <1>3. ASSUME NEW w \in Waiters, StageForSettle(w) PROVE Flags'
    BY <1>3, Zenon DEF StageForSettle
  <1>4. CASE Driver
    BY <1>4, Zenon DEF Driver, DriverResume, DriverNeed, DriverLinger, DriverTake, DriverBuild,
                       DriverBuildFails, DriverRestage, DriverMark
  <1>5. CASE Settler
    BY <1>5, Zenon DEF Settler, SettlerWake, SettlerSuperseded, SettleInflight,
                       SettleInflightFails, SettleRepool, SettleQueued, SettleQueuedFails
  <1>6. CASE ShellResume \/ ShellNeedValue \/ Publish
    BY <1>6, ZenonT(60) DEF ShellResume, ShellNeedValue, Publish
  <1>7. ASSUME NEW S \in SUBSET Nonces, Decide(S) PROVE Flags'
    BY <1>7, Zenon DEF Decide
  <1> QED
    BY <1>1, <1>2, <1>3, <1>4, <1>5, <1>6, <1>7, Zenon DEF Next, DecideSome

\* Every step keeps the types of what is neither a flag nor an entry.
LEMMA OthersStep == ASSUME Others, Next PROVE Others'
  <1> USE PoolAssumption DEF Others, driverVars, engineVars
  <1>1. ASSUME NEW w \in Waiters, PushInflight(w) PROVE Others'
    BY Zenon, <1>1 DEF PushInflight
  <1>2. ASSUME NEW w \in Waiters, PushQueued(w) PROVE Others'
    BY <1>2 DEF PushQueued
  <1>3. ASSUME NEW w \in Waiters, StageForSettle(w) PROVE Others'
    BY <1>3 DEF StageForSettle
  <1>4. CASE DriverResume
    BY <1>4 DEF DriverResume
  <1>5. CASE DriverNeed
    BY <1>5 DEF DriverNeed
  <1>6. CASE DriverTake \/ DriverLinger
    BY Zenon, <1>6 DEF DriverTake, DriverLinger
  <1>7. CASE DriverBuild
    <2>1. /\ driver.pc = "build" /\ driver' = [driver EXCEPT !.pc = "restage"]
          /\ UNCHANGED <<pushing, needs, settler, decided, committed, watch, asks>>
      BY <1>7, Zenon DEF DriverBuild
    <2>2. PICK v : Resolve(v)
      BY <1>7, Zenon DEF DriverBuild
    <2>3. \A w \in Waiters : answer'[w] \in {"Committed", "Rejected", "Failed", answer[w]}
      BY <2>2, Zenon DEF Resolve
    <2>4. answer' = [w \in Waiters |-> answer'[w]] 
      BY <2>2, Zenon DEF Resolve
    <2>7. answer' \in [Waiters -> {"none", "Committed", "Rejected", "Failed"}]
      BY <2>3, <2>4
    <2> QED
      BY Zenon, <2>1, <2>7
  <1>8. CASE DriverBuildFails
    BY <1>8 DEF DriverBuildFails, Idle
  <1>9. CASE DriverRestage
    BY Zenon, <1>9 DEF DriverRestage
  <1>10. CASE DriverMark
    <2>1. /\ driver' = Idle
          /\ UNCHANGED <<pushing, answer, needs, settler, decided, committed,
                         watch, asks>>
      BY <1>10, Zenon DEF DriverMark
    <2> QED
      BY <2>1 DEF Idle
  <1>11. CASE SettlerWake
    BY <1>11 DEF SettlerWake
  <1>12. CASE SettlerSuperseded
    BY <1>12 DEF SettlerSuperseded, Idle
  <1>13. CASE SettleInflight
    BY Zenon, <1>13 DEF SettleInflight, Send
  <1>14. CASE SettleInflightFails
    BY <1>14 DEF SettleInflightFails, Idle
  <1>15. CASE SettleRepool
    BY <1>15 DEF SettleRepool
  <1>16. CASE SettleQueued
    BY <1>16 DEF SettleQueued, Send, Idle
  <1>17. CASE SettleQueuedFails
    BY <1>17 DEF SettleQueuedFails, Idle
  <1>18. CASE ShellResume
    BY <1>18 DEF ShellResume
  <1>19. CASE ShellNeedValue
    BY <1>19 DEF ShellNeedValue
  <1>20. ASSUME NEW S \in SUBSET Nonces, Decide(S) PROVE Others'
    BY <1>20 DEF Decide
  <1>21. CASE Publish
    BY <1>21 DEF Publish
  <1> QED
    BY Zenon, <1>1, <1>2, <1>3, <1>4, <1>5, <1>6, <1>7, <1>8, <1>9, <1>10, <1>11, <1>12,
       <1>13, <1>14, <1>15, <1>16, <1>17, <1>18, <1>19, <1>20, <1>21
    DEF Next, Driver, Settler, DecideSome

-----------------------------------------------------------------------------
\* What a field update does to an entry.
LEMMA Placed ==
    ASSUME NEW e \in Entry, NEW p \in Places
    PROVE  LET f == [e EXCEPT !.place = p]
           IN  f \in Entry /\ f.waiters = e.waiters /\ f.nonce = e.nonce
  BY DEF Entry

LEMMA PlacedAt ==
    ASSUME NEW e \in Entry, NEW p \in Places, NEW h \in 0 .. MaxHeight
    PROVE  LET f == [e EXCEPT !.place = p, !.at = h]
           IN  f \in Entry /\ f.waiters = e.waiters /\ f.nonce = e.nonce
  BY Zenon DEF Entry

\* Moving entries to another place, as take_for_proposal, restage and the
\* repooling in settle do.
LEMMA MoveStep ==
    ASSUME IInv, NEW S \in SUBSET pool, NEW p \in Places, pool' = Move(S, p),
           UNCHANGED <<pushing, answer, committed>>
    PROVE  PoolOK'
  <1> DEFINE g == [e \in pool |-> IF e \in S THEN [e EXCEPT !.place = p] ELSE e]
  <1>0. pool \subseteq Entry
    BY DEF IInv, TypeOK
  <1>1. /\ g \in [pool -> Entry]
        /\ \A e \in pool : g[e].waiters = e.waiters /\ g[e].nonce = e.nonce
    BY <1>0, Placed
  <1>2. pool' = {g[e] : e \in pool}
    BY Zenon DEF Move
  <1> HIDE DEF g
  <1>3. WaitersOf(pool \ pool) = {}
    BY DEF WaitersOf
  <1> QED
    BY <1>1, <1>2, <1>3, PoolStep

-----------------------------------------------------------------------------
(* The actions that answer waiters or relabel more than the place *)

LEMMA BuildStep == ASSUME IInv, DriverBuild PROVE PoolOK'
  <1>0. pool \subseteq Entry /\ driver.pc # "idle"
    BY Zenon DEF IInv, TypeOK, DriverBuild
  <1>1. PICK v : Preflight(v) /\ Resolve(v)
    BY Zenon DEF DriverBuild
  <1>2. UNCHANGED <<pushing, committed>>
    BY Zenon DEF DriverBuild, engineVars
  <1> DEFINE T == At("ticket")
             gone == Of(v, "committed") \cup Of(v, "reject") \cup Spent(v)
             retried == Of(v, "transient") \ Spent(v)
             D == pool \ gone
             g == [e \in D |-> IF e \in Of(v, "include") THEN [e EXCEPT !.place = "include"]
                               ELSE IF e \in Of(v, "defer") THEN [e EXCEPT !.place = "restage"]
                               ELSE IF e \in retried THEN Retried(e)
                               ELSE e]
  <1>3. \A e \in T : v[e] \in {"committed", "reject", "include", "defer", "transient"}
    BY <1>1, Zenon DEF Preflight, Verdicts
  <1>4. \A e \in pool : e \in retried =>
            /\ Retried(e) \in Entry
            /\ Retried(e).waiters = e.waiters /\ Retried(e).nonce = e.nonce
    <2> SUFFICES ASSUME NEW e \in Entry, e \in retried
                 PROVE  /\ Retried(e) \in Entry
                        /\ Retried(e).waiters = e.waiters /\ Retried(e).nonce = e.nonce
      BY <1>0
    <2>1. e.attempts # MaxRestages
      BY DEF Spent
    <2>2. e.attempts + 1 \in 0 .. MaxRestages
      BY <2>1, PoolAssumption DEF Entry
    <2> QED
      BY Zenon, <2>2 DEF Entry, Retried, Places
  <1>5. /\ g \in [D -> Entry]
        /\ \A e \in D : g[e].waiters = e.waiters /\ g[e].nonce = e.nonce
    <2> HIDE DEF retried, gone
    <2>1. "include" \in Places /\ "restage" \in Places
      BY DEF Places
    <2> QED
      BY <1>0, <1>4, <2>1, Placed
  <1>6. pool' = {g[e] : e \in D}
    <2>1. pool' = (pool \ T)
                  \cup {[e EXCEPT !.place = "include"] : e \in Of(v, "include")}
                  \cup {[e EXCEPT !.place = "restage"] : e \in Of(v, "defer")}
                  \cup {Retried(e) : e \in retried}
      BY <1>1, Zenon DEF Resolve
    <2>2. /\ Of(v, "include") \subseteq D /\ Of(v, "defer") \subseteq D
          /\ retried \subseteq D /\ pool \ T \subseteq D
      BY DEF Of, Spent, At
    <2>3. /\ Of(v, "include") \cap Of(v, "defer") = {}
          /\ Of(v, "include") \cap retried = {} /\ Of(v, "defer") \cap retried = {}
          /\ \A e \in pool \ T : e \notin Of(v, "include") /\ e \notin Of(v, "defer")
                                /\ e \notin retried
      BY DEF Of, Spent
    <2>4. \A e \in D : \/ e \in Of(v, "include") \/ e \in Of(v, "defer")
                       \/ e \in retried \/ e \in pool \ T
      BY <1>3 DEF Of, Spent
    <2> HIDE DEF D, T, retried
    <2> QED
      BY <2>1, <2>2, <2>3, <2>4, Zenon
  <1>7. D \in SUBSET pool /\ pool \ D = gone
    BY DEF Of, Spent, At
  <1>8. answer' = [w \in Waiters |->
                    IF w \in WaitersOf(Of(v, "committed")) THEN "Committed"
                    ELSE IF w \in WaitersOf(Of(v, "reject")) THEN "Rejected"
                    ELSE IF w \in WaitersOf(Spent(v)) THEN "Failed"
                    ELSE answer[w]]
    BY <1>1, Zenon DEF Resolve
  <1>9. \A w : w \in WaitersOf(gone) <=> \/ w \in WaitersOf(Of(v, "committed"))
                                         \/ w \in WaitersOf(Of(v, "reject"))
                                         \/ w \in WaitersOf(Spent(v))
    BY DEF WaitersOf
  <1>10. \A e \in gone : \A w \in e.waiters \cap Waiters :
            answer'[w] = "Committed" => IsCommitted(e.nonce)
    <2> SUFFICES ASSUME NEW e \in gone, NEW w \in Waiters, w \in e.waiters,
                        answer'[w] = "Committed"
                 PROVE  IsCommitted(e.nonce)
      OBVIOUS
    <2>1. e \in pool /\ Disjoint(pool) /\ answer[w] = "none"
      BY <1>7 DEF IInv, Conservation, Disjoint, WaitersOf
    <2>2. w \in WaitersOf(Of(v, "committed"))
      BY <1>8, <2>1
    <2>3. PICK f \in Of(v, "committed") : w \in f.waiters
      BY <2>2 DEF WaitersOf
    <2>4. f \in pool /\ f \in T /\ v[f] = "committed"
      BY <2>3 DEF Of, At
    <2>5. f = e
      BY <2>1, <2>3, <2>4 DEF Disjoint
    <2> QED
      BY <1>1, <2>4, <2>5, Zenon DEF Preflight, Verdicts
  <1> HIDE DEF g, D, gone, retried, T
  <1>11. \A e \in pool \ D : e.waiters \subseteq Waiters
    BY SMTT(60), <1>0 DEF Entry
  <1> QED
    BY ZenonT(60), <1>2, <1>5, <1>6, <1>7, <1>8, <1>9, <1>10, <1>11, PoolStep

LEMMA MarkStep == ASSUME IInv, DriverMark PROVE PoolOK'
  <1> DEFINE h == driver.height
             g == [e \in pool |-> IF e \in At("include")
                                  THEN [e EXCEPT !.place = "inflight", !.at = h] ELSE e]
  <1>0. pool \subseteq Entry /\ h \in 0 .. MaxHeight
    BY DEF IInv, TypeOK
  <1>1. /\ pool' = (pool \ At("include"))
                   \cup {[e EXCEPT !.place = "inflight", !.at = h] : e \in At("include")}
        /\ UNCHANGED <<pushing, answer, committed>>
    BY Zenon DEF DriverMark, engineVars
  <1>2. At("include") \subseteq pool
    BY DEF At
  <1> HIDE DEF h
  <1>3. pool' = {g[e] : e \in pool}
    BY <1>1, <1>2, ZenonT(60)
  <1>4. \A e \in Entry : LET f == [e EXCEPT !.place = "inflight", !.at = h]
                         IN  f \in Entry /\ f.waiters = e.waiters /\ f.nonce = e.nonce
    <2>1. "inflight" \in Places
      BY DEF Places
    <2> QED
      BY ZenonT(60), <1>0, <2>1, PlacedAt
  <1>5. /\ g \in [pool -> Entry]
        /\ \A e \in pool : g[e].waiters = e.waiters /\ g[e].nonce = e.nonce
    BY Zenon, <1>0, <1>4
  <1> HIDE DEF g
  <1>6. WaitersOf(pool \ pool) = {}
    BY SMTT(60) DEF WaitersOf
  <1> QED
    BY Zenon, <1>1, <1>3, <1>5, <1>6, PoolStep

LEMMA InflightStep == ASSUME IInv, SettleInflight PROVE PoolOK'
  <1> DEFINE done == {e \in At("inflight") : IsCommitted(e.nonce)}
             lost == {e \in At("inflight") \ done : e.at <= settler.height}
             D == pool \ done
             g == [e \in D |-> IF e \in lost THEN [e EXCEPT !.place = "repool", !.at = 0]
                               ELSE e]
  <1>0. pool \subseteq Entry
    BY DEF IInv, TypeOK
  <1>1. /\ pool' = (pool \ (done \cup lost))
                   \cup {[e EXCEPT !.place = "repool", !.at = 0] : e \in lost}
        /\ answer' = Send(done, "Committed")
        /\ UNCHANGED <<pushing, committed>>
    BY Zenon DEF SettleInflight, engineVars
  <1>2. lost \subseteq D /\ D \in SUBSET pool /\ pool \ D = done
    BY DEF At
  <1>3. \A e \in done : IsCommitted(e.nonce)
    BY SMTT(60)
  <1>4. \A e \in Entry : LET f == [e EXCEPT !.place = "repool", !.at = 0]
                         IN  f \in Entry /\ f.waiters = e.waiters /\ f.nonce = e.nonce
    <2>1. 0 \in 0 .. MaxHeight /\ "repool" \in Places
      BY SMTT(60), PoolAssumption DEF Places
    <2> QED
      BY ZenonT(60), <2>1, PlacedAt
  <1> HIDE DEF lost, done
  <1>5. /\ g \in [D -> Entry]
        /\ \A e \in D : g[e].waiters = e.waiters /\ g[e].nonce = e.nonce
    BY Zenon, <1>0, <1>4
  <1>6. pool' = {g[e] : e \in D}
    BY <1>1, <1>2, ZenonT(60)
  <1> HIDE DEF g, D
  <1> QED
    BY Zenon, <1>1, <1>2, <1>3, <1>5, <1>6, PoolStep DEF Send

LEMMA QueuedStep == ASSUME IInv, SettleQueued PROVE PoolOK'
  <1> DEFINE done == {e \in At("queued") : IsCommitted(e.nonce)}
             D == pool \ done
             g == [e \in D |-> e]
  <1>0. pool \subseteq Entry
    BY DEF IInv, TypeOK
  <1>1. /\ pool' = D
        /\ answer' = Send(done, "Committed")
        /\ UNCHANGED <<pushing, committed>>
    BY Zenon DEF SettleQueued, engineVars
  <1>2. D \in SUBSET pool /\ pool \ D = done
    BY DEF At
  <1>3. \A e \in done : IsCommitted(e.nonce)
    OBVIOUS
  <1> HIDE DEF done, D
  <1>4. /\ g \in [D -> Entry]
        /\ \A e \in D : g[e].waiters = e.waiters /\ g[e].nonce = e.nonce
    BY <1>0, <1>2
  <1>5. pool' = {g[e] : e \in D}
    BY <1>1, Zenon
  <1> HIDE DEF g
  <1> QED
    BY Zenon, <1>1, <1>2, <1>3, <1>4, <1>5, PoolStep DEF Send

-----------------------------------------------------------------------------
\* Every step keeps the entries and the submitters' answers in order.
LEMMA PoolOKStep == ASSUME IInv, Next PROVE PoolOK'
  <1> USE DEF driverVars, engineVars
  <1>0. /\ \A p : At(p) \subseteq pool
        /\ {"ticket", "queued"} \subseteq Places
        /\ UNCHANGED committed => \A n \in Nonces : IsCommitted(n) => IsCommitted(n)'
    BY DEF At, Places, IsCommitted
  <1>1. ASSUME NEW w \in Waiters, PushInflight(w) PROVE PoolOK'
    <2>1. CASE {e \in At("inflight") : e.nonce = NonceOf[w]} # {}
      <3>1. \E e \in pool : e.nonce = NonceOf[w] /\ pool' = Join(e, w)
        BY <1>0, <1>1, <2>1, Zenon DEF PushInflight
      <3>2. /\ pushing[w] # "in" /\ pushing' = [pushing EXCEPT ![w] = "in"]
            /\ UNCHANGED <<answer, committed>>
        BY <1>1, <2>1 DEF PushInflight
      <3> QED
        BY Zenon, <3>1, <3>2, PushStep
    <2>2. CASE {e \in At("inflight") : e.nonce = NonceOf[w]} = {}
      <3>1. /\ pushing[w] = "new" /\ pushing' = [pushing EXCEPT ![w] = "checked"]
            /\ UNCHANGED <<pool, answer, committed>>
        BY <1>1, <2>2 DEF PushInflight
      <3>2. \A x \in Waiters : pushing'[x] = "in" <=> pushing[x] = "in"
        BY <3>1 DEF IInv, TypeOK
      <3>3. Conservation'
        BY <3>1, <3>2 DEF IInv, Conservation, WaitersOf
      <3>4. NotYetPushed' /\ NoncesMatch(pool)' /\ CommittedIsApplied'
        BY <3>1, <3>2 DEF IInv, NotYetPushed, NoncesMatch, CommittedIsApplied, IsCommitted
      <3>5. pool' \subseteq Entry
        BY <3>1 DEF IInv, TypeOK
      <3> QED
        BY <3>3, <3>4, <3>5 DEF PoolOK
    <2> QED
      BY <2>1, <2>2
  <1>2. ASSUME NEW w \in Waiters, PushQueued(w) PROVE PoolOK'
    <2>1. \/ pool' = pool \cup {NewEntry(w)}
          \/ \E e \in pool : e.nonce = NonceOf[w] /\ pool' = Join(e, w)
      BY <1>0, <1>2, Zenon DEF PushQueued
    <2>2. /\ pushing[w] # "in" /\ pushing' = [pushing EXCEPT ![w] = "in"]
          /\ UNCHANGED <<answer, committed>>
      BY <1>2 DEF PushQueued
    <2> QED
      BY Zenon, <2>1, <2>2, PushStep
  <1>3. ASSUME NEW w \in Waiters, StageForSettle(w) PROVE PoolOK'
    <2>1. /\ pushing[w] # "in" /\ pushing' = [pushing EXCEPT ![w] = "in"]
          /\ pool' = pool \cup {NewEntry(w)}
          /\ UNCHANGED <<answer, committed>>
      BY <1>3 DEF StageForSettle
    <2> QED
      BY Zenon, <2>1, PushStep
  <1>4. CASE DriverResume \/ DriverNeed \/ DriverLinger
    BY Zenon, <1>0, <1>4, PoolStutter DEF DriverResume, DriverNeed, DriverLinger
  <1>5. CASE DriverTake
    <2>1. PICK S \in SUBSET At("queued") : pool' = Move(S, "ticket")
      BY <1>5, Zenon DEF DriverTake
    <2>2. UNCHANGED <<pushing, answer, committed>>
      BY <1>5 DEF DriverTake
    <2> QED
      BY <1>0, <2>1, <2>2, MoveStep
  <1>6. CASE DriverBuild
    BY <1>6, BuildStep
  <1>7. CASE DriverBuildFails \/ DriverRestage \/ SettleRepool
    BY <1>0, <1>7, MoveStep DEF DriverBuildFails, DriverRestage, SettleRepool
  <1>8. CASE DriverMark
    BY <1>8, MarkStep
  <1>9. CASE SettlerWake \/ SettlerSuperseded \/ SettleInflightFails \/ SettleQueuedFails
    BY <1>0, <1>9, PoolStutter, SMTT(30)
    DEF SettlerWake, SettlerSuperseded, SettleInflightFails, SettleQueuedFails
  <1>10. CASE SettleInflight
    BY <1>10, InflightStep
  <1>11. CASE SettleQueued
    BY <1>11, QueuedStep
  <1>12. CASE ShellResume \/ ShellNeedValue \/ Publish
    BY <1>0, <1>12, PoolStutter DEF ShellResume, ShellNeedValue, Publish
  <1>13. ASSUME NEW S \in SUBSET Nonces, Decide(S) PROVE PoolOK'
    <2>1. \A n \in Nonces : IsCommitted(n) => IsCommitted(n)'
      BY <1>13 DEF Decide, IsCommitted, IInv, TypeOK
    <2> QED
      BY <1>13, <2>1, PoolStutter DEF Decide
  <1> QED
    BY <1>1, <1>2, <1>3, <1>4, <1>5, <1>6, <1>7, <1>8, <1>9, <1>10, <1>11, <1>12,
       <1>13, Zenon
    DEF Next, Driver, Settler, DecideSome

LEMMA NextIInv == IInv /\ [Next]_vars => IInv'
  <1>1. ASSUME IInv, Next PROVE IInv'
    <2>1. Flags /\ Others
      BY <1>1, TypeParts DEF IInv
    <2>2. Flags' /\ Others'
      BY <1>1, <2>1, FlagsStep, OthersStep
    <2>3. PoolOK'
      BY <1>1, PoolOKStep
    <2>4. TypeOK' /\ (driver.pc # "idle" => driver.height >= 1)'
      BY <2>2, <2>3, Zenon DEF PoolOK, TypeOK, Flags, Others
    <2> QED
      BY <2>3, <2>4 DEF PoolOK, IInv
  <1>2. ASSUME IInv, UNCHANGED vars PROVE IInv'
    BY <1>2, ZenonT(60) DEF IInv, vars, TypeOK, Conservation, CommittedIsApplied, NoncesMatch,
         NotYetPushed, WaitersOf, IsCommitted
  <1> QED
    BY <1>1, <1>2

-----------------------------------------------------------------------------
\* The pool, its tasks and the shell keep their types in every reachable state.
THEOREM PoolTypeCorrect == Spec => []TypeOK
  <1>1. IInv => TypeOK
    BY DEF IInv
  <1> QED
    BY <1>1, InitIInv, NextIInv, PTL DEF Spec

\* Whatever the interleaving of pushes, proposals, settles and decides, every
\* pushed submission is held by exactly one entry until it is answered, and
\* is then held by none: the pool neither loses a submitter nor answers twice.
THEOREM SubmittersConserved == Spec => []Conservation
  <1>1. IInv => Conservation
    BY DEF IInv
  <1> QED
    BY <1>1, InitIInv, NextIInv, PTL DEF Spec

\* A submitter told Committed has its transaction applied on this node.
THEOREM CommittedAnswersTrue == Spec => []CommittedIsApplied
  <1>1. IInv => CommittedIsApplied
    BY DEF IInv
  <1> QED
    BY <1>1, InitIInv, NextIInv, PTL DEF Spec

-----------------------------------------------------------------------------
(* SyncLoop: a sync to the tip *)

SyncRecord == [pc : {"stopped", "top", "asked", "applying"}, target : Nat, order : Seq(Peers),
               cursor : Nat, failures : Nat, empty_answers : Nat, from : Nat, last_fed : Nat]

SyncTypes == /\ synced \in Nat /\ tip \in [Peers -> Nat] /\ sync \in SyncRecord

\* The last k peers asked, when the one at place c was the last of them
Lately(c, k) == {i \in Peers : (c - k < i /\ i <= c) \/ c - k + N < i}

\* The peers that had nothing since the last progress: where no peer failed
\* since then they are the ones asked last
Empties == IF sync.pc = "asked" THEN Lately(sync.cursor, sync.empty_answers + 1) \ {sync.cursor}
                                ELSE Lately(sync.cursor, sync.empty_answers)

\* Some peer had height h when the sync began, and if it has had nothing
\* since, h is reached.
Covered(h) == \E q \in Peers : h <= tip[q] /\ (q \in Empties => h <= synced)

\* A sync to the tip asks all peers in turn and counts each answer
InTurn ==
    /\ Len(sync.order) = N /\ (\A i \in Peers : sync.order[i] = i)
    /\ sync.cursor \in 0 .. N
    /\ sync.failures + sync.empty_answers <= N
    /\ sync.pc = "asked" => sync.cursor > 0 /\ sync.from <= synced + 1
    /\ sync.pc # "top" => sync.failures + sync.empty_answers < N
    /\ sync.pc \in {"top", "asked"} /\ sync.failures = 0 => \A h \in began : Covered(h)
    /\ \A h \in began : \E q \in Peers : h <= tip[q]

SyncInv ==
    /\ SyncTypes /\ TipReached /\ (\A h \in began : h \in Nat)
    /\ sync_inflight => /\ sync.target # Tip \/ sync.order = <<>> => began = {}
                        /\ sync.target = Tip /\ sync.order # <<>> => InTurn
                        /\ outcome = "none"

\* The fields of a sync
LEMMA SyncFields ==
    ASSUME SyncTypes
    PROVE  /\ sync.pc \in {"stopped", "top", "asked", "applying"} /\ sync.target \in Nat
           /\ sync.order \in Seq(Peers) /\ sync.cursor \in Nat /\ sync.failures \in Nat
           /\ sync.empty_answers \in Nat /\ sync.from \in Nat /\ sync.last_fed \in Nat
           /\ Len(sync.order) \in Nat
<1>1. sync \in SyncRecord
  BY DEF SyncTypes
<1>2. sync.order \in Seq(Peers)
  BY <1>1, Zenon DEF SyncRecord
<1> QED BY <1>1, <1>2 DEF SyncRecord

\* No sync runs.
LEMMA StoppedIs == Stopped \in SyncRecord /\ Stopped.pc = "stopped"
<1>1. Fresh(Tip, <<>>) \in SyncRecord
  BY DEF Fresh, Tip, None, SyncRecord
<1> QED BY <1>1, Zenon DEF Stopped, SyncRecord

\* Asking the next peer leaves the others that were asked lately.
LEMMA LatelyNext ==
    ASSUME NEW c \in 0 .. N, NEW k \in Nat, k < N,
           NEW d, d = IF c = N THEN 1 ELSE c + 1
    PROVE  Lately(d, k + 1) \ {d} = Lately(c, k)
<1>1. N \in Nat /\ Peers = 1 .. N
  BY SyncAssumption DEF Peers
<1>2. ASSUME NEW i \in 1 .. N
      PROVE  ((d - (k + 1) < i /\ i <= d) \/ d - (k + 1) + N < i) /\ i # d
              <=> (c - k < i /\ i <= c) \/ c - k + N < i
  <2>1. CASE c = N
    BY <1>1, <2>1
  <2>2. CASE c # N
    BY <1>1, <2>2
  <2> QED BY <2>1, <2>2
<1> QED BY <1>1, <1>2, Zenon DEF Lately

\* Heights only rise, which spoils nothing while the sync stands.
LEMMA SyncStands ==
    ASSUME SyncInv, sync' = sync, UNCHANGED <<began, outcome>>,
           synced' \in Nat, synced <= synced', tip' \in [Peers -> Nat],
           \A p \in Peers : tip[p] <= tip'[p]
    PROVE  SyncInv'
<1>1. SyncTypes' /\ (\A h \in began' : h \in Nat)
  BY DEF SyncInv, SyncTypes
<1>2. synced \in Nat /\ synced' \in Nat /\ (\A h \in began : h \in Nat)
      /\ \A p \in Peers : tip[p] \in Nat /\ tip'[p] \in Nat
  BY DEF SyncInv, SyncTypes
<1>3. \A h \in began : h <= synced => h <= synced'
  BY <1>2
<1>4. \A h \in began, p \in Peers : h <= tip[p] => h <= tip'[p]
  BY <1>2
<1>5. TipReached'
  BY <1>3, Zenon DEF SyncInv, TipReached, sync_inflight
<1>6. Empties' = Empties
  BY Zenon DEF Empties
<1>7. \A h \in began : Covered(h) => Covered(h)'
  BY <1>3, <1>4, <1>6, Zenon DEF Covered
<1>8. sync.from \in Nat
  BY SyncFields DEF SyncInv
<1>9. sync.from <= synced + 1 => sync.from <= synced' + 1
  BY <1>2, <1>8
<1>10. InTurn => InTurn'
  BY <1>4, <1>7, <1>9, Zenon DEF InTurn
<1> QED BY <1>1, <1>5, <1>10, Zenon DEF SyncInv, sync_inflight

\* A sync begins.
LEMMA SyncStarts ==
    ASSUME SyncInv, NEW target \in Nat, NEW hint \in Peers \cup {None}, Start(target, hint),
           target = Tip => hint = None
    PROVE  SyncInv'
<1>1. PICK order \in {<<>>, PeerOrder(hint)} :
        /\ sync' = Fresh(target, order)
        /\ began' = IF target = Tip THEN {tip[order[i]] : i \in DOMAIN order} ELSE {}
  BY Zenon DEF Start
<1>2. order \in Seq(Peers) /\ (target = Tip /\ order # <<>> => order = [i \in Peers |-> i])
  <2>1. N \in Nat /\ Peers = 1 .. N
    BY SyncAssumption DEF Peers
  <2>2. PeerOrder(hint) \in Seq(Peers)
    <3>1. \A i \in Peers :
            (IF hint = None \/ i > hint THEN i ELSE IF i = 1 THEN hint ELSE i - 1) \in Peers
      BY <2>1 DEF None
    <3> QED BY <3>1, <2>1 DEF PeerOrder
  <2>3. hint = None => PeerOrder(hint) = [i \in Peers |-> i]
    BY DEF PeerOrder
  <2>4. CASE order = <<>>
    BY <2>4
  <2>5. CASE order = PeerOrder(hint)
    BY <2>2, <2>3, <2>5, Zenon
  <2> QED BY <1>1, <2>4, <2>5
<1>3. sync' \in SyncRecord
  BY <1>1, <1>2 DEF Fresh, SyncRecord
<1>4. /\ sync'.pc = "top" /\ sync'.target = target /\ sync'.order = order
      /\ sync'.cursor = 0 /\ sync'.failures = 0 /\ sync'.empty_answers = 0
  BY <1>1 DEF Fresh
<1>5. UNCHANGED <<tip, synced>> /\ outcome' = "none"
  BY Zenon DEF Start
<1>6. SyncTypes' /\ TipReached'
  BY <1>3, <1>4, <1>5 DEF SyncInv, SyncTypes, TipReached, sync_inflight
<1>7. sync'.target # Tip \/ sync'.order = <<>> => began' = {}
  BY <1>1, <1>4
<1>8. ASSUME target = Tip, order # <<>>
      PROVE  InTurn' /\ (\A h \in began' : h \in Nat)
  <2>1. N \in Nat /\ Peers = 1 .. N /\ order = [i \in Peers |-> i]
    BY <1>2, <1>8, SyncAssumption DEF Peers
  <2>2. Len(order) = N /\ (\A i \in Peers : order[i] = i) /\ DOMAIN order = Peers
    BY <2>1
  <2>3. \A h \in began' : \E q \in Peers : h = tip[q]
    BY <1>1, <1>8, <2>2, Zenon
  <2>4. \A q \in Peers : tip[q] \in Nat /\ tip'[q] = tip[q]
    BY <1>5 DEF SyncInv, SyncTypes
  <2>5. \A h \in began' : h \in Nat /\ \E q \in Peers : h <= tip'[q]
    BY <2>3, <2>4
  <2>6. Empties' = {}
    <3>1. Empties' = Lately(0, 0)
      BY <1>4 DEF Empties
    <3> QED BY <3>1, <2>1 DEF Lately
  <2>7. \A h \in began' : Covered(h)'
    BY <2>5, <2>6, Zenon DEF Covered
  <2> QED BY <1>4, <2>1, <2>2, <2>5, <2>7 DEF InTurn
<1>9. \A h \in began' : h \in Nat
  BY <1>7, <1>4, <1>8
<1> QED BY <1>4, <1>5, <1>6, <1>7, <1>8, <1>9 DEF SyncInv

\* An answer or its absence: where the counts start again, or a failure is
\* counted, nothing is claimed of any peer.
LEMMA SyncCounts ==
    ASSUME SyncInv, sync_inflight, sync' \in SyncRecord, sync'.pc # "stopped",
           sync'.target = sync.target, sync'.order = sync.order, sync'.cursor = sync.cursor,
           UNCHANGED <<tip, synced, outcome, began>>, sync'.pc # "asked",
           InTurn => /\ sync'.failures + sync'.empty_answers <= N
                     /\ sync'.pc # "top" => sync'.failures + sync'.empty_answers < N,
           \/ sync'.pc = "applying" \/ sync'.failures > 0 \/ sync'.empty_answers = 0
    PROVE  SyncInv'
<1>1. SyncTypes' /\ TipReached' /\ sync_inflight'
  BY SMTT(30) DEF SyncInv, SyncTypes, TipReached, sync_inflight
<1>2. ASSUME InTurn PROVE InTurn'
  <2>1. sync'.failures \in Nat
    BY DEF SyncRecord
  <2>2. ASSUME sync'.pc \in {"top", "asked"}, sync'.failures = 0
        PROVE  \A h \in began' : Covered(h)'
    <3>1. Empties' = Lately(sync.cursor, 0)'
      BY <2>2 DEF Empties
    <3>2. N \in Nat /\ sync.cursor \in 0 .. N
      BY <1>2, SyncAssumption DEF InTurn
    <3>3. Empties' = {}
      BY <3>1, <3>2 DEF Lately, Peers
    <3> QED BY <1>2, <3>3, Zenon DEF Covered, InTurn
  <2> QED BY <1>2, <2>2 DEF InTurn
<1> QED BY <1>1, <1>2, Zenon DEF SyncInv

\* A sync ends: the count of empty answers covers every peer.
LEMMA SyncReturns ==
    ASSUME SyncInv, Return
    PROVE  SyncInv'
<1>1. sync_inflight /\ SyncTypes
  BY DEF Return, SyncInv, sync_inflight
<1>2. sync' = Stopped /\ UNCHANGED <<tip, synced>>
      /\ began' = IF outcome' = "ok" THEN began ELSE {}
  BY DEF Return, Finish
<1>3. sync' \in SyncRecord /\ sync'.pc = "stopped"
  BY <1>2, StoppedIs
<1>4. SyncTypes' /\ (\A h \in began' : h \in Nat)
  BY <1>2, <1>3 DEF SyncTypes, SyncInv
<1>5. ASSUME outcome' = "ok" PROVE \A h \in began : h <= synced
  <2>1. CASE sync.target # Tip \/ sync.order = <<>>
    BY <1>1, <2>1 DEF SyncInv
  <2>2. CASE sync.target = Tip /\ sync.order # <<>>
    <3>1. InTurn
      BY <1>1, <2>2 DEF SyncInv
    <3>2. sync.empty_answers >= Len(sync.order)
      BY <1>1, <1>5, <2>2, SyncFields DEF Return, Finish, Reached, EveryoneEmpty, Exhausted
    <3>3. /\ N \in Nat /\ sync.cursor \in 0 .. N /\ sync.failures \in Nat
          /\ sync.empty_answers \in Nat /\ Len(sync.order) = N
          /\ sync.failures + sync.empty_answers <= N
      BY <1>1, <3>1, SyncFields, SyncAssumption DEF InTurn
    <3>4. sync.failures = 0 /\ sync.empty_answers = N
      BY <3>2, <3>3
    <3>5. sync.pc = "top"
      BY DEF Return
    <3>6. Empties = Peers
      BY <3>3, <3>4, <3>5 DEF Empties, Lately, Peers
    <3>7. \A h \in began : Covered(h)
      BY <3>1, <3>4, <3>5 DEF InTurn
    <3> QED BY <3>6, <3>7, Zenon DEF Covered
  <2> QED BY <2>1, <2>2
<1>6. TipReached'
  BY <1>2, <1>5 DEF TipReached
<1> QED BY <1>3, <1>4, <1>6 DEF SyncInv, sync_inflight

\* The next peer is asked; it joins those asked lately.
LEMMA SyncAsks ==
    ASSUME SyncInv, Ask
    PROVE  SyncInv'
<1>1. sync_inflight /\ SyncTypes /\ sync.pc = "top" /\ ~Exhausted
  BY DEF Ask, SyncInv, sync_inflight
<1> DEFINE c == IF sync.cursor = Len(sync.order) THEN 1 ELSE sync.cursor + 1
<1>2. c \in Nat /\ synced + 1 \in Nat
  BY <1>1, SyncFields DEF SyncTypes
<1>3. sync' = [sync EXCEPT !.pc = "asked", !.from = synced + 1, !.cursor = c]
  BY DEF Ask
<1> HIDE DEF c
<1>4. /\ sync' \in SyncRecord /\ sync'.pc = "asked" /\ sync'.target = sync.target
      /\ sync'.order = sync.order /\ sync'.cursor = c /\ sync'.from = synced + 1
      /\ sync'.failures = sync.failures /\ sync'.empty_answers = sync.empty_answers
  BY <1>1, <1>2, <1>3, Zenon DEF SyncTypes, SyncRecord
<1>5. UNCHANGED <<tip, synced, outcome, began>>
  BY DEF Ask
<1>6. SyncTypes' /\ TipReached' /\ sync_inflight'
  BY <1>1, <1>4, <1>5 DEF SyncInv, SyncTypes, TipReached, sync_inflight
<1>7. ASSUME sync.order # <<>>, InTurn PROVE InTurn'
  <2>1. /\ N \in Nat /\ sync.cursor \in 0 .. N /\ sync.failures \in Nat
        /\ sync.empty_answers \in Nat /\ Len(sync.order) = N
        /\ synced \in Nat
    BY <1>1, <1>7, SyncFields, SyncAssumption DEF InTurn, SyncTypes
  <2>2. sync.failures + sync.empty_answers < N
    BY <1>1, <1>7, <2>1 DEF Exhausted
  <2>3. c \in 1 .. N
    BY <2>1, <2>2 DEF c
  <2>4. ASSUME sync.failures = 0
        PROVE  Empties' = Empties
    <3>1. Empties = Lately(sync.cursor, sync.empty_answers)
      BY <1>1 DEF Empties
    <3>2. Empties' = Lately(c, sync.empty_answers + 1) \ {c}
      BY <1>4 DEF Empties, Lately
    <3>3. sync.empty_answers < N
      BY <2>1, <2>2
    <3>4. c = IF sync.cursor = N THEN 1 ELSE sync.cursor + 1
      BY <2>1 DEF c
    <3> QED BY <2>1, <3>1, <3>2, <3>3, <3>4, LatelyNext
  <2>5. sync.failures = 0 => \A h \in began' : Covered(h)'
    BY <1>1, <1>5, <1>7, <2>4 DEF Covered, InTurn
  <2>6. \A h \in began' : \E q \in Peers : h <= tip'[q]
    BY <1>5, <1>7, Zenon DEF InTurn
  <2> QED BY <1>4, <1>5, <1>7, <2>1, <2>2, <2>3, <2>5, <2>6 DEF InTurn
<1> QED BY <1>1, <1>4, <1>5, <1>6, <1>7 DEF SyncInv

\* A peer has nothing: it had no height past the node's.
LEMMA SyncEmpties ==
    ASSUME SyncInv, AnswerEmpty
    PROVE  SyncInv'
<1>1. sync_inflight /\ SyncTypes /\ sync.pc = "asked" /\ tip[Asked] < sync.from
  BY DEF AnswerEmpty, SyncInv, sync_inflight
<1> DEFINE e == sync.empty_answers
<1>2. e \in Nat /\ e + 1 \in Nat
  BY <1>1, SyncFields
<1>3. /\ sync' \in SyncRecord /\ sync'.pc = "top" /\ sync'.target = sync.target
      /\ sync'.order = sync.order /\ sync'.cursor = sync.cursor
      /\ sync'.failures = sync.failures /\ sync'.empty_answers = e + 1
  BY <1>1, <1>2, Zenon DEF SyncTypes, SyncRecord, AnswerEmpty
<1>4. UNCHANGED <<tip, synced, outcome, began>>
  BY DEF AnswerEmpty
<1>5. SyncTypes' /\ TipReached' /\ sync_inflight'
  BY <1>1, <1>3, <1>4 DEF SyncInv, SyncTypes, TipReached, sync_inflight
<1>6. ASSUME InTurn PROVE InTurn'
  <2>1. /\ N \in Nat /\ sync.cursor \in 1 .. N /\ sync.failures \in Nat
        /\ sync.failures + e < N /\ sync.from <= synced + 1 /\ sync.from \in Nat
    BY <1>1, <1>6, SyncFields, SyncAssumption DEF InTurn
  <2>2. sync.cursor \in Peers /\ Asked = sync.cursor
    BY <1>6, <2>1 DEF InTurn, Peers, Asked
  <2>3. tip[sync.cursor] <= synced
    BY <1>1, <2>1, <2>2 DEF SyncTypes
  <2>4. ASSUME sync.failures = 0, NEW h \in began
        PROVE  Covered(h)'
    <3>1. PICK q \in Peers : h <= tip[q] /\ (q \in Empties => h <= synced)
      BY <1>1, <1>6, <2>4 DEF InTurn, Covered
    <3>2. Empties = Lately(sync.cursor, e + 1) \ {sync.cursor}
      BY <1>1 DEF Empties
    <3>3. Empties' = Lately(sync.cursor, e + 1)
      BY <1>3 DEF Empties, Lately
    <3>4. h \in Nat /\ tip[q] \in Nat /\ synced \in Nat
      BY <1>1, <2>4 DEF SyncInv, SyncTypes
    <3>5. q \in Empties' => h <= synced
      <4>1. CASE q = sync.cursor
        BY <2>3, <3>1, <3>4, <4>1
      <4>2. CASE q # sync.cursor
        BY <3>1, <3>2, <3>3, <4>2
      <4> QED BY <4>1, <4>2
    <3> QED BY <1>4, <3>1, <3>5 DEF Covered
  <2>5. sync.failures + (e + 1) <= N
    BY <1>2, <2>1
  <2>6. \A h \in began' : \E q \in Peers : h <= tip'[q]
    BY <1>4, <1>6, Zenon DEF InTurn
  <2> QED BY <1>3, <1>4, <1>6, <2>1, <2>4, <2>5, <2>6 DEF InTurn
<1> QED BY <1>1, <1>3, <1>4, <1>5, <1>6 DEF SyncInv

\* The steps of the loop.
LEMMA SyncLoops ==
    ASSUME SyncInv, Loop
    PROVE  SyncInv'
<1>1. SyncTypes /\ synced \in Nat
  BY DEF SyncInv, SyncTypes
<1> DEFINE f == sync.failures
           e == sync.empty_answers
<1>2. f \in Nat /\ e \in Nat /\ f + 1 \in Nat /\ sync.from \in Nat
  BY <1>1, SyncFields
<1>3. CASE AnswerBlocks
  <2>1. PICK last \in sync.from .. (sync.from + CHUNK - 1) :
          sync' = [sync EXCEPT !.pc = "applying", !.from = 0, !.last_fed = last]
    BY <1>3, Zenon DEF AnswerBlocks
  <2>2. last \in Nat
    BY <1>2
  <2>3. sync' = [sync EXCEPT !.pc = "applying", !.from = 0, !.last_fed = last,
                             !.failures = f, !.empty_answers = e]
    BY <1>1, <2>1, Zenon DEF SyncTypes, SyncRecord
  <2>4. InTurn => f + e <= N /\ f + e < N
    BY <1>3 DEF InTurn, AnswerBlocks
  <2>5. sync_inflight /\ UNCHANGED <<tip, synced, outcome, began>>
    BY <1>3 DEF AnswerBlocks, sync_inflight
  <2> HIDE DEF f, e
  <2>6. /\ sync' \in SyncRecord /\ sync'.pc = "applying" /\ sync'.target = sync.target
        /\ sync'.order = sync.order /\ sync'.cursor = sync.cursor
        /\ sync'.failures = f /\ sync'.empty_answers = e
    BY <1>1, <1>2, <2>2, <2>3, Zenon DEF SyncTypes, SyncRecord
  <2>7. "applying" \notin {"stopped", "asked"}
    OBVIOUS
  <2> QED BY <2>2, <2>3, <2>4, <2>5, <2>6, <2>7, SyncCounts, ZenonT(60)
<1>4. CASE AnswerMalformed
  <2>1. sync' = [sync EXCEPT !.pc = "applying", !.from = 0, !.last_fed = synced,
                             !.failures = f, !.empty_answers = e]
    BY <1>1, <1>4, Zenon DEF SyncTypes, SyncRecord, AnswerMalformed
  <2>2. InTurn => f + e <= N /\ f + e < N
    BY <1>4 DEF InTurn, AnswerMalformed
  <2>3. sync_inflight /\ UNCHANGED <<tip, synced, outcome, began>>
    BY <1>4 DEF AnswerMalformed, sync_inflight
  <2> HIDE DEF f, e
  <2>4. /\ sync' \in SyncRecord /\ sync'.pc = "applying" /\ sync'.target = sync.target
        /\ sync'.order = sync.order /\ sync'.cursor = sync.cursor
        /\ sync'.failures = f /\ sync'.empty_answers = e
    BY <1>1, <1>2, <2>1, Zenon DEF SyncTypes, SyncRecord
  <2>5. "applying" \notin {"stopped", "asked"}
    OBVIOUS
  <2> QED BY <2>1, <2>2, <2>3, <2>4, <2>5, SyncCounts, Zenon
<1>5. CASE FetchFails \/ ApplyTimeout
  <2>1. sync' = [sync EXCEPT !.pc = "top", !.from = 0, !.last_fed = 0,
                             !.failures = f + 1, !.empty_answers = e]
    BY <1>1, <1>5, Zenon DEF SyncTypes, SyncRecord, FetchFails, ApplyTimeout, Strike
  <2>2. sync_inflight /\ UNCHANGED <<tip, synced, outcome, began>>
        /\ sync.pc \in {"asked", "applying"}
    BY <1>5 DEF FetchFails, ApplyTimeout, sync_inflight
  <2>3. InTurn => (f + 1) + e <= N
    BY <1>2, <2>2, SyncAssumption DEF InTurn
  <2>4. f + 1 > 0
    BY <1>2
  <2> HIDE DEF f, e
  <2>5. /\ sync' \in SyncRecord /\ sync'.pc = "top" /\ sync'.target = sync.target
        /\ sync'.order = sync.order /\ sync'.cursor = sync.cursor
        /\ sync'.failures = f + 1 /\ sync'.empty_answers = e
    BY <1>1, <1>2, <2>1, Zenon DEF SyncTypes, SyncRecord
  <2>6. "top" \notin {"stopped", "asked"}
    OBVIOUS
  <2> QED BY <2>1, <2>2, <2>3, <2>4, <2>5, <2>6, SyncCounts, Zenon
<1>6. CASE Applied
  <2>1. sync' = [sync EXCEPT !.pc = "top", !.from = sync.from, !.last_fed = 0,
                             !.failures = 0, !.empty_answers = 0]
    BY <1>1, <1>6, Zenon DEF SyncTypes, SyncRecord, Applied
  <2>2. sync_inflight /\ UNCHANGED <<tip, synced, outcome, began>>
    BY <1>6 DEF Applied, sync_inflight
  <2>3. 0 + 0 <= N /\ 0 \in Nat
    BY SyncAssumption
  <2>4. /\ sync' \in SyncRecord /\ sync'.pc = "top" /\ sync'.target = sync.target
        /\ sync'.order = sync.order /\ sync'.cursor = sync.cursor
        /\ sync'.failures = 0 /\ sync'.empty_answers = 0
    BY <1>1, <1>2, <2>1, Zenon DEF SyncTypes, SyncRecord
  <2>5. "top" \notin {"stopped", "asked"}
    OBVIOUS
  <2> QED BY <2>1, <2>2, <2>3, <2>4, <2>5, SyncCounts, Zenon
<1>7. CASE EpochAhead
  <2>1. sync' = Stopped /\ began' = {} /\ UNCHANGED <<tip, synced>>
    BY <1>7 DEF EpochAhead, Finish
  <2>2. sync' \in SyncRecord /\ sync'.pc = "stopped"
    BY <2>1, StoppedIs
  <2> QED BY <1>1, <2>1, <2>2 DEF SyncInv, SyncTypes, TipReached, sync_inflight
<1> QED BY <1>3, <1>4, <1>5, <1>6, <1>7, SyncReturns, SyncAsks, SyncEmpties DEF Loop

\* A sync to the tip that returns well has brought the node to every height
\* that any of its peers had when the sync began, for any number of peers,
\* whatever they answer and decide meanwhile (sync_loop; a join activates on it).
THEOREM TipSyncReachesTip == SyncSpec => []TipReached
<1>1. SyncInit => SyncInv
  <2> SUFFICES ASSUME SyncInit PROVE SyncInv
    OBVIOUS
  <2>1. sync \in SyncRecord /\ ~sync_inflight
    BY StoppedIs DEF SyncInit, sync_inflight
  <2>2. tip \in [Peers -> Nat]
    BY SyncAssumption DEF SyncInit
  <2> QED BY <2>1, <2>2 DEF SyncInit, SyncInv, SyncTypes, TipReached
<1>2. SyncInv /\ [SyncNext]_syncVars => SyncInv'
  <2> SUFFICES ASSUME SyncInv, [SyncNext]_syncVars PROVE SyncInv'
    OBVIOUS
  <2>1. synced \in Nat /\ tip \in [Peers -> Nat] /\ (\A p \in Peers : tip[p] \in Nat)
        /\ \A p \in Peers : tip[p] <= tip[p]
    BY DEF SyncInv, SyncTypes
  <2>2. CASE UNCHANGED syncVars
    BY <2>1, <2>2, SyncStands DEF syncVars
  <2>3. ASSUME NEW p \in Peers, SyncNeeded(p) \/ KickSyncIfBehind(p)
        PROVE  SyncInv'
    <3>1. PICK target \in {tip[p], tip[p] + 1} : synced < target /\ Start(target, p)
      BY <2>1, <2>3 DEF SyncNeeded, KickSyncIfBehind
    <3>2. target \in Nat /\ target # Tip
      BY <2>1, <3>1 DEF Tip, None
    <3> QED BY <3>1, <3>2, SyncStarts
  <2>4. CASE TipPoll
    <3>1. Start(Tip, None) /\ Tip \in Nat
      BY <2>4 DEF TipPoll, Tip, None
    <3> QED BY <3>1, SyncStarts
  <2>5. ASSUME NEW p \in Peers, PeerDecides(p)
        PROVE  SyncInv'
    <3>1. tip' = [tip EXCEPT ![p] = @ + 1] /\ UNCHANGED <<synced, sync, outcome, began>>
      BY <2>5 DEF PeerDecides
    <3>2. tip' \in [Peers -> Nat] /\ \A q \in Peers : tip[q] <= tip'[q]
      BY <2>1, <3>1
    <3> QED BY <2>1, <3>1, <3>2, SyncStands
  <2>6. CASE ShellTakes \/ LiveDecide
    <3>1. synced' \in {synced, synced + 1} /\ UNCHANGED <<tip, sync, outcome, began>>
      BY <2>6 DEF ShellTakes, LiveDecide
    <3> QED BY <2>1, <3>1, SyncStands
  <2> QED BY <2>2, <2>3, <2>4, <2>5, <2>6, SyncLoops DEF SyncNext
<1>3. SyncInv => TipReached
  BY DEF SyncInv
<1> QED BY <1>1, <1>2, <1>3, PTL DEF SyncSpec
=============================================================================
