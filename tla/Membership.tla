----------------------------- MODULE Membership -----------------------------
(***************************************************************************)
(* The validator set: the validators table (hopnet-consensus/src/          *)
(* validators.rs), the three transactions that change it and their         *)
(* objective checks (consensus/handlers.rs), the subjective guards every   *)
(* live voter evaluates from its own evidence (membership_guards.rs), the  *)
(* scans that propose vote-outs and seatings (evidence.rs), and the rule   *)
(* that such a transaction rides alone in its block (malachite/app.rs).    *)
(*                                                                         *)
(* Evidence about a node is abstracted to what the guards tell apart: is   *)
(* it live, silent, or dark (silent for t_out and probed twice since), and *)
(* has its bright span reached s_floor, s_full or p_prove.  Voters share   *)
(* it but look at it at different times.                                   *)
(***************************************************************************)
EXTENDS Integers, FiniteSets, FiniteSetsExt, QuorumPolicy

CONSTANTS
    Nodes,        \* registered nodes
    Genesis,      \* the validators at the start
    Profile,      \* META_QUORUM_PROFILE
    Leavers,      \* nodes whose owner may ask to leave
    MaxHeight,    \* bound: last decided height
    MaxPending,   \* bound: transactions of users waiting
    MaxScanned,   \* bound: transactions of the scans waiting
    MaxCrashes,   \* bound: crashes
    MaxLosses     \* bound: a live node that looks silent

ASSUME MembershipAssumption ==
    /\ Genesis \subseteq Nodes /\ Genesis # {} /\ IsFiniteSet(Nodes)
    /\ Profile \in Profiles
    /\ Leavers \subseteq Nodes
    /\ MaxHeight \in Nat /\ MaxPending \in Nat /\ MaxScanned \in Nat /\ MaxCrashes \in Nat /\ MaxLosses \in Nat

VARIABLES
    rows,       \* the validators table
    height,     \* last decided height
    submitted,  \* transactions in the queues
    block,      \* the block proposed at height + 1, {} for none
    votes,      \* who voted for it
    up,         \* running nodes
    contact,    \* evidence: "live", "silent" or "dark"
    span,       \* evidence: bright span, 0 or 1 (s_floor), 2 (s_full), 3 (p_prove)
    boot,       \* the height at which a node's evidence began
    misled,     \* history: a vote for this block relied on evidence that is wrong
    crashes, losses

chain == <<rows, height>>
round == <<block, votes, misled>>
evidence == <<up, contact, span, boot, crashes, losses>>
vars == <<chain, submitted, round, evidence>>

-----------------------------------------------------------------------------
(* The validators table *)

Row(h, n, active, kind) == [height |-> h, node |-> n, active |-> active, kind |-> kind]
RowsOf(n, h) == {r \in rows : r.node = n /\ r.height <= h}
Latest(R) == CHOOSE r \in R : \A s \in R : s.height <= r.height

IsActive(n, h) == RowsOf(n, h) # {} /\ Latest(RowsOf(n, h)).active
ValidatorSet(h) == {n \in Nodes : IsActive(n, h)}

Activations(n, h) == {r \in RowsOf(n, h) : r.active}
Departures(n, h) == {r \in RowsOf(n, h) : ~r.active}
ActivationHeight(n, h) == Latest(Activations(n, h)).height
LastDeparture(n, h) == IF Departures(n, h) = {} THEN "none" ELSE Latest(Departures(n, h)).kind

Pending == height + 1
Seated == ValidatorSet(Pending)
V == Cardinality(Seated)
Q == Quorum(Profile, V)

-----------------------------------------------------------------------------
(* The subjective guards, by voter n *)

\* live_estimate: a node is its own evidence
LiveSeen(n, S) == {x \in S : x = n \/ contact[x] = "live"}
Headroom(n, S) == Cardinality(LiveSeen(n, S)) - Quorum(Profile, Cardinality(S))

\* proven_live: seated since before the voter's evidence began, or bright
\* for p_prove
ProvenLive(n) ==
    {x \in LiveSeen(n, Seated) : ActivationHeight(x, Pending) <= boot[n] \/ span[x] = 3}

\* req_span, as a level of span
ReqSpan(exposed, departure, headroom) ==
    CASE exposed -> 2
      [] ~exposed /\ departure = "voluntary" -> 0
      [] ~exposed /\ departure # "voluntary" /\ headroom <= 1 -> 1
      [] OTHER -> 2

\* A candidate is live and bright for long enough, in a batch of size b
Eligible(n, x, b) ==
    /\ contact[x] = "live"
    /\ span[x] >= ReqSpan(Exposure(Profile, V, b) > 0, LastDeparture(x, Pending),
                          Headroom(n, Seated))

JointlyOk(n, b) == /\ PostureOk(Profile, V, b)
                   /\ CeilingOk(Profile, V, b, Cardinality(ProvenLive(n)))

CheckActivation(n, members) ==
    /\ JointlyOk(n, Cardinality(members))
    /\ \A x \in members : Eligible(n, x, Cardinality(members))

\* A leave guard that only keeps the set from emptying
CheckLeaveFloorOnly(n, x) == Seated \ {x} # {}

CheckLeave(n, x) == Seated \ {x} # {} /\ Headroom(n, Seated \ {x}) >= 0
CheckVoteOut(n, x) == x # n /\ contact[x] = "dark"

Subjective(n, t) ==
    CASE t.fn = "activation" -> CheckActivation(n, t.members)
      [] t.fn = "leave"      -> \A x \in t.members : CheckLeave(n, x)
      [] t.fn = "vote_out"   -> \A x \in t.members : CheckVoteOut(n, x)
      [] OTHER -> TRUE

\* The handlers' checks over committed state
Objective(t) ==
    LET seated(n) == IsActive(n, height)
    IN  CASE t.fn = "activation" ->
               /\ t.members # {} /\ Cardinality(t.members) <= BMax
               /\ seated(t.by) /\ \A x \in t.members : ~seated(x)
          [] t.fn = "leave" ->
               /\ t.members = {t.by} /\ seated(t.by)
               /\ Cardinality(ValidatorSet(height)) >= 2
          [] t.fn = "vote_out" ->
               /\ t.by \notin t.members /\ seated(t.by)
               /\ \A x \in t.members : seated(x)
          [] OTHER -> TRUE

\* check_solo_membership that forgets the rule
AnyShape(B) == TRUE

\* One that asks only that no node is changed twice
SoloPerNode(B) == \A t, u \in B : t # u => t.members \cap u.members = {}

\* check_solo_membership: a membership transaction rides alone
Solo(B) == (\E t \in B : t.fn # "other") => Cardinality(B) = 1

\* validate_inner, for a live proposal
Valid(n, B) == Solo(B) /\ \A t \in B : Objective(t) /\ Subjective(n, t)

-----------------------------------------------------------------------------
Init ==
    /\ rows = {Row(0, n, TRUE, "none") : n \in Genesis}
    /\ height = 1
    /\ submitted = {} /\ block = {} /\ votes = {} /\ misled = FALSE
    /\ up = Nodes
    /\ contact = [n \in Nodes |-> "live"]
    /\ span = [n \in Nodes |-> IF n \in Genesis THEN 3 ELSE 0]
    /\ boot = [n \in Nodes |-> 1]
    /\ crashes = 0 /\ losses = 0

(* Evidence *)

\* touch_contact: after a silence longer than the reset gap the span restarts
Contact(x) ==
    /\ x \in up /\ contact[x] # "live"
    /\ contact' = [contact EXCEPT ![x] = "live"]
    /\ \E s \in {0, span[x]} : span' = [span EXCEPT ![x] = s]
    /\ UNCHANGED <<chain, submitted, round, up, boot, crashes, losses>>

Dwell(x) ==
    /\ contact[x] = "live" /\ x \in up /\ span[x] < 3
    /\ span' = [span EXCEPT ![x] = @ + 1]
    /\ UNCHANGED <<chain, submitted, round, up, contact, boot, crashes, losses>>

\* A probe goes unanswered: the node is down, or the network lost it
Silence(x) ==
    /\ contact[x] # "dark"
    /\ \/ x \notin up /\ UNCHANGED losses
       \/ x \in up /\ losses < MaxLosses /\ losses' = losses + 1
    /\ contact' = [contact EXCEPT ![x] = IF @ = "live" THEN "silent" ELSE "dark"]
    /\ UNCHANGED <<chain, submitted, round, up, span, boot, crashes>>

Crash(x) ==
    /\ x \in up /\ crashes < MaxCrashes
    /\ up' = up \ {x}
    /\ crashes' = crashes + 1
    /\ misled' = (misled \/ block # {})
    /\ UNCHANGED <<chain, submitted, block, votes, contact, span, boot, losses>>

\* The map is in memory: the evidence of a restarted node begins anew
Restart(x) ==
    /\ x \notin up
    /\ up' = up \cup {x}
    /\ boot' = [boot EXCEPT ![x] = height]
    /\ UNCHANGED <<chain, submitted, round, contact, span, crashes, losses>>

-----------------------------------------------------------------------------
(* Submission *)

Tx(fn, by, members) == [fn |-> fn, by |-> by, members |-> members]

Submit(t) ==
    /\ t \notin submitted
    /\ submitted' = submitted \cup {t}
    /\ UNCHANGED <<chain, round, evidence>>

Users == {t \in submitted : t.fn \in {"other", "leave"}}
Room == Cardinality(Users) < MaxPending
ScanRoom == Cardinality(submitted \ Users) < MaxScanned

SubmitOther == Room /\ Submit(Tx("other", "user", {}))
SubmitLeave(p) == Room /\ p \in up \cap Leavers /\ Submit(Tx("leave", p, {p}))

\* A scan that takes a bright span, which only the next contact resets, for
\* a sign of life
ScanVoteOutFaded(p, x) ==
    /\ ScanRoom /\ contact[x] = "dark" /\ span[x] = 0 /\ p \in up \cap Seated /\ x \in Seated \ {p}
    /\ Submit(Tx("vote_out", p, {x}))

\* spawn_probe_scheduler, the vote-out scan
ScanVoteOut(p, x) ==
    /\ ScanRoom /\ contact[x] = "dark" /\ p \in up \cap Seated /\ x \in Seated \ {p}
    /\ Submit(Tx("vote_out", p, {x}))

\* plan_seating_batch: the largest batch that passes, brightest first
Pool(p) == Nodes \ (Seated \cup {p})
Candidates(p, b) == {x \in Pool(p) : Eligible(p, x, b)}
Viable(p) == {x \in Pool(p) : contact[x] = "live"}
Fits(p, b) == /\ b <= BMax /\ b <= Cardinality(Viable(p))
              /\ JointlyOk(p, b) /\ Cardinality(Candidates(p, b)) >= b
SeatingBatches(p) ==
    LET sizes == {b \in 1 .. Cardinality(Nodes) : Fits(p, b)}
    IN  IF sizes = {} THEN {}
        ELSE {B \in kSubset(Max(sizes), Candidates(p, Max(sizes))) :
                \A x \in B, y \in Candidates(p, Max(sizes)) \ B : span[x] >= span[y]}

\* spawn_probe_scheduler, the seating scan
ScanSeat(p) ==
    /\ ScanRoom /\ p \in up \cap Seated
    /\ \E B \in SeatingBatches(p) : Submit(Tx("activation", p, B))

-----------------------------------------------------------------------------
(* Heights *)

\* handle_need_value: preflight refuses what the proposer's own checks refuse
Refuse(p, t) ==
    /\ block = {} /\ p \in up \cap Seated /\ t \in submitted
    /\ ~(Objective(t) /\ Subjective(p, t))
    /\ submitted' = submitted \ {t}
    /\ UNCHANGED <<chain, round, evidence>>

\* A vote relies on live-looking nodes being up
Wrong == \E x \in Nodes : contact[x] = "live" /\ x \notin up

Propose(p, B) ==
    /\ block = {} /\ height < MaxHeight
    /\ p \in up \cap Seated
    /\ B \subseteq submitted /\ B # {}
    /\ Valid(p, B)
    /\ block' = B /\ votes' = {p} /\ misled' = Wrong
    /\ UNCHANGED <<chain, submitted, evidence>>

Vote(n) ==
    /\ block # {} /\ n \in (up \cap Seated) \ votes
    /\ Valid(n, block)
    /\ votes' = votes \cup {n}
    /\ misled' = (misled \/ Wrong)
    /\ UNCHANGED <<chain, submitted, block, evidence>>

\* The round is lost: those who would vote for the block are too few
Abandon ==
    /\ block # {}
    /\ Cardinality(votes \cup {n \in up \cap Seated : Valid(n, block)}) < Q
    /\ block' = {} /\ votes' = {} /\ misled' = FALSE
    /\ UNCHANGED <<chain, submitted, evidence>>

\* The handlers' execute path, inside the decide transaction: the height they
\* read and stamp is still the one before this block
Executed(t) ==
    CASE t.fn = "activation" -> {Row(height, x, TRUE, "none") : x \in t.members}
      [] t.fn = "leave"      -> {Row(height, x, FALSE, "voluntary") : x \in t.members}
      [] t.fn = "vote_out"   -> {Row(height, x, FALSE, "voted_out") : x \in t.members}
      [] OTHER -> {}

Decide ==
    /\ block # {} /\ Cardinality(votes) >= Q
    /\ rows' = rows \cup UNION {Executed(t) : t \in block}
    /\ height' = Pending
    /\ submitted' = submitted \ block
    /\ block' = {} /\ votes' = {} /\ misled' = FALSE
    /\ UNCHANGED evidence

-----------------------------------------------------------------------------
Watch == \E x \in Nodes : Contact(x) \/ Dwell(x) \/ Silence(x) \/ Crash(x) \/ Restart(x)
Offer == \/ SubmitOther
         \/ \E p \in Nodes : SubmitLeave(p) \/ ScanSeat(p) \/ \E x \in Nodes : ScanVoteOut(p, x)
Agree == \/ \E p \in Nodes, t \in submitted : Refuse(p, t)
         \/ \E p \in Nodes, B \in SUBSET submitted : Propose(p, B)
         \/ \E n \in Nodes : Vote(n)
         \/ Abandon \/ Decide
Next == Watch \/ Offer \/ Agree
Spec == Init /\ [][Next]_vars

\* Probes to a dead node go unanswered and those to a live one are answered,
\* the scans repeat, and a round either decides or is lost
Fairness ==
    /\ \A x \in Nodes : WF_vars(x \notin up /\ Silence(x)) /\ WF_vars(Contact(x))
    /\ WF_vars(\E p, x \in Nodes : ScanVoteOut(p, x))
    /\ WF_vars(\E n \in Nodes : Vote(n))
    /\ WF_vars(\E p \in Nodes, B \in SUBSET submitted : Propose(p, B))
    /\ WF_vars(Abandon) /\ WF_vars(Decide)
FairSpec == Spec /\ Fairness
-----------------------------------------------------------------------------
(* Properties *)

Txs == [fn : {"activation", "leave", "vote_out", "other"}, by : Nodes \cup {"user"}, members : SUBSET Nodes]

\* Type correctness.
TypeOK ==
    /\ rows \subseteq [height : 0 .. MaxHeight, node : Nodes, active : BOOLEAN,
                       kind : {"none", "voluntary", "voted_out"}]
    /\ height \in 1 .. MaxHeight
    /\ submitted \subseteq Txs
    /\ block \subseteq submitted /\ votes \subseteq Seated
    /\ up \subseteq Nodes
    /\ contact \in [Nodes -> {"live", "silent", "dark"}]
    /\ span \in [Nodes -> 0 .. 3] /\ boot \in [Nodes -> 1 .. MaxHeight]
    /\ misled \in BOOLEAN /\ crashes \in 0 .. MaxCrashes /\ losses \in 0 .. MaxLosses

\* Whatever is submitted, and in whatever order it is decided, the validator
\* set never becomes empty (INV-FLOOR of the leave handler).
SetNeverEmpties == Seated # {}

\* No decided block inserts a second row under one (effective_height, node)
\* key: the insert would fail, and with it the decide, on every node
\* (deactivate_validator).
KeysUnique == \A r, s \in rows : r.height = s.height /\ r.node = s.node => r = s

\* A membership change never stalls the mesh by itself: when no voter was
\* misled by stale evidence and nothing crashed since the block was proposed,
\* the validators that are up still hold a quorum of the new set.
NoTransitionStalls ==
    [][height' > height /\ ~misled =>
         Cardinality(up \cap Seated') >= Quorum(Profile, Cardinality(Seated'))]_vars

\* While nobody has left, crashed or fallen silent, the members that are
\* proven hold a quorum on their own, through any number of seatings and
\* across the profile seam (the proven-quorum ceiling), in a mesh that starts
\* with a tolerance to protect: the ceiling is waived for the others.
ProvenHoldQuorum ==
    /\ crashes = 0 /\ losses = 0 /\ \A r \in rows : r.active
    /\ ~Waived(Profile, Cardinality(Genesis))
    => Cardinality({x \in Seated : ActivationHeight(x, Pending) <= 1 \/ span[x] = 3}) >= Q

\* RECOVERY: a validator that stays down while the others hold a quorum is
\* voted out and stays out, also when seatings compete for the heights.  (For
\* instances in which no user's transaction uses up the bound on heights.)
VotedOutWhenDark(x) ==
    <>[](x \notin up /\ Cardinality(up \cap Seated) >= Q) => <>[](x \notin Seated)
=============================================================================
