------------------------------ MODULE MCReclaim ------------------------------
(***************************************************************************)
(* What a failure leaves behind is taken back or made good: the files of   *)
(* an upload that ended without its row (UploadLedger), the seat of a      *)
(* validator that went dark (Membership), and what the photo daemon still  *)
(* owes the mesh (PhotoPublish).  The three parts share no state: a        *)
(* behaviour runs one of them on its small instance while the others stand *)
(* still.                                                                  *)
(***************************************************************************)
EXTENDS UploadLedger, PhotoPublish, TLC

CONSTANTS u1, n1, n2, n3, n4, n5
VARIABLES part, seats, height, submitted, block, votes, up, contact, span,
          boot, misled, crashes, losses

meshVars == <<seats, height, submitted, block, votes, up, contact, span,
              boot, misled, crashes, losses>>

MCUploads == {u1}
Four == {n1, n2, n3, n4}
Five == Four \cup {n5}

\* Four validators, one more than a quorum, and a fifth node that may take a
\* seat at any time: before the loss of n1, while its removal is voted on, or
\* after it
Mesh == INSTANCE Membership WITH
    rows <- seats, Nodes <- Five, Genesis <- Four, Profile <- "auto", Leavers <- {},
    MaxHeight <- 3, MaxPending <- 0, MaxScanned <- 2, MaxCrashes <- 1, MaxLosses <- 0

\* The idle parts have one initial state, and a photo that is idle owes nothing
MCInit ==
    /\ part \in {"uploads", "mesh", "photo"} /\ Init /\ Mesh!Init /\ PhotoInit
    /\ part # "photo" => render = 0 /\ photo.published /\ ~photo.deleted
MCNext ==
    \/ part = "uploads" /\ Next /\ UNCHANGED <<part, meshVars, photoVars>>
    \/ /\ part = "mesh" /\ Mesh!Next
       /\ Five \ up' \subseteq {n1}   \* the one crash is n1's
       /\ UNCHANGED <<part, vars, photoVars>>
    \/ part = "photo" /\ PhotoNext /\ UNCHANGED <<part, vars, meshVars>>

\* Each part's Fairness, owed only while that part has something to make good
InUploads(A) == part = "uploads" /\ ~(files \subseteq rows) /\ A
InMesh(A) == part = "mesh" /\ n1 \notin up /\ A
InPhoto(A) == part = "photo" /\ ~Drained /\ A

\* The probes to n1, the vote-out scan and the rounds do not all stop at once:
\* less than Membership's Fairness, which keeps each of them going
Removing ==
    \/ Mesh!Silence(n1) \/ Mesh!Decide
    \/ \E p \in Five : Mesh!ScanVoteOut(p, n1)
    \/ \E n \in Five : Mesh!Vote(n)
    \/ \E p \in Five, t \in submitted : Mesh!Propose(p, {t})
    \/ Mesh!Abandon

MCFairness ==
    /\ WF_vars(InUploads(Sweep)) /\ WF_vars(InUploads(Tick))
    /\ \A b \in Uploads : WF_vars(InUploads(ChunkTask(b))) /\ WF_vars(InUploads(Abandon(b)))
    /\ WF_meshVars(InMesh(Removing))
    /\ WF_photoVars(InPhoto(Pass))
    /\ WF_photoVars(InPhoto(\E k \in Kinds : Fetch(k)))
    /\ WF_photoVars(InPhoto(ScanFinish)) /\ WF_photoVars(InPhoto(Rescan))
    /\ WF_photoVars(InPhoto(\E t \in undecided : Decide(t)))
MCSpec == MCInit /\ [][MCNext]_<<part, vars, meshVars, photoVars>> /\ MCFairness

\* A validator that is gone for good, while the others hold a quorum, is
\* removed from the set in the end, whether or not another node is seated in
\* between (Membership's VotedOutWhenDark; stated of one validator, as this
\* instance does not tell the four apart).
DarkIsRemoved == Mesh!VotedOutWhenDark(n1)
=============================================================================
