------------------------------ MODULE SyncLoop ------------------------------
(***************************************************************************)
(* Catching up: the decided-value sync client of one node                  *)
(* (src/consensus/malachite/sync.rs) and the three places that start it    *)
(* (src/consensus/malachite/engine.rs): the driver on SyncNeeded, a kick   *)
(* by traffic that proves peers are ahead, and the tip poll of a node that *)
(* gossip does not reach.  One flag, sync_inflight, admits one sync at a   *)
(* time.  A sync asks its peers in turn for the blocks past the node's     *)
(* decided height, feeds what it gets to the shell and waits for it to     *)
(* apply; it counts the peers that failed and those that had nothing, and  *)
(* starts both counts again at every progress.  Meanwhile peers decide,    *)
(* and so does the node itself through live gossip.                        *)
(***************************************************************************)
EXTENDS Integers, Sequences

CONSTANTS
    N,          \* the peers are 1..N
    Conducts,   \* how the peers may behave, one function of the set per behaviour
    SyncMax,    \* bound on the heights the mesh decides
    CHUNK,      \* heights asked for in one request
    QueueMax,   \* capacity of the shell's input channel
    MaxFaults   \* bound on failed reads of the peer list

ASSUME SyncAssumption == N \in Nat /\ SyncMax \in Nat

VARIABLES
    conduct,    \* conduct[p]: "sound", "faulty", "garbled" or "crossed"
    polls,      \* this node is not seated, or a boundary is in flight
    tip,        \* tip[p]: the last height p has decided
    synced,     \* the node's decided watch
    queue,      \* sync values sent to the shell: [height, certified]
    sync,       \* the running sync
    outcome,    \* what the last sync returned
    began,      \* for a sync to the tip: its peers' tips when it began
    pivoted,    \* the epoch join was started
    faults

syncVars == <<conduct, polls, tip, synced, queue, sync, outcome, began, pivoted, faults>>

Peers == 1..N
None == 0
Tip == None     \* target of a sync in tip mode: heights to reach are positive

\* hint_peer first, the others in the table's order
PeerOrder(hint) ==
    [i \in Peers |-> IF hint = None \/ i > hint THEN i ELSE IF i = 1 THEN hint ELSE i - 1]

Fresh(target, order) ==
    [pc |-> "top", target |-> target, order |-> order, cursor |-> 0,
     failures |-> 0, empty_answers |-> 0, from |-> 0, last_fed |-> 0]
Stopped == [Fresh(Tip, <<>>) EXCEPT !.pc = "stopped"]
sync_inflight == sync.pc # "stopped"

SyncInit ==
    /\ conduct \in Conducts
    /\ polls \in BOOLEAN
    /\ tip \in [Peers -> 0..SyncMax]
    /\ synced = 0
    /\ queue = <<>>
    /\ sync = Stopped
    /\ outcome = "none"
    /\ began = {}
    /\ pivoted = FALSE
    /\ faults = 0

-----------------------------------------------------------------------------
(* Starting a sync *)

\* peer_list, which is empty where the database cannot be read
PeerList(hint, order) ==
    \/ order = PeerOrder(hint) /\ UNCHANGED faults
    \/ order = <<>> /\ faults < MaxFaults /\ faults' = faults + 1

Start(target, hint) ==
    /\ ~sync_inflight
    /\ \E order \in {<<>>, PeerOrder(hint)} :
        /\ PeerList(hint, order)
        /\ sync' = Fresh(target, order)
        /\ began' = IF target = Tip THEN {tip[order[i]] : i \in DOMAIN order} ELSE {}
    /\ outcome' = "none"
    /\ UNCHANGED <<conduct, polls, tip, synced, queue, pivoted>>

\* A gossip message of a height past the engine's, which its sender has not
\* yet decided
SyncNeeded(p) == tip[p] > synced /\ Start(tip[p] + 1, p)

\* A forward, a refusal of one or a pong names a height past the node's
KickSyncIfBehind(p) ==
    \E target \in {tip[p], tip[p] + 1} : synced < target /\ Start(target, p)

TipPoll == polls /\ Start(Tip, None)

-----------------------------------------------------------------------------
(* sync_loop *)

Finish(result) ==
    /\ sync' = Stopped
    /\ outcome' = result
    /\ began' = IF result = "ok" THEN began ELSE {}
    /\ UNCHANGED <<conduct, polls, tip, synced, queue, faults>>

Reached == sync.target # Tip /\ synced >= sync.target
EveryoneEmpty == /\ sync.target = Tip
                 /\ sync.order # <<>> /\ sync.empty_answers >= Len(sync.order)
ExhaustedAtOnce == \/ sync.order = <<>> \/ sync.failures > 0
                   \/ sync.empty_answers >= Len(sync.order)
Exhausted == \/ sync.order = <<>>
             \/ sync.failures + sync.empty_answers >= Len(sync.order)

\* The returns at the top of the loop
Return ==
    /\ sync.pc = "top"
    /\ \/ (Reached \/ EveryoneEmpty) /\ Finish("ok")
       \/ /\ ~Reached /\ ~EveryoneEmpty /\ Exhausted
          /\ Finish(IF sync.target = Tip /\ sync.failures = 0 THEN "ok" ELSE "exhausted")
    /\ UNCHANGED pivoted

\* The request for the next peer in turn; the cursor is kept modulo their number
Ask ==
    /\ sync.pc = "top" /\ ~Reached /\ ~EveryoneEmpty /\ ~Exhausted
    /\ sync' = [sync EXCEPT !.pc = "asked", !.from = synced + 1,
                            !.cursor = IF @ = Len(sync.order) THEN 1 ELSE @ + 1]
    /\ UNCHANGED <<conduct, polls, tip, synced, queue, outcome, began, pivoted, faults>>

Asked == sync.order[sync.cursor]

Strike == [sync EXCEPT !.pc = "top", !.from = 0, !.last_fed = 0, !.failures = @ + 1]

\* The answer holds blocks, as many as the peer has and its byte budget lets
\* through.  A faulty peer's may bear certificates the engine refuses.
AnswerBlocks ==
    /\ sync.pc = "asked" /\ conduct[Asked] # "crossed"
    /\ \E last \in sync.from..(sync.from + CHUNK - 1), certified \in BOOLEAN :
        /\ sync.target # Tip => last <= sync.target
        /\ last <= tip[Asked]
        /\ conduct[Asked] = "sound" => certified
        /\ Len(queue) + last - sync.from < QueueMax
        /\ queue' = queue \o [i \in 1..(last - sync.from + 1) |->
                        [height |-> sync.from + i - 1, certified |-> certified]]
        /\ sync' = [sync EXCEPT !.pc = "applying", !.from = 0, !.last_fed = last]
    /\ UNCHANGED <<conduct, polls, tip, synced, outcome, began, pivoted, faults>>

\* The first block fails the structural checks: nothing is fed
AnswerMalformed ==
    /\ sync.pc = "asked" /\ conduct[Asked] = "garbled"
    /\ sync' = [sync EXCEPT !.pc = "applying", !.from = 0, !.last_fed = synced]
    /\ UNCHANGED <<conduct, polls, tip, synced, queue, outcome, began, pivoted, faults>>

AnswerEmpty ==
    /\ sync.pc = "asked" /\ conduct[Asked] # "crossed" /\ tip[Asked] < sync.from
    /\ sync' = [sync EXCEPT !.pc = "top", !.from = 0, !.empty_answers = @ + 1]
    /\ UNCHANGED <<conduct, polls, tip, synced, queue, outcome, began, pivoted, faults>>

\* No answer in time, a refusal, or an answer that does not decode
FetchFails ==
    /\ sync.pc = "asked" /\ conduct[Asked] # "sound"
    /\ sync' = Strike
    /\ UNCHANGED <<conduct, polls, tip, synced, queue, outcome, began, pivoted, faults>>

\* The peer is on a newer epoch: the caller starts the epoch join
EpochAhead ==
    /\ sync.pc = "asked" /\ conduct[Asked] = "crossed"
    /\ Finish("ahead")
    /\ pivoted' = TRUE

\* The shell has applied what was fed: both counts start again
AppliedKeepingEmpties ==
    /\ sync.pc = "applying" /\ synced >= sync.last_fed
    /\ sync' = [sync EXCEPT !.pc = "top", !.last_fed = 0, !.failures = 0]
    /\ UNCHANGED <<conduct, polls, tip, synced, queue, outcome, began, pivoted, faults>>
Applied ==
    /\ sync.pc = "applying" /\ synced >= sync.last_fed
    /\ sync' = [sync EXCEPT !.pc = "top", !.last_fed = 0, !.failures = 0, !.empty_answers = 0]
    /\ UNCHANGED <<conduct, polls, tip, synced, queue, outcome, began, pivoted, faults>>

\* APPLY_TIMEOUT passes, the values being refused or still in the channel
ApplyTimeoutAsProgress ==
    /\ sync.pc = "applying" /\ synced < sync.last_fed
    /\ sync' = [sync EXCEPT !.pc = "top", !.last_fed = 0, !.failures = 0, !.empty_answers = 0]
    /\ UNCHANGED <<conduct, polls, tip, synced, queue, outcome, began, pivoted, faults>>
ApplyTimeout ==
    /\ sync.pc = "applying" /\ synced < sync.last_fed
    /\ sync' = Strike
    /\ UNCHANGED <<conduct, polls, tip, synced, queue, outcome, began, pivoted, faults>>

Loop == \/ Return \/ Ask \/ AnswerBlocks \/ AnswerMalformed \/ AnswerEmpty
        \/ FetchFails \/ EpochAhead \/ Applied \/ ApplyTimeout

-----------------------------------------------------------------------------
(* The shell and the mesh *)

\* on_sync_value: a height already decided is dropped, the engine decides a
\* certified value of its current height
ShellTakes ==
    /\ queue # <<>>
    /\ queue' = Tail(queue)
    /\ synced' = IF Head(queue).certified /\ Head(queue).height = synced + 1
                 THEN synced + 1 ELSE synced
    /\ UNCHANGED <<conduct, polls, tip, sync, outcome, began, pivoted, faults>>

LiveDecide ==
    /\ ~polls /\ synced < SyncMax /\ \E p \in Peers : tip[p] >= synced
    /\ synced' = synced + 1
    /\ UNCHANGED <<conduct, polls, tip, queue, sync, outcome, began, pivoted, faults>>

PeerDecides(p) ==
    /\ tip[p] < SyncMax
    /\ tip' = [tip EXCEPT ![p] = @ + 1]
    /\ UNCHANGED <<conduct, polls, synced, queue, sync, outcome, began, pivoted, faults>>

SyncNext ==
    \/ \E p \in Peers : SyncNeeded(p) \/ KickSyncIfBehind(p) \/ PeerDecides(p)
    \/ TipPoll \/ Loop \/ ShellTakes \/ LiveDecide

SyncSpec == SyncInit /\ [][SyncNext]_syncVars

\* Requests time out, so the loop never stands still; the shell takes its
\* inputs; probes (and the poll, where it runs) recur.  No message need arrive
\* and no peer need decide.
SyncFairness == /\ WF_syncVars(Loop) /\ WF_syncVars(ShellTakes) /\ WF_syncVars(TipPoll)
                /\ \A p \in Peers : WF_syncVars(conduct[p] = "sound" /\ KickSyncIfBehind(p))
FairSyncSpec == SyncSpec /\ SyncFairness

-----------------------------------------------------------------------------
(* Properties *)

\* A sync to the tip that returns well has brought the node to every height
\* that any of its peers had decided when the sync began: it stops on the
\* empty answer of each of them, never on a failure or on an answer given
\* before its last progress (sync.rs:119-122, 148-150; a join activates on it).
TipReached ==
    ~sync_inflight /\ outcome = "ok" => \A h \in began : h <= synced

\* Every sync ends, and with it the flag that keeps the next one out
\* (engine.rs:1111, :1145), as long as no peer's chunks are malformed from
\* their first block on: such a chunk counts as progress.
SyncEnds ==
    sync_inflight /\ (\A p \in Peers : conduct[p] # "garbled") ~> ~sync_inflight

\* A node that is behind a sound peer catches up with all of them, or starts
\* the epoch join: whatever the other peers answer, no sync gives up before a
\* sound one was asked, and no way a sync ends keeps the next from starting.
Ahead == {p \in Peers : conduct[p] = "sound" /\ tip[p] > synced}
CatchesUp == Ahead # {} ~> (Ahead = {} \/ pivoted)
=============================================================================
