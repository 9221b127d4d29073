--------------------------- MODULE ConsensusHost ---------------------------
(***************************************************************************)
(* One node's consensus host (hopnet-consensus/src/host.rs), its shell     *)
(* (shell.rs) and its durable state (store.rs): the write-ahead log, the   *)
(* decided chain, and what a crash at any effect leaves behind.            *)
(*                                                                         *)
(* The Malachite engine is external.  It is modelled by what the host      *)
(* relies on: it answers one input with a list of effects that the host    *)
(* executes in order, it votes at most once in a round of one run, it      *)
(* counts a replayed vote of its own as cast, and it decides a value it    *)
(* holds as valid once a quorum voted for it.  Prevotes and precommits     *)
(* take the same path through the host, so a round has one vote; a quorum  *)
(* of the peers' votes is one input, always for the value Chosen[h] that   *)
(* the protocol agrees on.  The host runs its heights on demand, which is  *)
(* how spawn_engine configures it.                                         *)
(***************************************************************************)
EXTENDS Integers, Sequences, FiniteSets

CONSTANTS
    Values,       \* blocks
    Chosen,       \* the block each height agrees on
    Mine,         \* the <<height, round>> pairs this node proposes in
    MaxHeight,    \* bound: last height
    MaxRound,     \* bound: last round of a height
    MaxCrashes,   \* bound: crashes and fatal errors
    SealHeight,   \* the height whose block seals the epoch, 0 for none
    StashAhead,   \* PROPOSAL_STASH_AHEAD
    StashMax,     \* PROPOSAL_STASH_MAX
    Contention    \* whether a validation may end undetermined

Heights == 1 .. MaxHeight
Rounds == 0 .. MaxRound

ASSUME HostAssumption ==
    /\ Chosen \in [Heights -> Values] /\ {"nil", "none"} \cap Values = {}
    /\ Mine \subseteq (Nat \ {0}) \X Nat
    /\ MaxHeight \in Nat \ {0} /\ MaxRound \in Nat /\ MaxCrashes \in Nat
    /\ SealHeight \in 0 .. MaxHeight
    /\ StashAhead \in Nat /\ StashMax \in Nat
    /\ Contention \in BOOLEAN

VARIABLES
    \* durable
    chain,     \* decided_blocks: the decided values, by height
    wal,       \* consensus_wal: rows keyed by (height, seq)
    \* the process
    mode,      \* "down", or the Phase: "replay" (Recovering), "run" (Running)
    eng,       \* the engine's state
    walSeq,    \* HostCore::wal_seq
    blocks,    \* HostCore::blocks, as <<height, value>> pairs
    deferred,  \* HostCore::deferred_start, 0 for None
    stash,     \* HostCore::stashed_proposals
    buffered,  \* future heights whose quorum the engine has buffered
    replay,    \* WAL entries still to be replayed
    fx,        \* effects of the current input not yet executed
    todo,      \* what the current handler does after those effects
    needs,     \* NeedValue events the driver has not answered
    asked,     \* every NeedValue this process emitted
    \* history
    votes,     \* votes published, ever
    props,     \* proposals gossiped, ever
    crashes

process == <<mode, eng, walSeq, blocks, deferred, stash, buffered, replay, fx,
             todo, needs, asked>>
vars == <<chain, wal, process, votes, props, crashes>>

Last == Len(chain)
Sealed == SealHeight > 0 /\ Last >= SealHeight

\* WAL entries and wire messages; value is "nil" or "none" where there is none
Item(kind, h, r, v, ok) == [kind |-> kind, height |-> h, round |-> r, value |-> v, ok |-> ok]
Drain == Item("drain", 0, 0, "none", TRUE)
Effect(op, item) == [op |-> op, item |-> item]

-----------------------------------------------------------------------------
(* The engine (external): state and reaction [eng, fx] to an input *)

Fresh(h) == [height |-> h, round |-> 0, vote |-> "none", values |-> {},
             quorum |-> FALSE, done |-> FALSE]
Ignore(e) == [eng |-> e, fx |-> <<>>]

Holds(e, v) == \E x \in e.values : x.value = v /\ x.ok

\* The engine votes v in its round, unless it already voted there: the vote
\* is appended to the WAL, then published
Cast(e, v) ==
    IF e.vote # "none" \/ e.done THEN Ignore(e)
    ELSE LET vote == Item("vote", e.height, e.round, v, TRUE)
         IN  [eng |-> [e EXCEPT !.vote = v],
              fx |-> <<Effect("wal", vote), Effect("publish", vote)>>]

\* A quorum and a valid value held decide
Settle(r) ==
    IF r.eng.quorum /\ ~r.eng.done /\ Holds(r.eng, Chosen[r.eng.height])
    THEN [eng |-> [r.eng EXCEPT !.done = TRUE],
          fx |-> Append(r.fx, Effect("decide", Item("decide", r.eng.height, 0,
                                                    Chosen[r.eng.height], TRUE)))]
    ELSE r

\* After logging the input, what it led to
Logged(item, r) == Settle([eng |-> r.eng, fx |-> <<Effect("wal", item)>> \o r.fx])

OnValue(e, r, v, ok) ==
    LET x == [round |-> r, value |-> v, ok |-> ok]
        e1 == [e EXCEPT !.values = @ \cup {x}]
    IN  IF \E y \in e.values : y.round = r /\ y.value = v THEN Ignore(e)
        ELSE Logged(Item("value", e.height, r, v, ok),
                    IF r = e.round THEN Cast(e1, IF ok THEN v ELSE "nil") ELSE Ignore(e1))

OnQuorum(e) ==
    IF e.quorum \/ e.done THEN Ignore(e)
    ELSE Logged(Item("quorum", e.height, 0, "none", TRUE), Ignore([e EXCEPT !.quorum = TRUE]))

\* A polka certificate can make the engine vote; the certificate is not logged
OnPolka(e, v) == IF Holds(e, v) THEN Cast(e, v) ELSE Ignore(e)

OnProposeTimeout(e) ==
    Logged(Item("expire", e.height, e.round, "none", TRUE), Cast(e, "nil"))
OnRoundTimeout(e) ==
    Logged(Item("skip", e.height, e.round, "none", TRUE),
           Ignore([e EXCEPT !.round = @ + 1, !.vote = "none"]))

\* A replayed entry is an ordinary input; a replayed vote counts as cast
OnReplay(e, x) ==
    IF e.height # x.height \/ e.done THEN Ignore(e)
    ELSE CASE x.kind = "value"  -> OnValue(e, x.round, x.value, x.ok)
           [] x.kind = "quorum" -> OnQuorum(e)
           [] x.kind = "expire" -> OnProposeTimeout(e)
           [] x.kind = "skip"   -> OnRoundTimeout(e)
           [] x.kind = "vote"   -> Ignore(IF e.round = x.round /\ e.vote = "none"
                                          THEN [e EXCEPT !.vote = x.value] ELSE e)

\* A sync value carries its own commit certificate; it is not logged
OnSync(e, v, ok) ==
    IF ~ok THEN Ignore(e)
    ELSE Settle(Ignore([e EXCEPT !.values = @ \cup {[round |-> -1, value |-> v, ok |-> TRUE]},
                                 !.quorum = TRUE]))

\* GetValue is answered with NeedValue, except while replaying
Asks(e) == IF <<e.height, e.round>> \in Mine /\ ~e.done THEN {<<e.height, e.round>>} ELSE {}

-----------------------------------------------------------------------------
(* Boot, replay, crash *)

Down == /\ mode' = "down" /\ eng' = Fresh(1) /\ walSeq' = 0 /\ blocks' = {}
        /\ deferred' = 0 /\ stash' = {} /\ buffered' = {} /\ replay' = <<>>
        /\ fx' = <<>> /\ todo' = <<>> /\ needs' = {} /\ asked' = {}

Init == /\ chain = <<>> /\ wal = {}
        /\ mode = "down" /\ eng = Fresh(1) /\ walSeq = 0 /\ blocks = {}
        /\ deferred = 0 /\ stash = {} /\ buffered = {} /\ replay = <<>>
        /\ fx = <<>> /\ todo = <<>> /\ needs = {} /\ asked = {}
        /\ votes = {} /\ props = {} /\ crashes = 0

\* The process dies between two effects
Crash ==
    /\ mode # "down" /\ crashes < MaxCrashes
    /\ Down
    /\ crashes' = crashes + 1
    /\ UNCHANGED <<chain, wal, votes, props>>

\* wal_fetch: the rows of height h, by sequence number (0, 1, ...)
Rows(h) == {x \in wal : x.item.height = h}
Fetch(h) == [i \in {x.seq + 1 : x \in Rows(h)} |->
               (CHOOSE x \in Rows(h) : x.seq = i - 1).item]

\* start_height with a counter that forgets the persisted entries
StartHeightFromZero(h, seq, running) ==
    LET r == IF h \in buffered THEN OnQuorum(Fresh(h)) ELSE Ignore(Fresh(h))
        ask == IF running THEN Asks(r.eng) ELSE {}
    IN  /\ walSeq' = 0
        /\ eng' = r.eng
        /\ fx' = r.fx
        /\ buffered' = {b \in buffered : b > h}
        /\ needs' = needs \cup ask
        /\ asked' = asked \cup ask

\* start_height: the counter is set before StartHeight is fed, because the
\* engine replays the inputs it buffered for this height inside StartHeight
StartHeight(h, seq, running) ==
    LET r == IF h \in buffered THEN OnQuorum(Fresh(h)) ELSE Ignore(Fresh(h))
        ask == IF running THEN Asks(r.eng) ELSE {}
    IN  /\ walSeq' = seq
        /\ eng' = r.eng
        /\ fx' = r.fx
        /\ buffered' = {b \in buffered : b > h}
        /\ needs' = needs \cup ask
        /\ asked' = asked \cup ask

\* A boot that always waits for a wake signal
BootAlwaysDefers ==
    /\ mode = "down" /\ ~Sealed /\ Last + 1 <= MaxHeight
    /\ mode' = "run" /\ deferred' = Last + 1 /\ eng' = Fresh(Last + 1)
    /\ UNCHANGED <<walSeq, fx, buffered, needs, asked, replay, todo, chain, wal, blocks,
                   stash, votes, props, crashes>>

\* A boot that takes a sealed epoch for a running one
BootSealed ==
    LET h == Last + 1
        rows == Fetch(h)
    IN  /\ mode = "down" /\ h <= MaxHeight
        /\ IF rows = <<>>
           THEN /\ mode' = "run" /\ deferred' = h /\ eng' = Fresh(h)
                /\ UNCHANGED <<walSeq, fx, buffered, needs, asked, replay, todo>>
           ELSE /\ mode' = "replay"
                /\ StartHeight(h, Len(rows), FALSE)
                /\ replay' = rows
                /\ todo' = <<Drain>>
                /\ UNCHANGED deferred
        /\ UNCHANGED <<chain, wal, blocks, stash, votes, props, crashes>>

\* spawn_engine and start_or_defer: a sealed epoch never restarts its engine;
\* a height with no WAL rows is deferred
Boot ==
    LET h == Last + 1
        rows == Fetch(h)
    IN  /\ mode = "down" /\ ~Sealed /\ h <= MaxHeight
        /\ IF rows = <<>>
           THEN /\ mode' = "run" /\ deferred' = h /\ eng' = Fresh(h)
                /\ UNCHANGED <<walSeq, fx, buffered, needs, asked, replay, todo>>
           ELSE /\ mode' = "replay"
                /\ StartHeight(h, Len(rows), FALSE)
                /\ replay' = rows
                /\ todo' = <<Drain>>
                /\ UNCHANGED deferred
        /\ UNCHANGED <<chain, wal, blocks, stash, votes, props, crashes>>

\* A replay that leaves the block map empty
ReplayWithoutBlocks ==
    /\ mode = "replay" /\ fx = <<>> /\ replay # <<>>
    /\ eng' = OnReplay(eng, Head(replay)).eng
    /\ fx' = OnReplay(eng, Head(replay)).fx
    /\ replay' = Tail(replay)
    /\ UNCHANGED <<chain, wal, mode, walSeq, blocks, deferred, stash, buffered, todo,
                   needs, asked, votes, props, crashes>>

\* start_height's replay loop; an entry with a full block refills the map
Replay ==
    /\ mode = "replay" /\ fx = <<>> /\ replay # <<>>
    /\ LET x == Head(replay)
           r == OnReplay(eng, x)
       IN  /\ eng' = r.eng
           /\ fx' = r.fx
           /\ blocks' = IF x.kind = "value" THEN blocks \cup {<<x.height, x.value>>} ELSE blocks
    /\ replay' = Tail(replay)
    /\ UNCHANGED <<chain, wal, mode, walSeq, deferred, stash, buffered, todo, needs,
                   asked, votes, props, crashes>>

\* owed_proposal: this node proposes in the engine's round, has not voted
\* there and holds no proposal of its own for it
Owed == IF eng.vote = "none" /\ ~(\E x \in eng.values : x.round = eng.round)
        THEN Asks(eng) ELSE {}

\* A replay that takes the suppressed value requests for answered
ReplayDoneSilently ==
    /\ mode = "replay" /\ fx = <<>> /\ replay = <<>>
    /\ mode' = "run"
    /\ UNCHANGED <<chain, wal, eng, walSeq, blocks, deferred, stash, buffered, replay,
                   fx, todo, needs, asked, votes, props, crashes>>

\* The end of the replay: a value this node still owes its round is asked for
ReplayDone ==
    /\ mode = "replay" /\ fx = <<>> /\ replay = <<>>
    /\ mode' = "run"
    /\ needs' = needs \cup Owed
    /\ asked' = asked \cup Owed
    /\ UNCHANGED <<chain, wal, eng, walSeq, blocks, deferred, stash, buffered, replay,
                   fx, todo, votes, props, crashes>>

-----------------------------------------------------------------------------
(* Effects, executed in order *)

Next1(op) == mode # "down" /\ fx # <<>> /\ Head(fx).op = op
rest == <<deferred, stash, todo, replay, crashes>>

\* WalAppend, suppressed while replaying
WalAppend ==
    /\ Next1("wal")
    /\ fx' = Tail(fx)
    /\ IF mode = "replay" THEN UNCHANGED <<wal, walSeq>>
       ELSE /\ wal' = wal \cup {[seq |-> walSeq, item |-> Head(fx).item]}
            /\ walSeq' = walSeq + 1
    /\ UNCHANGED <<chain, mode, eng, blocks, buffered, needs, asked, votes, props, rest>>

\* PublishConsensusMsg
Publish ==
    /\ Next1("publish")
    /\ fx' = Tail(fx)
    /\ votes' = votes \cup {Head(fx).item}
    /\ UNCHANGED <<chain, wal, mode, eng, walSeq, blocks, buffered, needs, asked, props, rest>>

\* propose's broadcast, once the engine has handled Propose
Broadcast ==
    /\ Next1("gossip")
    /\ fx' = Tail(fx)
    /\ props' = props \cup {Head(fx).item}
    /\ UNCHANGED <<chain, wal, mode, eng, walSeq, blocks, buffered, needs, asked, votes, rest>>

\* A decide that always goes on to the next height
DecidePastSeal ==
    /\ Next1("decide")
    /\ LET h == Head(fx).item.height
       IN  /\ <<h, Head(fx).item.value>> \in blocks
           /\ chain' = Append(chain, Head(fx).item.value)
           /\ wal' = {x \in wal : x.item.height > h}
           /\ blocks' = {b \in blocks : b[1] > h}
           /\ deferred' = h + 1
    /\ walSeq' = 0
    /\ fx' = Tail(fx)
    /\ UNCHANGED <<mode, eng, buffered, needs, asked, stash, todo, replay, votes, props,
                   crashes>>

\* Decide: one transaction, then the next height is deferred or, after a seal,
\* does not come
Decide ==
    /\ Next1("decide")
    /\ LET h == Head(fx).item.height
           v == Head(fx).item.value
       IN  /\ <<h, v>> \in blocks
           /\ chain' = Append(chain, v)
           /\ wal' = {x \in wal : x.item.height > h}
           /\ blocks' = {b \in blocks : b[1] > h}
           /\ deferred' = IF h = SealHeight THEN 0 ELSE h + 1
    /\ walSeq' = 0
    /\ fx' = Tail(fx)
    /\ UNCHANGED <<mode, eng, buffered, needs, asked, stash, todo, replay, votes, props,
                   crashes>>

\* A failed effect that is logged and passed over
EffectFailsSilently ==
    /\ mode # "down" /\ crashes < MaxCrashes
    /\ fx # <<>> /\ Head(fx).op \in {"wal", "decide"}
    /\ fx' = Tail(fx)
    /\ crashes' = crashes + 1
    /\ UNCHANGED <<chain, wal, mode, eng, walSeq, blocks, deferred, stash, buffered,
                   replay, todo, needs, asked, votes, props>>

\* A durability effect that fails past its retry budget is fatal: the effects
\* after it are refused and the shell aborts the process
EffectFails ==
    /\ mode # "down" /\ crashes < MaxCrashes
    /\ fx # <<>> /\ Head(fx).op \in {"wal", "decide"}
    /\ Down
    /\ crashes' = crashes + 1
    /\ UNCHANGED <<chain, wal, votes, props>>

-----------------------------------------------------------------------------
(* Inputs; the shell takes one at a time *)

Quiet == mode = "run" /\ fx = <<>> /\ todo = <<>>
durable == <<chain, wal, votes, props, crashes>>

\* run_shell: a message at or past the deferred height resumes it first
Receive(m, tasks) ==
    /\ Quiet
    /\ IF deferred # 0 /\ m.height >= deferred
       THEN /\ StartHeight(deferred, Len(Fetch(deferred)), TRUE)
            /\ deferred' = 0
            /\ todo' = <<Drain>> \o tasks
       ELSE /\ todo' = tasks
            /\ UNCHANGED <<walSeq, eng, fx, buffered, needs, asked, deferred>>
    /\ UNCHANGED <<durable, mode, blocks, stash, replay>>

WireProposal(h, r, v) ==
    /\ <<h, r>> \notin Mine
    /\ LET m == Item("proposal", h, r, v, TRUE) IN Receive(m, <<m, Drain>>)
WireQuorum(h) == LET m == Item("quorum", h, 0, "none", TRUE) IN Receive(m, <<m, Drain>>)
WirePolka(h, r, v) == LET m == Item("polka", h, r, v, TRUE) IN Receive(m, <<m, Drain>>)
SyncValue(h) == LET m == Item("sync", h, 0, Chosen[h], TRUE) IN Receive(m, <<m>>)

\* HostInput::Resume
Resume ==
    /\ Quiet /\ deferred \in Heights
    /\ StartHeight(deferred, Len(Fetch(deferred)), TRUE)
    /\ deferred' = 0
    /\ todo' = <<Drain>>
    /\ UNCHANGED <<durable, mode, blocks, stash, replay>>

\* on_timeout; a decide cancels every timeout
Timeout ==
    /\ Quiet /\ deferred = 0 /\ ~eng.done
    /\ \E r \in {OnProposeTimeout(eng), OnRoundTimeout(eng)} :
         /\ r.eng.round <= MaxRound
         /\ (r.eng.round = eng.round) <=> (eng.vote = "none")
         /\ eng' = r.eng
         /\ fx' = r.fx
         /\ LET ask == IF r.eng.round = eng.round THEN {} ELSE Asks(r.eng)
            IN  needs' = needs \cup ask /\ asked' = asked \cup ask
    /\ UNCHANGED <<durable, mode, walSeq, blocks, deferred, stash, buffered, replay,
                   todo>>

\* A proposal that is gossiped before the engine has logged it
ProposeShipsFirst(h, r, v) ==
    /\ Quiet /\ <<h, r>> \in needs
    /\ needs' = needs \ {<<h, r>>}
    /\ blocks' = blocks \cup {<<h, v>>}
    /\ LET live == h = eng.height /\ r = eng.round /\ ~eng.done /\ deferred = 0
           res == IF live THEN OnValue(eng, r, v, TRUE) ELSE Ignore(eng)
       IN  /\ eng' = res.eng
           /\ fx' = <<Effect("gossip", Item("prop", h, r, v, TRUE))>> \o res.fx
    /\ UNCHANGED <<durable, mode, walSeq, deferred, stash, buffered, replay, todo,
                   asked>>

\* propose: the driver's block, which the engine takes only for its current
\* height and round; it is gossiped after the engine has handled it
Propose(h, r, v) ==
    /\ Quiet /\ <<h, r>> \in needs
    /\ needs' = needs \ {<<h, r>>}
    /\ blocks' = blocks \cup {<<h, v>>}
    /\ LET live == h = eng.height /\ r = eng.round /\ ~eng.done /\ deferred = 0
           res == IF live THEN OnValue(eng, r, v, TRUE) ELSE Ignore(eng)
       IN  /\ eng' = res.eng
           /\ fx' = Append(res.fx, Effect("gossip", Item("prop", h, r, v, TRUE)))
    /\ UNCHANGED <<durable, mode, walSeq, deferred, stash, buffered, replay, todo,
                   asked>>

-----------------------------------------------------------------------------
(* The rest of a handler *)

Task(kind) == mode = "run" /\ fx = <<>> /\ todo # <<>> /\ Head(todo).kind = kind
idle == <<durable, mode, walSeq, deferred, replay, needs, asked>>

\* Rule-8 validation is against the tip; contention that outlives the
\* IMMEDIATE retry counts as invalid
Verdicts(h) == IF Last # h - 1 THEN {FALSE} ELSE IF Contention THEN BOOLEAN ELSE {TRUE}

\* ingest_proposal
Ingest(m) ==
    \E ok \in Verdicts(m.height) :
        LET r == OnValue(eng, m.round, m.value, ok)
        IN  /\ eng' = r.eng
            /\ fx' = r.fx
            /\ blocks' = blocks \cup {<<m.height, m.value>>}

\* on_wire, a proposal: ingest it at its own height, stash it ahead of it
TakeProposal ==
    /\ Task("proposal")
    /\ LET m == Head(todo)
           room == m.height <= eng.height + StashAhead /\ Cardinality(stash) < StashMax
       IN  \/ /\ m.height > eng.height
              /\ stash' = IF room THEN stash \cup {m} ELSE stash
              /\ todo' = <<>>
              /\ UNCHANGED <<eng, fx, blocks>>
           \/ /\ m.height = eng.height
              /\ Ingest(m)
              /\ todo' = Tail(todo)
              /\ UNCHANGED stash
           \/ /\ m.height < eng.height
              /\ todo' = Tail(todo)
              /\ UNCHANGED <<eng, fx, blocks, stash>>
    /\ UNCHANGED <<idle, buffered>>

\* A drain that does not wait for a proposal's height
DrainStashEarly ==
    /\ Task("drain")
    /\ IF stash # {}
       THEN /\ \E m \in stash : Ingest(m) /\ stash' = stash \ {m}
            /\ UNCHANGED todo
       ELSE /\ todo' = Tail(todo)
            /\ UNCHANGED <<eng, fx, blocks, stash>>
    /\ UNCHANGED <<idle, buffered>>

\* drain_stashed_proposals
DrainStash ==
    /\ Task("drain")
    /\ IF \E m \in stash : m.height = eng.height
       THEN /\ \E m \in {x \in stash : x.height = eng.height} :
                 /\ Ingest(m)
                 /\ stash' = {x \in stash \ {m} : x.height >= eng.height}
            /\ UNCHANGED todo
       ELSE /\ stash' = {x \in stash : x.height > eng.height}
            /\ todo' = Tail(todo)
            /\ UNCHANGED <<eng, fx, blocks>>
    /\ UNCHANGED <<idle, buffered>>

\* on_wire, votes and certificates; the engine buffers a future height's
TakeVotes ==
    /\ Task("quorum") \/ Task("polka")
    /\ todo' = Tail(todo)
    /\ LET m == Head(todo)
           r == IF m.height # eng.height THEN Ignore(eng)
                ELSE IF m.kind = "quorum" THEN OnQuorum(eng)
                ELSE IF m.round = eng.round THEN OnPolka(eng, m.value)
                ELSE Ignore(eng)
       IN  /\ eng' = r.eng
           /\ fx' = r.fx
           /\ buffered' = IF m.kind = "quorum" /\ m.height > eng.height
                          THEN buffered \cup {m.height} ELSE buffered
    /\ UNCHANGED <<idle, blocks, stash>>

\* on_sync_value and ValidSyncValue; a value of the height just decided also
\* reaches the validation, which refuses it
TakeSync ==
    /\ Task("sync")
    /\ todo' = Tail(todo)
    /\ LET m == Head(todo)
       IN  IF m.height # eng.height THEN UNCHANGED <<eng, fx, blocks>>
           ELSE \E ok \in Verdicts(m.height) :
                  LET r == OnSync(eng, m.value, ok)
                  IN  /\ eng' = r.eng
                      /\ fx' = r.fx
                      /\ blocks' = blocks \cup {<<m.height, m.value>>}
    /\ UNCHANGED <<idle, stash, buffered>>

-----------------------------------------------------------------------------
Effects == WalAppend \/ Publish \/ Broadcast \/ Decide
Tasks == TakeProposal \/ DrainStash \/ TakeVotes \/ TakeSync
Inputs ==
    \/ \E h \in Heights, r \in Rounds, v \in Values :
         WireProposal(h, r, v) \/ WirePolka(h, r, v) \/ Propose(h, r, v)
    \/ \E h \in Heights : WireQuorum(h) \/ SyncValue(h)
    \/ Resume \/ Timeout

Next == Boot \/ Replay \/ ReplayDone \/ Effects \/ Tasks \/ Inputs
        \/ Crash \/ EffectFails

Spec == Init /\ [][Next]_vars

-----------------------------------------------------------------------------
(* Properties *)

Items == [kind : {"vote", "value", "quorum", "expire", "skip", "decide", "prop",
                  "proposal", "polka", "sync", "drain"},
          height : 0 .. MaxHeight, round : Rounds,
          value : Values \cup {"nil", "none"}, ok : BOOLEAN]

\* Type correctness of the durable state and of the process.
TypeOK ==
    /\ chain \in Seq(Values) /\ Last <= MaxHeight
    /\ wal \subseteq [seq : Nat, item : Items]
    /\ mode \in {"down", "replay", "run"}
    /\ eng \in [height : Heights, round : Rounds, vote : Values \cup {"nil", "none"},
                values : SUBSET [round : Rounds \cup {-1}, value : Values, ok : BOOLEAN],
                quorum : BOOLEAN, done : BOOLEAN]
    /\ walSeq \in Nat
    /\ blocks \subseteq Heights \X Values
    /\ deferred \in 0 .. MaxHeight + 1
    /\ stash \subseteq Items /\ Cardinality(stash) <= StashMax
    /\ buffered \subseteq Heights
    /\ replay \in Seq(Items) /\ todo \in Seq(Items)
    /\ fx \in Seq([op : {"wal", "publish", "gossip", "decide"}, item : Items])
    /\ needs \subseteq asked /\ asked \subseteq Mine
    /\ votes \subseteq Items /\ props \subseteq Items
    /\ crashes \in 0 .. MaxCrashes

\* Wherever the process dies, and however often, it never publishes two
\* different votes, and never ships two different blocks, for one (height,
\* round): the append precedes the publish, a failed append stops the input,
\* the replay restores what was logged, propose persists before it ships, and
\* owed_proposal asks again only when nothing was logged.
NoEquivocation ==
    \A sent \in {votes, props} : \A x, y \in sent :
        x.height = y.height /\ x.round = y.round => x.value = y.value

\* No effect the engine asks for is fatal to the host.  The next append never
\* reuses a (height, seq) key, which the UNIQUE constraint of consensus_wal
\* would refuse; and a decide is always for the height after the last decided
\* one with its block in the map, also when it is the outcome of a replay or
\* of a sync value (it never ends in MissingBlock).
NoFatalEffect ==
    /\ Next1("wal") /\ mode = "run" =>
         \A x \in Rows(Head(fx).item.height) : x.seq # walSeq
    /\ Next1("decide") =>
         LET x == Head(fx).item
         IN  x.height = Last + 1 /\ <<x.height, x.value>> \in blocks

\* Between two inputs, a proposer that still owes its round a value has been
\* asked for one by this process: a restart between NeedValue and propose
\* leaves nobody waiting (start_height after a replay).
ProposerAsked == Quiet /\ deferred = 0 => Owed \subseteq asked

\* Without storage contention the engine never holds a proposal of an open
\* height as invalid: proposals that arrive early are judged against the tip
\* they extend (the stash, drained at every height entry).
JudgedAtTheirTip == ~Contention /\ ~eng.done => \A x \in eng.values : x.ok

\* After the sealing block no later height is started, voted in, proposed for or
\* decided: not by proposals, votes and sync values that arrive for it, not by
\* a wake-up, a stashed proposal or a buffered quorum, and not by a restart
\* (Decide, spawn_engine).
SealIsTerminal ==
    Sealed => /\ Last = SealHeight /\ eng.height <= SealHeight
              /\ \A x \in votes \cup props : x.height <= SealHeight

\* Height h has a quorum and the value it agrees on in the log.
Decidable(h) == /\ \E x \in Rows(h) : x.item.kind = "quorum"
                /\ \E x \in Rows(h) : x.item.kind = "value" /\ x.item.ok
                                       /\ x.item.value = Chosen[h]

\* A decide whose quorum and value were logged survives the crash that
\* interrupted it: whenever the host waits for its next input, the replay has
\* carried out every decide the log calls for, and no quorum is left in the
\* log of a height nobody drives.
ReplayDecides == Quiet => \A h \in Heights : ~Decidable(h)
=============================================================================
