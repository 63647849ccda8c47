-------------------------------- MODULE Sync --------------------------------
(***************************************************************************)
(* How nodes exchange blocks: the sessions of internal/p2p, the messages   *)
(* getblocks, inv, getdata and block over TCP connections, and the         *)
(* goroutines behind them. Every session of node n with node m has a       *)
(* goroutine <<n, m>> that handles what m sends (processMessages), and a   *)
(* second one that asks m for blocks once (go handleSync); the miner of n  *)
(* is the goroutine <<n, n>>.                                              *)
(*                                                                         *)
(* Blocks carry rewards only, which AddBlock always accepts. Adding one    *)
(* takes two steps: the closure of Db.Update moves bc.tip, and the commit  *)
(* stores the block. A read between them finds a tip that is not stored,   *)
(* which some callers answer with an error and others dereference. That    *)
(* the commit succeeds is assumed here: a Db.Update that fails after it    *)
(* has moved bc.tip to a block that is then not stored is a matter of      *)
(* Ledger.                                                                 *)
(***************************************************************************)
EXTENDS Integers, Sequences

CONSTANTS
    Hash,       \* the hashes of the blocks there may be
    Genesis,    \* the hash of the genesis block, the same for all
    Nil,        \* a hash that is missing
    Node,       \* the nodes
    Miners,     \* the nodes that mine
    Limit,      \* how many hashes the answer to getblocks has at most (10)
    MaxDrops    \* bound: how many connections are lost

ASSUME SyncAssumption ==
    /\ Hash \subseteq Nat
    /\ Genesis \in Hash
    /\ Nil \notin Hash
    /\ Miners \subseteq Node
    /\ Limit \in Nat
    /\ MaxDrops \in Nat

VARIABLES
    parent,     \* the blocks mined anywhere: hash -> hash of the parent
    stored,     \* node -> the blocks in its database
    tip,        \* node -> bc.tip
    session,    \* <<n, m>> -> n's end of the connection: "none", "open" or "registered"
    syncing,    \* <<n, m>> -> the goroutine that asks m for blocks has yet to run
    chan,       \* <<n, m>> -> what n wrote and m has not read yet
    job,        \* <<n, m>> -> what the goroutine is doing
    up,         \* node -> its process is alive
    drops       \* how many connections were lost

vars == <<parent, stored, tip, session, syncing, chan, job, up, drops>>

Goroutine == Node \X Node
Link == {g \in Goroutine : g[1] # g[2]}
Back(g) == <<g[2], g[1]>>

GetBlocks(locator) == [type |-> "getblocks", locator |-> locator]
Inv(hashes) == [type |-> "inv", inv |-> hashes]
GetData(hashes) == [type |-> "getdata", data |-> hashes]
BlockMsg(hash) == [type |-> "block", block |-> hash]

\* A job is at a step of its handler or of the miner, with a block in hand, the hashes of a message
\* yet to be looked at, and the inventory it gathers.
Idle == [at |-> "idle", hash |-> Nil, rest |-> <<>>, inv |-> <<>>]
Does(at, hash) == [at |-> at, hash |-> hash, rest |-> <<>>, inv |-> <<>>]
GoesThrough(at, hashes) == [at |-> at, hash |-> Nil, rest |-> hashes, inv |-> <<>>]

At(g, at) == up[g[1]] /\ job[g].at = at
Goto(g, at) == job' = [job EXCEPT ![g].at = at]
Return(g) == job' = [job EXCEPT ![g] = Idle]

\* Write a message to the connection of g. What is written to a lost one is lost.
Sent(c, g, msg) == IF session[g] = "none" THEN c ELSE [c EXCEPT ![g] = Append(@, msg)]

Init ==
    /\ parent = [h \in {Genesis} |-> Nil]
    /\ stored = [n \in Node |-> {Genesis}]
    /\ tip = [n \in Node |-> Genesis]
    /\ session = [l \in Link |-> "none"]
    /\ syncing = [l \in Link |-> FALSE]
    /\ chan = [l \in Link |-> <<>>]
    /\ job = [g \in Goroutine |-> Idle]
    /\ up = [n \in Node |-> TRUE]
    /\ drops = 0

-----------------------------------------------------------------------------
(* Connections and sessions.                                                *)

\* Node l[1] dials l[2] and the two shake hands: their genesis blocks are equal. A connection
\* is only made anew after the goroutines of the last one have ended.
Connect(l) ==
    /\ \A k \in {l, Back(l)} :
        /\ up[k[1]] /\ session[k] = "none"
        /\ job[k] = Idle /\ ~syncing[k]
    /\ session' = [session EXCEPT ![l] = "open", ![Back(l)] = "open"]
    /\ UNCHANGED <<parent, stored, tip, syncing, chan, job, up, drops>>

\* An end of the connection registers the peer and starts its goroutines.
SetupPeerSession(l) ==
    /\ session[l] = "open"
    /\ session' = [session EXCEPT ![l] = "registered"]
    /\ syncing' = [syncing EXCEPT ![l] = TRUE]
    /\ UNCHANGED <<parent, stored, tip, chan, job, up, drops>>

\* The connection is lost with what is on its way, at both ends.
Drop(l) ==
    /\ drops < MaxDrops
    /\ session[l] # "none"
    /\ drops' = drops + 1
    /\ session' = [session EXCEPT ![l] = "none", ![Back(l)] = "none"]
    /\ chan' = [chan EXCEPT ![l] = <<>>, ![Back(l)] = <<>>]
    /\ UNCHANGED <<parent, stored, tip, syncing, job, up>>

\* A nil dereference ends the process, and its connections with it.
Panic(n) ==
    /\ up' = [up EXCEPT ![n] = FALSE]
    /\ session' = [l \in Link |-> IF n \in {l[1], l[2]} THEN "none" ELSE session[l]]
    /\ syncing' = [l \in Link |-> IF l[1] = n THEN FALSE ELSE syncing[l]]
    /\ chan' = [l \in Link |-> IF n \in {l[1], l[2]} THEN <<>> ELSE chan[l]]
    /\ job' = [g \in Goroutine |-> IF g[1] = n THEN Idle ELSE job[g]]
    /\ UNCHANGED <<parent, stored, tip, drops>>

-----------------------------------------------------------------------------
(* Asking for blocks and answering.                                         *)

\* The chain from a block down to the genesis block.
ChainFrom[h \in DOMAIN parent] ==
    IF parent[h] = Nil THEN <<h>> ELSE <<h>> \o ChainFrom[parent[h]]

\* GetBlockLocator: the tip, its parent and then steps of 2, 4, 8..., ten hashes at most. A
\* missing tip ends it at once. (The empty hash that stands for the genesis block's parent
\* matches nothing and is left out.)
Locator(n) ==
    IF tip[n] \notin stored[n] THEN {tip[n]}
    ELSE LET chain == ChainFrom[tip[n]]
         IN  {h \in stored[n] : \E i \in 0..9 : 2^i <= Len(chain) /\ h = chain[2^i]}

\* The goroutine a session starts with, or the handler of a block with an unknown parent,
\* sends a locator (handleSync).
HandleSyncOnce(l) ==
    /\ up[l[1]] /\ syncing[l]
    /\ syncing' = [syncing EXCEPT ![l] = FALSE]
    /\ chan' = Sent(chan, l, GetBlocks(Locator(l[1])))
    /\ UNCHANGED <<parent, stored, tip, session, job, up, drops>>

HandleSync(l) ==
    /\ At(l, "sync")
    /\ chan' = Sent(chan, l, GetBlocks(Locator(l[1])))
    /\ Return(l)
    /\ UNCHANGED <<parent, stored, tip, session, syncing, up, drops>>

\* Goroutine l may read its next message, one of a given type.
Reads(l, type) ==
    /\ At(l, "idle") /\ session[l] = "registered"
    /\ chan[Back(l)] # <<>> /\ Head(chan[Back(l)]).type = type

Msg(l) == Head(chan[Back(l)])
Rest(l) == [chan EXCEPT ![Back(l)] = Tail(@)]

\* What it could get wrong: the answer begins with the last block when the locator names none.
FindCommonBlockTip(n, locator, h) ==
    LET chain == ChainFrom[tip[n]]
    IN  IF \A i \in DOMAIN chain : chain[i] \notin locator THEN h = tip[n]
        ELSE \E i \in DOMAIN chain :
                /\ h = chain[i] /\ h \in locator
                /\ \A k \in 1..(i - 1) : chain[k] \notin locator

\* FindCommonBlock returns h: the first block on the way down from the tip that the locator names,
\* or the genesis block.
FindCommonBlock(n, locator, h) ==
    LET chain == ChainFrom[tip[n]]
    IN  \E i \in DOMAIN chain :
            /\ h = chain[i]
            /\ h \in locator \/ i = Len(chain)
            /\ \A k \in 1..(i - 1) : chain[k] \notin locator

\* A missing tip is an error of FindCommonBlock, and the request stays without an answer.
HandleGetBlocks(l) ==
    /\ Reads(l, "getblocks")
    /\ chan' = Rest(l)
    /\ IF tip[l[1]] \in stored[l[1]]
       THEN \E h \in stored[l[1]] :
                /\ FindCommonBlock(l[1], Msg(l).locator, h)
                /\ job' = [job EXCEPT ![l] = Does("walk", h)]
       ELSE UNCHANGED job
    /\ UNCHANGED <<parent, stored, tip, session, syncing, up, drops>>

Children(n, h) == {c \in stored[n] : parent[c] = h}

\* GetNextBlockHashes: from a block to the child that a scan of the bucket finds first, the one
\* with the least hash.
GetNextBlockHash(l) ==
    /\ At(l, "walk")
    /\ Len(job[l].inv) < Limit
    /\ \E next \in Children(l[1], job[l].hash) :
        /\ \A h \in Children(l[1], job[l].hash) : next <= h
        /\ job' = [job EXCEPT ![l].hash = next, ![l].inv = Append(@, next)]
    /\ UNCHANGED <<parent, stored, tip, session, syncing, chan, up, drops>>

SendInventory(l) ==
    /\ At(l, "walk")
    /\ Len(job[l].inv) = Limit \/ Children(l[1], job[l].hash) = {}
    /\ chan' = Sent(chan, l, Inv(job[l].inv))
    /\ Return(l)
    /\ UNCHANGED <<parent, stored, tip, session, syncing, up, drops>>

\* The hashes of an inventory are looked up one by one, and the unknown ones are asked for, if
\* there are any.
HandleInventory(l) ==
    /\ Reads(l, "inv")
    /\ chan' = Rest(l)
    /\ job' = [job EXCEPT ![l] = GoesThrough("unknown", Msg(l).inv)]
    /\ UNCHANGED <<parent, stored, tip, session, syncing, up, drops>>

CollectUnknownBlockHash(l) ==
    LET hash == Head(job[l].rest)
    IN  /\ At(l, "unknown") /\ job[l].rest # <<>>
        /\ job' = [job EXCEPT
            ![l].rest = Tail(@),
            ![l].inv = IF hash \in stored[l[1]] THEN @ ELSE Append(@, hash)]
        /\ UNCHANGED <<parent, stored, tip, session, syncing, chan, up, drops>>

SendGetData(l) ==
    /\ At(l, "unknown") /\ job[l].rest = <<>>
    /\ chan' = IF job[l].inv = <<>> THEN chan ELSE Sent(chan, l, GetData(job[l].inv))
    /\ Return(l)
    /\ UNCHANGED <<parent, stored, tip, session, syncing, up, drops>>

\* The blocks asked for are sent one by one; a hash that is not stored is passed over.
HandleGetData(l) ==
    /\ Reads(l, "getdata")
    /\ chan' = Rest(l)
    /\ job' = [job EXCEPT ![l] = GoesThrough("reply", Msg(l).data)]
    /\ UNCHANGED <<parent, stored, tip, session, syncing, up, drops>>

SendRequestedData(l) ==
    LET hash == Head(job[l].rest)
    IN  /\ At(l, "reply") /\ job[l].rest # <<>>
        /\ job' = [job EXCEPT ![l].rest = Tail(@)]
        /\ chan' = IF hash \in stored[l[1]] THEN Sent(chan, l, BlockMsg(hash)) ELSE chan
        /\ UNCHANGED <<parent, stored, tip, session, syncing, up, drops>>

\* A handler that has gone through its hashes returns.
AllReplied(l) ==
    /\ At(l, "reply") /\ job[l].rest = <<>>
    /\ Return(l)
    /\ UNCHANGED <<parent, stored, tip, session, syncing, chan, up, drops>>

-----------------------------------------------------------------------------
(* handleBlock and AddBlock.                                                *)

\* A block that is stored is ignored.
HandleBlock(l) ==
    /\ Reads(l, "block")
    /\ chan' = Rest(l)
    /\ IF Msg(l).block \in stored[l[1]]
       THEN UNCHANGED job
       ELSE job' = [job EXCEPT ![l] = Does("previous", Msg(l).block)]
    /\ UNCHANGED <<parent, stored, tip, session, syncing, up, drops>>

Quiet == UNCHANGED <<parent, stored, tip, session, syncing, chan, up, drops>>

ParentStored(g) == parent[job[g].hash] \in stored[g[1]]

\* What the lookup of the parent could get wrong: the orphan is dropped, or asked for again.
LookupPreviousDrops(l) ==
    /\ At(l, "previous")
    /\ IF ParentStored(l) THEN Goto(l, "last") ELSE Return(l)
    /\ Quiet

LookupPreviousAsksAgain(l) ==
    /\ At(l, "previous")
    /\ IF ParentStored(l)
       THEN Goto(l, "last") /\ UNCHANGED chan
       ELSE Return(l) /\ chan' = Sent(chan, l, GetData(<<job[l].hash>>))
    /\ UNCHANGED <<parent, stored, tip, session, syncing, up, drops>>

\* Without its parent a block is dropped, and the peer is asked for what lies between.
LookupPrevious(l) ==
    /\ At(l, "previous")
    /\ Goto(l, IF ParentStored(l) THEN "last" ELSE "sync")
    /\ Quiet

\* handleFork compares the parent with the last block, which is dereferenced.
ReadLastBlock(l) ==
    /\ At(l, "last")
    /\ IF tip[l[1]] \in stored[l[1]]
       THEN Goto(l, IF parent[job[l].hash] = tip[l[1]] THEN "check" ELSE "fork") /\ Quiet
       ELSE Panic(l[1])

\* GetForkChain finds no chain of a block that is not stored. If another goroutine stored it
\* since, the replay into fork.db dereferences nil (blocks carry no payments here).
GetForkChain(l) ==
    /\ At(l, "fork")
    /\ IF job[l].hash \notin stored[l[1]] THEN Goto(l, "check") /\ Quiet ELSE Panic(l[1])

\* What the order of the miner's calls could get wrong: the block is announced before it is added.
CheckValidAnnounces(g) ==
    /\ At(g, "check")
    /\ ParentStored(g)
    /\ chan' = [l \in Link |-> IF g = <<l[1], l[1]>> /\ session[l] = "registered"
                               THEN Append(chan[l], Inv(<<job[g].hash>>)) ELSE chan[l]]
    /\ Goto(g, "update")
    /\ UNCHANGED <<parent, stored, tip, session, syncing, up, drops>>

\* IsValid dereferences the parent.
CheckValid(g) ==
    /\ At(g, "check")
    /\ IF ParentStored(g) THEN Goto(g, "update") /\ Quiet ELSE Panic(g[1])

RunUpdate(g) ==
    /\ At(g, "update")
    /\ \A m \in Node : job[<<g[1], m>>].at # "commit"
    /\ tip' = [tip EXCEPT ![g[1]] = job[g].hash]
    /\ Goto(g, "commit")
    /\ UNCHANGED <<parent, stored, session, syncing, chan, up, drops>>

\* A handler is done with the commit. The miner goes on to announce its block.
Commit(g) ==
    /\ At(g, "commit")
    /\ stored' = [stored EXCEPT ![g[1]] = @ \cup {job[g].hash}]
    /\ IF g \in Link THEN Return(g) ELSE Goto(g, "announce")
    /\ UNCHANGED <<parent, tip, session, syncing, chan, up, drops>>

-----------------------------------------------------------------------------
(* The miner.                                                               *)

Height(h) == Len(ChainFrom[h])

\* CreateBlock takes the height from the last block and then bc.tip for the parent. On a parent
\* that is not stored yet the block has the right height only if the last block was another one
\* of the parent's height before. (A misfit on a stored parent has no effect and is left out.)
StartMining(n, h) ==
    /\ At(<<n, n>>, "idle")
    /\ h \notin DOMAIN parent
    /\ parent' = [x \in DOMAIN parent \cup {h} |-> IF x = h THEN tip[n] ELSE parent[x]]
    /\ \E at \in {"check", "misfit"} :
        /\ at = "check" => \E b \in stored[n] : Height(b) = Height(tip[n])
        /\ at = "misfit" => tip[n] \notin stored[n]
        /\ job' = [job EXCEPT ![<<n, n>>] = Does(at, h)]
    /\ UNCHANGED <<stored, tip, session, syncing, chan, up, drops>>

\* IsValid refuses the height, if the parent is there by then.
CheckMisfit(g) ==
    /\ At(g, "misfit")
    /\ IF ParentStored(g) THEN Return(g) /\ Quiet ELSE Panic(g[1])

\* Broadcast writes the inventory to every registered peer under the mutex of the map.
Broadcast(g) ==
    /\ At(g, "announce")
    /\ chan' = [l \in Link |-> IF l[1] = g[1] /\ session[l] = "registered"
                               THEN Append(chan[l], Inv(<<job[g].hash>>)) ELSE chan[l]]
    /\ Return(g)
    /\ UNCHANGED <<parent, stored, tip, session, syncing, up, drops>>

-----------------------------------------------------------------------------
Handle(l) ==
    \/ HandleSync(l)
    \/ HandleGetBlocks(l)
    \/ GetNextBlockHash(l)
    \/ SendInventory(l)
    \/ HandleInventory(l) \/ CollectUnknownBlockHash(l) \/ SendGetData(l)
    \/ HandleGetData(l) \/ SendRequestedData(l) \/ AllReplied(l)
    \/ HandleBlock(l)
    \/ LookupPrevious(l)
    \/ ReadLastBlock(l)
    \/ GetForkChain(l)

Add(g) == CheckValid(g) \/ CheckMisfit(g) \/ RunUpdate(g) \/ Commit(g) \/ Broadcast(g)

Next ==
    \/ \E l \in Link :
        \/ Connect(l) \/ SetupPeerSession(l) \/ Drop(l)
        \/ HandleSyncOnce(l) \/ Handle(l)
    \/ \E g \in Goroutine : Add(g)
    \/ \E n \in Miners, h \in Hash : StartMining(n, h)

Spec == Init /\ [][Next]_vars

\* A goroutine that can run does so, a message that was sent arrives unless the connection is
\* lost. Nobody has to connect or to mine.
Fairness ==
    /\ \A l \in Link : WF_vars(SetupPeerSession(l)) /\ WF_vars(HandleSyncOnce(l)) /\ WF_vars(Handle(l))
    /\ \A g \in Goroutine : WF_vars(Add(g))

FairSpec == Spec /\ Fairness
-----------------------------------------------------------------------------
(* Properties.                                                              *)

Message ==
    [type : {"getblocks"}, locator : SUBSET Hash]
    \cup [type : {"inv"}, inv : Seq(Hash)]
    \cup [type : {"getdata"}, data : Seq(Hash)]
    \cup [type : {"block"}, block : Hash]

Step ==
    {"idle", "sync", "walk", "unknown", "reply", "previous", "last", "fork", "check", "update",
     "commit", "announce", "misfit"}

Job ==
    {j \in [at : Step, hash : Hash \cup {Nil}, rest : Seq(Hash), inv : Seq(Hash)] :
        j.at \in Step \ {"idle", "unknown", "reply"} => j.hash \in Hash}

\* Every variable has its type, and a goroutine in the middle of AddBlock has a block.
TypeOK ==
    /\ DOMAIN parent \subseteq Hash
    /\ parent \in [DOMAIN parent -> Hash \cup {Nil}]
    /\ stored \in [Node -> SUBSET Hash]
    /\ tip \in [Node -> Hash]
    /\ session \in [Link -> {"none", "open", "registered"}]
    /\ syncing \in [Link -> BOOLEAN]
    /\ chan \in [Link -> Seq(Message)]
    /\ job \in [Goroutine -> Job]
    /\ up \in [Node -> BOOLEAN]
    /\ drops \in 0..MaxDrops

HasAll(n, hashes) == \A k \in DOMAIN hashes : hashes[k] \in stored[n]

\* What a message on its way from l[1] to l[2] names is stored by the one of the two that has it.
Answerable(l, msg) ==
    /\ msg.type = "inv" => HasAll(l[1], msg.inv)
    /\ msg.type = "getdata" => HasAll(l[2], msg.data)
    /\ msg.type = "block" => msg.block \in stored[l[1]]

\* What is asked for can be had: every block that is announced, asked for or on its way is
\* stored by the node that announced it, is asked for it or sent it, however the miner's
\* commits, the handlers and lost connections interleave. The handler of getdata passes over
\* a hash it does not find, and nothing asks again (sendRequestedData).
RequestsAnswerable == \A l \in Link : \A i \in DOMAIN chan[l] : Answerable(l, chan[l][i])

\* What a node has, with the block it is about to have.
Held(n) == stored[n] \cup {tip[n]}

\* A path of blocks, each the parent of the next, that begins above a block node n holds.
LeadsOn(n, hashes) ==
    /\ parent[hashes[1]] \in Held(n)
    /\ \A i \in 2..Len(hashes) : parent[hashes[i]] = hashes[i - 1]

\* An answer to a locator leads on from what the asker has, whatever both store, mine or fork off
\* while the locator is on its way and the answer is gathered: no node is sent along a path that
\* it cannot join (FindCommonBlock, GetNextBlockHashes). An inventory of one block may be an
\* announcement, whose parent the other need not have.
AnswersLeadOn ==
    \A l \in Link :
        /\ job[l].at = "walk" =>
            IF job[l].inv = <<>> THEN job[l].hash \in Held(l[2]) ELSE LeadsOn(l[2], job[l].inv)
        /\ \A i \in DOMAIN chan[l] :
            chan[l][i].type = "inv" /\ Len(chan[l][i].inv) > 1 => LeadsOn(l[2], chan[l][i].inv)

\* The exchange ends: a locator is answered by an inventory, that by a request and that by
\* blocks, one of which may have an unknown parent and lead to a locator again (handleBlock,
\* handleSync). Once mining and connecting are over nobody keeps asking for the same.
Quiesces == <>[](\A l \in Link : chan[l] = <<>> \/ session[Back(l)] # "registered")

\* No two of the blocks stored anywhere have the same parent.
OneBranch == \A h, k \in UNION {stored[n] : n \in Node} : parent[h] = parent[k] => h = k

\* Two nodes that stay connected end up with the same blocks, when no fork divides them: what one
\* mines is announced, and what it mined before they met is asked for, also when the request comes
\* while a block is being added and stays without an answer, or when an earlier connection was
\* lost half-way. (The chains may differ for ever where two blocks have the same parent, because
\* an answer follows one branch only, see GetNextBlockHash.)
CatchUp ==
    \A l \in Link :
        <>[](OneBranch /\ session[l] = "registered" /\ session[Back(l)] = "registered")
            => <>[](stored[l[1]] = stored[l[2]])
=============================================================================
