----------------------------- MODULE SyncProofs -----------------------------
(***************************************************************************)
(* Theorems about Sync for any number of nodes, blocks and lost            *)
(* connections: its types, that only stored blocks are announced, asked    *)
(* for and sent, that no node stores an orphan, and that the answer to a   *)
(* locator leads on from what the asker has.                               *)
(***************************************************************************)
EXTENDS Sync, Recursion, TLAPS

\* What a goroutine has in hand: the inventory it gathers for an answer is its own node's, the one
\* it goes through is its peer's, and the block it is about to announce is stored.
Sound(g) ==
    /\ job[g].at = "walk" => HasAll(g[1], job[g].inv)
    /\ job[g].at = "unknown" => HasAll(g[2], job[g].rest) /\ HasAll(g[2], job[g].inv)
    /\ job[g].at = "announce" => job[g].hash \in stored[g[1]]

JobsSound == \A g \in Goroutine : Sound(g)

SyncInv == TypeOK /\ JobsSound /\ RequestsAnswerable

-----------------------------------------------------------------------------
(* Lemmas.                                                                  *)

\* The types of the goroutines and links.
LEMMA LinkTypes ==
    ASSUME NEW l \in Link
    PROVE  /\ l \in Goroutine /\ l[1] \in Node /\ l[2] \in Node
           /\ Back(l) \in Link /\ Back(l)[1] = l[2] /\ Back(l)[2] = l[1] /\ Back(Back(l)) = l
BY DEF Link, Goroutine, Back

\* Blocks are only ever added, so a goroutine that does not move has what it had.
LEMMA StaysSound ==
    ASSUME NEW g \in Goroutine, Sound(g), job'[g] = job[g],
           \A n \in Node : stored[n] \subseteq stored'[n]
    PROVE  Sound(g)'
BY DEF Sound, HasAll, Goroutine

\* A message that may be sent keeps the invariant of the channels.
LEMMA Sends ==
    ASSUME TypeOK, RequestsAnswerable,
           NEW l \in Link, NEW msg \in Message, Answerable(l, msg),
           chan' = Sent(chan, l, msg), stored' = stored
    PROVE  chan' \in [Link -> Seq(Message)] /\ RequestsAnswerable'
<1>1. CASE session[l] = "none"
  BY <1>1 DEF Sent, RequestsAnswerable, Answerable, HasAll, TypeOK
<1>2. CASE session[l] # "none"
  <2>1. chan' = [chan EXCEPT ![l] = Append(chan[l], msg)]
    BY <1>2 DEF Sent
  <2>2. chan' \in [Link -> Seq(Message)]
    BY <2>1 DEF TypeOK
  <2>3. ASSUME NEW k \in Link, NEW i \in DOMAIN chan'[k]
        PROVE  Answerable(k, chan'[k][i])
    <3>1. CASE k # l
      BY <2>1, <3>1 DEF RequestsAnswerable, TypeOK
    <3>2. CASE k = l
      <4>1. chan[l] \in Seq(Message) /\ chan'[l] = Append(chan[l], msg)
        BY <2>1 DEF TypeOK
      <4>2. CASE i = Len(chan[l]) + 1
        BY <4>1, <4>2, <3>2
      <4>3. CASE i # Len(chan[l]) + 1
        <5>1. i \in DOMAIN chan[l] /\ chan'[l][i] = chan[l][i]
          BY <4>1, <4>3, <3>2
        <5> QED BY <5>1, <3>2 DEF RequestsAnswerable
      <4> QED BY <4>2, <4>3
    <3> QED BY <3>1, <3>2
  <2> QED BY <2>2, <2>3 DEF RequestsAnswerable, Answerable, HasAll
<1> QED BY <1>1, <1>2

\* Reading a message keeps it, and the message read is answerable.
LEMMA Receives ==
    ASSUME TypeOK, RequestsAnswerable,
           NEW l \in Link, NEW type, Reads(l, type), chan' = Rest(l), stored' = stored
    PROVE  /\ chan' \in [Link -> Seq(Message)] /\ RequestsAnswerable'
           /\ Msg(l) \in Message /\ Msg(l).type = type /\ Answerable(Back(l), Msg(l))
<1> DEFINE in == chan[Back(l)]
<1>1. Back(l) \in Link /\ in \in Seq(Message) /\ in # <<>>
  BY LinkTypes DEF TypeOK, Reads
<1>2. Msg(l) \in Message /\ Msg(l).type = type /\ Answerable(Back(l), Msg(l))
  <2>1. 1 \in DOMAIN in /\ Msg(l) = in[1]
    BY <1>1 DEF Msg
  <2> QED BY <2>1, <1>1 DEF Reads, Msg, RequestsAnswerable
<1>3. chan' = [chan EXCEPT ![Back(l)] = Tail(in)] /\ Tail(in) \in Seq(Message)
  BY <1>1 DEF Rest
<1>4. chan' \in [Link -> Seq(Message)]
  BY <1>1, <1>3 DEF TypeOK
<1>5. ASSUME NEW k \in Link, NEW i \in DOMAIN chan'[k]
      PROVE  Answerable(k, chan'[k][i])
  <2>1. CASE k # Back(l)
    BY <1>3, <2>1 DEF RequestsAnswerable, TypeOK
  <2>2. CASE k = Back(l)
    <3>1. chan'[k] = Tail(in)
      BY <1>1, <1>3, <2>2 DEF TypeOK
    <3>2. i + 1 \in DOMAIN in /\ chan'[k][i] = in[i + 1]
      BY <1>1, <3>1
    <3> QED BY <3>2, <2>2 DEF RequestsAnswerable
  <2> QED BY <2>1, <2>2
<1>6. RequestsAnswerable'
  BY <1>5 DEF RequestsAnswerable, Answerable, HasAll
<1> QED BY <1>2, <1>4, <1>6

\* When one goroutine moves, the others have in hand what they had.
LEMMA Moves ==
    ASSUME TypeOK, JobsSound, NEW g \in Goroutine, NEW j,
           job' = [job EXCEPT ![g] = j],
           \A n \in Node : stored[n] \subseteq stored'[n],
           Sound(g)'
    PROVE  JobsSound'
<1>1. ASSUME NEW k \in Goroutine PROVE Sound(k)'
  <2>1. CASE k = g
    BY <2>1
  <2>2. CASE k # g
    BY <2>2, StaysSound DEF TypeOK, JobsSound
  <2> QED BY <2>1, <2>2
<1> QED BY <1>1 DEF JobsSound

\* The channels stay as they are.
LEMMA KeepsChannels ==
    ASSUME TypeOK, RequestsAnswerable, chan' = chan,
           \A n \in Node : stored[n] \subseteq stored'[n]
    PROVE  chan' \in [Link -> Seq(Message)] /\ RequestsAnswerable'
<1>1. ASSUME NEW l \in Link, NEW i \in DOMAIN chan[l]
      PROVE  Answerable(l, chan[l][i])'
  <2>1. Answerable(l, chan[l][i]) /\ l[1] \in Node /\ l[2] \in Node
    BY LinkTypes DEF RequestsAnswerable
  <2> QED BY <2>1 DEF Answerable, HasAll
<1> QED BY <1>1 DEF RequestsAnswerable, TypeOK

\* A goroutine whose job keeps to its type.
LEMMA MovesTyped ==
    ASSUME TypeOK, NEW g \in Goroutine, NEW j \in Job, job' = [job EXCEPT ![g] = j]
    PROVE  job' \in [Goroutine -> Job]
BY DEF TypeOK

-----------------------------------------------------------------------------
(* Steps.                                                                   *)

\* The steps that neither move a goroutine nor write: connecting, a session, a lost connection.
LEMMA ConnectKeeps ==
    ASSUME SyncInv, NEW l \in Link, Connect(l) \/ SetupPeerSession(l) \/ Drop(l)
    PROVE  SyncInv'
<1>1. UNCHANGED <<parent, stored, tip, job, up>> /\ Back(l) \in Link
  BY LinkTypes DEF Connect, SetupPeerSession, Drop
<1>2. JobsSound'
  BY <1>1 DEF SyncInv, JobsSound, Sound, HasAll
<1>3. /\ session' \in [Link -> {"none", "open", "registered"}]
      /\ syncing' \in [Link -> BOOLEAN] /\ drops' \in 0..MaxDrops
  <2>1. CASE Connect(l)
    BY <1>1, <2>1 DEF SyncInv, TypeOK, Connect
  <2>2. CASE SetupPeerSession(l)
    BY <1>1, <2>2 DEF SyncInv, TypeOK, SetupPeerSession
  <2>3. CASE Drop(l)
    <3>1. drops' \in 0..MaxDrops
      <4>1. drops \in Nat /\ drops < MaxDrops /\ drops' = drops + 1 /\ MaxDrops \in Nat
        BY <2>3, SyncAssumption DEF SyncInv, TypeOK, Drop
      <4> QED BY <4>1
    <3> QED BY <3>1, <1>1, <2>3 DEF SyncInv, TypeOK, Drop
  <2> QED BY <2>1, <2>2, <2>3
<1>4. chan' \in [Link -> Seq(Message)] /\ RequestsAnswerable'
  <2>1. CASE chan' = chan
    BY <2>1, <1>1, KeepsChannels DEF SyncInv
  <2>2. CASE chan' = [chan EXCEPT ![l] = <<>>, ![Back(l)] = <<>>]
    <3>1. \A k \in Link : chan'[k] \in {chan[k], <<>>}
      BY <2>2, <1>1 DEF SyncInv, TypeOK
    <3>2. <<>> \in Seq(Message)
      OBVIOUS
    <3>3. chan' \in [Link -> Seq(Message)]
      BY <2>2, <3>2, <1>1 DEF SyncInv, TypeOK
    <3> QED BY <3>1, <3>3, <1>1 DEF SyncInv, RequestsAnswerable, Answerable, HasAll
  <2> QED BY <2>1, <2>2 DEF Connect, SetupPeerSession, Drop
<1> QED BY <1>1, <1>2, <1>3, <1>4 DEF SyncInv, TypeOK

\* A panic stops the goroutines of its node and empties its connections.
LEMMA PanicKeeps ==
    ASSUME SyncInv, NEW n \in Node, Panic(n)
    PROVE  SyncInv'
<1>1. UNCHANGED <<parent, stored, tip, drops>>
  BY DEF Panic
<1>2. Idle \in Job /\ Idle.at = "idle"
  BY DEF Idle, Job, Step
<1>3. \A g \in Goroutine : job'[g] \in {job[g], Idle}
  BY DEF Panic
<1>4. job' \in [Goroutine -> Job]
  BY <1>2 DEF Panic, SyncInv, TypeOK
<1>5. JobsSound'
  BY <1>1, <1>2, <1>3 DEF SyncInv, JobsSound, Sound, HasAll
<1>6. \A l \in Link : chan'[l] \in {chan[l], <<>>}
  BY DEF Panic
<1>7. chan' \in [Link -> Seq(Message)]
  BY <1>6 DEF Panic, SyncInv, TypeOK
<1>8. RequestsAnswerable'
  BY <1>1, <1>6 DEF SyncInv, RequestsAnswerable, Answerable, HasAll
<1>9. /\ session' \in [Link -> {"none", "open", "registered"}]
      /\ syncing' \in [Link -> BOOLEAN] /\ up' \in [Node -> BOOLEAN]
  BY DEF Panic, SyncInv, TypeOK
<1> QED BY <1>1, <1>4, <1>5, <1>7, <1>8, <1>9 DEF SyncInv, TypeOK

\* A step of one goroutine that changes nothing but its job and the channels.
LEMMA JobKeeps ==
    ASSUME SyncInv, NEW g \in Goroutine, NEW j \in Job,
           job' = [job EXCEPT ![g] = j], Sound(g)',
           chan' \in [Link -> Seq(Message)], RequestsAnswerable',
           UNCHANGED <<parent, stored, tip, session, syncing, up, drops>>
    PROVE  SyncInv'
<1>1. JobsSound'
  BY Moves DEF SyncInv
<1>2. TypeOK'
  BY MovesTyped DEF SyncInv, TypeOK
<1> QED BY <1>1, <1>2 DEF SyncInv

\* What each step of a handler starts from.
LEMMA HandlerTypes ==
    ASSUME SyncInv, NEW l \in Link
    PROVE  /\ TypeOK /\ RequestsAnswerable /\ job[l] \in Job /\ Sound(l)
           /\ l \in Goroutine /\ l[1] \in Node /\ l[2] \in Node
           /\ stored[l[1]] \subseteq Hash /\ tip[l[1]] \in Hash
           /\ Idle \in Job
BY LinkTypes DEF SyncInv, JobsSound, TypeOK, Idle, Job, Step

\* Asking for blocks, and the inventory in answer.
LEMMA RequestKeeps ==
    ASSUME SyncInv, NEW l \in Link,
           \/ HandleSyncOnce(l) \/ HandleSync(l)
           \/ HandleGetBlocks(l) \/ GetNextBlockHash(l) \/ SendInventory(l)
    PROVE  SyncInv'
<1>0. /\ TypeOK /\ RequestsAnswerable /\ job[l] \in Job /\ Sound(l)
      /\ l \in Goroutine /\ l[1] \in Node /\ l[2] \in Node
      /\ stored[l[1]] \subseteq Hash /\ tip[l[1]] \in Hash
      /\ Idle \in Job
  BY HandlerTypes
<1>2. GetBlocks(Locator(l[1])) \in Message /\ Answerable(l, GetBlocks(Locator(l[1])))
  <2>1. Locator(l[1]) \subseteq Hash
    BY <1>0 DEF Locator
  <2> QED BY <2>1 DEF GetBlocks, Message, Answerable
<1>3. CASE HandleSyncOnce(l)
  <2>1. chan' \in [Link -> Seq(Message)] /\ RequestsAnswerable'
    BY <1>0, <1>2, <1>3, Sends DEF HandleSyncOnce
  <2>2. JobsSound'
    BY <1>3 DEF HandleSyncOnce, SyncInv, JobsSound, Sound, HasAll
  <2> QED BY <1>0, <1>3, <2>1, <2>2 DEF HandleSyncOnce, SyncInv, TypeOK
<1>4. CASE HandleSync(l)
  <2>1. chan' \in [Link -> Seq(Message)] /\ RequestsAnswerable'
    BY <1>0, <1>2, <1>4, Sends DEF HandleSync
  <2>2. job' = [job EXCEPT ![l] = Idle] /\ Sound(l)'
    BY <1>0, <1>4 DEF HandleSync, Return, Sound, Idle, TypeOK
  <2> QED BY <1>0, <1>4, <2>1, <2>2, JobKeeps DEF HandleSync
<1>5. CASE HandleGetBlocks(l)
  <2>1. chan' \in [Link -> Seq(Message)] /\ RequestsAnswerable'
    BY <1>0, <1>5, Receives DEF HandleGetBlocks
  <2>2. CASE tip[l[1]] \in stored[l[1]]
    <3>1. PICK h \in stored[l[1]] : job' = [job EXCEPT ![l] = Does("walk", h)]
      BY <1>5, <2>2 DEF HandleGetBlocks
    <3>2. Does("walk", h) \in Job
      BY <1>0 DEF Does, Job, Step
    <3>3. Sound(l)'
      BY <1>0, <3>1 DEF Does, Sound, HasAll, TypeOK
    <3> QED BY <1>0, <1>5, <2>1, <3>1, <3>2, <3>3, JobKeeps DEF HandleGetBlocks
  <2>3. CASE tip[l[1]] \notin stored[l[1]]
    <3>1. UNCHANGED <<parent, stored, tip, session, syncing, job, up, drops>>
      BY <1>5, <2>3 DEF HandleGetBlocks
    <3>2. JobsSound'
      BY <3>1 DEF SyncInv, JobsSound, Sound, HasAll
    <3> QED BY <1>0, <2>1, <3>1, <3>2 DEF SyncInv, TypeOK
  <2> QED BY <2>2, <2>3
<1>6. CASE GetNextBlockHash(l)
  <2>1. PICK next \in Children(l[1], job[l].hash) :
            job' = [job EXCEPT ![l].hash = next, ![l].inv = Append(@, next)]
    BY <1>6 DEF GetNextBlockHash
  <2> DEFINE j == [job[l] EXCEPT !.hash = next, !.inv = Append(job[l].inv, next)]
  <2>2. next \in stored[l[1]] /\ next \in Hash
    BY <1>0 DEF Children
  <2>3. job' = [job EXCEPT ![l] = j]
    BY <1>0, <2>1 DEF TypeOK
  <2>4. j \in Job /\ j.at = "walk" /\ j.inv = Append(job[l].inv, next)
    <3>1. /\ job[l].at = "walk"
          /\ job[l] \in [at : Step, hash : Hash \cup {Nil}, rest : Seq(Hash), inv : Seq(Hash)]
      BY <1>0, <1>6 DEF GetNextBlockHash, At, Job
    <3>2. Append(job[l].inv, next) \in Seq(Hash)
      BY <2>2, <3>1
    <3> QED BY <2>2, <3>1, <3>2 DEF Job
  <2>5. HasAll(l[1], j.inv)
    <3>1. job[l].inv \in Seq(Hash) /\ HasAll(l[1], job[l].inv)
      BY <1>0, <1>6 DEF GetNextBlockHash, At, Sound, Job
    <3> QED BY <2>2, <2>4, <3>1 DEF HasAll
  <2>6. UNCHANGED <<parent, stored, tip, session, syncing, chan, up, drops>>
    BY <1>6 DEF GetNextBlockHash
  <2>7. Sound(l)'
    BY <1>0, <2>3, <2>4, <2>5, <2>6 DEF Sound, HasAll, TypeOK
  <2>8. chan' \in [Link -> Seq(Message)] /\ RequestsAnswerable'
    BY <1>0, <2>6, KeepsChannels
  <2> QED BY <1>0, <2>3, <2>4, <2>6, <2>7, <2>8, JobKeeps
<1>7. CASE SendInventory(l)
  <2>1. Inv(job[l].inv) \in Message /\ Answerable(l, Inv(job[l].inv))
    BY <1>0, <1>7 DEF SendInventory, At, Sound, Job, Inv, Message, Answerable
  <2>2. chan' \in [Link -> Seq(Message)] /\ RequestsAnswerable'
    BY <1>0, <1>7, <2>1, Sends DEF SendInventory
  <2>3. job' = [job EXCEPT ![l] = Idle] /\ Sound(l)'
    BY <1>0, <1>7 DEF SendInventory, Return, Sound, Idle, TypeOK
  <2> QED BY <1>0, <1>7, <2>2, <2>3, JobKeeps DEF SendInventory
<1> QED BY <1>3, <1>4, <1>5, <1>6, <1>7

\* Going through an inventory and through a request.
LEMMA InventoryKeeps ==
    ASSUME SyncInv, NEW l \in Link,
           \/ HandleInventory(l) \/ CollectUnknownBlockHash(l) \/ SendGetData(l)
           \/ HandleGetData(l) \/ SendRequestedData(l) \/ AllReplied(l)
    PROVE  SyncInv'
<1>0. /\ TypeOK /\ RequestsAnswerable /\ job[l] \in Job /\ Sound(l)
      /\ l \in Goroutine /\ l[1] \in Node /\ l[2] \in Node
      /\ Idle \in Job
  BY HandlerTypes
<1>1. CASE HandleInventory(l)
  <2> DEFINE j == GoesThrough("unknown", Msg(l).inv)
  <2>1. /\ chan' \in [Link -> Seq(Message)] /\ RequestsAnswerable'
        /\ Msg(l) \in Message /\ Msg(l).type = "inv" /\ Answerable(Back(l), Msg(l))
    BY <1>0, <1>1, Receives DEF HandleInventory
  <2>2. Msg(l).inv \in Seq(Hash) /\ HasAll(l[2], Msg(l).inv)
    BY <2>1, LinkTypes DEF Message, Answerable
  <2>3. j \in Job /\ j.at = "unknown" /\ j.rest = Msg(l).inv /\ j.inv = <<>>
    BY <2>2 DEF GoesThrough, Job, Step
  <2>4. job' = [job EXCEPT ![l] = j] /\ UNCHANGED stored
    BY <1>1 DEF HandleInventory
  <2>5. Sound(l)'
    BY <1>0, <2>2, <2>3, <2>4 DEF Sound, HasAll, TypeOK
  <2> QED BY <1>0, <1>1, <2>1, <2>3, <2>4, <2>5, JobKeeps DEF HandleInventory
<1>2. CASE CollectUnknownBlockHash(l)
  <2> DEFINE hash == Head(job[l].rest)
             inv == IF hash \in stored[l[1]] THEN job[l].inv ELSE Append(job[l].inv, hash)
             j == [job[l] EXCEPT !.rest = Tail(job[l].rest), !.inv = inv]
  <2>1. /\ job[l].at = "unknown" /\ job[l].rest # <<>>
        /\ job[l].rest \in Seq(Hash) /\ job[l].inv \in Seq(Hash)
        /\ HasAll(l[2], job[l].rest) /\ HasAll(l[2], job[l].inv)
    BY <1>0, <1>2 DEF CollectUnknownBlockHash, At, Sound, Job
  <2>2. hash \in Hash /\ hash \in stored[l[2]]
    <3>1. 1 \in DOMAIN job[l].rest /\ hash = job[l].rest[1]
      BY <2>1
    <3> QED BY <2>1, <3>1 DEF HasAll
  <2>3. Tail(job[l].rest) \in Seq(Hash) /\ HasAll(l[2], Tail(job[l].rest))
    BY <2>1 DEF HasAll
  <2>4. inv \in Seq(Hash) /\ HasAll(l[2], inv)
    BY <2>1, <2>2 DEF HasAll
  <2>5. job' = [job EXCEPT ![l] = j]
    BY <1>0, <1>2 DEF CollectUnknownBlockHash, TypeOK
  <2>6. j \in Job /\ j.at = "unknown" /\ j.rest = Tail(job[l].rest) /\ j.inv = inv
    BY <1>0, <2>1, <2>3, <2>4 DEF Job
  <2>7. UNCHANGED <<parent, stored, tip, session, syncing, chan, up, drops>>
    BY <1>2 DEF CollectUnknownBlockHash
  <2>8. Sound(l)'
    <3>1. job'[l] = j
      BY <1>0, <2>5 DEF TypeOK
    <3> HIDE DEF j, inv
    <3> QED BY <2>3, <2>4, <2>6, <2>7, <3>1 DEF Sound, HasAll
  <2>9. chan' \in [Link -> Seq(Message)] /\ RequestsAnswerable'
    BY <1>0, <2>7, KeepsChannels
  <2> HIDE DEF j
  <2> QED BY <1>0, <2>5, <2>6, <2>7, <2>8, <2>9, JobKeeps
<1>3. CASE SendGetData(l)
  <2>1. chan' \in [Link -> Seq(Message)] /\ RequestsAnswerable'
    <3>1. GetData(job[l].inv) \in Message /\ Answerable(l, GetData(job[l].inv))
      BY <1>0, <1>3 DEF SendGetData, At, Sound, Job, GetData, Message, Answerable
    <3>2. UNCHANGED stored
      BY <1>3 DEF SendGetData
    <3>3. CASE chan' = chan
      BY <1>0, <3>2, <3>3, KeepsChannels
    <3>4. CASE chan' = Sent(chan, l, GetData(job[l].inv))
      BY <1>0, <3>1, <3>2, <3>4, Sends
    <3> QED BY <1>3, <3>3, <3>4 DEF SendGetData
  <2>2. job' = [job EXCEPT ![l] = Idle] /\ Sound(l)'
    BY <1>0, <1>3 DEF SendGetData, Return, Sound, Idle, TypeOK
  <2> QED BY <1>0, <1>3, <2>1, <2>2, JobKeeps DEF SendGetData
<1>4. CASE HandleGetData(l)
  <2> DEFINE j == GoesThrough("reply", Msg(l).data)
  <2>1. /\ chan' \in [Link -> Seq(Message)] /\ RequestsAnswerable'
        /\ Msg(l) \in Message /\ Msg(l).type = "getdata"
    BY <1>0, <1>4, Receives DEF HandleGetData
  <2>2. j \in Job /\ j.at = "reply"
    BY <2>1 DEF Message, GoesThrough, Job, Step
  <2>3. job' = [job EXCEPT ![l] = j]
    BY <1>4 DEF HandleGetData
  <2>4. Sound(l)'
    BY <1>0, <2>2, <2>3 DEF Sound, TypeOK
  <2> QED BY <1>0, <1>4, <2>1, <2>2, <2>3, <2>4, JobKeeps DEF HandleGetData
<1>5. CASE SendRequestedData(l)
  <2> DEFINE hash == Head(job[l].rest)
             j == [job[l] EXCEPT !.rest = Tail(job[l].rest)]
  <2>1. job[l].at = "reply" /\ job[l].rest # <<>> /\ job[l].rest \in Seq(Hash)
    BY <1>0, <1>5 DEF SendRequestedData, At, Job
  <2>2. hash \in Hash /\ Tail(job[l].rest) \in Seq(Hash)
    BY <2>1
  <2>3. chan' \in [Link -> Seq(Message)] /\ RequestsAnswerable'
    <3>1. UNCHANGED stored
      BY <1>5 DEF SendRequestedData
    <3>2. CASE hash \notin stored[l[1]]
      <4>1. chan' = chan
        BY <1>5, <3>2 DEF SendRequestedData
      <4> QED BY <1>0, <3>1, <4>1, KeepsChannels
    <3>3. CASE hash \in stored[l[1]]
      <4>1. BlockMsg(hash) \in Message /\ Answerable(l, BlockMsg(hash))
        BY <2>2, <3>3 DEF BlockMsg, Message, Answerable
      <4>2. chan' = Sent(chan, l, BlockMsg(hash))
        BY <1>5, <3>3 DEF SendRequestedData
      <4> QED BY <1>0, <3>1, <4>1, <4>2, Sends
    <3> QED BY <3>2, <3>3
  <2>4. job' = [job EXCEPT ![l] = j]
    BY <1>0, <1>5 DEF SendRequestedData, TypeOK
  <2>5. j \in Job /\ j.at = "reply"
    BY <1>0, <2>1, <2>2 DEF Job
  <2>6. Sound(l)'
    BY <1>0, <2>4, <2>5 DEF Sound, TypeOK
  <2> HIDE DEF j
  <2> QED BY <1>0, <1>5, <2>3, <2>4, <2>5, <2>6, JobKeeps DEF SendRequestedData
<1>6. CASE AllReplied(l)
  <2>1. chan' \in [Link -> Seq(Message)] /\ RequestsAnswerable'
    BY <1>0, <1>6, KeepsChannels DEF AllReplied
  <2>2. job' = [job EXCEPT ![l] = Idle] /\ Sound(l)'
    BY <1>0, <1>6 DEF AllReplied, Return, Sound, Idle, TypeOK
  <2> QED BY <1>0, <1>6, <2>1, <2>2, JobKeeps DEF AllReplied
<1> QED BY <1>1, <1>2, <1>3, <1>4, <1>5, <1>6

\* A block received, on its way through handleBlock: no step before AddBlock changes the store.
LEMMA HandleBlockKeeps ==
    ASSUME SyncInv, NEW l \in Link,
           \/ HandleBlock(l) \/ LookupPrevious(l) \/ ReadLastBlock(l) \/ GetForkChain(l)
    PROVE  SyncInv'
<1>0. /\ TypeOK /\ RequestsAnswerable /\ job[l] \in Job /\ Sound(l)
      /\ l \in Goroutine /\ l[1] \in Node
      /\ Idle \in Job
  BY HandlerTypes
<1>1. CASE HandleBlock(l)
  <2>1. /\ chan' \in [Link -> Seq(Message)] /\ RequestsAnswerable'
        /\ Msg(l) \in Message /\ Msg(l).type = "block"
    BY <1>0, <1>1, Receives DEF HandleBlock
  <2>2. UNCHANGED <<parent, stored, tip, session, syncing, up, drops>>
    BY <1>1 DEF HandleBlock
  <2>3. CASE UNCHANGED job
    <3>1. JobsSound'
      BY <2>2, <2>3 DEF SyncInv, JobsSound, Sound, HasAll
    <3> QED BY <1>0, <2>1, <2>2, <2>3, <3>1 DEF SyncInv, TypeOK
  <2>4. CASE job' = [job EXCEPT ![l] = Does("previous", Msg(l).block)]
    <3>1. Does("previous", Msg(l).block) \in Job
      BY <2>1 DEF Message, Does, Job, Step
    <3>2. Sound(l)'
      BY <1>0, <2>4 DEF Does, Sound, TypeOK
    <3> QED BY <1>0, <2>1, <2>2, <2>4, <3>1, <3>2, JobKeeps
  <2> QED BY <1>1, <2>3, <2>4 DEF HandleBlock
<1>2. ASSUME NEW at \in {"last", "sync", "fork", "check"},
             job[l].at \in {"previous", "last", "fork"}, Goto(l, at), Quiet
      PROVE  SyncInv'
  <2> DEFINE j == [job[l] EXCEPT !.at = at]
  <2>1. job' = [job EXCEPT ![l] = j]
    BY <1>0, <1>2 DEF Goto, TypeOK
  <2>2. j \in Job /\ j.at = at
    BY <1>0, <1>2 DEF Job, Step
  <2>3. Sound(l)'
    BY <1>0, <2>1, <2>2 DEF Sound, TypeOK
  <2>4. chan' \in [Link -> Seq(Message)] /\ RequestsAnswerable'
    BY <1>0, <1>2, KeepsChannels DEF Quiet
  <2> HIDE DEF j
  <2> QED BY <1>0, <1>2, <2>1, <2>2, <2>3, <2>4, JobKeeps DEF Quiet
<1>3. CASE LookupPrevious(l)
  BY <1>2, <1>3 DEF LookupPrevious, At
<1>4. CASE ReadLastBlock(l)
  BY <1>0, <1>2, <1>4, PanicKeeps DEF ReadLastBlock, At
<1>5. CASE GetForkChain(l)
  BY <1>0, <1>2, <1>5, PanicKeeps DEF GetForkChain, At
<1> QED BY <1>1, <1>3, <1>4, <1>5

\* AddBlock, by a handler or by the miner, and what the miner announces.
LEMMA AddKeeps ==
    ASSUME SyncInv, NEW g \in Goroutine, Add(g)
    PROVE  SyncInv'
<1>0. /\ TypeOK /\ RequestsAnswerable /\ JobsSound /\ job[g] \in Job /\ g[1] \in Node
      /\ job \in [Goroutine -> Job] /\ stored \in [Node -> SUBSET Hash]
      /\ Idle \in Job
  BY DEF SyncInv, JobsSound, TypeOK, Goroutine, Idle, Job, Step
<1>1. CASE CheckValid(g)
  <2>1. CASE Goto(g, "update") /\ Quiet
    <3> DEFINE j == [job[g] EXCEPT !.at = "update"]
    <3>1. job' = [job EXCEPT ![g] = j]
      BY <1>0, <2>1 DEF Goto
    <3>2. j \in Job /\ j.at = "update"
      BY <1>0, <1>1 DEF CheckValid, At, Job, Step
    <3>3. Sound(g)'
      BY <1>0, <3>1, <3>2 DEF Sound
    <3>4. chan' \in [Link -> Seq(Message)] /\ RequestsAnswerable'
      BY <1>0, <2>1, KeepsChannels DEF Quiet
    <3> HIDE DEF j
    <3> QED BY <2>1, <3>1, <3>2, <3>3, <3>4, JobKeeps DEF Quiet
  <2>2. CASE Panic(g[1])
    BY <1>0, <2>2, PanicKeeps
  <2> QED BY <1>1, <2>1, <2>2 DEF CheckValid
<1>2. CASE CheckMisfit(g)
  <2>1. CASE Return(g) /\ Quiet
    <3>1. job' = [job EXCEPT ![g] = Idle] /\ Sound(g)'
      BY <1>0, <2>1 DEF Return, Sound, Idle
    <3>2. chan' \in [Link -> Seq(Message)] /\ RequestsAnswerable'
      BY <1>0, <2>1, KeepsChannels DEF Quiet
    <3> QED BY <1>0, <2>1, <3>1, <3>2, JobKeeps DEF Quiet
  <2>2. CASE Panic(g[1])
    BY <1>0, <2>2, PanicKeeps
  <2> QED BY <1>2, <2>1, <2>2 DEF CheckMisfit
<1>3. CASE RunUpdate(g)
  <2> DEFINE j == [job[g] EXCEPT !.at = "commit"]
  <2>1. job' = [job EXCEPT ![g] = j]
    BY <1>0, <1>3 DEF RunUpdate, Goto
  <2>2. j \in Job /\ j.at = "commit" /\ job[g].hash \in Hash
    BY <1>0, <1>3 DEF RunUpdate, At, Job, Step
  <2>3. UNCHANGED <<parent, stored, session, syncing, chan, up, drops>>
    BY <1>3 DEF RunUpdate
  <2>4. tip' \in [Node -> Hash]
    BY <1>0, <1>3, <2>2 DEF RunUpdate, TypeOK
  <2>5. Sound(g)'
    BY <1>0, <2>1, <2>2 DEF Sound
  <2> HIDE DEF j
  <2>6. JobsSound'
    BY <1>0, <2>1, <2>3, <2>5, Moves
  <2>7. job' \in [Goroutine -> Job]
    BY <1>0, <2>1, <2>2
  <2>8. chan' \in [Link -> Seq(Message)] /\ RequestsAnswerable'
    BY <1>0, <2>3, KeepsChannels
  <2> QED BY <1>0, <2>3, <2>4, <2>6, <2>7, <2>8 DEF SyncInv, TypeOK
<1>4. CASE Commit(g)
  <2>1. PICK j \in Job : /\ job' = [job EXCEPT ![g] = j]
                         /\ j.at \in {"idle", "announce"}
                         /\ j.at = "announce" => j.hash = job[g].hash
    <3>1. CASE Return(g)
      BY <1>0, <3>1 DEF Return, Idle
    <3>2. CASE Goto(g, "announce")
      <4> DEFINE j == [job[g] EXCEPT !.at = "announce"]
      <4>1. job' = [job EXCEPT ![g] = j]
        BY <1>0, <3>2 DEF Goto
      <4>2. j \in Job /\ j.at = "announce" /\ j.hash = job[g].hash
        BY <1>0, <1>4 DEF Commit, At, Job, Step
      <4> HIDE DEF j
      <4> QED BY <4>1, <4>2
    <3> QED BY <1>4, <3>1, <3>2 DEF Commit
  <2>2. job[g].hash \in Hash
    BY <1>0, <1>4 DEF Commit, At, Job, Step
  <2>3. /\ stored' = [stored EXCEPT ![g[1]] = @ \cup {job[g].hash}]
        /\ UNCHANGED <<parent, tip, session, syncing, chan, up, drops>>
    BY <1>4 DEF Commit
  <2>4. /\ stored' \in [Node -> SUBSET Hash] /\ \A n \in Node : stored[n] \subseteq stored'[n]
        /\ job[g].hash \in stored'[g[1]]
    BY <1>0, <2>2, <2>3
  <2>5. Sound(g)'
    BY <1>0, <2>1, <2>4 DEF Sound
  <2>6. JobsSound'
    BY <1>0, <2>1, <2>4, <2>5, Moves
  <2>7. chan' \in [Link -> Seq(Message)] /\ RequestsAnswerable'
    BY <1>0, <2>3, <2>4, KeepsChannels
  <2>8. job' \in [Goroutine -> Job]
    BY <1>0, <2>1
  <2> QED BY <1>0, <2>3, <2>4, <2>6, <2>7, <2>8 DEF SyncInv, TypeOK
<1>5. CASE Broadcast(g)
  <2> DEFINE msg == Inv(<<job[g].hash>>)
  <2>1. job[g].hash \in Hash /\ job[g].hash \in stored[g[1]]
    BY <1>0, <1>5 DEF Broadcast, At, Job, Step, JobsSound, Sound
  <2>2. msg \in Message /\ \A l \in Link : l[1] = g[1] => Answerable(l, msg)
    BY <2>1 DEF Inv, Message, Answerable, HasAll
  <2>3. /\ chan' = [l \in Link |-> IF l[1] = g[1] /\ session[l] = "registered"
                                   THEN Append(chan[l], msg) ELSE chan[l]]
        /\ job' = [job EXCEPT ![g] = Idle]
        /\ UNCHANGED <<parent, stored, tip, session, syncing, up, drops>>
    BY <1>5 DEF Broadcast, Return
  <2> HIDE DEF msg
  <2>4. chan' \in [Link -> Seq(Message)]
    BY <1>0, <2>2, <2>3 DEF TypeOK
  <2>5. ASSUME NEW l \in Link, NEW i \in DOMAIN chan'[l]
        PROVE  Answerable(l, chan'[l][i])
    <3>1. CASE chan'[l] = chan[l]
      BY <1>0, <3>1 DEF RequestsAnswerable
    <3>2. CASE l[1] = g[1] /\ chan'[l] = Append(chan[l], msg)
      <4>1. chan[l] \in Seq(Message)
        BY <1>0 DEF TypeOK
      <4>2. CASE i = Len(chan[l]) + 1
        BY <2>2, <3>2, <4>1, <4>2
      <4>3. CASE i # Len(chan[l]) + 1
        <5>1. i \in DOMAIN chan[l] /\ chan'[l][i] = chan[l][i]
          BY <3>2, <4>1, <4>3
        <5> QED BY <1>0, <5>1 DEF RequestsAnswerable
      <4> QED BY <4>2, <4>3
    <3> QED BY <2>3, <3>1, <3>2
  <2>6. RequestsAnswerable'
    BY <2>3, <2>5 DEF RequestsAnswerable, Answerable, HasAll
  <2>7. Sound(g)'
    BY <1>0, <2>3 DEF Sound, Idle
  <2> QED BY <1>0, <2>3, <2>4, <2>6, <2>7, JobKeeps
<1> QED BY <1>1, <1>2, <1>3, <1>4, <1>5 DEF Add

\* The miner starts with a block that nobody has.
LEMMA StartMiningKeeps ==
    ASSUME SyncInv, NEW n \in Miners, NEW h \in Hash, StartMining(n, h)
    PROVE  SyncInv'
<1> DEFINE g == <<n, n>>
<1>0. TypeOK /\ RequestsAnswerable /\ g \in Goroutine /\ tip[n] \in Hash
  BY SyncAssumption DEF SyncInv, TypeOK, Goroutine
<1>1. PICK at \in {"check", "misfit"} : job' = [job EXCEPT ![g] = Does(at, h)]
  BY DEF StartMining
<1>2. UNCHANGED <<stored, tip, session, syncing, chan, up, drops>>
  BY DEF StartMining
<1>3. Does(at, h) \in Job
  BY DEF Does, Job, Step
<1>4. Sound(g)'
  BY <1>0, <1>1 DEF Does, Sound, TypeOK
<1> HIDE DEF g
<1>5. JobsSound'
  BY <1>0, <1>1, <1>2, <1>4, Moves DEF SyncInv
<1>6. job' \in [Goroutine -> Job]
  BY <1>0, <1>1, <1>3, MovesTyped
<1>7. chan' \in [Link -> Seq(Message)] /\ RequestsAnswerable'
  BY <1>0, <1>2, KeepsChannels
<1>8. DOMAIN parent' \subseteq Hash /\ parent' \in [DOMAIN parent' -> Hash \cup {Nil}]
  BY <1>0 DEF StartMining, TypeOK
<1> QED BY <1>0, <1>2, <1>5, <1>6, <1>7, <1>8 DEF SyncInv, TypeOK

-----------------------------------------------------------------------------
(* Types and requests.                                                      *)

LEMMA SyncInvInit == Init => SyncInv
<1> SUFFICES ASSUME Init PROVE SyncInv
  OBVIOUS
<1>1. Idle \in Job /\ Idle.at = "idle"
  BY DEF Idle, Job, Step
<1>2. TypeOK
  BY <1>1, SyncAssumption DEF Init, TypeOK
<1>3. JobsSound
  BY <1>1 DEF Init, JobsSound, Sound
<1>4. RequestsAnswerable
  BY DEF Init, RequestsAnswerable
<1> QED BY <1>2, <1>3, <1>4 DEF SyncInv

LEMMA SyncInvNext == SyncInv /\ [Next]_vars => SyncInv'
<1> SUFFICES ASSUME SyncInv, [Next]_vars PROVE SyncInv'
  OBVIOUS
<1>1. ASSUME NEW l \in Link,
             Connect(l) \/ SetupPeerSession(l) \/ Drop(l) \/ HandleSyncOnce(l) \/ Handle(l)
      PROVE  SyncInv'
  BY <1>1, ConnectKeeps, RequestKeeps, InventoryKeeps, HandleBlockKeeps DEF Handle
<1>2. ASSUME NEW g \in Goroutine, Add(g) PROVE SyncInv'
  BY <1>2, AddKeeps
<1>3. ASSUME NEW n \in Miners, NEW h \in Hash, StartMining(n, h) PROVE SyncInv'
  BY <1>3, StartMiningKeeps
<1>4. CASE UNCHANGED vars
  <2>1. UNCHANGED <<parent, stored, tip, session, syncing, chan, job, up, drops>>
    BY <1>4 DEF vars
  <2> QED BY <2>1 DEF SyncInv, TypeOK, JobsSound, Sound, RequestsAnswerable, Answerable, HasAll
<1> QED BY <1>1, <1>2, <1>3, <1>4 DEF Next

LEMMA SyncInvariant == Spec => []SyncInv
BY SyncInvInit, SyncInvNext, PTL DEF Spec

\* Every variable of the exchange keeps its type; a goroutine that is adding a block has one.
THEOREM SyncTypeCorrect == Spec => []TypeOK
<1>1. SyncInv => TypeOK
  BY DEF SyncInv
<1> QED BY <1>1, SyncInvariant, PTL

\* What a node announces or sends it has stored, and what it is asked for it has stored: no
\* request of handleInventory is passed over by sendRequestedData, whatever the miners' commits,
\* the other sessions and lost connections do in between, for any number of nodes.
THEOREM RequestsStayAnswerable == Spec => []RequestsAnswerable
<1>1. SyncInv => RequestsAnswerable
  BY DEF SyncInv
<1> QED BY <1>1, SyncInvariant, PTL

-----------------------------------------------------------------------------
(* The blocks and what the nodes have of them.                              *)

\* The blocks mined are a tree below the genesis block: going from a block to its parent ends there.
Rooted ==
    /\ Genesis \in DOMAIN parent /\ parent[Genesis] = Nil
    /\ \A h \in DOMAIN parent \ {Genesis} : parent[h] \in DOMAIN parent
    /\ \E rank \in [DOMAIN parent -> Nat] :
        \A h \in DOMAIN parent \ {Genesis} : rank[parent[h]] < rank[h]

\* Every block that a node or a goroutine has is one that was mined, and what a node stores comes
\* with its parents.
Known ==
    /\ \A n \in Node :
        /\ Genesis \in stored[n] /\ stored[n] \subseteq DOMAIN parent
        /\ tip[n] \in DOMAIN parent
        /\ \A h \in stored[n] \ {Genesis} : parent[h] \in stored[n]
    /\ \A g \in Goroutine : job[g].hash \in DOMAIN parent \cup {Nil}

\* The tip of a node that runs is stored, but while a goroutine commits it.
Committing ==
    /\ \A g \in Goroutine :
        /\ job[g].at \in {"update", "commit"} => ParentStored(g)
        /\ job[g].at = "commit" => tip[g[1]] = job[g].hash
    /\ \A n \in Node :
        up[n] /\ tip[n] \notin stored[n] => \E m \in Node : job[<<n, m>>].at = "commit"

ChainInv == Rooted /\ Known /\ Committing

\* What a goroutine may have in hand after a step of its own that adds no block.
Moved(g) ==
    /\ job'[g].hash \in DOMAIN parent \cup {Nil}
    /\ job'[g].at # "commit"
    /\ job'[g].at = "update" => ParentStored(g)'
    /\ job[g].at = "commit" => ~up'[g[1]]

\* A step of that kind.
MovesOnly ==
    /\ UNCHANGED <<parent, stored, tip>>
    /\ \A n \in Node : up'[n] => up[n]
    /\ \A g \in Goroutine : job'[g] = job[g] \/ Moved(g)

LEMMA MovesOnlyKeeps ==
    ASSUME SyncInv, ChainInv, MovesOnly
    PROVE  ChainInv'
<1>1. UNCHANGED <<parent, stored, tip>>
  BY DEF MovesOnly
<1>2. Rooted'
  BY <1>1 DEF ChainInv, Rooted
<1>3. Known'
  BY <1>1 DEF ChainInv, Known, MovesOnly, Moved
<1>4. ASSUME NEW g \in Goroutine
      PROVE  /\ job'[g].at \in {"update", "commit"} => ParentStored(g)'
             /\ job'[g].at = "commit" => tip[g[1]] = job'[g].hash
  <2>1. CASE job'[g] = job[g]
    BY <1>1, <2>1 DEF ChainInv, Committing, ParentStored
  <2>2. CASE Moved(g)
    BY <2>2 DEF Moved
  <2> QED BY <2>1, <2>2 DEF MovesOnly
<1>5. ASSUME NEW n \in Node, up'[n], tip[n] \notin stored[n]
      PROVE  \E m \in Node : job'[<<n, m>>].at = "commit"
  <2>1. PICK m \in Node : job[<<n, m>>].at = "commit"
    BY <1>5 DEF MovesOnly, ChainInv, Committing
  <2>2. <<n, m>> \in Goroutine /\ <<n, m>>[1] = n
    BY DEF Goroutine
  <2>3. job'[<<n, m>>] = job[<<n, m>>]
    BY <1>5, <2>1, <2>2 DEF MovesOnly, Moved
  <2> QED BY <2>1, <2>3
<1>6. Committing'
  BY <1>1, <1>4, <1>5 DEF Committing
<1> QED BY <1>2, <1>3, <1>6 DEF ChainInv

\* One goroutine moves and no node stops.
LEMMA OneMoves ==
    ASSUME SyncInv, NEW g \in Goroutine, NEW j, job' = [job EXCEPT ![g] = j],
           UNCHANGED <<parent, stored, tip, up>>,
           job[g].at # "commit", j.at # "commit",
           j.hash \in DOMAIN parent \cup {Nil},
           j.at = "update" => parent[j.hash] \in stored[g[1]]
    PROVE  MovesOnly
<1>1. job'[g] = j /\ \A k \in Goroutine : k # g => job'[k] = job[k]
  BY DEF SyncInv, TypeOK
<1>2. Moved(g)
  BY <1>1 DEF Moved, ParentStored
<1> QED BY <1>1, <1>2 DEF MovesOnly

\* No goroutine does.
LEMMA NoneMoves ==
    ASSUME UNCHANGED <<parent, stored, tip, up, job>>
    PROVE  MovesOnly
BY DEF MovesOnly

LEMMA PanicMoves ==
    ASSUME NEW n \in Node, SyncInv, Panic(n)
    PROVE  MovesOnly
<1>1. UNCHANGED <<parent, stored, tip>> /\ \A m \in Node : up'[m] => up[m]
  BY DEF Panic, SyncInv, TypeOK
<1>2. ASSUME NEW g \in Goroutine PROVE job'[g] = job[g] \/ Moved(g)
  <2>1. CASE g[1] = n
    <3>1. job'[g] = Idle /\ ~up'[g[1]]
      BY <2>1 DEF Panic, SyncInv, TypeOK
    <3> QED BY <3>1 DEF Moved, Idle
  <2>2. CASE g[1] # n
    BY <2>2 DEF Panic
  <2> QED BY <2>1, <2>2
<1> QED BY <1>1, <1>2 DEF MovesOnly

\* The steps of a session move at most its own goroutine, or end the process.
LEMMA SessionMoves ==
    ASSUME SyncInv, ChainInv, NEW l \in Link,
           Connect(l) \/ SetupPeerSession(l) \/ Drop(l) \/ HandleSyncOnce(l) \/ Handle(l)
    PROVE  MovesOnly
<1>0. /\ TypeOK /\ RequestsAnswerable /\ job[l] \in Job /\ Sound(l)
      /\ l \in Goroutine /\ l[1] \in Node /\ l[2] \in Node
  BY HandlerTypes
<1>1. /\ Idle.at = "idle" /\ Idle.hash = Nil
      /\ \A at, h : Does(at, h).at = at /\ Does(at, h).hash = h
      /\ \A at, s : GoesThrough(at, s).at = at /\ GoesThrough(at, s).hash = Nil
  BY DEF Idle, Does, GoesThrough
<1>2. job[l].hash \in DOMAIN parent \cup {Nil} /\ stored[l[1]] \subseteq DOMAIN parent
      /\ stored[l[2]] \subseteq DOMAIN parent
  BY <1>0 DEF ChainInv, Known
<1>3. ASSUME job' = [job EXCEPT ![l] = Idle], UNCHANGED <<parent, stored, tip, up>>,
             job[l].at # "commit"
      PROVE  MovesOnly
  BY <1>0, <1>1, <1>3, OneMoves
<1>4. ASSUME NEW at \in {"last", "sync", "fork", "check"},
             job[l].at \in {"previous", "last", "fork"}, Goto(l, at), Quiet
      PROVE  MovesOnly
  <2> DEFINE j == [job[l] EXCEPT !.at = at]
  <2>1. job' = [job EXCEPT ![l] = j] /\ j.at = at /\ j.hash = job[l].hash
    BY <1>0, <1>4 DEF Goto, TypeOK, Job
  <2> HIDE DEF j
  <2> QED BY <1>0, <1>2, <1>4, <2>1, OneMoves DEF Quiet
<1>5. CASE Connect(l) \/ SetupPeerSession(l) \/ Drop(l) \/ HandleSyncOnce(l)
  BY <1>5, NoneMoves DEF Connect, SetupPeerSession, Drop, HandleSyncOnce
<1>6. CASE HandleSync(l) \/ SendInventory(l) \/ SendGetData(l) \/ AllReplied(l)
  BY <1>3, <1>6 DEF HandleSync, SendInventory, SendGetData, AllReplied, Return, At
<1>7. CASE HandleGetBlocks(l)
  <2>1. CASE UNCHANGED job
    BY <1>7, <2>1, NoneMoves DEF HandleGetBlocks
  <2>2. CASE job' # job
    <3>1. PICK h \in stored[l[1]] : job' = [job EXCEPT ![l] = Does("walk", h)]
      BY <1>7, <2>2 DEF HandleGetBlocks
    <3>2. job[l].at # "commit" /\ UNCHANGED <<parent, stored, tip, up>>
      BY <1>7 DEF HandleGetBlocks, Reads, At
    <3> DEFINE j == Does("walk", h)
    <3>3. j.at = "walk" /\ j.hash = h
      BY <1>1
    <3> HIDE DEF j
    <3> QED BY <1>0, <1>2, <3>1, <3>2, <3>3, OneMoves DEF j
  <2> QED BY <2>1, <2>2
<1>8. CASE GetNextBlockHash(l)
  <2>1. PICK next \in Children(l[1], job[l].hash) :
            job' = [job EXCEPT ![l].hash = next, ![l].inv = Append(@, next)]
    BY <1>8 DEF GetNextBlockHash
  <2> DEFINE j == [job[l] EXCEPT !.hash = next, !.inv = Append(job[l].inv, next)]
  <2>2. job' = [job EXCEPT ![l] = j]
    BY <1>0, <2>1 DEF TypeOK
  <2>3. next \in DOMAIN parent /\ j.at = job[l].at /\ j.hash = next
    BY <1>0, <1>2 DEF Children, Job
  <2>4. job[l].at = "walk" /\ UNCHANGED <<parent, stored, tip, up>>
    BY <1>8 DEF GetNextBlockHash, At
  <2> HIDE DEF j
  <2> QED BY <1>0, <2>2, <2>3, <2>4, OneMoves
<1>9. CASE HandleInventory(l) \/ HandleGetData(l)
  <2>0. PICK at \in {"unknown", "reply"} : \E s : job' = [job EXCEPT ![l] = GoesThrough(at, s)]
    BY <1>9 DEF HandleInventory, HandleGetData
  <2>1. PICK s : job' = [job EXCEPT ![l] = GoesThrough(at, s)]
    BY <2>0
  <2>2. job[l].at # "commit" /\ UNCHANGED <<parent, stored, tip, up>>
    BY <1>9 DEF HandleInventory, HandleGetData, Reads, At
  <2> DEFINE j == GoesThrough(at, s)
  <2>3. j.at = at /\ j.hash = Nil
    BY <1>1
  <2> HIDE DEF j
  <2> QED BY <1>0, <2>1, <2>2, <2>3, OneMoves DEF j
<1>10. CASE CollectUnknownBlockHash(l)
  <2> DEFINE hash == Head(job[l].rest)
             j == [job[l] EXCEPT
                    !.rest = Tail(@), !.inv = IF hash \in stored[l[1]] THEN @ ELSE Append(@, hash)]
  <2>1. job' = [job EXCEPT ![l] = j]
    BY <1>0, <1>10 DEF CollectUnknownBlockHash, TypeOK
  <2>2. job[l].at = "unknown" /\ UNCHANGED <<parent, stored, tip, up>>
    BY <1>10 DEF CollectUnknownBlockHash, At
  <2>3. j.at = job[l].at /\ j.hash = job[l].hash
    BY <1>0 DEF Job
  <2> HIDE DEF j
  <2> QED BY <1>0, <1>2, <2>1, <2>2, <2>3, OneMoves
<1>11. CASE SendRequestedData(l)
  <2> DEFINE j == [job[l] EXCEPT !.rest = Tail(@)]
  <2>1. job' = [job EXCEPT ![l] = j]
    BY <1>0, <1>11 DEF SendRequestedData, TypeOK
  <2>2. job[l].at = "reply" /\ UNCHANGED <<parent, stored, tip, up>>
    BY <1>11 DEF SendRequestedData, At
  <2>3. j.at = job[l].at /\ j.hash = job[l].hash
    BY <1>0 DEF Job
  <2> HIDE DEF j
  <2> QED BY <1>0, <1>2, <2>1, <2>2, <2>3, OneMoves
<1>12. CASE HandleBlock(l)
  <2>1. CASE UNCHANGED job
    BY <1>12, <2>1, NoneMoves DEF HandleBlock
  <2>2. CASE job' = [job EXCEPT ![l] = Does("previous", Msg(l).block)]
    <3>1. Msg(l).type = "block" /\ Answerable(Back(l), Msg(l))
      BY <1>0, <1>12, Receives DEF HandleBlock
    <3>2. Msg(l).block \in stored[l[2]]
      BY <3>1, LinkTypes DEF Answerable
    <3>3. job[l].at # "commit" /\ UNCHANGED <<parent, stored, tip, up>>
      BY <1>12 DEF HandleBlock, Reads, At
    <3> DEFINE j == Does("previous", Msg(l).block)
    <3>4. j.at = "previous" /\ j.hash = Msg(l).block
      BY <1>1
    <3> HIDE DEF j
    <3> QED BY <1>0, <1>2, <2>2, <3>2, <3>3, <3>4, OneMoves DEF j
  <2> QED BY <1>12, <2>1, <2>2 DEF HandleBlock
<1>13. CASE LookupPrevious(l)
  BY <1>4, <1>13 DEF LookupPrevious, At
<1>14. CASE ReadLastBlock(l)
  BY <1>0, <1>4, <1>14, PanicMoves DEF ReadLastBlock, At
<1>15. CASE GetForkChain(l)
  BY <1>0, <1>4, <1>15, PanicMoves DEF GetForkChain, At
<1> QED BY <1>5, <1>6, <1>7, <1>8, <1>9, <1>10, <1>11, <1>12, <1>13, <1>14, <1>15 DEF Handle

\* What was mined stays as it is, and a node keeps what it has.
Grows ==
    /\ DOMAIN parent \subseteq DOMAIN parent'
    /\ \A h \in DOMAIN parent : parent'[h] = parent[h]
    /\ \A n \in Node : stored[n] \subseteq stored'[n] /\ Held(n) \subseteq Held(n)'

\* Adding a block: checks, the update, the commit and the announcement.
LEMMA AddGrows ==
    ASSUME SyncInv, ChainInv, NEW g \in Goroutine, Add(g)
    PROVE  ChainInv' /\ Grows
<1>0. /\ job[g] \in Job /\ g[1] \in Node /\ g[2] \in Node /\ g = <<g[1], g[2]>>
      /\ job \in [Goroutine -> Job] /\ stored \in [Node -> SUBSET Hash] /\ tip \in [Node -> Hash]
      /\ Idle.at = "idle" /\ Idle.hash = Nil
      /\ job[g].hash \in DOMAIN parent \cup {Nil}
  BY DEF SyncInv, TypeOK, Goroutine, Idle, ChainInv, Known
<1>1. ASSUME MovesOnly PROVE ChainInv' /\ Grows
  BY <1>1, MovesOnlyKeeps DEF MovesOnly, Grows, Held
<1>2. CASE CheckValid(g) \/ CheckMisfit(g) \/ Broadcast(g)
  <2>1. CASE Panic(g[1])
    BY <1>0, <1>1, <2>1, PanicMoves
  <2>2. CASE Return(g) /\ UNCHANGED <<parent, stored, tip, up>>
    <3>1. job' = [job EXCEPT ![g] = Idle] /\ job[g].at # "commit"
      BY <1>2, <2>2 DEF Return, CheckValid, CheckMisfit, Broadcast, At
    <3> QED BY <1>0, <1>1, <2>2, <3>1, OneMoves
  <2>3. CASE Goto(g, "update") /\ ParentStored(g) /\ UNCHANGED <<parent, stored, tip, up>>
    <3> DEFINE j == [job[g] EXCEPT !.at = "update"]
    <3>1. job' = [job EXCEPT ![g] = j] /\ j.at = "update" /\ j.hash = job[g].hash
      BY <1>0, <2>3 DEF Goto, Job
    <3>2. job[g].at # "commit"
      <4>1. CASE CheckValid(g)
        BY <4>1 DEF CheckValid, At
      <4>2. CASE CheckMisfit(g)
        BY <4>2 DEF CheckMisfit, At
      <4>3. CASE Broadcast(g)
        BY <4>3 DEF Broadcast, At
      <4> QED BY <1>2, <4>1, <4>2, <4>3
    <3> HIDE DEF j
    <3> QED BY <1>0, <1>1, <2>3, <3>1, <3>2, OneMoves DEF ParentStored
  <2>4. CASE CheckValid(g)
    BY <2>1, <2>3, <2>4 DEF CheckValid, Quiet
  <2>5. CASE CheckMisfit(g)
    BY <2>1, <2>2, <2>5 DEF CheckMisfit, Quiet
  <2>6. CASE Broadcast(g)
    BY <2>2, <2>6 DEF Broadcast
  <2> QED BY <1>2, <2>4, <2>5, <2>6
<1>3. CASE RunUpdate(g)
  <2> DEFINE j == [job[g] EXCEPT !.at = "commit"]
  <2>1. /\ job' = [job EXCEPT ![g] = j] /\ j.at = "commit" /\ j.hash = job[g].hash
        /\ job[g].at = "update" /\ up[g[1]]
        /\ \A m \in Node : job[<<g[1], m>>].at # "commit"
        /\ tip' = [tip EXCEPT ![g[1]] = job[g].hash]
        /\ UNCHANGED <<parent, stored, up>>
    BY <1>0, <1>3 DEF RunUpdate, Goto, At, Job
  <2> HIDE DEF j
  <2>2. job'[g] = j /\ \A k \in Goroutine : k # g => job'[k] = job[k]
    BY <1>0, <2>1
  <2>3. tip[g[1]] \in stored[g[1]]
    BY <1>0, <2>1 DEF ChainInv, Committing
  <2>4. job[g].hash \in DOMAIN parent /\ ParentStored(g)
    <3>1. job[g].hash \in Hash
      BY <1>0, <2>1 DEF Job, Step
    <3> QED BY <1>0, <2>1, <3>1, SyncAssumption DEF ChainInv, Committing
  <2>5. tip'[g[1]] = job[g].hash /\ \A n \in Node : n # g[1] => tip'[n] = tip[n]
    BY <1>0, <2>1
  <2>6. Grows
    BY <2>1, <2>3, <2>5 DEF Grows, Held
  <2>7. Rooted'
    BY <2>1 DEF ChainInv, Rooted
  <2>8. Known'
    BY <1>0, <2>1, <2>2, <2>4, <2>5 DEF ChainInv, Known
  <2>9. ASSUME NEW k \in Goroutine
        PROVE  /\ job'[k].at \in {"update", "commit"} => ParentStored(k)'
               /\ job'[k].at = "commit" => tip'[k[1]] = job'[k].hash
    <3>1. CASE k = g
      BY <2>1, <2>2, <2>4, <2>5, <3>1 DEF ParentStored
    <3>2. CASE k # g
      <4>1. job'[k] = job[k] /\ k[1] \in Node /\ k[2] \in Node /\ k = <<k[1], k[2]>>
        BY <2>2, <3>2 DEF Goroutine
      <4>2. job[k].at \in {"update", "commit"} => ParentStored(k)'
        BY <2>1, <4>1 DEF ChainInv, Committing, ParentStored
      <4>3. job[k].at = "commit" => tip'[k[1]] = job[k].hash
        <5>1. job[k].at = "commit" => k[1] # g[1]
          BY <2>1, <4>1
        <5> QED BY <2>5, <4>1, <5>1 DEF ChainInv, Committing
      <4> QED BY <4>1, <4>2, <4>3
    <3> QED BY <3>1, <3>2
  <2>10. ASSUME NEW n \in Node, up'[n], tip'[n] \notin stored'[n]
         PROVE  \E m \in Node : job'[<<n, m>>].at = "commit"
    <3>1. CASE n = g[1]
      BY <1>0, <2>1, <2>2, <3>1
    <3>2. CASE n # g[1]
      <4>1. PICK m \in Node : job[<<n, m>>].at = "commit"
        BY <2>1, <2>5, <2>10, <3>2 DEF ChainInv, Committing
      <4>2. <<n, m>> \in Goroutine /\ <<n, m>> # g
        BY <1>0, <3>2 DEF Goroutine
      <4> QED BY <2>2, <4>1, <4>2
    <3> QED BY <3>1, <3>2
  <2>11. Committing'
    BY <2>9, <2>10 DEF Committing
  <2> QED BY <2>6, <2>7, <2>8, <2>11 DEF ChainInv
<1>4. CASE Commit(g)
  <2>1. /\ job[g].at = "commit" /\ tip[g[1]] = job[g].hash /\ ParentStored(g)
        /\ stored' = [stored EXCEPT ![g[1]] = @ \cup {job[g].hash}]
        /\ UNCHANGED <<parent, tip, up>>
    BY <1>4 DEF Commit, At, ChainInv, Committing
  <2>2. PICK j \in Job : /\ job' = [job EXCEPT ![g] = j]
                         /\ j.at \in {"idle", "announce"}
                         /\ j.hash \in {Nil, job[g].hash}
    <3>1. CASE Return(g)
      <4>1. Idle \in Job
        BY DEF Idle, Job, Step
      <4>2. job' = [job EXCEPT ![g] = Idle]
        BY <3>1 DEF Return
      <4> QED BY <1>0, <4>1, <4>2
    <3>2. CASE Goto(g, "announce")
      <4> DEFINE j == [job[g] EXCEPT !.at = "announce"]
      <4>1. job' = [job EXCEPT ![g] = j]
        BY <1>0, <3>2 DEF Goto
      <4>2. j \in Job /\ j.at = "announce" /\ j.hash = job[g].hash
        BY <1>0, <2>1 DEF Job, Step
      <4> HIDE DEF j
      <4> QED BY <4>1, <4>2
    <3> QED BY <1>4, <3>1, <3>2 DEF Commit
  <2>3. job'[g] = j /\ \A k \in Goroutine : k # g => job'[k] = job[k]
    BY <1>0, <2>2
  <2>4. /\ stored'[g[1]] = stored[g[1]] \cup {tip[g[1]]}
        /\ \A n \in Node : n # g[1] => stored'[n] = stored[n]
    BY <1>0, <2>1
  <2>5. Grows
    BY <2>1, <2>4 DEF Grows, Held
  <2>6. Rooted'
    BY <2>1 DEF ChainInv, Rooted
  <2>7. Known'
    <3>1. tip[g[1]] \in DOMAIN parent /\ parent[tip[g[1]]] \in stored[g[1]]
      BY <1>0, <2>1 DEF ParentStored, ChainInv, Known
    <3>2. ASSUME NEW n \in Node
          PROVE  /\ Genesis \in stored'[n] /\ stored'[n] \subseteq DOMAIN parent
                 /\ \A h \in stored'[n] \ {Genesis} : parent[h] \in stored'[n]
      BY <2>4, <3>1 DEF ChainInv, Known
    <3>3. \A k \in Goroutine : job'[k].hash \in DOMAIN parent \cup {Nil}
      BY <1>0, <2>2, <2>3 DEF ChainInv, Known
    <3> QED BY <2>1, <3>2, <3>3 DEF ChainInv, Known
  <2>8. ASSUME NEW k \in Goroutine
        PROVE  /\ job'[k].at \in {"update", "commit"} => ParentStored(k)'
               /\ job'[k].at = "commit" => tip'[k[1]] = job'[k].hash
    <3>1. CASE k = g
      BY <2>2, <2>3, <3>1
    <3>2. CASE k # g
      <4>1. job'[k] = job[k] /\ k[1] \in Node
        BY <2>3, <3>2 DEF Goroutine
      <4>2. stored[k[1]] \subseteq stored'[k[1]]
        BY <2>4, <4>1
      <4> QED BY <2>1, <4>1, <4>2 DEF ChainInv, Committing, ParentStored
    <3> QED BY <3>1, <3>2
  <2>9. ASSUME NEW n \in Node, up'[n], tip'[n] \notin stored'[n]
        PROVE  \E m \in Node : job'[<<n, m>>].at = "commit"
    <3>1. n # g[1]
      BY <2>1, <2>4, <2>9
    <3>2. PICK m \in Node : job[<<n, m>>].at = "commit"
      BY <2>1, <2>4, <2>9, <3>1 DEF ChainInv, Committing
    <3>3. <<n, m>> \in Goroutine /\ <<n, m>> # g
      BY <1>0, <3>1 DEF Goroutine
    <3> QED BY <2>3, <3>2, <3>3
  <2>10. Committing'
    BY <2>8, <2>9 DEF Committing
  <2> QED BY <2>5, <2>6, <2>7, <2>10 DEF ChainInv
<1> QED BY <1>2, <1>3, <1>4 DEF Add

\* A new block is one more leaf of the tree.
LEMMA MiningGrows ==
    ASSUME SyncInv, ChainInv, NEW n \in Miners, NEW h \in Hash, StartMining(n, h)
    PROVE  ChainInv' /\ Grows
<1> DEFINE g == <<n, n>>
<1>0. /\ n \in Node /\ g \in Goroutine /\ g[1] = n
      /\ tip[n] \in DOMAIN parent /\ Genesis \in DOMAIN parent /\ Nil \notin Hash
      /\ job \in [Goroutine -> Job]
  BY SyncAssumption DEF Goroutine, ChainInv, Known, Rooted, SyncInv, TypeOK
<1>1. /\ h \notin DOMAIN parent
      /\ parent' = [x \in DOMAIN parent \cup {h} |-> IF x = h THEN tip[n] ELSE parent[x]]
      /\ job[g].at = "idle" /\ UNCHANGED <<stored, tip, up>>
  BY DEF StartMining, At
<1>2. PICK j : /\ job' = [job EXCEPT ![g] = j]
               /\ j.at \in {"check", "misfit"} /\ j.hash = h
  <2>1. PICK at \in {"check", "misfit"} : job' = [job EXCEPT ![g] = Does(at, h)]
    BY DEF StartMining
  <2> DEFINE j == Does(at, h)
  <2>2. j.at = at /\ j.hash = h
    BY DEF Does
  <2> HIDE DEF j
  <2> QED BY <2>1, <2>2 DEF j
<1> HIDE DEF g
<1>3. job'[g] = j /\ \A k \in Goroutine : k # g => job'[k] = job[k]
  BY <1>0, <1>2
<1>4. /\ DOMAIN parent' = DOMAIN parent \cup {h} /\ parent'[h] = tip[n]
      /\ \A x \in DOMAIN parent : parent'[x] = parent[x]
  BY <1>1
<1>5. Grows
  BY <1>1, <1>4 DEF Grows, Held
<1>6. Rooted'
  <2>1. PICK rank \in [DOMAIN parent -> Nat] :
            \A x \in DOMAIN parent \ {Genesis} : rank[parent[x]] < rank[x]
    BY DEF ChainInv, Rooted
  <2> DEFINE r == [x \in DOMAIN parent \cup {h} |-> IF x = h THEN rank[tip[n]] + 1 ELSE rank[x]]
  <2>2. r \in [DOMAIN parent' -> Nat]
    BY <1>0, <1>4, <2>1
  <2>3. ASSUME NEW x \in DOMAIN parent' \ {Genesis}
        PROVE  parent'[x] \in DOMAIN parent' /\ r[parent'[x]] < r[x]
    <3>1. CASE x = h
      <4>1. rank[tip[n]] \in Nat /\ tip[n] # h
        BY <1>0, <1>1, <2>1
      <4> QED BY <1>0, <1>4, <3>1, <4>1
    <3>2. CASE x # h
      <4>1. x \in DOMAIN parent /\ parent'[x] = parent[x] /\ parent[x] \in DOMAIN parent
        BY <1>4, <3>2 DEF ChainInv, Rooted
      <4>2. parent[x] # h
        BY <1>1, <4>1
      <4> QED BY <1>4, <2>1, <3>2, <4>1, <4>2
    <3> QED BY <3>1, <3>2
  <2> HIDE DEF r
  <2> QED BY <1>0, <1>4, <2>2, <2>3 DEF ChainInv, Rooted
<1>7. Known'
  BY <1>0, <1>1, <1>2, <1>3, <1>4 DEF ChainInv, Known
<1>8. Committing'
  <2>1. ASSUME NEW k \in Goroutine
        PROVE  /\ job'[k].at \in {"update", "commit"} => ParentStored(k)'
               /\ job'[k].at = "commit" => tip'[k[1]] = job'[k].hash
    <3>1. CASE k = g
      BY <1>2, <1>3, <3>1
    <3>2. CASE k # g
      <4>1. job'[k] = job[k] /\ job[k] \in Job
        BY <1>0, <1>3, <3>2
      <4>2. job[k].at \in {"update", "commit"} => job[k].hash \in DOMAIN parent
        BY <1>0, <4>1 DEF Job, Step, ChainInv, Known
      <4> QED BY <1>1, <1>4, <4>1, <4>2 DEF ChainInv, Committing, ParentStored
    <3> QED BY <3>1, <3>2
  <2>2. ASSUME NEW m \in Node, up'[m], tip'[m] \notin stored'[m]
        PROVE  \E k \in Node : job'[<<m, k>>].at = "commit"
    <3>1. PICK k \in Node : job[<<m, k>>].at = "commit"
      BY <1>1, <2>2 DEF ChainInv, Committing
    <3>2. <<m, k>> \in Goroutine
      BY DEF Goroutine
    <3> QED BY <1>1, <1>3, <3>1, <3>2
  <2> QED BY <2>1, <2>2 DEF Committing
<1> QED BY <1>5, <1>6, <1>7, <1>8 DEF ChainInv

LEMMA ChainInvInit == Init => ChainInv
<1> SUFFICES ASSUME Init PROVE ChainInv
  OBVIOUS
<1>1. Rooted
  <2>1. [h \in {Genesis} |-> 0] \in [DOMAIN parent -> Nat]
    BY DEF Init
  <2> QED BY <2>1 DEF Init, Rooted
<1>2. Known
  BY DEF Init, Known, Idle
<1>3. Committing
  BY DEF Init, Committing, Idle
<1> QED BY <1>1, <1>2, <1>3 DEF ChainInv

LEMMA ChainInvNext == SyncInv /\ ChainInv /\ [Next]_vars => ChainInv' /\ Grows
<1> SUFFICES ASSUME SyncInv, ChainInv, [Next]_vars PROVE ChainInv' /\ Grows
  OBVIOUS
<1>1. ASSUME MovesOnly PROVE ChainInv' /\ Grows
  BY <1>1, MovesOnlyKeeps DEF MovesOnly, Grows, Held
<1>2. CASE UNCHANGED vars
  BY <1>1, <1>2, NoneMoves DEF vars
<1> QED BY <1>1, <1>2, SessionMoves, AddGrows, MiningGrows DEF Next

-----------------------------------------------------------------------------
(* The chain of a block.                                                    *)

\* What holds of the genesis block, and of a block if it holds of its parent, holds of every block.
LEMMA BlockInduction ==
    ASSUME Rooted, NEW P, Genesis \in P,
           \A h \in DOMAIN parent \ {Genesis} : parent[h] \in P => h \in P
    PROVE  DOMAIN parent \subseteq P
<1>1. PICK rank \in [DOMAIN parent -> Nat] :
          \A h \in DOMAIN parent \ {Genesis} : rank[parent[h]] < rank[h]
  BY DEF Rooted
<1>2. ASSUME NEW d \in DOMAIN parent, \A e \in DOMAIN parent : rank[e] < rank[d] => e \in P
      PROVE  d \in P
  BY <1>1, <1>2 DEF Rooted
<1> QED BY <1>1, <1>2, RankInduction

\* The chain of a block is the block in front of the chain of its parent.
LEMMA ChainFromDef ==
    ASSUME TypeOK, Rooted
    PROVE  /\ ChainFrom \in [DOMAIN parent -> Seq(DOMAIN parent)]
           /\ ChainFrom[Genesis] = <<Genesis>>
           /\ \A h \in DOMAIN parent \ {Genesis} : ChainFrom[h] = <<h>> \o ChainFrom[parent[h]]
<1> DEFINE D == DOMAIN parent
           V == Seq(D)
           given == [h \in {Genesis} |-> <<h>>]
           step == [z \in D \X V |-> <<z[1]>> \o z[2]]
<1>0. \A h \in D : parent[h] = Nil <=> h = Genesis
  BY SyncAssumption DEF TypeOK, Rooted
<1>1. \E rank \in [D -> Nat] : Descends(D, {Genesis}, rank, parent)
  BY DEF Rooted, Descends
<1>2. /\ \A d \in D \cap {Genesis} : given[d] \in V
      /\ \A d \in D \ {Genesis}, v \in V : step[<<d, v>>] \in V
      /\ V # {}
  <2>1. \A d \in D, v \in V : <<d>> \o v \in V
    BY Prepend
  <2>2. <<>> \in V /\ <<Genesis>> \in V
    BY DEF Rooted
  <2> QED BY <2>1, <2>2
<1>3. PICK f \in [D -> V] : Computes(f, D, {Genesis}, given, parent, step)
  <2> HIDE DEF D, V, given, step
  <2> QED BY <1>1, <1>2, Recursive
<1>4. ASSUME NEW h \in D PROVE f[h] = IF parent[h] = Nil THEN <<h>> ELSE <<h>> \o f[parent[h]]
  <2>1. CASE h = Genesis
    BY <1>0, <1>3, <2>1 DEF Computes
  <2>2. CASE h # Genesis
    <3>1. parent[h] \in D /\ f[parent[h]] \in V
      BY <2>2 DEF Rooted
    <3>2. f[h] = step[<<h, f[parent[h]]>>]
      BY <1>3, <2>2 DEF Computes
    <3> QED BY <1>0, <2>2, <3>1, <3>2
  <2> QED BY <2>1, <2>2
<1> HIDE DEF V
<1>5. f = [h \in D |-> IF parent[h] = Nil THEN <<h>> ELSE <<h>> \o f[parent[h]]]
  BY <1>4
<1>6. ChainFrom = [h \in D |-> IF parent[h] = Nil THEN <<h>> ELSE <<h>> \o ChainFrom[parent[h]]]
  BY <1>5 DEF ChainFrom
<1>7. \A h \in D : ChainFrom[h] = IF h = Genesis THEN <<h>> ELSE <<h>> \o ChainFrom[parent[h]]
  BY <1>0, <1>6
<1> DEFINE S == {h \in D : ChainFrom[h] \in V}
<1>8. Genesis \in S /\ \A h \in D \ {Genesis} : parent[h] \in S => h \in S
  <2>1. Genesis \in S
    <3>1. Genesis \in D /\ <<Genesis>> \in V
      BY DEF V, Rooted
    <3> QED BY <1>7, <3>1
  <2>2. ASSUME NEW h \in D \ {Genesis}, parent[h] \in S PROVE h \in S
    <3>1. ChainFrom[parent[h]] \in Seq(D)
      BY <2>2 DEF V
    <3>2. <<h>> \o ChainFrom[parent[h]] \in Seq(D)
      BY <3>1, Prepend
    <3> QED BY <1>7, <3>2 DEF V
  <2> QED BY <2>1, <2>2
<1>9. D \subseteq S
  <2> HIDE DEF S
  <2> QED BY <1>8, BlockInduction
<1> QED BY <1>6, <1>7, <1>9 DEF V, Rooted

\* The chain of a block ends with the genesis block, and a node that stores the block stores
\* all of it.
LEMMA ChainFromEnds ==
    ASSUME TypeOK, Rooted, NEW h \in DOMAIN parent
    PROVE  /\ ChainFrom[h] \in Seq(DOMAIN parent) /\ ChainFrom[h] # <<>>
           /\ ChainFrom[h][Len(ChainFrom[h])] = Genesis
           /\ \A n \in Node :
                Known /\ h \in stored[n] => \A i \in DOMAIN ChainFrom[h] : ChainFrom[h][i] \in stored[n]
<1> DEFINE C(x) == ChainFrom[x]
           Ends(x) == /\ C(x) # <<>> /\ C(x)[Len(C(x))] = Genesis
                      /\ \A n \in Node : Known /\ x \in stored[n] =>
                            \A i \in DOMAIN C(x) : C(x)[i] \in stored[n]
           S == {x \in DOMAIN parent : Ends(x)}
<1>1. Genesis \in S
  <2>1. Genesis \in DOMAIN parent /\ C(Genesis) = <<Genesis>>
    BY ChainFromDef DEF Rooted
  <2>2. C(Genesis) # <<>> /\ Len(C(Genesis)) = 1 /\ DOMAIN C(Genesis) = {1} /\ C(Genesis)[1] = Genesis
    BY <2>1
  <2> HIDE DEF C
  <2> QED BY <2>1, <2>2
<1>2. ASSUME NEW x \in DOMAIN parent \ {Genesis}, parent[x] \in S PROVE x \in S
  <2> DEFINE s == C(parent[x])
             t == C(x)
  <2>1. s \in Seq(DOMAIN parent) /\ t = <<x>> \o s /\ Ends(parent[x])
    BY <1>2, ChainFromDef
  <2>2. /\ t \in Seq(DOMAIN parent) /\ Len(t) = Len(s) + 1 /\ t[1] = x
        /\ \A i \in 2..(Len(s) + 1) : t[i] = s[i - 1]
    BY <2>1, Prepend
  <2>3. t # <<>> /\ t[Len(t)] = Genesis
    <3>1. Len(t) \in 2..(Len(s) + 1) /\ Len(t) - 1 = Len(s)
      BY <2>1, <2>2
    <3> HIDE DEF s, t
    <3> QED BY <2>1, <2>2, <3>1 DEF s
  <2>4. ASSUME NEW n \in Node, Known, x \in stored[n], NEW i \in DOMAIN t
        PROVE  t[i] \in stored[n]
    <3>1. parent[x] \in stored[n]
      BY <2>4 DEF Known
    <3>2. \A k \in DOMAIN s : s[k] \in stored[n]
      BY <2>1, <2>4, <3>1
    <3>3. CASE i = 1
      BY <2>2, <2>4, <3>3
    <3>4. CASE i # 1
      <4> HIDE DEF C
      <4>1. i \in 2..(Len(s) + 1) /\ i - 1 \in DOMAIN s
        <5>1. Len(s) \in Nat /\ DOMAIN s = 1..Len(s)
          BY <2>1
        <5>2. i \in 1..(Len(s) + 1)
          BY <2>2, <2>4
        <5> QED BY <3>4, <5>1, <5>2
      <4>2. t[i] = s[i - 1]
        BY <2>2, <4>1
      <4> QED BY <3>2, <4>1, <4>2
    <3> QED BY <3>3, <3>4
  <2> QED BY <2>3, <2>4
<1>3. DOMAIN parent \subseteq S
  <2> HIDE DEF S
  <2> QED BY <1>1, <1>2, BlockInduction
<1> QED BY <1>3, ChainFromDef

\* An answer begins with a block of the locator or with the genesis block, and there is one.
LEMMA CommonBlock ==
    ASSUME SyncInv, ChainInv, NEW n \in Node, NEW locator
    PROVE  /\ \A h : FindCommonBlock(n, locator, h) => h \in locator \cup {Genesis}
           /\ tip[n] \in stored[n] => \E h \in stored[n] : FindCommonBlock(n, locator, h)
<1> DEFINE chain == ChainFrom[tip[n]]
<1>1. /\ chain \in Seq(DOMAIN parent) /\ chain # <<>> /\ chain[Len(chain)] = Genesis
      /\ tip[n] \in stored[n] => \A i \in DOMAIN chain : chain[i] \in stored[n]
  BY ChainFromEnds DEF SyncInv, ChainInv, Known
<1>2. ASSUME NEW h, FindCommonBlock(n, locator, h) PROVE h \in locator \cup {Genesis}
  BY <1>1, <1>2 DEF FindCommonBlock
<1>3. ASSUME tip[n] \in stored[n] PROVE \E h \in stored[n] : FindCommonBlock(n, locator, h)
  <2> DEFINE S == {i \in DOMAIN chain : chain[i] \in locator \/ i = Len(chain)}
  <2>1. S \subseteq Nat /\ S # {}
    <3>1. Len(chain) \in S
      BY <1>1
    <3> QED BY <1>1, <3>1
  <2>2. PICK i \in S : \A k \in S : i <= k
    <3> HIDE DEF S
    <3> QED BY <2>1, LeastNumber
  <2>3. ASSUME NEW k \in 1..(i - 1) PROVE chain[k] \notin locator
    BY <1>1, <2>2
  <2>4. FindCommonBlock(n, locator, chain[i])
    BY <2>2, <2>3 DEF FindCommonBlock
  <2> QED BY <1>1, <1>3, <2>2, <2>4
<1> QED BY <1>2, <1>3

-----------------------------------------------------------------------------
(* Answers.                                                                 *)

\* A locator names what its sender has, and an inventory of several blocks leads on from what
\* its receiver has.
Leads(l, msg) ==
    /\ msg.type = "getblocks" => msg.locator \subseteq Held(l[1])
    /\ msg.type = "inv" /\ Len(msg.inv) > 1 => LeadsOn(l[2], msg.inv)

\* So does the inventory that is gathered, up to the block the walk has come to.
Walks(l) ==
    job[l].at = "walk" =>
        IF job[l].inv = <<>> THEN job[l].hash \in Held(l[2])
        ELSE LeadsOn(l[2], job[l].inv) /\ job[l].inv[Len(job[l].inv)] = job[l].hash

LeadInv == \A l \in Link : Walks(l) /\ \A i \in DOMAIN chan[l] : Leads(l, chan[l][i])

\* A path goes on leading from what a node has.
LEMMA PathStays ==
    ASSUME SyncInv, Grows, NEW n \in Node, NEW s, s \in Seq(DOMAIN parent), s # <<>>, LeadsOn(n, s)
    PROVE  LeadsOn(n, s)'
<1>1. \A i \in 1..Len(s) : s[i] \in DOMAIN parent /\ parent'[s[i]] = parent[s[i]]
  BY DEF Grows
<1>2. 1 \in 1..Len(s)
  OBVIOUS
<1> QED BY <1>1, <1>2 DEF LeadsOn, Grows

LEMMA MessageStays ==
    ASSUME SyncInv, ChainInv, Grows,
           NEW l \in Link, NEW msg \in Message, Answerable(l, msg), Leads(l, msg)
    PROVE  Leads(l, msg)'
<1>0. l[1] \in Node /\ l[2] \in Node
  BY LinkTypes
<1>1. CASE msg.type = "getblocks"
  BY <1>0, <1>1 DEF Leads, Grows
<1>2. CASE msg.type = "inv" /\ Len(msg.inv) > 1
  <2>1. msg.inv \in Seq(Hash) /\ HasAll(l[1], msg.inv)
    BY <1>2 DEF Message, Answerable
  <2>2. msg.inv \in Seq(DOMAIN parent) /\ msg.inv # <<>>
    <3>1. \A i \in 1..Len(msg.inv) : msg.inv[i] \in DOMAIN parent
      BY <1>0, <2>1 DEF HasAll, ChainInv, Known
    <3> QED BY <1>2, <2>1, <3>1
  <2>3. LeadsOn(l[2], msg.inv)'
    BY <1>0, <1>2, <2>2, PathStays DEF Leads
  <2> QED BY <1>2, <2>3 DEF Leads
<1>3. CASE msg.type # "getblocks" /\ ~(msg.type = "inv" /\ Len(msg.inv) > 1)
  BY <1>3 DEF Leads
<1> QED BY <1>1, <1>2, <1>3

\* What a step does to a channel.
Delivers(l) ==
    \/ chan'[l] \in {chan[l], <<>>}
    \/ chan[l] # <<>> /\ chan'[l] = Tail(chan[l])
    \/ \E msg \in Message :
        /\ Answerable(l, msg) /\ Leads(l, msg)
        /\ chan'[l] = Append(chan[l], msg)

\* And to a goroutine.
HandsOn(l) == job'[l] = job[l] \/ job'[l].at # "walk" \/ Walks(l)'

LEMMA LeadKeeps ==
    ASSUME SyncInv, ChainInv, LeadInv, Grows, \A l \in Link : Delivers(l) /\ HandsOn(l)
    PROVE  LeadInv'
<1> SUFFICES ASSUME NEW l \in Link
             PROVE  Walks(l)' /\ \A i \in DOMAIN chan'[l] : Leads(l, chan[l][i])'
  BY DEF LeadInv
<1>0. /\ l[1] \in Node /\ l[2] \in Node /\ chan[l] \in Seq(Message) /\ job[l] \in Job /\ Sound(l)
      /\ \A i \in DOMAIN chan[l] : Answerable(l, chan[l][i]) /\ Leads(l, chan[l][i])
  BY LinkTypes DEF SyncInv, TypeOK, JobsSound, RequestsAnswerable, LeadInv
<1>1. Walks(l)'
  <2>1. CASE job'[l] = job[l] /\ job[l].at = "walk"
    <3>1. CASE job[l].inv = <<>>
      BY <1>0, <2>1, <3>1 DEF LeadInv, Walks, Grows
    <3>2. CASE job[l].inv # <<>>
      <4>1. job[l].inv \in Seq(DOMAIN parent)
        <5>1. job[l].inv \in Seq(Hash) /\ HasAll(l[1], job[l].inv)
          BY <1>0, <2>1 DEF Job, Sound
        <5>2. \A i \in 1..Len(job[l].inv) : job[l].inv[i] \in DOMAIN parent
          BY <1>0, <5>1 DEF HasAll, ChainInv, Known
        <5> QED BY <5>1, <5>2
      <4>2. LeadsOn(l[2], job[l].inv) /\ job[l].inv[Len(job[l].inv)] = job[l].hash
        BY <2>1, <3>2 DEF LeadInv, Walks
      <4>3. ASSUME NEW s, s = job[l].inv PROVE LeadsOn(l[2], s)'
        BY <1>0, <3>2, <4>1, <4>2, <4>3, PathStays
      <4> QED BY <2>1, <3>2, <4>2, <4>3 DEF Walks, LeadsOn
    <3> QED BY <3>1, <3>2
  <2> QED BY <2>1 DEF HandsOn, Walks
<1>2. ASSUME NEW msg \in Message, Answerable(l, msg), Leads(l, msg) PROVE Leads(l, msg)'
  BY <1>2, MessageStays
<1>3. ASSUME NEW i \in DOMAIN chan'[l]
      PROVE  \E msg \in Message :
                msg = chan'[l][i] /\ Answerable(l, msg) /\ Leads(l, msg)
  <2>1. CASE chan'[l] \in {chan[l], <<>>}
    BY <1>0, <1>3, <2>1
  <2>2. CASE chan[l] # <<>> /\ chan'[l] = Tail(chan[l])
    <3>1. i + 1 \in DOMAIN chan[l] /\ chan'[l][i] = chan[l][i + 1]
      BY <1>0, <1>3, <2>2
    <3> QED BY <1>0, <3>1
  <2>3. ASSUME NEW msg \in Message, Answerable(l, msg), Leads(l, msg),
               chan'[l] = Append(chan[l], msg)
        PROVE  \E m \in Message : m = chan'[l][i] /\ Answerable(l, m) /\ Leads(l, m)
    <3>1. CASE i = Len(chan[l]) + 1
      BY <1>0, <2>3, <3>1
    <3>2. CASE i # Len(chan[l]) + 1
      <4>1. i \in DOMAIN chan[l] /\ chan'[l][i] = chan[l][i]
        BY <1>0, <1>3, <2>3, <3>2
      <4> QED BY <1>0, <4>1
    <3> QED BY <3>1, <3>2
  <2> QED BY <2>1, <2>2, <2>3 DEF Delivers
<1>4. ASSUME NEW i \in DOMAIN chan'[l] PROVE Leads(l, chan[l][i])'
  <2>1. PICK msg \in Message : msg = chan'[l][i] /\ Answerable(l, msg) /\ Leads(l, msg)
    BY <1>3, <1>4
  <2>2. Leads(l, msg)'
    BY <1>2, <2>1
  <2> QED BY <2>1, <2>2 DEF Leads, LeadsOn, Held
<1> QED BY <1>1, <1>4

\* A locator names blocks the node has.
LEMMA LocatorHeld ==
    ASSUME SyncInv, ChainInv, NEW n \in Node
    PROVE  Locator(n) \in SUBSET Hash /\ Locator(n) \subseteq Held(n)
BY DEF Locator, Held, SyncInv, TypeOK

\* One message is written, or none.
LEMMA WriteDelivers ==
    ASSUME SyncInv, NEW l \in Link, NEW msg \in Message, Answerable(l, msg), Leads(l, msg),
           chan' = chan \/ chan' = Sent(chan, l, msg)
    PROVE  \A k \in Link : Delivers(k)
<1>1. CASE chan' = chan
  BY <1>1 DEF Delivers
<1>2. CASE chan' = [chan EXCEPT ![l] = Append(chan[l], msg)]
  BY <1>2 DEF Delivers, SyncInv, TypeOK
<1> QED BY <1>1, <1>2 DEF Sent

\* Or one is read.
LEMMA ReadDelivers ==
    ASSUME SyncInv, NEW l \in Link, NEW type, Reads(l, type), chan' = Rest(l)
    PROVE  \A k \in Link : Delivers(k)
<1>1. Back(l) \in Link /\ chan[Back(l)] # <<>>
  BY LinkTypes DEF Reads
<1>2. chan' = [chan EXCEPT ![Back(l)] = Tail(chan[Back(l)])]
  BY DEF Rest
<1> QED BY <1>1, <1>2 DEF Delivers, SyncInv, TypeOK

LEMMA PanicDelivers ==
    ASSUME SyncInv, NEW n \in Node, Panic(n)
    PROVE  \A k \in Link : Delivers(k) /\ HandsOn(k)
<1> SUFFICES ASSUME NEW k \in Link PROVE Delivers(k) /\ HandsOn(k)
  OBVIOUS
<1>1. chan'[k] \in {chan[k], <<>>} /\ job'[k] \in {job[k], Idle} /\ Idle.at # "walk"
  BY LinkTypes DEF Panic, Idle
<1> QED BY <1>1 DEF Delivers, HandsOn

\* One goroutine moves on to something else than the walk.
LEMMA OneHands ==
    ASSUME SyncInv, NEW g \in Goroutine, NEW j, job' = [job EXCEPT ![g] = j], j.at # "walk"
    PROVE  \A k \in Link : HandsOn(k)
BY LinkTypes DEF HandsOn, SyncInv, TypeOK

\* The steps of a session: a locator and an answer lead on, the other messages lead nowhere.
LEMMA SessionLeads ==
    ASSUME SyncInv, ChainInv, LeadInv, NEW l \in Link,
           Connect(l) \/ SetupPeerSession(l) \/ Drop(l) \/ HandleSyncOnce(l) \/ Handle(l)
    PROVE  \A k \in Link : Delivers(k) /\ HandsOn(k)
<1>0. /\ TypeOK /\ RequestsAnswerable /\ job[l] \in Job /\ Sound(l)
      /\ l \in Goroutine /\ l[1] \in Node /\ l[2] \in Node /\ Idle.at = "idle"
  BY HandlerTypes DEF Idle
<1>1. ASSUME job' = [job EXCEPT ![l] = Idle] PROVE \A k \in Link : HandsOn(k)
  BY <1>0, <1>1, OneHands
<1>2. ASSUME NEW at \in {"last", "sync", "fork", "check"}, Goto(l, at), Quiet
      PROVE  \A k \in Link : Delivers(k) /\ HandsOn(k)
  <2> DEFINE j == [job[l] EXCEPT !.at = at]
  <2>1. job' = [job EXCEPT ![l] = j] /\ j.at = at
    BY <1>0, <1>2 DEF Goto, TypeOK, Job
  <2> HIDE DEF j
  <2>2. \A k \in Link : HandsOn(k)
    BY <1>0, <2>1, OneHands
  <2> QED BY <1>2, <2>2 DEF Quiet, Delivers
<1>3. CASE Connect(l) \/ SetupPeerSession(l)
  BY <1>3 DEF Connect, SetupPeerSession, Delivers, HandsOn
<1>4. CASE Drop(l)
  <2>1. \A k \in Link : chan'[k] \in {chan[k], <<>>}
    BY <1>0, <1>4, LinkTypes DEF Drop, TypeOK
  <2> QED BY <1>4, <2>1 DEF Drop, Delivers, HandsOn
<1>5. CASE HandleSyncOnce(l) \/ HandleSync(l)
  <2> DEFINE msg == GetBlocks(Locator(l[1]))
  <2>1. msg \in Message /\ Answerable(l, msg) /\ Leads(l, msg)
    BY <1>0, LocatorHeld DEF GetBlocks, Message, Answerable, Leads
  <2>2. chan' = Sent(chan, l, msg)
    BY <1>5 DEF HandleSyncOnce, HandleSync
  <2>3. \A k \in Link : Delivers(k)
    <3> HIDE DEF msg
    <3> QED BY <2>1, <2>2, WriteDelivers
  <2>4. \A k \in Link : HandsOn(k)
    <3>1. CASE HandleSyncOnce(l)
      BY <3>1 DEF HandleSyncOnce, HandsOn
    <3>2. CASE HandleSync(l)
      BY <1>1, <3>2 DEF HandleSync, Return
    <3> QED BY <1>5, <3>1, <3>2
  <2> QED BY <2>3, <2>4
<1>6. CASE HandleGetBlocks(l)
  <2>1. \A k \in Link : Delivers(k)
    BY <1>6, ReadDelivers DEF HandleGetBlocks
  <2>2. CASE UNCHANGED job
    BY <2>1, <2>2 DEF HandsOn
  <2>3. CASE job' # job
    <3>1. PICK h \in stored[l[1]] :
              /\ FindCommonBlock(l[1], Msg(l).locator, h)
              /\ job' = [job EXCEPT ![l] = Does("walk", h)]
      BY <1>6, <2>3 DEF HandleGetBlocks
    <3>2. Msg(l).locator \subseteq Held(l[2])
      <4>1. /\ Back(l) \in Link /\ Back(l)[1] = l[2]
            /\ chan[Back(l)] \in Seq(Message) /\ chan[Back(l)] # <<>>
            /\ Msg(l) = Head(chan[Back(l)]) /\ Msg(l).type = "getblocks"
        BY <1>0, <1>6, LinkTypes DEF HandleGetBlocks, Reads, Msg, TypeOK
      <4>2. 1 \in DOMAIN chan[Back(l)] /\ Msg(l) = chan[Back(l)][1]
        BY <4>1
      <4> QED BY <4>1, <4>2 DEF LeadInv, Leads
    <3>3. h \in Held(l[2])
      <4>1. h \in Msg(l).locator \cup {Genesis}
        BY <1>0, <3>1, CommonBlock
      <4> QED BY <1>0, <3>2, <4>1 DEF Held, ChainInv, Known
    <3>4. UNCHANGED <<parent, stored, tip>>
      BY <1>6 DEF HandleGetBlocks
    <3>5. Walks(l)'
      <4>1. job'[l] = Does("walk", h)
        BY <1>0, <3>1 DEF TypeOK
      <4>2. job'[l].inv = <<>> /\ job'[l].hash = h
        BY <4>1 DEF Does
      <4> QED BY <3>3, <3>4, <4>2 DEF Walks, Held
    <3>6. \A k \in Link : k # l => job'[k] = job[k]
      BY <1>0, <3>1, LinkTypes DEF TypeOK
    <3> QED BY <2>1, <3>5, <3>6 DEF HandsOn
  <2> QED BY <2>2, <2>3
<1>7. CASE GetNextBlockHash(l)
  <2>1. PICK next \in Children(l[1], job[l].hash) :
            job' = [job EXCEPT ![l].hash = next, ![l].inv = Append(@, next)]
    BY <1>7 DEF GetNextBlockHash
  <2>2. /\ job[l].at = "walk" /\ Walks(l) /\ parent[next] = job[l].hash
        /\ UNCHANGED <<parent, stored, tip, chan>>
    BY <1>7, <2>1 DEF GetNextBlockHash, At, Children, LeadInv
  <2>3. job[l].inv \in Seq(Hash) /\ next \in Hash
    BY <1>0, <2>1 DEF Job, Children, TypeOK
  <2> DEFINE s == job[l].inv
             t == Append(s, next)
  <2>4. /\ job'[l].hash = next /\ job'[l].inv = t
        /\ \A k \in Link : k # l => job'[k] = job[k]
    BY <1>0, <2>1, LinkTypes DEF Job, TypeOK
  <2>5. /\ t \in Seq(Hash) /\ t # <<>> /\ Len(t) = Len(s) + 1 /\ t[Len(t)] = next
        /\ \A i \in 1..Len(s) : t[i] = s[i]
    BY <2>3
  <2>6. LeadsOn(l[2], t)
    <3>1. CASE s = <<>>
      <4>1. Len(t) = 1 /\ t[1] = next /\ job[l].hash \in Held(l[2])
        BY <2>2, <2>5, <3>1 DEF Walks
      <4> HIDE DEF t
      <4> QED BY <2>2, <4>1 DEF LeadsOn
    <3>2. CASE s # <<>>
      <4>1. LeadsOn(l[2], s) /\ s[Len(s)] = job[l].hash /\ Len(s) \in Nat /\ Len(s) >= 1
        BY <2>2, <2>3, <3>2 DEF Walks
      <4> HIDE DEF s, t
      <4>2. parent[t[1]] \in Held(l[2])
        BY <2>5, <4>1 DEF LeadsOn
      <4>3. ASSUME NEW i \in 2..Len(t) PROVE parent[t[i]] = t[i - 1]
        <5>1. CASE i = Len(t)
          <6>1. t[i] = next /\ t[i - 1] = s[Len(s)]
            BY <2>5, <4>1, <5>1
          <6> QED BY <2>2, <4>1, <6>1
        <5>2. CASE i # Len(t)
          <6>1. i \in 2..Len(s) /\ t[i] = s[i] /\ t[i - 1] = s[i - 1]
            BY <2>5, <4>1, <4>3, <5>2
          <6> QED BY <4>1, <6>1 DEF LeadsOn
        <5> QED BY <5>1, <5>2
      <4> QED BY <4>2, <4>3 DEF LeadsOn
    <3> QED BY <3>1, <3>2
  <2> HIDE DEF t
  <2>7. Walks(l)'
    BY <2>2, <2>4, <2>5, <2>6 DEF Walks, LeadsOn, Held
  <2> QED BY <2>2, <2>4, <2>7 DEF Delivers, HandsOn
<1>8. CASE SendInventory(l)
  <2> DEFINE msg == Inv(job[l].inv)
  <2>1. job[l].at = "walk" /\ job[l].inv \in Seq(Hash) /\ HasAll(l[1], job[l].inv) /\ Walks(l)
    BY <1>0, <1>8 DEF SendInventory, At, Job, Sound, LeadInv
  <2>2. msg \in Message /\ Answerable(l, msg) /\ Leads(l, msg)
    <3>1. Len(job[l].inv) > 1 => LeadsOn(l[2], job[l].inv)
      BY <2>1 DEF Walks
    <3> QED BY <2>1, <3>1 DEF Inv, Message, Answerable, Leads
  <2>3. \A k \in Link : Delivers(k)
    <3>1. chan' = Sent(chan, l, msg)
      BY <1>8 DEF SendInventory
    <3> HIDE DEF msg
    <3> QED BY <2>2, <3>1, WriteDelivers
  <2> QED BY <1>1, <1>8, <2>3 DEF SendInventory, Return
<1>9. CASE HandleInventory(l) \/ HandleGetData(l)
  <2>1. \A k \in Link : Delivers(k)
    BY <1>9, ReadDelivers DEF HandleInventory, HandleGetData
  <2>0. PICK at \in {"unknown", "reply"} : \E s : job' = [job EXCEPT ![l] = GoesThrough(at, s)]
    BY <1>9 DEF HandleInventory, HandleGetData
  <2>2. PICK s : job' = [job EXCEPT ![l] = GoesThrough(at, s)]
    BY <2>0
  <2> DEFINE j == GoesThrough(at, s)
  <2>3. j.at = at
    BY DEF GoesThrough
  <2> HIDE DEF j
  <2> QED BY <1>0, <2>1, <2>2, <2>3, OneHands DEF j
<1>10. CASE CollectUnknownBlockHash(l)
  <2> DEFINE hash == Head(job[l].rest)
             j == [job[l] EXCEPT
                    !.rest = Tail(@), !.inv = IF hash \in stored[l[1]] THEN @ ELSE Append(@, hash)]
  <2>1. job' = [job EXCEPT ![l] = j] /\ chan' = chan /\ job[l].at = "unknown"
    BY <1>0, <1>10 DEF CollectUnknownBlockHash, At, TypeOK
  <2>2. j.at = job[l].at
    BY <1>0 DEF Job
  <2> HIDE DEF j
  <2> QED BY <1>0, <2>1, <2>2, OneHands DEF Delivers
<1>11. CASE SendGetData(l) \/ SendRequestedData(l)
  <2>1. ASSUME NEW msg \in Message, Answerable(l, msg), msg.type \in {"getdata", "block"},
               chan' = chan \/ chan' = Sent(chan, l, msg)
        PROVE  \A k \in Link : Delivers(k)
    BY <2>1, WriteDelivers DEF Leads
  <2>2. CASE SendGetData(l)
    <3> DEFINE msg == GetData(job[l].inv)
    <3>1. msg \in Message /\ Answerable(l, msg) /\ msg.type = "getdata"
      BY <1>0, <2>2 DEF SendGetData, At, Sound, Job, GetData, Message, Answerable
    <3>2. chan' = chan \/ chan' = Sent(chan, l, msg)
      BY <2>2 DEF SendGetData
    <3> HIDE DEF msg
    <3>3. \A k \in Link : Delivers(k)
      BY <2>1, <3>1, <3>2
    <3> QED BY <1>1, <2>2, <3>3 DEF SendGetData, Return
  <2>3. CASE SendRequestedData(l)
    <3> DEFINE hash == Head(job[l].rest)
               msg == BlockMsg(hash)
               j == [job[l] EXCEPT !.rest = Tail(@)]
    <3>1. job' = [job EXCEPT ![l] = j] /\ job[l].at = "reply"
      BY <1>0, <2>3 DEF SendRequestedData, At, TypeOK
    <3>2. j.at = job[l].at
      BY <1>0 DEF Job
    <3>3. CASE chan' = chan
      <4> HIDE DEF j
      <4> QED BY <1>0, <3>1, <3>2, <3>3, OneHands DEF Delivers
    <3>4. CASE chan' # chan
      <4>1. chan' = Sent(chan, l, msg) /\ hash \in stored[l[1]]
        BY <2>3, <3>4 DEF SendRequestedData
      <4>2. msg \in Message /\ Answerable(l, msg) /\ msg.type = "block"
        BY <1>0, <4>1 DEF BlockMsg, Message, Answerable, TypeOK
      <4> HIDE DEF msg, j
      <4>3. \A k \in Link : Delivers(k)
        BY <2>1, <4>1, <4>2
      <4>4. \A k \in Link : HandsOn(k)
        BY <1>0, <3>1, <3>2, OneHands
      <4> QED BY <4>3, <4>4
    <3> QED BY <3>3, <3>4
  <2> QED BY <1>11, <2>2, <2>3
<1>12. CASE AllReplied(l)
  <2>1. chan' = chan
    BY <1>12 DEF AllReplied
  <2> QED BY <1>1, <1>12, <2>1 DEF AllReplied, Return, Delivers
<1>13. CASE HandleBlock(l)
  <2>1. \A k \in Link : Delivers(k)
    BY <1>13, ReadDelivers DEF HandleBlock
  <2>2. CASE UNCHANGED job
    BY <2>1, <2>2 DEF HandsOn
  <2>3. CASE job' = [job EXCEPT ![l] = Does("previous", Msg(l).block)]
    <3> DEFINE j == Does("previous", Msg(l).block)
    <3>1. j.at = "previous"
      BY DEF Does
    <3> HIDE DEF j
    <3> QED BY <1>0, <2>1, <2>3, <3>1, OneHands DEF j
  <2> QED BY <1>13, <2>2, <2>3 DEF HandleBlock
<1>14. CASE LookupPrevious(l)
  BY <1>2, <1>14 DEF LookupPrevious
<1>15. CASE ReadLastBlock(l)
  BY <1>0, <1>2, <1>15, PanicDelivers DEF ReadLastBlock
<1>16. CASE GetForkChain(l)
  BY <1>0, <1>2, <1>16, PanicDelivers DEF GetForkChain
<1> QED BY <1>3, <1>4, <1>5, <1>6, <1>7, <1>8, <1>9, <1>10, <1>11, <1>12, <1>13, <1>14, <1>15, <1>16
        DEF Handle

\* The steps that add a block write at most an announcement, which is of one block.
LEMMA AddLeads ==
    ASSUME SyncInv, ChainInv, LeadInv, NEW g \in Goroutine, Add(g)
    PROVE  \A k \in Link : Delivers(k) /\ HandsOn(k)
<1>0. /\ job[g] \in Job /\ g[1] \in Node /\ Idle.at = "idle" /\ chan \in [Link -> Seq(Message)]
      /\ job \in [Goroutine -> Job] /\ Sound(g)
  BY DEF SyncInv, JobsSound, TypeOK, Goroutine, Idle
<1>1. ASSUME NEW at \in {"update", "commit", "announce"}, Goto(g, at)
      PROVE  \A k \in Link : HandsOn(k)
  <2> DEFINE j == [job[g] EXCEPT !.at = at]
  <2>1. job' = [job EXCEPT ![g] = j] /\ j.at = at
    BY <1>0, <1>1 DEF Goto, Job
  <2> HIDE DEF j
  <2> QED BY <2>1, OneHands
<1>2. ASSUME Return(g) PROVE \A k \in Link : HandsOn(k)
  BY <1>0, <1>2, OneHands DEF Return
<1>3. ASSUME chan' = chan PROVE \A k \in Link : Delivers(k)
  BY <1>3 DEF Delivers
<1>4. CASE CheckValid(g)
  BY <1>0, <1>1, <1>3, <1>4, PanicDelivers DEF CheckValid, Quiet
<1>5. CASE CheckMisfit(g)
  BY <1>0, <1>2, <1>3, <1>5, PanicDelivers DEF CheckMisfit, Quiet
<1>6. CASE RunUpdate(g)
  BY <1>1, <1>3, <1>6 DEF RunUpdate
<1>7. CASE Commit(g)
  BY <1>1, <1>2, <1>3, <1>7 DEF Commit
<1>8. CASE Broadcast(g)
  <2> DEFINE msg == Inv(<<job[g].hash>>)
  <2>1. job[g].hash \in Hash /\ job[g].hash \in stored[g[1]]
    BY <1>0, <1>8 DEF Broadcast, At, Job, Step, Sound
  <2>2. msg \in Message /\ \A l \in Link : l[1] = g[1] => Answerable(l, msg) /\ Leads(l, msg)
    BY <2>1 DEF Inv, Message, Answerable, Leads, HasAll
  <2>3. \A l \in Link : chan'[l] = IF l[1] = g[1] /\ session[l] = "registered"
                                   THEN Append(chan[l], msg) ELSE chan[l]
    BY <1>8 DEF Broadcast
  <2> HIDE DEF msg
  <2>4. \A l \in Link : Delivers(l)
    BY <2>2, <2>3 DEF Delivers
  <2> QED BY <1>2, <1>8, <2>4 DEF Broadcast
<1> QED BY <1>4, <1>5, <1>6, <1>7, <1>8 DEF Add

LEMMA MiningLeads ==
    ASSUME SyncInv, NEW n \in Miners, NEW h \in Hash, StartMining(n, h)
    PROVE  \A k \in Link : Delivers(k) /\ HandsOn(k)
<1>1. PICK at \in {"check", "misfit"} : job' = [job EXCEPT ![<<n, n>>] = Does(at, h)]
  BY DEF StartMining
<1> DEFINE j == Does(at, h)
<1>2. j.at = at /\ <<n, n>> \in Goroutine /\ chan' = chan
  BY SyncAssumption DEF Does, Goroutine, StartMining
<1> HIDE DEF j
<1> QED BY <1>1, <1>2, OneHands DEF j, Delivers

LEMMA LeadInvInit == Init => LeadInv
BY LinkTypes DEF Init, LeadInv, Walks, Idle

LEMMA LeadInvNext == SyncInv /\ ChainInv /\ LeadInv /\ [Next]_vars => LeadInv'
<1> SUFFICES ASSUME SyncInv, ChainInv, LeadInv, [Next]_vars PROVE LeadInv'
  OBVIOUS
<1>1. CASE UNCHANGED vars
  BY <1>1 DEF vars, LeadInv, Walks, Leads, LeadsOn, Held
<1>2. CASE Next
  <2>1. \A l \in Link : Delivers(l) /\ HandsOn(l)
    BY <1>2, SessionLeads, AddLeads, MiningLeads DEF Next
  <2> QED BY <2>1, ChainInvNext, LeadKeeps
<1> QED BY <1>1, <1>2

LEMMA ChainInvariant == Spec => [](ChainInv /\ LeadInv)
<1> USE DEF Spec
<1>1. Init => ChainInv /\ LeadInv
  BY ChainInvInit, LeadInvInit
<1>2. SyncInv /\ ChainInv /\ LeadInv /\ [Next]_vars => ChainInv' /\ LeadInv'
  BY ChainInvNext, LeadInvNext
<1> QED BY <1>1, <1>2, SyncInvariant, PTL

\* An answer to a locator leads on from what the asker has, for any number of nodes that mine, fork
\* and lose connections while the locator is on its way and the answer is gathered.
THEOREM AnswersAlwaysLeadOn == Spec => []AnswersLeadOn
<1>1. SyncInv /\ LeadInv => AnswersLeadOn
  BY DEF LeadInv, Walks, Leads, AnswersLeadOn
<1> QED BY <1>1, SyncInvariant, ChainInvariant, PTL

\* Every block that a node stores is stored with its whole chain, down to the genesis block: no
\* orphan is ever added, by a session or by the miner.
THEOREM StoresWholeChains ==
    Spec => [](\A n \in Node : \A h \in stored[n] :
                  \A i \in DOMAIN ChainFrom[h] : ChainFrom[h][i] \in stored[n])
<1>1. SyncInv /\ ChainInv => \A n \in Node : \A h \in stored[n] :
          \A i \in DOMAIN ChainFrom[h] : ChainFrom[h][i] \in stored[n]
  BY ChainFromEnds DEF SyncInv, ChainInv, Known
<1> QED BY <1>1, SyncInvariant, ChainInvariant, PTL

\* A request for blocks that finds the tip stored is answered, whatever its locator names: the way
\* down meets a block of it or ends with the genesis block (FindCommonBlock, handleGetBlocks).
THEOREM GetBlocksAnswered ==
    Spec => [](\A n \in Node : tip[n] \in stored[n] =>
                    \A locator \in SUBSET Hash : \E h \in stored[n] : FindCommonBlock(n, locator, h))
<1>1. SyncInv /\ ChainInv => \A n \in Node : tip[n] \in stored[n] =>
          \A locator \in SUBSET Hash : \E h \in stored[n] : FindCommonBlock(n, locator, h)
  BY CommonBlock
<1> QED BY <1>1, SyncInvariant, ChainInvariant, PTL
=============================================================================
