--------------------------- MODULE LifecycleProofs ---------------------------
(***************************************************************************)
(* Theorems about Lifecycle for any number of connections, hosts, slots    *)
(* and descriptors: the types, the balance of the slots, the entries of    *)
(* the map of the peers, who gets what is broadcast, and when the program  *)
(* may panic. That a run ends (ShutdownEnds) is left to TLC.               *)
(***************************************************************************)
EXTENDS Lifecycle, FiniteSetTheorems, TLAPS

\* The connections that hold a token of sem, and the token of acceptConnections.
Accepted == {c \in Conn \ dialled : pc[c] # "unused"}
Waiting == IF pc[acceptor] = "accept" THEN 1 ELSE 0

\* A connection that is not used yet was not dialled, one that is being dialled was.
DialledKnown ==
    \A c \in Conn : /\ pc[c] = "unused" => c \notin dialled
                    /\ pc[c] = "dial" => c \in dialled

\* Who ends because the program does, does so after cliDone was closed, and nothing is
\* accepted before the node listens.
EndsInOrder ==
    /\ main \in {"stop", "close", "return"} => cliDone
    /\ pc[node] \in {"store", "ended"} => done
    /\ main \in {"load", "boot"} => pc[node] = "off"
    /\ pc[node] \in {"off", "listen"} => pc[acceptor] = "off"

\* Two sessions with one address are both in the history.
SharedKnown ==
    \A c \in Registered \ shared, d \in Registered : d # c => key[d] # key[c]

Inv == /\ TypeOK /\ DialledKnown /\ SlotsBalance
       /\ EndsInOrder
       /\ EntriesLive /\ SharedKnown /\ ReachableUnlessShared

-----------------------------------------------------------------------------
(* Lemmas.                                                                  *)

\* The goroutines of the program are distinct from each other and from the connections.
LEMMA Goroutines ==
    /\ node # saver /\ node # cli /\ cli # saver
    /\ acceptor # node /\ acceptor # cli /\ acceptor # saver
    /\ \A c \in Conn : c # node /\ c # cli /\ c # saver /\ c # acceptor
    /\ \A g \in Worker : g # node /\ g # saver /\ g # acceptor
    /\ Conn \subseteq Goroutine /\ Worker \subseteq Goroutine /\ {saver, node, acceptor} \subseteq Goroutine
BY LifecycleAssumption DEF Worker, Goroutine

\* The set of the connections with a token is finite.
LEMMA AcceptedFinite == IsFiniteSet(Accepted) /\ Cardinality(Accepted) \in Nat
<1>1. Accepted \in SUBSET Conn /\ IsFiniteSet(Conn)
  BY LifecycleAssumption DEF Accepted
<1>2. IsFiniteSet(Accepted)
  BY <1>1, FS_Subset
<1> QED BY <1>2, FS_CardinalityType

\* A step that gives and takes no token keeps the balance.
LEMMA SameSlots ==
    ASSUME SlotsBalance, slots' = slots, Waiting' = Waiting,
           \A c \in Conn : (c \notin dialled' /\ pc'[c] # "unused") <=> (c \notin dialled /\ pc[c] # "unused")
    PROVE  SlotsBalance'
<1>1. Accepted' = Accepted
  BY DEF Accepted
<1> QED BY <1>1 DEF SlotsBalance, Accepted, Waiting

\* The deferred calls at the end of connection c keep the balance.
LEMMA EndBalances ==
    ASSUME TypeOK, DialledKnown, SlotsBalance,
           NEW c \in Conn, pc[c] \in {"handshake", "session"}, End(c)
    PROVE  SlotsBalance' /\ slots' \in 0..MaxConnections /\ DialledKnown'
<1>1. DialledKnown'
  BY Goroutines DEF DialledKnown, End, Goto, TypeOK
<1>0. Waiting' = Waiting
  BY Goroutines DEF Waiting, End, Goto, TypeOK
<1>2. CASE c \in dialled
  <2>1. \A d \in Conn : (d \notin dialled' /\ pc'[d] # "unused") <=> (d \notin dialled /\ pc[d] # "unused")
    BY <1>2, Goroutines DEF End, Goto, TypeOK
  <2>2. slots' = slots
    BY <1>2 DEF End
  <2>3. SlotsBalance'
    BY <1>0, <2>1, <2>2, SameSlots
  <2> QED BY <1>1, <2>2, <2>3 DEF TypeOK
<1>3. CASE c \notin dialled
  <2>1. c \in Accepted
    BY <1>3 DEF Accepted
  <2>2. Accepted' = Accepted \ {c}
    BY <1>3, Goroutines DEF Accepted, End, Goto, TypeOK
  <2>3. Cardinality(Accepted') = Cardinality(Accepted) - 1
    BY <2>1, <2>2, AcceptedFinite, FS_RemoveElement
  <2>4. Cardinality(Accepted') \in Nat
    BY <2>2, AcceptedFinite, FS_RemoveElement, FS_CardinalityType
  <2>5. slots = Cardinality(Accepted) + Waiting /\ slots' = slots - 1
    BY <1>3 DEF SlotsBalance, Accepted, Waiting, End
  <2>9. Cardinality(Accepted) \in Nat /\ Waiting \in {0, 1}
    BY AcceptedFinite DEF Waiting
  <2>6. slots' = Cardinality(Accepted') + Waiting'
    BY <1>0, <2>3, <2>5, <2>9
  <2>7. SlotsBalance'
    BY <2>6 DEF SlotsBalance, Accepted, Waiting
  <2>8. slots' \in 0..MaxConnections
    <3>1. slots \in 0..MaxConnections /\ MaxConnections \in Nat
      BY LifecycleAssumption DEF TypeOK
    <3>2. Cardinality(Accepted') + Waiting' \in Nat
      BY <1>0, <2>4, <2>9
    <3> QED BY <3>1, <3>2, <2>5, <2>6
  <2> QED BY <1>1, <2>7, <2>8
<1> QED BY <1>2, <1>3

-----------------------------------------------------------------------------
(* Each step keeps the invariant.                                           *)

LEMMA InitInv == Init => Inv
<1> SUFFICES ASSUME Init PROVE Inv
  OBVIOUS
<1>1. /\ \A g \in Conn : pc[g] = "unused"
      /\ pc[acceptor] = "off"
  BY Goroutines DEF Init, Worker
<1>2. TypeOK
  <2>1. pc \in [Goroutine -> {"unused", "off"}]
    BY DEF Init
  <2>2. slots \in 0..MaxConnections
    BY LifecycleAssumption DEF Init
  <2>3. DOMAIN peers = {}
    BY DEF Init
  <2>4. key \in [Conn -> Key]
    BY DEF Init, Key
  <2> QED BY <2>1, <2>2, <2>3, <2>4 DEF Init, TypeOK
<1>3. SlotsBalance
  <2>1. {c \in Conn \ dialled : pc[c] # "unused"} = {}
    BY <1>1
  <2>2. slots = 0 /\ pc[acceptor] # "accept"
    BY <1>1 DEF Init
  <2> QED BY <2>1, <2>2, FS_EmptySet DEF SlotsBalance
<1>4. DialledKnown
  BY <1>1 DEF DialledKnown, Init
<1>5. EndsInOrder
  BY Goroutines DEF Init, EndsInOrder
<1>6. Registered = {}
  BY <1>1 DEF Registered
<1>7. EntriesLive /\ SharedKnown /\ ReachableUnlessShared
  BY <1>6 DEF EntriesLive, SharedKnown, ReachableUnlessShared, Init
<1> QED BY <1>2, <1>3, <1>4, <1>5, <1>7 DEF Inv

\* Steps that leave the connections, the sessions and the map alone.
LEMMA QuietKeeps ==
    ASSUME Inv, UNCHANGED <<slots, peers, conns, open, shared>>,
           \A c \in Conn : pc'[c] = pc[c], Waiting' = Waiting,
           TypeOK', EndsInOrder'
    PROVE  Inv'
<1>1. Registered' = Registered
  BY DEF Registered
<1>2. EntriesLive' /\ SharedKnown' /\ ReachableUnlessShared'
  BY <1>1 DEF Inv, EntriesLive, SharedKnown, ReachableUnlessShared, conns
<1>3. SlotsBalance'
  BY SameSlots DEF Inv, conns
<1>4. DialledKnown'
  BY DEF Inv, DialledKnown, conns
<1> QED BY <1>2, <1>3, <1>4 DEF Inv

LEMMA MainKeeps == ASSUME Inv, Start \/ ReceiveDone \/ Stop \/ Close \/ Leave \/ CheckPeers PROVE Inv'
<1>1. TypeOK'
  BY DEF Inv, TypeOK, Start, ReceiveDone, Stop, Close, Leave, Goes, CheckPeers, start, conns
<1>2. EndsInOrder'
  BY Goroutines DEF Inv, TypeOK, EndsInOrder, done, Start, ReceiveDone, Stop, Close, Leave, Goes, CheckPeers, start, conns
<1>3. (\A c \in Conn : pc'[c] = pc[c]) /\ Waiting' = Waiting
  BY Goroutines DEF Waiting, Inv, TypeOK, Worker, Start, ReceiveDone, Stop, Close, Leave, Goes, CheckPeers
<1>4. UNCHANGED <<slots, peers, conns, open, shared>>
  BY DEF Start, ReceiveDone, Stop, Close, Leave, Goes, CheckPeers
<1> QED BY <1>1, <1>2, <1>3, <1>4, QuietKeeps

LEMMA CommandKeeps == ASSUME Inv, Exit \/ Signal \/ Listen \/ SaverEnds PROVE Inv'
<1>1. TypeOK'
  BY DEF Inv, TypeOK, Panics, Exit, Signal, CloseDone, Listen, SaverEnds, Up, Goto, start, conns, Worker
<1>2. EndsInOrder'
  BY Goroutines DEF Inv, TypeOK, EndsInOrder, done, Exit, Signal, CloseDone, Listen, SaverEnds, Up, Goto, start, conns, Worker
<1>3. (\A c \in Conn : pc'[c] = pc[c]) /\ Waiting' = Waiting
  <2>1. CASE Exit \/ SaverEnds
    BY <2>1, Goroutines DEF Waiting, Inv, TypeOK, Worker, Goroutine, Exit, SaverEnds, Goto
  <2>2. CASE Listen
    BY <2>2, Goroutines DEF Waiting, Inv, TypeOK, EndsInOrder, Listen, Up
  <2>3. CASE Signal
    BY <2>3 DEF Waiting, Signal
  <2> QED BY <2>1, <2>2, <2>3
<1>4. UNCHANGED <<slots, peers, conns, open, shared>>
  BY DEF Exit, Signal, CloseDone, Listen, SaverEnds
<1> QED BY <1>1, <1>2, <1>3, <1>4, QuietKeeps

LEMMA SaveKeeps == ASSUME Inv, NEW g \in {saver, node}, SavePeers(g) \/ StorePeers(g) PROVE Inv'
<1>1. TypeOK'
  BY DEF Inv, TypeOK, SavePeers, StorePeers, Up, Goto, start, conns, Worker
<1>2. EndsInOrder'
  BY Goroutines DEF Inv, TypeOK, EndsInOrder, done, dbOpen, SavePeers, StorePeers, Up, Goto, start, conns, Worker
<1>3. (\A c \in Conn : pc'[c] = pc[c]) /\ Waiting' = Waiting
  BY Goroutines DEF Waiting, Inv, TypeOK, Worker, SavePeers, StorePeers, Up, Goto
<1>4. UNCHANGED <<slots, peers, conns, open, shared>>
  BY DEF SavePeers, StorePeers
<1> QED BY <1>1, <1>2, <1>3, <1>4, QuietKeeps

\* Panics stop everything.
LEMMA PanicKeeps == ASSUME Inv, NEW cause \in Panics, Dies(cause) PROVE Inv'
<1>1. TypeOK' /\ EndsInOrder'
  BY DEF Inv, TypeOK, EndsInOrder, done, Dies, start, conns
<1>2. (\A c \in Conn : pc'[c] = pc[c]) /\ Waiting' = Waiting
  BY DEF Dies, Waiting
<1>3. UNCHANGED <<slots, peers, conns, open, shared>>
  BY DEF Dies
<1> QED BY <1>1, <1>2, <1>3, QuietKeeps

\* A connection that is being made or was never used is in no session, and takes no part in
\* what is said of the sessions.
LEMMA OutsideKeeps ==
    ASSUME Inv, UNCHANGED <<peers, shared>>,
           NEW c \in Conn, pc[c] \in {"unused", "dial", "handshake"},
           pc'[c] \in {"unused", "dial", "handshake"},
           \A d \in Conn \ {c} : /\ pc'[d] = pc[d] /\ key'[d] = key[d]
                                 /\ d \in open' => d \in open
    PROVE  EntriesLive' /\ SharedKnown' /\ ReachableUnlessShared'
<1>1. Registered' = Registered /\ c \notin Registered
  BY DEF Registered
<1>2. \A d \in Registered : key'[d] = key[d] /\ (d \in open' => d \in open)
  BY <1>1 DEF Registered
<1>3. EntriesLive'
  BY <1>1, <1>2 DEF Inv, EntriesLive
<1>4. SharedKnown'
  BY <1>1, <1>2 DEF Inv, SharedKnown
<1>5. ReachableUnlessShared'
  BY <1>1, <1>2 DEF Inv, ReachableUnlessShared
<1> QED BY <1>3, <1>4, <1>5

\* Connect as far as the dial.
LEMMA CallKeeps ==
    ASSUME Inv, NEW c \in Conn, NEW n \in Name, Call(c, n),
           UNCHANGED <<main, cliDone, slots, peers, open, shared>>,
           TypeOK'
    PROVE  Inv'
<1>1. CASE pc' = pc /\ UNCHANGED conns
  <2>1. EndsInOrder' /\ Waiting' = Waiting
    BY <1>1 DEF Inv, EndsInOrder, done, Waiting
  <2> QED BY <1>1, <2>1, QuietKeeps
<1>2. CASE /\ pc[c] = "unused"
           /\ Goto(c, "dial")
           /\ key' = [key EXCEPT ![c] = Resolve[n]]
           /\ dialled' = dialled \cup {c}
  <2>1. pc' = [pc EXCEPT ![c] = "dial"]
    BY <1>2 DEF Goto
  <2>2. /\ pc'[c] = "dial" /\ \A d \in Conn \ {c} : pc'[d] = pc[d] /\ key'[d] = key[d]
        /\ Waiting' = Waiting
    BY <1>2, <2>1, Goroutines DEF Inv, TypeOK, Waiting
  <2>3. EntriesLive' /\ SharedKnown' /\ ReachableUnlessShared'
    BY <1>2, <2>2, OutsideKeeps
  <2>4. SlotsBalance'
    BY <1>2, <2>2, SameSlots DEF Inv, DialledKnown
  <2>5. DialledKnown'
    BY <1>2, <2>2 DEF Inv, DialledKnown
  <2>6. EndsInOrder'
    BY <2>1, Goroutines DEF Inv, EndsInOrder, done, TypeOK, Worker
  <2> QED BY <2>3, <2>4, <2>5, <2>6 DEF Inv
<1> QED BY <1>1, <1>2 DEF Call

\* The three who call Connect.
LEMMA ConnectKeeps ==
    ASSUME Inv, NEW c \in Conn,
           LoadPeer(c) \/ ConnectBootstrap(c) \/ \E n \in Name : HandleConnect(c, n)
    PROVE  Inv'
<1>1. PICK n \in Name : Call(c, n)
  BY LifecycleAssumption DEF Inv, TypeOK, LoadPeer, ConnectBootstrap, HandleConnect
<1>2. UNCHANGED <<status, main, cliDone, slots, peers, open, left, shared>>
  BY DEF LoadPeer, ConnectBootstrap, HandleConnect
<1>3. loading' \subseteq loading /\ boot' \subseteq boot /\ dialling' \in {dialling, Nobody, c}
  BY DEF LoadPeer, ConnectBootstrap, HandleConnect, start
<1>4. pc' \in [Goroutine ->
                {"off", "unused", "dial", "handshake", "session", "broadcast",
                 "listen", "wait", "store", "acquire", "accept", "ended"}]
  BY <1>1 DEF Inv, TypeOK, Call, Goto
<1>5. key' \in [Conn -> Key] /\ dialled' \subseteq Conn
  BY <1>1, LifecycleAssumption DEF Inv, TypeOK, Call, conns, Key
<1>6. TypeOK'
  BY <1>2, <1>3, <1>4, <1>5 DEF Inv, TypeOK
<1> QED BY <1>1, <1>2, <1>6, CallKeeps

LEMMA DialKeeps == ASSUME Inv, NEW c \in Conn, Dial(c) PROVE Inv'
<1>1. TypeOK'
  BY DEF Inv, TypeOK, Dial, Up, Goto, conns, Key
<1>2. /\ pc[c] = "dial" /\ pc'[c] \in {"handshake", "unused"}
      /\ \A d \in Conn \ {c} : /\ pc'[d] = pc[d] /\ key'[d] = key[d]
                               /\ d \in open' => d \in open
                               /\ d \in dialled' <=> d \in dialled
      /\ c \in dialled' <=> pc'[c] = "handshake"
      /\ Waiting' = Waiting
  BY Goroutines DEF Inv, TypeOK, DialledKnown, Dial, Up, Goto, conns, Waiting
<1>3. UNCHANGED <<peers, shared, slots, main, cliDone>>
  BY DEF Dial
<1>4. EntriesLive' /\ SharedKnown' /\ ReachableUnlessShared'
  BY <1>2, <1>3, OutsideKeeps
<1>5. DialledKnown'
  BY <1>2 DEF Inv, DialledKnown
<1>6. SlotsBalance'
  BY <1>2, <1>3, SameSlots DEF Inv, DialledKnown
<1>7. EndsInOrder'
  BY <1>3, Goroutines DEF Inv, TypeOK, EndsInOrder, done, Dial, Goto, Worker
<1> QED BY <1>1, <1>4, <1>5, <1>6, <1>7 DEF Inv

LEMMA AcquireKeeps == ASSUME Inv, Acquire PROVE Inv'
<1>1. slots \in 0..MaxConnections /\ slots < MaxConnections /\ slots' = slots + 1 /\ MaxConnections \in Nat
  BY LifecycleAssumption DEF Inv, TypeOK, Acquire
<1>2. slots' \in 0..MaxConnections
  BY <1>1
<1>3. TypeOK'
  BY <1>2 DEF Inv, TypeOK, Acquire, Goto, start, conns
<1>4. /\ \A c \in Conn : pc'[c] = pc[c]
      /\ pc'[node] = pc[node] /\ pc[acceptor] = "acquire"
      /\ Waiting = 0 /\ Waiting' = 1
      /\ UNCHANGED <<peers, shared, main, cliDone, key, dialled, open>>
  BY Goroutines DEF Inv, TypeOK, Acquire, Up, Goto, conns, Waiting
<1>5. Registered' = Registered /\ Accepted' = Accepted
  BY <1>4 DEF Registered, Accepted
<1>6. EntriesLive' /\ SharedKnown' /\ ReachableUnlessShared'
  BY <1>4, <1>5 DEF Inv, EntriesLive, SharedKnown, ReachableUnlessShared
<1>7. SlotsBalance'
  <2>1. slots = Cardinality(Accepted) + Waiting
    BY DEF Inv, SlotsBalance, Accepted, Waiting
  <2>2. slots' = Cardinality(Accepted') + Waiting'
    BY <1>1, <1>4, <1>5, <2>1, AcceptedFinite
  <2> QED BY <2>2 DEF SlotsBalance, Accepted, Waiting
<1>8. DialledKnown' /\ EndsInOrder'
  BY <1>4 DEF Inv, DialledKnown, EndsInOrder, done
<1> QED BY <1>3, <1>6, <1>7, <1>8 DEF Inv

\* The token goes over to the connection.
LEMMA AcceptKeeps == ASSUME Inv, NEW c \in Conn, Accept(c) PROVE Inv'
<1>1. /\ pc[c] = "unused" /\ pc'[c] = "handshake"
      /\ \A d \in Conn \ {c} : /\ pc'[d] = pc[d] /\ key'[d] = key[d]
                               /\ d \in open' => d \in open
      /\ pc'[node] = pc[node] /\ pc[acceptor] = "accept"
      /\ Waiting = 1 /\ Waiting' = 0
      /\ UNCHANGED <<peers, shared, main, cliDone, dialled, slots>>
  BY Goroutines DEF Inv, TypeOK, Accept, Up, conns, Waiting
<1>2. TypeOK'
  BY DEF Inv, TypeOK, Accept, start, conns
<1>3. EntriesLive' /\ SharedKnown' /\ ReachableUnlessShared'
  BY <1>1, OutsideKeeps
<1>4. DialledKnown'
  BY <1>1 DEF Inv, DialledKnown
<1>5. SlotsBalance'
  <2>1. c \notin Accepted /\ Accepted' = Accepted \cup {c}
    BY <1>1 DEF Accepted, Inv, DialledKnown
  <2>2. Cardinality(Accepted') = Cardinality(Accepted) + 1
    BY <2>1, AcceptedFinite, FS_AddElement
  <2>3. slots = Cardinality(Accepted) + Waiting
    BY DEF Inv, SlotsBalance, Accepted, Waiting
  <2>4. slots' = Cardinality(Accepted') + Waiting'
    BY <1>1, <2>2, <2>3, AcceptedFinite
  <2> QED BY <2>4 DEF SlotsBalance, Accepted, Waiting
<1>6. EndsInOrder'
  BY <1>1 DEF Inv, EndsInOrder, done
<1> QED BY <1>2, <1>3, <1>4, <1>5, <1>6 DEF Inv

LEMMA HandshakeFailsKeeps == ASSUME Inv, NEW c \in Conn, HandshakeFails(c) PROVE Inv'
<1>1. pc[c] = "handshake" /\ End(c)
  BY DEF HandshakeFails, Up
<1>2. SlotsBalance' /\ slots' \in 0..MaxConnections /\ DialledKnown'
  BY <1>1, EndBalances DEF Inv
<1>3. TypeOK'
  BY <1>2 DEF Inv, TypeOK, HandshakeFails, End, Goto, start, Key
<1>4. /\ pc'[c] = "unused"
      /\ \A d \in Conn \ {c} : /\ pc'[d] = pc[d] /\ key'[d] = key[d]
                               /\ d \in open' => d \in open
      /\ UNCHANGED <<peers, main, cliDone>>
      /\ shared' = shared \ {c}
  BY Goroutines DEF Inv, TypeOK, HandshakeFails, End, Goto
<1>5. Registered' = Registered /\ c \notin Registered
  BY <1>1, <1>4 DEF Registered
<1>6. \A d \in Registered : key'[d] = key[d] /\ (d \in open' => d \in open) /\ (d \in shared' <=> d \in shared)
  BY <1>4, <1>5 DEF Registered
<1>7. EntriesLive' /\ SharedKnown' /\ ReachableUnlessShared'
  BY <1>4, <1>5, <1>6 DEF Inv, EntriesLive, SharedKnown, ReachableUnlessShared
<1>8. EndsInOrder'
  BY <1>4, Goroutines DEF Inv, TypeOK, EndsInOrder, done, HandshakeFails, End, Goto, Worker
<1> QED BY <1>2, <1>3, <1>7, <1>8 DEF Inv

LEMMA RegisterPeerKeeps == ASSUME Inv, NEW c \in Conn, RegisterPeer(c) PROVE Inv'
<1> DEFINE others == {d \in Registered : key[d] = key[c]}
<1>1. TypeOK'
  BY DEF Inv, TypeOK, RegisterPeer, Goto, start, conns, Registered
<1>2. /\ pc[c] = "handshake" /\ pc'[c] = "session"
      /\ \A d \in Conn \ {c} : pc'[d] = pc[d]
      /\ UNCHANGED <<main, cliDone, slots, dialled, key, open>>
      /\ DOMAIN peers' = DOMAIN peers \cup {key[c]}
      /\ peers'[key[c]] = c
      /\ \A k \in DOMAIN peers \ {key[c]} : peers'[k] = peers[k]
      /\ shared' = IF others = {} THEN shared ELSE shared \cup others \cup {c}
      /\ Waiting' = Waiting
  BY Goroutines DEF Inv, TypeOK, RegisterPeer, Up, Goto, conns, Waiting
<1>3. Registered' = Registered \cup {c} /\ c \notin Registered
  BY <1>2 DEF Registered
<1>4. EntriesLive'
  BY <1>2, <1>3 DEF Inv, EntriesLive
<1>5. SharedKnown'
  <2>1. ASSUME NEW a \in Registered', a \notin shared', NEW b \in Registered', b # a, key[a] = key[b]
        PROVE  FALSE
    <3>1. CASE a \in Registered /\ b \in Registered
      BY <1>2, <2>1, <3>1 DEF Inv, SharedKnown
    <3>2. CASE a = c
      <4>1. b \in others
        BY <1>3, <2>1, <3>2
      <4> QED BY <1>2, <2>1, <3>2, <4>1
    <3>3. CASE b = c
      <4>1. a \in others
        BY <1>3, <2>1, <3>3
      <4> QED BY <1>2, <2>1, <4>1
    <3> QED BY <1>3, <2>1, <3>1, <3>2, <3>3
  <2> QED BY <1>2, <2>1 DEF SharedKnown
<1>6. ReachableUnlessShared'
  <2>1. ASSUME NEW d \in Registered', d \in open, d \notin shared'
        PROVE  key[d] \in DOMAIN peers' /\ peers'[key[d]] = d
    <3>1. CASE d = c
      BY <1>2, <3>1
    <3>2. CASE d # c
      <4>1. d \in Registered /\ d \notin shared
        BY <1>2, <1>3, <2>1, <3>2
      <4>2. key[d] \in DOMAIN peers /\ peers[key[d]] = d
        BY <2>1, <4>1 DEF Inv, ReachableUnlessShared
      <4>3. key[d] # key[c]
        BY <1>2, <2>1, <4>1
      <4> QED BY <1>2, <4>2, <4>3
    <3> QED BY <3>1, <3>2
  <2> QED BY <1>2, <2>1 DEF ReachableUnlessShared
<1>7. DialledKnown'
  BY <1>2 DEF Inv, DialledKnown
<1>8. SlotsBalance'
  BY <1>2, SameSlots DEF Inv
<1>9. EndsInOrder'
  BY <1>2, Goroutines DEF Inv, TypeOK, EndsInOrder, done, RegisterPeer, Goto, Worker
<1> QED BY <1>1, <1>4, <1>5, <1>6, <1>7, <1>8, <1>9 DEF Inv

\* The session of an entry that is taken out of the map is over, or its connection is closed:
\* for every key k, whatever connection the map has for it.
LEMMA WithoutEntry ==
    ASSUME Inv, NEW k, NEW S \in SUBSET Conn,
           peers' = [x \in DOMAIN peers \ {k} |-> peers[x]],
           key' = key, shared' = shared, Registered' = Registered,
           open' = open \ S,
           k \in DOMAIN peers => peers[k] \in S
    PROVE  EntriesLive' /\ SharedKnown' /\ ReachableUnlessShared'
<1>1. EntriesLive'
  BY DEF Inv, EntriesLive
<1>2. SharedKnown'
  BY DEF Inv, SharedKnown
<1>3. ReachableUnlessShared'
  <2>1. ASSUME NEW d \in Registered, d \in open', d \notin shared
        PROVE  key[d] \in DOMAIN peers' /\ peers'[key[d]] = d
    <3>1. key[d] \in DOMAIN peers /\ peers[key[d]] = d
      BY <2>1 DEF Inv, ReachableUnlessShared
    <3>2. key[d] # k
      BY <2>1, <3>1
    <3> QED BY <3>1, <3>2
  <2> QED BY <2>1 DEF ReachableUnlessShared
<1> QED BY <1>1, <1>2, <1>3

LEMMA ReadFailsKeeps == ASSUME Inv, NEW c \in Conn, ReadFails(c) PROVE Inv'
<1>1. TypeOK'
  BY DEF Inv, TypeOK, ReadFails, start, conns
<1>2. UNCHANGED <<main, pc, cliDone, slots, peers, key, dialled, shared>> /\ open' \subseteq open
  BY DEF ReadFails, conns
<1>3. Registered' = Registered
  BY <1>2 DEF Registered
<1>4. EntriesLive' /\ SharedKnown' /\ ReachableUnlessShared'
  BY <1>2, <1>3 DEF Inv, EntriesLive, SharedKnown, ReachableUnlessShared
<1>5. SlotsBalance' /\ DialledKnown' /\ EndsInOrder'
  BY <1>2, SameSlots DEF Inv, DialledKnown, EndsInOrder, done, Waiting
<1> QED BY <1>1, <1>4, <1>5 DEF Inv

LEMMA RemovePeerKeeps == ASSUME Inv, NEW c \in Conn, RemovePeer(c) PROVE Inv'
<1>1. pc[c] = "session" /\ End(c) /\ c \notin open /\ DeletePeer(key[c])
  BY DEF RemovePeer, Up
<1>2. SlotsBalance' /\ slots' \in 0..MaxConnections /\ DialledKnown'
  BY <1>1, EndBalances DEF Inv
<1>3. TypeOK'
  BY <1>2 DEF Inv, TypeOK, RemovePeer, DeletePeer, End, Goto, start, Key
<1>4. /\ pc'[c] = "unused"
      /\ \A d \in Conn \ {c} : pc'[d] = pc[d] /\ key'[d] = key[d]
      /\ UNCHANGED <<main, cliDone>>
      /\ shared' = shared \ {c}
      /\ peers' = [x \in DOMAIN peers \ {key[c]} |-> peers[x]]
      /\ open' = open \ {peers[x] : x \in DOMAIN peers \cap {key[c]}}
  BY <1>1, Goroutines DEF Inv, TypeOK, RemovePeer, DeletePeer, End, Goto
<1>5. c \in Registered /\ Registered' = Registered \ {c}
  BY <1>1, <1>4 DEF Registered
<1>6. EntriesLive'
  <2>1. ASSUME NEW k \in DOMAIN peers'
        PROVE  key'[peers'[k]] = k /\ peers'[k] \in Registered'
    <3>1. k \in DOMAIN peers /\ k # key[c] /\ peers'[k] = peers[k]
      BY <1>4, <2>1
    <3>2. key[peers[k]] = k /\ peers[k] \in Registered
      BY <3>1 DEF Inv, EntriesLive
    <3>3. peers[k] \in Conn \ {c}
      BY <3>1, <3>2 DEF Registered
    <3> QED BY <1>4, <1>5, <3>1, <3>2, <3>3
  <2> QED BY <2>1 DEF EntriesLive
<1>7. SharedKnown'
  BY <1>4, <1>5 DEF Inv, SharedKnown, Registered
<1>8. ReachableUnlessShared'
  <2>1. ASSUME NEW d \in Registered', d \in open', d \notin shared'
        PROVE  key'[d] \in DOMAIN peers' /\ peers'[key'[d]] = d
    <3>1. d \in Registered /\ d # c /\ d \in open /\ d \notin shared /\ key'[d] = key[d]
      BY <1>4, <1>5, <2>1 DEF Registered
    <3>2. key[d] \in DOMAIN peers /\ peers[key[d]] = d
      BY <3>1 DEF Inv, ReachableUnlessShared
    <3>3. key[d] # key[c]
      BY <1>4, <2>1, <3>2
    <3> QED BY <1>4, <3>1, <3>2, <3>3
  <2> QED BY <2>1 DEF ReachableUnlessShared
<1>9. EndsInOrder'
  BY <1>4, Goroutines DEF Inv, TypeOK, EndsInOrder, done, RemovePeer, End, Goto, Worker
<1> QED BY <1>2, <1>3, <1>6, <1>7, <1>8, <1>9 DEF Inv

LEMMA RefuseBlockKeeps == ASSUME Inv, NEW c \in Conn, RefuseBlock(c) PROVE Inv'
<1> DEFINE S == {c} \cup {peers[k] : k \in DOMAIN peers \cap {key[c]}}
<1>1. TypeOK'
  BY DEF Inv, TypeOK, RefuseBlock, start, conns
<1>2. /\ UNCHANGED <<main, pc, cliDone, slots, key, dialled, shared>>
      /\ peers' = [x \in DOMAIN peers \ {key[c]} |-> peers[x]]
      /\ open' = open \ S
      /\ S \in SUBSET Conn
      /\ key[c] \in DOMAIN peers => peers[key[c]] \in S
  BY DEF RefuseBlock, conns, Inv, TypeOK
<1>3. Registered' = Registered
  BY <1>2 DEF Registered
<1>4. EntriesLive' /\ SharedKnown' /\ ReachableUnlessShared'
  BY <1>2, <1>3, WithoutEntry
<1>5. SlotsBalance' /\ DialledKnown' /\ EndsInOrder'
  BY <1>2, SameSlots DEF Inv, DialledKnown, EndsInOrder, done, Waiting
<1> QED BY <1>1, <1>4, <1>5 DEF Inv

LEMMA WriteToPeerKeeps == ASSUME Inv, NEW g \in Worker, WriteToPeer(g) PROVE Inv'
<1>1. PICK k \in left : (peers' = peers /\ open' = open) \/ DeletePeer(k)
  BY DEF WriteToPeer
<1> DEFINE S == {peers[x] : x \in DOMAIN peers \cap {k}}
<1>2. UNCHANGED <<status, main, pc, start, cliDone, slots, conns, shared>> /\ left' \subseteq left
  BY DEF WriteToPeer
<1>3. TypeOK'
  BY <1>1, <1>2 DEF Inv, TypeOK, DeletePeer, start, conns
<1>4. Registered' = Registered /\ key' = key
  BY <1>2 DEF Registered, conns
<1>5. EntriesLive' /\ SharedKnown' /\ ReachableUnlessShared'
  <2>1. CASE peers' = peers /\ open' = open
    BY <1>2, <1>4, <2>1 DEF Inv, EntriesLive, SharedKnown, ReachableUnlessShared
  <2>2. CASE DeletePeer(k)
    <3>1. /\ peers' = [x \in DOMAIN peers \ {k} |-> peers[x]]
          /\ open' = open \ S
          /\ S \in SUBSET Conn
          /\ k \in DOMAIN peers => peers[k] \in S
      BY <2>2 DEF DeletePeer, Inv, TypeOK
    <3> QED BY <1>2, <1>4, <3>1, WithoutEntry
  <2> QED BY <1>1, <2>1, <2>2
<1>6. SlotsBalance' /\ DialledKnown' /\ EndsInOrder'
  BY <1>2, SameSlots DEF Inv, DialledKnown, EndsInOrder, done, conns, Waiting
<1> QED BY <1>3, <1>5, <1>6 DEF Inv

\* A goroutine takes n.mu for a broadcast, or releases it.
LEMMA BroadcastKeeps == ASSUME Inv, NEW g \in Worker, StartBroadcast(g) \/ EndBroadcast(g) PROVE Inv'
<1>1. TypeOK'
  BY DEF Inv, TypeOK, StartBroadcast, EndBroadcast, Up, Goto, start, conns, Key
<1>2. UNCHANGED <<main, cliDone, slots, peers, key, dialled, open, shared>>
  BY DEF StartBroadcast, EndBroadcast, conns
<1>3. /\ pc[g] \in {"session", "broadcast"} /\ pc'[g] \in {"session", "broadcast"}
      /\ \A d \in Conn \ {g} : pc'[d] = pc[d]
      /\ pc'[node] = pc[node] /\ pc'[acceptor] = pc[acceptor] /\ Waiting' = Waiting
  BY Goroutines DEF Inv, TypeOK, StartBroadcast, EndBroadcast, Up, Goto, Waiting
<1>4. Registered' = Registered
  BY <1>3 DEF Registered
<1>5. EntriesLive' /\ SharedKnown' /\ ReachableUnlessShared'
  BY <1>2, <1>4 DEF Inv, EntriesLive, SharedKnown, ReachableUnlessShared
<1>6. \A c \in Conn : /\ pc'[c] = "unused" <=> pc[c] = "unused"
                      /\ pc'[c] = "dial" <=> pc[c] = "dial"
  BY <1>3
<1>7. SlotsBalance'
  BY <1>2, <1>3, <1>6, SameSlots DEF Inv
<1>8. DialledKnown'
  BY <1>2, <1>6 DEF Inv, DialledKnown
<1>9. EndsInOrder'
  BY <1>2, <1>3 DEF Inv, EndsInOrder, done
<1> QED BY <1>1, <1>5, <1>7, <1>8, <1>9 DEF Inv

-----------------------------------------------------------------------------
(* The theorems.                                                            *)

LEMMA NextKeeps == Inv /\ [Next]_vars => Inv'
<1> SUFFICES ASSUME Inv, [Next]_vars PROVE Inv'
  OBVIOUS
<1>1. CASE \E c \in Conn : LoadPeer(c) \/ Dial(c) \/ Accept(c)
  BY <1>1, ConnectKeeps, DialKeeps, AcceptKeeps
<1>2. CASE \E c \in Conn : HandshakeFails(c) \/ HandshakePanics(c) \/ RegisterPeer(c)
  BY <1>2, HandshakeFailsKeeps, RegisterPeerKeeps, PanicKeeps DEF HandshakePanics, Panics
<1>3. CASE \E c \in Conn : ReadFails(c) \/ RemovePeer(c) \/ RefuseBlock(c)
  BY <1>3, ReadFailsKeeps, RemovePeerKeeps, RefuseBlockKeeps
<1>4. CASE \E c \in Conn, n \in Name : HandleConnect(c, n)
  BY <1>4, ConnectKeeps
<1>5. CASE \E g \in Worker : StartBroadcast(g) \/ WriteToPeer(g) \/ EndBroadcast(g) \/ AddBlockPanics(g)
  BY <1>5, BroadcastKeeps, WriteToPeerKeeps, PanicKeeps DEF AddBlockPanics, Panics
<1>6. CASE \E g \in {saver, node} : SavePeers(g) \/ StorePeers(g)
  BY <1>6, SaveKeeps
<1>7. CASE SaverEnds \/ Listen \/ Acquire \/ AcceptPanics
  BY <1>7, CommandKeeps, AcquireKeeps, PanicKeeps DEF AcceptPanics, Panics
<1>8. CASE Exit \/ Signal
  BY <1>8, CommandKeeps
<1>9. CASE Main
  BY <1>9, MainKeeps, ConnectKeeps DEF Main
<1>10. CASE UNCHANGED vars
  <2>1. TypeOK' /\ EndsInOrder'
    BY <1>10 DEF Inv, TypeOK, EndsInOrder, done, vars, start, conns
  <2> QED BY <1>10, <2>1, QuietKeeps DEF vars, conns, Waiting
<1> QED BY <1>1, <1>2, <1>3, <1>4, <1>5, <1>6, <1>7, <1>8, <1>9, <1>10 DEF Next

LEMMA Invariance == Spec => []Inv
BY InitInv, NextKeeps, PTL DEF Spec

\* Every variable keeps its type, and sem never has more tokens than it holds.
THEOREM LifecycleTypeCorrect == Spec => []TypeOK
BY Invariance, PTL DEF Inv

\* However sessions overwrite and remove each other's entries, none stays behind in n.Peers
\* that no session will remove (registerPeer, removePeer, removePeerLocked).
THEOREM EntriesStayLive == Spec => []EntriesLive
BY Invariance, PTL DEF Inv

\* An open session is missing in n.Peers only if its address was in use twice at a time.
THEOREM StaysReachable == Spec => []ReachableUnlessShared
BY Invariance, PTL DEF Inv

\* The loop of acceptConnections takes a token before it waits for a peer and hands it to the session
\* of the one that comes, and every way such a session can end gives it back, once.
THEOREM SlotsStayBalanced == Spec => []SlotsBalance
BY Invariance, PTL DEF Inv

\* As long as nobody asked the program to end, the listener and the database are open, and a
\* panic is of a connection for which there was no descriptor, or of a block that the open
\* database did not have: no other goroutine runs ahead of Shutdown.
THEOREM PanicsStayExplained == Spec => []PanicsExplained
<1>1. Init => PanicsExplained
  BY DEF Init, PanicsExplained, Panics
<1>2. ASSUME Inv, PanicsExplained, [Next]_vars PROVE PanicsExplained'
  <2>1. ASSUME ~cliDone PROVE dbOpen /\ pc[node] # "ended"
    BY <1>2, <2>1 DEF Inv, EndsInOrder, dbOpen, done
  <2>2. CASE status \in Panics \/ UNCHANGED vars
    <3>1. UNCHANGED vars
      BY <1>2, <2>2 DEF Next, Main, Panics, Up, LoadPeer, Dial, Accept, HandshakeFails, HandshakePanics,
                RegisterPeer, ReadFails, RemovePeer, RefuseBlock, HandleConnect, StartBroadcast, WriteToPeer,
                EndBroadcast, AddBlockPanics, SavePeers, StorePeers, SaverEnds, Listen, Acquire, AcceptPanics,
                Exit, Signal, CheckPeers, ConnectBootstrap, Start, ReceiveDone, Stop, Close, Leave, Goes
    <3> QED BY <1>2, <3>1 DEF PanicsExplained, vars, listening, dbOpen
  <2>3. CASE \/ \E c \in Conn : HandshakePanics(c)
             \/ \E g \in Worker : AddBlockPanics(g)
    BY <2>1, <2>3 DEF HandshakePanics, AddBlockPanics, Dies, PanicsExplained, dbOpen
  <2>4. CASE AcceptPanics
    BY <2>1, <2>4 DEF AcceptPanics, Dies, PanicsExplained, listening
  <2>5. CASE Exit \/ Signal
    BY <2>5 DEF Exit, Signal, CloseDone, Up, PanicsExplained, Panics
  <2>6. CASE status = "up" /\ status' \in {"up", "exited"}
    BY <2>6 DEF PanicsExplained, Panics
  <2>7. CASE \E c \in Conn : \/ LoadPeer(c) \/ Dial(c) \/ Accept(c) \/ HandshakeFails(c)
                             \/ RegisterPeer(c) \/ ReadFails(c) \/ RemovePeer(c) \/ RefuseBlock(c)
                             \/ ConnectBootstrap(c)
                             \/ \E n \in Name : HandleConnect(c, n)
    BY <2>6, <2>7 DEF LoadPeer, Dial, Accept, HandshakeFails, RegisterPeer, ReadFails, RemovePeer,
                      RefuseBlock, ConnectBootstrap, HandleConnect, Up
  <2>8. CASE \/ \E g \in Worker : StartBroadcast(g) \/ WriteToPeer(g) \/ EndBroadcast(g)
             \/ \E g \in {saver, node} : SavePeers(g) \/ StorePeers(g)
             \/ SaverEnds \/ Listen \/ Acquire \/ Start \/ ReceiveDone \/ Stop \/ Close \/ Leave \/ CheckPeers
    BY <2>6, <2>8 DEF StartBroadcast, WriteToPeer, EndBroadcast, SavePeers, StorePeers, SaverEnds,
                      Listen, Acquire, Start, ReceiveDone, Stop, Close, Leave, Goes, CheckPeers, Up
  <2> QED BY <1>2, <2>2, <2>3, <2>4, <2>5, <2>7, <2>8 DEF Next, Main
<1> QED BY <1>1, <1>2, Invariance, PTL DEF Spec
=============================================================================
