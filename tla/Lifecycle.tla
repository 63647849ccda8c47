------------------------------ MODULE Lifecycle ------------------------------
(***************************************************************************)
(* One run of the program from its start to its end: the main goroutine    *)
(* (cmd, internal/app), the goroutines of the node (internal/p2p/node.go,  *)
(* peers.go), the sessions with the peers and the goroutine of the CLI.    *)
(* They share the map of the peers under the mutex n.mu and the database   *)
(* under bbolt's writer lock. Broadcast keeps n.mu while it writes to every *)
(* peer, with a deadline for each write; SavePeers waits for n.mu with the *)
(* writer lock in hand. What the messages say is the subject of Ledger,    *)
(* Sync and Pool, and so are the commits of blocks: they take the writer   *)
(* lock, wait for nothing with it and are left out here.                   *)
(*                                                                         *)
(* A run ends by the exit command, a signal or a panic, all of which take  *)
(* every goroutine with them. The automatic mode has no exit command and   *)
(* otherwise does less than the CLI.                                       *)
(***************************************************************************)
EXTENDS Integers, FiniteSets

CONSTANTS
    Conn,           \* bound: the connections there are at a time
    Host,           \* the addresses of listening nodes as RemoteAddr prints them
    Name,           \* what a user, a configuration or a saved peer calls an address
    Resolve,        \* the host a name stands for
    Bootstrap,      \* the names in BootstrapNodes
    MaxConnections, \* maxConnections, the slots for connections that peers dialled
    Descriptors,    \* the operating system's limit of open connections
    cli,            \* the goroutine of the CLI, which also pays and mines
    saver,          \* the goroutine that saves the peers every 15 minutes
    node,           \* the goroutine of Node.Start
    acceptor,       \* the goroutine of acceptConnections
    Nobody          \* no connection

ASSUME LifecycleAssumption ==
    /\ Host \subseteq Name
    /\ Name \cap Conn = {}
    /\ Resolve \in [Name -> Host]
    /\ \A h \in Host : Resolve[h] = h
    /\ Bootstrap \subseteq Name
    /\ IsFiniteSet(Conn)
    /\ MaxConnections \in Nat \ {0}
    /\ Descriptors \in Nat
    /\ Conn \cap {cli, saver, node, acceptor} = {}
    /\ cli # saver /\ cli # node /\ cli # acceptor
    /\ saver # node /\ saver # acceptor /\ node # acceptor
    /\ Nobody \notin Conn

\* The peers' addresses. A connection that a peer dialled comes from a port of its own.
Key == Host \cup Conn

\* Who handles messages and commands, and the goroutines.
Worker == Conn \cup {cli}
Goroutine == Worker \cup {saver, node, acceptor}

VARIABLES
    status,     \* "up", "exited", or what the process panicked of
    main,       \* what the main goroutine does next
    pc,         \* the same for the other goroutines
    loading,    \* the saved addresses LoadPeers started a goroutine for, which did not run yet
    boot,       \* the bootstrap nodes the main goroutine has yet to connect to
    dialling,   \* the connection the main goroutine waits for
    cliDone,    \* cli.Done is closed
    slots,      \* how many tokens are in the channel sem
    peers,      \* n.Peers: address -> connection
    key,        \* the address a connection is with
    dialled,    \* the connections this node dialled
    open,       \* the connections that are open at both ends
    left,       \* the peers that the goroutine in Broadcast has yet to write to
    shared      \* history: the sessions that had their address together with another one

start == <<loading, boot, dialling>>
conns == <<key, dialled>>
vars == <<status, main, pc, start, cliDone, slots, peers, conns, open, left, shared>>

Up(g, label) == status = "up" /\ pc[g] = label

Goto(g, label) == pc' = [pc EXCEPT ![g] = label]

\* What the process panics of: cli.Done closed a second time, the nil connection of a failed
\* AcceptTCP, the nil block of a lookup whose error nobody looked at.
Panics == {"closedTwice", "nilConnection", "nilBlock"}

Dies(cause) ==
    /\ status' = cause
    /\ UNCHANGED <<main, pc, start, cliDone, slots, peers, conns, open, left, shared>>

\* n.done is closed, the database is open, the listener is open.
done == main \in {"close", "return"}
dbOpen == main # "return"
listening == pc[node] \in {"wait", "store"}

\* n.mu is free, and so is bbolt's writer lock.
muFree == \A g \in Worker : pc[g] # "broadcast"
writerFree == pc[saver] # "store" /\ pc[node] # "store"

\* A session is in the map from its registration to the removal of its address.
Registered == {c \in Conn : pc[c] \in {"session", "broadcast"}}

-----------------------------------------------------------------------------
\* The database is open and has the peers an earlier run saved. Those among them that were
\* ports of connections to this node are left out: dialling them fails.
Init ==
    /\ status = "up"
    /\ main = "load"
    /\ pc = [g \in Goroutine |-> IF g \in Conn THEN "unused" ELSE "off"]
    /\ loading \in SUBSET Host
    /\ boot = {}
    /\ dialling = Nobody
    /\ cliDone = FALSE
    /\ slots = 0
    /\ peers = [k \in {} |-> Nobody]
    /\ key = [c \in Conn |-> c]
    /\ dialled = {}
    /\ open = {}
    /\ left = {}
    /\ shared = {}

-----------------------------------------------------------------------------
(* Connect, by the goroutines of LoadPeers, the main goroutine and the CLI. *)

\* Connect looks the name up among the addresses of the peers, and dials if it is not there.
Call(c, n) ==
    /\ muFree
    /\ IF n \in DOMAIN peers
       THEN UNCHANGED <<pc, conns>>
       ELSE /\ pc[c] = "unused"
            /\ Goto(c, "dial")
            /\ key' = [key EXCEPT ![c] = Resolve[n]]
            /\ dialled' = dialled \cup {c}

LoadPeer(c) ==
    /\ status = "up"
    /\ \E h \in loading : Call(c, h) /\ loading' = loading \ {h}
    /\ UNCHANGED <<status, main, boot, dialling, cliDone, slots, peers, open, left, shared>>

\* NewNode looks, without the mutex, whether a peer is registered already.
CheckPeers ==
    /\ status = "up" /\ main = "load"
    /\ main' = "boot"
    /\ boot' = IF DOMAIN peers = {} THEN Bootstrap ELSE {}
    /\ UNCHANGED <<status, pc, loading, dialling, cliDone, slots, peers, conns, open, left, shared>>

\* It connects to the bootstrap nodes itself, one after the other.
ConnectBootstrap(c) ==
    /\ status = "up" /\ main = "boot"
    /\ dialling = Nobody
    /\ \E n \in boot : Call(c, n) /\ boot' = boot \ {n}
    /\ dialling' = IF pc' = pc THEN Nobody ELSE c
    /\ UNCHANGED <<status, main, loading, cliDone, slots, peers, open, left, shared>>

\* The user connects to a node.
HandleConnect(c, n) ==
    /\ Up(cli, "session")
    /\ Call(c, n)
    /\ UNCHANGED <<status, main, start, cliDone, slots, peers, open, left, shared>>

\* The dial succeeds, unless the process has no descriptor left, or fails.
Dial(c) ==
    /\ Up(c, "dial")
    /\ \/ /\ Cardinality(open) < Descriptors
          /\ Goto(c, "handshake")
          /\ open' = open \cup {c}
          /\ UNCHANGED conns
       \/ /\ Goto(c, "unused")
          /\ key' = [key EXCEPT ![c] = c]
          /\ dialled' = dialled \ {c}
          /\ UNCHANGED open
    /\ dialling' = IF dialling = c THEN Nobody ELSE dialling
    /\ UNCHANGED <<status, main, loading, boot, cliDone, slots, peers, left, shared>>

-----------------------------------------------------------------------------
(* acceptConnections.                                                       *)

\* What acceptConnections could get wrong: it does not wait for a place in sem.
AcquireAny ==
    /\ Up(acceptor, "acquire")
    /\ slots' = slots + 1
    /\ Goto(acceptor, "accept")
    /\ UNCHANGED <<status, main, start, cliDone, peers, conns, open, left, shared>>

\* It puts a token into the channel sem, which holds MaxConnections, before it waits for a
\* connection.
Acquire ==
    /\ Up(acceptor, "acquire")
    /\ slots < MaxConnections
    /\ slots' = slots + 1
    /\ Goto(acceptor, "accept")
    /\ UNCHANGED <<status, main, start, cliDone, peers, conns, open, left, shared>>

\* The connection gets the token and a goroutine.
Accept(c) ==
    /\ Up(acceptor, "accept")
    /\ listening
    /\ Cardinality(open) < Descriptors
    /\ pc[c] = "unused"
    /\ pc' = [pc EXCEPT ![c] = "handshake", ![acceptor] = "acquire"]
    /\ open' = open \cup {c}
    /\ UNCHANGED <<status, main, start, cliDone, slots, peers, conns, left, shared>>

\* AcceptTCP fails because the listener was closed or the descriptors are used up. Its error
\* is ignored and the nil connection used, so acceptConnections never gets to see an error.
AcceptPanics ==
    /\ Up(acceptor, "accept")
    /\ \/ pc[node] = "ended"
       \/ listening /\ Cardinality(open) >= Descriptors
    /\ Dies("nilConnection")

-----------------------------------------------------------------------------
(* A session: handshake, registration, messages, removal.                   *)

\* What the deferred calls could get wrong: the token stays in sem.
EndKeepsSlot(c) ==
    /\ Goto(c, "unused")
    /\ key' = [key EXCEPT ![c] = c]
    /\ dialled' = dialled \ {c}
    /\ shared' = shared \ {c}
    /\ UNCHANGED slots

\* The deferred calls: the token of a connection that a peer dialled is taken out of sem.
End(c) ==
    /\ Goto(c, "unused")
    /\ key' = [key EXCEPT ![c] = c]
    /\ dialled' = dialled \ {c}
    /\ shared' = shared \ {c}
    /\ slots' = IF c \in dialled THEN slots ELSE slots - 1

\* What removing a peer could get wrong: its connection stays open.
DeleteOnly(k) ==
    /\ peers' = [x \in DOMAIN peers \ {k} |-> peers[x]]
    /\ UNCHANGED open

\* removePeerLocked: whichever connection the address has now is closed and forgotten.
DeletePeer(k) ==
    /\ peers' = [x \in DOMAIN peers \ {k} |-> peers[x]]
    /\ open' = open \ {peers[x] : x \in DOMAIN peers \cap {k}}

\* performHandshakeClient or performHandshakeServer, over a connection that may be lost and
\* with a peer that may have another genesis block.
HandshakeFails(c) ==
    /\ Up(c, "handshake")
    /\ End(c)
    /\ open' = open \ {c}
    /\ UNCHANGED <<status, main, start, cliDone, peers, left>>

\* GetBlockAtHeight has no error for a database that is closed, and no genesis block.
HandshakePanics(c) ==
    /\ Up(c, "handshake")
    /\ ~dbOpen
    /\ Dies("nilBlock")

\* setupPeerSession: registerPeer writes over what the map has for the address.
RegisterPeer(c) ==
    /\ Up(c, "handshake")
    /\ muFree
    /\ Goto(c, "session")
    /\ peers' = [k \in DOMAIN peers \cup {key[c]} |-> IF k = key[c] THEN c ELSE peers[k]]
    /\ LET others == {d \in Registered : key[d] = key[c]}
       IN  shared' = IF others = {} THEN shared ELSE shared \cup others \cup {c}
    /\ UNCHANGED <<status, main, start, cliDone, slots, conns, open, left>>

\* A read fails: the peer closed the connection or was silent for too long.
ReadFails(c) ==
    /\ Up(c, "session")
    /\ c \in open
    /\ open' = open \ {c}
    /\ UNCHANGED <<status, main, pc, start, cliDone, slots, peers, conns, left, shared>>

\* What the end of a session could get wrong: the address stays in the map.
RemoveNothing(c) ==
    /\ Up(c, "session")
    /\ c \notin open
    /\ End(c)
    /\ UNCHANGED <<status, main, start, cliDone, peers, open, left>>

\* processMessages has ended, by its own read or because another goroutine closed the
\* connection: removePeer of its address, and the deferred calls.
RemovePeer(c) ==
    /\ Up(c, "session")
    /\ c \notin open
    /\ muFree
    /\ DeletePeer(key[c])
    /\ End(c)
    /\ UNCHANGED <<status, main, start, cliDone, left>>

\* handleBlock: AddBlock refuses the block, and the peer is disconnected.
RefuseBlock(c) ==
    /\ Up(c, "session")
    /\ c \in open
    /\ muFree
    /\ peers' = [k \in DOMAIN peers \ {key[c]} |-> peers[k]]
    /\ open' = open \ ({c} \cup {peers[k] : k \in DOMAIN peers \cap {key[c]}})
    /\ UNCHANGED <<status, main, pc, start, cliDone, slots, conns, left, shared>>

\* A peer's or an own block is compared with a block that the database does not have: handleBlock
\* gets no last block, IsValid no parent, GetForkChain or adjustDifficulty no block of a height.
\* In the open database it is a block whose update is under way in another goroutine or failed,
\* or one on a lower stored block (Ledger has these states); when the database is closed it is
\* any block, as GetBlock's error is ignored.
AddBlockPanics(g) ==
    /\ Up(g, "session")
    /\ Dies("nilBlock")

-----------------------------------------------------------------------------
(* Broadcast, of a payment that came in or was made, or of a block mined.   *)

StartBroadcast(g) ==
    /\ Up(g, "session")
    /\ g \in open \cup {cli}
    /\ muFree
    /\ left' = DOMAIN peers
    /\ Goto(g, "broadcast")
    /\ UNCHANGED <<status, main, start, cliDone, slots, peers, conns, open, shared>>

\* What Broadcast could get wrong: it calls removePeer, which waits for the mutex it holds.
WriteToPeerLocks(g) ==
    /\ Up(g, "broadcast")
    /\ \E k \in left :
        /\ left' = left \ {k}
        /\ \/ peers[k] \in open /\ UNCHANGED <<peers, open>>
           \/ muFree /\ DeletePeer(k)
    /\ UNCHANGED <<status, main, pc, start, cliDone, slots, conns, shared>>

\* The message is written, or the write fails, after ten seconds at the latest, and the peer
\* is removed.
WriteToPeer(g) ==
    /\ Up(g, "broadcast")
    /\ \E k \in left :
        /\ left' = left \ {k}
        /\ \/ UNCHANGED <<peers, open>>
           \/ DeletePeer(k)
    /\ UNCHANGED <<status, main, pc, start, cliDone, slots, conns, shared>>

EndBroadcast(g) ==
    /\ Up(g, "broadcast")
    /\ left = {}
    /\ Goto(g, "session")
    /\ UNCHANGED <<status, main, start, cliDone, slots, peers, conns, open, left, shared>>

-----------------------------------------------------------------------------
(* SavePeers, by the ticker's goroutine and at the end of Node.Start.       *)

\* Node.Start waits for n.done, the other goroutine for it or the ticker. Db.Update waits for
\* the writer lock. It fails when the database is closed.
SavePeers(g) ==
    /\ Up(g, "wait")
    /\ g = node => done
    /\ writerFree
    /\ IF dbOpen THEN Goto(g, "store") ELSE Goto(g, "ended")
    /\ UNCHANGED <<status, main, start, cliDone, slots, peers, conns, open, left, shared>>

\* storePeers under n.mu, and the commit. Node.Start returns and closes the listener.
StorePeers(g) ==
    /\ Up(g, "store")
    /\ muFree
    /\ Goto(g, IF g = node THEN "ended" ELSE "wait")
    /\ UNCHANGED <<status, main, start, cliDone, slots, peers, conns, open, left, shared>>

SaverEnds ==
    /\ Up(saver, "wait")
    /\ done
    /\ Goto(saver, "ended")
    /\ UNCHANGED <<status, main, start, cliDone, slots, peers, conns, open, left, shared>>

-----------------------------------------------------------------------------
(* The main goroutine: Start and Shutdown.                                  *)

\* App.Start: the node and the CLI run.
Start ==
    /\ status = "up" /\ main = "boot"
    /\ boot = {} /\ dialling = Nobody
    /\ main' = "serve"
    /\ pc' = [pc EXCEPT ![node] = "listen", ![cli] = "session"]
    /\ UNCHANGED <<status, start, cliDone, slots, peers, conns, open, left, shared>>

\* Node.Start. A port that is taken ends the process.
Listen ==
    /\ Up(node, "listen")
    /\ \/ /\ pc' = [pc EXCEPT ![node] = "wait", ![saver] = "wait", ![acceptor] = "acquire"]
          /\ UNCHANGED status
       \/ status' = "exited" /\ UNCHANGED pc
    /\ UNCHANGED <<main, start, cliDone, slots, peers, conns, open, left, shared>>

\* close(cli.Done) panics the second time.
CloseDone(next) ==
    IF cliDone THEN status' = "closedTwice" /\ UNCHANGED <<main, cliDone>>
    ELSE cliDone' = TRUE /\ main' = next /\ UNCHANGED status

\* The user exits.
Exit ==
    /\ Up(cli, "session")
    /\ CloseDone(main)
    /\ Goto(cli, "ended")
    /\ UNCHANGED <<start, slots, peers, conns, open, left, shared>>

\* startInteractiveMode gets a signal. If the user exits at the same time, either is taken.
Signal ==
    /\ status = "up" /\ main = "serve"
    /\ CloseDone("stop")
    /\ UNCHANGED <<pc, start, slots, peers, conns, open, left, shared>>

Goes(from, to) ==
    /\ status = "up" /\ main = from
    /\ main' = to
    /\ UNCHANGED <<status, pc, start, cliDone, slots, peers, conns, open, left, shared>>

\* What startInteractiveMode could get wrong: it does not wait for the user or a signal.
ReceiveNothing == Goes("serve", "stop")

\* startInteractiveMode sees that Done is closed; Shutdown stops the node and closes the
\* database, for which it waits for the writer lock; the program returns.
ReceiveDone == cliDone /\ Goes("serve", "stop")
Stop == Goes("stop", "close")
Close == writerFree /\ Goes("close", "return")
Leave ==
    /\ status = "up" /\ main = "return"
    /\ status' = "exited"
    /\ UNCHANGED <<main, pc, start, cliDone, slots, peers, conns, open, left, shared>>

-----------------------------------------------------------------------------
Main == CheckPeers \/ (\E c \in Conn : ConnectBootstrap(c)) \/ Start \/ ReceiveDone \/ Stop \/ Close \/ Leave

Next ==
    \/ \E c \in Conn : LoadPeer(c) \/ Dial(c) \/ Accept(c)
    \/ \E c \in Conn : HandshakeFails(c) \/ HandshakePanics(c) \/ RegisterPeer(c)
    \/ \E c \in Conn : ReadFails(c) \/ RemovePeer(c) \/ RefuseBlock(c)
    \/ \E c \in Conn, n \in Name : HandleConnect(c, n)
    \/ \E g \in Worker : StartBroadcast(g) \/ WriteToPeer(g) \/ EndBroadcast(g) \/ AddBlockPanics(g)
    \/ \E g \in {saver, node} : SavePeers(g) \/ StorePeers(g)
    \/ SaverEnds \/ Listen \/ Acquire \/ AcceptPanics
    \/ Exit \/ Signal
    \/ Main

Spec == Init /\ [][Next]_vars

\* What goes on by itself goes on: Go's scheduler is fair, the two mutexes starve nobody, and
\* the deadlines of dialling and writing make both end. One goroutine at a time is in Broadcast.
Fairness ==
    /\ WF_vars(Main) /\ SF_vars(Close)
    /\ WF_vars(\E g \in Worker : WriteToPeer(g) \/ EndBroadcast(g))
    /\ \A g \in {saver, node} : SF_vars(StorePeers(g))

FairSpec == Spec /\ Fairness

-----------------------------------------------------------------------------
(* Properties.                                                              *)

\* Every variable has its type, and the tokens in sem fit into it.
TypeOK ==
    /\ status \in {"up", "exited"} \cup Panics
    /\ main \in {"load", "boot", "serve", "stop", "close", "return"}
    /\ pc \in [Goroutine ->
                {"off", "unused", "dial", "handshake", "session", "broadcast",
                 "listen", "wait", "store", "acquire", "accept", "ended"}]
    /\ loading \subseteq Host
    /\ boot \subseteq Bootstrap
    /\ dialling \in Conn \cup {Nobody}
    /\ cliDone \in BOOLEAN
    /\ slots \in 0..MaxConnections
    /\ DOMAIN peers \subseteq Key /\ \A k \in DOMAIN peers : peers[k] \in Conn
    /\ key \in [Conn -> Key]
    /\ dialled \subseteq Conn
    /\ open \subseteq Conn
    /\ left \subseteq Key
    /\ shared \subseteq Conn

\* What the map has for an address is a connection with that address whose session has yet
\* to remove it: no entry outlives its session and stays for ever, whichever entries
\* registerPeer overwrote, removePeer deleted in place of others and Broadcast threw out.
EntriesLive ==
    \A k \in DOMAIN peers : key[peers[k]] = k /\ peers[k] \in Registered

\* A session over an open connection gets what is broadcast, unless two sessions had its
\* address at a time: Connect's check and registerPeer are two critical sections with a dial
\* in between, and a name is not the address it resolves to, so a second session may
\* overwrite the entry, and the end of one removes that of the other.
ReachableUnlessShared ==
    \A c \in (Registered \cap open) \ shared :
        key[c] \in DOMAIN peers /\ peers[key[c]] = c

\* The tokens in sem are those of the connections that peers dialled and that did not end
\* yet, and the one acceptConnections waits with: no slot is lost and none is used twice.
SlotsBalance ==
    slots = Cardinality({c \in Conn \ dialled : pc[c] # "unused"})
            + (IF pc[acceptor] = "accept" THEN 1 ELSE 0)

\* Before the user or a signal ends the program, no goroutine works with what Shutdown closes:
\* if it panics then, a connection was accepted without a descriptor left while the listener
\* was open, or a block was not in the database while that was open. Start, the node, the
\* sessions and the CLI are not waited for when the program ends, so afterwards a second close
\* of Done, the closed listener and the closed database panic as well.
PanicsExplained ==
    status \in Panics /\ ~cliDone =>
        \/ status = "nilConnection" /\ listening /\ Cardinality(open) >= Descriptors
        \/ status = "nilBlock" /\ dbOpen

\* The exit command or a signal ends the process: the saves, Close and the broadcasts wait
\* for each other's locks (the writer lock, then n.mu), but none for ever.
ShutdownEnds == cliDone ~> status # "up"
=============================================================================
