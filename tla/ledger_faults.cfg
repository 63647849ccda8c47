SPECIFICATION FairSpec
CONSTANTS
    Hash = {0, 1, 2}
    Genesis = 1
    Nil = Nil
    Peer = {p}
    Local = {q}
    Addr <- MCAddr
    Miner = {alice, carol}
    Wallet = {alice}
    PeerWallet = {carol}
    Outpoint = {g0, c0, d0, x0}
    Owner <- MCOwner
    Tx = {tg, tc, td, tx}
    GenesisTx = tg
    CoinbaseOf <- MCCoinbaseOf
    Spends <- MCSpends
    Creates <- MCCreates
    Batch <- OnePayment
    BlocksToAdjust = 1
    DepthLimit = 2
    MaxKills = 2
    MaxFailures = 2
    Nobody = Nobody
    alice = alice
    bob = bob
    carol = carol
    g0 = g0
    c0 = c0
    d0 = d0
    x0 = x0
    y0 = y0
    tg = tg
    tc = tc
    td = td
    tx = tx
    ty = ty
    p = p
    q = q
INVARIANT TypeOK
INVARIANT TipCoherent
INVARIANT ForkDBReleased
PROPERTY OperationEnds
CHECK_DEADLOCK FALSE
