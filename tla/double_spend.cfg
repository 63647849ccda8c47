SPECIFICATION Spec
CONSTANTS
    Hash = {0, 1, 2, 3}
    Genesis = 1
    Nil = Nil
    Peer = {p}
    Local = {p}
    Addr <- MCAddr
    Miner = {alice, carol}
    Wallet = {alice}
    PeerWallet = {carol}
    Outpoint = {g0, c0, d0, x0, y0}
    Owner <- MCOwner
    Tx = {tg, tc, td, tx, ty}
    GenesisTx = tg
    CoinbaseOf <- MCCoinbaseOf
    Spends <- MCSpends
    Creates <- MCCreates
    Batch <- AtOnce
    BlocksToAdjust = 2
    DepthLimit = 2
    MaxKills = 0
    MaxFailures = 0
    Nobody = Nobody
    alice = alice
    bob = bob
    carol = carol
    g0 = g0
    c0 = c0
    d0 = d0
    x0 = x0
    y0 = y0
    tg = tg
    tc = tc
    td = td
    tx = tx
    ty = ty
    p = p
    q = q
INVARIANT NoDoubleSpend
CHECK_DEADLOCK FALSE
