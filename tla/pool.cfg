SPECIFICATION FairSpec
CONSTANTS
    Hash = {0}
    Genesis = 0
    Nil = Nil
    Addr <- MCAddr
    Miner = {alice, carol}
    Outpoint = {g0, c0, d0, v0, x0}
    Owner <- MCOwner
    Tx = {tg, tc, td, tv, tx, tz}
    GenesisTx = tg
    CoinbaseOf <- MCCoinbaseOf
    Spends <- MCSpends
    Creates <- MCCreates
    Handler = {p}
    local = q
    Wallet = alice
    PeerMiner = carol
    Payment = {tv, tx, tz}
    Own = {tx, tz}
    Short = {tz}
    PeerBlock <- MCPeerBlock
    Shards = 2
    ShardOf <- MCShardOf
    Nobody = Nobody
    alice = alice
    carol = carol
    g0 = g0
    c0 = c0
    d0 = d0
    v0 = v0
    x0 = x0
    tg = tg
    tc = tc
    td = td
    tv = tv
    tx = tx
    tz = tz
INVARIANTS TypeOK InputsAccounted
PROPERTIES RefusalNeedsCause ImplementsPaymentLife PoolDrains ChainGrows
