SPECIFICATION FairSpec
CONSTANTS
    pay = pay
    toll = toll
    send = send
    alice = alice
    bridge = bridge
    None = None
    Txs <- MCTxs
    Accounts <- MCAccounts
    Defaults <- MCDefaults
    Family <- MCFamily
    Recipient <- MCRecipient
    MaxRounds = 2
    MaxCalls = 3
INVARIANTS
    TypeOK
    OncePerBuild
    SignedToListed
PROPERTIES
    
    KeepsConsent
    RunEnds
