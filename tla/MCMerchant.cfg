SPECIFICATION Spec
CONSTANTS
    merchant = merchant
    customer = customer
    t1 = t1
    t2 = t2
    DefaultTx = DefaultTx
    None = None
    InvoiceIds = {1, 2}
    SubscriptionIds = {1}
    PubKeys = {merchant, customer}
    merchant_keys = {merchant}
    ChainTxs = {t1}
    pays <- MCPays
    tx_outputs <- MCOutputs
    Amounts = {1}
    interval = 1
    MaxTime = 1
    MaxStack = 2
    MaxQueue = 1
    MaxListed = 1
INVARIANTS CopiesMatch DiskSound
PROPERTIES SettledStays RollbackRestores
CHECK_DEADLOCK FALSE
