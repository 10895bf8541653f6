SPECIFICATION StoresFairSpec
CONSTANTS
    a1 = a1
    h1 = h1
    Clients = {c1, c2}
    Accounts = {a1}
    Ids = {h1}
    AccountOf <- MCOneAccount
    Fences = {0, 1}
    Ops = {"cas", "load", "put", "pending", "handle"}
    MaxVersion = 2
INVARIANT IndexExact
PROPERTIES ImplementsPort FenceRises EveryCallAnswered
