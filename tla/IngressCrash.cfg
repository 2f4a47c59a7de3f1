SPECIFICATION IngressFairSpec
CONSTANTS
    c1 = c1
    c2 = c2
    d1 = d1
    Clients = {c1, c2}
    Deliveries = {d1}
    JobOf <- MCJobOf
    KernelKnown = TRUE
    Prompt = TRUE
    MaxDeaths = 1
    NoSource = NoSource
PROPERTY SubmissionsOnce
PROPERTY RequestsAccepted
PROPERTY DeliveriesImported
