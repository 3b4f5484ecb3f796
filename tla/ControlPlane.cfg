SPECIFICATION Spec
CONSTANTS
    a = a
    Callers = {1, 2, 3}
    Keys = {a}
    Capacity = 1
    Cost = 1
    MaxTime = 2
    Quota = 2
    ListSize = 1
    Owner <- MCOwner
    CardPolicy <- MCCardPolicy
    EndpointPolicy <- MCEndpointPolicy
    Cards <- MCCards
    Requested <- MCRequested
    MaxSelector <- MCMaxSelector
    Topic <- MCTopic
CHECK_DEADLOCK FALSE
INVARIANTS
    TypeOK
    
    RateHeld
    TargetsAreTrusted
PROPERTY
    PagesAreFaithful
