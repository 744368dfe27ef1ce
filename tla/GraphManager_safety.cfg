\* Two graphs, two flows, three ids; any catalog write may fail, a crash at any point.
SPECIFICATION FairSpec
CONSTANTS
    d = d
    x = x
    f1 = f1
    f2 = f2
    Names <- MCNames
    Default = d
    Flows <- MCFlows
    MaxIds = 3
    CatalogFaults = TRUE
INVARIANTS
    NoUseAfterClose
    ServedIsCatalogued
    FreshDirectory
PROPERTIES
    LeaseContract
    WaitersReturn
