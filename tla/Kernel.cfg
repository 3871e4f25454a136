SPECIFICATION Spec
CONSTANTS
    a1 = a1
    a2 = a2
    k1 = k1
    k2 = k2
    r1 = r1
    r2 = r2
    App = {a1, a2}
    Config <- ConfigMC
    Key = {k1, k2}
    Row = {r1, r2}
    Place <- PlaceMC
    Value = {"ssn", "k1.ssn"}
    Tagged = {"k1.ssn"}
    MaxCall = 1
    Watched = a2
    Providers = 2
    Registrar = {2}
    MaxRegistration = 2
    MaxObject = 2
CONSTRAINTS ModelsOrServices CallsElsewhere
INVARIANTS NeverClearAtRest FreshRowsReadable ReadsWhatWasSaved LoneAppHasOwn BootFindsServices MadeAsRegistered
