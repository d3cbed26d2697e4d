SPECIFICATION Spec
CONSTANTS
    a = a
    b = b
    ca = ca
    cb = cb
    app = app
    lib = lib
    one = one
    two = two
    Items = {a, b}
    Corrs = {ca, cb}
    Default <- ItemCorr
    PRs <- OneRepo
    OwnerOf <- OneOwner
    MaxExecs = 2
    MaxMishaps = 1
    MaxPasses = 1
    Nil = Nil
SYMMETRY Symmetry
INVARIANTS
    OneLive
    BoardShowsLatest
    UnreachableReported
PROPERTIES
    RightExecution
    BindingStable
