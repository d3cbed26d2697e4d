SPECIFICATION Spec
CONSTANTS
    a = a
    b = b
    ca = ca
    cb = cb
    app = app
    lib = lib
    one = one
    two = two
    Items = {a, b}
    Corrs = {ca, cb}
    Default <- ItemCorr
    PRs <- TwoRepos
    OwnerOf <- TwoOwners
    MaxExecs = 2
    MaxMishaps = 0
    MaxPasses = 0
    Nil = Nil
PROPERTY RightExecution
