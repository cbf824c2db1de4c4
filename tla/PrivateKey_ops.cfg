CONSTANTS
    h1 = h1  h2 = h2  h3 = h3  h4 = h4  h5 = h5  h6 = h6
    None = None
    Handles <- HandleSet5
    LoadAlgs = {"RSA", "SM2"}
    GenAlgs = {"RSA", "EC", "SM2", "HMAC"}
    AllocMayFail = TRUE
    AliasVisible = FALSE
SPECIFICATION Spec
INVARIANTS TypeOK KeyNotFreedWhileHeld ContextsFreedOnce
