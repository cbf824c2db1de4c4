\* A generated P-256 EC key passed to decrypt with keyType SM2.
CONSTANTS
    h1 = h1  h2 = h2  h3 = h3  h4 = h4  h5 = h5  h6 = h6
    None = None
    Handles <- HandleSet
    LoadAlgs = {"RSA"}
    GenAlgs = {"EC"}
    AllocMayFail = FALSE
    AliasVisible = TRUE
SPECIFICATION Spec
INVARIANT ReportedTypeSound
