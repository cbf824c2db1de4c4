\* Crashes between PIB and TPM writes and failing TPM removals, one PIB paired with one TPM.
CONSTANTS
    i1 = i1  k1 = k1  k2 = k2
    b1 = b1  b2 = b2  b3 = b3  g1 = g1  g2 = g2  h1 = h1
    None = None
    Ids = {i1}
    KeyIds = {k1, k2}
    TpmLocators <- OneTpmLocators
    DefaultTpmLocator <- ConfDefaultTpm
    PibLocator <- OwnPib
    DefaultPibLocator <- ConfDefaultPib
    Seeds <- OpsSeeds
    GenTypes = {"SM2"}
    Bags <- FaultBags
    HmacKeys <- HmacKeySet
    Crashes = TRUE
    TpmMayFail = TRUE
    Exports = TRUE
SPECIFICATION Spec
INVARIANT CreateIdentityRecovers
PROPERTY TpmKeysNeverReplaced
