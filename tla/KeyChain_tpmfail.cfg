\* A TPM removal that throws during deleteIdentity of an identity with two keys.
CONSTANTS
    i1 = i1  k1 = k1  k2 = k2
    b1 = b1  b2 = b2  b3 = b3  g1 = g1  g2 = g2  h1 = h1
    None = None
    Ids = {i1}
    KeyIds = {k1, k2}
    TpmLocators <- OpsTpmLocators
    DefaultTpmLocator <- ConfDefaultTpm
    PibLocator <- OwnPib
    DefaultPibLocator <- ConfDefaultPib
    Seeds <- SeedSet
    GenTypes = {"SM2"}
    Bags <- NoBags
    HmacKeys <- HmacKeySet
    Crashes = FALSE
    TpmMayFail = TRUE
    Exports = FALSE
SPECIFICATION Spec
INVARIANT DeleteIdentityBestEffort
