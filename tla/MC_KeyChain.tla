---------------------------- MODULE MC_KeyChain ----------------------------
(***************************************************************************)
(* Instances of KeyChain for TLC: the SafeBags and HMAC keys offered to    *)
(* the KeyChain, built from model values declared in the .cfg files.      *)
(***************************************************************************)
EXTENDS KeyChain

CONSTANTS i1, k1, k2, b1, b2, b3, g1, g2, h1

Mat(a, s) == [alg |-> a, seed |-> s]

\* A SafeBag for key <<id, kid>>: certificate issuer, the public key the
\* certificate carries, its signature type, and the encrypted private key.
SafeBag(id, kid, iss, pub, sig, enc) ==
    [cert |-> [key |-> <<id, kid>>, issuer |-> iss, pub |-> pub, sig |-> sig,
               part |-> "whole"],
     enc  |-> enc]

\* The bag b with certificate content cut to the given part of the key.
Cut(b, part) == [b EXCEPT !.cert.part = part]

BagEc       == SafeBag(i1, k1, "self", Mat("EC", b1), "Sha256WithEcdsa", Mat("EC", b1))
BagEcByCa   == SafeBag(i1, k1, "ca", Mat("EC", b1), "Sha256WithEcdsa", Mat("EC", b1))
BagSm2      == SafeBag(i1, k2, "self", Mat("SM2", b2), "Sm3WithSm2", Mat("SM2", b2))
\* certificate and private key of two different keys
BagMismatch == SafeBag(i1, k2, "self", Mat("EC", b1), "Sha256WithEcdsa", Mat("EC", b3))
\* exported with another password
BagWrongPw  == SafeBag(i1, k2, "self", Mat("RSA", b3), "Sha256WithRsa", None)
\* an RSA key whose certificate an ECDSA certificate authority signed
BagRsaByEcCa == SafeBag(i1, k2, "ca", Mat("RSA", b3), "Sha256WithEcdsa", Mat("RSA", b3))
\* a certificate whose content is not a public key PublicKey::loadPkcs8 reads
BagBadContent == SafeBag(i1, k2, "self", Mat("HMAC", b3), "Sha256WithEcdsa", Mat("EC", b3))

\* BagEc's certificate with its content cut short, and with no content
BagEcPrefix == Cut(BagEc, "prefix")
BagEcEmpty  == Cut(BagEc, "empty")

OpsBags == {BagEc, BagEcByCa, BagSm2, BagMismatch, BagWrongPw}
FaultBags == {BagEc, BagMismatch}
NoBags == {}
CaBags == {BagRsaByEcCa}
BadContentBags == {BagBadContent}
PrefixBags == {BagEc, BagEcPrefix, BagEcEmpty}
HmacKeySet == {Mat("HMAC", h1)}
SeedSet == {b1, b2, b3, g1, g2, h1}
OpsSeeds == {b1, b2, b3, g1, h1}

\* Locator strings.  The configured defaults are written the way a user
\* may write them (no location, or no ':'); the constructor's callers
\* spell the default TPM in two ways, name a second tpm-file directory,
\* and name tpm-osx, which a build without the macOS Keychain rejects.
ConfDefaultPib == <<"pib-sqlite3", ":">>
ConfDefaultTpm == <<"tpm-file">>
OwnPib         == <<"pib-sqlite3", ":", "dir">>
EmptyLocator   == <<>>
OpsTpmLocators == {<<>>, <<"tpm-file", ":">>, <<"tpm-file", ":", "dir">>, <<"tpm-osx">>}
OneTpmLocators == {<<>>, <<"tpm-file", ":">>}
=============================================================================
