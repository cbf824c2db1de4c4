------------------------------ MODULE KeyChain ------------------------------
(***************************************************************************)
(* The KeyChain facade of ndn-cxx (src/ndn-cxx/security/key-chain.cpp) and *)
(* the two persistent stores it keeps in step:                             *)
(*   - the PIB: identities, keys (type + public key), certificates, the    *)
(*     default identity / key / certificate pointers, and the locator of   *)
(*     the TPM the PIB was last paired with;                               *)
(*   - the TPMs: private keys by key name, one store per TPM locator.      *)
(* Both stores outlive a KeyChain instance (pib-sqlite3, tpm-file), so a   *)
(* KeyChain is opened (constructor), used, and closed or crashes.  Every   *)
(* KeyChain operation that writes both stores is split at each write, so  *)
(* that a crash or a failing TPM write can fall between two of them.       *)
(*                                                                         *)
(* Data abstraction: a private key is a record [alg, seed]; its public key *)
(* is the same record (the public half determines the private half), so   *)
(* "the certificate matches the private key" is equality.  Names are      *)
(* tuples of model values; certificate versions are told apart by the    *)
(* public key they carry.                                                  *)
(***************************************************************************)
EXTENDS Naturals, FiniteSets, Sequences, SequencesExt

CONSTANTS
    Ids,          \* identity names
    KeyIds,       \* key-id components: a key name is <<identity, keyId>>
    PibLocator,        \* the pibLocator string passed to the constructor
    DefaultPibLocator, \* NDN_CLIENT_PIB, or the "pib" entry of client.conf
    TpmLocators,       \* tpmLocator strings callers pass to the constructor
    DefaultTpmLocator, \* NDN_CLIENT_TPM, or the "tpm" entry of client.conf
    Seeds,        \* key material; |Seeds| bounds the number of keys generated
    GenTypes,     \* key types a caller passes in KeyParams
    Bags,         \* SafeBags offered to importSafeBag
    HmacKeys,     \* HMAC keys a caller passes in SigningInfo
    Crashes,      \* the process may die between two persistent writes
    TpmMayFail,   \* a TPM key-file removal may throw Tpm::Error
    Exports,      \* callers export SafeBags and may import them again
    None          \* the absent value (no key, no default, no locator)

Algs      == {"RSA", "EC", "SM2", "HMAC"}
KeyTypes  == Algs \cup {"NONE"}
SigTypes  == {"DigestSha256", "Sha256WithRsa", "Sha256WithEcdsa",
              "HmacWithSha256", "Sm3WithSm2"}
KeyName   == Ids \X KeyIds
Material  == [alg : Algs, seed : Seeds]
\* A certificate's content is the public key of pub, all of it ("whole"),
\* a proper non-empty prefix of its encoding ("prefix"), or nothing.
Parts     == {"whole", "prefix", "empty"}
Cert      == [key : KeyName, issuer : {"self", "ca"}, pub : Material, sig : SigTypes,
              part : Parts]
Bag       == [cert : Cert, enc : Material \cup {None}]   \* enc = None: wrong password

\* SigningInfo::setSigningHmacKey names an HMAC key after the digest of its
\* bits: the name is determined by the key and lies outside <id>/KEY/<id>.
HmacName(m) == <<"hmac", m.seed>>
TpmNames    == KeyName \cup {HmacName(m) : m \in HmacKeys}

\* The key name SigningInfo::getDigestSha256Identity() (bare digest).
DigestKey == <<"digest", "sha256">>

-----------------------------------------------------------------------------
(***************************************************************************)
(* Locator URIs "scheme:location".  A locator string is a sequence of     *)
(* tokens: a scheme or location name is one token, and ":" is the         *)
(* separator the parser looks for.  The back-ends registered in a build  *)
(* without the macOS Keychain are pib-sqlite3, pib-memory, tpm-file and   *)
(* tpm-memory.                                                             *)
(***************************************************************************)

PibSchemes == {<<"pib-sqlite3">>, <<"pib-memory">>}
TpmSchemes == {<<"tpm-file">>, <<"tpm-memory">>}

\* getDefaultPibScheme / getDefaultTpmScheme.
DefaultPibScheme == <<"pib-sqlite3">>
DefaultTpmScheme == <<"tpm-file">>

\* parseLocatorUri: split at the first ':'; without one, the whole string is
\* the scheme and the location is empty.
ParseLocatorUri(uri) ==
    LET pos == SelectInSeq(uri, LAMBDA c : c = ":")
    IN IF pos # 0 THEN <<SubSeq(uri, 1, pos - 1), SubSeq(uri, pos + 1, Len(uri))>>
       ELSE <<uri, <<>>>>

\* parseAndCheckPibLocator / parseAndCheckTpmLocator: an empty scheme is the
\* default one; a scheme with no registered factory throws (None here).
ParseAndCheckLocator(uri, schemes, defaultScheme) ==
    LET p      == ParseLocatorUri(uri)
        scheme == IF p[1] = <<>> THEN defaultScheme ELSE p[1]
    IN IF scheme \in schemes THEN <<scheme, p[2]>> ELSE None

ParseAndCheckPibLocator(uri) == ParseAndCheckLocator(uri, PibSchemes, DefaultPibScheme)
ParseAndCheckTpmLocator(uri) == ParseAndCheckLocator(uri, TpmSchemes, DefaultTpmScheme)

\* The canonical form scheme + ":" + location the constructor compares and
\* records.
Canonical(p) == p[1] \o <<":">> \o p[2]

\* getDefaultPibLocator: the configured locator in canonical form; the
\* constructor's "canonicalPibLocator == getDefaultPibLocator()".
PibIsDefault ==
    Canonical(ParseAndCheckPibLocator(PibLocator))
        = Canonical(ParseAndCheckPibLocator(DefaultPibLocator))

\* getDefaultTpmLocator: the configured TPM locator in canonical form.
DefaultTpm == Canonical(ParseAndCheckTpmLocator(DefaultTpmLocator))

\* The TPM stores the model can reach: one per canonical locator.
TpmLocs ==
    {Canonical(ParseAndCheckTpmLocator(r)) :
        r \in {x \in TpmLocators \cup {DefaultTpmLocator} : ParseAndCheckTpmLocator(x) # None}}

ASSUME /\ ParseAndCheckPibLocator(PibLocator) # None
       /\ ParseAndCheckPibLocator(DefaultPibLocator) # None
       /\ ParseAndCheckTpmLocator(DefaultTpmLocator) # None
       /\ Crashes \in BOOLEAN /\ TpmMayFail \in BOOLEAN /\ Exports \in BOOLEAN
       /\ GenTypes \subseteq Algs
       /\ Bags \subseteq Bag /\ HmacKeys \subseteq [alg : {"HMAC"}, seed : Seeds]

-----------------------------------------------------------------------------
(***************************************************************************)
(* Pure helpers translated from key-chain.cpp and private-key.cpp.         *)
(***************************************************************************)

\* KeyChain::getSignatureType: the SignatureType put on the wire for a key
\* type; any other key type throws "Unsupported key type".
SignatureTypeOf(t) ==
    CASE t = "RSA"  -> "Sha256WithRsa"
      [] t = "EC"   -> "Sha256WithEcdsa"
      [] t = "SM2"  -> "Sm3WithSm2"
      [] t = "HMAC" -> "HmacWithSha256"

\* Seeded fault: the table with the EC and SM2 rows swapped.
KeyTypeFromSigSwapped(s) ==
    CASE s = "Sha256WithRsa"   -> "RSA"
      [] s = "Sha256WithEcdsa" -> "SM2"
      [] s = "HmacWithSha256"  -> "HMAC"
      [] s = "Sm3WithSm2"      -> "EC"
      [] OTHER                 -> "NONE"

\* The SignatureType -> KeyType table written out in importSafeBag and in
\* both sign(Data&) and sign(Interest&); any other type maps to NONE.
KeyTypeFromSig(s) ==
    CASE s = "Sha256WithRsa"   -> "RSA"
      [] s = "Sha256WithEcdsa" -> "EC"
      [] s = "HmacWithSha256"  -> "HMAC"
      [] s = "Sm3WithSm2"      -> "SM2"
      [] OTHER                 -> "NONE"

\* Whether Tpm::sign with key material m, told its type is kt, yields a
\* signature.  The TPM back-end (not in this repository) uses the type only
\* to pick SM2/SM3: OpenSSL signs an RSA, EC or SM2-curve key with its own
\* algorithm when told RSA or EC; any other pairing (SM2 or HMAC for a key
\* of another type, NONE) is left open and both outcomes are explored.
SignOk(m, kt) ==
    IF kt = m.alg \/ (kt \in {"RSA", "EC"} /\ m.alg \in {"RSA", "EC", "SM2"})
    THEN {TRUE} ELSE BOOLEAN

-----------------------------------------------------------------------------
(***************************************************************************)
(* The PIB as a value, and the PIB operations the KeyChain calls.  The     *)
(* PIB back-ends are not in this repository: these follow the spec (first *)
(* entity added becomes the default; removing the default leaves none;     *)
(* removing a parent removes its children; adding a key or certificate    *)
(* under an existing name replaces it).                                    *)
(***************************************************************************)

EmptyPib ==
    [tpmLoc  |-> None,
     ids     |-> {},
     defId   |-> None,
     keys    |-> [k \in KeyName |-> None],
     defKey  |-> [i \in Ids |-> None],
     certs   |-> {},
     defCert |-> [k \in KeyName |-> None]]

PibAddIdentity(p, id) ==
    [p EXCEPT !.ids = @ \cup {id}, !.defId = IF @ = None THEN id ELSE @]

PibAddKey(p, k, t, pub) ==
    LET q == PibAddIdentity(p, k[1])
    IN [q EXCEPT !.keys[k] = [type |-> t, pub |-> pub],
                 !.defKey[k[1]] = IF @ = None THEN k ELSE @]

PibAddCert(p, c) ==
    [p EXCEPT !.certs = @ \cup {c},
              !.defCert[c.key] = IF @ = None THEN c ELSE @]

PibRemoveCert(p, c) ==
    [p EXCEPT !.certs = @ \ {c},
              !.defCert[c.key] = IF @ = c THEN None ELSE @]

PibRemoveKey(p, k) ==
    [p EXCEPT !.keys[k] = None,
              !.certs = {c \in @ : c.key # k},
              !.defCert[k] = None,
              !.defKey[k[1]] = IF @ = k THEN None ELSE @]

PibRemoveIdentity(p, id) ==
    [p EXCEPT !.ids = @ \ {id},
              !.defId = IF @ = id THEN None ELSE @,
              !.keys = [k \in KeyName |-> IF k[1] = id THEN None ELSE p.keys[k]],
              !.defKey[id] = None,
              !.certs = {c \in @ : c.key[1] # id},
              !.defCert = [k \in KeyName |-> IF k[1] = id THEN None ELSE p.defCert[k]]]

PibKeysOf(p, id) == {k \in KeyName : k[1] = id /\ p.keys[k] # None}

-----------------------------------------------------------------------------
VARIABLES
    pib,     \* the PIB store (a record, see EmptyPib)
    tpm,     \* tpm[t][n]: the private key stored under name n by TPM t, or None
    pc,      \* "closed", "idle" (KeyChain open, no call running), or a step
    cur,     \* locator of the TPM the open KeyChain uses (m_tpm), or None
    op,      \* arguments and locals of the running call
    used,    \* key material already handed out
    ret,     \* how the last multi-step call ended, or the last signature
    exported \* the SafeBag exportSafeBag returned last, which its caller
             \* keeps, or None

vars == <<pib, tpm, pc, cur, op, used, ret, exported>>

NoOp  == [id |-> None, key |-> None, type |-> None, bag |-> None,
          pending |-> {}, caller |-> None]
NoRet == [op |-> None, arg |-> None, status |-> None]

\* Key material of the SafeBags and HMAC keys: never generated again.
GivenSeeds == {b.enc.seed : b \in {x \in Bags : x.enc # None}}
              \cup {b.cert.pub.seed : b \in Bags} \cup {m.seed : m \in HmacKeys}

Init ==
    /\ pib = EmptyPib
    /\ tpm = [t \in TpmLocs |-> [n \in TpmNames |-> None]]
    /\ pc = "closed"
    /\ cur = None
    /\ op = NoOp
    /\ used = GivenSeeds
    /\ ret = NoRet
    /\ exported = None

\* A call made of one PIB or TPM write returns at once; no property reads
\* its outcome (o, a, s name the call, its argument and how it ended).
Done(o, a, s) == ret' = NoRet

\* The call returns (normally or by an exception) with the given outcome.
Return(o, a, s) ==
    /\ pc' = "idle"
    /\ op' = NoOp
    /\ ret' = [op |-> o, arg |-> a, status |-> s]

-----------------------------------------------------------------------------
(***************************************************************************)
(* KeyChain(pibLocator, tpmLocator, allowReset): parse both locators, open *)
(* the PIB, compare the TPM locator it recorded with the canonical one     *)
(* requested, reset the PIB or throw LocatorMismatchError, open the TPM   *)
(* and record its canonical locator in the PIB.  An unsupported TPM       *)
(* scheme throws before anything is written.  Pib::reset() (not in this   *)
(* repository) clears the PIB and its locator; Pib::setTpmLocator resets  *)
(* the PIB first when the locator it records is a different one.          *)
(***************************************************************************)
PibSetTpmLocator(p, loc) ==
    IF p.tpmLoc = loc THEN p ELSE [EmptyPib EXCEPT !.tpmLoc = loc]

Open(req, allowReset) ==
    LET p            == ParseAndCheckTpmLocator(req)
        old          == pib.tpmLoc
        resetDefault == PibIsDefault /\ old # None /\ old # DefaultTpm
        mismatch     == ~PibIsDefault /\ old # None /\ p # None /\ old # Canonical(p)
        use          == IF resetDefault THEN DefaultTpm ELSE Canonical(p)
    IN /\ pc = "closed"
       /\ \/ /\ p = None \/ (mismatch /\ ~allowReset)
             /\ Done("open", req, "failed")
             /\ UNCHANGED <<exported, pib, tpm, pc, cur, op, used>>
          \/ /\ p # None /\ ~(mismatch /\ ~allowReset)
             /\ pib' = PibSetTpmLocator(IF resetDefault \/ mismatch THEN EmptyPib ELSE pib, use)
             /\ cur' = use
             /\ pc' = "idle"
             /\ Done("open", req, "ok")
             /\ UNCHANGED <<exported, tpm, op, used>>

\* Seeded fault: closing keeps the TPM handle.
CloseKeepsTpm ==
    /\ pc = "idle"
    /\ pc' = "closed" /\ ret' = NoRet
    /\ UNCHANGED <<exported, pib, tpm, cur, op, used>>

\* ~KeyChain(): the instance goes away between calls.
Close ==
    /\ pc = "idle"
    /\ pc' = "closed" /\ cur' = None /\ ret' = NoRet
    /\ UNCHANGED <<exported, pib, tpm, op, used>>

\* The process dies inside a call: both stores keep what was written.
Crash ==
    /\ Crashes
    /\ pc \notin {"closed", "idle"}
    /\ pc' = "closed" /\ cur' = None /\ op' = NoOp /\ ret' = NoRet
    /\ UNCHANGED <<exported, pib, tpm, used>>

-----------------------------------------------------------------------------
(***************************************************************************)
(* createIdentity / createKey / selfSign.                                  *)
(***************************************************************************)

\* A fresh key can be generated for identity id in the open TPM.  The TPM
\* back-end draws random key ids until one is free; the model bounds the
\* number of generations by Seeds.
CanGenerate(id) ==
    /\ Seeds \ used # {}
    /\ \E kid \in KeyIds : tpm[cur][<<id, kid>>] = None

\* The low-level KeyChain::sign(bufs, keyName, keyType, digest) on TPM
\* state t: whether a signature comes back.  Tpm::sign returns nothing for
\* a key the TPM lacks (InvalidSigningInfoError); SM2 forces SM3.
TpmSignOutcomes(t, k, kt) ==
    IF t[cur][k] = None THEN {FALSE} ELSE SignOk(t[cur][k], kt)

\* Whether selfSign(k), through sign(Data&, SigningInfo(k)), gets a
\* signature: getSignatureType throws for a key type outside Algs.
SelfSignOutcomes(k) ==
    IF pib.keys[k].type \notin Algs THEN {FALSE}
    ELSE TpmSignOutcomes(tpm, k, KeyTypeFromSig(SignatureTypeOf(pib.keys[k].type)))

\* KeyChain::selfSign: a certificate <key>/self/<version> whose content is
\* the key's public key, signed by the key, added to the key in the PIB.
SelfSignedCert(k) ==
    [key |-> k, issuer |-> "self", pub |-> pib.keys[k].pub,
     sig |-> SignatureTypeOf(pib.keys[k].type), part |-> "whole"]

\* createIdentity(id, params): add the identity, then take its default key
\* or create one.
CreateIdentity(id, t) ==
    /\ pc = "idle"
    /\ pib' = PibAddIdentity(pib, id)
    /\ \/ /\ pib.defKey[id] # None
          /\ pc' = "ci_cert"
          /\ op' = [NoOp EXCEPT !.id = id, !.key = pib.defKey[id]]
       \/ /\ pib.defKey[id] = None
          /\ CanGenerate(id)
          /\ pc' = "ck_tpm"
          /\ op' = [NoOp EXCEPT !.id = id, !.type = t, !.caller = "ci"]
    /\ ret' = NoRet
    /\ UNCHANGED <<exported, tpm, cur, used>>

\* createKey(identity, params), called directly on an identity of the PIB.
CreateKey(id, t) ==
    /\ pc = "idle"
    /\ id \in pib.ids
    /\ CanGenerate(id)
    /\ pc' = "ck_tpm"
    /\ op' = [NoOp EXCEPT !.id = id, !.type = t, !.caller = "ck"]
    /\ ret' = NoRet
    /\ UNCHANGED <<exported, pib, tpm, cur, used>>

\* Seeded fault: the new key id is not checked against the keys the TPM
\* already holds.
CkTpmCreateAnyName ==
    /\ pc = "ck_tpm"
    /\ \E kid \in KeyIds, s \in Seeds \ used :
          LET k == <<op.id, kid>> IN
          /\ tpm' = [tpm EXCEPT ![cur][k] = [alg |-> op.type, seed |-> s]]
          /\ used' = used \cup {s}
          /\ IF op.type = "HMAC"
                THEN Return(IF op.caller = "ci" THEN "createIdentity" ELSE "createKey",
                            op.id, "failed")
                ELSE /\ pc' = "ck_pib"
                     /\ op' = [op EXCEPT !.key = k]
                     /\ UNCHANGED <<exported, ret>>
    /\ UNCHANGED <<exported, pib, cur>>

\* m_tpm->createKey generates and stores the key; m_tpm->getPublicKey then
\* calls PrivateKey::derivePublicKey, which throws for an HMAC key (i2d_PUBKEY
\* fails): the exception leaves the new private key in the TPM.
CkTpmCreate ==
    /\ pc = "ck_tpm"
    /\ \E kid \in KeyIds, s \in Seeds \ used :
          LET k == <<op.id, kid>> IN
          /\ tpm[cur][k] = None
          /\ tpm' = [tpm EXCEPT ![cur][k] = [alg |-> op.type, seed |-> s]]
          /\ used' = used \cup {s}
          /\ IF op.type = "HMAC"
                THEN Return(IF op.caller = "ci" THEN "createIdentity" ELSE "createKey",
                            op.id, "failed")
                ELSE /\ pc' = "ck_pib"
                     /\ op' = [op EXCEPT !.key = k]
                     /\ UNCHANGED <<exported, ret>>
    /\ UNCHANGED <<exported, pib, cur>>

\* identity.addKey(public key, keyName, params.getKeyType()).
CkPibAdd ==
    /\ pc = "ck_pib"
    /\ pib' = PibAddKey(pib, op.key, op.type, tpm[cur][op.key])
    /\ pc' = "ck_sign"
    /\ UNCHANGED <<exported, tpm, cur, op, used, ret>>

\* selfSign(key) on the new key; createKey then returns it, to createIdentity
\* if that is the caller.
CkSelfSign ==
    /\ pc = "ck_sign"
    /\ \E ok \in SelfSignOutcomes(op.key) :
          IF ok
             THEN /\ pib' = PibAddCert(pib, SelfSignedCert(op.key))
                  /\ IF op.caller = "ci"
                        THEN pc' = "ci_cert" /\ UNCHANGED <<exported, op, ret>>
                        ELSE Return("createKey", op.id, "ok")
             ELSE /\ Return(IF op.caller = "ci" THEN "createIdentity" ELSE "createKey",
                            op.id, "failed")
                  /\ UNCHANGED <<exported, pib>>
    /\ UNCHANGED <<exported, tpm, cur, used>>

\* Seeded fault: createIdentity returns without self-signing a key that
\* has no certificate.
CiCertNoSelfSign ==
    /\ pc = "ci_cert"
    /\ Return("createIdentity", op.id, "ok")
    /\ UNCHANGED <<exported, pib, tpm, cur, used>>

\* createIdentity, last step: if the key has no default certificate, ask for
\* self-signing (this recovers a key whose creation died before selfSign).
CiCert ==
    LET k == op.key IN
    /\ pc = "ci_cert"
    /\ \/ /\ pib.defCert[k] # None
          /\ Return("createIdentity", op.id, "ok")
          /\ UNCHANGED <<exported, pib>>
       \/ /\ pib.defCert[k] = None
          /\ \E ok \in SelfSignOutcomes(k) :
                IF ok THEN /\ pib' = PibAddCert(pib, SelfSignedCert(k))
                           /\ Return("createIdentity", op.id, "ok")
                      ELSE /\ Return("createIdentity", op.id, "failed")
                           /\ UNCHANGED <<exported, pib>>
    /\ UNCHANGED <<exported, tpm, cur, used>>

-----------------------------------------------------------------------------
(***************************************************************************)
(* deleteIdentity / deleteKey: one TPM removal per step.                   *)
(***************************************************************************)

\* Tpm::deleteKey: removes the key file; with TpmMayFail the removal of an
\* existing key may throw Tpm::Error, which leaves the calling method.
TpmDeleteFails(k) == TpmMayFail /\ tpm[cur][k] # None

\* The TPM after m_tpm->deleteKey(k) in a catch block or error path: the
\* key is gone, or the removal threw and the key stays.
TpmAfterCleanup(k) ==
    {[tpm EXCEPT ![cur][k] = None]} \cup (IF TpmDeleteFails(k) THEN {tpm} ELSE {})

\* deleteIdentity(identity): the keys the PIB lists for the identity, each
\* removed from the TPM, then pib->removeIdentity.
DeleteIdentity(id) ==
    /\ pc = "idle"
    /\ id \in pib.ids
    /\ pc' = "di_tpm"
    /\ op' = [NoOp EXCEPT !.id = id, !.pending = PibKeysOf(pib, id)]
    /\ ret' = NoRet
    /\ UNCHANGED <<exported, pib, tpm, cur, used>>

\* One iteration of the loop: m_tpm->deleteKey(key.getName()).
DiTpmDelete ==
    /\ pc = "di_tpm"
    /\ \E k \in op.pending :
          \/ /\ tpm' = [tpm EXCEPT ![cur][k] = None]
             /\ op' = [op EXCEPT !.pending = @ \ {k}]
             /\ UNCHANGED <<exported, pc, ret>>
          \/ /\ TpmDeleteFails(k)
             /\ Return("deleteIdentity", op.id, "failed")
             /\ UNCHANGED <<exported, tpm>>
    /\ UNCHANGED <<exported, pib, cur, used>>

\* After the loop: m_pib->removeIdentity(identityName).
DiPibRemove ==
    /\ pc = "di_tpm"
    /\ op.pending = {}
    /\ pib' = PibRemoveIdentity(pib, op.id)
    /\ Return("deleteIdentity", op.id, "ok")
    /\ UNCHANGED <<exported, tpm, cur, used>>

\* deleteKey(identity, key): identity.removeKey (PIB) and then
\* m_tpm->deleteKey; a key of another identity is an invalid_argument.
DeleteKey(id, k) ==
    /\ pc = "idle"
    /\ id \in pib.ids /\ pib.keys[k] # None
    /\ \/ /\ id # k[1]
          /\ ret' = [op |-> "deleteKey", arg |-> k, status |-> "rejected"]
          /\ UNCHANGED <<exported, pib, pc, op>>
       \/ /\ id = k[1]
          /\ pib' = PibRemoveKey(pib, k)
          /\ pc' = "dk_tpm"
          /\ op' = [NoOp EXCEPT !.id = id, !.key = k]
          /\ ret' = NoRet
    /\ UNCHANGED <<exported, tpm, cur, used>>

DkTpmDelete ==
    /\ pc = "dk_tpm"
    /\ \/ /\ tpm' = [tpm EXCEPT ![cur][op.key] = None]
          /\ Return("deleteKey", op.key, "ok")
       \/ /\ TpmDeleteFails(op.key)
          /\ Return("deleteKey", op.key, "failed")
          /\ UNCHANGED <<exported, tpm>>
    /\ UNCHANGED <<exported, pib, cur, used>>

-----------------------------------------------------------------------------
(***************************************************************************)
(* Defaults and certificates: single PIB writes.                           *)
(***************************************************************************)


SetDefaultIdentity(id) ==
    /\ pc = "idle"
    /\ id \in pib.ids
    /\ pib' = [pib EXCEPT !.defId = id]
    /\ Done("setDefaultIdentity", id, "ok")
    /\ UNCHANGED <<exported, tpm, pc, cur, op, used>>

SetDefaultKey(id, k) ==
    /\ pc = "idle"
    /\ id \in pib.ids /\ pib.keys[k] # None
    /\ \/ id # k[1] /\ Done("setDefaultKey", k, "rejected") /\ UNCHANGED <<exported, pib>>
       \/ id = k[1] /\ pib' = [pib EXCEPT !.defKey[id] = k] /\ Done("setDefaultKey", k, "ok")
    /\ UNCHANGED <<exported, tpm, pc, cur, op, used>>

\* addCertificate(key, certificate): empty content, or a certificate that
\* does not name the key, is an invalid_argument.  The content is compared
\* by std::equal(content.begin, content.end, publicKey.begin): every byte of
\* the content must equal the public key's byte at its place, so a content
\* that is a prefix of the public key is accepted.
\* Seeded fault: only the key name of the certificate is compared.
CertFitsNameOnly(k, c) == c.key = k

CertFits(k, c) == c.key = k /\ c.part # "empty" /\ c.pub = pib.keys[k].pub

AddCertificate(k, c) ==
    /\ pc = "idle"
    /\ pib.keys[k] # None
    /\ \/ ~CertFits(k, c) /\ Done("addCertificate", k, "rejected") /\ UNCHANGED <<exported, pib>>
       \/ CertFits(k, c) /\ pib' = PibAddCert(pib, c) /\ Done("addCertificate", k, "ok")
    /\ UNCHANGED <<exported, tpm, pc, cur, op, used>>

\* Seeded fault: the certificate is made the default without being added.
SetDefaultCertificateNoAdd(k, c) ==
    /\ pc = "idle"
    /\ pib.keys[k] # None
    /\ \/ ~CertFits(k, c) /\ Done("setDefaultCertificate", k, "rejected") /\ UNCHANGED <<exported, pib>>
       \/ /\ CertFits(k, c)
          /\ pib' = [pib EXCEPT !.defCert[k] = c]
          /\ Done("setDefaultCertificate", k, "ok")
    /\ UNCHANGED <<exported, tpm, pc, cur, op, used>>

\* setDefaultCertificate(key, cert): addCertificate, then make it the default.
SetDefaultCertificate(k, c) ==
    /\ pc = "idle"
    /\ pib.keys[k] # None
    /\ \/ ~CertFits(k, c) /\ Done("setDefaultCertificate", k, "rejected") /\ UNCHANGED <<exported, pib>>
       \/ /\ CertFits(k, c)
          /\ pib' = [PibAddCert(pib, c) EXCEPT !.defCert[k] = c]
          /\ Done("setDefaultCertificate", k, "ok")
    /\ UNCHANGED <<exported, tpm, pc, cur, op, used>>

DeleteCertificate(c) ==
    /\ pc = "idle"
    /\ c \in pib.certs
    /\ pib' = PibRemoveCert(pib, c)
    /\ Done("deleteCertificate", c.key, "ok")
    /\ UNCHANGED <<exported, tpm, pc, cur, op, used>>

-----------------------------------------------------------------------------
(***************************************************************************)
(* importSafeBag(safeBag, pw): checks, TPM import, then the PIB writes.    *)
(***************************************************************************)

\* Seeded fault: the m_tpm->hasKey check is missing, and the TPM import
\* overwrites a key it holds.
ImportSafeBagNoTpmCheck(b) ==
    LET k  == b.cert.key
        kt == KeyTypeFromSig(b.cert.sig)
    IN /\ pc = "idle"
       /\ \/ /\ b.enc = None \/ pib.keys[k] # None
             /\ Done("importSafeBag", k, "rejected")
             /\ UNCHANGED <<exported, tpm, pc, op>>
          \/ /\ b.enc # None /\ pib.keys[k] = None
             /\ tpm' = [tpm EXCEPT ![cur][k] = b.enc]
             /\ pc' = "isb_test"
             /\ op' = [NoOp EXCEPT !.id = k[1], !.key = k, !.type = kt, !.bag = b]
             /\ ret' = NoRet
    /\ UNCHANGED <<exported, pib, cur, used>>

\* The first steps, up to m_tpm->importPrivateKey: the key type is taken
\* from the certificate's signature type whenever it differs from the type
\* of the decrypted key, so it is always the signature's (PrivateKey::
\* getKeyType cannot tell SM2 from EC after loadPkcs8); a wrong password makes PrivateKey::loadPkcs8 throw;
\* an existing TPM key or PIB key is an Error.
ImportSafeBag(b) ==
    LET k  == b.cert.key
        kt == KeyTypeFromSig(b.cert.sig)
    IN /\ pc = "idle"
       /\ \/ /\ b.enc = None \/ tpm[cur][k] # None \/ pib.keys[k] # None
             /\ Done("importSafeBag", k, "rejected")
             /\ UNCHANGED <<exported, tpm, pc, op>>
          \/ /\ b.enc # None /\ tpm[cur][k] = None /\ pib.keys[k] = None
             /\ tpm' = [tpm EXCEPT ![cur][k] = b.enc]
             /\ pc' = "isb_test"
             /\ op' = [NoOp EXCEPT !.id = k[1], !.key = k, !.type = kt, !.bag = b]
             /\ ret' = NoRet
    /\ UNCHANGED <<exported, pib, cur, used>>

\* publicKey.loadPkcs8(publicKeyBits) reads a SubjectPublicKeyInfo: raw
\* HMAC key bits, a truncated encoding and empty content are not one.
Loadable(c) == c.part = "whole" /\ c.pub.alg # "HMAC"

\* Seeded fault: a certificate that does not match is rejected without
\* deleting the imported private key.
IsbTestNoCleanup ==
    LET k == op.key  m == tpm[cur][k]  pub == op.bag.cert.pub IN
    /\ pc = "isb_test"
    /\ \E ok \in SignOk(m, op.type) :
          \/ /\ ~ok
             /\ tpm' \in TpmAfterCleanup(k)
             /\ Return("importSafeBag", k, "failed")
          \/ /\ ok /\ (~Loadable(op.bag.cert) \/ pub # m)
             /\ Return("importSafeBag", k, "failed")
             /\ UNCHANGED <<exported, tpm>>
          \/ /\ ok /\ Loadable(op.bag.cert) /\ pub = m
             /\ pc' = "isb_pib"
             /\ UNCHANGED <<exported, tpm, op, ret>>
    /\ UNCHANGED <<exported, pib, cur, used>>

\* The consistency check: sign 4 bytes with the new TPM key (a thrown
\* runtime_error deletes the key), load the certificate's public key
\* (PublicKey::loadPkcs8 throws for content that is not a public key, e.g.
\* raw HMAC key bits, and nothing deletes the TPM key), verify (a mismatch
\* deletes the key).
IsbTest ==
    LET k == op.key  m == tpm[cur][k]  pub == op.bag.cert.pub IN
    /\ pc = "isb_test"
    /\ \E ok \in SignOk(m, op.type) :
          \/ /\ ~ok
             /\ tpm' \in TpmAfterCleanup(k)
             /\ Return("importSafeBag", k, "failed")
          \/ /\ ok /\ ~Loadable(op.bag.cert)
             /\ Return("importSafeBag", k, "failed")
             /\ UNCHANGED <<exported, tpm>>
          \/ /\ ok /\ Loadable(op.bag.cert) /\ pub # m
             /\ tpm' \in TpmAfterCleanup(k)
             /\ Return("importSafeBag", k, "failed")
          \/ /\ ok /\ Loadable(op.bag.cert) /\ pub = m
             /\ pc' = "isb_pib"
             /\ UNCHANGED <<exported, tpm, op, ret>>
    /\ UNCHANGED <<exported, pib, cur, used>>

\* addIdentity, addKey(public key, keyName, keyType), addCertificate.
IsbPib ==
    /\ pc = "isb_pib"
    /\ pib' = PibAddCert(PibAddKey(pib, op.key, op.type, op.bag.cert.pub), op.bag.cert)
    /\ Return("importSafeBag", op.key, "ok")
    /\ UNCHANGED <<exported, tpm, cur, used>>

\* exportSafeBag(certificate, pw): the TPM exports the private key named by
\* the certificate's key name, whatever key the certificate carries.  The
\* back-end encrypts it with PrivateKey::toPkcs8, which throws for an HMAC
\* key; a name the TPM lacks is a Tpm::Error.  Both become KeyChain::Error.
ExportSafeBag(c) ==
    LET m == tpm[cur][c.key] IN
    /\ Exports /\ pc = "idle"
    /\ \/ /\ IF m = None THEN TRUE ELSE m.alg = "HMAC"
          /\ Done("exportSafeBag", c.key, "failed")
          /\ UNCHANGED exported
       \/ /\ m # None /\ m.alg # "HMAC"
          /\ exported' = [cert |-> c, enc |-> m]
          /\ Done("exportSafeBag", c.key, "ok")
    /\ UNCHANGED <<pib, tpm, pc, cur, op, used>>

\* importPrivateKey(keyName, key): a name the TPM holds is an Error.
ImportPrivateKey(k, t) ==
    /\ pc = "idle"
    /\ \/ tpm[cur][k] # None /\ Done("importPrivateKey", k, "rejected") /\ UNCHANGED <<exported, tpm, used>>
       \/ /\ tpm[cur][k] = None
          /\ \E s \in Seeds \ used :
                /\ tpm' = [tpm EXCEPT ![cur][k] = [alg |-> t, seed |-> s]]
                /\ used' = used \cup {s}
          /\ Done("importPrivateKey", k, "ok")
    /\ UNCHANGED <<exported, pib, pc, cur, op>>

\* createHmacKey(prefix, params): m_tpm->createKey only; the PIB is untouched.
CreateHmacKey(id) ==
    /\ pc = "idle"
    /\ CanGenerate(id)
    /\ \E kid \in KeyIds, s \in Seeds \ used :
          /\ tpm[cur][<<id, kid>>] = None
          /\ tpm' = [tpm EXCEPT ![cur][<<id, kid>>] = [alg |-> "HMAC", seed |-> s]]
          /\ used' = used \cup {s}
    /\ Done("createHmacKey", id, "ok")
    /\ UNCHANGED <<exported, pib, pc, cur, op>>

-----------------------------------------------------------------------------
(***************************************************************************)
(* sign(Data&, SigningInfo): prepareSignatureInfo, then the low-level sign *)
(* with the key type read back from the signature type.                    *)
(***************************************************************************)

\* SigningInfo values: the signer kinds of SigningInfo::SignerType.
Signers ==
    {[kind |-> "NULL", id |-> None, key |-> None, hmac |-> None],
     [kind |-> "SHA256", id |-> None, key |-> None, hmac |-> None]}
    \cup {[kind |-> "ID", id |-> i, key |-> None, hmac |-> None] : i \in Ids}
    \cup {[kind |-> c, id |-> None, key |-> k, hmac |-> None] :
            c \in {"KEY", "CERT"}, k \in KeyName}
    \cup {[kind |-> "HMAC", id |-> None, key |-> None, hmac |-> m] : m \in HmacKeys}

Fail == [ok |-> FALSE, key |-> None, sig |-> None]

\* The signing key of identity id, or failure (no such identity, no default
\* key, or a key type getSignatureType rejects).
ByKey(k) ==
    IF k = None \/ pib.keys[k] = None \/ pib.keys[k].type \notin Algs THEN Fail
    ELSE [ok |-> TRUE, key |-> k, sig |-> SignatureTypeOf(pib.keys[k].type)]

ById(id) == IF id \notin pib.ids THEN Fail ELSE ByKey(pib.defKey[id])

\* KeyChain::prepareSignatureInfo: the key name and signature type.  A CERT
\* signer only looks up the identity and key named by the certificate name.
PrepareSignatureInfo(sg) ==
    CASE sg.kind = "NULL"   -> IF pib.defId = None
                               THEN [ok |-> TRUE, key |-> DigestKey, sig |-> "DigestSha256"]
                               ELSE ById(pib.defId)
      [] sg.kind = "ID"     -> ById(sg.id)
      [] sg.kind = "KEY"    -> ByKey(sg.key)
      [] sg.kind = "CERT"   -> IF sg.key[1] \in pib.ids THEN ByKey(sg.key) ELSE Fail
      [] sg.kind = "SHA256" -> [ok |-> TRUE, key |-> DigestKey, sig |-> "DigestSha256"]
      [] sg.kind = "HMAC"   -> [ok |-> TRUE, key |-> HmacName(sg.hmac), sig |-> "HmacWithSha256"]

\* An HMAC signer's key is imported into the TPM when the TPM lacks it.
TpmWithHmac(sg) ==
    IF sg.kind = "HMAC" /\ tpm[cur][HmacName(sg.hmac)] = None
    THEN [tpm EXCEPT ![cur][HmacName(sg.hmac)] = sg.hmac] ELSE tpm

\* The low-level KeyChain::sign: the digest identity hashes; otherwise the
\* TPM signs with the key type decoded from the signature type, and a key
\* missing from the TPM is an InvalidSigningInfoError.
Sign(sg) ==
    LET r  == PrepareSignatureInfo(sg)
        t2 == TpmWithHmac(sg)
        m  == IF r.ok /\ r.key # DigestKey THEN t2[cur][r.key] ELSE None
    IN /\ pc = "idle"
       /\ \/ /\ ~r.ok \/ r.key = DigestKey
             /\ Done("sign", sg.kind, IF r.ok THEN "ok" ELSE "failed")
             /\ UNCHANGED <<exported, tpm>>
          \/ /\ r.ok /\ r.key # DigestKey
             /\ tpm' = t2
             /\ \E ok \in TpmSignOutcomes(t2, r.key, KeyTypeFromSig(r.sig)) :
                  IF ok THEN ret' = [op |-> "sign", arg |-> [sig |-> r.sig, mat |-> m],
                                     status |-> "ok"]
                        ELSE Done("sign", sg.kind, "failed")
    /\ UNCHANGED <<exported, pib, pc, cur, op, used>>

-----------------------------------------------------------------------------
Next ==
    \/ \E r \in TpmLocators, a \in BOOLEAN : Open(r, a)
    \/ Close \/ Crash
    \/ \E id \in Ids, t \in GenTypes : CreateIdentity(id, t) \/ CreateKey(id, t)
    \/ CkTpmCreate \/ CkPibAdd \/ CkSelfSign \/ CiCert
    \/ \E id \in Ids : DeleteIdentity(id) \/ SetDefaultIdentity(id) \/ CreateHmacKey(id)
    \/ DiTpmDelete \/ DiPibRemove \/ DkTpmDelete
    \/ \E id \in Ids, k \in KeyName : DeleteKey(id, k) \/ SetDefaultKey(id, k)
    \/ \E b \in Bags : \/ AddCertificate(b.cert.key, b.cert)
                      \/ SetDefaultCertificate(b.cert.key, b.cert)
    \/ \E b \in Bags \cup (IF exported = None THEN {} ELSE {exported}) : ImportSafeBag(b)
    \/ \E c \in pib.certs \cup {b.cert : b \in Bags} : ExportSafeBag(c)
    \/ \E c \in pib.certs : DeleteCertificate(c)
    \/ IsbTest \/ IsbPib
    \/ \E k \in KeyName, t \in GenTypes : ImportPrivateKey(k, t)
    \/ \E sg \in Signers : Sign(sg)

Spec == Init /\ [][Next]_vars

-----------------------------------------------------------------------------
(***************************************************************************)
(* Properties.                                                             *)
(***************************************************************************)

Steps == {"closed", "idle", "ck_tpm", "ck_pib", "ck_sign", "ci_cert",
          "di_tpm", "dk_tpm", "isb_test", "isb_pib"}

TypeOK ==
    /\ pib.tpmLoc \in TpmLocs \cup {None}
    /\ pib.ids \subseteq Ids /\ pib.defId \in pib.ids \cup {None}
    /\ \A k \in KeyName : pib.keys[k] \in [type : KeyTypes, pub : Material] \cup {None}
    /\ pib.certs \subseteq Cert
    /\ tpm \in [TpmLocs -> [TpmNames -> Material \cup {None}]]
    /\ pc \in Steps /\ cur \in TpmLocs \cup {None} /\ (pc = "closed") = (cur = None)
    /\ used \subseteq Seeds
    /\ exported \in Bag \cup {None}

\* Between calls, every key the PIB lists has its private key, the one whose
\* public half the PIB stores, in the TPM the PIB is paired with.  About the
\* constructor's locator checks and the order of the PIB and TPM writes in
\* createKey, deleteKey, deleteIdentity and importSafeBag.
PibMatchesTpm ==
    pc \in {"closed", "idle"} /\ pib.tpmLoc # None =>
        \A k \in KeyName : pib.keys[k] # None => tpm[pib.tpmLoc][k] = pib.keys[k].pub

\* Every certificate the PIB stores under a key carries that key's public
\* key.  About addCertificate's check and about createKey writing a new key
\* under a name whose old certificates are still in the PIB.
CertsMatchKeys ==
    \A c \in pib.certs : pib.keys[c.key] # None /\ c.part = "whole" /\ c.pub = pib.keys[c.key].pub

\* A failed importSafeBag leaves no private key behind under the bag's key
\* name: importSafeBag deletes the key it imported when the consistency
\* check fails.
ImportFailureAtomic ==
    ret.op = "importSafeBag" /\ ret.status = "failed" => tpm[cur][ret.arg] = None

\* Every signature KeyChain::sign produces carries the signature type of the
\* key that made it: the type is decoded from the key type the PIB recorded
\* (createKey, importSafeBag) and the TPM signs with the real key.
SignatureTypeMatchesKey ==
    ret.op = "sign" => ret.arg.sig = SignatureTypeOf(ret.arg.mat.alg)

\* A private key a TPM stores is never replaced by a different one under
\* the same name.  createKey picks a key id free in the TPM, importSafeBag
\* and importPrivateKey refuse a name the TPM holds, and sign imports an
\* HMAC signer's key only when it is absent.  So the orphan private keys
\* that a crash or a failed removal leaves behind (in createKey, deleteKey
\* and importSafeBag) are never swapped for the key of a retry.
TpmKeysNeverReplaced ==
    [][\A t \in TpmLocs, n \in TpmNames :
          tpm[t][n] # None /\ tpm'[t][n] # None => tpm'[t][n] = tpm[t][n]]_vars

\* When createIdentity returns, the identity has a default key with a
\* default certificate, also when an earlier createKey died before selfSign.
CreateIdentityRecovers ==
    ret.op = "createIdentity" /\ ret.status = "ok" =>
        /\ pib.defKey[ret.arg] # None
        /\ pib.defCert[pib.defKey[ret.arg]] # None

\* A deleteIdentity that fails on a TPM removal has still tried every other
\* key of the identity: at most the key that failed is left in the TPM.
DeleteIdentityBestEffort ==
    ret.op = "deleteIdentity" /\ ret.status = "failed" =>
        Cardinality({k \in PibKeysOf(pib, ret.arg) : tpm[cur][k] # None}) <= 1

-----------------------------------------------------------------------------
(***************************************************************************)
(* Refinement: the KeyChain implements IdentityStore.  A key is visible    *)
(* when the PIB lists it and the paired TPM holds its private key.  The   *)
(* key's certificates and default pointers are visible with it.           *)
(***************************************************************************)

Usable(k) ==
    /\ pib.tpmLoc # None /\ pib.keys[k] # None
    /\ tpm[pib.tpmLoc][k] = pib.keys[k].pub

Store == INSTANCE IdentityStore WITH
    Material <- Material, Certs <- {c \in Cert : c.part = "whole"},
    ids     <- pib.ids,
    defId   <- pib.defId,
    keys    <- [k \in KeyName |-> IF Usable(k) THEN pib.keys[k].pub ELSE None],
    defKey  <- [i \in Ids |-> IF pib.defKey[i] # None /\ Usable(pib.defKey[i])
                              THEN pib.defKey[i] ELSE None],
    certs   <- {c \in pib.certs : Usable(c.key)},
    defCert <- [k \in KeyName |-> IF Usable(k) THEN pib.defCert[k] ELSE None]

\* Seen through its callers, the KeyChain is an identity store with atomic
\* operations (spec section 3: "created only through the KeyChain facade,
\* which keeps PIB and TPM in step").  Every write of createKey, importSafeBag,
\* deleteKey, deleteIdentity, the certificate calls and the constructor's
\* reset is one IdentityStore step or none.  A key never changes material
\* while visible, and a certificate never becomes visible under a key it
\* does not match.
ImplementsIdentityStore == Store!Spec

=============================================================================
