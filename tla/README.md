# TLA+ models of the ndn-cxx (GM) security core

This directory holds TLA+ models of the ndn-cxx KeyChain
(`src/ndn-cxx/security/key-chain.cpp`) and of the PrivateKey transform
(`src/ndn-cxx/security/transform/private-key.cpp`), as this repository ships
them. It also holds the TLC configurations that check the models.

## 1. The system and its parts

| Part | Source | State | Operations |
|---|---|---|---|
| KeyChain facade | `security/key-chain.cpp` | the open PIB and TPM handles (`m_pib`, `m_tpm`) | constructor (locator check and reset), createIdentity, createKey, createHmacKey, deleteIdentity, deleteKey, setDefault{Identity,Key,Certificate}, addCertificate, deleteCertificate, exportSafeBag, importSafeBag, importPrivateKey, sign(Data/Interest), prepareSignatureInfo, selfSign |
| PIB (not in this repository) | called from key-chain.cpp | identities, keys (type and public key), certificates, the three default pointers, the recorded TPM locator. It is persistent (pib-sqlite3). | add/remove/set-default, reset, set TPM locator |
| TPM (not in this repository) | called from key-chain.cpp | private keys by key name, one store per locator. It is persistent (tpm-file). | createKey, importPrivateKey, deleteKey, hasKey, sign, getPublicKey |
| PrivateKey transform | `security/transform/private-key.cpp` | one loaded `EVP_PKEY` | load*, save*, derivePublicKey, decrypt, generate{Rsa,Ec,SM2,Hmac}Key, getKeyType/Size/Digest |
| PublicKey, verification helpers | `transform/public-key.hpp`, `verification-helpers.hpp` | declarations only | |
| NFD status datasets | `mgmt/nfd/status-dataset.cpp` | none (TLV decoding) | parseDatasetVector and the dataset classes |
| StatusDatasetContext, verifier filter | only their unit tests are here | | |

How the parts interact: the KeyChain keeps two persistent stores in step.
Each store outlives any KeyChain instance. A KeyChain operation that writes
both stores does so in several separate writes. Between two of those writes,
the process can crash or a TPM call can throw. The data is then left
half-written. This is the hazard that the model is built around. PrivateKey
sits below the TPM and decides which key types can be signed, derived and
exported.

Hazards the code is exposed to (listed with their source lines in
`PROJECT.json` under "hazards"):

- the order of the PIB and TPM writes in deleteIdentity (TPM first) and
  deleteKey (PIB first);
- a TPM removal that throws in the middle of a loop;
- a crash between createKey's TPM write, its PIB write and selfSign;
- createKey choosing a key name that is free in the TPM but still present in
  the PIB;
- importSafeBag's cleanup, which is missing on one path and can itself fail;
- the orphan private keys that crashes and failed removals leave in the
  TPM, which a retry must not overwrite;
- importSafeBag taking the key type from the certificate's *issuer* signature;
- the constructor's locator logic for the default PIB and for a non-default
  PIB, and the comparison of a caller's locator spelling with the
  canonical one that the PIB recorded;
- addCertificate's content check, which compares only as many bytes as the
  certificate content has;
- exportSafeBag exporting whatever TPM key the caller's certificate names,
  without checking that the certificate is in the PIB;
- the SM2 error paths of PrivateKey, which free the key twice and never free
  the `params` object, and which free their two contexts by hand on every
  branch;
- decrypt(SM2) re-typing an EC key in place;
- getKeySize for SM2.

## 2. Modules

`KeyChain.tla` is the KeyChain facade together with the PIB and TPM state it
writes.

- **Variables.**
  - `pib` is a record: `tpmLoc`, `ids`, `defId`, `keys[k] = [type, pub]`,
    `defKey`, `certs`, `defCert`.
  - `tpm[loc][name]` is the private key stored under that name, or `None`.
  - `pc` is the step of the running call: "closed", "idle", or one of the
    intermediate steps.
  - `cur` is `m_tpm`'s locator.
  - `op` holds the arguments and locals of the running call.
  - `used` is the key material handed out so far.
  - `ret` is how the last multi-step call ended, or the last signature made.
  - `exported` is the SafeBag that exportSafeBag returned last, which its
    caller keeps and may import again.
- **Locators.** A locator string is a sequence of tokens. A scheme or a
  location is one token, and `":"` is the separator that `parseLocatorUri`
  looks for (`SelectInSeq`, the first ':').
  - `ParseAndCheckLocator` substitutes the default scheme for an empty one and
    rejects an unregistered scheme (None, a thrown Error).
  - `Canonical` is `scheme + ":" + location`.
  - `PibIsDefault` and `DefaultTpm` are `getDefaultPibLocator` and
    `getDefaultTpmLocator`: the configured strings (`NDN_CLIENT_PIB`,
    `NDN_CLIENT_TPM` or client.conf, given as the constants
    `DefaultPibLocator` and `DefaultTpmLocator`) in canonical form.
  - `TpmLocs`, the TPM stores, is one store per canonical locator.
- **Data abstraction.**
  - A private key is `[alg, seed]`. Its public key is the same record, so
    "certificate matches key" is equality.
  - A certificate is `[key, issuer, pub, sig, part]`. Its content is the
    public key `pub`: all of it (`part = "whole"`), a proper non-empty
    prefix of its encoding (`"prefix"`), or nothing (`"empty"`).
    `CertFits` follows addCertificate: empty content is rejected, and the
    `std::equal` of the content against the key's bytes accepts a whole
    key and a prefix of it. `Loadable` follows importSafeBag's
    `publicKey.loadPkcs8`: only a whole, non-HMAC public key loads.
    Content longer than the key (a read past the key's buffer) is not
    modelled.
  - A SafeBag is `[cert, enc]`, where `enc = None` means the password is
    wrong.
  - Certificate names, versions, validity periods and wire encodings are left
    out. No property distinguishes them.
- **Actions.** There is one action per KeyChain method, and one more per
  persistent write inside a multi-step method:
  - createKey: `CreateKey`, then `CkTpmCreate`, `CkPibAdd`, `CkSelfSign`;
  - createIdentity: `CreateIdentity`, then `CiCert`;
  - deleteIdentity: `DeleteIdentity`, then `DiTpmDelete` once per key, then
    `DiPibRemove`;
  - deleteKey: `DeleteKey`, then `DkTpmDelete`;
  - importSafeBag: `ImportSafeBag`, then `IsbTest`, then `IsbPib`;
  - the constructor is `Open(tpmLocator, allowReset)`. It takes the raw
    string, throws for an unsupported scheme, compares the canonical form
    with the locator the PIB recorded, resets the PIB or throws, and ends
    with `m_pib->setTpmLocator`, modelled as `PibSetTpmLocator`: the PIB
    resets itself first when the locator changes. The destructor is
    `Close`;
  - exportSafeBag is `ExportSafeBag(c)`. It exports the TPM key named by
    any certificate the caller passes: a PIB certificate or the certificate
    of a bag. It fails when the TPM lacks the key, and for an HMAC key, since
    the back-end's `PrivateKey::toPkcs8` throws for one (as `ToPkcs8` in
    PrivateKey.tla). The constant `Exports` enables it; only kc_faults sets it.
  - `Crash` ends a call in the middle and keeps both stores as they are.
- **The TPM and PIB back-ends** are not in this repository. Their effects are
  modelled from `spec.md` and marked `spec_modelled` in the map:
  - the first entity added becomes the default;
  - removing a parent removes its children;
  - adding a key under an existing name replaces its public key and keeps its
    certificates;
  - setting a TPM locator other than the recorded one resets the PIB;
  - `SignOk`: signing with a key under a type it is not succeeds for the
    RSA/EC combinations and is left nondeterministic for the rest.

`MC_KeyChain.tla` instantiates the model for TLC. It defines the SafeBags:
- a good EC bag and a good SM2 bag;
- the EC key re-certified by a CA;
- a bag whose certificate and key differ;
- a bag with a wrong password;
- an RSA key certified by an ECDSA CA;
- a bag whose certificate content is not a public key;
- the good EC bag with its certificate content cut to a prefix, and with
  no content (kc_prefixcert).

It also defines the HMAC signer key, the seed sets, and the locator
strings:
- the configured defaults are `pib-sqlite3:` and `tpm-file`, written
  without ':';
- callers pass `""` and `tpm-file:` (both the default TPM), `tpm-file:dir`
  (a second TPM), and `tpm-osx`, which a build without the macOS Keychain
  rejects;
- the PIB is `pib-sqlite3:dir`, a non-default PIB.

`IdentityStore.tla` is the abstract specification: what the KeyChain promises
its callers (spec §3 and §4.6). It is a store of identities, keys and
certificates whose operations are atomic. Every listed key has its private
key, so a key is given by its key material. Every certificate is well
formed (`Certs`, mapped to the certificates with whole content) and
carries its key's public key. A default pointer always names an existing child, and
removing that child clears it. Its actions are AddIdentity, AddKey (with an
optional first certificate), AddCert, RemoveCert, SetDefaultIdentity,
SetDefaultKey, RemoveKey, RemoveIdentity and Reset. It models no code and has
no map entries.

`KeyChain.tla` ends with the refinement mapping `Store == INSTANCE
IdentityStore WITH ...`:
- a PIB key is *usable* when the PIB is paired with a TPM that holds the
  key's private key under its name, with the same material;
- the abstract keys, default keys, certificates and default certificates are
  the usable ones;
- identities and the default identity are the PIB's.

Each multi-step call of the KeyChain maps to one abstract step at the write
that makes its result usable, and to stuttering steps elsewhere. A TPM key
that the PIB does not list yet is invisible. `ImplementsIdentityStore ==
Store!Spec` is checked as a PROPERTY in kc_ops. With crashes (the
kc_stalekey configuration) it fails after 14 steps, through the same stale
key that breaks `CertsMatchKeys`, so the mapping is not vacuous.

`PrivateKey.tla` models one PrivateKey object and every OpenSSL object that
it and the key generators allocate.

- **Variables.**
  - `obj[h]` is OpenSSL object `h`: its kind (`EVP_PKEY` or `EVP_PKEY_CTX`),
    the algorithm of its key material, the EVP type id that OpenSSL reports,
    and how many times it has been freed.
  - Handles are never reused, so a second free stays visible.
  - `live`, `key` and `origin` are the caller's PrivateKey, its
    `m_impl->key`, and whether that key was loaded or generated.
  - `pc` and `loc` are the step of generateSM2Key and its locals (`pctx`,
    `params`, `kctx` and the new key).
  - `saved` is the blob that toPkcs1/toPkcs8 wrote last, as a format
    (pkcs1, pkcs8 or raw) and the algorithm of its key. It can be loaded
    again.
- **Actions.**
  - `Construct` and `Destroy`. `~Impl` frees the key.
  - The loaders `LoadPkcs1`, `LoadPkcs8` and `LoadRaw`, all guarded by
    ENSURE_PRIVATE_KEY_NOT_LOADED. Each one takes a blob from `Blobs`:
    external PKCS #1 and PKCS #8 blobs of the `LoadAlgs`, a raw HMAC key,
    and `saved`. A loader succeeds only on a blob of its own format, and
    loadPkcs8 only with the right password. The stream, base64 and
    password-callback overloads read or decode their input and then make
    the same step, so each loader stands for all of its overloads.
  - `SavePkcs1` and `SavePkcs8` (with their base64 forms) write the blob
    that `ToPkcs1` or `ToPkcs8` makes. ToPkcs1 writes an HMAC key as raw
    bytes and any other key as PKCS #1. ToPkcs8 throws for an HMAC key.
  - `Decrypt(kt, ctxOk)` dispatches to `RsaDecrypt` or `Sm2Decrypt`.
    - Both of them make an `EVP_PKEY_CTX` through the `EvpPkeyCtx`
      wrapper (`ScopedCtx`). The wrapper frees the context on every path.
    - Sm2Decrypt first calls `EVP_PKEY_set_alias_type` on the key.
    - `ctxOk` is whether `EVP_PKEY_CTX_new` succeeds.
  - `Generate(t)` is generatePrivateKey's switch. It calls
    `GenerateRsaKey`, `GenerateEcKey` and `GenerateHmacKey`, each one
    step, or starts generateSM2Key. The RSA and EC generators can fail
    after an allocation; their RAII wrappers then free what they
    allocated.
  - generateSM2Key, split at each OpenSSL call that can fail, with the frees
    each error branch makes: `Sm2Begin`, `Sm2Params`, `Sm2Keygen`,
    `Sm2Inspect` and `Sm2Alias`.
- **`GetKeyType`** returns what `detail::getEvpPkeyType` gives, and that
  helper is not in this repository. Built on `EVP_PKEY_id`, it reports a
  key's alias type (SM2 after `EVP_PKEY_set_alias_type`). Built on
  `EVP_PKEY_base_id`, it reports the base type (EC). The constant
  `AliasVisible` chooses between them. The SM2 case of getKeyType's switch,
  and spec §4.2's "alias-typed as SM2", are reachable only with the first.
  pk_ops uses the second; pk_aliasdecrypt needs the first.
- **OpenSSL 1.1.1 behaviour** is marked `spec_modelled`:
  - `BaseId`: both curves decode and generate as `EVP_PKEY_EC`;
  - `Alloc` and `Free`;
  - `SetAliasSm2` accepts any key whose base type is EC.

`MC_PrivateKey.tla` gives six handles (`HandleSet`) and five
(`HandleSet5`, used by pk_ops). One SM2 generation needs four, which leaves
room for a load or a generation around it. Handles are not
declared symmetric, because the model picks the next handle with CHOOSE.

## 3. Runs

| Run | Expect | Properties | What it shows |
|---|---|---|---|
| kc_ops | pass | TypeOK, PibMatchesTpm, CertsMatchKeys, ImportFailureAtomic, SignatureTypeMatchesKey, ImplementsIdentityStore | This run has no crashes and no TPM failures, and uses a non-default PIB with two TPMs, each reachable under several spellings. Between calls, every PIB key has its own private key in the paired TPM. Certificates carry their key's whole public key. A failed import leaves no key. Signatures carry their key's type. The KeyChain implements IdentityStore. Its bags all carry whole certificate content; kc_prefixcert offers the cut ones. (118k states, 48 s) |
| kc_faults | pass | CreateIdentityRecovers, TpmKeysNeverReplaced | Crashes happen between writes, TPM removals throw, and SafeBags are exported and imported again. createIdentity still ends with a default key that has a default certificate, also after an earlier createKey died before selfSign. No private key in a TPM is ever replaced by another under the same name, so the orphan keys that crashes and failed removals leave are never swapped for a retry's key. (135k states, 19 s) |
| kc_crashdelete | violation | PibMatchesTpm | A crash inside deleteIdentity, after the TPM removals (line 242). |
| kc_tpmfail | violation | DeleteIdentityBestEffort | The first TPM failure aborts deleteIdentity (line 243). |
| kc_cabag | violation | SignatureTypeMatchesKey | An RSA key certified by an ECDSA CA is stored as EC (line 403). |
| kc_badcert | violation | ImportFailureAtomic | The certificate content fails `PublicKey::loadPkcs8` outside the cleanup (line 450). |
| kc_stalekey | violation | CertsMatchKeys | createKey reuses a stale PIB key name after a crash (line 263). |
| kc_prefixcert | violation | CertsMatchKeys | addCertificate accepts a certificate whose content is only a prefix of the key's public key (line 325); spec §4.6 says the content must equal it. |
| pk_ops | pass | TypeOK, KeyNotFreedWhileHeld, ContextsFreedOnce | Covers loads of external and self-saved blobs, the save calls, generation of RSA, EC, SM2 and HMAC keys with their failing OpenSSL calls, and decrypts with their contexts. A held key has never been freed. Between calls, every EVP_PKEY_CTX has been freed exactly once, on every error branch of generateSM2Key too. (291k states, 10 s) |
| pk_doublefree | violation | NoDoubleFree | A failure in generateSM2Key's key-pair dump frees the new key by hand, and `~Impl` frees it again (private-key.cpp:692). |
| pk_leak | violation | NoLeak | A successful generateSM2Key leaves `params` allocated (private-key.cpp:657). |
| pk_aliasdecrypt | violation | ReportedTypeSound | With a getEvpPkeyType that reports alias types, the const decrypt(SM2) on a generated P-256 key makes it report SM2 from then on (private-key.cpp:532). |

Every property of the passing runs has a mutant in `PROJECT.json`: a seeded
fault, defined in the module before the definition it replaces, which
TLC catches under that run's configuration.

**Bounds.**
- One identity with two key ids. This gives two keys per identity, which
  `DeleteIdentityBestEffort` and the stale-name reuse need.
- Two TPM stores, reached through four caller locators, one of them
  unsupported (one store, under two spellings, in kc_faults).
- The caller keeps one exported SafeBag at a time. Keeping a set of them
  made kc_ops grow past a million states without new behaviour.
- Three seeds for the SafeBags, one or two fresh seeds for generation, and one
  HMAC signer key.

- PrivateKey: five handles in pk_ops and six in the violation runs. Only
  the last saved blob is kept, which is enough to load back each format
  that was written. RSA and SM2 blobs are loaded from outside. EC is
  generated but not loaded from outside, because an EC load takes the
  same path as an RSA load.

These bounds reach every branch of every action: the passing runs together
fire every action and every disjunct. The violations appear after 7–14 steps.
Adding a second identity multiplies the state space by about 30 and adds no
new interleaving, because the calls never touch two identities at once.

**Fairness.** None is assumed, and no run checks a liveness property. The
KeyChain and PrivateKey are synchronous and driven by their caller (spec
§5): no caller is obliged to call, and a started call runs to its end on
the caller's thread unless the process dies. That a started call ends is
then a matter of the model's shape (every intermediate step is enabled
and leads to the next), not of anything the code could get wrong, so it
is not stated. Deadlock is checked: `Open` is always enabled in "closed",
and `Close` is always enabled in "idle".

## 4. Not modelled yet, and the plan

1. **PrivateKey**: every operation that changes state is an action.
   derivePublicKey, getKeySize and getKeyDigest are queries and change
   nothing. getKeySize returns 0 for SM2 keys (line 126). This is listed
   as a hazard without a property, because a single call shows it.
2. **Two KeyChain instances sharing one PIB file** (spec §5): interleaved
   calls of two processes. It needs a copy of `pc`, `cur` and `op` per
   process. With one process, kc_ops already has 118k states. A second
   process multiplies that by about the same factor, which is out of reach.
3. **NFD status datasets** (`mgmt/nfd/status-dataset.cpp`) and the
   **StatusDatasetContext** tests. Spec §1 lists them as non-goals: plain
   TLV containers that do not touch the security core.
   - `parseDatasetVector` is a loop without state between calls. Its
     result depends on `Block::fromBuffer`, which is not in this
     repository.
   - `PublicKey` (`public-key.hpp`) and the verification helpers are
     declarations only. Their bodies are not in this repository.
4. **exportSafeBag in kc_ops.** With two TPMs and the full set of bags,
   export makes the run take longer than its time budget. kc_faults, with
   one TPM, exports. No property states the spec §8 round trip: with a
   CA-certified bag the code breaks it (kc_cabag), and without one it
   holds by construction.

The spec disagreement at key-chain.cpp:185 (the default PIB is reset on
open whatever allowReset says, as the code comment and spec §4.6 step 3
intend, while spec §7 promises otherwise) is listed as a hazard without a
property: with Pib::setTpmLocator resetting on a changed locator, a
default PIB opened with another TPM is wiped by line 185 or by line 204.
