----------------------------- MODULE PrivateKey -----------------------------
(***************************************************************************)
(* transform::PrivateKey (src/ndn-cxx/security/transform/private-key.cpp): *)
(* one PrivateKey object held by its caller, the OpenSSL objects it and    *)
(* the key generators allocate and free, the load-once rule, the key-type *)
(* dispatch of getKeyType / getKeySize / decrypt, and generateSM2Key split *)
(* at each OpenSSL call that may fail.                                     *)
(*                                                                         *)
(* An OpenSSL object is a handle with a kind (EVP_PKEY or EVP_PKEY_CTX),   *)
(* for an EVP_PKEY the curve or algorithm of the key material (alg) and    *)
(* the EVP type id OpenSSL reports for it (id: EC for both curves until    *)
(* EVP_PKEY_set_alias_type makes it SM2), and the number of times it was  *)
(* freed.  Handles are never reused, so a second free is visible.          *)
(***************************************************************************)
EXTENDS Naturals, FiniteSets

CONSTANTS
    Handles,      \* OpenSSL objects the run may allocate
    LoadAlgs,     \* algorithms of the key blobs a caller loads
    GenAlgs,      \* key types a caller asks generatePrivateKey for
    AllocMayFail, \* an OpenSSL allocation or query inside generateSM2Key may fail
    AliasVisible, \* detail::getEvpPkeyType reports a key's alias type (see GetKeyType)
    None

Algs    == {"RSA", "EC", "SM2", "HMAC"}   \* EC: a NIST curve; SM2: the SM2 curve
EvpIds  == {"RSA", "EC", "SM2", "HMAC"}   \* EVP_PKEY_RSA, _EC, _SM2, _HMAC
Kinds   == {"none", "pkey", "ctx"}
Steps   == {"idle", "sm2_params", "sm2_keygen", "sm2_inspect", "sm2_alias"}

\* A key blob: its encoding (traditional DER from i2d_PrivateKey, encrypted
\* PKCS #8, or raw HMAC key bytes) and the algorithm of the key it encodes.
Formats == {"pkcs1", "pkcs8", "raw"}
Blob    == [fmt : Formats, alg : Algs]

\* The EVP type OpenSSL gives a key it decodes or generates: both curves
\* are EVP_PKEY_EC.
BaseId(a) == IF a = "SM2" THEN "EC" ELSE a

\* generateSM2Key allocates at most four objects (pctx, params, kctx, key);
\* a generation starts only when that many handles are left.
Sm2Objects == 4

ASSUME /\ LoadAlgs \subseteq {"RSA", "EC", "SM2"} /\ GenAlgs \subseteq Algs
       /\ AllocMayFail \in BOOLEAN /\ AliasVisible \in BOOLEAN

VARIABLES
    obj,     \* obj[h]: [what, alg, id, frees] of OpenSSL object h
    live,    \* the caller holds a PrivateKey
    key,     \* its m_impl->key, or None
    origin,  \* how that key was made: "gen", "load" or None
    pc,      \* the step of generateSM2Key running, or "idle"
    loc,     \* generateSM2Key's locals: pctx, params, kctx, the new key
    saved    \* the blob toPkcs1 / toPkcs8 last wrote, or None

vars == <<obj, live, key, origin, pc, loc, saved>>

NoObj  == [what |-> "none", alg |-> None, id |-> None, frees |-> 0]
NoLoc  == [pctx |-> None, params |-> None, kctx |-> None, pkey |-> None]

Init ==
    /\ obj = [h \in Handles |-> NoObj]
    /\ live = FALSE /\ key = None /\ origin = None
    /\ pc = "idle" /\ loc = NoLoc /\ saved = None

\* The blobs a caller can load: keys from outside in both encodings, raw
\* HMAC key bytes, and the blob a PrivateKey saved last.
External == {[fmt |-> f, alg |-> a] : f \in {"pkcs1", "pkcs8"}, a \in LoadAlgs}
            \cup {[fmt |-> "raw", alg |-> "HMAC"]}
Blobs == External \cup (IF saved = None THEN {} ELSE {saved})

\* The handles not yet allocated, and the one the next allocation takes.
FreeHandles == {h \in Handles : obj[h].what = "none"}
NewHandle   == CHOOSE h \in FreeHandles : TRUE

\* EVP_PKEY_new / EVP_PKEY_CTX_new / d2i_*: a fresh object.
Alloc(o, h, w, a) == [o EXCEPT ![h] = [what |-> w, alg |-> a, id |-> BaseId(a), frees |-> 0]]

\* EVP_PKEY_free / EVP_PKEY_CTX_free; freeing NULL does nothing.
Free(o, h) == IF h = None THEN o ELSE [o EXCEPT ![h].frees = @ + 1]

-----------------------------------------------------------------------------
(***************************************************************************)
(* Queries.                                                                *)
(***************************************************************************)

\* PrivateKey::getKeyType: NONE without a key, else the type
\* detail::getEvpPkeyType gives.  That helper is not in this repository:
\* built on EVP_PKEY_id it reports a key's alias type (SM2 after
\* EVP_PKEY_set_alias_type), built on EVP_PKEY_base_id it reports the
\* base type (EC).  The SM2 case of the switch, and spec.md's "alias-typed
\* as SM2", are reachable only with the first.
GetKeyType(h) ==
    IF h = None THEN "NONE" ELSE IF AliasVisible THEN obj[h].id ELSE BaseId(obj[h].id)

-----------------------------------------------------------------------------
(***************************************************************************)
(* The object's life cycle and loaders.                                    *)
(***************************************************************************)

\* PrivateKey(): an Impl with a null key.
Construct ==
    /\ ~live /\ pc = "idle"
    /\ live' = TRUE /\ key' = None /\ origin' = None
    /\ UNCHANGED <<obj, pc, loc, saved>>

\* Seeded fault: the destructor frees the key but the object keeps pointing
\* at it.
DestroyKeepsKey ==
    /\ live /\ pc = "idle"
    /\ obj' = Free(obj, key)
    /\ live' = FALSE /\ origin' = None
    /\ UNCHANGED <<key, pc, loc, saved>>

\* ~PrivateKey(): ~Impl calls EVP_PKEY_free(key).
Destroy ==
    /\ live /\ pc = "idle"
    /\ obj' = Free(obj, key)
    /\ live' = FALSE /\ key' = None /\ origin' = None
    /\ UNCHANGED <<pc, loc, saved>>

\* A loader: ENSURE_PRIVATE_KEY_NOT_LOADED, then decode blob b into
\* m_impl->key; a blob that does not decode (or a wrong password) throws and
\* leaves the key null.  OpenSSL decodes an SM2 key as EVP_PKEY_EC.
LoadBlob(b, ok) ==
    /\ live /\ pc = "idle"
    /\ key = None
    /\ \/ /\ ok /\ FreeHandles # {}
          /\ obj' = Alloc(obj, NewHandle, "pkey", b.alg)
          /\ key' = NewHandle /\ origin' = "load"
       \/ ~ok /\ UNCHANGED <<obj, key, origin>>
    /\ UNCHANGED <<live, pc, loc, saved>>

\* loadPkcs1: d2i_AutoPrivateKey reads a traditional DER key.  The stream
\* and base64 overloads read or decode their input into a buffer and call
\* it; a blob here is the decoded key.
LoadPkcs1(b) == LoadBlob(b, b.fmt = "pkcs1")

\* loadPkcs8(buf, pw): d2i_PKCS8PrivateKey_bio reads an encrypted PKCS #8
\* key with the right password.  The overloads taking a password callback,
\* a stream or base64 text end in the same call; pwOk is whether the
\* password (given or returned by the callback) decrypts the key.
LoadPkcs8(b, pwOk) == LoadBlob(b, b.fmt = "pkcs8" /\ pwOk)

\* loadRaw(type, buf): only HMAC (else invalid_argument); any bytes make an
\* HMAC key.  loadHamcPkcs1Base64 decodes base64 and calls it.
LoadRaw(t, b) ==
    /\ live /\ pc = "idle"
    /\ key = None
    /\ t = "HMAC" /\ FreeHandles # {}
    /\ obj' = Alloc(obj, NewHandle, "pkey", "HMAC")
    /\ key' = NewHandle /\ origin' = "load"
    /\ UNCHANGED <<live, pc, loc, saved>>

\* toPkcs1: an HMAC key as its raw bytes, any other key through
\* i2d_PrivateKey_bio.
ToPkcs1(h) ==
    [fmt |-> IF GetKeyType(h) = "HMAC" THEN "raw" ELSE "pkcs1", alg |-> obj[h].alg]

\* toPkcs8: i2d_PKCS8PrivateKey_bio with AES-256-CBC; it fails for an HMAC
\* key, which has no PKCS #8 encoding, and toPkcs8 throws.
Pkcs8Ok(h)  == GetKeyType(h) # "HMAC"
ToPkcs8(h)  == [fmt |-> "pkcs8", alg |-> obj[h].alg]

\* savePkcs1 / savePkcs1Base64: toPkcs1 written to the caller's stream
\* (base64-encoded or not).  ENSURE_PRIVATE_KEY_LOADED comes first.
SavePkcs1 ==
    /\ live /\ pc = "idle"
    /\ key # None
    /\ saved' = ToPkcs1(key)
    /\ UNCHANGED <<obj, live, key, origin, pc, loc>>

\* savePkcs8 / savePkcs8Base64, with a password or a password callback:
\* toPkcs8 written to the stream; nothing is written when it throws.
SavePkcs8 ==
    /\ live /\ pc = "idle"
    /\ key # None /\ Pkcs8Ok(key)
    /\ saved' = ToPkcs8(key)
    /\ UNCHANGED <<obj, live, key, origin, pc, loc>>

\* sm2Decrypt's first call, EVP_PKEY_set_alias_type(key, EVP_PKEY_SM2):
\* OpenSSL 1.1.1 accepts it for any key whose base type is EC and changes
\* the key's type in place; for any other key it fails and decrypt throws.
SetAliasSm2(o, h) ==
    IF o[h].id \in {"EC", "SM2"} THEN [o EXCEPT ![h].id = "SM2"] ELSE o

\* detail::EvpPkeyCtx(key): EVP_PKEY_CTX_new, and EVP_PKEY_CTX_free when the
\* wrapper leaves scope, whether the calls made with it succeed or throw.
\* When EVP_PKEY_CTX_new fails (ctxOk false) the wrapper throws and nothing
\* is allocated.
ScopedCtx(o, ctxOk) ==
    IF ctxOk THEN Free(Alloc(o, NewHandle, "ctx", None), NewHandle) ELSE o

\* rsaDecrypt: an EvpPkeyCtx on the key, then decrypt_init, OAEP padding and
\* the two EVP_PKEY_decrypt calls.  A key that is not RSA or a bad
\* ciphertext makes one of them fail and throw; the result is a new buffer.
RsaDecrypt(o, h, ctxOk) == ScopedCtx(o, ctxOk)

\* sm2Decrypt: EVP_PKEY_set_alias_type first (a failure throws before the
\* context exists), then an EvpPkeyCtx on the aliased key and the decrypt
\* calls.
Sm2Decrypt(o, h, ctxOk) ==
    IF o[h].id \in {"EC", "SM2"} THEN ScopedCtx(SetAliasSm2(o, h), ctxOk) ELSE o

\* decrypt(cipherText, keyType): ENSURE_PRIVATE_KEY_LOADED, then dispatch on
\* the caller's keyType: RSA to rsaDecrypt, SM2 to sm2Decrypt; NONE and any
\* other type throw before anything is allocated.  A decryption needs a
\* handle for its context (the bound of the run).
Decrypt(kt, ctxOk) ==
    /\ live /\ pc = "idle"
    /\ key # None
    /\ kt \in {"RSA", "SM2"} /\ FreeHandles # {}
    /\ obj' = IF kt = "SM2" THEN Sm2Decrypt(obj, key, ctxOk) ELSE RsaDecrypt(obj, key, ctxOk)
    /\ UNCHANGED <<live, key, origin, pc, loc, saved>>

-----------------------------------------------------------------------------
(***************************************************************************)
(* Generation.  The caller holds no PrivateKey yet and gets the new one.   *)
(***************************************************************************)

\* generateRsaKey: an EVP_PKEY_CTX (freed by its EvpPkeyCtx wrapper on
\* every path), then EVP_PKEY_keygen into the new PrivateKey's key; a failed
\* init or keygen throws with the key still null.
GenerateRsaKey ==
    LET kc      == NewHandle
        pk      == CHOOSE h \in FreeHandles \ {kc} : TRUE
        withCtx == Alloc(obj, kc, "ctx", None)
    IN /\ ~live /\ pc = "idle" /\ Cardinality(FreeHandles) >= 2
       /\ \/ /\ AllocMayFail
             /\ obj' = Free(withCtx, kc)
             /\ UNCHANGED <<live, key, origin>>
          \/ /\ obj' = Free(Alloc(withCtx, pk, "pkey", "RSA"), kc)
             /\ live' = TRUE /\ key' = pk /\ origin' = "gen"
       /\ UNCHANGED <<pc, loc, saved>>

\* generateEcKey: the EC_KEY is freed by a scope guard; EVP_PKEY_new into
\* the new PrivateKey, then EVP_PKEY_set1_EC_KEY, whose failure throws and
\* lets ~Impl free the new EVP_PKEY once.
GenerateEcKey ==
    /\ ~live /\ pc = "idle" /\ FreeHandles # {}
    /\ \/ /\ AllocMayFail
          /\ obj' = Free(Alloc(obj, NewHandle, "pkey", "EC"), NewHandle)
          /\ UNCHANGED <<live, key, origin>>
       \/ /\ obj' = Alloc(obj, NewHandle, "pkey", "EC")
          /\ live' = TRUE /\ key' = NewHandle /\ origin' = "gen"
    /\ UNCHANGED <<pc, loc, saved>>

\* generateHmacKey: random bytes, then loadRaw(HMAC) on a new PrivateKey.
GenerateHmacKey ==
    /\ ~live /\ pc = "idle" /\ FreeHandles # {}
    /\ obj' = Alloc(obj, NewHandle, "pkey", "HMAC")
    /\ live' = TRUE /\ key' = NewHandle /\ origin' = "gen"
    /\ UNCHANGED <<pc, loc, saved>>

\* generatePrivateKey(SM2) -> generateSM2Key(keySize): a size other than 256
\* throws invalid_argument; EVP_PKEY_CTX_new_id failing throws with nothing
\* allocated; otherwise pctx is allocated.
Sm2Begin(keySize) ==
    /\ ~live /\ pc = "idle"
    /\ "SM2" \in GenAlgs /\ Cardinality(FreeHandles) >= Sm2Objects
    /\ keySize = 256
    /\ obj' = Alloc(obj, NewHandle, "ctx", None)
    /\ pc' = "sm2_params" /\ loc' = [NoLoc EXCEPT !.pctx = NewHandle]
    /\ UNCHANGED <<live, key, origin, saved>>

\* paramgen_init, set_ec_paramgen_curve_nid and paramgen, then
\* EVP_PKEY_CTX_new(params): a failure before paramgen frees pctx; a failure
\* of EVP_PKEY_CTX_new frees pctx and not params.  params is never freed.
Sm2Params ==
    /\ pc = "sm2_params"
    /\ LET pa   == NewHandle
           withParams == Alloc(obj, pa, "pkey", "SM2")
           kc   == CHOOSE h \in FreeHandles \ {pa} : TRUE
       IN \/ /\ AllocMayFail
             /\ obj' = Free(obj, loc.pctx)
             /\ pc' = "idle" /\ loc' = NoLoc
          \/ /\ AllocMayFail
             /\ obj' = Free(withParams, loc.pctx)
             /\ pc' = "idle" /\ loc' = NoLoc
          \/ /\ obj' = Alloc(withParams, kc, "ctx", None)
             /\ pc' = "sm2_keygen"
             /\ loc' = [loc EXCEPT !.params = pa, !.kctx = kc]
    /\ UNCHANGED <<live, key, origin, saved>>

\* Seeded fault: the keygen failure branch frees pctx only.
Sm2KeygenLeaksKctx ==
    /\ pc = "sm2_keygen"
    /\ \/ /\ AllocMayFail
          /\ obj' = Free(obj, loc.pctx)
          /\ pc' = "idle" /\ loc' = NoLoc
       \/ /\ obj' = Alloc(obj, NewHandle, "pkey", "SM2")
          /\ pc' = "sm2_inspect" /\ loc' = [loc EXCEPT !.pkey = NewHandle]
    /\ UNCHANGED <<live, key, origin, saved>>

\* keygen_init, make_unique<PrivateKey>, EVP_PKEY_keygen into its key: a
\* failure frees both contexts, and the empty PrivateKey frees NULL.
Sm2Keygen ==
    /\ pc = "sm2_keygen"
    /\ \/ /\ AllocMayFail
          /\ obj' = Free(Free(obj, loc.pctx), loc.kctx)
          /\ pc' = "idle" /\ loc' = NoLoc
       \/ /\ obj' = Alloc(obj, NewHandle, "pkey", "SM2")
          /\ pc' = "sm2_inspect" /\ loc' = [loc EXCEPT !.pkey = NewHandle]
    /\ UNCHANGED <<live, key, origin, saved>>

\* The key-pair dump: EVP_PKEY_get0_EC_KEY, BN_bn2hex, BN_CTX_new, ...
\* Every failure branch frees pctx, kctx and privateKey->m_impl->key and
\* throws; unwinding destroys privateKey, whose ~Impl frees the same key.
Sm2Inspect ==
    /\ pc = "sm2_inspect"
    /\ \/ /\ AllocMayFail
          /\ obj' = Free(Free(Free(Free(obj, loc.pctx), loc.kctx), loc.pkey), loc.pkey)
          /\ pc' = "idle" /\ loc' = NoLoc
       \/ /\ pc' = "sm2_alias" /\ UNCHANGED <<obj, loc>>
    /\ UNCHANGED <<live, key, origin, saved>>

\* Seeded fault of the last step: freeing the returned key with the
\* contexts, as the error branches do.
Sm2AliasFreesKey ==
    /\ pc = "sm2_alias"
    /\ obj' = Free(Free(Free(SetAliasSm2(obj, loc.pkey), loc.pctx), loc.kctx), loc.pkey)
    /\ live' = TRUE /\ key' = loc.pkey /\ origin' = "gen"
    /\ pc' = "idle" /\ loc' = NoLoc
    /\ UNCHANGED saved

\* EVP_PKEY_set_alias_type(key, EVP_PKEY_SM2) (it accepts the EC key
\* keygen made), free both contexts, return the PrivateKey to the caller.
Sm2Alias ==
    /\ pc = "sm2_alias"
    /\ obj' = Free(Free(SetAliasSm2(obj, loc.pkey), loc.pctx), loc.kctx)
    /\ live' = TRUE /\ key' = loc.pkey /\ origin' = "gen"
    /\ pc' = "idle" /\ loc' = NoLoc
    /\ UNCHANGED saved

\* generatePrivateKey(keyParams): dispatch on the key type; SM2 key
\* parameters default to 256 bits.
Generate(t) ==
    CASE t = "RSA"  -> GenerateRsaKey
      [] t = "EC"   -> GenerateEcKey
      [] t = "HMAC" -> GenerateHmacKey
      [] t = "SM2"  -> Sm2Begin(256)

-----------------------------------------------------------------------------
Next ==
    \/ Construct \/ Destroy
    \/ \E b \in Blobs : LoadPkcs1(b) \/ LoadRaw("HMAC", b)
                        \/ \E pwOk \in BOOLEAN : LoadPkcs8(b, pwOk)
    \/ SavePkcs1 \/ SavePkcs8
    \/ \E kt \in {"RSA", "SM2"}, ctxOk \in IF AllocMayFail THEN BOOLEAN ELSE {TRUE} :
          Decrypt(kt, ctxOk)
    \/ \E t \in GenAlgs : Generate(t)
    \/ Sm2Params \/ Sm2Keygen \/ Sm2Inspect \/ Sm2Alias

Spec == Init /\ [][Next]_vars

-----------------------------------------------------------------------------
(***************************************************************************)
(* Properties.                                                             *)
(***************************************************************************)

Handle == Handles \cup {None}

\* Every object has a kind and a free count of at most two; a PrivateKey
\* that the caller does not hold has no key, and generateSM2Key's locals
\* are empty between calls.
TypeOK ==
    /\ obj \in [Handles -> [what : Kinds, alg : Algs \cup {None},
                            id : EvpIds \cup {None}, frees : 0..2]]
    /\ live \in BOOLEAN /\ key \in Handle /\ origin \in {"gen", "load", None}
    /\ pc \in Steps /\ saved \in Blob \cup {None}
    /\ loc \in [pctx : Handle, params : Handle, kctx : Handle, pkey : Handle]
    /\ ~live => key = None
    /\ (pc = "idle") = (loc = NoLoc)

\* The key held reports the algorithm of its material, or for SM2 key
\* material the base type EC: a loaded SM2 key (OpenSSL decodes it as
\* EVP_PKEY_EC), and any SM2 key when getEvpPkeyType reports base types.
\* A generated SM2 key reports SM2 when the alias is visible.
KeyTypeFits ==
    (live /\ key # None) =>
        \/ GetKeyType(key) = obj[key].alg
        \/ /\ obj[key].alg = "SM2" /\ GetKeyType(key) = "EC"
           /\ origin = "load" \/ ~AliasVisible

\* getKeyType stays sound for as long as the key is held: decrypt, a const
\* member function, does not change what getKeyType reports.
ReportedTypeSound == KeyTypeFits

\* The EVP_PKEY a live PrivateKey holds has never been freed: no path of
\* the loaders or generators hands out a key it also frees.
KeyNotFreedWhileHeld ==
    (live /\ key # None) => obj[key].frees = 0

\* Between calls, every EVP_PKEY_CTX ever allocated has been freed exactly
\* once: by the EvpPkeyCtx wrappers of generateRsaKey, rsaDecrypt and
\* sm2Decrypt, and by the hand-written EVP_PKEY_CTX_free calls on every
\* error branch and on the success path of generateSM2Key.
ContextsFreedOnce ==
    pc = "idle" => \A h \in Handles : obj[h].what = "ctx" => obj[h].frees = 1

\* No OpenSSL object is freed twice: the SM2 generation error paths free
\* m_impl->key by hand and then throw past the PrivateKey that owns it.
NoDoubleFree ==
    \A h \in Handles : obj[h].frees <= 1

\* Between calls, every object allocated has been freed, except the key a
\* live PrivateKey holds: generateSM2Key's params object is never freed.
NoLeak ==
    pc = "idle" =>
        \A h \in Handles :
            obj[h].what # "none" => obj[h].frees > 0 \/ (live /\ h = key)
=============================================================================
