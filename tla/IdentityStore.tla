---------------------------- MODULE IdentityStore ----------------------------
(***************************************************************************)
(* What the KeyChain promises its callers (spec.md sections 3 and 4.6):    *)
(* an identity store whose operations are atomic.  Every key it lists has *)
(* its private key, so a key is given here by its key material.  Every    *)
(* certificate names a listed key and carries that key's public key.      *)
(* Default pointers always point at an existing child, and removing the   *)
(* defaulted child leaves no default.                                     *)
(*                                                                         *)
(* KeyChain.tla refines this module.  Its multi-step calls map to one of  *)
(* these steps, or to stuttering steps, at the write that makes the change *)
(* visible.                                                                *)
(***************************************************************************)
EXTENDS FiniteSets

CONSTANTS
    Ids,        \* identity names
    KeyIds,     \* key ids within an identity
    Material,   \* key material (a private key and its public half)
    Certs,      \* well-formed certificates: records with a key and a pub field
    None

KeyName == Ids \X KeyIds

VARIABLES
    ids,      \* the identities
    defId,    \* the default identity, or None
    keys,     \* keys[k]: the material of key k, or None
    defKey,   \* defKey[id]: the default key of identity id, or None
    certs,    \* the certificates
    defCert   \* defCert[k]: the default certificate of key k, or None

avars == <<ids, defId, keys, defKey, certs, defCert>>

Init ==
    /\ ids = {} /\ defId = None
    /\ keys = [k \in KeyName |-> None] /\ defKey = [i \in Ids |-> None]
    /\ certs = {} /\ defCert = [k \in KeyName |-> None]

\* The first child added becomes the default.
FirstDefault(old, new) == IF old = None THEN new ELSE old

AddIdentity(id) ==
    /\ ids' = ids \cup {id} /\ defId' = FirstDefault(defId, id)
    /\ UNCHANGED <<keys, defKey, certs, defCert>>

\* A new key, under a name no listed key has, optionally with a first
\* certificate; its identity is added if needed.
AddKey(k, m, c) ==
    /\ keys[k] = None /\ m \in Material
    /\ c # None => c \in Certs /\ c.key = k /\ c.pub = m
    /\ ids' = ids \cup {k[1]} /\ defId' = FirstDefault(defId, k[1])
    /\ keys' = [keys EXCEPT ![k] = m]
    /\ defKey' = [defKey EXCEPT ![k[1]] = FirstDefault(@, k)]
    /\ certs' = IF c = None THEN certs ELSE certs \cup {c}
    /\ defCert' = IF c = None THEN defCert ELSE [defCert EXCEPT ![k] = c]

\* A certificate of a listed key, made the default if asked or if the key
\* has none.
AddCert(c, makeDefault) ==
    /\ c \in Certs /\ keys[c.key] # None /\ c.pub = keys[c.key]
    /\ certs' = certs \cup {c}
    /\ defCert' = [defCert EXCEPT ![c.key] = IF makeDefault THEN c ELSE FirstDefault(@, c)]
    /\ UNCHANGED <<ids, defId, keys, defKey>>

RemoveCert(c) ==
    /\ c \in certs
    /\ certs' = certs \ {c}
    /\ defCert' = [defCert EXCEPT ![c.key] = IF @ = c THEN None ELSE @]
    /\ UNCHANGED <<ids, defId, keys, defKey>>

SetDefaultIdentity(id) ==
    /\ id \in ids /\ defId' = id
    /\ UNCHANGED <<ids, keys, defKey, certs, defCert>>

SetDefaultKey(k) ==
    /\ keys[k] # None /\ defKey' = [defKey EXCEPT ![k[1]] = k]
    /\ UNCHANGED <<ids, defId, keys, certs, defCert>>

\* A key goes with its certificates and its default pointers.
RemoveKey(k) ==
    /\ keys[k] # None
    /\ keys' = [keys EXCEPT ![k] = None]
    /\ defKey' = [defKey EXCEPT ![k[1]] = IF @ = k THEN None ELSE @]
    /\ certs' = {c \in certs : c.key # k}
    /\ defCert' = [defCert EXCEPT ![k] = None]
    /\ UNCHANGED <<ids, defId>>

\* An identity goes with everything under it.
RemoveIdentity(id) ==
    /\ id \in ids
    /\ ids' = ids \ {id}
    /\ defId' = IF defId = id THEN None ELSE defId
    /\ keys' = [k \in KeyName |-> IF k[1] = id THEN None ELSE keys[k]]
    /\ defKey' = [defKey EXCEPT ![id] = None]
    /\ certs' = {c \in certs : c.key[1] # id}
    /\ defCert' = [k \in KeyName |-> IF k[1] = id THEN None ELSE defCert[k]]

\* The store is emptied (a PIB reset).
Reset ==
    /\ Init'

\* The material and certificate a step adds are read from the state it
\* produces, so that checking a refinement does not enumerate Material and
\* Certs on every step.
Next ==
    \/ \E id \in Ids : AddIdentity(id) \/ SetDefaultIdentity(id) \/ RemoveIdentity(id)
    \/ \E k \in KeyName, c \in (certs' \ certs) \cup {None} : AddKey(k, keys'[k], c)
    \/ \E c \in certs', d \in BOOLEAN : AddCert(c, d)
    \/ \E c \in certs : RemoveCert(c)
    \/ \E k \in KeyName : SetDefaultKey(k) \/ RemoveKey(k)
    \/ Reset

Spec == Init /\ [][Next]_avars
=============================================================================
