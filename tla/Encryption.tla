----------------------------- MODULE Encryption -----------------------------
(***************************************************************************)
(* encryption-shim: encrypt() seals data with the active key and binds it  *)
(* to additional authenticated data, rotate_key() activates another key    *)
(* and keeps the old ones, a restart loads the keys of the environment.    *)
(* An authenticated cipher opens a payload only with the key material and  *)
(* the additional data it was sealed with.                                 *)
(***************************************************************************)
EXTENDS Naturals, Sequences

CONSTANTS
  KeyId,           \* ids given to keys
  Prefix,          \* ENCRYPTION_AAD
  MaxMaterial      \* bound: key materials in a behaviour

ASSUME EncryptionAssumption == MaxMaterial \in Nat \ {0} /\ Prefix \notin KeyId

VARIABLES
  aad_prefix,      \* <<Prefix>>, or the empty sequence
  keys,            \* key id -> material
  active_key_id,
  materials,       \* materials made so far; a new one is unlike the others
  payloads,        \* what encrypt() returned
  madeUp           \* history: the shim has made up a key of its own

encryptionVars ==
  <<aad_prefix, keys, active_key_id, materials, payloads, madeUp>>

EncryptionInit ==
  /\ aad_prefix \in {<<>>, <<Prefix>>}
  /\ \E id \in KeyId : active_key_id = id /\ keys = [x \in {id} |-> 1]
  /\ materials = 1
  /\ payloads = {} /\ madeUp = FALSE

(* The payload carries the additional data only when a prefix is set. *)
Encrypt ==
  LET aad == aad_prefix \o <<active_key_id>>
  IN  /\ payloads' = payloads \cup
           {[key_id |-> active_key_id, material |-> keys[active_key_id],
             sealed |-> aad, aad |-> IF aad_prefix = <<>> THEN <<>> ELSE aad]}
      /\ UNCHANGED <<aad_prefix, keys, active_key_id, materials, madeUp>>

(* decrypt() looks the key up by the payload's id and appends that id to   *)
(* the payload's additional data.                                          *)
Decrypts(p) ==
  /\ p.key_id \in DOMAIN keys
  /\ keys[p.key_id] = p.material
  /\ p.aad \o <<p.key_id>> = p.sealed

RotateDropsOld(id) ==
  /\ materials < MaxMaterial /\ materials' = materials + 1
  /\ active_key_id' = id
  /\ keys' = [x \in {id} |-> materials']
  /\ UNCHANGED <<aad_prefix, payloads, madeUp>>

(* The new key takes the place of a key with the same id. *)
RotateKey(id) ==
  /\ materials < MaxMaterial /\ materials' = materials + 1
  /\ active_key_id' = id
  /\ keys' = [x \in DOMAIN keys \cup {id} |->
                IF x = id THEN materials' ELSE keys[x]]
  /\ UNCHANGED <<aad_prefix, payloads, madeUp>>

(* The environment names the primary key and passes on the previous ones;  *)
(* a previous key with the primary's id is loaded over it.                 *)
EncryptionRestart ==
  /\ \E primary \in DOMAIN keys : active_key_id' = primary
  /\ UNCHANGED <<aad_prefix, keys, materials, payloads, madeUp>>

(* Without ENCRYPTION_KEY the shim makes up a key: the old ones are gone. *)
RestartInDevMode ==
  /\ materials < MaxMaterial /\ materials' = materials + 1
  /\ \E id \in KeyId : active_key_id' = id /\ keys' = [x \in {id} |-> materials']
  /\ madeUp' = TRUE
  /\ UNCHANGED <<aad_prefix, payloads>>

EncryptionNext ==
  \/ Encrypt \/ EncryptionRestart \/ RestartInDevMode
  \/ \E id \in KeyId : RotateKey(id)

-----------------------------------------------------------------------------
(* Rotations and restarts lose nothing: without ENCRYPTION_AAD, and as     *)
(* long as the shim has not made up a key, a payload is unreadable only    *)
(* when its key's id has been given to a newer key (rotate_key keeps the   *)
(* old keys, decrypt finds them by id).                                    *)
PayloadsStayReadable ==
  aad_prefix = <<>> /\ ~madeUp =>
    \A p \in payloads :
      \/ Decrypts(p)
      \/ (p.key_id \in DOMAIN keys /\ keys[p.key_id] > p.material)

(* decrypt() opens what encrypt() sealed as long as the key it names is    *)
(* known and unchanged, with additional authenticated data or without.     *)
KnownKeysDecrypt ==
  \A p \in payloads :
    p.key_id \in DOMAIN keys /\ keys[p.key_id] = p.material => Decrypts(p)
=============================================================================
