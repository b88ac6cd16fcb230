-------------------------------- MODULE Auth --------------------------------
(***************************************************************************)
(* auth-shim: bearer tokens and API keys, both kept as a keyed hash, and   *)
(* the lockout of users who fail to log in.  Everything is in memory: a    *)
(* restart forgets it, and hashes under another key unless AUTH_HMAC_KEY   *)
(* is set.  A guess at a secret is taken never to be right.                *)
(***************************************************************************)
EXTENDS Naturals

CONSTANTS
  User, TokenId, ApiKeyId,
  MaxFailedLogins, LockoutSecs, TokenExpiry,
  MaxAuthTime, MaxAuthRestarts        \* bounds

(* Tokens and API keys are drawn and looked up apart: none is the other. *)
ASSUME AuthAssumption ==
  /\ TokenId \cap ApiKeyId = {}
  /\ {MaxFailedLogins, LockoutSecs, TokenExpiry} \subseteq Nat

Roles == {"Admin", "ReadWrite", "ReadOnly", "Denied"}

VARIABLES
  authNow, hmac_key,
  tokens,            \* id -> [role, expires_at], the tokens stored
  issuedTokens,      \* ids used so far: a UUID is drawn once
  api_keys,          \* id -> [role, revoked, hashedWith]
  failed_attempts,   \* user -> count
  locked_users,      \* user -> the time of the lock
  authResult,        \* credential and role of the last AuthResult
  withdrawn          \* history: credentials revoked, expired or forgotten

authVars == <<authNow, hmac_key, tokens, issuedTokens, api_keys,
              failed_attempts, locked_users, authResult, withdrawn>>
storeVars == <<tokens, issuedTokens, api_keys, withdrawn>>
lockoutVars == <<failed_attempts, locked_users>>

Refused == [authenticated |-> FALSE]
Accepted(c, r) == [authenticated |-> TRUE, credential |-> c, role |-> r]
Without(f, k) == [x \in DOMAIN f \ {k} |-> f[x]]
With(f, k, v) == [x \in DOMAIN f \cup {k} |-> IF x = k THEN v ELSE f[x]]
Nothing == [x \in {} |-> 0]

AuthInit ==
  /\ authNow = 0 /\ hmac_key = 0
  /\ tokens = Nothing /\ issuedTokens = {} /\ api_keys = Nothing
  /\ failed_attempts = Nothing /\ locked_users = Nothing
  /\ authResult = Refused /\ withdrawn = {}

CreateToken(id, r) ==
  /\ id \notin issuedTokens /\ issuedTokens' = issuedTokens \cup {id}
  /\ tokens' = With(tokens, id, [role |-> r, expires_at |-> authNow + TokenExpiry])
  /\ UNCHANGED <<authNow, hmac_key, api_keys, lockoutVars, authResult, withdrawn>>

(* The expiry instant itself is still accepted. *)
ValidateToken(id) ==
  /\ id \in issuedTokens
  /\ authResult' =
       IF \/ id \notin DOMAIN tokens
          \/ authNow > tokens[id].expires_at
          \/ tokens[id].role = "Denied"
       THEN Refused ELSE Accepted(id, tokens[id].role)
  /\ UNCHANGED <<authNow, hmac_key, storeVars, lockoutVars>>

RevokeToken(id) ==
  /\ id \in DOMAIN tokens
  /\ tokens' = Without(tokens, id) /\ withdrawn' = withdrawn \cup {id}
  /\ UNCHANGED <<authNow, hmac_key, issuedTokens, api_keys, lockoutVars, authResult>>

(* An id registered again starts anew, not revoked; the hash may have been *)
(* made before a restart.                                                  *)
RegisterApiKey(id, r) ==
  /\ \E h \in 0..hmac_key :
       api_keys' = With(api_keys, id, [role |-> r, revoked |-> FALSE, hashedWith |-> h])
  /\ withdrawn' = withdrawn \ {id}
  /\ UNCHANGED <<authNow, hmac_key, tokens, issuedTokens, lockoutVars, authResult>>

ValidateRevokedToo(id) ==
  /\ authResult' =
       IF id \notin DOMAIN api_keys \/ api_keys[id].hashedWith # hmac_key
       THEN Refused ELSE Accepted(id, api_keys[id].role)
  /\ UNCHANGED <<authNow, hmac_key, storeVars, lockoutVars>>

(* A key does not expire, and the role Denied does not refuse it. *)
ValidateApiKey(id) ==
  /\ authResult' =
       IF \/ id \notin DOMAIN api_keys
          \/ api_keys[id].revoked
          \/ api_keys[id].hashedWith # hmac_key
       THEN Refused ELSE Accepted(id, api_keys[id].role)
  /\ UNCHANGED <<authNow, hmac_key, storeVars, lockoutVars>>

RevokeApiKey(id) ==
  /\ id \in DOMAIN api_keys
  /\ api_keys' = [api_keys EXCEPT ![id].revoked = TRUE]
  /\ withdrawn' = withdrawn \cup {id}
  /\ UNCHANGED <<authNow, hmac_key, tokens, issuedTokens, lockoutVars, authResult>>

(* The count outlives the lock: after it, one more failure locks again. *)
RecordFailedLogin(u) ==
  LET attempts == (IF u \in DOMAIN failed_attempts THEN failed_attempts[u] ELSE 0) + 1
  IN  /\ attempts <= MaxFailedLogins + 1
      /\ failed_attempts' = With(failed_attempts, u, attempts)
      /\ locked_users' = IF attempts >= MaxFailedLogins
                         THEN With(locked_users, u, authNow) ELSE locked_users
      /\ UNCHANGED <<authNow, hmac_key, storeVars, authResult>>

IsLockedOut(u) ==
  u \in DOMAIN locked_users /\ authNow - locked_users[u] < LockoutSecs

ClearFailedAttempts(u) ==
  /\ failed_attempts' = Without(failed_attempts, u)
  /\ locked_users' = Without(locked_users, u)
  /\ UNCHANGED <<authNow, hmac_key, storeVars, authResult>>

check_permission(role, required) ==
  \/ role = "Admin"
  \/ role = "ReadWrite" /\ required \in {"ReadWrite", "ReadOnly"}
  \/ role = "ReadOnly" /\ required = "ReadOnly"

(* The hash key is a new one unless it is configured. *)
AuthRestart ==
  /\ hmac_key < MaxAuthRestarts /\ hmac_key' \in {hmac_key, hmac_key + 1}
  /\ tokens' = Nothing /\ api_keys' = Nothing
  /\ withdrawn' = withdrawn \cup DOMAIN tokens \cup DOMAIN api_keys
  /\ failed_attempts' = Nothing /\ locked_users' = Nothing
  /\ UNCHANGED <<authNow, issuedTokens, authResult>>

AuthTick ==
  /\ authNow < MaxAuthTime /\ authNow' = authNow + 1
  /\ withdrawn' = withdrawn \cup
       {id \in DOMAIN tokens : authNow' > tokens[id].expires_at}
  /\ UNCHANGED <<hmac_key, tokens, issuedTokens, api_keys, lockoutVars, authResult>>

AuthNext ==
  \/ \E id \in TokenId :
       (\E r \in Roles : CreateToken(id, r)) \/ ValidateToken(id) \/ RevokeToken(id)
  \/ \E id \in ApiKeyId :
       (\E r \in Roles : RegisterApiKey(id, r)) \/ ValidateApiKey(id) \/ RevokeApiKey(id)
  \/ \E u \in User : RecordFailedLogin(u) \/ ClearFailedAttempts(u)
  \/ AuthRestart \/ AuthTick

-----------------------------------------------------------------------------
(* A user is locked out only with that many failures on record, whatever   *)
(* was cleared and restarted; who is let in by a token may at least read,  *)
(* and a Denied API key, which is let in, may do nothing (is_locked_out,   *)
(* record_failed_login, check_permission).                                 *)
LockoutIsEarned ==
  /\ \A u \in User : IsLockedOut(u) =>
       u \in DOMAIN failed_attempts /\ failed_attempts[u] >= MaxFailedLogins
  /\ authResult.authenticated =>
       IF authResult.credential \in TokenId
       THEN check_permission(authResult.role, "ReadOnly")
       ELSE authResult.role = "Denied" =>
              ~\E required \in Roles : check_permission(authResult.role, required)

(* Whatever was revoked, has expired or was forgotten by a restart never   *)
(* authenticates again, unless its API key is registered anew              *)
(* (validate_token, validate_api_key).                                     *)
WithdrawnStayOut ==
  [][authResult' # authResult /\ authResult'.authenticated =>
       authResult'.credential \notin withdrawn']_authVars
=============================================================================
