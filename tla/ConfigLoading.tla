--------------------------- MODULE ConfigLoading ----------------------------
(***************************************************************************)
(* shim-core/config and config-shim.  A configuration is made of defaults, *)
(* a file and environment variables; validate() looks for values it cannot *)
(* accept.  ConfigShim polls the file it watches and can reload it:        *)
(* validate, back up, note its hash, signal the child.                     *)
(***************************************************************************)
EXTENDS Naturals, Sequences, SequencesExt, FiniteSets

CONSTANTS
  Setting,      \* settings with a variable of their own
  Numeric,      \* those whose variable is parsed
  Unread,       \* those from_env() does not read, though merge() asks for them
  TenantId,
  MaxConfigEdits   \* bound: edits of the file of ConfigShim

ASSUME SettingAssumption ==
  Numeric \subseteq Setting /\ Unread \subseteq Setting /\ "tenants" \notin Setting

(* A value: 0 is refused by validate(), Dflt is the default. *)
Dflt == 1
Value == {0, Dflt, 2}
Unset == 10      \* of a variable
Garbage == 11    \* a variable that does not parse

VARIABLES
  env,             \* setting -> Value, Unset or Garbage
  envTenant,       \* SHIM_TENANT_ID: <<>> or one tenant
  configFile,      \* setting -> Value, or the empty function: no file
  fileTenants,     \* ids of the tenants in the file
  loaded,          \* what load() returned, as long as its inputs are unchanged
  loadedTenants,   \* [id, from]
  watchedFile, last_hash, watchHash, backupCopy,   \* ConfigShim: versions
  signalled,       \* the version the child was last signalled for
  reloads          \* reloads_total

loadVars == <<env, envTenant, configFile, fileTenants, loaded, loadedTenants>>
configShimVars == <<watchedFile, last_hash, watchHash, backupCopy, signalled, reloads>>
configVars == <<loadVars, configShimVars>>

NoConfigFile == [s \in {} |-> 0]

ConfigInit ==
  /\ env = [s \in Setting |-> Unset] /\ envTenant = <<>>
  /\ configFile = NoConfigFile /\ fileTenants = <<>> /\ loaded = NoConfigFile /\ loadedTenants = <<>>
  /\ watchedFile = 1 /\ last_hash = 1 /\ watchHash = 1 /\ backupCopy = 0
  /\ signalled = 0 /\ reloads = 0

SetEnv(s) ==
  /\ \E v \in Value \cup {Unset, Garbage} :
       (v = Garbage => s \in Numeric) /\ env' = [env EXCEPT ![s] = v]
  /\ loaded' = NoConfigFile /\ loadedTenants' = <<>>
  /\ UNCHANGED <<envTenant, configFile, fileTenants, configShimVars>>

SetEnvTenant ==
  /\ envTenant' \in {<<>>} \cup {<<t>> : t \in TenantId} /\ loaded' = NoConfigFile /\ loadedTenants' = <<>>
  /\ UNCHANGED <<env, configFile, fileTenants, configShimVars>>

(* A file that does not parse counts as no file; what it leaves out has    *)
(* the default.                                                            *)
WriteConfigFile ==
  /\ configFile' \in {NoConfigFile} \cup [Setting -> Value]
  /\ fileTenants' \in IF configFile' = NoConfigFile THEN {<<>>}
                      ELSE {<<>>} \cup [1..2 -> TenantId]
  /\ loaded' = NoConfigFile /\ loadedTenants' = <<>>
  /\ UNCHANGED <<env, envTenant, configShimVars>>

-----------------------------------------------------------------------------
from_env ==
  [s \in Setting |-> IF s \in Unread \/ env[s] \in {Unset, Garbage} THEN Dflt ELSE env[s]]

(* Overrides whatever has its variable set, to whatever value. *)
merge(base, other) == [s \in Setting |-> IF env[s] # Unset THEN other[s] ELSE base[s]]

(* The tenant of the environment replaces those with its id. *)
merge_tenants(base, other) ==
  IF envTenant = <<>> THEN base
  ELSE FlattenSeq([i \in DOMAIN base |->
                     IF base[i].id = other[1].id THEN <<>> ELSE <<base[i]>>]) \o other

Load ==
  /\ loaded' = IF configFile = NoConfigFile THEN from_env ELSE merge(configFile, from_env)
  /\ loadedTenants' =
       merge_tenants([i \in DOMAIN fileTenants |-> [id |-> fileTenants[i], from |-> "file"]],
                     [i \in DOMAIN envTenant |-> [id |-> envTenant[i], from |-> "env"]])
  /\ UNCHANGED <<env, envTenant, configFile, fileTenants, configShimVars>>

(* The fields validate() complains about. *)
validate(config, tenants) ==
  {s \in DOMAIN config : config[s] = 0}
    \cup {"tenants" : i \in {j \in DOMAIN tenants :
                              \E k \in 1..(j - 1) : tenants[k].id = tenants[j].id}}

-----------------------------------------------------------------------------
EditWatchedFile ==
  /\ watchedFile < MaxConfigEdits /\ watchedFile' = watchedFile + 1
  /\ UNCHANGED <<loadVars, last_hash, watchHash, backupCopy, signalled, reloads>>

(* The polling loop notes a change and does nothing about it. *)
WatchLoop ==
  /\ watchHash' = watchedFile
  /\ UNCHANGED <<loadVars, watchedFile, last_hash, backupCopy, signalled, reloads>>

ReloadRefused == UNCHANGED <<last_hash, backupCopy, signalled, reloads>>

(* The copy is made of the file as it is, not as it was; the hash is noted *)
(* before the child is signalled, so a failed signal is not tried again.   *)
ReloadConfig ==
  /\ IF watchedFile = last_hash THEN ReloadRefused
     ELSE \/ ReloadRefused                         \* the validation command fails
          \/ /\ backupCopy' = watchedFile /\ last_hash' = watchedFile
             /\ \/ signalled' = watchedFile /\ reloads' = reloads + 1
                \/ UNCHANGED <<signalled, reloads>>   \* kill() fails
          \/ /\ backupCopy' = watchedFile /\ last_hash' = watchedFile
             /\ reloads' = reloads + 1 /\ UNCHANGED signalled   \* no child known
  /\ UNCHANGED <<loadVars, watchedFile, watchHash>>

ConfigLoadNext ==
  SetEnvTenant \/ WriteConfigFile \/ Load \/ \E s \in Setting : SetEnv(s)
ConfigShimNext == EditWatchedFile \/ WatchLoop \/ ReloadConfig

-----------------------------------------------------------------------------
(* Environment over file over default (Config::load), even for a variable  *)
(* set to the default: for the variables from_env() reads and can parse.   *)
(* Loading makes no tenant a duplicate, and the environment's is among     *)
(* them.                                                                   *)
EnvironmentWins ==
  loaded # NoConfigFile =>
    /\ \A s \in Setting \ Unread :
         loaded[s] = IF env[s] \in Value THEN env[s]
                     ELSE IF env[s] = Unset /\ configFile # NoConfigFile THEN configFile[s]
                     ELSE Dflt
    /\ (IsInjective(fileTenants) => "tenants" \notin validate(loaded, loadedTenants))
    /\ \A i \in DOMAIN envTenant :
         \E j \in DOMAIN loadedTenants : loadedTenants[j] = [id |-> envTenant[i], from |-> "env"]
=============================================================================
