------------------------------ MODULE Tenants -------------------------------
(***************************************************************************)
(* shim-core/tenant: quotas on memory, CPU and request rate.  The rate is  *)
(* kept by a token bucket that refills with time and is filled up whenever *)
(* a reset period has passed.  A tick is the time one token takes.  The    *)
(* CPU time tracker has no budget anywhere in the code and is left out.    *)
(***************************************************************************)
EXTENDS Naturals, Sequences

CONSTANTS
  TenantName, Unregistered,   \* a name no configuration is given to
  MaxRps,                     \* max_requests_per_sec, and ticks in a second
  ResetPeriod,                \* reset_period_secs
  MaxTenantAudit,             \* max_audit_entries
  MaxTenantTime               \* bound

ASSUME TenantAssumption ==
  MaxRps \in Nat \ {0} /\ ResetPeriod \in Nat /\ MaxTenantAudit \in Nat \ {0}

NoTenantEntry == [x \in {} |-> 0]
NoBucket == [tokens |-> 0, last_refill |-> 0, present |-> FALSE]

VARIABLES
  tenantNow, global_enabled,
  configs,        \* tenant -> [memory, rated]: has a memory limit, a rate limit
  usage,          \* tenant -> [memory_high, cpu_high, last_reset, bucket]
  quotaResult,    \* of the last check
  tenant_audit,   \* sequence of <<tenant, action, allowed>>
  granted,        \* history, by tenant: requests allowed since its bucket was full
  filledAt        \* history, by tenant: when that was

tenantVars == <<tenantNow, global_enabled, configs, usage, quotaResult, tenant_audit,
                granted, filledAt>>

Usage0 == [memory_high |-> FALSE, cpu_high |-> FALSE, last_reset |-> tenantNow,
           bucket |-> NoBucket]
FullBucket == [tokens |-> MaxRps, last_refill |-> tenantNow, present |-> TRUE]
UsageOf(t) == IF t \in DOMAIN usage THEN usage[t] ELSE Usage0
SetAt(f, t, v) == [x \in DOMAIN f \cup {t} |-> IF x = t THEN v ELSE f[x]]
DropAt(f, t) == [x \in DOMAIN f \ {t} |-> f[x]]

TenantInit ==
  /\ tenantNow = 0 /\ global_enabled = FALSE
  /\ configs = NoTenantEntry /\ usage = NoTenantEntry
  /\ quotaResult = "Allowed" /\ tenant_audit = <<>>
  /\ granted = [t \in TenantName |-> 0] /\ filledAt = [t \in TenantName |-> 0]

Filled(t) == granted' = [granted EXCEPT ![t] = 0] /\ filledAt' = [filledAt EXCEPT ![t] = tenantNow]

(* The oldest entry makes room for the new one. *)
RecordAuditEntry(entry) ==
  tenant_audit' = Append(IF Len(tenant_audit) >= MaxTenantAudit
                         THEN Tail(tenant_audit) ELSE tenant_audit, entry)

(* A rate limit gives a full bucket; without one, an old bucket stays. *)
RegisterTenant(t, config) ==
  /\ configs' = SetAt(configs, t, config) /\ global_enabled' = TRUE
  /\ IF config.rated
     THEN /\ usage' = SetAt(usage, t, [UsageOf(t) EXCEPT !.bucket = FullBucket])
          /\ Filled(t)
     ELSE UNCHANGED <<usage, granted, filledAt>>
  /\ RecordAuditEntry(<<t, "register", TRUE>>)
  /\ UNCHANGED <<tenantNow, quotaResult>>

RemoveTenant(t) ==
  /\ usage' = DropAt(usage, t) /\ configs' = DropAt(configs, t)
  /\ IF t \in DOMAIN configs THEN RecordAuditEntry(<<t, "remove", TRUE>>)
     ELSE UNCHANGED tenant_audit
  /\ UNCHANGED <<tenantNow, global_enabled, quotaResult, granted, filledAt>>

RecordMemoryOrCpu(t) ==
  /\ \E m, c \in BOOLEAN :
       usage' = SetAt(usage, t, [UsageOf(t) EXCEPT !.memory_high = m, !.cpu_high = c])
  /\ UNCHANGED <<tenantNow, global_enabled, configs, quotaResult, tenant_audit, granted, filledAt>>

refill_twice(b) ==
  [b EXCEPT !.tokens = IF @ + tenantNow - b.last_refill > MaxRps THEN MaxRps
                       ELSE @ + tenantNow - b.last_refill]

refill(b) ==
  [b EXCEPT !.tokens = IF @ + tenantNow - b.last_refill > MaxRps THEN MaxRps
                       ELSE @ + tenantNow - b.last_refill,
            !.last_refill = tenantNow]

(* The usage as the check finds it: a missing bucket is made, and a bucket *)
(* is filled up when the reset period has passed.                          *)
PeriodOver(u) == tenantNow - u.last_reset >= ResetPeriod * MaxRps
Prepared(t) ==
  LET u == UsageOf(t)
      b == IF configs[t].rated /\ ~u.bucket.present THEN FullBucket ELSE u.bucket
  IN  IF PeriodOver(u)
      THEN [u EXCEPT !.last_reset = tenantNow,
                     !.bucket = IF b.present THEN FullBucket ELSE b]
      ELSE [u EXCEPT !.bucket = b]
FilledUp(t) ==
  \/ PeriodOver(UsageOf(t)) /\ Prepared(t).bucket.present
  \/ configs[t].rated /\ ~UsageOf(t).bucket.present

(* Memory first, then CPU, then a token.  There is a bucket whenever there *)
(* is a rate limit, so the request counter is never looked at.             *)
CheckQuotaHardened(t) ==
  LET u == Prepared(t)
      b == refill(u.bucket)
      counted == IF FilledUp(t) THEN 0 ELSE granted[t]
      Outcome(result, after) ==
        /\ quotaResult' = result /\ usage' = SetAt(usage, t, after)
        /\ RecordAuditEntry(<<t, "quota_check", result = "Allowed">>)
        /\ granted' = [granted EXCEPT ![t] =
                         counted + (IF result = "Allowed" /\ u.bucket.present THEN 1 ELSE 0)]
        /\ filledAt' = IF FilledUp(t) THEN [filledAt EXCEPT ![t] = tenantNow] ELSE filledAt
  IN  /\ t \in DOMAIN configs
      /\ \/ configs[t].memory /\ u.memory_high /\ Outcome("MemoryExceeded", u)
         \/ /\ ~(configs[t].memory /\ u.memory_high)
            /\ \/ u.cpu_high /\ Outcome("CpuExceeded", u)
               \/ ~u.cpu_high /\ ~u.bucket.present /\ Outcome("Allowed", u)
               \/ /\ ~u.cpu_high /\ u.bucket.present
                  /\ IF b.tokens >= 1
                     THEN Outcome("Allowed", [u EXCEPT !.bucket = [b EXCEPT !.tokens = @ - 1]])
                     ELSE Outcome("RateLimited", [u EXCEPT !.bucket = b])
      /\ UNCHANGED <<tenantNow, global_enabled, configs>>

(* A tenant nobody has registered is not limited. *)
CheckQuotaUnknown(t) ==
  /\ t \notin DOMAIN configs /\ quotaResult' = "Allowed"
  /\ UNCHANGED <<tenantNow, global_enabled, configs, usage, tenant_audit, granted, filledAt>>

CheckAndReset(t) ==
  /\ t \in DOMAIN usage /\ PeriodOver(usage[t])
  /\ usage' = [usage EXCEPT ![t].last_reset = tenantNow,
                            ![t].bucket = IF @.present THEN FullBucket ELSE @]
  /\ IF usage[t].bucket.present THEN Filled(t) ELSE UNCHANGED <<granted, filledAt>>
  /\ UNCHANGED <<tenantNow, global_enabled, configs, quotaResult, tenant_audit>>

TenantTick ==
  /\ tenantNow < MaxTenantTime /\ tenantNow' = tenantNow + 1
  /\ UNCHANGED <<global_enabled, configs, usage, quotaResult, tenant_audit, granted, filledAt>>

TenantNext ==
  \/ TenantTick \/ CheckQuotaUnknown(Unregistered)
  \/ \E t \in TenantName :
       \/ \E config \in [memory : BOOLEAN, rated : BOOLEAN] : RegisterTenant(t, config)
       \/ RemoveTenant(t) \/ RecordMemoryOrCpu(t) \/ CheckAndReset(t)
       \/ CheckQuotaHardened(t) \/ CheckQuotaUnknown(t)

-----------------------------------------------------------------------------
(* The bucket keeps the rate: since it was last full, no more requests     *)
(* were allowed than it holds and has been refilled with, whatever was     *)
(* registered, removed and reset in between (try_consume, refill).         *)
BucketHoldsTheRate ==
  \A t \in DOMAIN usage :
    usage[t].bucket.present =>
      granted[t] + usage[t].bucket.tokens <= MaxRps + (tenantNow - filledAt[t])
=============================================================================
