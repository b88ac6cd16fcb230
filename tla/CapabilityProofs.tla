-------------------------- MODULE CapabilityProofs ---------------------------
(***************************************************************************)
(* Proofs about the capabilities that keep a promise across crashes,       *)
(* restarts, concurrent callers and the passing of time: certificates      *)
(* (Tls), encryption keys (Encryption), the drain before a shutdown        *)
(* (Drain), the bridge to a Redis stream (RedisBridge), changes on their   *)
(* way to a consumer (Cdc), leases of credentials (Vault), the rate of a   *)
(* tenant (Tenants), withdrawn credentials and lockouts (Auth), repeated   *)
(* alerts (Alerting) and the backups that remain (Backup).  Each is taken  *)
(* by itself, for every value of its constants.                            *)
(***************************************************************************)
EXTENDS Tls, Encryption, Drain, RedisBridge, Cdc, Vault, Tenants, Auth, Alerting,
        Backup, FiniteSetTheorems, SequenceTheorems, TLAPS

-----------------------------------------------------------------------------
(* tls-shim                                                                *)

TlsSpec == TlsInit /\ [][TlsNext]_tlsVars

\* The numbers stay below Torn.  The files on disk differ only while a save is
\* under way or after one was cut short; a whole key is never newer than a
\* whole certificate: that is what load_cert_from_disk relies on.
TlsTypes ==
  /\ issued \in Seq(Nat) /\ day \in Nat /\ Len(issued) <= MaxCerts
  /\ certFile \in Nat /\ keyFile \in Nat /\ interrupted \in BOOLEAN
  /\ keyFile = Torn \/ keyFile <= Len(issued)
TlsDisk ==
  /\ tlsPc \in {"open key", "write key"} => certFile = Len(issued)
  /\ (certFile = keyFile /\ certFile # Torn) \/ interrupted \/ Saving
  /\ certFile = keyFile \/ Damaged(certFile, keyFile)
TlsIInv == TlsTypes /\ TlsDisk /\ ServedPairFits

LEMMA TlsInitOK == TlsInit => TlsIInv
<1> SUFFICES ASSUME TlsInit PROVE TlsIInv
  OBVIOUS
<1>1. Torn \in Nat \ {0} /\ MaxCerts \in Nat
  BY TlsAssumption DEF Torn
<1>2. managed = [cert |-> 0, key |-> 0, days |-> 0]
  BY DEF TlsInit, NoCert
<1>3. ServedPairFits
  BY <1>1, <1>2 DEF ServedPairFits
<1>4. interrupted \in BOOLEAN
  BY Zenon DEF TlsInit
<1>5. issued \in Seq(Nat) /\ Len(issued) = 0
  BY DEF TlsInit
<1> QED
  BY <1>1, <1>3, <1>4, <1>5 DEF TlsIInv, TlsTypes, TlsDisk, TlsInit

LEMMA TlsStep == TlsIInv /\ [TlsNext]_tlsVars => TlsIInv'
<1> SUFFICES ASSUME TlsIInv, [TlsNext]_tlsVars PROVE TlsIInv'
  OBVIOUS
<1>a. Torn \in Nat /\ MaxCerts \in Nat /\ Torn = MaxCerts + 1
  BY TlsAssumption DEF Torn
<1>b. TlsTypes /\ TlsDisk /\ ServedPairFits /\ Len(issued) \in Nat
  BY DEF TlsIInv, TlsTypes
<1>c. managed' = NoCert => ServedPairFits'
  BY <1>a DEF NoCert, ServedPairFits
<1>1. CASE DayGoesBy
  <2>1. TlsTypes'
    BY <1>1, <1>a, <1>b DEF DayGoesBy, TlsTypes
  <2>2. TlsDisk'
    BY <1>1, <1>a, <1>b DEF DayGoesBy, TlsTypes, TlsDisk, Damaged, Saving
  <2>3. ServedPairFits'
    BY <1>1, <1>b DEF DayGoesBy, ServedPairFits
  <2> QED
    BY <2>1, <2>2, <2>3 DEF TlsIInv
<1>2. CASE TlsStart
  <2>1. TlsTypes'
    BY <1>2, <1>b DEF TlsStart, TlsTypes
  <2>2. TlsDisk'
    BY <1>2, <1>b DEF TlsStart, TlsDisk, Saving
  <2>3. ServedPairFits'
    <3>1. CASE certFile # 0 /\ keyFile # 0
      <4>1. managed' = [cert |-> certFile, key |-> keyFile, days |-> Validity]
        BY <1>2, <3>1 DEF TlsStart, load_cert_from_disk
      <4>2. managed'.cert = certFile /\ managed'.key = keyFile
        BY <4>1
      <4>3. ~Saving /\ interrupted' = interrupted
        BY <1>2 DEF TlsStart, Saving
      <4> QED
        BY <1>b, <4>2, <4>3 DEF TlsDisk, ServedPairFits, Damaged
    <3>2. CASE ~(certFile # 0 /\ keyFile # 0)
      <4>1. managed' = NoCert
        BY <1>2, <3>2 DEF TlsStart, load_cert_from_disk
      <4> QED
        BY <4>1, <1>c
    <3> QED
      BY <3>1, <3>2
  <2> QED
    BY <2>1, <2>2, <2>3 DEF TlsIInv
<1>3. CASE RenewalFails
  <2>1. TlsTypes'
    BY <1>3, <1>a, <1>b DEF RenewalFails, TlsTypes
  <2>2. TlsDisk'
    BY <1>3, <1>a, <1>b DEF RenewalFails, TlsTypes, TlsDisk, Damaged, Saving
  <2>3. ServedPairFits'
    BY <1>3, <1>b DEF RenewalFails, ServedPairFits
  <2> QED
    BY <2>1, <2>2, <2>3 DEF TlsIInv
<1>4. CASE OpenCert
  <2>1. issued \in Seq(Nat) /\ day \in Nat /\ issued' = Append(issued, day)
    BY <1>4, <1>b DEF OpenCert, TlsTypes
  <2>2. issued' \in Seq(Nat) /\ Len(issued') = Len(issued) + 1
    BY <2>1
  <2>3. TlsTypes'
    <3>1. /\ Len(issued) < MaxCerts /\ certFile' = Torn
          /\ UNCHANGED <<day, keyFile, interrupted>>
      BY <1>4 DEF OpenCert
    <3> QED
      BY <1>a, <1>b, <2>2, <3>1 DEF TlsTypes
  <2>4. TlsDisk'
    BY <1>4 DEF OpenCert, TlsDisk, Damaged, Saving
  <2>5. ServedPairFits'
    BY <1>4, <1>b DEF OpenCert, ServedPairFits
  <2> QED
    BY <2>3, <2>4, <2>5 DEF TlsIInv
<1>5. CASE SaveCert
  <2>1. TlsTypes'
    BY <1>5, <1>a, <1>b DEF SaveCert, TlsTypes
  <2>2. TlsDisk'
    <3>1. /\ certFile' = Len(issued) /\ tlsPc' = "open key"
          /\ UNCHANGED <<issued, keyFile, interrupted>>
      BY <1>5 DEF SaveCert
    <3>2. keyFile = Torn \/ keyFile = Len(issued) \/ keyFile < Len(issued)
      BY <1>b DEF TlsTypes
    <3>3. certFile' = keyFile' \/ Damaged(certFile', keyFile')
      BY <3>1, <3>2 DEF Damaged
    <3> QED
      BY <3>1, <3>3 DEF TlsDisk, Saving
  <2>3. ServedPairFits'
    BY <1>5, <1>b DEF SaveCert, ServedPairFits
  <2> QED
    BY <2>1, <2>2, <2>3 DEF TlsIInv
<1>6. CASE OpenKey
  <2>1. TlsTypes'
    BY <1>6, <1>a, <1>b DEF OpenKey, TlsTypes
  <2>2. TlsDisk'
    BY <1>6, <1>a, <1>b DEF OpenKey, TlsTypes, TlsDisk, Damaged, Saving
  <2>3. ServedPairFits'
    BY <1>6, <1>b DEF OpenKey, ServedPairFits
  <2> QED
    BY <2>1, <2>2, <2>3 DEF TlsIInv
<1>7. CASE SaveKey
  <2>1. Len(issued) # Torn
    BY <1>a, <1>b DEF TlsTypes
  <2>2. interrupted' \in BOOLEAN
    BY <1>7, Zenon DEF SaveKey
  <2>3. certFile' = Len(issued) /\ keyFile' = Len(issued)
    BY <1>7, <1>b DEF SaveKey, TlsDisk
  <2>4. TlsTypes'
    <3>1. UNCHANGED <<day, issued>>
      BY <1>7 DEF SaveKey
    <3> QED
      BY <1>b, <2>2, <2>3, <3>1 DEF TlsTypes
  <2>5. TlsDisk'
    BY <1>7, <2>1, <2>3 DEF SaveKey, TlsDisk, Saving
  <2>6. managed'.cert = Len(issued) /\ managed'.key = Len(issued)
    BY <1>7 DEF SaveKey
  <2>7. ServedPairFits'
    BY <2>1, <2>6 DEF ServedPairFits
  <2> QED
    BY <2>4, <2>5, <2>7 DEF TlsIInv
<1>8. CASE SaveFails
  <2>1. interrupted' /\ interrupted' \in BOOLEAN
    BY <1>8, Zenon DEF SaveFails
  <2>2. TlsTypes'
    BY <1>8, <1>b, <2>1 DEF SaveFails, TlsTypes
  <2>3. TlsDisk'
    BY <1>8, <1>b, <2>1 DEF SaveFails, TlsDisk, Damaged
  <2>4. ServedPairFits'
    BY <1>8, <1>b, <2>1 DEF SaveFails, ServedPairFits, Damaged
  <2> QED
    BY <2>2, <2>3, <2>4 DEF TlsIInv
<1>9. CASE RemoveCert
  <2>1. TlsTypes' /\ TlsDisk'
    BY <1>9, <1>b DEF RemoveCert, TlsTypes, TlsDisk, Damaged, Saving
  <2> QED
    BY <1>9, <1>c, <2>1 DEF RemoveCert, TlsIInv
<1>10. CASE RenewCertificate
  <2>1. TlsTypes'
    BY <1>10, <1>a, <1>b DEF RenewCertificate, TlsTypes
  <2>2. TlsDisk'
    BY <1>10, <1>a, <1>b DEF RenewCertificate, TlsTypes, TlsDisk, Damaged, Saving
  <2>3. ServedPairFits'
    BY <1>10, <1>b DEF RenewCertificate, ServedPairFits
  <2> QED
    BY <2>1, <2>2, <2>3 DEF TlsIInv
<1>11. CASE TlsCrash
  <2>1. interrupted' \in BOOLEAN
    BY <1>11, <1>b, Zenon DEF TlsCrash, TlsTypes
  <2>2. TlsTypes'
    BY <1>11, <1>b, <2>1 DEF TlsCrash, TlsTypes
  <2>3. TlsDisk'
    BY <1>11, <1>b DEF TlsCrash, TlsDisk, Damaged, Saving
  <2> QED
    BY <1>11, <1>c, <2>2, <2>3 DEF TlsCrash, TlsIInv
<1>12. CASE UNCHANGED tlsVars
  BY <1>12 DEF tlsVars, TlsIInv, TlsTypes, TlsDisk, ServedPairFits, Saving
<1> QED
  BY <1>1, <1>2, <1>3, <1>4, <1>5, <1>6, <1>7, <1>8, <1>9, <1>10, <1>11, <1>12
  DEF TlsNext

(* However many saves are cut short by a crash or a failing write, within  *)
(* either file or between them: tls-shim serves a whole pair that fits, or *)
(* what the last cut-short save left, never a key newer than its           *)
(* certificate, and a completed save ends the damage (save_cert_to_disk,   *)
(* load_cert_from_disk).                                                   *)
THEOREM PairFits == TlsSpec => []ServedPairFits
<1>1. TlsIInv => ServedPairFits
  BY DEF TlsIInv
<1> QED
  BY TlsInitOK, TlsStep, <1>1, PTL DEF TlsSpec

-----------------------------------------------------------------------------
(* encryption-shim                                                         *)

EncryptionSpec == EncryptionInit /\ [][EncryptionNext]_encryptionVars

\* Without a prefix a payload is sealed with its key's id alone.
SealedById(p) == p.aad = <<>> /\ p.sealed = <<p.key_id>>
\* Its key is known, or another one by the same id that was made later.
KeyKept(p) == p.key_id \in DOMAIN keys /\ p.material <= keys[p.key_id]

EncryptionIInv ==
  /\ materials \in Nat
  /\ active_key_id \in DOMAIN keys
  /\ \A id \in DOMAIN keys : keys[id] \in Nat /\ keys[id] <= materials
  /\ \A p \in payloads : p.material \in Nat /\ p.material <= materials
  /\ aad_prefix = <<>> => \A p \in payloads : SealedById(p)
  /\ madeUp \/ \A p \in payloads : KeyKept(p)

LEMMA EncryptionInitOK == EncryptionInit => EncryptionIInv
<1> SUFFICES ASSUME EncryptionInit PROVE EncryptionIInv
  OBVIOUS
<1>1. PICK id \in KeyId : active_key_id = id /\ keys = [x \in {id} |-> 1]
  BY DEF EncryptionInit
<1>2. materials = 1 /\ payloads = {}
  BY DEF EncryptionInit
<1>3. DOMAIN keys = {id} /\ keys[id] = 1
  BY <1>1
<1> QED
  BY <1>1, <1>2, <1>3 DEF EncryptionIInv

LEMMA EncryptStep == EncryptionIInv /\ Encrypt => EncryptionIInv'
<1> SUFFICES ASSUME EncryptionIInv, Encrypt PROVE EncryptionIInv'
  OBVIOUS
<1> DEFINE aad == aad_prefix \o <<active_key_id>>
           new == [key_id |-> active_key_id, material |-> keys[active_key_id],
                   sealed |-> aad, aad |-> IF aad_prefix = <<>> THEN <<>> ELSE aad]
<1>1. payloads' = payloads \cup {new}
  BY DEF Encrypt
<1>2. UNCHANGED <<aad_prefix, keys, active_key_id, materials, madeUp>>
  BY DEF Encrypt
<1>3. new.key_id = active_key_id /\ new.material = keys[active_key_id]
  OBVIOUS
<1>4. aad_prefix = <<>> => SealedById(new)
  <2> SUFFICES ASSUME aad_prefix = <<>> PROVE SealedById(new)
    OBVIOUS
  <2>1. new.aad = <<>>
    OBVIOUS
  <2>2. aad = <<active_key_id>>
    OBVIOUS
  <2>3. new.sealed = aad
    OBVIOUS
  <2> QED
    BY <2>1, <2>2, <2>3, <1>3 DEF SealedById
<1> HIDE DEF new, aad
<1>5. new.material \in Nat /\ new.material <= materials /\ KeyKept(new)
  BY <1>3 DEF EncryptionIInv, KeyKept
<1>6. (aad_prefix = <<>> => \A p \in payloads : SealedById(p))'
  BY <1>1, <1>2, <1>4 DEF EncryptionIInv, SealedById
<1>7. (madeUp \/ \A p \in payloads : KeyKept(p))'
  BY <1>1, <1>2, <1>5 DEF EncryptionIInv, KeyKept
<1>8. (\A p \in payloads : p.material \in Nat /\ p.material <= materials)'
  BY <1>1, <1>2, <1>5 DEF EncryptionIInv
<1> QED
  BY <1>2, <1>6, <1>7, <1>8 DEF EncryptionIInv

LEMMA RotateStep ==
  EncryptionIInv => \A id \in KeyId : RotateKey(id) => EncryptionIInv'
<1> SUFFICES ASSUME EncryptionIInv, NEW id \in KeyId, RotateKey(id) PROVE EncryptionIInv'
  OBVIOUS
<1>1. materials' = materials + 1 /\ active_key_id' = id
  BY DEF RotateKey
<1>2. UNCHANGED <<aad_prefix, payloads, madeUp>>
  BY DEF RotateKey
<1>3. DOMAIN keys' = DOMAIN keys \cup {id} /\ keys'[id] = materials'
        /\ \A x \in DOMAIN keys : x # id => keys'[x] = keys[x]
  BY DEF RotateKey
<1>4. \A x \in DOMAIN keys' : keys'[x] \in Nat /\ keys'[x] <= materials'
  BY <1>1, <1>3 DEF EncryptionIInv
<1>5. (\A p \in payloads : p.material \in Nat /\ p.material <= materials)'
  BY <1>1, <1>2 DEF EncryptionIInv
<1>6. ASSUME NEW p \in payloads, KeyKept(p) PROVE KeyKept(p)'
  BY <1>1, <1>3, <1>6 DEF EncryptionIInv, KeyKept
<1>7. (madeUp \/ \A p \in payloads : KeyKept(p))'
  BY <1>2, <1>6 DEF EncryptionIInv
<1>8. (aad_prefix = <<>> => \A p \in payloads : SealedById(p))'
  BY <1>2 DEF EncryptionIInv, SealedById
<1> QED
  BY <1>1, <1>3, <1>4, <1>5, <1>7, <1>8 DEF EncryptionIInv

LEMMA EncryptionStep == EncryptionIInv /\ [EncryptionNext]_encryptionVars => EncryptionIInv'
<1> SUFFICES ASSUME EncryptionIInv, [EncryptionNext]_encryptionVars PROVE EncryptionIInv'
  OBVIOUS
<1>1. CASE EncryptionRestart
  <2>1. active_key_id' \in DOMAIN keys /\ UNCHANGED <<aad_prefix, keys, materials, payloads, madeUp>>
    BY <1>1 DEF EncryptionRestart
  <2> QED
    BY <2>1 DEF EncryptionIInv, SealedById, KeyKept
\* The only step that loses keys says so.
<1>2. CASE RestartInDevMode
  <2>1. PICK id \in KeyId : active_key_id' = id /\ keys' = [x \in {id} |-> materials']
    BY <1>2 DEF RestartInDevMode
  <2>2. materials' = materials + 1 /\ madeUp' /\ UNCHANGED <<aad_prefix, payloads>>
    BY <1>2 DEF RestartInDevMode
  <2>3. DOMAIN keys' = {id} /\ keys'[id] = materials'
    BY <2>1
  <2>4. (\A p \in payloads : p.material \in Nat /\ p.material <= materials)'
    BY <2>2 DEF EncryptionIInv
  <2>5. (aad_prefix = <<>> => \A p \in payloads : SealedById(p))'
    BY <2>2 DEF EncryptionIInv, SealedById
  <2>6. materials' \in Nat
    BY <2>2 DEF EncryptionIInv
  <2> QED
    BY <2>1, <2>2, <2>3, <2>4, <2>5, <2>6 DEF EncryptionIInv
<1>3. CASE UNCHANGED encryptionVars
  BY <1>3 DEF encryptionVars, EncryptionIInv, SealedById, KeyKept
<1> QED
  BY <1>1, <1>2, <1>3, EncryptStep, RotateStep DEF EncryptionNext

(* Rotations and restarts lose nothing, however many there are: without    *)
(* ENCRYPTION_AAD and without a key the shim made up, decrypt() opens every *)
(* payload whose key id has not been given to a newer key.                 *)
THEOREM PayloadsReadable == EncryptionSpec => []PayloadsStayReadable
<1>1. EncryptionIInv => PayloadsStayReadable
  <2> SUFFICES ASSUME EncryptionIInv, aad_prefix = <<>>, ~madeUp, NEW p \in payloads
               PROVE  Decrypts(p) \/ (p.key_id \in DOMAIN keys /\ keys[p.key_id] > p.material)
    BY DEF PayloadsStayReadable
  <2>1. p.aad = <<>> /\ p.sealed = <<p.key_id>>
    BY DEF EncryptionIInv, SealedById
  <2>2. p.aad \o <<p.key_id>> = p.sealed
    BY <2>1
  <2>3. p.key_id \in DOMAIN keys /\ p.material <= keys[p.key_id]
    BY DEF EncryptionIInv, KeyKept
  <2>4. p.material \in Nat /\ keys[p.key_id] \in Nat
    BY <2>3 DEF EncryptionIInv
  <2> QED
    BY <2>2, <2>3, <2>4 DEF Decrypts
<1> QED
  BY EncryptionInitOK, EncryptionStep, <1>1, PTL DEF EncryptionSpec

-----------------------------------------------------------------------------
(* ShutdownManager                                                         *)

DrainSpec == DrainInit /\ [][DrainNext]_drainVars

Begun == {o \in Operation : op[o] # "new"}
Done == {o \in Operation : op[o] = "done"}

OpsOK == op \in [Operation -> {"new", "running", "done"}]
CountersOK ==
  in_flight_total = Cardinality(Begun) /\ in_flight_completed = Cardinality(Done)
\* The completed ones are loaded first, and only grow until the total is.
SeenOK == seen \in Nat /\ (drainPc = "loaded" => seen <= in_flight_completed)

DrainIInv ==
  OpsOK /\ CountersOK /\ SeenOK /\ inFlightAtStart \subseteq Begun /\ DrainedBeforeSignal

LEMMA SizesOK ==
  /\ IsFiniteSet(Begun) /\ Cardinality(Begun) \in Nat
  /\ IsFiniteSet(Done) /\ Cardinality(Done) \in Nat
  /\ Done \subseteq Begun
<1>1. IsFiniteSet(Operation)
  BY DrainAssumption
<1>2. Begun \subseteq Operation /\ Done \subseteq Operation /\ Done \subseteq Begun
  BY DEF Begun, Done
<1>3. IsFiniteSet(Begun) /\ IsFiniteSet(Done)
  BY <1>1, <1>2, FS_Subset
<1> QED
  BY <1>2, <1>3, FS_CardinalityType

LEMMA DrainInitOK == DrainInit => DrainIInv
<1> SUFFICES ASSUME DrainInit PROVE DrainIInv
  OBVIOUS
<1>1. op = [o \in Operation |-> "new"]
  BY DEF DrainInit
<1>2. Begun = {} /\ Done = {}
  BY <1>1 DEF Begun, Done
<1>3. CountersOK
  BY <1>2, FS_EmptySet DEF CountersOK, DrainInit
<1>4. OpsOK
  BY <1>1 DEF OpsOK
<1>5. drainPc = "running" /\ inFlightAtStart = {} /\ seen = 0
  BY DEF DrainInit
<1> QED
  BY <1>3, <1>4, <1>5 DEF DrainIInv, SeenOK, DrainedBeforeSignal

LEMMA StartedStep == DrainIInv => \A o \in Operation : OperationStarted(o) => DrainIInv'
<1> SUFFICES ASSUME DrainIInv, NEW o \in Operation, OperationStarted(o) PROVE DrainIInv'
  OBVIOUS
<1>1. op[o] = "new" /\ op' = [op EXCEPT ![o] = "running"] /\ op \in [Operation -> {"new", "running", "done"}]
  BY DEF OperationStarted, DrainIInv, OpsOK
<1>2. UNCHANGED <<in_flight_completed, drainPc, seen, inFlightAtStart, timedOut, overlooked>>
        /\ in_flight_total' = in_flight_total + 1
  BY DEF OperationStarted
<1>3. OpsOK' /\ op'[o] = "running" /\ \A x \in Operation : x # o => op'[x] = op[x]
  BY <1>1 DEF OpsOK
<1>4. Begun' = Begun \cup {o} /\ o \notin Begun /\ Done' = Done
  BY <1>1, <1>3 DEF Begun, Done
<1>5. Cardinality(Begun') = Cardinality(Begun) + 1
  BY <1>4, SizesOK, FS_AddElement
<1>6. CountersOK'
  BY <1>2, <1>4, <1>5 DEF DrainIInv, CountersOK
<1>7. SeenOK'
  BY <1>2 DEF DrainIInv, SeenOK
<1>8. (inFlightAtStart \subseteq Begun)'
  BY <1>2, <1>4 DEF DrainIInv
<1>9. \A x \in inFlightAtStart : x \in Operation /\ x # o
  BY <1>4 DEF DrainIInv, Begun
<1>10. DrainedBeforeSignal'
  BY <1>2, <1>3, <1>9 DEF DrainIInv, DrainedBeforeSignal
<1> QED
  BY <1>3, <1>6, <1>7, <1>8, <1>10 DEF DrainIInv

LEMMA CompletedStep == DrainIInv => \A o \in Operation : OperationCompleted(o) => DrainIInv'
<1> SUFFICES ASSUME DrainIInv, NEW o \in Operation, OperationCompleted(o) PROVE DrainIInv'
  OBVIOUS
<1>1. op[o] = "running" /\ op' = [op EXCEPT ![o] = "done"] /\ op \in [Operation -> {"new", "running", "done"}]
  BY DEF OperationCompleted, DrainIInv, OpsOK
<1>2. UNCHANGED <<in_flight_total, drainPc, seen, inFlightAtStart, timedOut, overlooked>>
        /\ in_flight_completed' = in_flight_completed + 1
  BY DEF OperationCompleted
<1>3. OpsOK' /\ op'[o] = "done" /\ \A x \in Operation : x # o => op'[x] = op[x]
  BY <1>1 DEF OpsOK
<1>4. Done' = Done \cup {o} /\ o \notin Done /\ Begun' = Begun
  BY <1>1, <1>3 DEF Begun, Done
<1>5. Cardinality(Done') = Cardinality(Done) + 1
  BY <1>4, SizesOK, FS_AddElement
<1>6. CountersOK'
  BY <1>2, <1>4, <1>5 DEF DrainIInv, CountersOK
<1>7. in_flight_completed \in Nat
  BY SizesOK DEF DrainIInv, CountersOK
<1>8. SeenOK'
  BY <1>2, <1>7 DEF DrainIInv, SeenOK
<1>9. \A x \in inFlightAtStart : x \in Operation
  BY DEF DrainIInv, Begun
<1>10. DrainedBeforeSignal'
  BY <1>2, <1>3, <1>9 DEF DrainIInv, DrainedBeforeSignal
<1> QED
  BY <1>2, <1>3, <1>4, <1>6, <1>8, <1>10 DEF DrainIInv

LEMMA DrainStep == DrainIInv /\ [DrainNext]_drainVars => DrainIInv'
<1> SUFFICES ASSUME DrainIInv, [DrainNext]_drainVars PROVE DrainIInv'
  OBVIOUS
<1>1. ASSUME UNCHANGED <<op, in_flight_total, in_flight_completed>>
      PROVE  OpsOK' /\ CountersOK' /\ Begun' = Begun
  BY <1>1 DEF DrainIInv, OpsOK, CountersOK, Begun, Done
<1>2. CASE ShutdownCalled
  <2>1. UNCHANGED <<op, in_flight_total, in_flight_completed>>
          /\ drainPc' = "counting" /\ inFlightAtStart' = Running /\ seen' = in_flight_total
    BY <1>2 DEF ShutdownCalled
  <2>2. inFlightAtStart' \subseteq Begun'
    BY <2>1 DEF Running, Begun
  <2>3. in_flight_total \in Nat
    BY SizesOK DEF DrainIInv, CountersOK
  <2> QED
    BY <1>1, <2>1, <2>2, <2>3 DEF DrainIInv, SeenOK, DrainedBeforeSignal
<1>3. CASE InFlightCounted
  <2>1. UNCHANGED <<op, in_flight_total, in_flight_completed, inFlightAtStart, seen>>
    BY <1>3 DEF InFlightCounted
  <2>2. drainPc' = "polling" \/ (drainPc' = "signalled" /\ overlooked')
    <3>1. CASE seen <= in_flight_completed
      BY <1>3, <3>1 DEF InFlightCounted
    <3>2. CASE ~(seen <= in_flight_completed)
      <4>1. in_flight_completed \in Nat /\ seen \in Nat
        BY SizesOK DEF DrainIInv, CountersOK, SeenOK
      <4> QED
        BY <1>3, <3>2, <4>1 DEF InFlightCounted
    <3> QED
      BY <3>1, <3>2
  <2> QED
    BY <1>1, <2>1, <2>2 DEF DrainIInv, SeenOK, DrainedBeforeSignal
<1>4. CASE LoadCompleted
  <2>1. UNCHANGED <<op, in_flight_total, in_flight_completed, inFlightAtStart>>
          /\ drainPc' = "loaded" /\ seen' = in_flight_completed
    BY <1>4 DEF LoadCompleted
  <2>2. in_flight_completed \in Nat
    BY SizesOK DEF DrainIInv, CountersOK
  <2> QED
    BY <1>1, <2>1, <2>2 DEF DrainIInv, SeenOK, DrainedBeforeSignal
\* As many have completed as were started: they are the same.
<1>5. CASE DrainPoll
  <2>1. UNCHANGED <<op, in_flight_total, in_flight_completed, inFlightAtStart, seen>>
          /\ drainPc = "loaded"
          /\ drainPc' = IF seen >= in_flight_total THEN "signalled" ELSE "polling"
    BY <1>5 DEF DrainPoll
  <2>2. CASE seen >= in_flight_total
    <3>1. Cardinality(Begun) <= Cardinality(Done)
      BY <2>1, <2>2, SizesOK DEF DrainIInv, SeenOK, CountersOK
    <3>2. Done = Begun
      <4>1. Cardinality(Done) <= Cardinality(Begun)
              /\ (Cardinality(Done) = Cardinality(Begun) => Done = Begun)
        BY SizesOK, FS_Subset
      <4> QED
        BY <3>1, <4>1, SizesOK
    <3>3. \A o \in inFlightAtStart : op[o] = "done"
      BY <3>2 DEF DrainIInv, Done
    <3>4. DrainedBeforeSignal'
      BY <2>1, <3>3 DEF DrainedBeforeSignal
    <3> QED
      BY <1>1, <2>1, <2>2, <3>4 DEF DrainIInv, SeenOK
  <2>3. CASE ~(seen >= in_flight_total)
    BY <1>1, <2>1, <2>3 DEF DrainIInv, SeenOK, DrainedBeforeSignal
  <2> QED
    BY <2>2, <2>3
<1>6. CASE DrainTimesOut
  <2>1. UNCHANGED <<op, in_flight_total, in_flight_completed, inFlightAtStart, seen>>
          /\ drainPc' = "signalled" /\ timedOut'
    BY <1>6 DEF DrainTimesOut
  <2> QED
    BY <1>1, <2>1 DEF DrainIInv, SeenOK, DrainedBeforeSignal
<1>7. CASE UNCHANGED drainVars
  BY <1>7 DEF drainVars, DrainIInv, OpsOK, CountersOK, SeenOK, DrainedBeforeSignal, Begun, Done
<1> QED
  BY <1>2, <1>3, <1>4, <1>5, <1>6, <1>7, StartedStep, CompletedStep DEF DrainNext

(* For any number of concurrent operations, a shutdown that polls and does *)
(* not time out signals the database only when every operation that was in *)
(* flight as it was called has completed: the order of the two loads in    *)
(* the drain loop is what makes it so.                                     *)
THEOREM DrainWaits == DrainSpec => []DrainedBeforeSignal
<1>1. DrainIInv => DrainedBeforeSignal
  BY DEF DrainIInv
<1> QED
  BY DrainInitOK, DrainStep, <1>1, PTL DEF DrainSpec

-----------------------------------------------------------------------------
(* shim-core redis_bridge                                                  *)

BridgeSpec == BridgeInit /\ [][BridgeNext]_bridgeVars

BridgeRecord == [up : BOOLEAN, batch : Seq(1..MaxEntries), last_id : Nat]

BridgeTypes ==
  /\ stream \in Seq([by : Bridge, own : BOOLEAN]) /\ Len(stream) <= MaxEntries
  /\ cursor \in Nat /\ cursor <= Len(stream)
  /\ bridge \in [Bridge -> BridgeRecord]
  /\ relayed \in [1..MaxEntries -> Seq(Bridge)]

\* The i-th entry that bridge b has still to relay.
InBatch(b, i, e) == i \in 1..Len(bridge[b].batch) /\ e = bridge[b].batch[i]

\* The group hands an entry to one bridge, once: what waits in a batch is in
\* no other place of any batch, and reached no bus before.
BatchesAreFresh ==
  \A b \in Bridge, i \in Nat, e \in 1..MaxEntries : InBatch(b, i, e) =>
    /\ e <= cursor
    /\ relayed[e] = << >>
    /\ \A c \in Bridge, k \in Nat : InBatch(c, k, e) => b = c /\ i = k

UndeliveredAreFresh == \A e \in 1..MaxEntries : e > cursor => relayed[e] = << >>

\* An entry that reached a bus reached one, and not its writer's own.
Proper(e) ==
  /\ Len(relayed[e]) <= 1
  /\ \A i \in DOMAIN relayed[e] : stream[e] # [by |-> relayed[e][i], own |-> TRUE]

BridgeIInv ==
  /\ BridgeTypes
  /\ BatchesAreFresh
  /\ UndeliveredAreFresh
  /\ \A e \in 1..MaxEntries : Proper(e)

LEMMA BridgeInitOK == BridgeInit => BridgeIInv
<1> SUFFICES ASSUME BridgeInit PROVE BridgeIInv
  OBVIOUS
<1>1. BridgeTypes
  BY BridgeAssumption DEF BridgeInit, BridgeTypes, BridgeIdle, BridgeRecord
<1>2. \A b \in Bridge : Len(bridge[b].batch) = 0
  BY DEF BridgeInit, BridgeIdle
<1>3. \A e \in 1..MaxEntries : relayed[e] = << >>
  BY DEF BridgeInit
<1>4. \A e \in 1..MaxEntries : Proper(e)
  BY <1>3 DEF Proper
<1>5. BatchesAreFresh
  BY <1>2 DEF BatchesAreFresh, InBatch
<1> QED
  BY <1>1, <1>3, <1>4, <1>5 DEF BridgeIInv, UndeliveredAreFresh

LEMMA BridgeNumbers ==
  BridgeTypes => cursor \in Nat /\ MaxEntries \in Nat /\ Len(stream) \in Nat
BY BridgeAssumption DEF BridgeTypes

\* Replacing one bridge's record touches no other's.
LEMMA OneBridge ==
  ASSUME BridgeTypes, NEW b \in Bridge, NEW r \in BridgeRecord,
         bridge' = [bridge EXCEPT ![b] = r]
  PROVE  /\ bridge' \in [Bridge -> BridgeRecord]
         /\ bridge'[b] = r
         /\ \A c \in Bridge : c # b => bridge'[c] = bridge[c]
BY DEF BridgeTypes

\* The first entry of a batch and what is left after it.
LEMMA FirstAndRest ==
  ASSUME NEW S, NEW q \in Seq(S), q # << >>
  PROVE  /\ Head(q) \in S /\ Head(q) = q[1] /\ Len(q) \in Nat /\ 1 <= Len(q)
         /\ Tail(q) \in Seq(S) /\ Len(Tail(q)) = Len(q) - 1
         /\ \A i \in 1..(Len(q) - 1) : Tail(q)[i] = q[i + 1]
<1>1. \A i \in 1..(Len(q) - 1) : Tail(q)[i] = q[i + 1]
  OBVIOUS
<1> QED
  BY <1>1, HeadTailProperties

\* What is fresh stays fresh when no entry is read, relayed or dropped.
LEMMA FreshStays ==
  ASSUME BatchesAreFresh, UndeliveredAreFresh, UNCHANGED <<cursor, bridge, relayed>>
  PROVE  BatchesAreFresh' /\ UndeliveredAreFresh'
<1>1. cursor' = cursor /\ bridge' = bridge /\ relayed' = relayed
  OBVIOUS
<1>2. ASSUME NEW b, NEW i, NEW e PROVE InBatch(b, i, e)' <=> InBatch(b, i, e)
  BY <1>1 DEF InBatch
<1>3. BatchesAreFresh'
  BY <1>1, <1>2, Zenon DEF BatchesAreFresh
<1>4. UndeliveredAreFresh'
  BY <1>1, Zenon DEF UndeliveredAreFresh
<1> QED
  BY <1>3, <1>4

LEMMA PublishKeeps ==
  ASSUME BridgeIInv, NEW b \in Bridge, BridgePublish(b)
  PROVE  BridgeIInv'
<1>0. BridgeTypes /\ BatchesAreFresh /\ UndeliveredAreFresh /\ cursor \in Nat
  BY BridgeNumbers DEF BridgeIInv
<1>1. PICK own \in BOOLEAN : stream' = Append(stream, [by |-> b, own |-> own])
  BY DEF BridgePublish
<1>2. /\ stream' \in Seq([by : Bridge, own : BOOLEAN])
      /\ Len(stream') = Len(stream) + 1 /\ Len(stream') <= MaxEntries
      /\ \A e \in 1..Len(stream) : stream'[e] = stream[e]
  BY <1>0, <1>1, BridgeAssumption DEF BridgePublish, BridgeTypes
<1>3. UNCHANGED <<cursor, bridge, relayed>>
  BY DEF BridgePublish
<1>4. BridgeTypes'
  BY <1>0, <1>2, <1>3 DEF BridgeTypes
<1>5. BatchesAreFresh' /\ UndeliveredAreFresh'
  BY <1>0, <1>3, FreshStays
<1>6. ASSUME NEW e \in 1..MaxEntries
      PROVE  Proper(e)'
  <2>1. CASE e > cursor
    <3>1. relayed'[e] = << >>
      BY <1>0, <1>3, <2>1 DEF UndeliveredAreFresh
    <3> QED
      BY <3>1 DEF Proper
  <2>2. CASE e <= cursor
    <3>1. e \in 1..Len(stream)
      BY <1>0, <2>2 DEF BridgeTypes
    <3>2. stream'[e] = stream[e] /\ relayed' = relayed /\ Proper(e)
      BY <1>2, <1>3, <3>1 DEF BridgeIInv
    <3> QED
      BY <3>2 DEF Proper
  <2> QED
    BY <1>0, <2>1, <2>2
<1> QED
  BY <1>4, <1>5, <1>6 DEF BridgeIInv

\* A bridge that connects or dies has an empty batch.
LEMMA ResetKeeps ==
  ASSUME BridgeIInv, NEW b \in Bridge, NEW r \in BridgeRecord, r.batch = << >>,
         bridge' = [bridge EXCEPT ![b] = r],
         UNCHANGED <<stream, cursor, relayed>>
  PROVE  BridgeIInv'
<1>1. Len(r.batch) = 0
  OBVIOUS
<1>2. BridgeTypes /\ BatchesAreFresh /\ UndeliveredAreFresh
  BY DEF BridgeIInv
<1>3. /\ bridge' \in [Bridge -> BridgeRecord]
      /\ bridge'[b] = r
      /\ \A c \in Bridge : c # b => bridge'[c] = bridge[c]
  BY <1>1, <1>2, OneBridge
<1>4. BridgeTypes'
  BY <1>2, <1>3 DEF BridgeTypes
<1>5. \A c \in Bridge, i \in Nat, e \in 1..MaxEntries : InBatch(c, i, e)' => InBatch(c, i, e)
  BY <1>1, <1>3 DEF InBatch
<1>6. BatchesAreFresh'
  BY <1>2, <1>5 DEF BatchesAreFresh
<1> QED
  BY <1>2, <1>4, <1>6 DEF BridgeIInv, UndeliveredAreFresh, Proper

\* The entries read are those after the cursor, which nobody was given yet.
LEMMA ReadKeeps ==
  ASSUME BridgeIInv, NEW b \in Bridge, ReadGroup(b)
  PROVE  BridgeIInv'
<1> DEFINE n == IF Len(stream) - cursor < BatchSize THEN Len(stream) - cursor ELSE BatchSize
           s == [i \in 1..n |-> cursor + i]
           r == [bridge[b] EXCEPT !.batch = s]
<1>0. BridgeTypes /\ BatchesAreFresh /\ UndeliveredAreFresh
  BY DEF BridgeIInv
<1>1. /\ cursor \in Nat /\ MaxEntries \in Nat /\ Len(stream) \in Nat
      /\ Len(stream) <= MaxEntries /\ cursor <= Len(stream)
  BY <1>0, BridgeNumbers DEF BridgeTypes
<1>2. n > 0 /\ cursor' = cursor + n /\ UNCHANGED <<stream, relayed>>
  BY DEF ReadGroup
<1>3. n \in Nat /\ cursor + n <= Len(stream)
  BY <1>1, <1>2, BridgeAssumption
<1>4. bridge' = [bridge EXCEPT ![b].batch = s]
  BY DEF ReadGroup
<1> HIDE DEF n
<1>5. s \in Seq(1..MaxEntries) /\ Len(s) = n /\ \A i \in 1..n : s[i] = cursor + i
  BY <1>1, <1>3
<1> HIDE DEF s
<1>6. bridge[b] \in BridgeRecord
  BY <1>0 DEF BridgeTypes
<1>7. bridge' = [bridge EXCEPT ![b] = r] /\ r \in BridgeRecord /\ r.batch = s
  <2>1. bridge' = [bridge EXCEPT ![b] = r]
    BY <1>4
  <2>2. r \in BridgeRecord /\ r.batch = s
    BY <1>5, <1>6 DEF BridgeRecord
  <2> QED
    BY <2>1, <2>2
<1>8. /\ bridge' \in [Bridge -> BridgeRecord]
      /\ bridge'[b].batch = s
      /\ \A c \in Bridge : c # b => bridge'[c] = bridge[c]
  BY <1>0, <1>7, OneBridge
<1>9. BridgeTypes'
  BY <1>0, <1>1, <1>2, <1>3, <1>8 DEF BridgeTypes
\* An entry of a new batch waited there before, or is one of those read.
<1>10. ASSUME NEW c \in Bridge, NEW i \in Nat, NEW e \in 1..MaxEntries, InBatch(c, i, e)'
       PROVE  \/ c # b /\ InBatch(c, i, e)
              \/ c = b /\ i \in 1..n /\ e = cursor + i
  BY <1>5, <1>8, <1>10 DEF InBatch
<1>11. BatchesAreFresh'
  <2> SUFFICES ASSUME NEW c \in Bridge, NEW i \in Nat, NEW e \in 1..MaxEntries,
                      InBatch(c, i, e)'
               PROVE  /\ e <= cursor'
                      /\ relayed'[e] = << >>
                      /\ \A d \in Bridge, k \in Nat : InBatch(d, k, e)' => c = d /\ i = k
    BY DEF BatchesAreFresh
  <2>1. CASE c # b /\ InBatch(c, i, e)
    <3>1. e <= cursor /\ relayed[e] = << >>
      BY <1>0, <2>1 DEF BatchesAreFresh
    <3>2. ASSUME NEW d \in Bridge, NEW k \in Nat, InBatch(d, k, e)' PROVE c = d /\ i = k
      <4>1. CASE d # b /\ InBatch(d, k, e)
        BY <1>0, <2>1, <4>1 DEF BatchesAreFresh
      <4>2. CASE d = b /\ k \in 1..n /\ e = cursor + k
        BY <1>1, <1>3, <3>1, <4>2
      <4> QED
        BY <1>10, <3>2, <4>1, <4>2
    <3> QED
      BY <1>1, <1>2, <1>3, <3>1, <3>2
  <2>2. CASE c = b /\ i \in 1..n /\ e = cursor + i
    <3>1. e > cursor /\ e <= cursor + n
      BY <1>1, <1>3, <2>2
    <3>2. relayed[e] = << >>
      BY <1>0, <3>1 DEF UndeliveredAreFresh
    <3>3. ASSUME NEW d \in Bridge, NEW k \in Nat, InBatch(d, k, e)' PROVE c = d /\ i = k
      <4>1. CASE d # b /\ InBatch(d, k, e)
        <5>1. e <= cursor
          BY <1>0, <4>1 DEF BatchesAreFresh
        <5> QED
          BY <1>1, <3>1, <5>1
      <4>2. CASE d = b /\ k \in 1..n /\ e = cursor + k
        BY <1>1, <1>3, <2>2, <4>2
      <4> QED
        BY <1>10, <3>3, <4>1, <4>2
    <3> QED
      BY <1>2, <3>1, <3>2, <3>3
  <2> QED
    BY <1>10, <2>1, <2>2
<1>12. UndeliveredAreFresh'
  BY <1>0, <1>1, <1>2, <1>3 DEF UndeliveredAreFresh
<1> QED
  BY <1>2, <1>9, <1>11, <1>12 DEF BridgeIInv, Proper

\* The entry relayed leaves the only place it waited in.
LEMMA RelayKeeps ==
  ASSUME BridgeIInv, NEW b \in Bridge, RelayEntry(b)
  PROVE  BridgeIInv'
<1> DEFINE q == bridge[b].batch
<1>0. BridgeTypes /\ BatchesAreFresh /\ UndeliveredAreFresh /\ MaxEntries \in Nat
  BY BridgeNumbers DEF BridgeIInv
<1>1. bridge[b] \in BridgeRecord
  BY <1>0 DEF BridgeTypes
<1>2. q \in Seq(1..MaxEntries) /\ q # << >>
  BY <1>1 DEF RelayEntry, BridgeRecord
<1>3. PICK x \in 1..MaxEntries :
        /\ x = Head(q) /\ x = q[1] /\ Len(q) \in Nat /\ 1 <= Len(q)
        /\ Tail(q) \in Seq(1..MaxEntries) /\ Len(Tail(q)) = Len(q) - 1
        /\ \A i \in 1..(Len(q) - 1) : Tail(q)[i] = q[i + 1]
  BY <1>2, FirstAndRest
<1>4. /\ bridge' = [bridge EXCEPT ![b].batch = Tail(@), ![b].last_id = x]
      /\ UNCHANGED <<stream, cursor>>
      /\ relayed' = IF stream[x] = [by |-> b, own |-> TRUE] THEN relayed
                    ELSE [relayed EXCEPT ![x] = Append(@, b)]
  BY <1>3 DEF RelayEntry
<1> DEFINE r == [bridge[b] EXCEPT !.batch = Tail(q), !.last_id = x]
<1>5. bridge' = [bridge EXCEPT ![b] = r] /\ r \in BridgeRecord /\ r.batch = Tail(q)
  <2>1. bridge' = [bridge EXCEPT ![b] = r]
    BY <1>4
  <2>2. \A s \in Seq(1..MaxEntries), n \in Nat, t \in BridgeRecord :
          LET u == [t EXCEPT !.batch = s, !.last_id = n]
          IN  u \in BridgeRecord /\ u.batch = s
    BY DEF BridgeRecord
  <2>3. x \in Nat
    BY <1>0
  <2> QED
    BY <1>1, <1>3, <2>1, <2>2, <2>3
<1>6. /\ bridge' \in [Bridge -> BridgeRecord]
      /\ bridge'[b].batch = Tail(q)
      /\ \A c \in Bridge : c # b => bridge'[c] = bridge[c]
  BY <1>0, <1>5, OneBridge
<1>7. InBatch(b, 1, x) /\ 1 \in Nat
  BY <1>3 DEF InBatch
<1>8. relayed[x] = << >> /\ x <= cursor
  BY <1>0, <1>3, <1>7 DEF BatchesAreFresh
<1>9. /\ relayed' \in [1..MaxEntries -> Seq(Bridge)]
      /\ \A e \in 1..MaxEntries : e # x => relayed'[e] = relayed[e]
  BY <1>0, <1>3, <1>4 DEF BridgeTypes
<1>10. BridgeTypes'
  BY <1>0, <1>4, <1>6, <1>9 DEF BridgeTypes
<1> DEFINE Old(c, i) == IF c = b THEN i + 1 ELSE i
\* Where an entry of the new batches waited before.
<1>11. ASSUME NEW c \in Bridge, NEW i \in Nat, NEW e \in 1..MaxEntries, InBatch(c, i, e)'
       PROVE  InBatch(c, Old(c, i), e) /\ Old(c, i) \in Nat /\ e # x
  <2>1. CASE c = b
    <3>0. i \in 1..Len(Tail(q)) /\ e = Tail(q)[i]
      BY <1>6, <1>11, <2>1 DEF InBatch
    <3>1. i \in 1..(Len(q) - 1) /\ e = q[i + 1] /\ i + 1 \in 1..Len(q)
      BY <1>3, <3>0
    <3>2. InBatch(b, i + 1, e)
      BY <3>1 DEF InBatch
    <3>3. e # x
      BY <1>0, <1>3, <1>7, <3>1, <3>2 DEF BatchesAreFresh
    <3> QED
      BY <2>1, <3>2, <3>3
  <2>2. CASE c # b
    <3>1. InBatch(c, i, e)
      BY <1>6, <1>11, <2>2 DEF InBatch
    <3>2. e # x
      <4> SUFFICES ASSUME e = x PROVE FALSE
        OBVIOUS
      <4>1. InBatch(c, i, x) /\ InBatch(b, 1, x)
        BY <1>7, <3>1
      <4>2. \A d \in Bridge, k \in Nat : InBatch(d, k, x) => b = d /\ 1 = k
        BY <1>0, <1>7 DEF BatchesAreFresh
      <4> QED
        BY <2>2, <4>1, <4>2
    <3> QED
      BY <2>2, <3>1, <3>2
  <2> QED
    BY <2>1, <2>2
<1>12. BatchesAreFresh'
  <2> SUFFICES ASSUME NEW c \in Bridge, NEW i \in Nat, NEW e \in 1..MaxEntries,
                      InBatch(c, i, e)'
               PROVE  /\ e <= cursor'
                      /\ relayed'[e] = << >>
                      /\ \A d \in Bridge, k \in Nat : InBatch(d, k, e)' => c = d /\ i = k
    BY DEF BatchesAreFresh
  <2>1. InBatch(c, Old(c, i), e) /\ Old(c, i) \in Nat /\ e # x
    BY <1>11
  <2>2. e <= cursor /\ relayed[e] = << >>
    BY <1>0, <2>1 DEF BatchesAreFresh
  <2>3. ASSUME NEW d \in Bridge, NEW k \in Nat, InBatch(d, k, e)' PROVE c = d /\ i = k
    <3>1. InBatch(d, Old(d, k), e) /\ Old(d, k) \in Nat
      BY <1>11, <2>3
    <3>2. c = d /\ Old(c, i) = Old(d, k)
      BY <1>0, <2>1, <3>1 DEF BatchesAreFresh
    <3> QED
      BY <3>2
  <2> QED
    BY <1>4, <1>9, <2>1, <2>2, <2>3
<1>13. UndeliveredAreFresh'
  BY <1>0, <1>4, <1>8, <1>9, BridgeNumbers DEF UndeliveredAreFresh
<1>14. Proper(x)'
  <2>1. CASE stream[x] = [by |-> b, own |-> TRUE]
    BY <1>4, <1>8, <2>1 DEF Proper
  <2>2. CASE stream[x] # [by |-> b, own |-> TRUE]
    <3>1. relayed'[x] = <<b>>
      BY <1>0, <1>3, <1>4, <1>8, <2>2 DEF BridgeTypes
    <3>2. Len(relayed'[x]) = 1 /\ DOMAIN relayed'[x] = {1} /\ relayed'[x][1] = b
      BY <3>1
    <3>3. stream'[x] # [by |-> relayed'[x][1], own |-> TRUE]
      BY <1>4, <2>2, <3>2
    <3>4. /\ Len(relayed'[x]) <= 1
          /\ \A i \in DOMAIN relayed'[x] :
               stream'[x] # [by |-> relayed'[x][i], own |-> TRUE]
      <4>1. Len(relayed'[x]) <= 1
        BY <3>2
      <4>2. ASSUME NEW i \in DOMAIN relayed'[x]
            PROVE  stream'[x] # [by |-> relayed'[x][i], own |-> TRUE]
        BY <3>2, <3>3, Zenon
      <4> QED
        BY <4>1, <4>2
    <3> QED
      BY <3>4 DEF Proper
  <2> QED
    BY <2>1, <2>2
<1>15. ASSUME NEW e \in 1..MaxEntries, e # x PROVE Proper(e)'
  <2>1. Proper(e) /\ relayed'[e] = relayed[e] /\ stream' = stream
    BY <1>4, <1>9, <1>15 DEF BridgeIInv
  <2> QED
    BY <2>1 DEF Proper
<1> QED
  BY <1>10, <1>12, <1>13, <1>14, <1>15 DEF BridgeIInv

LEMMA BridgeStep == BridgeIInv /\ [BridgeNext]_bridgeVars => BridgeIInv'
<1> SUFFICES ASSUME BridgeIInv, [BridgeNext]_bridgeVars PROVE BridgeIInv'
  OBVIOUS
<1>1. ASSUME NEW b \in Bridge, BridgeConnect(b) PROVE BridgeIInv'
  <2> DEFINE r == [BridgeIdle EXCEPT !.up = TRUE]
  <2>1. BridgeIdle \in BridgeRecord /\ BridgeIdle.batch = << >>
    BY DEF BridgeIdle, BridgeRecord
  <2>2. \A t \in BridgeRecord : LET u == [t EXCEPT !.up = TRUE]
                                IN  u \in BridgeRecord /\ u.batch = t.batch
    BY DEF BridgeRecord
  <2> QED
    BY <1>1, <2>1, <2>2, ResetKeeps DEF BridgeConnect
<1>2. ASSUME NEW b \in Bridge, BridgeCrash(b) PROVE BridgeIInv'
  <2>1. BridgeIdle \in BridgeRecord /\ BridgeIdle.batch = << >>
    BY DEF BridgeIdle, BridgeRecord
  <2> QED
    BY <1>2, <2>1, ResetKeeps DEF BridgeCrash
<1>3. ASSUME UNCHANGED <<stream, cursor, bridge, relayed>> PROVE BridgeIInv'
  <2>1. BatchesAreFresh' /\ UndeliveredAreFresh'
    BY <1>3, FreshStays DEF BridgeIInv
  <2>2. BridgeTypes' /\ \A e \in 1..MaxEntries : Proper(e)'
    BY <1>3 DEF BridgeIInv, BridgeTypes, Proper
  <2> QED
    BY <2>1, <2>2 DEF BridgeIInv
<1>4. ASSUME NEW b \in Bridge, AckLast(b) PROVE BridgeIInv'
  BY <1>3, <1>4 DEF AckLast
<1> QED
  BY <1>1, <1>2, <1>3, <1>4, PublishKeeps, ReadKeeps, RelayKeeps DEF BridgeNext, bridgeVars

(* For any number of bridges of one consumer group, any batch size and any *)
(* number of crashes and reconnections, an entry reaches at most one local *)
(* bus, at most once, and never its writer's under the writer's own id.    *)
THEOREM RelayOnce == BridgeSpec => []RelayedAtMostOnce
<1>1. BridgeIInv => RelayedAtMostOnce
  BY DEF BridgeIInv, Proper, RelayedAtMostOnce
<1> QED
  BY BridgeInitOK, BridgeStep, <1>1, PTL DEF BridgeSpec

\* A bridge's last id was handled, and only delivered entries are pending.
AcksFollow ==
  /\ AckedWasHandled
  /\ bridgePending \subseteq 1..cursor
  /\ \A b \in Bridge : bridge[b].last_id # 0 => bridge[b].last_id \in handled

LEMMA AckStep == BridgeIInv /\ AcksFollow /\ [BridgeNext]_bridgeVars => AcksFollow'
<1> SUFFICES ASSUME BridgeIInv, AcksFollow, [BridgeNext]_bridgeVars PROVE AcksFollow'
  OBVIOUS
<1>0. BridgeTypes /\ cursor \in Nat /\ Len(stream) \in Nat /\ BatchSize \in Nat
  BY BridgeNumbers, BridgeAssumption DEF BridgeIInv
<1>1. CASE UNCHANGED <<cursor, bridgePending, bridge, handled>>
  BY <1>1 DEF AcksFollow, AckedWasHandled
<1>2. ASSUME NEW b \in Bridge, NEW r, r.last_id = 0, bridge' = [bridge EXCEPT ![b] = r],
             UNCHANGED <<cursor, bridgePending, handled>>
      PROVE  AcksFollow'
  <2>1. \A c \in Bridge : bridge'[c].last_id = 0 \/ bridge'[c].last_id = bridge[c].last_id
    BY <1>0, <1>2 DEF BridgeTypes
  <2> QED
    BY <1>2, <2>1 DEF AcksFollow, AckedWasHandled
<1>3. ASSUME NEW b \in Bridge, ReadGroup(b) PROVE AcksFollow'
  <2> DEFINE n == IF Len(stream) - cursor < BatchSize THEN Len(stream) - cursor ELSE BatchSize
  <2>1. /\ n > 0 /\ cursor' = cursor + n /\ UNCHANGED handled
        /\ bridgePending' = bridgePending \cup (cursor + 1)..(cursor + n)
        /\ bridge' = [bridge EXCEPT ![b].batch = [i \in 1..n |-> cursor + i]]
    BY <1>3 DEF ReadGroup
  <2>2. n \in Nat
    BY <1>0, <2>1
  <2> HIDE DEF n
  <2>3. \A c \in Bridge : bridge'[c].last_id = bridge[c].last_id
    BY <1>0, <2>1 DEF BridgeTypes, BridgeRecord
  <2>4. \A e \in 1..cursor' : e \in 1..cursor \/ e \in (cursor + 1)..(cursor + n)
    BY <1>0, <2>1, <2>2
  <2>5. \A e : e \in 1..cursor \/ e \in (cursor + 1)..(cursor + n) => e \in 1..cursor'
    BY <1>0, <2>1, <2>2
  <2> QED
    BY <2>1, <2>3, <2>4, <2>5 DEF AcksFollow, AckedWasHandled
<1>4. ASSUME NEW b \in Bridge, RelayEntry(b) PROVE AcksFollow'
  <2> DEFINE e == Head(bridge[b].batch)
  <2>1. /\ handled' = handled \cup {e} /\ UNCHANGED <<cursor, bridgePending>>
        /\ bridge' = [bridge EXCEPT ![b].batch = Tail(@), ![b].last_id = e]
    BY <1>4 DEF RelayEntry
  <2> HIDE DEF e
  <2>2. bridge'[b].last_id = e /\ \A c \in Bridge : c # b => bridge'[c] = bridge[c]
    BY <1>0, <2>1 DEF BridgeTypes, BridgeRecord
  <2>3. \A c \in Bridge : bridge'[c].last_id # 0 => bridge'[c].last_id \in handled'
    <3> SUFFICES ASSUME NEW c \in Bridge, bridge'[c].last_id # 0
                 PROVE  bridge'[c].last_id \in handled'
      OBVIOUS
    <3>1. CASE c = b
      BY <2>1, <2>2, <3>1
    <3>2. CASE c # b
      <4>1. bridge'[c].last_id = bridge[c].last_id
        BY <2>2, <3>2
      <4> QED
        BY <2>1, <4>1 DEF AcksFollow
    <3> QED
      BY <3>1, <3>2
  <2>4. AckedWasHandled'
    BY <2>1 DEF AcksFollow, AckedWasHandled
  <2> QED
    BY <2>1, <2>3, <2>4 DEF AcksFollow
<1>5. ASSUME NEW b \in Bridge, AckLast(b) PROVE AcksFollow'
  <2>1. /\ bridge[b].last_id \in bridgePending /\ UNCHANGED <<cursor, bridge, handled>>
        /\ bridgePending' = bridgePending \ {bridge[b].last_id}
    BY <1>5 DEF AckLast
  <2>2. bridge[b].last_id # 0
    BY <1>0, <2>1 DEF AcksFollow
  <2> QED
    BY <2>1, <2>2 DEF AcksFollow, AckedWasHandled
<1>6. ASSUME NEW b \in Bridge, BridgeConnect(b) \/ BridgeCrash(b) PROVE AcksFollow'
  <2>1. /\ UNCHANGED <<cursor, bridgePending, handled>>
        /\ \/ bridge' = [bridge EXCEPT ![b] = [BridgeIdle EXCEPT !.up = TRUE]]
           \/ bridge' = [bridge EXCEPT ![b] = BridgeIdle]
    BY <1>6 DEF BridgeConnect, BridgeCrash
  <2>2. BridgeIdle.last_id = 0 /\ [BridgeIdle EXCEPT !.up = TRUE].last_id = 0
    BY DEF BridgeIdle
  <2> QED
    BY <1>2, <2>1, <2>2, Zenon
<1>7. CASE BridgeNext
  BY <1>1, <1>3, <1>4, <1>5, <1>6, <1>7 DEF BridgeNext, BridgePublish
<1> QED
  BY <1>1, <1>7 DEF bridgeVars

(* For any bridges, batches and crashes: what was acknowledged was handled *)
(* first, so what a crash cuts short is still pending in the group.        *)
THEOREM AckedWereHandled == BridgeSpec => []AckedWasHandled
<1>1. BridgeInit => AcksFollow
  BY DEF BridgeInit, AcksFollow, AckedWasHandled, BridgeIdle
<1>2. BridgeSpec => []BridgeIInv
  BY BridgeInitOK, BridgeStep, PTL DEF BridgeSpec
<1>3. BridgeSpec => []AcksFollow
  BY <1>1, <1>2, AckStep, PTL DEF BridgeSpec
<1>4. AcksFollow => AckedWasHandled
  BY DEF AcksFollow
<1> QED
  BY <1>3, <1>4, PTL

-----------------------------------------------------------------------------
(* cdc-shim                                                                *)

CdcSpec == CdcInit /\ [][CdcNext]_cdcVars

CdcRecord ==
  [captured: 0..MaxEvents, published: 0..MaxEvents, failed: 0..MaxEvents,
   pending: Seq(1..MaxEvents), ring: Seq(1..MaxEvents), pos: Nat,
   sums: [CdcKey -> Checksums \cup {NoSum}], polled: BOOLEAN]
BatchRecord ==
  [events: Seq(1..MaxEvents), next: Nat, tries: 0..WebhookRetries, got: Nat]

\* The number before the first event that is neither drained nor delivered,
\* and the number of the event being delivered or next to be.
Base == cdc.captured - Len(cdc.pending) - Len(sending.events)
Current == Base + sending.next

\* What is pending and what is in flight are the last numbers captured.
FeedInv ==
  /\ CdcTypeOK
  /\ CapturedAreAccounted
  /\ \A i \in 1..Len(cdc.pending) :
       cdc.pending[i] = cdc.captured - Len(cdc.pending) + i
  /\ \A i \in 1..Len(sending.events) : sending.events[i] = Base + i
  /\ sending.next \in 1..(Len(sending.events) + 1)
  /\ sending.next = Len(sending.events) + 1 => sending.tries = 0

LEMMA FeedTypes ==
  ASSUME CdcTypeOK
  PROVE  /\ cdc \in CdcRecord /\ sending \in BatchRecord
         /\ cdc.captured \in 0..MaxEvents /\ cdc.published \in 0..MaxEvents
         /\ cdc.failed \in 0..MaxEvents
         /\ cdc.pending \in Seq(1..MaxEvents) /\ Len(cdc.pending) \in Nat
         /\ cdc.ring \in Seq(1..MaxEvents)
         /\ sending.events \in Seq(1..MaxEvents) /\ Len(sending.events) \in Nat
         /\ sending.next \in Nat /\ sending.tries \in 0..WebhookRetries
         /\ sending.got \in Nat
<1>1. cdc \in CdcRecord /\ sending \in BatchRecord
  BY DEF CdcTypeOK, CdcRecord, BatchRecord
<1>2. /\ cdc.captured \in 0..MaxEvents /\ cdc.published \in 0..MaxEvents
      /\ cdc.failed \in 0..MaxEvents
      /\ cdc.pending \in Seq(1..MaxEvents) /\ cdc.ring \in Seq(1..MaxEvents)
  BY <1>1 DEF CdcRecord
<1>3. /\ sending.events \in Seq(1..MaxEvents) /\ sending.next \in Nat
      /\ sending.tries \in 0..WebhookRetries /\ sending.got \in Nat
  BY <1>1 DEF BatchRecord
<1> QED
  BY <1>1, <1>2, <1>3

LEMMA IdleIs ==
  /\ Idle.events = << >> /\ Idle.next = 1 /\ Idle.tries = 0 /\ Idle.got = 0
  /\ Len(Idle.events) = 0 /\ Idle \in BatchRecord
BY CdcAssumption DEF Idle, BatchRecord

\* The same batch, with numbers that keep the books.
LEMMA FeedRestored ==
  ASSUME cdcSetup' \in [feed: CdcFeeds, output: CdcOutputs],
         changes' \in [pos: WalPosition \cup {0}, sums: [CdcKey -> Checksums \cup {NoSum}]],
         cdc' \in CdcRecord, sending' \in BatchRecord, inbox' \in Seq(1..MaxEvents),
         CapturedAreAccounted',
         \A i \in 1..Len(cdc'.pending) :
           cdc'.pending[i] = cdc'.captured - Len(cdc'.pending) + i,
         \A i \in 1..Len(sending'.events) : sending'.events[i] = Base' + i,
         sending'.next \in 1..(Len(sending'.events) + 1),
         sending'.next = Len(sending'.events) + 1 => sending'.tries = 0
  PROVE  FeedInv'
BY DEF FeedInv, CdcTypeOK, CdcRecord, BatchRecord

\* capture(), n times.
LEMMA CaptureNumbers ==
  ASSUME NEW c \in CdcRecord, NEW n \in Nat, c.captured + n <= MaxEvents,
         \A i \in 1..Len(c.pending) : c.pending[i] = c.captured - Len(c.pending) + i
  PROVE  /\ Capture(c, n) \in CdcRecord
         /\ Capture(c, n).captured = c.captured + n
         /\ Len(Capture(c, n).pending) = Len(c.pending) + n
         /\ Capture(c, n).published = c.published /\ Capture(c, n).failed = c.failed
         /\ \A i \in 1..(Len(c.pending) + n) :
              Capture(c, n).pending[i] = c.captured - Len(c.pending) + i
<1> DEFINE new == [i \in 1..n |-> c.captured + i]
<1>1. /\ c.captured \in 0..MaxEvents /\ c.pending \in Seq(1..MaxEvents)
      /\ Len(c.pending) \in Nat /\ MaxEvents \in Nat
  BY CdcAssumption DEF CdcRecord
<1>2. new \in Seq(1..MaxEvents) /\ Len(new) = n
  <2>1. \A i \in 1..n : c.captured + i \in 1..MaxEvents
    BY <1>1
  <2>2. new \in [1..n -> 1..MaxEvents]
    BY <2>1
  <2> HIDE DEF new
  <2>3. new \in Seq(1..MaxEvents)
    BY <2>2, SeqDef, Zenon
  <2> QED
    BY <2>2, <2>3, LenProperties
<1>3. \A i \in 1..n : new[i] = c.captured + i
  OBVIOUS
<1> HIDE DEF new
<1>4. /\ c.pending \o new \in Seq(1..MaxEvents)
      /\ Len(c.pending \o new) = Len(c.pending) + n
      /\ \A i \in 1..(Len(c.pending) + n) :
           (c.pending \o new)[i] = IF i <= Len(c.pending) THEN c.pending[i]
                                   ELSE new[i - Len(c.pending)]
  BY <1>1, <1>2, ConcatProperties
<1>5. \A i \in 1..(Len(c.pending) + n) :
        (c.pending \o new)[i] = c.captured - Len(c.pending) + i
  <2> TAKE i \in 1..(Len(c.pending) + n)
  <2>1. CASE i <= Len(c.pending)
    BY <1>1, <1>4, <2>1
  <2>2. CASE i > Len(c.pending)
    <3>1. i - Len(c.pending) \in 1..n
      BY <1>1, <2>2
    <3>2. (c.pending \o new)[i] = c.captured + (i - Len(c.pending))
      BY <1>1, <1>3, <1>4, <2>2, <3>1
    <3> QED
      BY <1>1, <3>2
  <2>3. i <= Len(c.pending) \/ i > Len(c.pending)
    BY <1>1
  <2> QED
    BY <2>1, <2>2, <2>3
<1>6. c.captured + n \in 0..MaxEvents
  BY <1>1
<1>7. Capture(c, n) = [c EXCEPT !.captured = c.captured + n, !.pending = c.pending \o new]
  BY DEF Capture, new
<1>8. Capture(c, n) \in CdcRecord
  BY <1>4, <1>6, <1>7 DEF CdcRecord
<1>9. /\ Capture(c, n).captured = c.captured + n
      /\ Capture(c, n).pending = c.pending \o new
      /\ Capture(c, n).published = c.published /\ Capture(c, n).failed = c.failed
  BY <1>7 DEF CdcRecord
<1> QED
  BY <1>4, <1>5, <1>8, <1>9

\* A step that captures n events while no batch is in flight.
LEMMA CaptureKeeps ==
  ASSUME FeedInv, sending = Idle, NEW n \in Nat, cdc.captured + n <= MaxEvents,
         cdc' \in CdcRecord,
         cdc'.captured = Capture(cdc, n).captured,
         cdc'.pending = Capture(cdc, n).pending,
         cdc'.published = cdc.published, cdc'.failed = cdc.failed,
         UNCHANGED <<cdcSetup, changes, sending, inbox>>
  PROVE  FeedInv' /\ Base' = Base
<1>1. CdcTypeOK /\ cdc \in CdcRecord /\ sending \in BatchRecord
  BY FeedTypes DEF FeedInv
<1>2. /\ cdc'.captured = cdc.captured + n
      /\ Len(cdc'.pending) = Len(cdc.pending) + n
      /\ \A i \in 1..(Len(cdc.pending) + n) :
           cdc'.pending[i] = cdc.captured - Len(cdc.pending) + i
  BY <1>1, CaptureNumbers DEF FeedInv
<1>3. /\ Len(sending.events) = 0 /\ sending.next = 1 /\ sending.tries = 0
  BY IdleIs
<1>4. /\ cdc.captured \in Nat /\ cdc.published \in Nat /\ cdc.failed \in Nat
      /\ Len(cdc.pending) \in Nat
  BY <1>1, FeedTypes, CdcAssumption
<1>5. CapturedAreAccounted'
  BY <1>2, <1>3, <1>4 DEF FeedInv, CapturedAreAccounted
<1>6. Base' = Base
  BY <1>2, <1>3, <1>4 DEF Base
<1>7. \A i \in 1..Len(cdc'.pending) :
        cdc'.pending[i] = cdc'.captured - Len(cdc'.pending) + i
  BY <1>2, <1>4
<1>8. \A i \in 1..Len(sending'.events) : sending'.events[i] = Base' + i
  BY <1>3
<1>9. sending'.next \in 1..(Len(sending'.events) + 1)
      /\ (sending'.next = Len(sending'.events) + 1 => sending'.tries = 0)
  BY <1>3
<1> QED
  BY <1>1, <1>5, <1>6, <1>7, <1>8, <1>9, FeedRestored DEF CdcTypeOK

LEMMA DrainedIs ==
  ASSUME CdcTypeOK, cdc.pending # << >>
  PROVE  \E n \in 1..Len(cdc.pending) :
           /\ Drained.batch \in Seq(1..MaxEvents) /\ Drained.rest \in Seq(1..MaxEvents)
           /\ Len(Drained.batch) = n /\ Len(Drained.rest) = Len(cdc.pending) - n
           /\ \A i \in 1..n : Drained.batch[i] = cdc.pending[i]
           /\ \A i \in 1..(Len(cdc.pending) - n) : Drained.rest[i] = cdc.pending[n + i]
<1> DEFINE p == cdc.pending
           P == Len(cdc.pending)
           n == IF P < BatchMax THEN P ELSE BatchMax
<1>1. p \in Seq(1..MaxEvents) /\ P \in Nat
  BY FeedTypes
<1>2. P > 0
  BY <1>1, EmptySeq
<1>3. n \in 1..P
  BY <1>1, <1>2, CdcAssumption
<1>4. Drained.batch = SubSeq(p, 1, n) /\ Drained.rest = SubSeq(p, n + 1, P)
  BY DEF Drained
<1> HIDE DEF n, p
<1>5. \A i \in 1..P : p[i] \in 1..MaxEvents
  <2> TAKE i \in 1..P
  <2>1. i \in 1..Len(p)
    BY DEF p
  <2> QED
    BY <1>1, <2>1, ElementOfSeq
<1> HIDE DEF P
<1>6. /\ SubSeq(p, 1, n) \in Seq(1..MaxEvents) /\ Len(SubSeq(p, 1, n)) = n
      /\ \A i \in 1..n : SubSeq(p, 1, n)[i] = p[i]
  <2>1. \A i \in 1..n : p[i] \in 1..MaxEvents
    BY <1>1, <1>3, <1>5
  <2>2. /\ SubSeq(p, 1, n) \in Seq(1..MaxEvents)
        /\ Len(SubSeq(p, 1, n)) = IF 1 <= n THEN n - 1 + 1 ELSE 0
        /\ \A i \in 1..(n - 1 + 1) : SubSeq(p, 1, n)[i] = p[1 + i - 1]
    BY <1>1, <1>3, <2>1, SubSeqProperties
  <2> QED
    BY <1>1, <1>3, <2>2
<1>7. /\ SubSeq(p, n + 1, P) \in Seq(1..MaxEvents) /\ Len(SubSeq(p, n + 1, P)) = P - n
      /\ \A i \in 1..(P - n) : SubSeq(p, n + 1, P)[i] = p[n + i]
  <2>1. \A i \in (n + 1)..P : p[i] \in 1..MaxEvents
    BY <1>1, <1>3, <1>5
  <2>2. /\ SubSeq(p, n + 1, P) \in Seq(1..MaxEvents)
        /\ Len(SubSeq(p, n + 1, P)) = IF n + 1 <= P THEN P - (n + 1) + 1 ELSE 0
        /\ \A i \in 1..(P - (n + 1) + 1) : SubSeq(p, n + 1, P)[i] = p[(n + 1) + i - 1]
    BY <1>1, <1>3, <2>1, SubSeqProperties
  <2>3. (IF n + 1 <= P THEN P - (n + 1) + 1 ELSE 0) = P - n /\ P - (n + 1) + 1 = P - n
    BY <1>1, <1>3
  <2>4. \A i \in 1..(P - n) : (n + 1) + i - 1 = n + i
    BY <1>1, <1>3
  <2> QED
    BY <2>2, <2>3, <2>4
<1> QED
  BY <1>3, <1>4, <1>6, <1>7 DEF p, P

LEMMA RingTypes ==
  ASSUME NEW ring \in Seq(1..MaxEvents), NEW events \in Seq(1..MaxEvents)
  PROVE  PushToRing(ring, events) \in Seq(1..MaxEvents)
<1> DEFINE all == ring \o events
<1>1. all \in Seq(1..MaxEvents) /\ Len(all) \in Nat
  BY ConcatProperties, LenProperties
<1> HIDE DEF all
<1>2. CASE Len(all) <= RingCapacity
  BY <1>1, <1>2 DEF PushToRing, all
<1>3. CASE ~(Len(all) <= RingCapacity)
  <2>1. Len(all) - RingCapacity + 1 \in 1..Len(all)
    BY <1>1, <1>3, CdcAssumption
  <2>2. \A i \in (Len(all) - RingCapacity + 1)..Len(all) : all[i] \in 1..MaxEvents
    <3> TAKE i \in (Len(all) - RingCapacity + 1)..Len(all)
    <3>1. i \in 1..Len(all)
      BY <1>1, <2>1
    <3> QED
      BY <1>1, <3>1, ElementOfSeq
  <2>3. SubSeq(all, Len(all) - RingCapacity + 1, Len(all)) \in Seq(1..MaxEvents)
    BY <1>1, <2>1, <2>2, SubSeqProperties
  <2> QED
    BY <1>3, <2>3 DEF PushToRing, all
<1> QED
  BY <1>2, <1>3

\* n events leave pending_events and are counted, with no batch in flight.
LEMMA CountedKeeps ==
  ASSUME FeedInv, sending = Idle, NEW n \in 0..Len(cdc.pending), cdc' \in CdcRecord,
         cdc'.captured = cdc.captured,
         Len(cdc'.pending) = Len(cdc.pending) - n,
         \A i \in 1..(Len(cdc.pending) - n) : cdc'.pending[i] = cdc.pending[n + i],
         cdc'.published + cdc'.failed = cdc.published + cdc.failed + n,
         UNCHANGED <<cdcSetup, changes, sending, inbox>>
  PROVE  FeedInv' /\ Base' = Base + n
<1>1. CdcTypeOK /\ sending \in BatchRecord
  BY FeedTypes DEF FeedInv
<1>2. /\ cdc.captured \in Nat /\ cdc.published \in Nat /\ cdc.failed \in Nat
      /\ Len(cdc.pending) \in Nat /\ cdc'.published \in Nat /\ cdc'.failed \in Nat
  BY <1>1, FeedTypes, CdcAssumption DEF CdcRecord
<1>3. Len(sending.events) = 0 /\ sending.next = 1 /\ sending.tries = 0
  BY IdleIs
<1>4. CapturedAreAccounted'
  BY <1>2, <1>3 DEF FeedInv, CapturedAreAccounted
<1>5. Base' = Base + n
  BY <1>2, <1>3 DEF Base
<1>6. \A i \in 1..Len(cdc'.pending) :
        cdc'.pending[i] = cdc'.captured - Len(cdc'.pending) + i
  <2> TAKE i \in 1..Len(cdc'.pending)
  <2>1. i \in 1..(Len(cdc.pending) - n) /\ n + i \in 1..Len(cdc.pending)
    BY <1>2
  <2>2. cdc'.pending[i] = cdc.captured - Len(cdc.pending) + (n + i)
    BY <2>1 DEF FeedInv
  <2> QED
    BY <1>2, <2>1, <2>2
<1>7. \A i \in 1..Len(sending'.events) : sending'.events[i] = Base' + i
  BY <1>3
<1>8. sending'.next \in 1..(Len(sending'.events) + 1)
      /\ (sending'.next = Len(sending'.events) + 1 => sending'.tries = 0)
  BY <1>3
<1> QED
  BY <1>1, <1>4, <1>5, <1>6, <1>7, <1>8, FeedRestored DEF CdcTypeOK

LEMMA SumOfParts ==
  ASSUME NEW c \in Nat, NEW a \in Nat, NEW b \in Nat, NEW p \in Nat, NEW e \in Nat,
         c = a + b + p + e, NEW n \in 0..(p + e), NEW m \in Nat, c <= m
  PROVE  a + n \in 0..m /\ b + n \in 0..m
OBVIOUS

\* The counters have room for what is pending or in flight.
LEMMA RoomToCount ==
  ASSUME FeedInv, NEW n \in 0..(Len(cdc.pending) + Len(sending.events))
  PROVE  cdc.published + n \in 0..MaxEvents /\ cdc.failed + n \in 0..MaxEvents
<1>1. CdcTypeOK
  BY DEF FeedInv
<1>2. /\ cdc.captured \in 0..MaxEvents /\ cdc.published \in 0..MaxEvents
      /\ cdc.failed \in 0..MaxEvents /\ Len(cdc.pending) \in Nat
      /\ Len(sending.events) \in Nat /\ MaxEvents \in Nat
  BY <1>1, FeedTypes, CdcAssumption
<1>3. cdc.captured = cdc.published + cdc.failed + Len(cdc.pending) + Len(sending.events)
  BY DEF FeedInv, CapturedAreAccounted
<1>4. cdc.captured \in Nat /\ cdc.captured <= MaxEvents /\ cdc.published \in Nat
      /\ cdc.failed \in Nat
  BY <1>2
<1> QED
  BY <1>2, <1>3, <1>4, SumOfParts

\* publish_batch hands a batch to the webhook.
LEMMA DrainKeeps ==
  ASSUME FeedInv, PublishWebhook
  PROVE  FeedInv' /\ Base' = Base /\ sending'.next = 1 /\ sending'.tries = 0
         /\ sending.next = 1 /\ sending.tries = 0
<1>1. CdcTypeOK /\ cdc \in CdcRecord
  BY FeedTypes DEF FeedInv
<1>2. PICK n \in 1..Len(cdc.pending) :
           /\ Drained.batch \in Seq(1..MaxEvents) /\ Drained.rest \in Seq(1..MaxEvents)
           /\ Len(Drained.batch) = n /\ Len(Drained.rest) = Len(cdc.pending) - n
           /\ \A i \in 1..n : Drained.batch[i] = cdc.pending[i]
           /\ \A i \in 1..(Len(cdc.pending) - n) : Drained.rest[i] = cdc.pending[n + i]
  BY <1>1, DrainedIs DEF PublishWebhook
<1>3. /\ sending' = [Idle EXCEPT !.events = Drained.batch]
      /\ cdc' = [cdc EXCEPT !.pending = Drained.rest]
      /\ UNCHANGED <<cdcSetup, changes, inbox>> /\ sending = Idle
  BY DEF PublishWebhook, MayPublish
<1>4. /\ sending'.events = Drained.batch /\ sending'.next = 1 /\ sending'.tries = 0
      /\ sending' \in BatchRecord
  <2> DEFINE batch == Drained.batch
  <2>1. batch \in Seq(1..MaxEvents) /\ sending' = [Idle EXCEPT !.events = batch]
    BY <1>2, <1>3
  <2> HIDE DEF batch
  <2>2. sending'.events = batch /\ sending'.next = 1 /\ sending'.tries = 0
    BY <2>1 DEF Idle
  <2>3. sending' \in BatchRecord
    BY <2>1, IdleIs DEF BatchRecord
  <2> QED
    BY <2>2, <2>3 DEF batch
<1>5. cdc' \in CdcRecord
  BY <1>1, <1>2, <1>3 DEF CdcRecord
<1>6. /\ cdc'.pending = Drained.rest /\ cdc'.captured = cdc.captured
      /\ cdc'.published = cdc.published /\ cdc'.failed = cdc.failed
  BY <1>1, <1>3 DEF CdcRecord
<1>7. /\ cdc.captured \in Nat /\ cdc.published \in Nat /\ cdc.failed \in Nat
      /\ Len(cdc.pending) \in Nat
  BY <1>1, FeedTypes, CdcAssumption
<1>8. Len(sending.events) = 0 /\ sending.next = 1 /\ sending.tries = 0
  BY <1>3, IdleIs
<1>14. Len(sending'.events) = n /\ Len(cdc'.pending) = Len(cdc.pending) - n
  BY <1>2, <1>4, <1>6
<1>15. cdc.captured = cdc.published + cdc.failed + Len(cdc.pending) + Len(sending.events)
  BY DEF FeedInv, CapturedAreAccounted
<1>9. CapturedAreAccounted'
  <2>1. cdc'.captured = cdc'.published + cdc'.failed + Len(cdc'.pending)
                        + Len(sending'.events)
    BY <1>6, <1>7, <1>8, <1>14, <1>15
  <2> QED
    BY <2>1 DEF CapturedAreAccounted
<1>10. Base' = Base /\ Base = cdc.captured - Len(cdc.pending)
  <2>1. Base' = cdc'.captured - Len(cdc'.pending) - Len(sending'.events)
    BY DEF Base
  <2>2. Base = cdc.captured - Len(cdc.pending) - Len(sending.events)
    BY DEF Base
  <2> QED
    BY <1>6, <1>7, <1>8, <1>14, <2>1, <2>2
<1>11. \A i \in 1..Len(cdc'.pending) :
         cdc'.pending[i] = cdc'.captured - Len(cdc'.pending) + i
  <2> TAKE i \in 1..Len(cdc'.pending)
  <2>1. i \in 1..(Len(cdc.pending) - n) /\ n + i \in 1..Len(cdc.pending)
    BY <1>2, <1>6, <1>7
  <2>2. cdc'.pending[i] = cdc.captured - Len(cdc.pending) + (n + i)
    BY <1>2, <1>6, <2>1 DEF FeedInv
  <2> QED
    BY <1>6, <1>7, <1>14, <2>1, <2>2
<1>12. \A i \in 1..Len(sending'.events) : sending'.events[i] = Base' + i
  <2> TAKE i \in 1..Len(sending'.events)
  <2>1. i \in 1..n /\ i \in 1..Len(cdc.pending)
    BY <1>2, <1>4, <1>7
  <2>2. sending'.events[i] = cdc.pending[i]
    BY <1>2, <1>4, <2>1
  <2>3. cdc.pending[i] = cdc.captured - Len(cdc.pending) + i
    BY <2>1 DEF FeedInv
  <2> QED
    BY <1>10, <2>2, <2>3
<1>13. sending'.next \in 1..(Len(sending'.events) + 1)
       /\ (sending'.next = Len(sending'.events) + 1 => sending'.tries = 0)
  BY <1>4, <1>7, <1>14
<1> QED
  BY <1>1, <1>3, <1>4, <1>5, <1>8, <1>9, <1>10, <1>11, <1>12, <1>13, FeedRestored
  DEF CdcTypeOK

\* The batch is over and counted.
LEMMA EndKeeps ==
  ASSUME FeedInv, BatchEnds
  PROVE  FeedInv' /\ Current' = Current /\ sending.tries = 0 /\ sending'.tries = 0
<1> DEFINE E == Len(sending.events)
<1>1. CdcTypeOK /\ cdc \in CdcRecord
  BY FeedTypes DEF FeedInv
<1>2. /\ cdc.captured \in Nat /\ cdc.published \in Nat /\ cdc.failed \in Nat
      /\ Len(cdc.pending) \in Nat /\ E \in Nat /\ sending.next \in Nat
      /\ sending.events \in Seq(1..MaxEvents) /\ cdc.ring \in Seq(1..MaxEvents)
  BY <1>1, FeedTypes, CdcAssumption
<1>3. sending.next = E + 1 /\ sending.tries = 0
  BY <1>2 DEF BatchEnds, FeedInv
<1>4. cdc.published + E \in 0..MaxEvents /\ cdc.failed + E \in 0..MaxEvents
  <2>1. Len(sending.events) \in 0..(Len(cdc.pending) + Len(sending.events))
    <3> DEFINE P == Len(cdc.pending)
    <3>1. P \in Nat /\ E \in Nat
      BY <1>2
    <3> HIDE DEF P, E
    <3>2. E \in 0..(P + E)
      BY <3>1
    <3> QED
      BY <3>2 DEF P, E
  <2> QED
    BY <2>1, RoomToCount
<1>5. PushToRing(cdc.ring, sending.events) \in Seq(1..MaxEvents)
  BY <1>2, RingTypes
<1> DEFINE ring == PushToRing(cdc.ring, sending.events)
<1>6. \/ cdc' = [cdc EXCEPT !.published = cdc.published + E, !.ring = ring, !.polled = FALSE]
      \/ cdc' = [cdc EXCEPT !.failed = cdc.failed + E, !.polled = FALSE]
  BY DEF BatchEnds
<1> HIDE DEF E, ring
<1>7. cdc' \in CdcRecord
  BY <1>1, <1>4, <1>5, <1>6 DEF CdcRecord, ring
<1>8. /\ cdc'.captured = cdc.captured /\ cdc'.pending = cdc.pending
      /\ \/ cdc'.published = cdc.published + E /\ cdc'.failed = cdc.failed
         \/ cdc'.published = cdc.published /\ cdc'.failed = cdc.failed + E
  BY <1>1, <1>6 DEF CdcRecord
<1>9. sending' = Idle /\ UNCHANGED <<cdcSetup, changes, inbox>>
  BY DEF BatchEnds
<1>10. Len(sending'.events) = 0 /\ sending'.next = 1 /\ sending'.tries = 0
       /\ sending' \in BatchRecord
  BY <1>9, IdleIs
<1>11. cdc.captured = cdc.published + cdc.failed + Len(cdc.pending) + E
  BY DEF FeedInv, CapturedAreAccounted, E
<1>12. CapturedAreAccounted'
  <2>1. cdc'.captured = cdc'.published + cdc'.failed + Len(cdc'.pending)
                        + Len(sending'.events)
    <3> DEFINE P == Len(cdc.pending)
    <3>1. P \in Nat /\ cdc.captured = cdc.published + cdc.failed + P + E
      BY <1>2, <1>11
    <3>2. Len(cdc'.pending) = P
      BY <1>8
    <3> HIDE DEF P
    <3>3. CASE cdc'.published = cdc.published + E /\ cdc'.failed = cdc.failed
      BY <1>2, <1>8, <1>10, <3>1, <3>2, <3>3
    <3>4. CASE cdc'.published = cdc.published /\ cdc'.failed = cdc.failed + E
      BY <1>2, <1>8, <1>10, <3>1, <3>2, <3>4
    <3> QED
      BY <1>8, <3>3, <3>4
  <2> QED
    BY <2>1 DEF CapturedAreAccounted
<1>13. Current' = Current
  BY <1>2, <1>3, <1>8, <1>10 DEF Current, Base, E
<1>14. \A i \in 1..Len(cdc'.pending) :
         cdc'.pending[i] = cdc'.captured - Len(cdc'.pending) + i
  BY <1>8 DEF FeedInv
<1>15. \A i \in 1..Len(sending'.events) : sending'.events[i] = Base' + i
  BY <1>10
<1>16. sending'.next \in 1..(Len(sending'.events) + 1)
       /\ (sending'.next = Len(sending'.events) + 1 => sending'.tries = 0)
  BY <1>10
<1> QED
  BY <1>1, <1>3, <1>7, <1>9, <1>10, <1>12, <1>13, <1>14, <1>15, <1>16, FeedRestored
  DEF CdcTypeOK

\* A POST moves on to the next event, or counts one attempt more.
LEMMA PostKeeps ==
  ASSUME FeedInv, sending.next <= Len(sending.events), UNCHANGED <<cdcSetup, changes, cdc>>,
         inbox' = inbox \/ inbox' = Append(inbox, sending.events[sending.next]),
         \/ sending' = [sending EXCEPT !.next = @ + 1, !.tries = 0, !.got = @ + 1]
         \/ sending' = [sending EXCEPT !.next = @ + 1, !.tries = 0]
         \/ /\ sending.tries < WebhookRetries
            /\ sending' = [sending EXCEPT !.tries = @ + 1]
  PROVE  /\ FeedInv'
         /\ Current \in 1..MaxEvents /\ sending.events[sending.next] = Current
         /\ \/ Current' = Current + 1 /\ sending'.tries = 0
            \/ Current' = Current /\ sending'.tries = sending.tries + 1
<1> DEFINE E == Len(sending.events)
<1>1. CdcTypeOK /\ sending \in BatchRecord /\ cdc \in CdcRecord /\ inbox \in Seq(1..MaxEvents)
  BY FeedTypes DEF FeedInv, CdcTypeOK
<1>2. /\ sending.next \in Nat /\ sending.tries \in 0..WebhookRetries /\ sending.got \in Nat
      /\ E \in Nat /\ sending.events \in Seq(1..MaxEvents)
      /\ cdc.captured \in Nat /\ Len(cdc.pending) \in Nat /\ WebhookRetries \in Nat
  BY <1>1, FeedTypes, CdcAssumption
<1>3. sending.next \in 1..E
  BY <1>2 DEF FeedInv
<1>4. sending.events[sending.next] = Current /\ Current \in 1..MaxEvents
  <2>1. sending.events[sending.next] = Current
    BY <1>3 DEF FeedInv, Current
  <2>2. sending.events[sending.next] \in 1..MaxEvents
    BY <1>2, <1>3, ElementOfSeq
  <2> QED
    BY <2>1, <2>2
<1>5. inbox' \in Seq(1..MaxEvents)
  <2>1. Append(inbox, Current) \in Seq(1..MaxEvents)
    BY <1>1, <1>4, AppendProperties
  <2> QED
    BY <1>1, <1>4, <2>1
<1>6. sending' \in BatchRecord /\ sending'.events = sending.events
  <2>0. sending.next + 1 \in Nat /\ sending.got + 1 \in Nat /\ 0 \in 0..WebhookRetries
    BY <1>2
  <2>1. CASE sending' = [sending EXCEPT !.next = @ + 1, !.tries = 0, !.got = @ + 1]
    <3>1. sending' = [events |-> sending.events, next |-> sending.next + 1, tries |-> 0,
                      got |-> sending.got + 1]
      BY <1>1, <2>1 DEF BatchRecord
    <3> QED
      BY <1>2, <2>0, <3>1 DEF BatchRecord
  <2>2. CASE sending' = [sending EXCEPT !.next = @ + 1, !.tries = 0]
    <3>1. sending' = [events |-> sending.events, next |-> sending.next + 1, tries |-> 0,
                      got |-> sending.got]
      BY <1>1, <2>2 DEF BatchRecord
    <3> QED
      BY <1>2, <2>0, <3>1 DEF BatchRecord
  <2>3. CASE sending.tries < WebhookRetries /\ sending' = [sending EXCEPT !.tries = @ + 1]
    <3>1. sending.tries + 1 \in 0..WebhookRetries
      BY <1>2, <2>3
    <3> QED
      BY <1>1, <2>3, <3>1 DEF BatchRecord
  <2> QED
    BY <2>1, <2>2, <2>3
<1>7. \/ sending'.next = sending.next + 1 /\ sending'.tries = 0
      \/ sending'.next = sending.next /\ sending'.tries = sending.tries + 1
  BY <1>1 DEF BatchRecord
<1>8. Base' = Base /\ Base \in Int
  BY <1>2, <1>6 DEF Base
<1>9. \/ Current' = Current + 1 /\ sending'.tries = 0
      \/ Current' = Current /\ sending'.tries = sending.tries + 1
  BY <1>2, <1>7, <1>8 DEF Current
<1>10. CapturedAreAccounted'
  BY <1>6 DEF FeedInv, CapturedAreAccounted
<1>11. \A i \in 1..Len(sending'.events) : sending'.events[i] = Base' + i
  BY <1>6, <1>8 DEF FeedInv
<1>12. \A i \in 1..Len(cdc'.pending) :
         cdc'.pending[i] = cdc'.captured - Len(cdc'.pending) + i
  BY DEF FeedInv
<1>13. sending'.next \in 1..(Len(sending'.events) + 1)
       /\ (sending'.next = Len(sending'.events) + 1 => sending'.tries = 0)
  <2> HIDE DEF E
  <2>1. /\ sending'.next \in 1..(E + 1) /\ (sending'.next = E + 1 => sending'.tries = 0)
    BY <1>2, <1>3, <1>7
  <2> QED
    BY <1>6, <2>1 DEF E
<1> QED
  BY <1>1, <1>4, <1>5, <1>6, <1>9, <1>10, <1>11, <1>12, <1>13, FeedRestored DEF CdcTypeOK

Copies(e) == {i \in 1..Len(inbox) : inbox[i] = e}

\* The receiver has nothing newer than the event being delivered, and of that
\* one at most a copy for each attempt that did not end it.
InboxInv ==
  /\ \A i \in 1..(Len(inbox) - 1) : inbox[i] <= inbox[i + 1]
  /\ \A i \in 1..Len(inbox) : /\ inbox[i] <= Current
                              /\ sending.tries = 0 => inbox[i] < Current
  /\ Cardinality(Copies(Current)) <= sending.tries
  /\ \A e \in 1..MaxEvents : Cardinality(Copies(e)) <= WebhookRetries + 1

LEMMA CurrentIsInt == ASSUME CdcTypeOK PROVE Current \in Int
<1>1. cdc.captured \in Nat /\ Len(cdc.pending) \in Nat /\ Len(sending.events) \in Nat
      /\ sending.next \in Nat
  BY FeedTypes, CdcAssumption
<1> QED
  BY <1>1 DEF Current, Base

LEMMA NextCurrentIsInt == CdcTypeOK' => Current' \in Int
<1> DEFINE C == Current \in Int
<1>1. CdcTypeOK => C
  BY CurrentIsInt
<1> HIDE DEF C
<1>2. CdcTypeOK' => C'
  BY <1>1, PTL
<1> QED
  BY <1>2 DEF C

LEMMA CopiesAreFinite ==
  ASSUME CdcTypeOK, NEW e
  PROVE  IsFiniteSet(Copies(e)) /\ Cardinality(Copies(e)) \in Nat
<1>1. inbox \in Seq(1..MaxEvents)
  BY DEF CdcTypeOK
<1>2. Len(inbox) \in Nat
  BY <1>1, LenProperties
<1>3. IsFiniteSet(1..Len(inbox))
  BY <1>2, FS_Interval
<1>4. Copies(e) \in SUBSET (1..Len(inbox))
  BY DEF Copies
<1>5. IsFiniteSet(Copies(e))
  BY <1>3, <1>4, FS_Subset
<1> QED
  BY <1>5, FS_CardinalityType

LEMMA InboxWaits ==
  ASSUME InboxInv, CdcTypeOK, CdcTypeOK', inbox' = inbox,
         \/ Current' = Current /\ sending'.tries >= sending.tries
         \/ Current' > Current /\ sending'.tries = 0
  PROVE  InboxInv'
<1>1. Current \in Int /\ Current' \in Int
  BY CurrentIsInt, NextCurrentIsInt
<1>2. /\ sending.tries \in 0..WebhookRetries /\ sending'.tries \in Nat
      /\ WebhookRetries \in Nat
  BY FeedTypes, CdcAssumption DEF CdcTypeOK
<1>3. \A i \in 1..Len(inbox) : inbox[i] \in Int
  <2>1. inbox \in Seq(1..MaxEvents) /\ MaxEvents \in Nat
    BY CdcAssumption DEF CdcTypeOK
  <2>2. \A i \in 1..Len(inbox) : inbox[i] \in 1..MaxEvents
    BY <2>1, ElementOfSeq
  <2> QED
    BY <2>1, <2>2
<1>4. \A e : Copies(e)' = Copies(e)
  BY DEF Copies
<1>5. \A i \in 1..Len(inbox) : /\ inbox[i] <= Current'
                               /\ sending'.tries = 0 => inbox[i] < Current'
  <2> TAKE i \in 1..Len(inbox)
  <2>1. inbox[i] <= Current /\ (sending.tries = 0 => inbox[i] < Current) /\ inbox[i] \in Int
    BY <1>3 DEF InboxInv
  <2> QED
    BY <1>1, <1>2, <2>1
<1>6. Cardinality(Copies(Current')) <= sending'.tries
  <2>1. CASE Current' = Current /\ sending'.tries >= sending.tries
    <3>1. Cardinality(Copies(Current)) \in Nat
      BY CopiesAreFinite
    <3>2. Cardinality(Copies(Current)) <= sending.tries
      BY DEF InboxInv
    <3>3. Cardinality(Copies(Current')) = Cardinality(Copies(Current))
      BY <2>1
    <3> QED
      BY <1>2, <2>1, <3>1, <3>2, <3>3
  <2>2. CASE Current' > Current /\ sending'.tries = 0
    <3>1. \A i \in 1..Len(inbox) : inbox[i] # Current'
      <4> TAKE i \in 1..Len(inbox)
      <4>1. inbox[i] <= Current /\ inbox[i] \in Int
        BY <1>3 DEF InboxInv
      <4> QED
        BY <1>1, <2>2, <4>1
    <3>2. Copies(Current') = {}
      BY <3>1 DEF Copies
    <3>3. Cardinality(Copies(Current')) = 0
      BY <3>2, FS_EmptySet
    <3> QED
      BY <2>2, <3>3
  <2> QED
    BY <2>1, <2>2
<1>7. \A e \in 1..MaxEvents : Cardinality(Copies(e)') <= WebhookRetries + 1
  BY <1>4 DEF InboxInv
<1>8. Cardinality(Copies(Current)') <= sending'.tries
  <2>1. Copies(Current)' = Copies(Current')
    BY DEF Copies
  <2> QED
    BY <1>6, <2>1
<1> QED
  BY <1>5, <1>7, <1>8 DEF InboxInv

LEMMA InboxGets ==
  ASSUME InboxInv, CdcTypeOK, CdcTypeOK', Current \in 1..MaxEvents,
         inbox' = Append(inbox, Current),
         \/ Current' = Current + 1 /\ sending'.tries = 0
         \/ Current' = Current /\ sending'.tries = sending.tries + 1
  PROVE  InboxInv'
<1> DEFINE L == Len(inbox)
<1>1. Current \in Int /\ Current' \in Int
  BY CurrentIsInt, NextCurrentIsInt
<1>2. /\ sending.tries \in 0..WebhookRetries /\ WebhookRetries \in Nat
  BY FeedTypes, CdcAssumption
<1>3. /\ L \in Nat /\ Len(inbox') = L + 1 /\ inbox'[L + 1] = Current
      /\ \A i \in 1..L : inbox'[i] = inbox[i] /\ inbox[i] \in Int
  <2>1. inbox \in Seq(1..MaxEvents) /\ MaxEvents \in Nat
    BY CdcAssumption DEF CdcTypeOK
  <2>2. \A i \in 1..L : inbox[i] \in 1..MaxEvents
    BY <2>1, ElementOfSeq
  <2> QED
    BY <2>1, <2>2, AppendProperties, LenProperties
<1> HIDE DEF L
<1>4. \A i : i \in 1..(L + 1) <=> i \in 1..L \/ i = L + 1
  BY <1>3
<1>5. \A i \in 1..L : inbox[i] <= Current
  BY DEF InboxInv, L
<1>6. \A i \in 1..(Len(inbox') - 1) : inbox'[i] <= inbox'[i + 1]
  <2> TAKE i \in 1..(Len(inbox') - 1)
  <2>1. i \in 1..L /\ inbox'[i] = inbox[i]
    BY <1>3
  <2>2. CASE i = L
    <3>1. inbox'[i + 1] = Current
      BY <1>3, <2>2
    <3> QED
      BY <1>5, <2>1, <3>1
  <2>3. CASE i # L
    <3>1. i \in 1..(Len(inbox) - 1) /\ i + 1 \in 1..L
      BY <1>3, <2>1, <2>3 DEF L
    <3>2. inbox'[i + 1] = inbox[i + 1]
      BY <1>3, <3>1
    <3> QED
      BY <2>1, <3>1, <3>2 DEF InboxInv
  <2> QED
    BY <2>2, <2>3
<1>7. \A i \in 1..Len(inbox') : /\ inbox'[i] <= Current'
                                /\ sending'.tries = 0 => inbox'[i] < Current'
  <2> TAKE i \in 1..Len(inbox')
  <2>1. inbox'[i] \in Int /\ inbox'[i] <= Current
    BY <1>1, <1>3, <1>4, <1>5
  <2>2. sending.tries + 1 # 0
    BY <1>2
  <2> QED
    BY <1>1, <2>1, <2>2
<1> DEFINE Now(e) == {i \in 1..Len(inbox') : inbox'[i] = e}
<1>8. \A e : \A i : i \in Now(e) <=> i \in Copies(e) \/ (i = L + 1 /\ e = Current)
  <2> TAKE e
  <2> TAKE i
  <2>1. i \in Now(e) <=> i \in 1..(L + 1) /\ inbox'[i] = e
    BY <1>3
  <2>2. i \in Copies(e) <=> i \in 1..L /\ inbox[i] = e
    BY DEF Copies, L
  <2>3. L + 1 \notin 1..L
    BY <1>3
  <2> QED
    BY <1>3, <1>4, <2>1, <2>2, <2>3
<1>9. L + 1 \notin Copies(Current)
  BY <1>3 DEF Copies, L
<1> HIDE DEF Now
<1>10. Now(Current) = Copies(Current) \cup {L + 1}
  BY <1>8
<1>11. \A e : e # Current => Now(e) = Copies(e)
  <2> SUFFICES ASSUME NEW e, e # Current PROVE Now(e) = Copies(e)
    OBVIOUS
  <2>1. \A i : i \in Now(e) <=> i \in Copies(e)
    BY <1>8, Zenon
  <2> HIDE DEF Now
  <2> QED
    BY <2>1
<1>12. Cardinality(Now(Current)) = Cardinality(Copies(Current)) + 1
       /\ Cardinality(Copies(Current)) \in Nat
  BY <1>9, <1>10, CopiesAreFinite, FS_AddElement
<1>13. Cardinality(Now(Current)) <= sending.tries + 1
       /\ sending.tries + 1 <= WebhookRetries + 1
  BY <1>2, <1>12 DEF InboxInv
<1>14. \A e \in 1..MaxEvents : Cardinality(Now(e)) <= WebhookRetries + 1
  <2> TAKE e \in 1..MaxEvents
  <2>1. CASE e = Current
    BY <1>2, <1>12, <1>13, <2>1
  <2>2. CASE e # Current
    BY <1>11, <2>2 DEF InboxInv
  <2> QED
    BY <2>1, <2>2
<1>15. Cardinality(Now(Current')) <= sending'.tries
  <2>1. CASE Current' = Current /\ sending'.tries = sending.tries + 1
    BY <1>13, <2>1
  <2>2. CASE Current' = Current + 1 /\ sending'.tries = 0
    <3>1. \A i \in 1..Len(inbox') : inbox'[i] # Current'
      <4> TAKE i \in 1..Len(inbox')
      <4>1. inbox'[i] \in Int /\ inbox'[i] <= Current
        BY <1>1, <1>3, <1>4, <1>5
      <4> QED
        BY <1>1, <2>2, <4>1
    <3>2. Now(Current') = {}
      BY <3>1 DEF Now
    <3> QED
      BY <2>2, <3>2, FS_EmptySet
  <2> QED
    BY <2>1, <2>2
<1>16. \A e : Copies(e)' = Now(e)
  BY DEF Copies, Now
<1>17. Copies(Current)' = Now(Current')
  BY DEF Copies, Now
<1>18. Cardinality(Copies(Current)') <= sending'.tries
  BY <1>15, <1>17
<1>19. \A e \in 1..MaxEvents : Cardinality(Copies(e)') <= WebhookRetries + 1
  BY <1>14, <1>16
<1> QED
  BY <1>6, <1>7, <1>18, <1>19 DEF InboxInv

\* One captured event, or none, and a new position: a poll of the log.
LEMMA PollKeeps ==
  ASSUME FeedInv, sending = Idle, cdc.captured < MaxEvents, NEW new \in Nat,
         cdc' = PollPosition(new), UNCHANGED <<cdcSetup, changes, sending, inbox>>
  PROVE  FeedInv' /\ Base' = Base
<1>1. CdcTypeOK /\ cdc \in CdcRecord /\ cdc.captured \in Nat /\ Len(cdc.pending) \in Nat
      /\ cdc.published \in Nat /\ cdc.failed \in Nat
  BY FeedTypes, CdcAssumption DEF FeedInv
<1>2. cdc.captured + 1 <= MaxEvents
  BY <1>1, CdcAssumption
<1>3. CASE new > cdc.pos
  <2> DEFINE c == Capture(cdc, 1)
  <2>1. /\ c \in CdcRecord /\ c.published = cdc.published /\ c.failed = cdc.failed
    BY <1>1, <1>2, CaptureNumbers DEF FeedInv
  <2>2. cdc' = [c EXCEPT !.pos = new, !.polled = TRUE]
    BY <1>3 DEF PollPosition
  <2> HIDE DEF c
  <2>3. cdc' = [captured |-> c.captured, published |-> c.published, failed |-> c.failed,
                pending |-> c.pending, ring |-> c.ring, pos |-> new, sums |-> c.sums,
                polled |-> TRUE]
    BY <2>1, <2>2 DEF CdcRecord
  <2>4. cdc' \in CdcRecord
    BY <2>1, <2>3 DEF CdcRecord
  <2>5. cdc'.captured = c.captured /\ cdc'.pending = c.pending
        /\ cdc'.published = cdc.published /\ cdc'.failed = cdc.failed
    BY <2>1, <2>3
  <2> QED
    BY <1>2, <2>4, <2>5, CaptureKeeps DEF c
<1>4. CASE ~(new > cdc.pos)
  <2>1. cdc' = [cdc EXCEPT !.polled = TRUE]
    BY <1>4 DEF PollPosition
  <2>2. cdc' \in CdcRecord
    BY <1>1, <2>1 DEF CdcRecord
  <2>3. cdc'.captured = cdc.captured /\ cdc'.pending = cdc.pending
        /\ cdc'.published = cdc.published /\ cdc'.failed = cdc.failed
    BY <1>1, <2>1 DEF CdcRecord
  <2>4. FeedInv' /\ Base' = Base + 0
    <3>1. 0 \in 0..Len(cdc.pending) /\ Len(cdc.pending) - 0 = Len(cdc.pending)
      BY <1>1
    <3>2. \A i \in 1..Len(cdc.pending) : 0 + i = i
      BY <1>1
    <3>3. cdc.published + cdc.failed + 0 = cdc.published + cdc.failed
      BY <1>1
    <3> QED
      BY <2>2, <2>3, <3>1, <3>2, <3>3, CountedKeeps
  <2>5. Base \in Int
    BY <1>1, IdleIs DEF Base
  <2> QED
    BY <2>4, <2>5
<1> QED
  BY <1>3, <1>4

LEMMA RedisKeeps ==
  ASSUME FeedInv, PollRedis PROVE FeedInv' /\ Base' = Base
<1> DEFINE n == Cardinality(ChangedKeys)
           c == Capture(cdc, n)
           sums == [k \in CdcKey |-> IF k \in ChangedKeys THEN changes.sums[k] ELSE cdc.sums[k]]
<1>1. CdcTypeOK /\ cdc \in CdcRecord /\ changes.sums \in [CdcKey -> Checksums \cup {NoSum}]
      /\ cdc.sums \in [CdcKey -> Checksums \cup {NoSum}]
  BY FeedTypes DEF FeedInv, CdcTypeOK
<1>2. n \in Nat
  <2>1. ChangedKeys \in SUBSET CdcKey
    BY DEF ChangedKeys
  <2> QED
    BY <2>1, CdcAssumption, FS_Subset, FS_CardinalityType
<1>3. cdc.captured + n <= MaxEvents /\ sending = Idle
      /\ UNCHANGED <<cdcSetup, changes, sending, inbox>>
  BY DEF PollRedis
<1> HIDE DEF n
<1>4. c \in CdcRecord /\ c.published = cdc.published /\ c.failed = cdc.failed
      /\ c.sums = cdc.sums
  <2>1. c \in CdcRecord /\ c.published = cdc.published /\ c.failed = cdc.failed
    BY <1>1, <1>2, <1>3, CaptureNumbers DEF FeedInv
  <2>2. c.sums = cdc.sums
    BY <1>1 DEF Capture, CdcRecord
  <2> QED
    BY <2>1, <2>2
<1>5. cdc' = [c EXCEPT !.polled = TRUE,
                       !.sums = [k \in CdcKey |-> IF k \in ChangedKeys THEN changes.sums[k]
                                                  ELSE c.sums[k]]]
  BY DEF PollRedis, n
<1> HIDE DEF c
<1>6. cdc' = [c EXCEPT !.polled = TRUE, !.sums = sums]
  BY <1>4, <1>5
<1>7. sums \in [CdcKey -> Checksums \cup {NoSum}]
  BY <1>1
<1> HIDE DEF sums
<1>8. cdc' = [captured |-> c.captured, published |-> c.published, failed |-> c.failed,
              pending |-> c.pending, ring |-> c.ring, pos |-> c.pos, sums |-> sums,
              polled |-> TRUE]
  BY <1>4, <1>6 DEF CdcRecord
<1>9. cdc' \in CdcRecord
  BY <1>4, <1>7, <1>8 DEF CdcRecord
<1>10. cdc'.captured = c.captured /\ cdc'.pending = c.pending
       /\ cdc'.published = cdc.published /\ cdc'.failed = cdc.failed
  BY <1>4, <1>8
<1> QED
  BY <1>2, <1>3, <1>9, <1>10, CaptureKeeps DEF c

\* A batch written to the log, or given up for want of a URL.
LEMMA BatchKeeps ==
  ASSUME FeedInv, PublishLog \/ PublishNowhere
  PROVE  FeedInv' /\ \E n \in Nat : Base' = Base + n
<1>1. CdcTypeOK /\ cdc \in CdcRecord /\ cdc.pending # << >> /\ sending = Idle
      /\ UNCHANGED <<cdcSetup, changes, sending, inbox>>
  BY FeedTypes DEF FeedInv, PublishLog, PublishNowhere, MayPublish
<1>2. PICK n \in 1..Len(cdc.pending) :
           /\ Drained.batch \in Seq(1..MaxEvents) /\ Drained.rest \in Seq(1..MaxEvents)
           /\ Len(Drained.batch) = n /\ Len(Drained.rest) = Len(cdc.pending) - n
           /\ \A i \in 1..n : Drained.batch[i] = cdc.pending[i]
           /\ \A i \in 1..(Len(cdc.pending) - n) : Drained.rest[i] = cdc.pending[n + i]
  BY <1>1, DrainedIs
<1> DEFINE rest == Drained.rest
           ring == PushToRing(cdc.ring, Drained.batch)
<1>3. ring \in Seq(1..MaxEvents) /\ rest \in Seq(1..MaxEvents)
  BY <1>1, <1>2, RingTypes, FeedTypes
<1>4. \/ cdc' = [cdc EXCEPT !.pending = rest, !.polled = FALSE,
                            !.published = cdc.published + n, !.ring = ring]
      \/ cdc' = [cdc EXCEPT !.pending = rest, !.polled = FALSE,
                            !.failed = cdc.failed + n]
  BY <1>2 DEF PublishLog, PublishNowhere
<1>5. cdc.published \in Nat /\ cdc.failed \in Nat /\ Len(cdc.pending) \in Nat
      /\ Len(sending.events) = 0
  BY <1>1, FeedTypes, IdleIs, CdcAssumption
<1>6. cdc.published + n \in 0..MaxEvents /\ cdc.failed + n \in 0..MaxEvents
  <2>1. n \in 0..(Len(cdc.pending) + Len(sending.events))
    BY <1>5
  <2> QED
    BY <2>1, RoomToCount
<1> HIDE DEF rest, ring
<1>7. \/ cdc' = [captured |-> cdc.captured, published |-> cdc.published + n,
                 failed |-> cdc.failed, pending |-> rest, ring |-> ring, pos |-> cdc.pos,
                 sums |-> cdc.sums, polled |-> FALSE]
      \/ cdc' = [captured |-> cdc.captured, published |-> cdc.published,
                 failed |-> cdc.failed + n, pending |-> rest, ring |-> cdc.ring,
                 pos |-> cdc.pos, sums |-> cdc.sums, polled |-> FALSE]
  BY <1>1, <1>4 DEF CdcRecord
<1>8. cdc' \in CdcRecord
  <2>1. /\ cdc.captured \in 0..MaxEvents /\ cdc.published \in 0..MaxEvents
        /\ cdc.failed \in 0..MaxEvents /\ cdc.ring \in Seq(1..MaxEvents)
        /\ cdc.pos \in Nat /\ cdc.sums \in [CdcKey -> Checksums \cup {NoSum}]
    BY <1>1 DEF CdcRecord
  <2> DEFINE a == cdc.published + n
             b == cdc.failed + n
  <2>2. a \in 0..MaxEvents /\ b \in 0..MaxEvents
    BY <1>6
  <2>3. \/ cdc' = [captured |-> cdc.captured, published |-> a,
                   failed |-> cdc.failed, pending |-> rest, ring |-> ring, pos |-> cdc.pos,
                   sums |-> cdc.sums, polled |-> FALSE]
        \/ cdc' = [captured |-> cdc.captured, published |-> cdc.published,
                   failed |-> b, pending |-> rest, ring |-> cdc.ring,
                   pos |-> cdc.pos, sums |-> cdc.sums, polled |-> FALSE]
    BY <1>7
  <2> HIDE DEF a, b
  <2>4. [captured |-> cdc.captured, published |-> a,
         failed |-> cdc.failed, pending |-> rest, ring |-> ring, pos |-> cdc.pos,
         sums |-> cdc.sums, polled |-> FALSE] \in CdcRecord
    BY <1>3, <2>1, <2>2 DEF CdcRecord
  <2>5. [captured |-> cdc.captured, published |-> cdc.published,
         failed |-> b, pending |-> rest, ring |-> cdc.ring,
         pos |-> cdc.pos, sums |-> cdc.sums, polled |-> FALSE] \in CdcRecord
    BY <1>3, <2>1, <2>2 DEF CdcRecord
  <2> QED
    BY <2>3, <2>4, <2>5, Zenon
<1>9. /\ cdc'.captured = cdc.captured /\ cdc'.pending = rest
      /\ \/ cdc'.published = cdc.published + n /\ cdc'.failed = cdc.failed
         \/ cdc'.published = cdc.published /\ cdc'.failed = cdc.failed + n
  BY <1>7
<1>10. cdc'.published + cdc'.failed = cdc.published + cdc.failed + n
  BY <1>5, <1>9
<1>11. n \in 0..Len(cdc.pending) /\ n \in Nat
  BY <1>5
<1>12. FeedInv' /\ Base' = Base + n
  BY <1>1, <1>2, <1>8, <1>9, <1>10, <1>11, CountedKeeps DEF rest
<1> QED
  BY <1>11, <1>12

LEMMA FailKeeps ==
  ASSUME FeedInv, FailPending PROVE FeedInv' /\ \E n \in Nat : Base' = Base + n
<1> DEFINE n == Len(cdc.pending)
<1>1. CdcTypeOK /\ cdc \in CdcRecord /\ sending = Idle
      /\ UNCHANGED <<cdcSetup, changes, sending, inbox>>
  BY FeedTypes DEF FeedInv, FailPending
<1>2. cdc.published \in Nat /\ cdc.failed \in Nat /\ n \in Nat /\ Len(sending.events) = 0
  BY <1>1, FeedTypes, IdleIs, CdcAssumption
<1>3. cdc' = [cdc EXCEPT !.failed = cdc.failed + n, !.pending = << >>]
  BY DEF FailPending
<1>4. cdc.failed + n \in 0..MaxEvents
  <2>1. n \in 0..(Len(cdc.pending) + Len(sending.events))
    BY <1>2
  <2> QED
    BY <2>1, RoomToCount
<1> HIDE DEF n
<1>5. cdc' \in CdcRecord
  BY <1>1, <1>3, <1>4, EmptySeq DEF CdcRecord
<1>6. /\ cdc'.captured = cdc.captured /\ cdc'.pending = << >>
      /\ cdc'.published = cdc.published /\ cdc'.failed = cdc.failed + n
  BY <1>1, <1>3 DEF CdcRecord
<1>7. Len(cdc'.pending) = n - n /\ n \in 0..n
  BY <1>2, <1>6, EmptySeq
<1>8. cdc'.published + cdc'.failed = cdc.published + cdc.failed + n
  BY <1>2, <1>6
<1>9. \A i \in 1..(n - n) : cdc'.pending[i] = cdc.pending[n + i]
  BY <1>2
<1>10. FeedInv' /\ Base' = Base + n
  BY <1>1, <1>5, <1>6, <1>7, <1>8, <1>9, CountedKeeps DEF n
<1> QED
  BY <1>2, <1>10

\* Every step keeps the numbers, and delivers at most the current event.
LEMMA FeedStep ==
  ASSUME FeedInv, [CdcNext]_cdcVars
  PROVE  /\ FeedInv'
         /\ \/ /\ inbox' = inbox
               /\ \/ Current' = Current /\ sending'.tries >= sending.tries
                  \/ Current' > Current /\ sending'.tries = 0
            \/ /\ inbox' = Append(inbox, Current) /\ Current \in 1..MaxEvents
               /\ \/ Current' = Current + 1 /\ sending'.tries = 0
                  \/ Current' = Current /\ sending'.tries = sending.tries + 1
<1>1. CdcTypeOK /\ cdc \in CdcRecord /\ sending \in BatchRecord /\ Current \in Int
      /\ sending.tries \in Nat /\ cdc.captured \in Nat /\ Len(cdc.pending) \in Nat
      /\ Base \in Int
  <2>1. CdcTypeOK
    BY DEF FeedInv
  <2>2. cdc.captured \in Nat /\ Len(cdc.pending) \in Nat /\ Len(sending.events) \in Nat
        /\ sending.tries \in Nat
    BY <2>1, FeedTypes, CdcAssumption
  <2>3. Base \in Int
    BY <2>2 DEF Base
  <2> QED
    BY <2>1, <2>2, <2>3, CurrentIsInt, FeedTypes
<1>2. ASSUME sending = Idle, sending' = sending, NEW n \in Nat, Base' = Base + n
      PROVE  \/ Current' = Current /\ sending'.tries >= sending.tries
             \/ Current' > Current /\ sending'.tries = 0
  <2>1. sending.next = 1 /\ sending.tries = 0 /\ sending'.next = 1 /\ sending'.tries = 0
    BY <1>2, IdleIs
  <2>2. Current = Base + 1 /\ Current' = Base + n + 1
    BY <1>2, <2>1 DEF Current
  <2> QED
    BY <1>1, <2>1, <2>2
<1>3. ASSUME sending = Idle, sending' = sending, Base' = Base
      PROVE  Current' = Current /\ sending'.tries >= sending.tries
  BY <1>1, <1>3 DEF Current
<1>4. CASE DatabaseChanges
  <2>1. UNCHANGED <<cdcSetup, cdc, sending, inbox>>
    BY <1>4 DEF DatabaseChanges
  <2>2. changes' \in [pos: WalPosition \cup {0}, sums: [CdcKey -> Checksums \cup {NoSum}]]
    <3>1. changes \in [pos: WalPosition \cup {0}, sums: [CdcKey -> Checksums \cup {NoSum}]]
      BY <1>1 DEF CdcTypeOK
    <3>2. ASSUME NEW p \in WalPosition, changes' = [changes EXCEPT !.pos = p]
          PROVE  changes' \in [pos: WalPosition \cup {0},
                               sums: [CdcKey -> Checksums \cup {NoSum}]]
      BY <3>1, <3>2
    <3>3. ASSUME NEW k \in CdcKey, NEW c \in Checksums \cup {NoSum},
                 changes' = [changes EXCEPT !.sums[k] = c]
          PROVE  changes' \in [pos: WalPosition \cup {0},
                               sums: [CdcKey -> Checksums \cup {NoSum}]]
      BY <3>1, <3>3
    <3> QED
      BY <1>4, <3>2, <3>3 DEF DatabaseChanges
  <2>3. FeedInv'
    BY <2>1, <2>2 DEF FeedInv, CdcTypeOK, CapturedAreAccounted, Base
  <2>4. Current' = Current
    BY <2>1 DEF Current, Base
  <2> QED
    BY <1>1, <2>1, <2>3, <2>4
<1>5. CASE CaptureEvent
  <2>1. sending = Idle /\ cdc' = Capture(cdc, 1) /\ cdc.captured + 1 <= MaxEvents
        /\ UNCHANGED <<cdcSetup, changes, sending, inbox>>
    BY <1>1, <1>5, CdcAssumption DEF CaptureEvent
  <2>2. cdc' \in CdcRecord /\ cdc'.published = cdc.published /\ cdc'.failed = cdc.failed
    BY <1>1, <2>1, CaptureNumbers DEF FeedInv
  <2>3. FeedInv' /\ Base' = Base
    BY <2>1, <2>2, CaptureKeeps
  <2> QED
    BY <1>3, <2>1, <2>3
<1>6. CASE FailPending
  BY <1>2, <1>6, FailKeeps DEF FailPending
<1>7. CASE PollPostgres
  <2>1. changes.pos \in Nat
    <3>1. changes \in [pos: WalPosition \cup {0}, sums: [CdcKey -> Checksums \cup {NoSum}]]
      BY <1>1 DEF CdcTypeOK
    <3>2. changes.pos \in WalPosition \cup {0}
      BY <3>1
    <3>3. WalPosition \subseteq Nat
      BY CdcAssumption
    <3>4. changes.pos \in WalPosition => changes.pos \in Nat
      BY <3>3, Zenon
    <3>5. changes.pos = 0 \/ changes.pos \in WalPosition
      BY <3>2, Zenon
    <3>6. changes.pos = 0 => changes.pos \in Nat
      OBVIOUS
    <3> QED
      BY <3>4, <3>5, <3>6
  <2>2. parse_lsn(changes.pos) \in Nat
    <3>1. changes.pos \div 16 \in Nat /\ changes.pos % 16 \in Nat
      BY <2>1
    <3> QED
      BY <3>1 DEF parse_lsn
  <2>3. FeedInv' /\ Base' = Base
    BY <1>7, <2>2, PollKeeps DEF PollPostgres
  <2> QED
    BY <1>3, <1>7, <2>3 DEF PollPostgres
<1>8. CASE PollMariadb
  <2>1. changes.pos \in Nat
    <3>1. changes \in [pos: WalPosition \cup {0}, sums: [CdcKey -> Checksums \cup {NoSum}]]
      BY <1>1 DEF CdcTypeOK
    <3>2. changes.pos \in WalPosition \cup {0}
      BY <3>1
    <3>3. WalPosition \subseteq Nat
      BY CdcAssumption
    <3>4. changes.pos \in WalPosition => changes.pos \in Nat
      BY <3>3, Zenon
    <3>5. changes.pos = 0 \/ changes.pos \in WalPosition
      BY <3>2, Zenon
    <3>6. changes.pos = 0 => changes.pos \in Nat
      OBVIOUS
    <3> QED
      BY <3>4, <3>5, <3>6
  <2>2. FeedInv' /\ Base' = Base
    BY <1>8, <2>1, PollKeeps DEF PollMariadb
  <2> QED
    BY <1>3, <1>8, <2>2 DEF PollMariadb
<1>9. CASE PollRedis
  <2>1. FeedInv' /\ Base' = Base
    BY <1>9, RedisKeeps
  <2> QED
    BY <1>3, <1>9, <2>1 DEF PollRedis
<1>10. CASE PublishNothing
  <2>1. cdc' = [cdc EXCEPT !.polled = FALSE] /\ sending = Idle
        /\ UNCHANGED <<cdcSetup, changes, sending, inbox>>
    BY <1>10 DEF PublishNothing, MayPublish
  <2>2. cdc' \in CdcRecord
    BY <1>1, <2>1 DEF CdcRecord
  <2>3. cdc'.captured = cdc.captured /\ cdc'.pending = cdc.pending
        /\ cdc'.published = cdc.published /\ cdc'.failed = cdc.failed
    BY <1>1, <2>1 DEF CdcRecord
  <2>4. Base' = Base
    BY <2>1, <2>3 DEF Base
  <2>5. FeedInv'
    <3>1. CapturedAreAccounted'
      BY <2>1, <2>3 DEF FeedInv, CapturedAreAccounted
    <3>2. \A i \in 1..Len(sending'.events) : sending'.events[i] = Base' + i
      BY <2>1, <2>4 DEF FeedInv
    <3>3. \A i \in 1..Len(cdc'.pending) :
            cdc'.pending[i] = cdc'.captured - Len(cdc'.pending) + i
      BY <2>3 DEF FeedInv
    <3> QED
      BY <1>1, <2>1, <2>2, <3>1, <3>2, <3>3, FeedRestored DEF FeedInv, CdcTypeOK
  <2> QED
    BY <1>3, <2>1, <2>4, <2>5
<1>11. CASE PublishLog \/ PublishNowhere
  <2>1. FeedInv' /\ \E n \in Nat : Base' = Base + n
    BY <1>11, BatchKeeps
  <2>2. sending = Idle /\ UNCHANGED <<sending, inbox>>
    BY <1>11 DEF PublishLog, PublishNowhere, MayPublish
  <2> QED
    BY <1>2, <2>1, <2>2
<1>12. CASE PublishWebhook
  <2>1. FeedInv' /\ Base' = Base /\ sending'.next = 1 /\ sending'.tries = 0
        /\ sending.next = 1 /\ sending.tries = 0
    BY <1>12, DrainKeeps
  <2>2. inbox' = inbox
    BY <1>12 DEF PublishWebhook
  <2>3. Current' = Current
    BY <2>1 DEF Current
  <2> QED
    BY <2>1, <2>2, <2>3
<1>13. CASE PostAccepted \/ PostRejected \/ PostFails
  <2>1. /\ sending.next <= Len(sending.events) /\ UNCHANGED <<cdcSetup, changes, cdc>>
        /\ inbox' = inbox \/ inbox' = Append(inbox, sending.events[sending.next])
    BY <1>13 DEF PostAccepted, PostRejected, PostFails, Post
  <2>2. \/ sending' = [sending EXCEPT !.next = @ + 1, !.tries = 0, !.got = @ + 1]
        \/ sending' = [sending EXCEPT !.next = @ + 1, !.tries = 0]
        \/ /\ sending.tries < WebhookRetries
           /\ sending' = [sending EXCEPT !.tries = @ + 1]
    BY <1>13 DEF PostAccepted, PostRejected, PostFails, AfterFailedPost
  <2>3. /\ FeedInv'
        /\ Current \in 1..MaxEvents /\ sending.events[sending.next] = Current
        /\ \/ Current' = Current + 1 /\ sending'.tries = 0
           \/ Current' = Current /\ sending'.tries = sending.tries + 1
    BY <2>1, <2>2, PostKeeps
  <2>4. \/ Current' = Current /\ sending'.tries >= sending.tries
        \/ Current' > Current /\ sending'.tries = 0
    BY <1>1, <2>3
  <2> QED
    BY <2>1, <2>3, <2>4
<1>14. CASE BatchEnds
  <2>1. FeedInv' /\ Current' = Current /\ sending.tries = 0 /\ sending'.tries = 0
    BY <1>14, EndKeeps
  <2>2. inbox' = inbox
    BY <1>14 DEF BatchEnds
  <2> QED
    BY <2>1, <2>2
<1>15. CASE UNCHANGED cdcVars
  <2>1. UNCHANGED <<cdcSetup, changes, cdc, sending, inbox>>
    BY <1>15 DEF cdcVars
  <2>2. FeedInv' /\ Current' = Current
    BY <2>1 DEF FeedInv, CdcTypeOK, CapturedAreAccounted, Current, Base
  <2> QED
    BY <1>1, <2>1, <2>2
<1> QED
  BY <1>4, <1>5, <1>6, <1>7, <1>8, <1>9, <1>10, <1>11, <1>12, <1>13, <1>14, <1>15
  DEF CdcNext

LEMMA FeedInit == CdcInit => FeedInv /\ InboxInv
<1> SUFFICES ASSUME CdcInit PROVE FeedInv /\ InboxInv
  OBVIOUS
<1>1. /\ cdc = [captured |-> 0, published |-> 0, failed |-> 0, pending |-> <<>>,
                ring |-> <<>>, pos |-> 0, sums |-> [k \in CdcKey |-> NoSum],
                polled |-> FALSE]
      /\ sending = Idle /\ inbox = << >>
      /\ cdcSetup \in [feed: CdcFeeds, output: CdcOutputs]
      /\ changes = [pos |-> 0, sums |-> [k \in CdcKey |-> NoSum]]
  BY DEF CdcInit
<1>2. sending \in BatchRecord /\ Len(sending.events) = 0 /\ sending.next = 1
      /\ sending.tries = 0
  BY <1>1, IdleIs
<1>3. cdc.captured = 0 /\ cdc.published = 0 /\ cdc.failed = 0 /\ cdc.pending = << >>
      /\ Len(cdc.pending) = 0 /\ Len(inbox) = 0
  BY <1>1
<1>4. << >> \in Seq(1..MaxEvents) /\ 0 \in 0..MaxEvents
  BY CdcAssumption
<1>5. CdcTypeOK
  <2>1. [k \in CdcKey |-> NoSum] \in [CdcKey -> Checksums \cup {NoSum}]
    OBVIOUS
  <2>2. changes \in [pos: WalPosition \cup {0}, sums: [CdcKey -> Checksums \cup {NoSum}]]
    BY <1>1, <2>1
  <2>3. cdc \in CdcRecord
    BY <1>1, <1>4, <2>1 DEF CdcRecord
  <2> QED
    BY <1>1, <1>2, <1>4, <2>2, <2>3 DEF CdcTypeOK, CdcRecord, BatchRecord
<1>6. Current = 1
  BY <1>2, <1>3 DEF Current, Base
<1>7. \A e : Copies(e) = {}
  BY <1>3 DEF Copies
<1>8. InboxInv
  <2>1. \A e : Cardinality(Copies(e)) = 0
    BY <1>7, FS_EmptySet
  <2>2. 0 <= WebhookRetries + 1 /\ 0 <= sending.tries
    BY <1>2, CdcAssumption
  <2>3. Cardinality(Copies(Current)) <= sending.tries
        /\ \A e \in 1..MaxEvents : Cardinality(Copies(e)) <= WebhookRetries + 1
    BY <2>1, <2>2
  <2>4. 1..Len(inbox) = {} /\ 1..(Len(inbox) - 1) = {}
    BY <1>3
  <2> QED
    BY <2>3, <2>4 DEF InboxInv
<1>9. FeedInv
  BY <1>2, <1>3, <1>5 DEF FeedInv, CapturedAreAccounted
<1> QED
  BY <1>8, <1>9

LEMMA FeedHolds == CdcSpec => [](FeedInv /\ InboxInv)
<1>1. FeedInv /\ InboxInv /\ [CdcNext]_cdcVars => (FeedInv /\ InboxInv)'
  <2> SUFFICES ASSUME FeedInv, InboxInv, [CdcNext]_cdcVars PROVE FeedInv' /\ InboxInv'
    OBVIOUS
  <2>1. CdcTypeOK /\ FeedInv' /\ CdcTypeOK'
    BY FeedStep DEF FeedInv
  <2> QED
    BY <2>1, FeedStep, InboxWaits, InboxGets
<1> QED
  BY <1>1, FeedInit, PTL DEF CdcSpec

\* The webhook's receiver gets the changes in the order of their capture, each
\* at most max_retries + 1 times, for any feed, batch size and retries.
THEOREM ChangesInOrder == CdcSpec => []ReceivedInOrder
<1>1. InboxInv => ReceivedInOrder
  BY DEF InboxInv, ReceivedInOrder, Copies
<1> QED
  BY FeedHolds, <1>1, PTL

\* Every captured change is pending, in flight, published or failed, once.
THEOREM CapturesAddUp == CdcSpec => []CapturedAreAccounted
<1>1. FeedInv => CapturedAreAccounted
  BY DEF FeedInv
<1> QED
  BY FeedHolds, <1>1, PTL

\* Type correctness of cdc-shim: no counter passes the events captured.
THEOREM CdcTypes == CdcSpec => []CdcTypeOK
<1>1. FeedInv => CdcTypeOK
  BY DEF FeedInv
<1> QED
  BY FeedHolds, <1>1, PTL

-----------------------------------------------------------------------------
(* vault-shim                                                              *)

VaultSpec == VaultInit /\ [][VaultNext]_vaultVars

VaultTypes ==
  /\ clock \in Nat /\ due \in Nat
  /\ rotating \in [pc : {"asleep", "asking", "writing", "off"}, since : Nat,
                   issued : Nat, stop : BOOLEAN]
  /\ output_file \in [state : {"absent", "empty", "written"}, issued : Nat]
  /\ rotations \in [failedSince : BOOLEAN, initial : BOOLEAN]

\* A request to Vault is not late, and what it issues is written at once.
RequestOnTime ==
  /\ rotating.pc = "asking" => rotating.since <= clock /\ clock <= rotating.since + Latency
  /\ rotating.pc = "writing" => rotating.issued = clock

\* The next tick of the interval is at most one interval away.
TickIsNear ==
  /\ rotations.initial => rotating.pc \in {"asking", "writing"}
  /\ rotating.pc = "asking" /\ ~rotations.initial => due <= rotating.since + Rotation
  /\ rotating.pc = "writing" /\ ~rotations.initial => due <= clock + Rotation

\* As long as no rotation fails: between rotations neither the clock nor the
\* next tick is more than an interval past the issue of the credentials in
\* the file, and a rotation in progress began within that interval.
FileIsRecent ==
  ~rotations.failedSince /\ ~rotations.initial =>
    /\ rotating.pc = "asleep" =>
         /\ output_file.state = "written"
         /\ due <= output_file.issued + Rotation
         /\ clock <= output_file.issued + Rotation
    /\ rotating.pc = "asking" =>
         output_file.state = "written" /\ rotating.since <= output_file.issued + Rotation

VaultIInv == VaultTypes /\ RequestOnTime /\ TickIsNear /\ FileIsRecent

LEMMA VaultInitOK == VaultInit => VaultIInv
BY VaultAssumption
   DEF VaultInit, VaultIInv, VaultTypes, RequestOnTime, TickIsNear, FileIsRecent, Absent

LEMMA VaultStep == VaultIInv /\ [VaultNext]_vaultVars => VaultIInv'
<1> SUFFICES ASSUME VaultIInv, [VaultNext]_vaultVars PROVE VaultIInv'
  OBVIOUS
<1> USE VaultAssumption
        DEF VaultIInv, VaultTypes, RequestOnTime, TickIsNear, FileIsRecent
<1>1. CASE VaultTick
  BY <1>1 DEF VaultTick
<1>2. CASE RotationBegins
  <2>1. rotating.pc = "asleep" /\ ~rotations.initial /\ clock >= due /\ due' = due + Rotation
    BY <1>2 DEF RotationBegins
  <2>2. /\ rotating' \in [pc : {"asleep", "asking", "writing", "off"}, since : Nat,
                          issued : Nat, stop : BOOLEAN]
        /\ rotating'.pc = "asking" /\ rotating'.since = clock
    BY <1>2 DEF RotationBegins
  <2>3. UNCHANGED <<clock, output_file, rotations>>
    BY <1>2 DEF RotationBegins
  <2> QED
    BY <2>1, <2>2, <2>3
<1>3. CASE VaultAnswers
  <2>1. rotating.pc = "asking" /\ UNCHANGED <<clock, due, rotations>>
    BY <1>3 DEF VaultAnswers
  <2>2. /\ rotating' \in [pc : {"asleep", "asking", "writing", "off"}, since : Nat,
                          issued : Nat, stop : BOOLEAN]
        /\ rotating'.pc = "writing" /\ rotating'.issued = clock
    BY <1>3 DEF VaultAnswers
  <2>3. output_file' \in [state : {"absent", "empty", "written"}, issued : Nat]
    BY <1>3 DEF VaultAnswers, Empty
  <2> QED
    BY <2>1, <2>2, <2>3
<1>4. CASE CredentialsWritten
  BY <1>4 DEF CredentialsWritten, DueNext
<1>5. CASE RotationFails
  BY <1>5 DEF RotationFails, DueNext
<1>6. CASE VaultStop
  BY <1>6 DEF VaultStop
<1>7. CASE VaultLoopEnds
  BY <1>7 DEF VaultLoopEnds
<1>8. CASE UNCHANGED vaultVars
  BY <1>8 DEF vaultVars
<1> QED
  BY <1>1, <1>2, <1>3, <1>4, <1>5, <1>6, <1>7, <1>8 DEF VaultNext

(* Whatever the interval, the lease and the latency: while vault-shim's    *)
(* loop runs and no rotation has failed since the last success, the output *)
(* file holds credentials whose lease has not run out, provided the lease  *)
(* covers an interval and a request (rotate(), VaultShim::start).          *)
THEOREM FreshCredentials == VaultSpec => []CredentialsAreFresh
<1>1. VaultIInv => CredentialsAreFresh
  BY VaultAssumption DEF VaultIInv, VaultTypes, RequestOnTime, FileIsRecent, CredentialsAreFresh
<1> QED
  BY VaultInitOK, VaultStep, <1>1, PTL DEF VaultSpec

-----------------------------------------------------------------------------
(* shim-core: tenant                                                       *)

TenantSpec == TenantInit /\ [][TenantNext]_tenantVars

BucketType == [tokens : Nat, last_refill : Nat, present : BOOLEAN]
UsageType ==
  [memory_high : BOOLEAN, cpu_high : BOOLEAN, last_reset : Nat, bucket : BucketType]

\* The bucket of a tenant that was granted g requests since it was full at
\* time f: what it holds now was there at the last refill.
BucketOK(b, g, f) ==
  b.present => f <= b.last_refill /\ g + b.tokens <= MaxRps + (b.last_refill - f)
UsageOK(u, g, f, now) ==
  u \in UsageType /\ u.bucket.last_refill <= now /\ BucketOK(u.bucket, g, f)

TenantIInv ==
  /\ tenantNow \in Nat
  /\ granted \in [TenantName -> Nat] /\ filledAt \in [TenantName -> Nat]
  /\ \A t \in TenantName : filledAt[t] <= tenantNow
  /\ DOMAIN usage \subseteq TenantName
  /\ \A t \in DOMAIN usage : UsageOK(usage[t], granted[t], filledAt[t], tenantNow)

LEMMA TenantInitOK == TenantInit => TenantIInv
BY DEF TenantInit, TenantIInv, NoTenantEntry

\* The usage a tenant starts with, and the one it has, are in order.
LEMMA UsageOfOK ==
  TenantIInv => \A t \in TenantName : UsageOK(UsageOf(t), granted[t], filledAt[t], tenantNow)
<1> SUFFICES ASSUME TenantIInv, NEW t \in TenantName, t \notin DOMAIN usage
             PROVE  UsageOK(Usage0, granted[t], filledAt[t], tenantNow)
  BY DEF TenantIInv, UsageOf
<1>1. NoBucket \in BucketType /\ NoBucket.last_refill = 0 /\ ~NoBucket.present
  BY DEF NoBucket, BucketType
<1>2. tenantNow \in Nat
  BY DEF TenantIInv
<1>3. Usage0 \in UsageType /\ Usage0.bucket = NoBucket
  BY <1>1, <1>2 DEF Usage0, UsageType
<1> QED
  BY <1>1, <1>2, <1>3 DEF UsageOK, BucketOK

\* A step that gives one tenant a usage in order and leaves the others alone.
Gives(t, v) ==
  /\ usage' = SetAt(usage, t, v) /\ tenantNow' = tenantNow
  /\ granted' \in [TenantName -> Nat] /\ filledAt' \in [TenantName -> Nat]
  /\ filledAt'[t] <= tenantNow /\ UsageOK(v, granted'[t], filledAt'[t], tenantNow)
  /\ \A x \in TenantName \ {t} : granted'[x] = granted[x] /\ filledAt'[x] = filledAt[x]

LEMMA GivesOK == TenantIInv => \A t \in TenantName : \A v : Gives(t, v) => TenantIInv'
<1> SUFFICES ASSUME TenantIInv, NEW t \in TenantName, NEW v, Gives(t, v)
             PROVE  TenantIInv'
  OBVIOUS
<1>1. /\ DOMAIN usage' = DOMAIN usage \cup {t} /\ usage'[t] = v
      /\ \A x \in DOMAIN usage \ {t} : usage'[x] = usage[x]
  BY DEF Gives, SetAt
<1>2. \A x \in TenantName : filledAt'[x] <= tenantNow'
  BY DEF Gives, TenantIInv
<1>3. ASSUME NEW x \in DOMAIN usage' PROVE UsageOK(usage'[x], granted'[x], filledAt'[x], tenantNow')
  <2>1. CASE x = t
    BY <1>1, <2>1 DEF Gives, UsageOK, BucketOK
  <2>2. CASE x # t
    <3>1. x \in DOMAIN usage /\ x \in TenantName /\ usage'[x] = usage[x]
      BY <1>1, <2>2 DEF TenantIInv
    <3>2. granted'[x] = granted[x] /\ filledAt'[x] = filledAt[x] /\ tenantNow' = tenantNow
      BY <3>1, <2>2 DEF Gives
    <3>3. UsageOK(usage[x], granted[x], filledAt[x], tenantNow)
      BY <3>1 DEF TenantIInv
    <3> QED
      BY <3>1, <3>2, <3>3 DEF UsageOK, BucketOK
  <2> QED
    BY <2>1, <2>2
<1>4. /\ tenantNow' \in Nat /\ DOMAIN usage' \subseteq TenantName
      /\ granted' \in [TenantName -> Nat] /\ filledAt' \in [TenantName -> Nat]
  BY <1>1 DEF TenantIInv, Gives
<1> QED
  BY <1>2, <1>3, <1>4 DEF TenantIInv

\* A full bucket, counted from now.
LEMMA FullBucketOK ==
  TenantIInv => /\ FullBucket \in BucketType /\ FullBucket.last_refill = tenantNow
                /\ FullBucket.present /\ BucketOK(FullBucket, 0, tenantNow)
BY TenantAssumption DEF TenantIInv, FullBucket, BucketType, BucketOK


\* What the check finds, counted from when the bucket was last full.
Counted(t) == IF FilledUp(t) THEN 0 ELSE granted[t]
FullSince(t) == IF FilledUp(t) THEN tenantNow ELSE filledAt[t]

LEMMA PreparedOK ==
  TenantIInv => \A t \in TenantName :
                  UsageOK(Prepared(t), Counted(t), FullSince(t), tenantNow)
<1> SUFFICES ASSUME TenantIInv, NEW t \in TenantName
             PROVE  UsageOK(Prepared(t), Counted(t), FullSince(t), tenantNow)
  OBVIOUS
<1> DEFINE u == UsageOf(t)
           b == IF configs[t].rated /\ ~u.bucket.present THEN FullBucket ELSE u.bucket
<1>1. UsageOK(u, granted[t], filledAt[t], tenantNow) /\ tenantNow \in Nat
  BY UsageOfOK DEF TenantIInv
<1>2. /\ FullBucket \in BucketType /\ FullBucket.last_refill = tenantNow
      /\ FullBucket.present /\ BucketOK(FullBucket, 0, tenantNow)
  BY FullBucketOK
<1>3. CASE PeriodOver(u)
  <2>1. Prepared(t) = [u EXCEPT !.last_reset = tenantNow,
                                !.bucket = IF b.present THEN FullBucket ELSE b]
    BY <1>3 DEF Prepared
  <2> HIDE DEF u, b
  <2>2. /\ Prepared(t) \in UsageType
        /\ Prepared(t).bucket = IF b.present THEN FullBucket ELSE b
    <3>1. b \in BucketType
      BY <1>1, <1>2 DEF b, UsageOK, UsageType
    <3> QED
      BY <1>1, <1>2, <2>1, <3>1 DEF UsageOK, UsageType
  <2>3. CASE b.present
    <3>1. FilledUp(t) /\ Prepared(t).bucket = FullBucket
      BY <1>2, <1>3, <2>2, <2>3 DEF FilledUp, u
    <3> QED
      BY <1>1, <1>2, <2>2, <3>1 DEF UsageOK, Counted, FullSince
  <2>4. CASE ~b.present
    <3>1. Prepared(t).bucket = u.bucket /\ ~u.bucket.present
      BY <1>2, <2>2, <2>4 DEF b
    <3> QED
      BY <1>1, <2>2, <3>1 DEF UsageOK, BucketOK
  <2> QED
    BY <2>3, <2>4
<1>4. CASE ~PeriodOver(u)
  <2>1. Prepared(t) = [u EXCEPT !.bucket = b]
    BY <1>4 DEF Prepared
  <2>2. FilledUp(t) <=> configs[t].rated /\ ~u.bucket.present
    BY <1>4 DEF FilledUp
  <2> HIDE DEF u
  <2>3. Prepared(t) \in UsageType /\ Prepared(t).bucket = b
    BY <1>1, <1>2, <2>1 DEF UsageOK, UsageType
  <2> QED
    BY <1>1, <1>2, <2>2, <2>3 DEF UsageOK, Counted, FullSince
<1> QED
  BY <1>3, <1>4

\* Refilling adds a token for every tick since the last refill, and no more.
LEMMA RefillOK ==
  ASSUME NEW b \in BucketType, NEW g \in Nat, NEW f \in Nat, tenantNow \in Nat,
         b.last_refill <= tenantNow, BucketOK(b, g, f)
  PROVE  /\ refill(b) \in BucketType /\ refill(b).last_refill = tenantNow
         /\ refill(b).present = b.present /\ BucketOK(refill(b), g, f)
<1> DEFINE n == IF b.tokens + tenantNow - b.last_refill > MaxRps THEN MaxRps
                ELSE b.tokens + tenantNow - b.last_refill
<1>1. n \in Nat /\ n <= b.tokens + (tenantNow - b.last_refill)
  BY TenantAssumption DEF BucketType
<1>2. refill(b) = [b EXCEPT !.tokens = n, !.last_refill = tenantNow]
  BY DEF refill
<1> HIDE DEF n
<1>3. /\ refill(b) \in BucketType /\ refill(b).tokens = n
      /\ refill(b).last_refill = tenantNow /\ refill(b).present = b.present
  BY <1>1, <1>2 DEF BucketType
<1> QED
  BY <1>1, <1>3, TenantAssumption DEF BucketType, BucketOK


LEMMA CheckQuotaOK ==
  TenantIInv => \A t \in TenantName : CheckQuotaHardened(t) => TenantIInv'
<1> SUFFICES ASSUME TenantIInv, NEW t \in TenantName, CheckQuotaHardened(t)
             PROVE  TenantIInv'
  OBVIOUS
<1> DEFINE u == Prepared(t)
           b == refill(u.bucket)
           Granted(result) == Counted(t) + (IF result = "Allowed" /\ u.bucket.present THEN 1 ELSE 0)
           Result(result, after) ==
             /\ usage' = SetAt(usage, t, after)
             /\ granted' = [granted EXCEPT ![t] = Granted(result)]
             /\ filledAt' = IF FilledUp(t) THEN [filledAt EXCEPT ![t] = tenantNow] ELSE filledAt
<1>1. /\ tenantNow' = tenantNow
      /\ \/ Result("MemoryExceeded", u) \/ Result("CpuExceeded", u)
         \/ ~u.bucket.present /\ Result("Allowed", u)
         \/ /\ u.bucket.present /\ b.tokens >= 1
            /\ Result("Allowed", [u EXCEPT !.bucket = [b EXCEPT !.tokens = @ - 1]])
         \/ Result("RateLimited", [u EXCEPT !.bucket = b])
  BY DEF CheckQuotaHardened, Counted
<1>2. UsageOK(u, Counted(t), FullSince(t), tenantNow)
  BY PreparedOK
<1>3. /\ tenantNow \in Nat /\ Counted(t) \in Nat /\ FullSince(t) \in Nat
      /\ FullSince(t) <= tenantNow
  BY DEF TenantIInv, Counted, FullSince
<1> HIDE DEF u
<1>4. /\ b \in BucketType /\ b.last_refill = tenantNow /\ b.present = u.bucket.present
      /\ BucketOK(b, Counted(t), FullSince(t))
  BY <1>2, <1>3, RefillOK DEF UsageOK, UsageType
<1> HIDE DEF b
<1>5. ASSUME NEW result, NEW after, Result(result, after),
             UsageOK(after, Granted(result), FullSince(t), tenantNow)
      PROVE  TenantIInv'
  <2>1. Granted(result) \in Nat
    BY <1>3
  <2>2. granted' \in [TenantName -> Nat] /\ granted'[t] = Granted(result)
    BY <1>5, <2>1 DEF TenantIInv
  <2>3. filledAt' \in [TenantName -> Nat] /\ filledAt'[t] = FullSince(t)
    BY <1>5 DEF TenantIInv, FullSince
  <2>4. \A x \in TenantName \ {t} : granted'[x] = granted[x] /\ filledAt'[x] = filledAt[x]
    BY <1>5 DEF TenantIInv
  <2>5. Gives(t, after)
    BY <1>1, <1>3, <1>5, <2>2, <2>3, <2>4 DEF Gives
  <2> QED
    BY <2>5, GivesOK
<1>6. ASSUME Result("MemoryExceeded", u) \/ Result("CpuExceeded", u) PROVE TenantIInv'
  <2>1. Granted("MemoryExceeded") = Counted(t) /\ Granted("CpuExceeded") = Counted(t)
    BY <1>3
  <2> HIDE DEF Granted, Result
  <2> QED
    BY <1>2, <1>5, <1>6, <2>1
<1>7. ASSUME ~u.bucket.present, Result("Allowed", u) PROVE TenantIInv'
  <2>1. Granted("Allowed") = Counted(t)
    BY <1>3, <1>7
  <2> HIDE DEF Granted, Result
  <2> QED
    BY <1>2, <1>5, <1>7, <2>1
<1>8. ASSUME u.bucket.present, b.tokens >= 1,
             Result("Allowed", [u EXCEPT !.bucket = [b EXCEPT !.tokens = @ - 1]])
      PROVE  TenantIInv'
  <2> DEFINE c == [b EXCEPT !.tokens = @ - 1]
  <2>1. Granted("Allowed") = Counted(t) + 1
    BY <1>3, <1>8
  <2>2. /\ c \in BucketType /\ c.tokens = b.tokens - 1 /\ c.last_refill = tenantNow
        /\ c.present
    <3>1. b.present /\ b.tokens \in Nat /\ b.tokens - 1 \in Nat
      BY <1>4, <1>8 DEF BucketType
    <3>2. c \in BucketType /\ c.present = b.present /\ c.tokens = b.tokens - 1
      BY <1>4, <3>1 DEF BucketType
    <3>3. c.last_refill = tenantNow
      BY <1>4 DEF BucketType
    <3> QED
      BY <3>1, <3>2, <3>3
  <2>3. BucketOK(c, Counted(t) + 1, FullSince(t))
    BY <1>3, <1>4, <1>8, <2>2, TenantAssumption DEF BucketOK, BucketType
  <2> HIDE DEF c
  <2>4. /\ [u EXCEPT !.bucket = c] \in UsageType
        /\ [u EXCEPT !.bucket = c].bucket = c
    BY <1>2, <2>2 DEF UsageOK, UsageType
  <2>5. UsageOK([u EXCEPT !.bucket = c], Counted(t) + 1, FullSince(t), tenantNow)
    BY <1>3, <2>2, <2>3, <2>4 DEF UsageOK
  <2>6. Result("Allowed", [u EXCEPT !.bucket = c])
    BY <1>8 DEF c
  <2> HIDE DEF Granted, Result
  <2> QED
    BY <1>5, <2>1, <2>5, <2>6
<1>9. ASSUME Result("RateLimited", [u EXCEPT !.bucket = b]) PROVE TenantIInv'
  <2>1. Granted("RateLimited") = Counted(t)
    BY <1>3
  <2>2. /\ [u EXCEPT !.bucket = b] \in UsageType
        /\ [u EXCEPT !.bucket = b].bucket = b
    BY <1>2, <1>4 DEF UsageOK, UsageType
  <2>3. UsageOK([u EXCEPT !.bucket = b], Counted(t), FullSince(t), tenantNow)
    BY <1>3, <1>4, <2>2 DEF UsageOK
  <2> HIDE DEF Granted, Result
  <2> QED
    BY <1>5, <1>9, <2>1, <2>3
<1> HIDE DEF Granted, Result
<1> QED
  BY <1>1, <1>6, <1>7, <1>8, <1>9

LEMMA TenantStep == TenantIInv /\ [TenantNext]_tenantVars => TenantIInv'
<1> SUFFICES ASSUME TenantIInv, [TenantNext]_tenantVars PROVE TenantIInv'
  OBVIOUS
<1>1. CASE TenantTick
  <2>1. tenantNow' \in Nat /\ tenantNow <= tenantNow' /\ UNCHANGED <<usage, granted, filledAt>>
    BY <1>1 DEF TenantTick, TenantIInv
  <2>2. ASSUME NEW t \in DOMAIN usage
        PROVE  UsageOK(usage[t], granted[t], filledAt[t], tenantNow')
    <3>1. UsageOK(usage[t], granted[t], filledAt[t], tenantNow) /\ tenantNow \in Nat
      BY DEF TenantIInv
    <3>2. usage[t].bucket.last_refill \in Nat
      BY <3>1 DEF UsageOK, UsageType, BucketType
    <3> QED
      BY <2>1, <3>1, <3>2 DEF UsageOK
  <2>3. \A t \in TenantName : filledAt[t] <= tenantNow'
    BY <2>1 DEF TenantIInv
  <2> QED
    BY <2>1, <2>2, <2>3 DEF TenantIInv
<1>2. ASSUME NEW t, CheckQuotaUnknown(t) PROVE TenantIInv'
  BY <1>2 DEF CheckQuotaUnknown, TenantIInv
<1>3. ASSUME NEW t \in TenantName, NEW config, RegisterTenant(t, config) PROVE TenantIInv'
  <2>1. CASE config.rated
    <3> DEFINE v == [UsageOf(t) EXCEPT !.bucket = FullBucket]
    <3>1. UsageOK(UsageOf(t), granted[t], filledAt[t], tenantNow)
      BY UsageOfOK
    <3>2. v \in UsageType /\ v.bucket = FullBucket
      BY <3>1, FullBucketOK DEF UsageOK, UsageType
    <3>3. usage' = SetAt(usage, t, v) /\ Filled(t) /\ tenantNow' = tenantNow
      BY <1>3, <2>1 DEF RegisterTenant
    <3> HIDE DEF v
    <3>4. UsageOK(v, 0, tenantNow, tenantNow) /\ tenantNow \in Nat
      BY <3>2, FullBucketOK DEF UsageOK, TenantIInv
    <3>5. Gives(t, v)
      BY <3>3, <3>4 DEF Gives, Filled, TenantIInv
    <3> QED
      BY <3>5, GivesOK
  <2>2. CASE ~config.rated
    BY <1>3, <2>2 DEF RegisterTenant, TenantIInv
  <2> QED
    BY <2>1, <2>2
<1>4. ASSUME NEW t \in TenantName, RemoveTenant(t) PROVE TenantIInv'
  BY <1>4 DEF RemoveTenant, DropAt, TenantIInv
<1>5. ASSUME NEW t \in TenantName, RecordMemoryOrCpu(t) PROVE TenantIInv'
  <2>1. PICK m \in BOOLEAN, c \in BOOLEAN :
          usage' = SetAt(usage, t, [UsageOf(t) EXCEPT !.memory_high = m, !.cpu_high = c])
    BY <1>5 DEF RecordMemoryOrCpu
  <2> DEFINE v == [UsageOf(t) EXCEPT !.memory_high = m, !.cpu_high = c]
  <2>2. UsageOK(UsageOf(t), granted[t], filledAt[t], tenantNow)
    BY UsageOfOK
  <2>3. v \in UsageType /\ v.bucket = UsageOf(t).bucket
    BY <2>2 DEF UsageOK, UsageType
  <2> HIDE DEF v
  <2>4. UsageOK(v, granted[t], filledAt[t], tenantNow)
    BY <2>2, <2>3 DEF UsageOK
  <2>5. Gives(t, v)
    BY <1>5, <2>1, <2>4 DEF Gives, RecordMemoryOrCpu, TenantIInv, v
  <2> QED
    BY <2>5, GivesOK
<1>6. ASSUME NEW t \in TenantName, CheckAndReset(t) PROVE TenantIInv'
  <2> DEFINE w == IF usage[t].bucket.present THEN FullBucket ELSE usage[t].bucket
             v == [usage[t] EXCEPT !.last_reset = tenantNow, !.bucket = w]
  <2>1. t \in DOMAIN usage /\ UsageOK(usage[t], granted[t], filledAt[t], tenantNow)
    BY <1>6 DEF CheckAndReset, TenantIInv
  <2>2. usage' = SetAt(usage, t, v)
    BY <1>6, <2>1 DEF CheckAndReset, SetAt
  <2>3. w \in BucketType /\ tenantNow \in Nat
    BY <2>1, FullBucketOK DEF UsageOK, UsageType, TenantIInv
  <2> HIDE DEF w
  <2>4. v \in UsageType /\ v.bucket = w
    BY <2>1, <2>3 DEF UsageOK, UsageType
  <2> HIDE DEF v
  <2>5. CASE usage[t].bucket.present
    <3>1. UsageOK(v, 0, tenantNow, tenantNow)
      BY <2>3, <2>4, <2>5, FullBucketOK DEF UsageOK, w
    <3>2. Gives(t, v)
      BY <1>6, <2>2, <2>3, <2>5, <3>1 DEF Gives, CheckAndReset, Filled, TenantIInv
    <3> QED
      BY <3>2, GivesOK
  <2>6. CASE ~usage[t].bucket.present
    <3>1. UsageOK(v, granted[t], filledAt[t], tenantNow)
      BY <2>1, <2>4, <2>6 DEF UsageOK, w
    <3>2. Gives(t, v)
      BY <1>6, <2>2, <2>6, <3>1 DEF Gives, CheckAndReset, TenantIInv
    <3> QED
      BY <3>2, GivesOK
  <2> QED
    BY <2>5, <2>6
<1>7. CASE UNCHANGED tenantVars
  BY <1>7 DEF tenantVars, TenantIInv
<1> QED
  BY <1>1, <1>2, <1>3, <1>4, <1>5, <1>6, <1>7, CheckQuotaOK DEF TenantNext

(* For every rate and reset period: since a tenant's bucket was last full, *)
(* no more requests were allowed than it holds and has been refilled with, *)
(* whatever was registered, removed, recorded and reset in between         *)
(* (TokenBucket::try_consume, check_quota_hardened, check_and_reset).      *)
THEOREM RateIsHeld == TenantSpec => []BucketHoldsTheRate
<1>1. TenantIInv => BucketHoldsTheRate
  BY TenantAssumption
     DEF TenantIInv, UsageOK, UsageType, BucketType, BucketOK, BucketHoldsTheRate
<1> QED
  BY TenantInitOK, TenantStep, <1>1, PTL DEF TenantSpec


-----------------------------------------------------------------------------
(* auth-shim                                                               *)

AuthSpec == AuthInit /\ [][AuthNext]_authVars

\* A stored token that was withdrawn has expired; its id was used once.
TokensOK ==
  /\ authNow \in Nat
  /\ DOMAIN tokens \subseteq issuedTokens /\ DOMAIN tokens \subseteq TokenId
  /\ withdrawn \cap TokenId \subseteq issuedTokens
  /\ \A id \in DOMAIN tokens :
       /\ tokens[id].expires_at \in Nat /\ tokens[id].role \in Roles
       /\ id \in withdrawn => authNow > tokens[id].expires_at

\* A stored API key that was withdrawn is marked revoked.
ApiKeysOK ==
  /\ DOMAIN api_keys \subseteq ApiKeyId
  /\ \A id \in DOMAIN api_keys : id \in withdrawn => api_keys[id].revoked

AuthIInv == TokensOK /\ ApiKeysOK

LEMMA AuthInitOK == AuthInit => AuthIInv
BY DEF AuthInit, AuthIInv, TokensOK, ApiKeysOK, Nothing

LEMMA AuthStep == AuthIInv /\ [AuthNext]_authVars => AuthIInv'
<1> SUFFICES ASSUME AuthIInv, [AuthNext]_authVars PROVE AuthIInv'
  OBVIOUS
<1> USE DEF AuthIInv
<1>1. ASSUME NEW id \in TokenId, NEW r \in Roles, CreateToken(id, r) PROVE AuthIInv'
  <2>1. /\ DOMAIN tokens' = DOMAIN tokens \cup {id}
        /\ tokens'[id] = [role |-> r, expires_at |-> authNow + TokenExpiry]
        /\ \A x \in DOMAIN tokens \ {id} : tokens'[x] = tokens[x]
    BY <1>1 DEF CreateToken, With
  <2>2. /\ id \notin withdrawn /\ issuedTokens' = issuedTokens \cup {id}
        /\ UNCHANGED <<authNow, api_keys, withdrawn>>
    BY <1>1 DEF CreateToken, TokensOK
  <2>3. tokens'[id].role = r /\ tokens'[id].expires_at \in Nat
    BY <2>1, AuthAssumption DEF TokensOK
  <2> QED
    BY <2>1, <2>2, <2>3 DEF TokensOK, ApiKeysOK
<1>2. ASSUME NEW id \in TokenId, ValidateToken(id) PROVE AuthIInv'
  BY <1>2 DEF ValidateToken, storeVars, TokensOK, ApiKeysOK
<1>3. ASSUME NEW id \in TokenId, RevokeToken(id) PROVE AuthIInv'
  <2>1. /\ DOMAIN tokens' = DOMAIN tokens \ {id} /\ id \in DOMAIN tokens
        /\ \A x \in DOMAIN tokens' : tokens'[x] = tokens[x]
        /\ withdrawn' = withdrawn \cup {id} /\ UNCHANGED <<authNow, issuedTokens, api_keys>>
    BY <1>3 DEF RevokeToken, Without
  <2> QED
    BY <2>1, AuthAssumption DEF TokensOK, ApiKeysOK
<1>4. ASSUME NEW id \in ApiKeyId, NEW r \in Roles, RegisterApiKey(id, r) PROVE AuthIInv'
  <2>1. /\ DOMAIN api_keys' = DOMAIN api_keys \cup {id}
        /\ \A x \in DOMAIN api_keys \ {id} : api_keys'[x] = api_keys[x]
        /\ withdrawn' = withdrawn \ {id} /\ UNCHANGED <<authNow, tokens, issuedTokens>>
    BY <1>4 DEF RegisterApiKey, With
  <2> QED
    BY <2>1 DEF TokensOK, ApiKeysOK
<1>5. ASSUME NEW id \in ApiKeyId, ValidateApiKey(id) PROVE AuthIInv'
  BY <1>5 DEF ValidateApiKey, storeVars, TokensOK, ApiKeysOK
<1>6. ASSUME NEW id \in ApiKeyId, RevokeApiKey(id) PROVE AuthIInv'
  <2>1. /\ api_keys' = [api_keys EXCEPT ![id].revoked = TRUE]
        /\ id \in DOMAIN api_keys
        /\ withdrawn' = withdrawn \cup {id} /\ UNCHANGED <<authNow, tokens, issuedTokens>>
    BY <1>6 DEF RevokeApiKey
  <2>2. TokensOK'
    BY <2>1, AuthAssumption DEF TokensOK
  <2>3. ApiKeysOK'
    BY <2>1 DEF ApiKeysOK
  <2> QED
    BY <2>2, <2>3
<1>7. ASSUME NEW u \in User, RecordFailedLogin(u) \/ ClearFailedAttempts(u) PROVE AuthIInv'
  BY <1>7 DEF RecordFailedLogin, ClearFailedAttempts, storeVars, TokensOK, ApiKeysOK
<1>8. CASE AuthRestart
  <2>1. /\ DOMAIN tokens' = {} /\ DOMAIN api_keys' = {}
        /\ withdrawn' = withdrawn \cup DOMAIN tokens \cup DOMAIN api_keys
        /\ UNCHANGED <<authNow, issuedTokens>>
    BY <1>8 DEF AuthRestart, Nothing
  <2> QED
    BY <2>1, AuthAssumption DEF TokensOK, ApiKeysOK
<1>9. CASE AuthTick
  <2>1. /\ authNow' = authNow + 1 /\ UNCHANGED <<tokens, issuedTokens, api_keys>>
        /\ withdrawn' = withdrawn \cup {id \in DOMAIN tokens : authNow' > tokens[id].expires_at}
    BY <1>9 DEF AuthTick
  <2>2. TokensOK'
    BY <2>1 DEF TokensOK
  <2>3. ApiKeysOK'
    BY <2>1, AuthAssumption DEF TokensOK, ApiKeysOK
  <2> QED
    BY <2>2, <2>3
<1>10. CASE UNCHANGED authVars
  BY <1>10 DEF authVars, TokensOK, ApiKeysOK
<1> QED
  BY <1>1, <1>2, <1>3, <1>4, <1>5, <1>6, <1>7, <1>8, <1>9, <1>10 DEF AuthNext

(* Whatever tokens and keys are made, revoked and registered again, over   *)
(* any number of restarts: a credential that was revoked, has expired or   *)
(* was forgotten never authenticates (validate_token, validate_api_key).   *)
THEOREM WithdrawnNeverAuthenticates == AuthSpec => WithdrawnStayOut
<1> DEFINE Out == authResult' # authResult /\ authResult'.authenticated =>
                    authResult'.credential \notin withdrawn'
<1>1. AuthIInv /\ [AuthNext]_authVars => [Out]_authVars
  <2> SUFFICES ASSUME AuthIInv, AuthNext, authResult' # authResult, authResult'.authenticated
               PROVE  authResult'.credential \notin withdrawn'
    OBVIOUS
  <2> USE DEF AuthIInv
  <2>1. ASSUME NEW id \in TokenId, ValidateToken(id)
        PROVE  authResult'.credential \notin withdrawn'
    <3>1. authResult' # Refused
      BY DEF Refused
    <3>2. /\ id \in DOMAIN tokens /\ ~(authNow > tokens[id].expires_at)
          /\ authResult' = Accepted(id, tokens[id].role) /\ withdrawn' = withdrawn
      BY <2>1, <3>1 DEF ValidateToken, storeVars
    <3> QED
      BY <3>2 DEF Accepted, TokensOK
  <2>2. ASSUME NEW id \in ApiKeyId, ValidateApiKey(id)
        PROVE  authResult'.credential \notin withdrawn'
    <3>1. authResult' # Refused
      BY DEF Refused
    <3>2. /\ id \in DOMAIN api_keys /\ ~api_keys[id].revoked
          /\ authResult' = Accepted(id, api_keys[id].role) /\ withdrawn' = withdrawn
      BY <2>2, <3>1 DEF ValidateApiKey, storeVars
    <3> QED
      BY <3>2 DEF Accepted, ApiKeysOK
  <2>3. \/ \E id \in TokenId : ValidateToken(id)
        \/ \E id \in ApiKeyId : ValidateApiKey(id)
    BY DEF AuthNext, CreateToken, RevokeToken, RegisterApiKey, RevokeApiKey,
           RecordFailedLogin, ClearFailedAttempts, AuthRestart, AuthTick
  <2> QED
    BY <2>1, <2>2, <2>3
<1> QED
  BY AuthInitOK, AuthStep, <1>1, PTL DEF AuthSpec, WithdrawnStayOut


\* A lock is on record together with the failures that earned it, and what
\* was accepted is a token with a role or an API key.
LockoutOK ==
  /\ \A u \in DOMAIN failed_attempts : failed_attempts[u] \in Nat
  /\ \A u \in DOMAIN locked_users :
       u \in DOMAIN failed_attempts /\ failed_attempts[u] >= MaxFailedLogins
ResultOK ==
  \/ authResult = Refused
  \/ \E c \in TokenId, r \in Roles \ {"Denied"} : authResult = Accepted(c, r)
  \/ \E c \in ApiKeyId : \E r : authResult = Accepted(c, r)

LEMMA LockoutStep ==
  AuthIInv /\ LockoutOK /\ ResultOK /\ [AuthNext]_authVars => LockoutOK' /\ ResultOK'
<1> SUFFICES ASSUME AuthIInv, LockoutOK, ResultOK, [AuthNext]_authVars
             PROVE  LockoutOK' /\ ResultOK'
  OBVIOUS
<1>1. ASSUME NEW id \in TokenId, ValidateToken(id) PROVE LockoutOK' /\ ResultOK'
  <2>1. \/ authResult' = Refused
        \/ /\ id \in DOMAIN tokens /\ tokens[id].role # "Denied"
           /\ authResult' = Accepted(id, tokens[id].role)
    BY <1>1 DEF ValidateToken
  <2>2. ResultOK'
    BY <2>1 DEF ResultOK, AuthIInv, TokensOK
  <2> QED
    BY <1>1, <2>2 DEF ValidateToken, lockoutVars, LockoutOK
<1>2. ASSUME NEW id \in ApiKeyId, ValidateApiKey(id) PROVE LockoutOK' /\ ResultOK'
  <2>1. authResult' = Refused \/ authResult' = Accepted(id, api_keys[id].role)
    BY <1>2 DEF ValidateApiKey
  <2>2. ResultOK'
    BY <2>1 DEF ResultOK
  <2> QED
    BY <1>2, <2>2 DEF ValidateApiKey, lockoutVars, LockoutOK
<1>3. ASSUME NEW u \in User, RecordFailedLogin(u) PROVE LockoutOK' /\ ResultOK'
  <2> DEFINE attempts == (IF u \in DOMAIN failed_attempts THEN failed_attempts[u] ELSE 0) + 1
  <2>1. attempts \in Nat
    BY DEF LockoutOK
  <2>2. /\ failed_attempts' = With(failed_attempts, u, attempts)
        /\ locked_users' = IF attempts >= MaxFailedLogins
                           THEN With(locked_users, u, authNow) ELSE locked_users
        /\ authResult' = authResult
    BY <1>3 DEF RecordFailedLogin
  <2>3. u \in DOMAIN failed_attempts => attempts >= failed_attempts[u]
    BY DEF LockoutOK
  <2> HIDE DEF attempts
  <2>4. /\ DOMAIN failed_attempts' = DOMAIN failed_attempts \cup {u}
        /\ failed_attempts'[u] = attempts
        /\ \A x \in DOMAIN failed_attempts \ {u} : failed_attempts'[x] = failed_attempts[x]
    BY <2>2 DEF With
  <2>5. /\ DOMAIN locked_users' \subseteq DOMAIN locked_users \cup {u}
        /\ u \in DOMAIN locked_users' => u \in DOMAIN locked_users \/ attempts >= MaxFailedLogins
    BY <2>2 DEF With
  <2>6. MaxFailedLogins \in Nat
    BY AuthAssumption
  <2>7. u \in DOMAIN locked_users' => failed_attempts'[u] >= MaxFailedLogins
    BY <2>1, <2>3, <2>4, <2>5, <2>6 DEF LockoutOK
  <2>8. LockoutOK'
    BY <2>1, <2>4, <2>5, <2>7 DEF LockoutOK
  <2> QED
    BY <2>2, <2>8 DEF ResultOK
<1>4. ASSUME NEW u \in User, ClearFailedAttempts(u) PROVE LockoutOK' /\ ResultOK'
  BY <1>4 DEF ClearFailedAttempts, Without, LockoutOK, ResultOK
<1>5. CASE AuthRestart
  BY <1>5 DEF AuthRestart, Nothing, LockoutOK, ResultOK
<1>6. ASSUME UNCHANGED <<failed_attempts, locked_users, authResult>>
      PROVE  LockoutOK' /\ ResultOK'
  BY <1>6 DEF LockoutOK, ResultOK
<1>7. ASSUME \/ \E id \in TokenId : (\E r \in Roles : CreateToken(id, r)) \/ RevokeToken(id)
             \/ \E id \in ApiKeyId : (\E r \in Roles : RegisterApiKey(id, r)) \/ RevokeApiKey(id)
             \/ AuthTick \/ UNCHANGED authVars
      PROVE  UNCHANGED <<failed_attempts, locked_users, authResult>>
  BY <1>7 DEF CreateToken, RevokeToken, RegisterApiKey, RevokeApiKey, AuthTick, lockoutVars,
              authVars
<1> QED
  BY <1>1, <1>2, <1>3, <1>4, <1>5, <1>6, <1>7 DEF AuthNext

(* A user is locked out only with MaxFailedLogins failures on record, over *)
(* any sequence of failures, clearings and restarts, and whoever a token   *)
(* lets in may at least read (record_failed_login, is_locked_out,          *)
(* check_permission).                                                      *)
THEOREM LockoutsAreEarned == AuthSpec => []LockoutIsEarned
<1>1. AuthInit => LockoutOK /\ ResultOK
  BY DEF AuthInit, LockoutOK, ResultOK, Nothing
<1>2. LockoutOK /\ ResultOK => LockoutIsEarned
  <2> SUFFICES ASSUME LockoutOK, ResultOK PROVE LockoutIsEarned
    OBVIOUS
  <2>1. \A u \in User : IsLockedOut(u) =>
          u \in DOMAIN failed_attempts /\ failed_attempts[u] >= MaxFailedLogins
    BY DEF LockoutOK, IsLockedOut
  <2>2. CASE authResult = Refused
    BY <2>1, <2>2 DEF LockoutIsEarned, Refused
  <2>3. ASSUME NEW c \in TokenId, NEW r \in Roles \ {"Denied"}, authResult = Accepted(c, r)
        PROVE  LockoutIsEarned
    <3>1. authResult.credential \in TokenId /\ authResult.role = r
      BY <2>3 DEF Accepted
    <3>2. check_permission(r, "ReadOnly")
      BY DEF check_permission, Roles
    <3> QED
      BY <2>1, <3>1, <3>2 DEF LockoutIsEarned
  <2>4. ASSUME NEW c \in ApiKeyId, NEW r, authResult = Accepted(c, r)
        PROVE  LockoutIsEarned
    <3>1. authResult.credential \notin TokenId
      BY <2>4, AuthAssumption DEF Accepted
    <3>2. authResult.role = "Denied" =>
            ~\E required \in Roles : check_permission(authResult.role, required)
      BY DEF check_permission
    <3> QED
      BY <2>1, <3>1, <3>2 DEF LockoutIsEarned
  <2> QED
    BY <2>2, <2>3, <2>4 DEF ResultOK
<1> QED
  BY AuthInitOK, AuthStep, LockoutStep, <1>1, <1>2, PTL DEF AuthSpec


-----------------------------------------------------------------------------
(* shim-core: alerting, alerting-shim                                      *)

AlertSpec == AlertingInit /\ [][ManagerNext \/ AlertShimNext]_alertVars

AlertTypes ==
  /\ alertNow \in Nat /\ alerts_dropped \in Nat
  /\ dedup_cache \in [AlertKeys -> Nat]
  /\ tried \in [AlertKeys -> [Hook -> Nat]]
  /\ pending \subseteq Hook /\ (pending # {} => alert \in AlertKeys)

\* A key that is noted was sent to each of its webhooks since, unless it is
\* the one being delivered and the webhook is still to come.
NotedWasTried ==
  \A k \in AlertKeys : \A w \in Matching(k) :
    dedup_cache[k] # 0 =>
      dedup_cache[k] <= tried[k][w] \/ (alert = k /\ w \in pending)

NotedInThePast == \A k \in AlertKeys : dedup_cache[k] <= alertNow

AlertIInv == AlertTypes /\ NotedWasTried /\ NotedInThePast

LEMMA AlertInitOK == AlertingInit => AlertIInv
BY DEF AlertingInit, AlertIInv, AlertTypes, NotedWasTried, NotedInThePast

\* Noting a key, with no delivery under way.
LEMMA NotingOK ==
  ASSUME AlertIInv, NEW k \in AlertKeys, pending = {}, alert' = k, pending' = Matching(k),
         dedup_cache' = [dedup_cache EXCEPT ![k] = alertNow], alerts_dropped' \in Nat,
         UNCHANGED <<alertNow, tried>>
  PROVE  AlertIInv'
<1>1. AlertTypes'
  BY DEF AlertIInv, AlertTypes, Matching
<1>2. NotedInThePast'
  BY DEF AlertIInv, AlertTypes, NotedInThePast
<1>3. NotedWasTried'
  <2> SUFFICES ASSUME NEW x \in AlertKeys, NEW w \in Matching(x), dedup_cache'[x] # 0, x # k
               PROVE  dedup_cache'[x] <= tried'[x][w]
    BY DEF NotedWasTried
  <2>1. dedup_cache'[x] = dedup_cache[x]
    BY DEF AlertIInv, AlertTypes
  <2> QED
    BY <2>1 DEF AlertIInv, NotedWasTried
<1> QED
  BY <1>1, <1>2, <1>3 DEF AlertIInv

\* Dropping an alert, with no delivery under way.
LEMMA DroppingOK ==
  ASSUME AlertIInv, NEW k \in AlertKeys, pending = {}, alert' = k, Drop(k),
         UNCHANGED <<alertNow, tried>>
  PROVE  AlertIInv'
BY DEF AlertIInv, AlertTypes, NotedWasTried, NotedInThePast, Drop

\* Sending the alert in process to a webhook, which may then be done with.
LEMMA SendingOK ==
  ASSUME AlertIInv, NEW w \in pending, Sent(w), pending' \in {pending, pending \ {w}},
         UNCHANGED <<alertNow, dedup_cache, alert, alerts_dropped>>
  PROVE  AlertIInv'
<1>1. w \in Hook /\ alert \in AlertKeys
  BY DEF AlertIInv, AlertTypes
<1>2. /\ tried' \in [AlertKeys -> [Hook -> Nat]]
      /\ tried'[alert][w] = alertNow
      /\ \A k \in AlertKeys, x \in Hook :
           k # alert \/ x # w => tried'[k][x] = tried[k][x]
  BY <1>1 DEF AlertIInv, AlertTypes, Sent
<1>3. AlertTypes' /\ NotedInThePast'
  BY <1>2 DEF AlertIInv, AlertTypes, NotedInThePast
<1>4. NotedWasTried'
  <2> SUFFICES ASSUME NEW k \in AlertKeys, NEW x \in Matching(k), dedup_cache[k] # 0
               PROVE  dedup_cache[k] <= tried'[k][x] \/ (alert = k /\ x \in pending')
    BY DEF NotedWasTried
  <2>1. x \in Hook
    BY DEF Matching
  <2>2. CASE k = alert /\ x = w
    BY <1>2, <2>2 DEF AlertIInv, NotedInThePast
  <2>3. CASE k # alert \/ x # w
    <3>1. tried'[k][x] = tried[k][x]
      BY <1>2, <2>1, <2>3
    <3>2. dedup_cache[k] <= tried[k][x] \/ (alert = k /\ x \in pending)
      BY DEF AlertIInv, NotedWasTried
    <3> QED
      BY <2>3, <3>1, <3>2
  <2> QED
    BY <2>2, <2>3
<1> QED
  BY <1>3, <1>4 DEF AlertIInv

\* Time, the clean-ups and the stop.
LEMMA AlertUpkeepOK ==
  AlertIInv /\ (AlertTick \/ CleanupDedupCache \/ ClearDedupCache \/ ManagerStops
                \/ UNCHANGED alertVars) => AlertIInv'
<1> SUFFICES ASSUME AlertIInv PROVE
      (AlertTick \/ CleanupDedupCache \/ ClearDedupCache \/ ManagerStops
                \/ UNCHANGED alertVars) => AlertIInv'
  OBVIOUS
<1> USE DEF AlertIInv, AlertTypes, NotedWasTried, NotedInThePast, alertCounters
<1>1. CASE AlertTick
  BY <1>1 DEF AlertTick
<1>2. CASE CleanupDedupCache
  <2>1. /\ \A k \in AlertKeys : dedup_cache'[k] \in {dedup_cache[k], 0}
        /\ dedup_cache' \in [AlertKeys -> Nat]
    BY <1>2 DEF CleanupDedupCache
  <2> QED
    BY <1>2, <2>1 DEF CleanupDedupCache
<1>3. CASE ClearDedupCache
  BY <1>3 DEF ClearDedupCache
<1>4. CASE ManagerStops
  BY <1>4 DEF ManagerStops
<1>5. CASE UNCHANGED alertVars
  BY <1>5 DEF alertVars
<1> QED
  BY <1>1, <1>2, <1>3, <1>4, <1>5

LEMMA ManagerStep == AlertIInv /\ [ManagerNext]_alertVars => AlertIInv'
<1> SUFFICES ASSUME AlertIInv, [ManagerNext]_alertVars PROVE AlertIInv'
  OBVIOUS
<1>1. ASSUME NEW k \in AlertKeys, ProcessEvent(k) PROVE AlertIInv'
  <2>1. pending = {} /\ alert' = k /\ UNCHANGED <<alertNow, tried>>
    BY <1>1 DEF ProcessEvent
  <2>2. CASE RecordAlert(k)
    <3>1. alerts_dropped' \in Nat
      BY <2>2 DEF RecordAlert, AlertIInv, AlertTypes
    <3> QED
      BY <2>1, <2>2, <3>1, NotingOK DEF RecordAlert
  <2>3. CASE Drop(k)
    BY <2>1, <2>3, DroppingOK
  <2> QED
    BY <1>1, <2>2, <2>3 DEF ProcessEvent
<1>2. ASSUME NEW w \in Hook, ManagerDelivers(w) PROVE AlertIInv'
  BY <1>2, SendingOK DEF ManagerDelivers
<1> QED
  BY <1>1, <1>2, AlertUpkeepOK DEF ManagerNext

LEMMA AlertShimStep == AlertIInv /\ [AlertShimNext]_alertVars => AlertIInv'
<1> SUFFICES ASSUME AlertIInv, [AlertShimNext]_alertVars PROVE AlertIInv'
  OBVIOUS
<1>1. ASSUME NEW k \in AlertKeys, ProcessAlert(k) PROVE AlertIInv'
  <2>1. pending = {} /\ alert' = k /\ UNCHANGED <<alertNow, tried>>
    BY <1>1 DEF ProcessAlert
  <2>2. CASE IsDuplicate(k)
    BY <1>1, <2>1, <2>2, DroppingOK DEF ProcessAlert
  <2>3. CASE ~IsDuplicate(k)
    <3>1. /\ dedup_cache' = [dedup_cache EXCEPT ![k] = alertNow]
          /\ pending' = Matching(k) /\ alerts_dropped' \in Nat
      BY <1>1, <2>3 DEF ProcessAlert, AlertIInv, AlertTypes
    <3> QED
      BY <2>1, <3>1, NotingOK
  <2> QED
    BY <2>2, <2>3
<1>2. ASSUME NEW w, w \in pending, ShimDelivers(w) PROVE AlertIInv'
  <2>1. Sent(w) /\ UNCHANGED <<alertNow, dedup_cache, alert, alerts_dropped>>
    BY <1>2 DEF ShimDelivers
  <2>2. pending' \in {pending, pending \ {w}}
    BY <1>2 DEF ShimDelivers
  <2> QED
    BY <1>2, <2>1, <2>2, SendingOK
<1>3. ASSUME pending # {}, ShimDelivers(CHOOSE x \in pending : TRUE) PROVE AlertIInv'
  <2>1. (CHOOSE x \in pending : TRUE) \in pending
    BY <1>3
  <2> QED
    BY <1>2, <1>3, <2>1
<1> QED
  BY <1>1, <1>3, AlertUpkeepOK DEF AlertShimNext

\* What a drop implies when it happens, in either program.
DropIsRepeat ==
  alerts_dropped' # alerts_dropped /\ alert'[2] >= Warning /\ alert'[2] >= GlobalMin =>
    \A w \in Matching(alert') : alertNow - tried[alert'][w] < DedupWindow

LEMMA RepeatWasTried ==
  ASSUME AlertIInv, NEW k \in AlertKeys, pending = {}, IsDuplicate(k), NEW w \in Matching(k)
  PROVE  alertNow - tried[k][w] < DedupWindow
<1>1. dedup_cache[k] <= tried[k][w]
  BY DEF AlertIInv, NotedWasTried, IsDuplicate
<1>2. w \in Hook
  BY DEF Matching
<1>3. tried[k][w] \in Nat /\ dedup_cache[k] \in Nat /\ alertNow \in Nat
  BY <1>2 DEF AlertIInv, AlertTypes
<1> QED
  BY <1>1, <1>3, AlertingAssumption DEF IsDuplicate

LEMMA ManagerDrops == AlertIInv /\ [ManagerNext]_alertVars => [DropIsRepeat]_alertVars
<1> SUFFICES ASSUME AlertIInv, ManagerNext, alerts_dropped' # alerts_dropped,
                    alert'[2] >= Warning, alert'[2] >= GlobalMin, NEW w \in Matching(alert')
             PROVE  alertNow - tried[alert'][w] < DedupWindow
  BY DEF DropIsRepeat
<1>1. PICK k \in AlertKeys : ProcessEvent(k)
  BY DEF ManagerNext, ManagerDelivers, ManagerStops, CleanupDedupCache, AlertTick, alertCounters
<1>2. alert' = k /\ pending = {} /\ w \in Matching(k) /\ Passes(k)
  BY <1>1 DEF ProcessEvent, Passes
<1>3. ~RecordAlert(k)
  BY <1>2 DEF RecordAlert, AlertIInv, AlertTypes
<1>4. IsDuplicate(k)
  BY <1>1, <1>2, <1>3 DEF ProcessEvent
<1> QED
  BY <1>2, <1>4, RepeatWasTried

LEMMA AlertShimDrops == AlertIInv /\ [AlertShimNext]_alertVars => [DropIsRepeat]_alertVars
<1> SUFFICES ASSUME AlertIInv, AlertShimNext, alerts_dropped' # alerts_dropped,
                    NEW w \in Matching(alert')
             PROVE  alertNow - tried[alert'][w] < DedupWindow
  BY DEF DropIsRepeat
<1>1. PICK k \in AlertKeys : ProcessAlert(k)
  BY DEF AlertShimNext, ShimDelivers, ClearDedupCache, CleanupDedupCache, AlertTick, alertCounters
<1>2. alert' = k /\ pending = {} /\ w \in Matching(k) /\ IsDuplicate(k)
  BY <1>1 DEF ProcessAlert
<1> QED
  BY <1>2, RepeatWasTried

(* For every window, set of webhooks and severities: an alert that either  *)
(* program drops as a repeat was sent to each of its webhooks within the   *)
(* window, however deliveries, retries, clean-ups and time interleave      *)
(* (AlertManager::process_event, AlertingShim::process_alert).             *)
THEOREM RepeatsWereSent == AlertSpec => SuppressedWasTried
<1>1. AlertIInv /\ [ManagerNext \/ AlertShimNext]_alertVars => AlertIInv'
  BY ManagerStep, AlertShimStep
<1>2. AlertIInv /\ [ManagerNext \/ AlertShimNext]_alertVars => [DropIsRepeat]_alertVars
  BY ManagerDrops, AlertShimDrops
<1>3. AlertSpec => [][DropIsRepeat]_alertVars
  BY AlertInitOK, <1>1, <1>2, PTL DEF AlertSpec
<1> QED
  BY <1>3 DEF SuppressedWasTried, DropIsRepeat

-----------------------------------------------------------------------------
(* backup-shim                                                             *)

BackupSpec == BackupInit /\ [][BackupNext]_backupVars

BackupTypes ==
  /\ backupSetup \in [storage : {"local", "s3"}, remove : BOOLEAN,
                      db_type : {"sql", "mongo"}]
  /\ wallClock \in 0..MaxNow
  /\ started \in Seq(0..Second(MaxNow)) /\ Len(started) \in 1..MaxBackups
  /\ job \in [pc : JobPcs, name : Nat, attempt : 0..RetryAttempts,
              sum : 0..MaxBackups, wake : {job.wake}, stopping : BOOLEAN]
  /\ backupState \in [history : SUBSET [name : Nat, sum : Nat, at : Nat, run : Nat],
                      success : {backupState.success}, failure : {backupState.failure},
                      expired : {backupState.expired}]

FilesTyped ==
  /\ \A n \in DOMAIN disk : disk[n] \in 0..MaxBackups
  /\ \A n \in DOMAIN bucket : bucket[n] \in 1..MaxBackups

Busy == job.pc \in {"dump", "read", "upload", "record"}

\* The file and the checksum of the backup under way are those of its own run.
OwnFile ==
  /\ Busy => job.name = started[Len(started)]
  /\ job.pc \in {"read", "upload"} =>
       job.name \in DOMAIN disk /\ disk[job.name] = Len(started)
  /\ job.pc \in {"upload", "record"} => job.sum = Len(started)
  /\ job.pc = "record" => \/ verify(disk, job.name, job.sum)
                          \/ verify(bucket, job.name, job.sum)

\* The recorded runs have ended.
HistoryIsPast ==
  \A e \in backupState.history :
    e.run \in 1..Len(started) /\ (Busy => e.run < Len(started))

BackupIInv ==
  /\ BackupTypes /\ FilesTyped /\ OwnFile /\ HistoryIsPast
  /\ LastBackupIsRestorable

LEMMA SecondOfNow ==
  ASSUME NEW t \in 0..MaxNow
  PROVE  Second(t) \in 0..Second(MaxNow)
<1>1. MaxNow \in Nat
  BY BackupAssumption
<1> QED
  BY <1>1 DEF Second

LEMMA BackupInitOK == BackupInit => BackupIInv
<1> SUFFICES ASSUME BackupInit PROVE BackupIInv
  OBVIOUS
<1>1. /\ MaxNow \in Nat /\ MaxBackups \in Nat /\ MaxBackups > 0
      /\ RetryAttempts \in Nat
  BY BackupAssumption
<1>2. /\ started = <<0>> /\ Len(started) = 1 /\ started[1] = 0
  BY DEF BackupInit
<1>3. 0 \in 0..Second(MaxNow)
  BY <1>1 DEF Second
<1>4. started \in Seq(0..Second(MaxNow))
  BY <1>2, <1>3
<1>5. /\ job.pc = "dump" /\ job.name = 0 /\ backupState.history = {}
      /\ DOMAIN disk = {} /\ DOMAIN bucket = {}
  BY DEF BackupInit
<1>6. BackupTypes
  BY <1>1, <1>2, <1>4 DEF BackupTypes, BackupInit, JobPcs, Truncated
<1>7. FilesTyped /\ OwnFile /\ HistoryIsPast /\ LastBackupIsRestorable
  BY <1>2, <1>5 DEF FilesTyped, OwnFile, HistoryIsPast, LastBackupIsRestorable, Busy
<1> QED
  BY <1>6, <1>7 DEF BackupIInv

\* A step that leaves the files and the recorded entries of other runs alone
\* keeps those entries restorable.
LEMMA EntriesKeep ==
  ASSUME BackupTypes, HistoryIsPast, LastBackupIsRestorable,
         NEW e \in backupState.history,
         started' = started \/ \E s : started' = Append(started, s) /\ s \in Nat,
         \/ disk' = disk /\ bucket' = bucket
         \/ /\ Busy /\ job.name = started[Len(started)]
            /\ started' = started
            /\ \A n \in DOMAIN disk : n # job.name =>
                 n \in DOMAIN disk' /\ disk'[n] = disk[n]
            /\ \A n \in DOMAIN bucket : n # job.name =>
                 n \in DOMAIN bucket' /\ bucket'[n] = bucket[n]
  PROVE  \/ \E k \in (e.run + 1)..Len(started') : started'[k] = e.name
         \/ verify(disk', e.name, e.sum) \/ verify(bucket', e.name, e.sum)
<1>1. /\ e.run \in 1..Len(started) /\ (Busy => e.run < Len(started))
      /\ Len(started) \in Nat /\ started \in Seq(0..Second(MaxNow))
  BY DEF BackupTypes, HistoryIsPast
<1>2. \/ \E k \in (e.run + 1)..Len(started) : started[k] = e.name
      \/ verify(disk, e.name, e.sum) \/ verify(bucket, e.name, e.sum)
  BY DEF LastBackupIsRestorable
<1>3. CASE \E k \in (e.run + 1)..Len(started) : started[k] = e.name
  <2>1. PICK k \in (e.run + 1)..Len(started) : started[k] = e.name
    BY <1>3
  <2>2. k \in (e.run + 1)..Len(started') /\ started'[k] = started[k]
    BY <1>1, <2>1
  <2> QED
    BY <2>1, <2>2
<1>4. CASE disk' = disk /\ bucket' = bucket
           /\ (verify(disk, e.name, e.sum) \/ verify(bucket, e.name, e.sum))
  BY <1>4
<1>5. CASE Busy /\ job.name = started[Len(started)] /\ started' = started
           /\ job.name = e.name
  <2>1. Len(started) \in (e.run + 1)..Len(started') /\ started'[Len(started)] = e.name
    BY <1>1, <1>5
  <2> QED
    BY <2>1
<1>6. CASE /\ job.name # e.name
           /\ verify(disk, e.name, e.sum) \/ verify(bucket, e.name, e.sum)
           /\ \A n \in DOMAIN disk : n # job.name =>
                n \in DOMAIN disk' /\ disk'[n] = disk[n]
           /\ \A n \in DOMAIN bucket : n # job.name =>
                n \in DOMAIN bucket' /\ bucket'[n] = bucket[n]
  BY <1>6 DEF verify
<1> QED
  BY <1>2, <1>3, <1>4, <1>5, <1>6

\* The loop goes to sleep.
LEMMA SleptTyped ==
  ASSUME BackupTypes
  PROVE  /\ Slept(job).pc = "asleep"
         /\ Slept(job) \in [pc : JobPcs, name : Nat, attempt : 0..RetryAttempts,
                            sum : 0..MaxBackups, wake : {Slept(job).wake},
                            stopping : BOOLEAN]
<1> DEFINE w == wallClock + 2 * ((NextScheduled(wallClock) - wallClock) \div 2)
<1>1. Slept(job) = [pc |-> "asleep", name |-> job.name, attempt |-> job.attempt,
                    sum |-> job.sum, wake |-> w, stopping |-> job.stopping]
  <2> HIDE DEF w
  <2>1. Slept(job) = [job EXCEPT !.pc = "asleep", !.wake = w]
    BY DEF Slept, w
  <2> QED
    BY <2>1 DEF BackupTypes
<1> HIDE DEF w
<1> QED
  BY <1>1 DEF BackupTypes, JobPcs

\* The steps that touch neither the files nor the history.
LEMMA JobSteps ==
  ASSUME BackupIInv,
         \/ BackupTick \/ Wake \/ StopBackups \/ BackupLoopEnds \/ DumpMongo
         \/ ReadBack
  PROVE  BackupIInv'
<1> USE DEF BackupIInv
<1>0. /\ UNCHANGED <<backupSetup, disk, bucket, backupState>>
      /\ started' = started \/ \E s : started' = Append(started, s) /\ s \in Nat
  <2>1. CASE Wake
    BY <2>1, SecondOfNow DEF Wake, BackupTypes, Second
  <2> QED
    BY <2>1 DEF BackupTick, StopBackups, BackupLoopEnds, DumpMongo, ReadBack
<1>1. LastBackupIsRestorable'
  BY <1>0, EntriesKeep DEF LastBackupIsRestorable
<1>2. FilesTyped'
  BY <1>0 DEF FilesTyped
<1>3. ASSUME UNCHANGED started, wallClock' \in 0..MaxNow,
             job' \in [pc : JobPcs, name : Nat, attempt : 0..RetryAttempts,
                       sum : 0..MaxBackups, wake : {job'.wake}, stopping : BOOLEAN]
      PROVE  BackupTypes'
  BY <1>0, <1>3 DEF BackupTypes
<1>4. ASSUME UNCHANGED started, Busy' => Busy
      PROVE  HistoryIsPast'
  BY <1>0, <1>4 DEF HistoryIsPast
<1>5. CASE BackupTick
  <2>1. UNCHANGED <<job, started>> /\ wallClock' \in 0..MaxNow
    BY <1>5, BackupAssumption DEF BackupTick, BackupTypes
  <2>2. BackupTypes'
    BY <1>0, <2>1 DEF BackupTypes
  <2>3. OwnFile' /\ HistoryIsPast'
    BY <1>0, <2>1, <1>4 DEF OwnFile, Busy
  <2> QED
    BY <1>1, <1>2, <2>2, <2>3
<1>6. CASE Wake
  <2>1. /\ started' = Append(started, Second(wallClock))
        /\ Second(wallClock) \in 0..Second(MaxNow) /\ Second(wallClock) \in Nat
        /\ started \in Seq(0..Second(MaxNow)) /\ Len(started) \in Nat
        /\ Len(started) < MaxBackups /\ MaxBackups \in Nat
        /\ UNCHANGED wallClock
    BY <1>6, SecondOfNow, BackupAssumption DEF Wake, BackupTypes, Second
  <2>2. /\ Len(started') = Len(started) + 1 /\ started'[Len(started')] = Second(wallClock)
        /\ started' \in Seq(0..Second(MaxNow)) /\ Len(started') \in 1..MaxBackups
    BY <2>1
  <2>3. job' = [job EXCEPT !.pc = "dump", !.name = Second(wallClock), !.attempt = 0]
    BY <1>6 DEF Wake
  <2>4. /\ job'.pc = "dump" /\ job'.name = Second(wallClock)
        /\ job' \in [pc : JobPcs, name : Nat, attempt : 0..RetryAttempts,
                     sum : 0..MaxBackups, wake : {job'.wake}, stopping : BOOLEAN]
    <3>1. job' = [pc |-> "dump", name |-> Second(wallClock), attempt |-> 0,
                  sum |-> job.sum, wake |-> job.wake, stopping |-> job.stopping]
      BY <2>3 DEF BackupTypes
    <3> QED
      BY <2>1, <3>1, BackupAssumption DEF BackupTypes, JobPcs
  <2>5. BackupTypes'
    BY <1>0, <2>1, <2>2, <2>4 DEF BackupTypes
  <2>6. OwnFile'
    BY <2>2, <2>4 DEF OwnFile
  <2>7. HistoryIsPast'
    BY <1>0, <2>1, <2>2 DEF HistoryIsPast
  <2> QED
    BY <1>1, <1>2, <2>5, <2>6, <2>7
<1>7. CASE StopBackups
  <2>1. /\ UNCHANGED <<started, wallClock>> /\ job' = [job EXCEPT !.stopping = TRUE]
    BY <1>7 DEF StopBackups
  <2>2. /\ job'.pc = job.pc /\ job'.name = job.name /\ job'.sum = job.sum
        /\ job' \in [pc : JobPcs, name : Nat, attempt : 0..RetryAttempts,
                     sum : 0..MaxBackups, wake : {job'.wake}, stopping : BOOLEAN]
    BY <2>1 DEF BackupTypes
  <2>3. wallClock' \in 0..MaxNow
    BY <2>1 DEF BackupTypes
  <2>4. OwnFile' /\ (Busy' => Busy)
    BY <1>0, <2>1, <2>2 DEF OwnFile, Busy
  <2> QED
    BY <1>1, <1>2, <1>3, <1>4, <2>1, <2>2, <2>3, <2>4
<1>8. CASE BackupLoopEnds
  <2>1. /\ UNCHANGED <<started, wallClock>> /\ job' = [job EXCEPT !.pc = "off"]
    BY <1>8 DEF BackupLoopEnds
  <2>2. /\ job'.pc = "off"
        /\ job' \in [pc : JobPcs, name : Nat, attempt : 0..RetryAttempts,
                     sum : 0..MaxBackups, wake : {job'.wake}, stopping : BOOLEAN]
    BY <2>1 DEF BackupTypes, JobPcs
  <2>3. wallClock' \in 0..MaxNow
    BY <2>1 DEF BackupTypes
  <2>4. OwnFile' /\ ~Busy'
    BY <2>2 DEF OwnFile, Busy
  <2> QED
    BY <1>1, <1>2, <1>3, <1>4, <2>1, <2>2, <2>3, <2>4
<1>9. CASE DumpMongo
  <2>1. /\ UNCHANGED <<started, wallClock>> /\ job' = Slept(job)
    BY <1>9 DEF DumpMongo
  <2>2. /\ job'.pc = "asleep"
        /\ job' \in [pc : JobPcs, name : Nat, attempt : 0..RetryAttempts,
                     sum : 0..MaxBackups, wake : {job'.wake}, stopping : BOOLEAN]
    BY <2>1, SleptTyped DEF BackupTypes
  <2>3. wallClock' \in 0..MaxNow
    BY <2>1 DEF BackupTypes
  <2>4. OwnFile' /\ ~Busy'
    BY <2>2 DEF OwnFile, Busy
  <2> QED
    BY <1>1, <1>2, <1>3, <1>4, <2>1, <2>2, <2>3, <2>4
<1>10. CASE ReadBack
  <2>1. /\ job.pc = "read" /\ UNCHANGED <<started, wallClock>>
        /\ job' = [job EXCEPT !.sum = disk[job.name],
                              !.pc = IF backupSetup.storage = "s3"
                                     THEN "upload" ELSE "record"]
    BY <1>10 DEF ReadBack
  <2>2. /\ job.name \in DOMAIN disk /\ disk[job.name] = Len(started)
        /\ disk[job.name] \in 0..MaxBackups /\ Len(started) \in 1..MaxBackups
        /\ job.name = started[Len(started)] /\ MaxBackups \in Nat
    BY <2>1, BackupAssumption DEF OwnFile, FilesTyped, BackupTypes, Busy
  <2>3. /\ job'.pc \in {"upload", "record"} /\ job'.sum = Len(started)
        /\ job'.name = job.name
        /\ job' \in [pc : JobPcs, name : Nat, attempt : 0..RetryAttempts,
                     sum : 0..MaxBackups, wake : {job'.wake}, stopping : BOOLEAN]
    BY <2>1, <2>2 DEF BackupTypes, JobPcs
  <2>4. wallClock' \in 0..MaxNow
    BY <2>1 DEF BackupTypes
  <2>5. OwnFile'
    BY <1>0, <2>1, <2>2, <2>3 DEF OwnFile, verify, Truncated
  <2>6. Busy
    BY <2>1 DEF Busy
  <2> QED
    BY <1>1, <1>2, <1>3, <1>4, <2>1, <2>3, <2>4, <2>5, <2>6
<1> QED
  BY <1>5, <1>6, <1>7, <1>8, <1>9, <1>10

\* The steps that write or drop the file of the backup under way.
LEMMA FileSteps ==
  ASSUME BackupIInv,
         DumpWritten \/ DumpFails \/ \E ok \in BOOLEAN : UploadToS3(ok)
  PROVE  BackupIInv'
<1> USE DEF BackupIInv
<1>0. /\ Busy /\ job.name = started[Len(started)] /\ Len(started) \in 1..MaxBackups
      /\ UNCHANGED <<backupSetup, wallClock, started>>
      /\ backupState'.history = backupState.history
      /\ backupState' \in [history : SUBSET [name : Nat, sum : Nat, at : Nat, run : Nat],
                      success : {backupState'.success}, failure : {backupState'.failure},
                      expired : {backupState'.expired}]
      /\ MaxBackups \in Nat /\ RetryAttempts \in Nat
  BY BackupAssumption
  DEF Busy, OwnFile, BackupTypes, DumpWritten, DumpFails, UploadToS3
<1>1. ASSUME \A n \in DOMAIN disk : n # job.name =>
               n \in DOMAIN disk' /\ disk'[n] = disk[n],
             \A n \in DOMAIN bucket : n # job.name =>
               n \in DOMAIN bucket' /\ bucket'[n] = bucket[n]
      PROVE  LastBackupIsRestorable'
  BY <1>0, <1>1, EntriesKeep DEF LastBackupIsRestorable
<1>2. HistoryIsPast'
  BY <1>0 DEF HistoryIsPast, Busy
<1>3. ASSUME job' \in [pc : JobPcs, name : Nat, attempt : 0..RetryAttempts,
                       sum : 0..MaxBackups, wake : {job'.wake}, stopping : BOOLEAN]
      PROVE  BackupTypes'
  BY <1>0, <1>3 DEF BackupTypes
<1>4. CASE DumpWritten
  <2>1. /\ disk' = Put(disk, job.name, Len(started)) /\ bucket' = bucket
        /\ job' = [job EXCEPT !.pc = "read"]
    BY <1>4 DEF DumpWritten
  <2>2. /\ DOMAIN disk' = DOMAIN disk \cup {job.name} /\ disk'[job.name] = Len(started)
        /\ \A n \in DOMAIN disk : n # job.name => disk'[n] = disk[n]
    BY <2>1 DEF Put
  <2>3. /\ job'.pc = "read" /\ job'.name = job.name
        /\ job' \in [pc : JobPcs, name : Nat, attempt : 0..RetryAttempts,
                     sum : 0..MaxBackups, wake : {job'.wake}, stopping : BOOLEAN]
    BY <2>1 DEF BackupTypes, JobPcs
  <2>4. OwnFile'
    BY <1>0, <2>2, <2>3 DEF OwnFile
  <2>5. FilesTyped'
    BY <1>0, <2>1, <2>2 DEF FilesTyped
  <2> QED
    BY <1>1, <1>2, <1>3, <2>1, <2>2, <2>3, <2>4, <2>5
<1>5. CASE DumpFails
  <2>1. /\ job.pc = "dump" /\ bucket' = bucket
        /\ disk' = disk \/ disk' = Put(disk, job.name, Truncated)
    BY <1>5 DEF DumpFails
  <2>2. /\ DOMAIN disk \subseteq DOMAIN disk'
        /\ \A n \in DOMAIN disk : n # job.name => disk'[n] = disk[n]
        /\ \A n \in DOMAIN disk' : disk'[n] \in 0..MaxBackups
    <3>1. CASE disk' = disk
      BY <3>1 DEF FilesTyped
    <3>2. CASE disk' = Put(disk, job.name, Truncated)
      BY <1>0, <3>2 DEF Put, FilesTyped, Truncated
    <3> QED
      BY <2>1, <3>1, <3>2
  <2>3. /\ job'.pc \in {"dump", "asleep"} /\ (job'.pc = "dump" => job'.name = job.name)
        /\ job' \in [pc : JobPcs, name : Nat, attempt : 0..RetryAttempts,
                     sum : 0..MaxBackups, wake : {job'.wake}, stopping : BOOLEAN]
    <3>1. CASE job.attempt < RetryAttempts
      <4>1. job' = [job EXCEPT !.attempt = @ + 1]
        BY <1>5, <3>1 DEF DumpFails
      <4> QED
        BY <1>0, <2>1, <3>1, <4>1 DEF BackupTypes, JobPcs
    <3>2. CASE ~(job.attempt < RetryAttempts)
      <4>1. job' = Slept(job)
        BY <1>5, <3>2 DEF DumpFails
      <4> QED
        BY <4>1, SleptTyped
    <3> QED
      BY <3>1, <3>2
  <2>4. OwnFile'
    BY <1>0, <2>3 DEF OwnFile, Busy
  <2>5. FilesTyped'
    BY <2>1, <2>2 DEF FilesTyped
  <2> QED
    BY <1>1, <1>2, <1>3, <2>1, <2>2, <2>3, <2>4, <2>5
<1>6. ASSUME NEW ok \in BOOLEAN, UploadToS3(ok)
      PROVE  BackupIInv'
  <2>1. /\ job.pc = "upload" /\ job' = [job EXCEPT !.pc = "record"]
        /\ bucket' = IF ok THEN Put(bucket, job.name, disk[job.name]) ELSE bucket
        /\ disk' = IF ok /\ backupSetup.remove
                   THEN [n \in DOMAIN disk \ {job.name} |-> disk[n]] ELSE disk
    BY <1>6 DEF UploadToS3, Uploaded
  <2>2. /\ job.name \in DOMAIN disk /\ disk[job.name] = Len(started)
        /\ job.sum = Len(started)
    BY <2>1 DEF OwnFile
  <2>3. /\ job'.pc = "record" /\ job'.name = job.name /\ job'.sum = job.sum
        /\ job' \in [pc : JobPcs, name : Nat, attempt : 0..RetryAttempts,
                     sum : 0..MaxBackups, wake : {job'.wake}, stopping : BOOLEAN]
    BY <2>1 DEF BackupTypes, JobPcs
  <2>4. /\ \A n \in DOMAIN disk' : n \in DOMAIN disk /\ disk'[n] = disk[n]
        /\ \A n \in DOMAIN disk : n # job.name => n \in DOMAIN disk'
    BY <2>1
  <2>5. CASE ok
    <3>1. bucket' = Put(bucket, job.name, Len(started))
      BY <2>1, <2>2, <2>5
    <3>2. /\ DOMAIN bucket' = DOMAIN bucket \cup {job.name}
          /\ bucket'[job.name] = Len(started)
          /\ \A n \in DOMAIN bucket : n # job.name => bucket'[n] = bucket[n]
      BY <3>1 DEF Put
    <3>3. FilesTyped'
      BY <1>0, <2>4, <3>2 DEF FilesTyped
    <3>4. OwnFile'
      BY <1>0, <2>2, <2>3, <3>2 DEF OwnFile, verify, Truncated
    <3> QED
      BY <1>1, <1>2, <1>3, <2>3, <2>4, <3>2, <3>3, <3>4
  <2>6. CASE ~ok
    <3>1. bucket' = bucket /\ disk' = disk
      BY <2>1, <2>6
    <3>2. OwnFile'
      BY <1>0, <2>2, <2>3, <3>1 DEF OwnFile, verify, Truncated
    <3> QED
      BY <1>1, <1>2, <1>3, <2>3, <3>1, <3>2 DEF FilesTyped
  <2> QED
    BY <2>5, <2>6
<1> QED
  BY <1>4, <1>5, <1>6

\* The steps that touch the history.
LEMMA HistorySteps ==
  ASSUME BackupIInv, RecordBackup \/ CleanupRetention
  PROVE  BackupIInv'
<1> USE DEF BackupIInv
<1>1. CASE RecordBackup
  <2> DEFINE e == [name |-> job.name, sum |-> job.sum, at |-> wallClock,
                   run |-> Len(started)]
             h == backupState.history \cup {e}
  <2>1. /\ job.pc = "record" /\ job' = Slept(job)
        /\ UNCHANGED <<backupSetup, wallClock, started, disk, bucket>>
        /\ backupState' = [backupState EXCEPT !.history = h, !.success = @ + 1]
    BY <1>1 DEF RecordBackup
  <2>2. /\ e.name = job.name /\ e.sum = job.sum /\ e.run = Len(started)
        /\ e \in [name : Nat, sum : Nat, at : Nat, run : Nat]
        /\ Len(started) \in 1..MaxBackups
    BY BackupAssumption DEF BackupTypes
  <2>3. backupState.history \subseteq [name : Nat, sum : Nat, at : Nat, run : Nat]
    BY DEF BackupTypes
  <2>4. h \in SUBSET [name : Nat, sum : Nat, at : Nat, run : Nat]
    BY <2>2, <2>3
  <2>5. \/ verify(disk, e.name, e.sum) \/ verify(bucket, e.name, e.sum)
    BY <2>1, <2>2 DEF OwnFile
  <2> HIDE DEF e
  <2>h. h = backupState.history \cup {e}
    OBVIOUS
  <2> HIDE DEF h
  <2>6. /\ backupState'.history = h
        /\ backupState' \in [history : SUBSET [name : Nat, sum : Nat, at : Nat, run : Nat],
                      success : {backupState'.success}, failure : {backupState'.failure},
                      expired : {backupState'.expired}]
    <3>1. backupState' = [history |-> h, success |-> backupState.success + 1,
                          failure |-> backupState.failure, expired |-> backupState.expired]
      BY <2>1 DEF BackupTypes
    <3> QED
      BY <2>4, <3>1
  <2>7. /\ job'.pc = "asleep"
        /\ job' \in [pc : JobPcs, name : Nat, attempt : 0..RetryAttempts,
                     sum : 0..MaxBackups, wake : {job'.wake}, stopping : BOOLEAN]
    BY <2>1, SleptTyped
  <2>8. BackupTypes'
    BY <2>1, <2>6, <2>7 DEF BackupTypes
  <2>9. FilesTyped' /\ OwnFile' /\ ~Busy'
    BY <2>1, <2>7 DEF FilesTyped, OwnFile, Busy
  <2>10. HistoryIsPast'
    BY <2>1, <2>2, <2>h, <2>6, <2>9 DEF HistoryIsPast
  <2>11. LastBackupIsRestorable'
    BY <2>1, <2>5, <2>h, <2>6 DEF LastBackupIsRestorable
  <2> QED
    BY <2>8, <2>9, <2>10, <2>11
<1>2. CASE CleanupRetention
  <2> DEFINE kept == {e \in backupState.history : e.at + Retention >= wallClock}
             gone == Cardinality(backupState.history \ kept)
  <2>1. /\ UNCHANGED <<backupSetup, wallClock, job, started, disk, bucket>>
        /\ backupState' = [backupState EXCEPT !.history = kept, !.expired = @ + gone]
    BY <1>2 DEF CleanupRetention
  <2>2. /\ backupState.history \subseteq [name : Nat, sum : Nat, at : Nat, run : Nat]
        /\ kept \subseteq backupState.history
    BY DEF BackupTypes
  <2> HIDE DEF kept, gone
  <2>3. backupState' = [history |-> kept, success |-> backupState.success,
                        failure |-> backupState.failure,
                        expired |-> backupState.expired + gone]
    BY <2>1 DEF BackupTypes
  <2>4. /\ backupState'.history = kept
        /\ backupState' \in [history : SUBSET [name : Nat, sum : Nat, at : Nat, run : Nat],
                      success : {backupState'.success}, failure : {backupState'.failure},
                      expired : {backupState'.expired}]
    <3>1. kept \in SUBSET [name : Nat, sum : Nat, at : Nat, run : Nat]
      BY <2>2
    <3> QED
      BY <2>3, <3>1
  <2>5. BackupTypes'
    BY <2>1, <2>4 DEF BackupTypes
  <2>6. FilesTyped' /\ OwnFile'
    BY <2>1 DEF FilesTyped, OwnFile, Busy
  <2>7. HistoryIsPast'
    BY <2>1, <2>2, <2>4 DEF HistoryIsPast, Busy
  <2>8. LastBackupIsRestorable'
    BY <2>1, <2>2, <2>4 DEF LastBackupIsRestorable
  <2> QED
    BY <2>5, <2>6, <2>7, <2>8
<1> QED
  BY <1>1, <1>2

LEMMA BackupStep == BackupIInv /\ [BackupNext]_backupVars => BackupIInv'
<1> SUFFICES ASSUME BackupIInv, [BackupNext]_backupVars PROVE BackupIInv'
  OBVIOUS
<1>1. CASE UNCHANGED backupVars
  BY <1>1 DEF backupVars, BackupIInv, BackupTypes, FilesTyped, OwnFile,
              HistoryIsPast, LastBackupIsRestorable, Busy
<1>2. CASE BackupNext
  BY <1>2, JobSteps, FileSteps, HistorySteps DEF BackupNext
<1> QED
  BY <1>1, <1>2

LEMMA BackupAlways == BackupSpec => []BackupIInv
BY BackupInitOK, BackupStep, PTL DEF BackupSpec

(* A recorded backup passes BackupVerifier::verify on disk or in S3, for   *)
(* any schedule, retries and retention, unless a later run of the same     *)
(* second has taken its file name.                                         *)
THEOREM BackupsRestorable == BackupSpec => []LastBackupIsRestorable
<1>1. BackupIInv => LastBackupIsRestorable
  BY DEF BackupIInv
<1> QED
  BY <1>1, BackupAlways, PTL

(* The clock, the retries and every file's content stay in their ranges:   *)
(* nothing but the dump of a run that was started is ever uploaded.        *)
THEOREM BackupTypesHold == BackupSpec => []BackupTypeOK
<1>1. BackupIInv => BackupTypeOK
  BY DEF BackupIInv, BackupTypes, FilesTyped, BackupTypeOK
<1> QED
  BY <1>1, BackupAlways, PTL
=============================================================================
