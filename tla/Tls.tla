--------------------------------- MODULE Tls ---------------------------------
(***************************************************************************)
(* tls-shim: start() loads the certificate and the key of the domain from  *)
(* disk, or obtains new ones and writes first the certificate, then the    *)
(* key, each by a write that truncates the old file before it fills the    *)
(* new one.  The expiry of a certificate is not read from it: whatever is  *)
(* loaded or obtained counts as valid for Validity more days, and the      *)
(* daily check only logs.  A certificate and its key carry one number.     *)
(***************************************************************************)
EXTENDS Naturals, Sequences

CONSTANTS
  Validity,        \* days a new certificate is valid, and every loaded one
                   \* is taken to be
  RenewBefore,     \* TLS_RENEW_BEFORE in days
  MaxCerts,        \* bound: certificates obtained
  MaxDays          \* bound: days that pass

ASSUME TlsAssumption == {Validity, RenewBefore, MaxCerts, MaxDays} \subseteq Nat

VARIABLES
  day,
  issued,          \* certificate number -> day of issue
  certFile, keyFile,   \* numbers in the .pem and the .key file, 0: no file,
                   \* Torn: empty or cut off
  managed,         \* managed_certs[domain]: pair and days_until_expiry
  tlsPc,           \* where start() and renew_certificate_async are
  interrupted      \* history: a save was cut short since the last whole one

tlsVars == <<day, issued, certFile, keyFile, managed, tlsPc, interrupted>>

Torn == MaxCerts + 1     \* of no certificate

NoCert == [cert |-> 0, key |-> 0, days |-> 0]

TlsInit ==
  /\ day = 0 /\ issued = << >>
  /\ certFile = 0 /\ keyFile = 0
  /\ managed = NoCert
  /\ tlsPc = "down" /\ interrupted = FALSE

DayGoesBy ==
  /\ day < MaxDays /\ day' = day + 1
  /\ UNCHANGED <<issued, certFile, keyFile, managed, tlsPc, interrupted>>

needs_renewal(days) == days < RenewBefore

(* Both files must be readable; that they are whole and belong together is *)
(* not checked.                                                            *)
load_cert_from_disk ==
  IF certFile # 0 /\ keyFile # 0 THEN [cert |-> certFile, key |-> keyFile, days |-> Validity]
  ELSE NoCert

TlsStart ==
  /\ tlsPc = "down"
  /\ managed' = load_cert_from_disk
  /\ tlsPc' = IF managed' = NoCert \/ needs_renewal(Validity) THEN "renew" ELSE "up"
  /\ UNCHANGED <<day, issued, certFile, keyFile, interrupted>>

(* The provider is unknown, refuses, or does not answer in time; or the    *)
(* directory or the certificate file cannot be opened.                     *)
RenewalFails ==
  /\ tlsPc = "renew"
  /\ tlsPc' = "up"
  /\ UNCHANGED <<day, issued, certFile, keyFile, managed, interrupted>>

(* The provider answers, and save_cert_to_disk opens the certificate file, *)
(* which truncates it...                                                   *)
OpenCert ==
  /\ tlsPc = "renew" /\ Len(issued) < MaxCerts
  /\ issued' = Append(issued, day)
  /\ certFile' = Torn
  /\ tlsPc' = "write cert"
  /\ UNCHANGED <<day, keyFile, managed, interrupted>>

(* ... writes it...                                                        *)
SaveCert ==
  /\ tlsPc = "write cert"
  /\ certFile' = Len(issued)
  /\ tlsPc' = "open key"
  /\ UNCHANGED <<day, issued, keyFile, managed, interrupted>>

(* ... does the same with the key...                                       *)
OpenKey ==
  /\ tlsPc = "open key"
  /\ keyFile' = Torn
  /\ tlsPc' = "write key"
  /\ UNCHANGED <<day, issued, certFile, managed, interrupted>>

SaveKeySkipped ==
  /\ tlsPc = "write key"
  /\ managed' = [cert |-> certFile, key |-> keyFile, days |-> Validity]
  /\ tlsPc' = "up"
  /\ UNCHANGED <<day, issued, certFile, keyFile, interrupted>>

(* ... and the pair is registered.                                         *)
SaveKey ==
  /\ tlsPc = "write key"
  /\ keyFile' = Len(issued)
  /\ managed' = [cert |-> Len(issued), key |-> Len(issued), days |-> Validity]
  /\ tlsPc' = "up"
  /\ interrupted' = FALSE
  /\ UNCHANGED <<day, issued, certFile>>

(* A write fails, or the key file cannot be opened: the renewal has failed *)
(* and leaves on disk what it got to; the pair in memory is kept.          *)
Saving == tlsPc \in {"write cert", "open key", "write key"}
SaveFails ==
  /\ Saving
  /\ tlsPc' = "up" /\ interrupted' = TRUE
  /\ UNCHANGED <<day, issued, certFile, keyFile, managed>>

RemoveCert ==
  /\ tlsPc = "up" /\ managed # NoCert
  /\ managed' = NoCert
  /\ UNCHANGED <<day, issued, certFile, keyFile, tlsPc, interrupted>>

(* A caller renews: the daily loop of start() looks at days_until_expiry,  *)
(* which nothing ages, and leaves it at a message.                         *)
RenewCertificate ==
  /\ tlsPc = "up" /\ tlsPc' = "renew"
  /\ UNCHANGED <<day, issued, certFile, keyFile, managed, interrupted>>

TlsCrash ==
  /\ tlsPc # "down"
  /\ tlsPc' = "down" /\ managed' = NoCert
  /\ interrupted' = (interrupted \/ Saving)
  /\ UNCHANGED <<day, issued, certFile, keyFile>>

TlsNext ==
  \/ DayGoesBy \/ TlsStart \/ RenewalFails \/ OpenCert \/ SaveCert \/ OpenKey
  \/ SaveKey \/ SaveFails \/ RemoveCert \/ RenewCertificate \/ TlsCrash

-----------------------------------------------------------------------------
(* What a cut-short save can leave: a torn file, or the certificate beside *)
(* an older key.                                                           *)
Damaged(cert, key) == cert = Torn \/ key = Torn \/ key < cert

(* The certificate that is served is whole and belongs to the key that is  *)
(* served, unless a save was cut short since the last one that was         *)
(* completed; and then the pair is damaged in one of three ways: a key     *)
(* newer than its certificate is never served, and the next completed save *)
(* ends the damage (save_cert_to_disk, load_cert_from_disk).               *)
ServedPairFits ==
  \/ managed.cert = managed.key /\ managed.cert # Torn
  \/ interrupted /\ Damaged(managed.cert, managed.key)
=============================================================================
