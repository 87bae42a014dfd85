-------------------------------- MODULE Audit --------------------------------
(***************************************************************************)
(* forensic/src/lib.rs: the auditor.  It parses the metadata without a     *)
(* password, of which the searches in the plist are module PlistScan, and  *)
(* classifies what they found.  Whatever fails before there is any         *)
(* metadata, from opening the file on, is an error of the audit.           *)
(***************************************************************************)
EXTENDS PlistScan, KeyHierarchy

VARIABLES outcome,    \* "none" yet, "ok", the error of the audit or "panic"
          findings    \* the findings it returned

avars == <<vars, outcome, findings>>

AInit == Init /\ outcome = "none" /\ findings = <<>>
-----------------------------------------------------------------------------
WEAK_KDF_THRESHOLD == 20000

\* Anomaly::new and to_finding: all but the evidence follows from the kind.
Finding(code, severity, category, evidence) ==
    [code |-> code, severity |-> severity, category |-> category,
     evidence |-> evidence]

\* ProtectorKind::label, in alphabetical order.
Rank == [institutional |-> 1, password |-> 2, recovery |-> 3, unknown |-> 4]

Count(s, x) == Cardinality({i \in DOMAIN s : s[i] = x})

IsSorting(s, labels) ==
    /\ \A i, j \in DOMAIN s : i < j => Rank[s[i]] <= Rank[s[j]]
    /\ \A x \in DOMAIN Rank : Count(s, x) = Count(labels, x)

\* The same labels in their order.
sort_unstable(labels) ==
    CHOOSE s \in [DOMAIN labels -> DOMAIN Rank] : IsSorting(s, labels)

\* Mutant: the labels stay in the order of the plist.
protector_summary_unsorted(protectors) ==
    [i \in DOMAIN protectors |-> protectors[i].kind]

\* The labels in alphabetical order; no protectors are shown as "none".
protector_summary(protectors) ==
    sort_unstable([i \in DOMAIN protectors |-> protectors[i].kind])

ProtectorInventory ==
    Finding("FVDE-PROTECTOR-INVENTORY", "Info", "Provenance",
            [summary |-> protector_summary(context.protectors),
             count |-> Len(context.protectors)])

EncryptionState(status) ==
    Finding("FVDE-ENCRYPTION-STATE", "Info", "Structure", status)

WeakKdfIterations(n) ==
    Finding("FVDE-WEAK-KDF-ITERATIONS", "Medium", "Integrity", n)

\* Mutant: a count of zero is taken for an unknown one.
IsWeak_known(n) == n > 0 /\ n < WEAK_KDF_THRESHOLD

IsWeak(n) == n < WEAK_KDF_THRESHOLD

\* A sequence of the one element of an Option, if any.
Listed(option) == [i \in 1 .. Cardinality(option) |-> CHOOSE x \in option : TRUE]

audit_info ==
    <<ProtectorInventory>>
    \o Listed({EncryptionState(s) : s \in context.conversion_status})
    \o Listed({WeakKdfIterations(n) : n \in {m \in {context.iterations} : IsWeak(m)}})
-----------------------------------------------------------------------------
\* audit_path and parse_info, before there is any decrypted metadata.
EarlierError(e) == /\ outcome = "none"
                   /\ pc = "passphrase"
                   /\ outcome' = e
                   /\ UNCHANGED <<vars, findings>>

Scan == outcome = "none" /\ Next /\ UNCHANGED <<outcome, findings>>

\* audit and audit_findings: an error of parse_info is passed on.
Return == /\ outcome = "none"
          /\ pc = "done"
          /\ outcome' = result
          /\ findings' = IF result = "ok" THEN audit_info ELSE <<>>
          /\ UNCHANGED vars

\* Without a password there is no key to unwrap, without metadata no base64;
\* decrypting the metadata may panic.
ANext == \/ \E e \in (Errors \ {"Base64", "KeyUnwrap"}) \cup {"panic"} : EarlierError(e)
         \/ Scan \/ Return

ASpec == AInit /\ [][ANext]_avars
-----------------------------------------------------------------------------
Reported(code) == {i \in DOMAIN findings : findings[i].code = code}

EvidenceOf(code) == {findings[i].evidence : i \in Reported(code)}

\* How many UserType elements are of this kind.
Users(kind) == Cardinality({k \in Keys("UserType") :
                  from_user_type(Numerals[plist[k + 1].text]) = kind})

(***************************************************************************)
(* The inventory of a well typed plist with no more users than the cap is  *)
(* the same for every order of its users: the label of each kind as often  *)
(* as the plist has users of it, in alphabetical order, and their number.  *)
(* The labels are sorted and not deduped, see LabelsAreDeduped.            *)
(***************************************************************************)
InventoryIgnoresOrder ==
    (/\ outcome = "ok" /\ WellTyped
     /\ Cardinality(Keys("UserType")) <= MaxProtectors
     /\ \A k \in Keys("UserType") : IsU32(plist[k + 1].text)) =>
        \A inv \in EvidenceOf("FVDE-PROTECTOR-INVENTORY") :
            /\ inv.count = Cardinality(Keys("UserType"))
            /\ inv.summary =
                  [i \in 1 .. Users("institutional") |-> "institutional"]
                  \o [i \in 1 .. Users("password") |-> "password"]
                  \o [i \in 1 .. Users("recovery") |-> "recovery"]
                  \o [i \in 1 .. Users("unknown") |-> "unknown"]

(***************************************************************************)
(* forensic/src/tests.rs: the summary `is sorted and deduped labels'.      *)
(***************************************************************************)
LabelsAreDeduped ==
    \A inv \in EvidenceOf("FVDE-PROTECTOR-INVENTORY") : \A kind \in DOMAIN Rank :
        Count(inv.summary, kind) <= 1

(***************************************************************************)
(* Of a well typed plist the audit reports the first conversion status,    *)
(* wherever it stands, if that one is UTF-8, and no other string: neither  *)
(* a later status nor the value of another key.                            *)
(***************************************************************************)
StateIsTheFirstStatus ==
    (outcome = "ok" /\ WellTyped) =>
        EvidenceOf("FVDE-ENCRYPTION-STATE") =
            {plist[k + 1].text : k \in {k \in Keys("ConversionStatus") :
                /\ plist[k + 1].text \notin NotUtf8
                /\ \A j \in Keys("ConversionStatus") : k <= j}}

(***************************************************************************)
(* The audit flags exactly the volumes for which unlocking with a password *)
(* makes fewer rounds than the threshold, as passphrase_key counts them,   *)
(* by the passphrase struct that unlocking uses.                           *)
(***************************************************************************)
WeakVolumesAreFlagged ==
    (outcome = "ok" /\ WellTyped) =>
        LET first == CHOOSE k \in Keys("PassphraseWrappedKEKStruct") :
                        \A j \in Keys("PassphraseWrappedKEKStruct") : k <= j
            key == passphrase_key("password", "salt",
                                  Blobs[plist[first + 1].text].iterations)
        IN  Reported("FVDE-WEAK-KDF-ITERATIONS") # {} <=> key[4] < WEAK_KDF_THRESHOLD
==============================================================================
