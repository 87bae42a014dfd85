------------------------------ MODULE AuditProofs ------------------------------
(***************************************************************************)
(* Proofs about module Audit: what forensic/src/lib.rs reports of a volume *)
(* agrees with its plist and with what unlocking it takes.                 *)
(***************************************************************************)
EXTENDS Audit, PlistScanProofs, SequenceTheorems

\* What the searches that are over have left in the context: the audit and
\* unlocking take the iteration count from the same struct.
StatusFound == context.conversion_status = extract_string("ConversionStatus")

IterationsFound ==
    \E m \in extract_data("PassphraseWrappedKEKStruct", 1) :
        context.iterations = Blobs[Text(m)].iterations

Searched ==
    /\ pc # "done" => result = "none"
    /\ pc \in {"volume_info"} \/ result = "ok" => StatusFound
    /\ pc \notin {"passphrase", "done"} \/ result = "ok" => IterationsFound

\* The audit reports once, when the searches are over.
ReportedAsFound == outcome = "ok" => result = "ok" /\ pc = "done" /\ findings = audit_info

AInductive == SInductive /\ PInductive /\ Searched /\ ReportedAsFound
--------------------------------------------------------------------------------
LEMMA SearchedInit == Init => Searched
  BY DEF Init, Searched

LEMMA SearchedStep ==
    ASSUME SInductive, Searched, [Next]_vars
    PROVE  Searched'
  <1>1. /\ plist' = plist
        /\ DOMAIN context = {"iterations", "wrapped_vmk", "protectors", "conversion_status"}
    BY DEF SInductive, IsContext, Next, vars, FindPassphraseStruct, ScanAlgorithm,
       TakeVolumeKey, ScanProtector, FindStatus, FindVolumeInfo, Missing, Fail
  <1>2. /\ extract_string("ConversionStatus")' = extract_string("ConversionStatus")
        /\ extract_data("PassphraseWrappedKEKStruct", 1)'
              = extract_data("PassphraseWrappedKEKStruct", 1)
        /\ \A m : Text(m)' = Text(m)
    BY <1>1 DEF extract_string, extract_data, extract_tagged_from, First, Text
  <1>3. context'.conversion_status = context.conversion_status /\ StatusFound => StatusFound'
    BY <1>2 DEF StatusFound
  <1>4. context'.iterations = context.iterations /\ IterationsFound => IterationsFound'
    BY <1>2 DEF IterationsFound
  <1>5. CASE UNCHANGED vars
    BY <1>3, <1>4, <1>5 DEF vars, Searched
  <1>6. CASE FindPassphraseStruct
    <2>1. pc = "passphrase" /\ result = "none"
      BY <1>6 DEF FindPassphraseStruct, Searched
    <2>2. CASE pc' = "done" /\ result' # "ok"
      BY <2>2 DEF Searched
    <2>3. CASE \E m \in extract_data("PassphraseWrappedKEKStruct", 1) :
                  /\ context' = [context EXCEPT !.iterations = Blobs[Text(m)].iterations]
                  /\ pc' = "algorithm" /\ result' = result
      <3>1. PICK m \in extract_data("PassphraseWrappedKEKStruct", 1) :
                  context' = [context EXCEPT !.iterations = Blobs[Text(m)].iterations]
        BY <2>3
      <3>2. context'.iterations = Blobs[Text(m)].iterations
        BY <1>1, <3>1
      <3>3. IterationsFound'
        BY <1>2, <3>2 DEF IterationsFound
      <3> QED
        BY <2>1, <2>3, <3>3 DEF Searched
    <2> QED
      BY <1>6, <2>2, <2>3 DEF FindPassphraseStruct, Missing, Fail
  <1>7. CASE ScanAlgorithm
    <2>1. pc = "algorithm" /\ result = "none" /\ IterationsFound
      BY <1>7 DEF ScanAlgorithm, Searched
    <2>2. \/ pc' = "done" /\ result' # "ok"
          \/ /\ pc' \in {"algorithm", "protectors"} /\ result' = result
             /\ context'.iterations = context.iterations
      BY <1>1, <1>7 DEF ScanAlgorithm, TakeVolumeKey, Missing, Fail
    <2> QED
      BY <1>4, <2>1, <2>2 DEF Searched
  <1>8. CASE ScanProtector
    <2>1. pc = "protectors" /\ result = "none" /\ IterationsFound
      BY <1>8 DEF ScanProtector, Searched
    <2>2. /\ pc' \in {"protectors", "status"} /\ result' = result
          /\ context'.iterations = context.iterations
      BY <1>1, <1>8 DEF ScanProtector
    <2> QED
      BY <1>4, <2>1, <2>2 DEF Searched
  <1>9. CASE FindStatus
    <2>1. pc = "status" /\ result = "none" /\ IterationsFound
      BY <1>9 DEF FindStatus, Searched
    <2>2. /\ pc' = "volume_info" /\ result' = result
          /\ context'.iterations = context.iterations
          /\ context'.conversion_status = extract_string("ConversionStatus")
      BY <1>1, <1>9 DEF FindStatus
    <2> QED
      BY <1>2, <1>4, <2>1, <2>2 DEF Searched, StatusFound
  <1>10. CASE FindVolumeInfo
    <2>1. pc = "volume_info" /\ IterationsFound /\ StatusFound
      BY <1>10 DEF FindVolumeInfo, Searched
    <2>2. pc' = "done" /\ context' = context
      BY <1>10 DEF FindVolumeInfo, Missing, Fail
    <2> QED
      BY <1>3, <1>4, <2>1, <2>2 DEF Searched
  <1> QED
    BY <1>5, <1>6, <1>7, <1>8, <1>9, <1>10 DEF Next

LEMMA AuditInit == AInit => AInductive
  BY InitSInductive, InitPInductive, SearchedInit DEF AInit, AInductive, ReportedAsFound

LEMMA AuditStep ==
    ASSUME AInductive, [ANext]_avars
    PROVE  AInductive'
  <1>1. [Next]_vars
    BY DEF ANext, avars, EarlierError, Scan, Return
  <1>2. SInductive' /\ PInductive' /\ Searched'
    BY <1>1, ScanStepPreserves, ProtectorStepPreserves, SearchedStep DEF AInductive
  <1>3. UNCHANGED vars => audit_info' = audit_info
    BY DEF vars, audit_info, ProtectorInventory, Listed, EncryptionState,
       WeakKdfIterations, Finding, protector_summary, IsWeak
  <1>4. ReportedAsFound'
    <2>1. CASE \E e \in (Errors \ {"Base64", "KeyUnwrap"}) \cup {"panic"} : EarlierError(e)
      BY <2>1 DEF EarlierError, ReportedAsFound, Errors
    <2>2. CASE Scan
      BY <2>2 DEF Scan, ReportedAsFound
    <2>3. CASE Return
      BY <1>3, <2>3 DEF Return, ReportedAsFound, vars
    <2>4. CASE UNCHANGED avars
      BY <1>3, <2>4 DEF avars, AInductive, ReportedAsFound, vars
    <2> QED
      BY <2>1, <2>2, <2>3, <2>4 DEF ANext
  <1> QED
    BY <1>2, <1>4 DEF AInductive

\* The audit's inductive invariant: it reports what the searches found.
THEOREM AuditInvariant == ASpec => []AInductive
  <1>1. AInductive /\ [ANext]_avars => AInductive'
    BY AuditStep
  <1> QED
    BY <1>1, AuditInit, PTL DEF ASpec
--------------------------------------------------------------------------------
(* The findings of audit_info. *)

\* An Option as a sequence.
LEMMA ListedOption ==
    /\ Listed({}) = <<>>
    /\ \A x : Listed({x}) = <<x>>
  <1>1. Listed({}) = <<>>
    BY FS_EmptySet DEF Listed
  <1>2. ASSUME NEW x PROVE Listed({x}) = <<x>>
    <2>1. Cardinality({x}) = 1
      BY FS_Singleton
    <2>2. (CHOOSE y \in {x} : TRUE) = x
      OBVIOUS
    <2> QED
      BY <2>1, <2>2 DEF Listed
  <1> QED
    BY <1>1, <1>2

\* A string searched for is found once at most.
LEMMA OneString ==
    ASSUME plist \in Seq(Tokens), NEW name
    PROVE  extract_string(name) = {} \/ \E x : extract_string(name) = {x}
  <1>. DEFINE S == extract_tagged_from(name, "string", 1)
  <1>1. \A m, n \in S : m = n
    BY MatchIsUnique
  <1>2. extract_string(name) = {Text(m) : m \in S} \ NotUtf8
    BY DEF extract_string
  <1>. HIDE DEF S
  <1>3. \A x, y \in extract_string(name) : x = y
    BY <1>1, <1>2
  <1>4. ASSUME NEW x \in extract_string(name) PROVE extract_string(name) = {x}
    BY <1>3
  <1> QED
    BY <1>4

\* Lists of findings, joined.
LEMMA Joined ==
    ASSUME NEW p, NEW x, NEW w
    PROVE  /\ <<p>> \o <<>> \o <<>> = <<p>>
           /\ <<p>> \o <<>> \o <<w>> = <<p, w>>
           /\ <<p>> \o <<x>> \o <<>> = <<p, x>>
           /\ <<p>> \o <<x>> \o <<w>> = <<p, x, w>>
  <1>. DEFINE T == {p, x, w}
  <1>1. /\ <<p>> \in Seq(T) /\ <<x>> \in Seq(T) /\ <<w>> \in Seq(T)
        /\ <<p, x>> \in Seq(T) /\ <<p, w>> \in Seq(T) /\ <<p, x, w>> \in Seq(T)
    OBVIOUS
  <1>. HIDE DEF T
  <1>2. ASSUME NEW y, <<y>> \in Seq(T), <<p, y>> \in Seq(T) PROVE <<p>> \o <<y>> = <<p, y>>
    <2>1. /\ <<p>> \o <<y>> \in Seq(T) /\ Len(<<p>> \o <<y>>) = 2
          /\ \A i \in 1 .. 2 : (<<p>> \o <<y>>)[i] = <<p, y>>[i]
      BY <1>1, <1>2, ConcatProperties
    <2> QED
      BY <1>2, <2>1, SeqEqual
  <1>3. <<p, x>> \o <<w>> = <<p, x, w>>
    <2>1. /\ <<p, x>> \o <<w>> \in Seq(T) /\ Len(<<p, x>> \o <<w>>) = 3
          /\ \A i \in 1 .. 3 : (<<p, x>> \o <<w>>)[i] = <<p, x, w>>[i]
      BY <1>1, ConcatProperties
    <2> QED
      BY <1>1, <2>1, SeqEqual
  <1>4. <<p>> \o <<>> = <<p>> /\ <<p, x>> \o <<>> = <<p, x>>
    BY <1>1, ConcatEmptySeq
  <1> QED
    BY <1>1, <1>2, <1>3, <1>4

\* The four lists of findings that there can be.
LEMMA FindingsShape ==
    ASSUME AInductive, outcome = "ok"
    PROVE  \/ /\ context.conversion_status = {} /\ ~IsWeak(context.iterations)
              /\ findings = <<ProtectorInventory>>
           \/ /\ context.conversion_status = {} /\ IsWeak(context.iterations)
              /\ findings = <<ProtectorInventory, WeakKdfIterations(context.iterations)>>
           \/ \E x : /\ context.conversion_status = {x} /\ ~IsWeak(context.iterations)
                     /\ findings = <<ProtectorInventory, EncryptionState(x)>>
           \/ \E x : /\ context.conversion_status = {x} /\ IsWeak(context.iterations)
                     /\ findings = <<ProtectorInventory, EncryptionState(x),
                                     WeakKdfIterations(context.iterations)>>
  <1>. DEFINE n == context.iterations
              S == {EncryptionState(x) : x \in context.conversion_status}
              W == {WeakKdfIterations(k) : k \in {k \in {n} : IsWeak(k)}}
  <1>1. findings = <<ProtectorInventory>> \o Listed(S) \o Listed(W)
    BY DEF AInductive, ReportedAsFound, audit_info
  <1>2. \/ context.conversion_status = {}
        \/ \E x : context.conversion_status = {x}
    BY OneString DEF AInductive, SInductive, Searched, ReportedAsFound, StatusFound
  <1>3. /\ context.conversion_status = {} => S = {}
        /\ \A x : context.conversion_status = {x} => S = {EncryptionState(x)}
    OBVIOUS
  <1>4. /\ IsWeak(n) => W = {WeakKdfIterations(n)}
        /\ ~IsWeak(n) => W = {}
    OBVIOUS
  <1>. HIDE DEF S, W
  <1>5. /\ context.conversion_status = {} => Listed(S) = <<>>
        /\ \A x : context.conversion_status = {x} => Listed(S) = <<EncryptionState(x)>>
        /\ IsWeak(n) => Listed(W) = <<WeakKdfIterations(n)>>
        /\ ~IsWeak(n) => Listed(W) = <<>>
    BY <1>3, <1>4, ListedOption
  <1>. HIDE DEF n
  <1>6. CASE context.conversion_status = {} /\ ~IsWeak(n)
    BY <1>1, <1>5, <1>6, Joined DEF n
  <1>7. CASE context.conversion_status = {} /\ IsWeak(n)
    BY <1>1, <1>5, <1>7, Joined DEF n
  <1>8. ASSUME NEW x, context.conversion_status = {x}, ~IsWeak(n)
        PROVE  findings = <<ProtectorInventory, EncryptionState(x)>>
    BY <1>1, <1>5, <1>8, Joined, SMTT(30)
  <1>9. ASSUME NEW x, context.conversion_status = {x}, IsWeak(n)
        PROVE  findings = <<ProtectorInventory, EncryptionState(x), WeakKdfIterations(n)>>
    BY <1>1, <1>5, <1>9, Joined
  <1> QED
    BY <1>2, <1>6, <1>7, <1>8, <1>9 DEF n

\* The state reported is the status found, and a weak count is reported.
LEMMA FindingsAreFound ==
    ASSUME AInductive, outcome = "ok"
    PROVE  /\ EvidenceOf("FVDE-ENCRYPTION-STATE") = context.conversion_status
           /\ Reported("FVDE-WEAK-KDF-ITERATIONS") # {} <=> IsWeak(context.iterations)
  <1>. DEFINE p == ProtectorInventory
              w == WeakKdfIterations(context.iterations)
  <1>1. /\ p.code = "FVDE-PROTECTOR-INVENTORY"
        /\ w.code = "FVDE-WEAK-KDF-ITERATIONS"
        /\ \A x : /\ EncryptionState(x).code = "FVDE-ENCRYPTION-STATE"
                  /\ EncryptionState(x).evidence = x
    BY DEF ProtectorInventory, WeakKdfIterations, EncryptionState, Finding
  <1>. HIDE DEF p, w
  <1>2. CASE context.conversion_status = {} /\ ~IsWeak(context.iterations) /\ findings = <<p>>
    BY <1>1, <1>2 DEF EvidenceOf, Reported
  <1>3. CASE context.conversion_status = {} /\ IsWeak(context.iterations) /\ findings = <<p, w>>
    BY <1>1, <1>3 DEF EvidenceOf, Reported
  <1>4. ASSUME NEW x, context.conversion_status = {x}, ~IsWeak(context.iterations),
               findings = <<p, EncryptionState(x)>>
        PROVE  /\ EvidenceOf("FVDE-ENCRYPTION-STATE") = {x}
               /\ Reported("FVDE-WEAK-KDF-ITERATIONS") = {}
    BY <1>1, <1>4 DEF EvidenceOf, Reported
  <1>5. ASSUME NEW x, context.conversion_status = {x}, IsWeak(context.iterations),
               findings = <<p, EncryptionState(x), w>>
        PROVE  /\ EvidenceOf("FVDE-ENCRYPTION-STATE") = {x}
               /\ Reported("FVDE-WEAK-KDF-ITERATIONS") # {}
    BY <1>1, <1>5 DEF EvidenceOf, Reported
  <1> QED
    BY <1>2, <1>3, <1>4, <1>5, FindingsShape DEF p, w

\* Of a well typed plist the first string is found, unless it is no UTF-8.
LEMMA FirstString ==
    ASSUME plist \in Seq(Tokens), WellTyped, NEW name, TypeOfKey(name) = "string"
    PROVE  extract_string(name) =
              {plist[k + 1].text : k \in {k \in Keys(name) :
                  /\ plist[k + 1].text \notin NotUtf8
                  /\ \A j \in Keys(name) : k <= j}}
  <1>. DEFINE S == extract_tagged_from(name, "string", 1)
              F == {k \in Keys(name) : /\ plist[k + 1].text \notin NotUtf8
                                       /\ \A j \in Keys(name) : k <= j}
  <1>0. \A k \in Keys(name) : k \in Nat \ {0}
    BY DEF Keys
  <1>1. ASSUME NEW m \in S, Text(m) \notin NotUtf8
        PROVE  \E k \in F : Text(m) = plist[k + 1].text
    <2>1. /\ m.open - 1 \in Keys(name)
          /\ \A j \in Keys(name) : m.open - 1 <= j
          /\ Text(m) = plist[m.open].text
      BY <1>0, WellTypedMatch
    <2>2. (m.open - 1) + 1 = m.open
      BY MatchBounds
    <2> QED
      BY <1>1, <2>1, <2>2
  <1>2. ASSUME NEW k \in F
        PROVE  \E m \in S : Text(m) = plist[k + 1].text
    <2>1. k \in Keys(name) /\ 1 <= k /\ \A j \in Keys(name) : k <= j
      BY <1>0
    <2>2. \E m \in extract_tagged_from(name, TypeOfKey(name), 1) :
              Text(m) = plist[k + 1].text
      <3>1. \A j \in Keys(name) : 1 <= j => k <= j
        BY <2>1
      <3>2. 1 \in Nat \ {0}
        OBVIOUS
      <3>. HIDE DEF F, S
      <3> QED
        BY <2>1, <3>1, <3>2, WellTypedIsFound, Zenon
    <2> QED
      BY <2>2
  <1>3. extract_string(name) = {Text(m) : m \in S} \ NotUtf8
    BY DEF extract_string
  <1>. HIDE DEF S
  <1> QED
    BY <1>1, <1>2, <1>3

\* The audit reports the first conversion status of a well typed plist and no
\* other string.
THEOREM AuditStateIsTheFirstStatus == ASpec => []StateIsTheFirstStatus
  <1>1. AInductive => StateIsTheFirstStatus
    <2>. SUFFICES ASSUME AInductive, outcome = "ok", WellTyped
                  PROVE  StateIsTheFirstStatus
      BY DEF StateIsTheFirstStatus
    <2>1. TypeOfKey("ConversionStatus") = "string"
      BY DEF TypeOfKey
    <2>2. /\ plist \in Seq(Tokens)
          /\ context.conversion_status = extract_string("ConversionStatus")
      BY DEF AInductive, SInductive, Searched, ReportedAsFound, StatusFound
    <2> QED
      BY <2>1, <2>2, FirstString, FindingsAreFound DEF StateIsTheFirstStatus
  <1> QED
    BY <1>1, AuditInvariant, PTL

\* The audit flags exactly the volumes that unlocking opens with fewer rounds
\* than the threshold.
THEOREM AuditWeakVolumesAreFlagged == ASpec => []WeakVolumesAreFlagged
  <1>1. AInductive => WeakVolumesAreFlagged
    <2>. SUFFICES ASSUME AInductive, outcome = "ok", WellTyped
                  PROVE  WeakVolumesAreFlagged
      BY DEF WeakVolumesAreFlagged
    <2>. DEFINE N == "PassphraseWrappedKEKStruct"
                first == CHOOSE k \in Keys(N) : \A j \in Keys(N) : k <= j
    <2>1. TypeOfKey(N) = "data"
      BY DEF TypeOfKey
    <2>2. plist \in Seq(Tokens) /\ IterationsFound
      BY DEF AInductive, SInductive, Searched, ReportedAsFound
    <2>3. PICK m \in extract_tagged_from(N, "data", 1) :
              Text(m) \in DOMAIN Blobs /\ context.iterations = Blobs[Text(m)].iterations
      BY <2>2 DEF IterationsFound, extract_data, Decodes
    <2>4. \A k \in Keys(N) : k \in Nat \ {0}
      BY <2>2 DEF Keys
    <2>5. /\ m.open - 1 \in Keys(N) /\ Text(m) = plist[m.open].text
          /\ \A j \in Keys(N) : 1 <= j => m.open - 1 <= j
      BY <2>1, <2>2, <2>3, WellTypedMatch
    <2>6. first \in Keys(N) /\ \A j \in Keys(N) : first <= j
      BY <2>4, <2>5
    <2>7. first = m.open - 1 /\ first + 1 = m.open
      BY <2>2, <2>3, <2>4, <2>5, <2>6, MatchBounds, SMTT(30)
    <2>. HIDE DEF first
    <2>8. /\ context.iterations = Blobs[plist[first + 1].text].iterations
          /\ context.iterations \in Nat
      BY <2>3, <2>5, <2>7, ScanAssumption
    <2>. DEFINE n == context.iterations
    <2>9. passphrase_key("password", "salt", n)[4] = IF n < 1 THEN 1 ELSE n
      BY DEF passphrase_key
    <2>10. IsWeak(n) <=> passphrase_key("password", "salt", n)[4] < WEAK_KDF_THRESHOLD
      BY <2>8, <2>9 DEF IsWeak, WEAK_KDF_THRESHOLD
    <2> QED
      BY <2>8, <2>10, FindingsAreFound DEF WeakVolumesAreFlagged, first
  <1> QED
    BY <1>1, AuditInvariant, PTL
--------------------------------------------------------------------------------
(* Sorting. *)

\* Positions without a gap before them.
LEMMA InitialSegment ==
    ASSUME NEW n \in Nat, NEW D \in SUBSET (1 .. n),
           \A i \in D : \A j \in 1 .. n : j < i => j \in D
    PROVE  D = 1 .. Cardinality(D)
  <1>. DEFINE S == {i \in 1 .. n + 1 : i \notin D}
  <1>1. S \in SUBSET Nat /\ S # {}
    <2>1. n + 1 \in S
      OBVIOUS
    <2> QED
      BY <2>1
  <1>2. PICK m \in S : \A j \in S : m <= j
    <2>. HIDE DEF S
    <2> QED
      BY <1>1, SmallestOf
  <1>3. m \in 1 .. n + 1 /\ m \notin D
    OBVIOUS
  <1>4. \A i \in 1 .. m - 1 : i \in D
    <2>1. \A i \in 1 .. m - 1 : i \in 1 .. n + 1 /\ ~(m <= i)
      BY <1>3
    <2> QED
      BY <1>2, <2>1
  <1>5. \A i \in D : i \in 1 .. m - 1
    <2>. TAKE i \in D
    <2>1. i \in 1 .. n /\ i # m
      BY <1>3
    <2>2. ~(m < i)
      BY <1>3, <2>1
    <2> QED
      BY <1>3, <2>1, <2>2
  <1>6. D = 1 .. m - 1
    BY <1>4, <1>5
  <1>7. Cardinality(D) = m - 1
    BY <1>3, <1>6, FS_Interval
  <1> QED
    BY <1>6, <1>7

\* The labels of rank r and below.
UpTo(s, r) == {i \in DOMAIN s : Rank[s[i]] <= r}

\* They are as many as those of each rank together.
LEMMA Cumulative ==
    ASSUME NEW n \in Nat, NEW s \in [1 .. n -> DOMAIN Rank]
    PROVE  /\ \A x \in DOMAIN Rank : Count(s, x) \in Nat
           /\ Cardinality(UpTo(s, 1)) = Count(s, "institutional")
           /\ Cardinality(UpTo(s, 2)) = Count(s, "institutional") + Count(s, "password")
           /\ Cardinality(UpTo(s, 3)) = Count(s, "institutional") + Count(s, "password")
                                           + Count(s, "recovery")
           /\ n = Count(s, "institutional") + Count(s, "password")
                     + Count(s, "recovery") + Count(s, "unknown")
  <1>. DEFINE P(x) == {i \in DOMAIN s : s[i] = x}
  <1>1. /\ DOMAIN Rank = {"institutional", "password", "recovery", "unknown"}
        /\ Rank["institutional"] = 1 /\ Rank["password"] = 2
        /\ Rank["recovery"] = 3 /\ Rank["unknown"] = 4
    BY DEF Rank
  <1>2. \A x : IsFiniteSet(P(x))
    <2>1. IsFiniteSet(1 .. n)
      BY FS_Interval
    <2>2. \A x : P(x) \in SUBSET (1 .. n)
      OBVIOUS
    <2> QED
      BY <2>1, <2>2, FS_Subset
  <1>3. \A x : Count(s, x) = Cardinality(P(x)) /\ Count(s, x) \in Nat
    BY <1>2, FS_CardinalityType DEF Count
  <1>4. /\ UpTo(s, 1) = P("institutional")
        /\ UpTo(s, 2) = UpTo(s, 1) \cup P("password")
        /\ UpTo(s, 3) = UpTo(s, 2) \cup P("recovery")
        /\ 1 .. n = UpTo(s, 3) \cup P("unknown")
    BY <1>1 DEF UpTo
  <1>5. /\ UpTo(s, 1) \cap P("password") = {}
        /\ UpTo(s, 2) \cap P("recovery") = {}
        /\ UpTo(s, 3) \cap P("unknown") = {}
    BY <1>1 DEF UpTo
  <1>. HIDE DEF P
  <1>6. ASSUME NEW A, NEW B, IsFiniteSet(A), IsFiniteSet(B), A \cap B = {}
        PROVE  /\ IsFiniteSet(A \cup B)
               /\ Cardinality(A \cup B) = Cardinality(A) + Cardinality(B)
    <2>1. /\ IsFiniteSet(A \cup B)
          /\ Cardinality(A \cup B)
                = Cardinality(A) + Cardinality(B) - Cardinality(A \cap B)
      BY <1>6, FS_Union
    <2>2. Cardinality(A \cap B) = 0
      BY <1>6, FS_EmptySet
    <2>3. Cardinality(A) \in Nat /\ Cardinality(B) \in Nat
      BY <1>6, FS_CardinalityType
    <2> QED
      BY <2>1, <2>2, <2>3
  <1>7. /\ IsFiniteSet(UpTo(s, 1))
        /\ Cardinality(UpTo(s, 1)) = Count(s, "institutional")
    BY <1>2, <1>3, <1>4
  <1>8. /\ IsFiniteSet(UpTo(s, 2))
        /\ Cardinality(UpTo(s, 2)) = Count(s, "institutional") + Count(s, "password")
    <2>1. /\ IsFiniteSet(UpTo(s, 1) \cup P("password"))
          /\ Cardinality(UpTo(s, 1) \cup P("password"))
                = Cardinality(UpTo(s, 1)) + Cardinality(P("password"))
      BY <1>2, <1>5, <1>6, <1>7
    <2> QED
      BY <1>3, <1>4, <1>7, <2>1
  <1>9. /\ IsFiniteSet(UpTo(s, 3))
        /\ Cardinality(UpTo(s, 3)) = Count(s, "institutional") + Count(s, "password")
                                        + Count(s, "recovery")
    <2>1. /\ IsFiniteSet(UpTo(s, 2) \cup P("recovery"))
          /\ Cardinality(UpTo(s, 2) \cup P("recovery"))
                = Cardinality(UpTo(s, 2)) + Cardinality(P("recovery"))
      BY <1>2, <1>5, <1>6, <1>8
    <2> QED
      BY <1>3, <1>4, <1>8, <2>1
  <1>10. Cardinality(1 .. n) = Count(s, "institutional") + Count(s, "password")
                                  + Count(s, "recovery") + Count(s, "unknown")
    <2>1. Cardinality(UpTo(s, 3) \cup P("unknown"))
             = Cardinality(UpTo(s, 3)) + Cardinality(P("unknown"))
      BY <1>2, <1>5, <1>6, <1>9
    <2> QED
      BY <1>3, <1>4, <1>9, <2>1
  <1>11. Cardinality(1 .. n) = n
    BY FS_Interval
  <1> QED
    BY <1>3, <1>7, <1>8, <1>9, <1>10, <1>11

\* So many labels of each kind, one kind after the other.
Blocks(a, b, c, d) ==
    [i \in 1 .. a + b + c + d |->
        IF i <= a THEN "institutional"
        ELSE IF i <= a + b THEN "password"
        ELSE IF i <= a + b + c THEN "recovery" ELSE "unknown"]

SortedBlocks(s) == Blocks(Count(s, "institutional"), Count(s, "password"),
                          Count(s, "recovery"), Count(s, "unknown"))

\* There is one sorting at most.
LEMMA SortingIsBlocks ==
    ASSUME NEW n \in Nat, NEW labels \in [1 .. n -> DOMAIN Rank],
           NEW s \in [1 .. n -> DOMAIN Rank], IsSorting(s, labels)
    PROVE  s = SortedBlocks(labels)
  <1>. DEFINE a == Count(s, "institutional")
              b == Count(s, "password")
              c == Count(s, "recovery")
              d == Count(s, "unknown")
  <1>1. /\ DOMAIN Rank = {"institutional", "password", "recovery", "unknown"}
        /\ Rank["institutional"] = 1 /\ Rank["password"] = 2
        /\ Rank["recovery"] = 3 /\ Rank["unknown"] = 4
    BY DEF Rank
  <1>2. SortedBlocks(labels) = Blocks(a, b, c, d)
    BY <1>1 DEF SortedBlocks, IsSorting
  <1>3. /\ a \in Nat /\ b \in Nat /\ c \in Nat /\ d \in Nat /\ n = a + b + c + d
        /\ Cardinality(UpTo(s, 1)) = a /\ Cardinality(UpTo(s, 2)) = a + b
        /\ Cardinality(UpTo(s, 3)) = a + b + c
    BY <1>1, Cumulative
  <1>. HIDE DEF a, b, c, d
  <1>4. ASSUME NEW r \in 1 .. 3
        PROVE  UpTo(s, r) = 1 .. Cardinality(UpTo(s, r))
    <2>1. UpTo(s, r) \in SUBSET (1 .. n)
      BY DEF UpTo
    <2>2. \A i \in UpTo(s, r) : \A j \in 1 .. n : j < i => j \in UpTo(s, r)
      <3>1. \A i \in 1 .. n : Rank[s[i]] \in Nat
        BY <1>1
      <3> QED
        BY <3>1 DEF UpTo, IsSorting
    <2> QED
      BY <2>1, <2>2, InitialSegment
  <1>5. ASSUME NEW i \in 1 .. n
        PROVE  /\ Rank[s[i]] <= 1 <=> i <= a
               /\ Rank[s[i]] <= 2 <=> i <= a + b
               /\ Rank[s[i]] <= 3 <=> i <= a + b + c
    <2>1. /\ UpTo(s, 1) = 1 .. a /\ UpTo(s, 2) = 1 .. a + b
          /\ UpTo(s, 3) = 1 .. a + b + c
      BY <1>3, <1>4
    <2>2. \A r : i \in UpTo(s, r) <=> Rank[s[i]] <= r
      BY DEF UpTo
    <2> QED
      BY <1>3, <2>1, <2>2
  <1>6. ASSUME NEW i \in 1 .. n
        PROVE  s[i] = Blocks(a, b, c, d)[i]
    <2>1. s[i] \in {"institutional", "password", "recovery", "unknown"}
      BY <1>1
    <2> QED
      BY <1>1, <1>3, <1>5, <2>1 DEF Blocks
  <1>7. Blocks(a, b, c, d) = [i \in 1 .. n |-> Blocks(a, b, c, d)[i]]
    BY <1>3 DEF Blocks
  <1> QED
    BY <1>2, <1>6, <1>7

\* There is one.
LEMMA BlocksAreSorting ==
    ASSUME NEW n \in Nat, NEW labels \in [1 .. n -> DOMAIN Rank]
    PROVE  /\ SortedBlocks(labels) \in [1 .. n -> DOMAIN Rank]
           /\ IsSorting(SortedBlocks(labels), labels)
  <1>. DEFINE a == Count(labels, "institutional")
              b == Count(labels, "password")
              c == Count(labels, "recovery")
              d == Count(labels, "unknown")
              s == Blocks(a, b, c, d)
  <1>1. /\ DOMAIN Rank = {"institutional", "password", "recovery", "unknown"}
        /\ Rank["institutional"] = 1 /\ Rank["password"] = 2
        /\ Rank["recovery"] = 3 /\ Rank["unknown"] = 4
    BY DEF Rank
  <1>2. /\ a \in Nat /\ b \in Nat /\ c \in Nat /\ d \in Nat /\ n = a + b + c + d
    BY <1>1, Cumulative
  <1>3. SortedBlocks(labels) = s
    BY DEF SortedBlocks
  <1>. HIDE DEF a, b, c, d
  <1>4. /\ DOMAIN s = 1 .. n
        /\ \A i \in 1 .. n : s[i] = IF i <= a THEN "institutional"
                                    ELSE IF i <= a + b THEN "password"
                                    ELSE IF i <= a + b + c THEN "recovery" ELSE "unknown"
        /\ s \in [1 .. n -> DOMAIN Rank]
    BY <1>1, <1>2 DEF Blocks
  <1>. HIDE DEF s
  <1>5. \A i, j \in DOMAIN s : i < j => Rank[s[i]] <= Rank[s[j]]
    BY <1>1, <1>2, <1>4
  <1>6. /\ {i \in DOMAIN s : s[i] = "institutional"} = 1 .. a
        /\ {i \in DOMAIN s : s[i] = "password"} = a + 1 .. a + b
        /\ {i \in DOMAIN s : s[i] = "recovery"} = a + b + 1 .. a + b + c
        /\ {i \in DOMAIN s : s[i] = "unknown"} = a + b + c + 1 .. n
    BY <1>2, <1>4
  <1>7. /\ Count(s, "institutional") = a /\ Count(s, "password") = b
        /\ Count(s, "recovery") = c /\ Count(s, "unknown") = d
    <2>1. /\ Cardinality(1 .. a) = a /\ Cardinality(a + 1 .. a + b) = b
          /\ Cardinality(a + b + 1 .. a + b + c) = c
          /\ Cardinality(a + b + c + 1 .. n) = d
      <3>1. ASSUME NEW lo \in Int, NEW hi \in Int, lo <= hi + 1
            PROVE  Cardinality(lo .. hi) = hi - lo + 1
        BY <3>1, FS_Interval
      <3>2. Cardinality(1 .. a) = a
        BY <1>2, <3>1
      <3>3. Cardinality(a + 1 .. a + b) = b
        BY <1>2, <3>1
      <3>4. Cardinality(a + b + 1 .. a + b + c) = c
        BY <1>2, <3>1
      <3>5. Cardinality(a + b + c + 1 .. a + b + c + d) = d
        BY <1>2, <3>1
      <3> QED
        BY <1>2, <3>2, <3>3, <3>4, <3>5
    <2> QED
      BY <1>6, <2>1 DEF Count
  <1> QED
    BY <1>1, <1>3, <1>4, <1>5, <1>7 DEF IsSorting, a, b, c, d

\* What sorting returns depends only on how often each label occurs.
LEMMA Sorted ==
    ASSUME NEW n \in Nat, NEW labels \in [1 .. n -> DOMAIN Rank]
    PROVE  sort_unstable(labels) = SortedBlocks(labels)
  <1>1. DOMAIN labels = 1 .. n
    OBVIOUS
  <1>2. /\ sort_unstable(labels) \in [1 .. n -> DOMAIN Rank]
        /\ IsSorting(sort_unstable(labels), labels)
    BY <1>1, BlocksAreSorting DEF sort_unstable
  <1> QED
    BY <1>2, SortingIsBlocks

\* Two sequences of known lengths, joined.
LEMMA JoinedAt ==
    ASSUME NEW T, NEW v \in Seq(T), NEW w \in Seq(T)
    PROVE  /\ v \o w \in Seq(T) /\ Len(v \o w) = Len(v) + Len(w)
           /\ \A i \in 1 .. Len(v) : (v \o w)[i] = v[i]
           /\ \A i \in Len(v) + 1 .. Len(v) + Len(w) : (v \o w)[i] = w[i - Len(v)]
  <1>. DEFINE m == Len(v)
              k == Len(w)
              z == v \o w
  <1>0. m \in Nat /\ k \in Nat
    BY LenProperties
  <1>1. /\ v \o w \in Seq(T)
        /\ Len(v \o w) = Len(v) + Len(w)
        /\ \A i \in 1 .. Len(v) + Len(w) : (v \o w)[i] =
              IF i <= Len(v) THEN v[i] ELSE w[i - Len(v)]
    BY ConcatProperties, Zenon
  <1>2. /\ z \in Seq(T) /\ Len(z) = m + k
        /\ \A i \in 1 .. m + k : z[i] = IF i <= m THEN v[i] ELSE w[i - m]
    BY <1>1, Zenon
  <1>. HIDE DEF m, k, z
  <1>3. ASSUME NEW i \in 1 .. m PROVE z[i] = v[i]
    <2>1. i \in 1 .. m + k /\ i <= m
      BY <1>0
    <2> QED
      BY <1>2, <2>1, Zenon
  <1>4. ASSUME NEW i \in m + 1 .. m + k PROVE z[i] = w[i - m]
    <2>1. i \in 1 .. m + k /\ ~(i <= m)
      BY <1>0
    <2> QED
      BY <1>2, <2>1, Zenon
  <1> QED
    BY <1>2, <1>3, <1>4, Zenon DEF m, k, z

\* The blocks, joined.
Join(a, b, c, d) ==
    [i \in 1 .. a |-> "institutional"] \o [i \in 1 .. b |-> "password"]
    \o [i \in 1 .. c |-> "recovery"] \o [i \in 1 .. d |-> "unknown"]

LEMMA BlocksJoined ==
    ASSUME NEW a \in Nat, NEW b \in Nat, NEW c \in Nat, NEW d \in Nat
    PROVE  Blocks(a, b, c, d) = Join(a, b, c, d)
  <1>. DEFINE T == DOMAIN Rank
              p == [i \in 1 .. a |-> "institutional"]
              q == [i \in 1 .. b |-> "password"]
              r == [i \in 1 .. c |-> "recovery"]
              u == [i \in 1 .. d |-> "unknown"]
              s == Blocks(a, b, c, d)
  <1>1. /\ p \in Seq(T) /\ q \in Seq(T) /\ r \in Seq(T) /\ u \in Seq(T)
        /\ Len(p) = a /\ Len(q) = b /\ Len(r) = c /\ Len(u) = d
        /\ s \in Seq(T) /\ Len(s) = a + b + c + d
    <2>1. ASSUME NEW n \in Nat, NEW t \in [1 .. n -> T]
          PROVE  t \in Seq(T) /\ Len(t) = n
      OBVIOUS
    <2>2. /\ p \in [1 .. a -> T] /\ q \in [1 .. b -> T]
          /\ r \in [1 .. c -> T] /\ u \in [1 .. d -> T]
      BY DEF Rank
    <2>3. s \in [1 .. a + b + c + d -> T] /\ a + b + c + d \in Nat
      BY DEF Blocks, Rank
    <2>. HIDE DEF T, p, q, r, u, s
    <2> QED
      BY <2>1, <2>2, <2>3
  <1>2. /\ \A i \in 1 .. a : p[i] = "institutional"
        /\ \A i \in 1 .. b : q[i] = "password"
        /\ \A i \in 1 .. c : r[i] = "recovery"
        /\ \A i \in 1 .. d : u[i] = "unknown"
    OBVIOUS
  <1>3. \A i \in 1 .. a + b + c + d :
            s[i] = IF i <= a THEN "institutional"
                   ELSE IF i <= a + b THEN "password"
                   ELSE IF i <= a + b + c THEN "recovery" ELSE "unknown"
    BY DEF Blocks
  <1>. HIDE DEF T, p, q, r, u, s
  <1>. DEFINE t == p \o q
              t2 == t \o r
              t3 == t2 \o u
  <1>4. /\ t \in Seq(T) /\ Len(t) = a + b
        /\ \A i \in 1 .. a : t[i] = p[i]
        /\ \A i \in a + 1 .. a + b : t[i] = q[i - a]
    <2>1. p \in Seq(T) /\ q \in Seq(T)
      BY <1>1
    <2>2. /\ p \o q \in Seq(T) /\ Len(p \o q) = Len(p) + Len(q)
          /\ \A i \in 1 .. Len(p) : (p \o q)[i] = p[i]
          /\ \A i \in Len(p) + 1 .. Len(p) + Len(q) : (p \o q)[i] = q[i - Len(p)]
      BY <2>1, JoinedAt, Zenon
    <2>3. Len(p) = a /\ Len(q) = b
      BY <1>1
    <2> QED
      BY <2>2, <2>3, Zenon
  <1>. HIDE DEF t
  <1>5. /\ t2 \in Seq(T) /\ Len(t2) = a + b + c
        /\ \A i \in 1 .. a + b : t2[i] = t[i]
        /\ \A i \in a + b + 1 .. a + b + c : t2[i] = r[i - (a + b)]
    <2>1. t \in Seq(T) /\ r \in Seq(T)
      BY <1>1, <1>4
    <2>2. /\ t \o r \in Seq(T) /\ Len(t \o r) = Len(t) + Len(r)
          /\ \A i \in 1 .. Len(t) : (t \o r)[i] = t[i]
          /\ \A i \in Len(t) + 1 .. Len(t) + Len(r) : (t \o r)[i] = r[i - Len(t)]
      BY <2>1, JoinedAt, Zenon
    <2>3. Len(t) = a + b /\ Len(r) = c
      BY <1>1, <1>4
    <2> QED
      BY <2>2, <2>3, Zenon
  <1>. HIDE DEF t2
  <1>6. /\ t3 \in Seq(T) /\ Len(t3) = a + b + c + d
        /\ \A i \in 1 .. a + b + c : t3[i] = t2[i]
        /\ \A i \in a + b + c + 1 .. a + b + c + d : t3[i] = u[i - (a + b + c)]
    <2>1. t2 \in Seq(T) /\ u \in Seq(T)
      BY <1>1, <1>5
    <2>2. /\ t2 \o u \in Seq(T) /\ Len(t2 \o u) = Len(t2) + Len(u)
          /\ \A i \in 1 .. Len(t2) : (t2 \o u)[i] = t2[i]
          /\ \A i \in Len(t2) + 1 .. Len(t2) + Len(u) : (t2 \o u)[i] = u[i - Len(t2)]
      BY <2>1, JoinedAt, Zenon
    <2>3. Len(t2) = a + b + c /\ Len(u) = d
      BY <1>1, <1>5
    <2> QED
      BY <2>2, <2>3, Zenon
  <1>. HIDE DEF t3
  <1>7. ASSUME NEW i \in 1 .. a + b + c + d PROVE s[i] = t3[i]
    <2>1. CASE i <= a
      BY <1>2, <1>3, <1>4, <1>5, <1>6, <2>1
    <2>2. CASE i > a /\ i <= a + b
      <3>1. i - a \in 1 .. b /\ i \in a + 1 .. a + b /\ i \in 1 .. a + b + c
        BY <2>2
      <3> QED
        BY <1>2, <1>3, <1>4, <1>5, <1>6, <2>2, <3>1
    <2>3. CASE i > a + b /\ i <= a + b + c
      <3>1. i - (a + b) \in 1 .. c /\ i \in a + b + 1 .. a + b + c /\ i \in 1 .. a + b + c
        BY <2>3
      <3> QED
        BY <1>2, <1>3, <1>5, <1>6, <2>3, <3>1
    <2>4. CASE i > a + b + c
      <3>1. i - (a + b + c) \in 1 .. d /\ i \in a + b + c + 1 .. a + b + c + d
        BY <2>4
      <3> QED
        BY <1>2, <1>3, <1>6, <2>4, <3>1
    <2> QED
      BY <2>1, <2>2, <2>3, <2>4
  <1>8. s = t3
    BY <1>1, <1>6, <1>7, SeqEqual
  <1> QED
    BY <1>8 DEF Join, p, q, r, u, s, t, t2, t3
--------------------------------------------------------------------------------
(* The inventory. *)

\* The inventory reported is that of the protectors found.
LEMMA InventoryIsFound ==
    ASSUME AInductive, outcome = "ok"
    PROVE  \A inv \in EvidenceOf("FVDE-PROTECTOR-INVENTORY") :
              inv = [summary |-> protector_summary(context.protectors),
                     count |-> Len(context.protectors)]
  <1>. DEFINE p == ProtectorInventory
              w == WeakKdfIterations(context.iterations)
              C == "FVDE-PROTECTOR-INVENTORY"
              e == [summary |-> protector_summary(context.protectors),
                    count |-> Len(context.protectors)]
  <1>1. /\ p.evidence = e
        /\ w.code # C
        /\ \A x : EncryptionState(x).code # C
    BY DEF ProtectorInventory, WeakKdfIterations, EncryptionState, Finding
  <1>2. \A i \in DOMAIN findings : findings[i].code = C => findings[i] = p
    <2>. HIDE DEF p, w, e
    <2>1. CASE findings = <<p>>
      BY <1>1, <2>1
    <2>2. CASE findings = <<p, w>>
      BY <1>1, <2>2
    <2>3. ASSUME NEW x, findings = <<p, EncryptionState(x)>>
          PROVE  \A i \in DOMAIN findings : findings[i].code = C => findings[i] = p
      BY <1>1, <2>3
    <2>4. ASSUME NEW x, findings = <<p, EncryptionState(x), w>>
          PROVE  \A i \in DOMAIN findings : findings[i].code = C => findings[i] = p
      BY <1>1, <2>4
    <2> QED
      BY <2>1, <2>2, <2>3, <2>4, FindingsShape DEF p, w
  <1>. HIDE DEF p, e
  <1> QED
    BY <1>1, <1>2 DEF EvidenceOf, Reported, e

\* Every user is listed once: no key is counted twice, and none is left out.
LEMMA EveryUserOnce ==
    ASSUME SInductive, PInductive, ListIsDone, WellTyped,
           Cardinality(UserKeys) <= MaxProtectors,
           \A k \in UserKeys : IsU32(plist[k + 1].text)
    PROVE  /\ Len(context.protectors) = Cardinality(UserKeys)
           /\ \E f \in Bijection(DOMAIN context.protectors, UserKeys) :
                 \A n \in DOMAIN context.protectors :
                    context.protectors[n].user_type = Numerals[plist[f[n] + 1].text]
  <1>. DEFINE s == context.protectors
  <1>1. /\ plist \in Seq(Tokens) /\ Len(s) \in Nat /\ DOMAIN s = 1 .. Len(s)
        /\ MaxProtectors \in Nat
    BY ScanAssumption DEF SInductive, IsContext
  <1>2. IsFiniteSet(UserKeys) /\ Cardinality(UserKeys) \in Nat
    BY <1>1, UserKeysFinite
  <1>3. Len(s) = Cardinality(UserKeys)
    BY <1>1, <1>2 DEF PInductive, NoneLeftOut
  <1>4. PICK f \in [DOMAIN s -> UserKeys] :
            \A n \in DOMAIN s : /\ s[n].user_type = Numerals[plist[f[n] + 1].text]
                                /\ Cardinality(UserKeysBefore(f[n])) = n - 1
    BY DEF PInductive, InOrder
  <1>5. f \in Injection(DOMAIN s, UserKeys)
    <2>1. ASSUME NEW i \in DOMAIN s, NEW j \in DOMAIN s, f[i] = f[j] PROVE i = j
      <3>1. i - 1 = j - 1
        BY <1>4, <2>1
      <3> QED
        BY <1>1, <3>1
    <2> QED
      BY <1>4, <2>1 DEF Injection, IsInjective
  <1>6. Cardinality(DOMAIN s) = Len(s)
    BY <1>1, FS_Interval
  <1>7. f \in Surjection(DOMAIN s, UserKeys)
    BY <1>2, <1>3, <1>5, <1>6, FS_Injection
  <1>8. f \in Bijection(DOMAIN s, UserKeys)
    BY <1>5, <1>7 DEF Bijection
  <1> QED
    BY <1>3, <1>4, <1>8

\* So each kind is listed as often as the plist has users of it.
LEMMA KindsAreCounted ==
    ASSUME NEW s, NEW f \in Bijection(DOMAIN s, UserKeys), IsFiniteSet(DOMAIN s),
           \A n \in DOMAIN s :
              s[n].kind = from_user_type(Numerals[plist[f[n] + 1].text]),
           NEW x
    PROVE  Count([i \in DOMAIN s |-> s[i].kind], x) = Users(x)
  <1>. DEFINE kinds == [i \in DOMAIN s |-> s[i].kind]
              A == {i \in DOMAIN s : kinds[i] = x}
              B == {k \in UserKeys : from_user_type(Numerals[plist[k + 1].text]) = x}
              g == [i \in A |-> f[i]]
  <1>1. /\ f \in [DOMAIN s -> UserKeys]
        /\ \A i, j \in DOMAIN s : f[i] = f[j] => i = j
        /\ \A k \in UserKeys : \E i \in DOMAIN s : f[i] = k
    BY DEF Bijection, Injection, Surjection, IsInjective
  <1>2. \A i \in DOMAIN s : i \in A <=> f[i] \in B
    BY <1>1
  <1>3. A \in SUBSET DOMAIN s /\ B \in SUBSET UserKeys
    OBVIOUS
  <1>4. Users(x) = Cardinality(B) /\ Count(kinds, x) = Cardinality(A)
    BY DEF Users, Count, UserKeys
  <1>. HIDE DEF A, B
  <1>5. g \in [A -> B] /\ \A i \in A : g[i] = f[i]
    BY <1>2, <1>3
  <1>. HIDE DEF g
  <1>6. g \in Injection(A, B)
    BY <1>1, <1>3, <1>5 DEF Injection, IsInjective
  <1>7. g \in Surjection(A, B)
    <2>1. ASSUME NEW k \in B PROVE \E i \in A : g[i] = k
      BY <1>1, <1>2, <1>3, <1>5
    <2> QED
      BY <1>5, <2>1 DEF Surjection
  <1>8. ExistsBijection(A, B)
    BY <1>6, <1>7 DEF ExistsBijection, Bijection
  <1>9. IsFiniteSet(A)
    BY <1>3, FS_Subset
  <1>10. Cardinality(B) = Cardinality(A)
    BY <1>8, <1>9, FS_Bijection
  <1> QED
    BY <1>4, <1>10

\* The inventory of a well typed plist is the same for every order of its
\* users: protector_summary sorts the labels, and sorting determines them.
THEOREM AuditInventoryIgnoresOrder == ASpec => []InventoryIgnoresOrder
  <1>1. AInductive => InventoryIgnoresOrder
    <2>. SUFFICES ASSUME AInductive, outcome = "ok", WellTyped,
                         Cardinality(UserKeys) <= MaxProtectors,
                         \A k \in UserKeys : IsU32(plist[k + 1].text),
                         NEW inv \in EvidenceOf("FVDE-PROTECTOR-INVENTORY")
                  PROVE  /\ inv.count = Cardinality(UserKeys)
                         /\ inv.summary =
                               [i \in 1 .. Users("institutional") |-> "institutional"]
                               \o [i \in 1 .. Users("password") |-> "password"]
                               \o [i \in 1 .. Users("recovery") |-> "recovery"]
                               \o [i \in 1 .. Users("unknown") |-> "unknown"]
      BY DEF InventoryIgnoresOrder, UserKeys
    <2>. DEFINE s == context.protectors
                kinds == [i \in DOMAIN s |-> s[i].kind]
    <2>1. /\ inv.count = Len(s)
          /\ inv.summary = sort_unstable(kinds)
      <3>1. inv = [summary |-> protector_summary(s), count |-> Len(s)]
        BY InventoryIsFound
      <3> QED
        BY <3>1 DEF protector_summary
    <2>2. SInductive /\ PInductive /\ ListIsDone
      BY DEF AInductive, ReportedAsFound, ListIsDone
    <2>3. PICK f \in Bijection(DOMAIN s, UserKeys) :
              \A n \in DOMAIN s : s[n].user_type = Numerals[plist[f[n] + 1].text]
      BY <2>2, EveryUserOnce
    <2>4. Len(s) = Cardinality(UserKeys)
      BY <2>2, EveryUserOnce
    <2>5. s \in Seq({Protector(n) : n \in Nat})
      BY <2>2 DEF SInductive, IsContext
    <2>6. Len(s) \in Nat /\ DOMAIN s = 1 .. Len(s)
      BY <2>5
    <2>7. \A i \in DOMAIN s : /\ s[i].kind = from_user_type(s[i].user_type)
                              /\ s[i].kind \in DOMAIN Rank
      <3>. TAKE i \in DOMAIN s
      <3>1. PICK n \in Nat : s[i] = Protector(n)
        BY <2>5
      <3>2. s[i].user_type = n /\ s[i].kind = from_user_type(n)
        BY <3>1 DEF Protector
      <3>3. from_user_type(n) \in DOMAIN Rank
        BY DEF from_user_type, Rank
      <3> QED
        BY <3>2, <3>3
    <2>8. kinds \in [1 .. Len(s) -> DOMAIN Rank]
      BY <2>6, <2>7
    <2>9. \A x : Count(kinds, x) = Users(x)
      <3>1. IsFiniteSet(DOMAIN s)
        BY <2>6, FS_Interval
      <3>2. \A n \in DOMAIN s :
                s[n].kind = from_user_type(Numerals[plist[f[n] + 1].text])
        BY <2>3, <2>7
      <3> QED
        BY <3>1, <3>2, KindsAreCounted
    <2>. HIDE DEF kinds
    <2>10. \A x \in DOMAIN Rank : Users(x) \in Nat
      BY <2>6, <2>8, <2>9, Cumulative
    <2>11. inv.summary = Blocks(Users("institutional"), Users("password"),
                                Users("recovery"), Users("unknown"))
      BY <2>1, <2>6, <2>8, <2>9, Sorted DEF SortedBlocks
    <2>12. /\ Users("institutional") \in Nat /\ Users("password") \in Nat
           /\ Users("recovery") \in Nat /\ Users("unknown") \in Nat
      BY <2>10 DEF Rank
    <2>13. Blocks(Users("institutional"), Users("password"),
                  Users("recovery"), Users("unknown"))
              = Join(Users("institutional"), Users("password"),
                     Users("recovery"), Users("unknown"))
      BY <2>12, BlocksJoined
    <2> QED
      BY <2>1, <2>4, <2>11, <2>13, Zenon DEF Join
  <1> QED
    BY <1>1, AuditInvariant, PTL
================================================================================
