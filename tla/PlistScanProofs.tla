---------------------------- MODULE PlistScanProofs ----------------------------
(***************************************************************************)
(* Proofs about module PlistScan: the searches of core/src/context.rs, for *)
(* plists of any length with any tokens.                                   *)
(***************************************************************************)
EXTENDS PlistScan, FiniteSetTheorems, WellFoundedInduction, TLAPS

\* The smallest of some natural numbers.
LEMMA SmallestOf ==
    ASSUME NEW S \in SUBSET Nat, S # {}
    PROVE  \E x \in S : \A y \in S : x <= y
  <1>. DEFINE R == {ss \in Nat \X Nat : ss[1] < ss[2]}
  <1>1. IsWellFoundedOn(R, Nat)
    BY NatLessThanWellFounded DEF OpToRel
  <1>2. PICK x \in S : \A y \in S : ~(<<y, x>> \in R)
    <2>. HIDE DEF R
    <2> QED
      BY <1>1, WFMin
  <1>3. ASSUME NEW y \in S PROVE x <= y
    <2>1. y \in Nat /\ x \in Nat
      OBVIOUS
    <2>2. y < x => <<y, x>> \in R
      BY <2>1
    <2> QED
      BY <1>2, <2>1, <2>2
  <1> QED
    BY <1>3

\* What extract_tagged_from finds: the first such key, the first element of
\* the type behind it and the first closing tag from there.
IsMatch(m, k, name, tag, from) ==
    /\ k \in from .. Len(plist) /\ plist[k] = Key(name)
    /\ \A j \in from .. k - 1 : plist[j] # Key(name)
    /\ m.open \in k + 1 .. Len(plist) /\ plist[m.open].tag = tag
    /\ \A j \in k + 1 .. m.open - 1 : plist[j].tag # tag
    /\ m.close \in m.open .. Len(plist)
    /\ plist[m.close].tag = tag /\ plist[m.close].closed
    /\ \A j \in m.open .. m.close - 1 : ~(plist[j].tag = tag /\ plist[j].closed)

LEMMA MatchShape ==
    ASSUME NEW name, NEW tag, NEW from, NEW m \in extract_tagged_from(name, tag, from)
    PROVE  /\ m = [open |-> m.open, close |-> m.close]
           /\ \E k : IsMatch(m, k, name, tag, from)
  <1>. DEFINE K == First(from, LAMBDA t : t = Key(name))
              O(k) == First(k + 1, LAMBDA t : t.tag = tag)
              C(o) == First(o, LAMBDA t : t.tag = tag /\ t.closed)
              ClosedFrom(o) == {[open |-> o, close |-> c] : c \in C(o)}
              OpenedBehind(k) == UNION {ClosedFrom(o) : o \in O(k)}
  <1>0. m \in UNION {OpenedBehind(k) : k \in K}
    BY DEF extract_tagged_from
  <1>1. PICK k \in K : m \in OpenedBehind(k)
    <2>. HIDE DEF K, OpenedBehind
    <2> QED
      BY <1>0
  <1>2. PICK o \in O(k) : m \in ClosedFrom(o)
    <2>. HIDE DEF K, O, ClosedFrom
    <2> QED
      BY <1>1
  <1>3. PICK c \in C(o) : m = [open |-> o, close |-> c]
    <2>. HIDE DEF C
    <2> QED
      BY <1>2
  <1>4. /\ k \in from .. Len(plist) /\ plist[k] = Key(name)
        /\ \A j \in from .. k - 1 : plist[j] # Key(name)
    BY <1>1 DEF First
  <1>5. /\ o \in k + 1 .. Len(plist) /\ plist[o].tag = tag
        /\ \A j \in k + 1 .. o - 1 : plist[j].tag # tag
    BY <1>2 DEF First
  <1>6. /\ c \in o .. Len(plist) /\ plist[c].tag = tag /\ plist[c].closed
        /\ \A j \in o .. c - 1 : ~(plist[j].tag = tag /\ plist[j].closed)
    BY <1>3 DEF First
  <1>7. m.open = o /\ m.close = c
    BY <1>3
  <1>8. IsMatch(m, k, name, tag, from)
    BY <1>4, <1>5, <1>6, <1>7 DEF IsMatch
  <1> QED
    BY <1>3, <1>7, <1>8

\* The converse: what is in that position is found.
LEMMA MatchIsFound ==
    ASSUME NEW name, NEW tag, NEW from, NEW k, NEW o, NEW c,
           IsMatch([open |-> o, close |-> c], k, name, tag, from)
    PROVE  [open |-> o, close |-> c] \in extract_tagged_from(name, tag, from)
  <1>. DEFINE K == First(from, LAMBDA t : t = Key(name))
              O(i) == First(i + 1, LAMBDA t : t.tag = tag)
              C(i) == First(i, LAMBDA t : t.tag = tag /\ t.closed)
              ClosedFrom(i) == {[open |-> i, close |-> j] : j \in C(i)}
              OpenedBehind(i) == UNION {ClosedFrom(j) : j \in O(i)}
              m == [open |-> o, close |-> c]
  <1>1. m.open = o /\ m.close = c
    OBVIOUS
  <1>. HIDE DEF m
  <1>2. k \in K
    BY DEF First, IsMatch, m
  <1>3. o \in O(k)
    BY <1>1 DEF First, IsMatch, m
  <1>4. c \in C(o)
    BY <1>1 DEF First, IsMatch, m
  <1>5. m \in ClosedFrom(o)
    <2>. HIDE DEF C
    <2> QED
      BY <1>4 DEF m
  <1>6. m \in OpenedBehind(k)
    <2>. HIDE DEF O, ClosedFrom
    <2> QED
      BY <1>3, <1>5
  <1>7. m \in UNION {OpenedBehind(i) : i \in K}
    <2>. HIDE DEF K, OpenedBehind
    <2> QED
      BY <1>2, <1>6
  <1> QED
    BY <1>7 DEF extract_tagged_from, m

\* A match lies in the plist, from the place searched on, and its key too.
LEMMA MatchBounds ==
    ASSUME plist \in Seq(Tokens), NEW name, NEW tag, NEW from \in Nat \ {0},
           NEW m \in extract_tagged_from(name, tag, from)
    PROVE  /\ m.open \in from + 1 .. Len(plist) /\ m.close \in m.open .. Len(plist)
           /\ Behind(m) \in from + 1 .. Len(plist) + 1
           /\ \E k \in Keys(name) : from <= k /\ k < Behind(m)
  <1>1. PICK k : IsMatch(m, k, name, tag, from)
    BY MatchShape
  <1>2. /\ Len(plist) \in Nat /\ k \in from .. Len(plist)
        /\ m.open \in k + 1 .. Len(plist) /\ m.close \in m.open .. Len(plist)
    BY <1>1 DEF IsMatch
  <1>4. k \in Keys(name)
    BY <1>1, <1>2 DEF IsMatch, Keys
  <1>6. /\ m.open \in from + 1 .. Len(plist)
        /\ Behind(m) \in from + 1 .. Len(plist) + 1 /\ from <= k /\ k < Behind(m)
    BY <1>2 DEF Behind
  <1> QED
    BY <1>2, <1>4, <1>6

\* There is one match at most.
LEMMA MatchIsUnique ==
    ASSUME plist \in Seq(Tokens), NEW name, NEW tag, NEW from \in Nat \ {0},
           NEW m \in extract_tagged_from(name, tag, from),
           NEW n \in extract_tagged_from(name, tag, from)
    PROVE  m = n
  <1>1. PICK k : IsMatch(m, k, name, tag, from)
    BY MatchShape
  <1>2. PICK l : IsMatch(n, l, name, tag, from)
    BY MatchShape
  <1>3. /\ Len(plist) \in Nat
        /\ k \in from .. Len(plist) /\ l \in from .. Len(plist)
    BY <1>1, <1>2 DEF IsMatch
  <1>4. k = l
    BY <1>1, <1>2, <1>3, SMTT(30) DEF IsMatch
  <1>5. m.open = n.open
    <2>1. /\ m.open \in k + 1 .. Len(plist) /\ plist[m.open].tag = tag
          /\ \A j \in k + 1 .. m.open - 1 : plist[j].tag # tag
      BY <1>1 DEF IsMatch
    <2>2. /\ n.open \in k + 1 .. Len(plist) /\ plist[n.open].tag = tag
          /\ \A j \in k + 1 .. n.open - 1 : plist[j].tag # tag
      BY <1>2, <1>4 DEF IsMatch
    <2>3. m.open \in Int /\ n.open \in Int
      BY <1>3, <2>1, <2>2
    <2>4. ~(m.open < n.open)
      BY <1>3, <2>1, <2>2, <2>3
    <2>5. ~(n.open < m.open)
      BY <1>3, <2>1, <2>2, <2>3
    <2> QED
      BY <2>3, <2>4, <2>5
  <1>6. m.close = n.close
    <2>1. /\ m.open \in Int
          /\ m.close \in m.open .. Len(plist)
          /\ plist[m.close].tag = tag /\ plist[m.close].closed
          /\ \A j \in m.open .. m.close - 1 : ~(plist[j].tag = tag /\ plist[j].closed)
      BY <1>1, <1>3 DEF IsMatch
    <2>2. /\ n.close \in m.open .. Len(plist)
          /\ plist[n.close].tag = tag /\ plist[n.close].closed
          /\ \A j \in m.open .. n.close - 1 : ~(plist[j].tag = tag /\ plist[j].closed)
      BY <1>2, <1>5 DEF IsMatch
    <2>3. m.close \in Int /\ n.close \in Int
      BY <1>3, <2>1, <2>2
    <2>4. ~(m.close < n.close)
      BY <1>3, <2>1, <2>2, <2>3
    <2>5. ~(n.close < m.close)
      BY <1>3, <2>1, <2>2, <2>3
    <2> QED
      BY <2>3, <2>4, <2>5
  <1>7. m = [open |-> m.open, close |-> m.close] /\ n = [open |-> n.open, close |-> n.close]
    BY MatchShape
  <1> QED
    BY <1>5, <1>6, <1>7

\* Of a well typed plist it is the element of the first such key from there.
LEMMA WellTypedMatch ==
    ASSUME plist \in Seq(Tokens), WellTyped, NEW name, NEW from \in Nat \ {0},
           NEW m \in extract_tagged_from(name, TypeOfKey(name), from)
    PROVE  /\ m.open - 1 \in Keys(name) /\ from <= m.open - 1
           /\ \A j \in Keys(name) : from <= j => m.open - 1 <= j
           /\ m.close = m.open
           /\ Text(m) = plist[m.open].text
           /\ plist[m.open].tag # "key"
  <1>1. PICK k : IsMatch(m, k, name, TypeOfKey(name), from)
    BY MatchShape
  <1>2. /\ Len(plist) \in Nat /\ k \in from .. Len(plist) /\ k \in DOMAIN plist
        /\ m.open \in k + 1 .. Len(plist) /\ m.close \in m.open .. Len(plist)
    BY <1>1 DEF IsMatch
  <1>3. plist[k].tag = "key" /\ plist[k].text = name
    BY <1>1 DEF IsMatch, Key
  <1>4. k < Len(plist) /\ plist[k + 1].tag = TypeOfKey(name) /\ k + 1 \in DOMAIN plist
    BY <1>2, <1>3 DEF WellTyped
  <1>5. m.open = k + 1
    BY <1>1, <1>2, <1>4, SMTT(30) DEF IsMatch
  <1>6. plist[m.open].closed
    BY <1>4, <1>5 DEF WellTyped
  <1>7. m.close = m.open
    BY <1>1, <1>2, <1>4, <1>5, <1>6 DEF IsMatch
  <1>8. k \in Keys(name)
    BY <1>1, <1>2 DEF IsMatch, Keys
  <1>9. ASSUME NEW j \in Keys(name), from <= j PROVE k <= j
    <2>1. j \in 1 .. Len(plist) /\ plist[j] = Key(name)
      BY DEF Keys
    <2> QED
      BY <1>1, <1>2, <1>9, <2>1 DEF IsMatch
  <1>10. TypeOfKey(name) # "key"
    BY DEF TypeOfKey
  <1>11. m.open - 1 = k
    BY <1>2, <1>5
  <1> QED
    BY <1>2, <1>4, <1>5, <1>7, <1>8, <1>9, <1>10, <1>11 DEF Text
--------------------------------------------------------------------------------
IsContext ==
    /\ DOMAIN context = {"iterations", "wrapped_vmk", "protectors", "conversion_status"}
    /\ context.protectors \in Seq({Protector(n) : n \in Nat})

\* What each of the searches has done when it is its turn.
Progressed ==
    /\ pc \in {"passphrase", "algorithm"} =>
          context.wrapped_vmk = 0 /\ context.protectors = <<>>
    /\ pc = "passphrase" => cursor = 1
    /\ pc = "protectors" => Len(context.protectors) < MaxProtectors
    /\ pc # "done" => lv = NoVolume /\ result = "none"

\* The loop over the algorithms has not passed by an AES-XTS one.
NoAesXtsPassed ==
    (WellTyped /\ pc = "algorithm") =>
        \A b \in Keys("BlockAlgorithm") : b < cursor => plist[b + 1].text # "AES-XTS"

SInductive ==
    /\ plist \in Seq(Tokens)
    /\ TypeOK /\ IsContext /\ Progressed
    /\ NoAesXtsPassed /\ VolumeKeyIsAesXts

LEMMA InitSInductive == Init => SInductive
  <1>. SUFFICES ASSUME Init PROVE SInductive
    OBVIOUS
  <1>1. plist \in Seq(Tokens) /\ Len(plist) \in Nat
    BY ScanAssumption DEF Init
  <1>2. /\ context.iterations = 0 /\ context.wrapped_vmk = 0 /\ context.protectors = <<>>
        /\ DOMAIN context = {"iterations", "wrapped_vmk", "protectors", "conversion_status"}
        /\ lv.size = 0
    BY DEF Init, NoContext, NoVolume
  <1>3. TypeOK
    BY <1>1, <1>2, ScanAssumption DEF Init, TypeOK
  <1>4. IsContext
    BY <1>2 DEF IsContext
  <1>5. Progressed /\ NoAesXtsPassed
    BY <1>2 DEF Init, Progressed, NoAesXtsPassed
  <1>6. VolumeKeyIsAesXts
    BY <1>2 DEF VolumeKeyIsAesXts
  <1> QED
    BY <1>1, <1>3, <1>4, <1>5, <1>6 DEF SInductive

\* WellTyped and Keys are about the plist, which no step changes.
LEMMA SamePlist ==
    ASSUME plist' = plist
    PROVE  WellTyped' = WellTyped /\ \A name : Keys(name)' = Keys(name)
  BY DEF WellTyped, Keys

LEMMA SameVolumeKey ==
    ASSUME VolumeKeyIsAesXts, plist' = plist, context'.wrapped_vmk = context.wrapped_vmk
    PROVE  VolumeKeyIsAesXts'
  <1>1. /\ WellTyped' = WellTyped
        /\ Keys("BlockAlgorithm")' = Keys("BlockAlgorithm")
        /\ Keys("KEKWrappedVolumeKeyStruct")' = Keys("KEKWrappedVolumeKeyStruct")
    BY SamePlist
  <1>. SUFFICES ASSUME WellTyped, context.wrapped_vmk # 0
                PROVE  VolumeKeyIsAesXts'
    BY <1>1 DEF VolumeKeyIsAesXts
  <1>2. plist[context.wrapped_vmk - 1] = Key("KEKWrappedVolumeKeyStruct")
    BY DEF VolumeKeyIsAesXts
  <1>3. PICK a \in Keys("BlockAlgorithm") :
              /\ a < context.wrapped_vmk
              /\ plist[a + 1].text = "AES-XTS"
              /\ \A b \in Keys("BlockAlgorithm") :
                    b < a => plist[b + 1].text # "AES-XTS"
              /\ \A k \in Keys("KEKWrappedVolumeKeyStruct") :
                    k > a => context.wrapped_vmk - 1 <= k
    BY DEF VolumeKeyIsAesXts
  <1> QED
    BY <1>1, <1>2, <1>3 DEF VolumeKeyIsAesXts

LEMMA FailPreserves ==
    ASSUME SInductive, NEW e \in Errors, Fail(e)
    PROVE  SInductive'
  <1>1. /\ plist' = plist /\ cursor' = cursor /\ context' = context /\ lv' = lv
        /\ pc' = "done" /\ result' = e
    BY DEF Fail
  <1>2. TypeOK'
    BY <1>1 DEF SInductive, TypeOK
  <1>3. IsContext' /\ Progressed' /\ NoAesXtsPassed'
    BY <1>1 DEF SInductive, IsContext, Progressed, NoAesXtsPassed
  <1>4. VolumeKeyIsAesXts'
    BY <1>1, SameVolumeKey DEF SInductive
  <1> QED
    BY <1>1, <1>2, <1>3, <1>4 DEF SInductive

LEMMA MissingPreserves ==
    ASSUME SInductive, Missing
    PROVE  SInductive'
  <1>1. "MetadataStructureMissing" \in Errors
    BY DEF Errors
  <1> QED
    BY <1>1, FailPreserves DEF Missing

LEMMA PassphrasePreserves ==
    ASSUME SInductive, FindPassphraseStruct
    PROVE  SInductive'
  <1>1. pc = "passphrase"
    BY DEF FindPassphraseStruct
  <1>2. /\ plist \in Seq(Tokens) /\ context.wrapped_vmk = 0 /\ context.protectors = <<>>
        /\ cursor = 1 /\ lv = NoVolume /\ result = "none"
        /\ DOMAIN context = {"iterations", "wrapped_vmk", "protectors", "conversion_status"}
    BY <1>1 DEF SInductive, Progressed, IsContext
  <1>3. \/ Missing \/ Fail("OutOfRange")
        \/ /\ \E text \in DOMAIN Blobs :
                 context' = [context EXCEPT !.iterations = Blobs[text].iterations]
           /\ pc' = "algorithm" /\ plist' = plist /\ cursor' = cursor
           /\ lv' = lv /\ result' = result
    BY DEF FindPassphraseStruct, extract_data, Decodes
  <1>4. CASE Missing
    BY <1>4, MissingPreserves
  <1>5. CASE Fail("OutOfRange")
    BY <1>5, FailPreserves DEF Errors
  <1>6. CASE /\ \E text \in DOMAIN Blobs :
                   context' = [context EXCEPT !.iterations = Blobs[text].iterations]
             /\ pc' = "algorithm" /\ plist' = plist /\ cursor' = cursor
             /\ lv' = lv /\ result' = result
    <2>1. PICK n \in 0 .. U32Max : context' = [context EXCEPT !.iterations = n]
      BY <1>6, ScanAssumption
    <2>2. /\ context'.iterations = n /\ context'.wrapped_vmk = 0
          /\ context'.protectors = <<>> /\ DOMAIN context' = DOMAIN context
      BY <1>2, <2>1
    <2>3. TypeOK'
      BY <1>2, <1>6, <2>2, ScanAssumption DEF SInductive, TypeOK
    <2>4. IsContext'
      BY <1>2, <2>2 DEF IsContext
    <2>5. Progressed'
      BY <1>2, <1>6, <2>2 DEF Progressed
    <2>6. NoAesXtsPassed'
      <3>1. \A i \in Keys("BlockAlgorithm")' : ~(i < cursor')
        BY <1>2, <1>6 DEF Keys
      <3> QED
        BY <3>1 DEF NoAesXtsPassed
    <2>7. VolumeKeyIsAesXts'
      BY <2>2 DEF VolumeKeyIsAesXts
    <2> QED
      BY <1>2, <1>6, <2>3, <2>4, <2>5, <2>6, <2>7 DEF SInductive
  <1> QED
    BY <1>3, <1>4, <1>5, <1>6

\* A turn of the loop over the algorithms that meets another algorithm.
LEMMA OtherAlgorithm ==
    ASSUME SInductive, pc = "algorithm",
           NEW a \in extract_tagged_from("BlockAlgorithm", "string", cursor),
           ~IsAesXts(Text(a)), cursor' = Behind(a),
           UNCHANGED <<plist, pc, context, lv, result>>
    PROVE  SInductive'
  <1>1. plist \in Seq(Tokens) /\ Len(plist) \in Nat /\ cursor \in 1 .. Len(plist) + 1
    BY DEF SInductive, TypeOK
  <1>2. cursor' \in cursor + 1 .. Len(plist) + 1
    BY <1>1, MatchBounds
  <1>3. TypeOK'
    BY <1>1, <1>2 DEF SInductive, TypeOK
  <1>4. IsContext' /\ Progressed'
    BY DEF SInductive, IsContext, Progressed
  <1>5. NoAesXtsPassed'
    <2>. SUFFICES ASSUME WellTyped, NEW i \in Keys("BlockAlgorithm"), i < cursor'
                  PROVE  plist[i + 1].text # "AES-XTS"
      BY SamePlist DEF NoAesXtsPassed
    <2>1. TypeOfKey("BlockAlgorithm") = "string"
      BY DEF TypeOfKey
    <2>2. /\ a.open - 1 \in Keys("BlockAlgorithm") /\ cursor <= a.open - 1
          /\ \A j \in Keys("BlockAlgorithm") : cursor <= j => a.open - 1 <= j
          /\ a.close = a.open /\ Text(a) = plist[a.open].text
          /\ plist[a.open].tag # "key"
      BY <1>1, <2>1, WellTypedMatch
    <2>3. /\ a.open \in Nat /\ i \in Nat
      BY <1>1, MatchBounds DEF Keys
    <2>4. i # a.open
      BY <2>2 DEF Keys, Key
    <2>5. cursor' = a.open + 1
      BY <2>2 DEF Behind
    <2>6. i < cursor \/ i = a.open - 1
      BY <1>1, <2>2, <2>3, <2>4, <2>5
    <2>7. CASE i < cursor
      BY <2>7 DEF SInductive, NoAesXtsPassed
    <2>8. CASE i = a.open - 1
      <3>1. i + 1 = a.open
        BY <2>3, <2>8
      <3> QED
        BY <2>2, <3>1 DEF IsAesXts
    <2> QED
      BY <2>6, <2>7, <2>8
  <1>6. VolumeKeyIsAesXts'
    BY SameVolumeKey DEF SInductive
  <1> QED
    BY <1>1, <1>3, <1>4, <1>5, <1>6 DEF SInductive

\* A turn that takes the volume key behind the first AES-XTS algorithm.
LEMMA VolumeKeyTaken ==
    ASSUME SInductive, pc = "algorithm",
           NEW a \in extract_tagged_from("BlockAlgorithm", "string", cursor),
           IsAesXts(Text(a)),
           NEW k \in extract_tagged_from("KEKWrappedVolumeKeyStruct", "data", Behind(a)),
           context' = [context EXCEPT !.wrapped_vmk = k.open],
           pc' = "protectors", cursor' = 1, UNCHANGED <<plist, lv, result>>
    PROVE  SInductive'
  <1>1. /\ plist \in Seq(Tokens) /\ Len(plist) \in Nat /\ cursor \in 1 .. Len(plist) + 1
        /\ context.protectors = <<>> /\ context.iterations \in 0 .. U32Max
        /\ DOMAIN context = {"iterations", "wrapped_vmk", "protectors", "conversion_status"}
    BY DEF SInductive, TypeOK, IsContext, Progressed
  <1>2. a.open \in Nat \ {0} /\ Behind(a) \in Nat \ {0}
    BY <1>1, MatchBounds
  <1>3. k.open \in Behind(a) + 1 .. Len(plist)
    BY <1>1, <1>2, MatchBounds
  <1>4. /\ context'.wrapped_vmk = k.open /\ context'.protectors = <<>>
        /\ context'.iterations = context.iterations /\ DOMAIN context' = DOMAIN context
    BY <1>1
  <1>5. TypeOK'
    BY <1>1, <1>2, <1>3, <1>4, ScanAssumption, SMTT(30) DEF SInductive, TypeOK
  <1>6. IsContext'
    <2>1. context'.protectors = context.protectors
      BY <1>1, <1>4
    <2>2. context.protectors \in Seq({Protector(n) : n \in Nat})
      BY DEF SInductive, IsContext
    <2> QED
      BY <1>1, <1>4, <2>1, <2>2, Zenon DEF IsContext
  <1>7. Progressed' /\ NoAesXtsPassed'
    BY <1>4, ScanAssumption DEF SInductive, Progressed, NoAesXtsPassed
  <1>8. VolumeKeyIsAesXts'
    <2>. SUFFICES ASSUME WellTyped PROVE VolumeKeyIsAesXts'
      BY SamePlist DEF VolumeKeyIsAesXts
    <2>1. /\ TypeOfKey("BlockAlgorithm") = "string"
          /\ TypeOfKey("KEKWrappedVolumeKeyStruct") = "data"
      BY DEF TypeOfKey
    <2>2. /\ a.open - 1 \in Keys("BlockAlgorithm") /\ cursor <= a.open - 1
          /\ \A j \in Keys("BlockAlgorithm") : cursor <= j => a.open - 1 <= j
          /\ a.close = a.open /\ Text(a) = plist[a.open].text
          /\ plist[a.open].tag # "key"
      BY <1>1, <2>1, WellTypedMatch
    <2>3. /\ k.open - 1 \in Keys("KEKWrappedVolumeKeyStruct")
          /\ Behind(a) <= k.open - 1
          /\ \A j \in Keys("KEKWrappedVolumeKeyStruct") : Behind(a) <= j => k.open - 1 <= j
      BY <1>1, <1>2, <2>1, WellTypedMatch
    <2>4. Behind(a) = a.open + 1
      BY <2>2 DEF Behind
    <2>. DEFINE i == a.open - 1
    <2>5. i \in Keys("BlockAlgorithm") /\ i < k.open /\ plist[i + 1].text = "AES-XTS"
      <3>1. i + 1 = a.open /\ i < k.open
        BY <1>2, <1>3, <2>4
      <3> QED
        BY <2>2, <3>1 DEF IsAesXts
    <2>6. ASSUME NEW j \in Keys("BlockAlgorithm"), j < i
          PROVE  plist[j + 1].text # "AES-XTS"
      <3>1. j \in Nat
        BY <1>1 DEF Keys
      <3>2. j < cursor
        BY <1>1, <1>2, <2>2, <2>6, <3>1
      <3> QED
        BY <3>2 DEF SInductive, NoAesXtsPassed
    <2>7. ASSUME NEW j \in Keys("KEKWrappedVolumeKeyStruct"), j > i
          PROVE  k.open - 1 <= j
      <3>1. j \in Nat /\ j # a.open
        BY <1>1, <2>2 DEF Keys, Key
      <3>2. Behind(a) <= j
        BY <1>2, <2>4, <2>7, <3>1
      <3> QED
        BY <2>3, <3>2
    <2>8. plist[k.open - 1] = Key("KEKWrappedVolumeKeyStruct")
      BY <2>3 DEF Keys
    <2>9. /\ Keys("BlockAlgorithm")' = Keys("BlockAlgorithm")
          /\ Keys("KEKWrappedVolumeKeyStruct")' = Keys("KEKWrappedVolumeKeyStruct")
      BY SamePlist
    <2>. HIDE DEF i
    <2> QED
      BY <1>4, <2>5, <2>6, <2>7, <2>8, <2>9 DEF VolumeKeyIsAesXts
  <1> QED
    BY <1>1, <1>5, <1>6, <1>7, <1>8 DEF SInductive

LEMMA AlgorithmPreserves ==
    ASSUME SInductive, ScanAlgorithm
    PROVE  SInductive'
  <1>1. pc = "algorithm"
    BY DEF ScanAlgorithm
  <1>2. CASE Missing
    BY <1>2, MissingPreserves
  <1>3. CASE Fail("OutOfRange")
    BY <1>3, FailPreserves DEF Errors
  <1>4. CASE ~Missing /\ ~Fail("OutOfRange")
    <2>1. PICK a \in extract_tagged_from("BlockAlgorithm", "string", cursor) :
              IF IsAesXts(Text(a)) THEN TakeVolumeKey(Behind(a))
              ELSE /\ cursor' = Behind(a)
                   /\ UNCHANGED <<plist, pc, context, lv, result>>
      BY <1>4 DEF ScanAlgorithm
    <2>2. CASE ~IsAesXts(Text(a))
      BY <1>1, <2>1, <2>2, OtherAlgorithm
    <2>3. CASE IsAesXts(Text(a))
      <3>1. TakeVolumeKey(Behind(a))
        BY <2>1, <2>3
      <3>2. PICK k \in extract_tagged_from("KEKWrappedVolumeKeyStruct", "data", Behind(a)) :
               /\ context' = [context EXCEPT !.wrapped_vmk = k.open]
               /\ pc' = "protectors" /\ cursor' = 1 /\ UNCHANGED <<plist, lv, result>>
        BY <1>4, <3>1 DEF TakeVolumeKey, extract_data
      <3> QED
        BY <1>1, <2>3, <3>2, VolumeKeyTaken
    <2> QED
      BY <2>2, <2>3
  <1> QED
    BY <1>2, <1>3, <1>4

\* A turn of the loop over the users: the end, or one more protector.
LEMMA ProtectorStep ==
    ASSUME SInductive, ScanProtector
    PROVE  /\ pc = "protectors" /\ plist' = plist /\ lv' = lv /\ result' = result
           /\ \/ /\ extract_integer_from("UserType", cursor, U32Max) = None
                 /\ pc' = "status" /\ cursor' = cursor /\ context' = context
              \/ \E m \in extract_integer_from("UserType", cursor, U32Max) :
                    /\ cursor' = Behind(m)
                    /\ context' = [context EXCEPT !.protectors =
                          Append(context.protectors, Protector(Numerals[Text(m)]))]
                    /\ pc' = IF Len(context.protectors) + 1 >= MaxProtectors
                             THEN "status" ELSE "protectors"
  <1>1. /\ DOMAIN context = {"iterations", "wrapped_vmk", "protectors", "conversion_status"}
        /\ context.protectors \in Seq({Protector(n) : n \in Nat})
    BY DEF SInductive, IsContext
  <1>2. CASE extract_integer_from("UserType", cursor, U32Max) = None
    BY <1>2 DEF ScanProtector, None
  <1>3. CASE extract_integer_from("UserType", cursor, U32Max) # None
    <2>1. PICK m \in extract_integer_from("UserType", cursor, U32Max) :
             /\ context' = [context EXCEPT !.protectors =
                               Append(@, Protector(Numerals[Text(m)]))]
             /\ cursor' = Behind(m)
             /\ pc' = IF CapReached(Len(context'.protectors)) THEN "status"
                      ELSE "protectors"
      BY <1>3 DEF ScanProtector
    <2>. DEFINE p == Protector(Numerals[Text(m)])
    <2>2. p \in {Protector(n) : n \in Nat}
      <3>1. Numerals[Text(m)] \in Nat
        BY ScanAssumption DEF extract_integer_from
      <3> QED
        BY <3>1
    <2>3. context'.protectors = Append(context.protectors, p)
      BY <1>1, <2>1
    <2>. HIDE DEF p
    <2>4. Len(context'.protectors) = Len(context.protectors) + 1
      BY <1>1, <2>2, <2>3
    <2>5. pc' = IF Len(context.protectors) + 1 >= MaxProtectors
                THEN "status" ELSE "protectors"
      BY <2>1, <2>4 DEF CapReached
    <2> QED
      BY <2>1, <2>5 DEF ScanProtector
  <1> QED
    BY <1>2, <1>3

LEMMA ProtectorPreserves ==
    ASSUME SInductive, ScanProtector
    PROVE  SInductive'
  <1>1. /\ plist \in Seq(Tokens) /\ Len(plist) \in Nat /\ cursor \in 1 .. Len(plist) + 1
        /\ context.protectors \in Seq({Protector(n) : n \in Nat})
        /\ Len(context.protectors) \in Nat
        /\ DOMAIN context = {"iterations", "wrapped_vmk", "protectors", "conversion_status"}
    BY DEF SInductive, TypeOK, IsContext
  <1>2. /\ pc = "protectors" /\ plist' = plist /\ lv' = lv /\ result' = result
        /\ Len(context.protectors) < MaxProtectors
    BY ProtectorStep DEF SInductive, Progressed
  <1>3. CASE pc' = "status" /\ cursor' = cursor /\ context' = context
    <2>1. TypeOK' /\ IsContext' /\ Progressed' /\ NoAesXtsPassed'
      BY <1>2, <1>3 DEF SInductive, TypeOK, IsContext, Progressed, NoAesXtsPassed
    <2>2. VolumeKeyIsAesXts'
      BY <1>2, <1>3, SameVolumeKey DEF SInductive
    <2> QED
      BY <1>1, <1>2, <2>1, <2>2 DEF SInductive
  <1>4. CASE \E m \in extract_integer_from("UserType", cursor, U32Max) :
                /\ cursor' = Behind(m)
                /\ context' = [context EXCEPT !.protectors =
                      Append(context.protectors, Protector(Numerals[Text(m)]))]
                /\ pc' = IF Len(context.protectors) + 1 >= MaxProtectors
                         THEN "status" ELSE "protectors"
    <2>1. PICK m \in extract_integer_from("UserType", cursor, U32Max) :
                /\ cursor' = Behind(m)
                /\ context' = [context EXCEPT !.protectors =
                      Append(context.protectors, Protector(Numerals[Text(m)]))]
                /\ pc' = IF Len(context.protectors) + 1 >= MaxProtectors
                         THEN "status" ELSE "protectors"
      BY <1>4
    <2>2. /\ m \in extract_tagged_from("UserType", "integer", cursor)
          /\ Numerals[Text(m)] \in Nat
      BY ScanAssumption DEF extract_integer_from
    <2>. DEFINE p == Protector(Numerals[Text(m)])
    <2>3. p \in {Protector(n) : n \in Nat}
      BY <2>2
    <2>4. context' = [context EXCEPT !.protectors = Append(context.protectors, p)]
      BY <2>1
    <2>. HIDE DEF p
    <2>5. /\ context'.protectors = Append(context.protectors, p)
          /\ context'.iterations = context.iterations
          /\ context'.wrapped_vmk = context.wrapped_vmk
          /\ DOMAIN context' = DOMAIN context
      BY <1>1, <2>4
    <2>6. /\ context'.protectors \in Seq({Protector(n) : n \in Nat})
          /\ Len(context'.protectors) = Len(context.protectors) + 1
      BY <1>1, <2>3, <2>5
    <2>7. cursor' \in 1 .. Len(plist) + 1
      <3>1. Behind(m) \in cursor + 1 .. Len(plist) + 1
        BY <1>1, <2>2, MatchBounds
      <3> QED
        BY <1>1, <2>1, <3>1
    <2>8. pc' \in {"status", "protectors"}
          /\ (pc' = "protectors" => Len(context'.protectors) < MaxProtectors)
      BY <1>1, <2>1, <2>6, ScanAssumption
    <2>9. Len(context'.protectors) <= MaxProtectors
      BY <1>1, <1>2, <2>6, ScanAssumption
    <2>10. TypeOK'
      BY <1>2, <2>5, <2>7, <2>8, <2>9 DEF SInductive, TypeOK
    <2>11. IsContext'
      BY <1>1, <2>5, <2>6, Zenon DEF IsContext
    <2>12. Progressed' /\ NoAesXtsPassed'
      BY <1>2, <2>8 DEF SInductive, Progressed, NoAesXtsPassed
    <2>13. VolumeKeyIsAesXts'
      BY <1>2, <2>5, SameVolumeKey DEF SInductive
    <2> QED
      BY <1>1, <1>2, <2>10, <2>11, <2>12, <2>13 DEF SInductive
  <1> QED
    BY <1>3, <1>4, ProtectorStep

LEMMA StatusPreserves ==
    ASSUME SInductive, FindStatus
    PROVE  SInductive'
  <1>1. /\ pc = "status" /\ pc' = "volume_info" /\ plist' = plist /\ cursor' = cursor
        /\ lv' = lv /\ result' = result
        /\ context' = [context EXCEPT
                          !.conversion_status = extract_string("ConversionStatus")]
    BY DEF FindStatus
  <1>2. /\ DOMAIN context = {"iterations", "wrapped_vmk", "protectors", "conversion_status"}
        /\ context.protectors \in Seq({Protector(n) : n \in Nat})
    BY DEF SInductive, IsContext
  <1>3. /\ context'.protectors = context.protectors
        /\ context'.iterations = context.iterations
        /\ context'.wrapped_vmk = context.wrapped_vmk
        /\ DOMAIN context' = DOMAIN context
    BY <1>1, <1>2
  <1>4. TypeOK'
    BY <1>1, <1>3 DEF SInductive, TypeOK
  <1>5. IsContext'
    BY <1>2, <1>3, Zenon DEF IsContext
  <1>6. Progressed' /\ NoAesXtsPassed'
    BY <1>1 DEF SInductive, Progressed, NoAesXtsPassed
  <1>7. VolumeKeyIsAesXts'
    BY <1>1, <1>3, SameVolumeKey DEF SInductive
  <1> QED
    BY <1>1, <1>4, <1>5, <1>6, <1>7 DEF SInductive

\* The size of the volume is a u64.
LEMMA SizeType == plist \in Seq(Tokens) => extract_lv_size \in 0 .. U64Max
  <1>. DEFINE found == extract_integer_from("com.apple.corestorage.lv.size", 1, U64Max)
              S == {0} \cup {Numerals[Text(m)] : m \in found}
  <1>. SUFFICES ASSUME plist \in Seq(Tokens) PROVE extract_lv_size \in 0 .. U64Max
    OBVIOUS
  <1>1. S \subseteq 0 .. U64Max
    BY ScanAssumption DEF extract_integer_from
  <1>2. \E x \in S : \A y \in S : x >= y
    <2>1. \A m, n \in found : m = n
      BY MatchIsUnique DEF extract_integer_from
    <2>2. CASE found = {}
      BY <2>2
    <2>3. CASE found # {}
      <3>1. PICK m \in found : TRUE
        BY <2>3
      <3>2. Numerals[Text(m)] \in S /\ Numerals[Text(m)] \in Nat
        BY <1>1, <3>1
      <3>3. \A y \in S : y = 0 \/ y = Numerals[Text(m)]
        BY <2>1, <3>1
      <3> QED
        BY <3>2, <3>3
    <2> QED
      BY <2>2, <2>3
  <1>3. extract_lv_size = Max(S)
    BY DEF extract_lv_size
  <1>. HIDE DEF S
  <1> QED
    BY <1>1, <1>2, <1>3 DEF Max

LEMMA VolumeInfoPreserves ==
    ASSUME SInductive, FindVolumeInfo
    PROVE  SInductive'
  <1>1. CASE Missing
    BY <1>1, MissingPreserves
  <1>2. CASE ~Missing
    <2>1. /\ lv'.size = extract_lv_size /\ pc' = "done" /\ result' = "ok"
          /\ plist' = plist /\ cursor' = cursor /\ context' = context
      BY <1>2 DEF FindVolumeInfo
    <2>2. lv'.size \in 0 .. U64Max
      BY <2>1, SizeType DEF SInductive
    <2>3. TypeOK'
      BY <2>1, <2>2 DEF SInductive, TypeOK
    <2>4. IsContext' /\ Progressed' /\ NoAesXtsPassed'
      BY <2>1 DEF SInductive, IsContext, Progressed, NoAesXtsPassed
    <2>5. VolumeKeyIsAesXts'
      BY <2>1, SameVolumeKey DEF SInductive
    <2> QED
      BY <2>1, <2>3, <2>4, <2>5 DEF SInductive
  <1> QED
    BY <1>1, <1>2

LEMMA ScanUnchanged ==
    ASSUME SInductive, UNCHANGED vars
    PROVE  SInductive'
  <1>1. /\ plist' = plist /\ pc' = pc /\ cursor' = cursor /\ context' = context
        /\ lv' = lv /\ result' = result
    BY DEF vars
  <1>2. TypeOK' /\ IsContext' /\ Progressed'
    BY <1>1 DEF SInductive, TypeOK, IsContext, Progressed
  <1>3. NoAesXtsPassed'
    BY <1>1, SamePlist DEF SInductive, NoAesXtsPassed
  <1>4. VolumeKeyIsAesXts'
    BY <1>1, SameVolumeKey DEF SInductive
  <1> QED
    BY <1>1, <1>2, <1>3, <1>4 DEF SInductive

LEMMA ScanStepPreserves ==
    ASSUME SInductive, [Next]_vars
    PROVE  SInductive'
  BY PassphrasePreserves, AlgorithmPreserves, ProtectorPreserves, StatusPreserves,
     VolumeInfoPreserves, ScanUnchanged DEF Next

\* The inductive invariant holds in every state of every scan.
THEOREM ScanInvariant == Spec => []SInductive
  <1>1. SInductive /\ [Next]_vars => SInductive'
    BY ScanStepPreserves
  <1> QED
    BY <1>1, InitSInductive, PTL DEF Spec

\* The cursor never leaves the plist, and no number outgrows its type.
THEOREM ScanTypeCorrect == Spec => []TypeOK
  <1>1. SInductive => TypeOK
    BY DEF SInductive
  <1> QED
    BY <1>1, ScanInvariant, PTL

\* The volume key is that of the first AES-XTS algorithm of the plist.
THEOREM ScanVolumeKeyIsAesXts == Spec => []VolumeKeyIsAesXts
  <1>1. SInductive => VolumeKeyIsAesXts
    BY DEF SInductive
  <1> QED
    BY <1>1, ScanInvariant, PTL
--------------------------------------------------------------------------------
(* The protectors. *)

\* Of a well typed plist the element of the first key from some place on is
\* found.
LEMMA WellTypedIsFound ==
    ASSUME plist \in Seq(Tokens), WellTyped, NEW name, NEW from \in Nat \ {0},
           NEW k \in Keys(name), from <= k, \A j \in Keys(name) : from <= j => k <= j
    PROVE  \E m \in extract_tagged_from(name, TypeOfKey(name), from) :
              Text(m) = plist[k + 1].text
  <1>. DEFINE m == [open |-> k + 1, close |-> k + 1]
  <1>1. Len(plist) \in Nat /\ k \in from .. Len(plist) /\ plist[k] = Key(name)
    BY DEF Keys
  <1>2. plist[k].tag = "key" /\ plist[k].text = name
    BY <1>1 DEF Key
  <1>3. /\ k < Len(plist) /\ plist[k + 1].tag = TypeOfKey(name)
        /\ k + 1 \in DOMAIN plist /\ plist[k + 1].closed
    BY <1>1, <1>2 DEF WellTyped
  <1>4. \A j \in from .. k - 1 : plist[j] # Key(name)
    BY <1>1 DEF Keys
  <1>5. m.open = k + 1 /\ m.close = k + 1
    OBVIOUS
  <1>6. IsMatch(m, k, name, TypeOfKey(name), from)
    BY <1>1, <1>3, <1>4, <1>5 DEF IsMatch
  <1>7. m \in extract_tagged_from(name, TypeOfKey(name), from)
    BY <1>6, MatchIsFound
  <1>8. Text(m) = plist[k + 1].text
    BY <1>5 DEF Text
  <1> QED
    BY <1>7, <1>8

UserKeys == Keys("UserType")
UserKeysBefore(c) == {k \in UserKeys : k < c}

LEMMA UserKeysFinite ==
    ASSUME plist \in Seq(Tokens), NEW c
    PROVE  /\ IsFiniteSet(UserKeys) /\ IsFiniteSet(UserKeysBefore(c))
           /\ Cardinality(UserKeys) \in Nat /\ Cardinality(UserKeysBefore(c)) \in Nat
           /\ Cardinality(UserKeysBefore(c)) <= Cardinality(UserKeys)
           /\ Cardinality(UserKeysBefore(c)) = Cardinality(UserKeys) => UserKeysBefore(c) = UserKeys
  <1>1. UserKeys \in SUBSET (1 .. Len(plist)) /\ Len(plist) \in Int
    BY DEF UserKeys, Keys
  <1>2. IsFiniteSet(1 .. Len(plist))
    BY <1>1, FS_Interval
  <1>3. IsFiniteSet(UserKeys)
    BY <1>1, <1>2, FS_Subset
  <1>4. UserKeysBefore(c) \in SUBSET UserKeys
    BY DEF UserKeysBefore
  <1> QED
    BY <1>3, <1>4, FS_Subset, FS_CardinalityType

\* The n-th protector has the value of the n-th UserType key.
InOrder ==
    \E f \in [DOMAIN context.protectors -> UserKeys] :
        \A n \in DOMAIN context.protectors :
            /\ context.protectors[n].user_type = Numerals[plist[f[n] + 1].text]
            /\ Cardinality(UserKeysBefore(f[n])) = n - 1

NoneLeftOut ==
    Len(context.protectors) < Cardinality(UserKeys) =>
        \/ Len(context.protectors) = MaxProtectors
        \/ \E k \in UserKeys : /\ ~IsU32(plist[k + 1].text)
                               /\ Cardinality(UserKeysBefore(k)) = Len(context.protectors)

ListIsDone == pc \in {"status", "volume_info"} \/ result = "ok"

PInductive ==
    /\ Len(context.protectors) <= Cardinality(UserKeys)
    /\ pc = "protectors" =>
          Len(context.protectors) <= Cardinality(UserKeysBefore(cursor))
    /\ WellTyped => InOrder
    /\ (WellTyped /\ pc = "protectors") =>
          Cardinality(UserKeysBefore(cursor)) = Len(context.protectors)
    /\ (WellTyped /\ ListIsDone) => NoneLeftOut

\* Before the first turn of the loop there is nothing to be wrong.
LEMMA NoProtectorsYet ==
    ASSUME plist \in Seq(Tokens), context.protectors = <<>>,
           ~ListIsDone, pc = "protectors" => cursor = 1
    PROVE  PInductive
  <1>1. Cardinality(UserKeys) \in Nat
    BY UserKeysFinite
  <1>2. UserKeysBefore(1) = {}
    BY DEF UserKeysBefore, UserKeys, Keys
  <1>3. Cardinality(UserKeysBefore(1)) = 0
    BY <1>2, FS_EmptySet
  <1>4. Len(context.protectors) = 0 /\ DOMAIN context.protectors = {}
    OBVIOUS
  <1>5. InOrder
    <2>1. [n \in {} |-> 0] \in [DOMAIN context.protectors -> UserKeys]
      BY <1>4
    <2> QED
      BY <1>4, <2>1 DEF InOrder
  <1> QED
    BY <1>1, <1>3, <1>4, <1>5 DEF PInductive

\* A turn that finds a user finds a key that no turn has found before.
LEMMA OneMoreKey ==
    ASSUME SInductive, NEW m \in extract_tagged_from("UserType", "integer", cursor)
    PROVE  /\ Cardinality(UserKeysBefore(cursor)) + 1
                 <= Cardinality(UserKeysBefore(Behind(m)))
           /\ WellTyped =>
                 /\ m.open - 1 \in UserKeys
                 /\ UserKeysBefore(m.open - 1) = UserKeysBefore(cursor)
                 /\ Cardinality(UserKeysBefore(Behind(m)))
                       = Cardinality(UserKeysBefore(cursor)) + 1
                 /\ Text(m) = plist[(m.open - 1) + 1].text
  <1>1. /\ plist \in Seq(Tokens) /\ cursor \in Nat \ {0} /\ Len(plist) \in Nat
    BY DEF SInductive, TypeOK
  <1>2. /\ m.open \in cursor + 1 .. Len(plist)
        /\ Behind(m) \in cursor + 1 .. Len(plist) + 1
        /\ \E k \in UserKeys : cursor <= k /\ k < Behind(m)
    BY <1>1, MatchBounds DEF UserKeys
  <1>3. \A k \in UserKeys : k \in Nat
    BY <1>1 DEF UserKeys, Keys
  <1>4. ASSUME NEW k \in UserKeys, cursor <= k
        PROVE  Cardinality(UserKeysBefore(cursor) \cup {k})
                  = Cardinality(UserKeysBefore(cursor)) + 1
    <2>1. k \notin UserKeysBefore(cursor)
      BY <1>1, <1>3, <1>4 DEF UserKeysBefore
    <2>2. IsFiniteSet(UserKeysBefore(cursor))
      BY <1>1, UserKeysFinite
    <2> QED
      BY <2>1, <2>2, FS_AddElement
  <1>5. Cardinality(UserKeysBefore(cursor)) + 1 <= Cardinality(UserKeysBefore(Behind(m)))
    <2>1. PICK k \in UserKeys : cursor <= k /\ k < Behind(m)
      BY <1>2
    <2>2. UserKeysBefore(cursor) \cup {k} \in SUBSET UserKeysBefore(Behind(m))
      BY <1>1, <1>2, <1>3, <2>1 DEF UserKeysBefore
    <2>3. IsFiniteSet(UserKeysBefore(Behind(m)))
      BY <1>1, UserKeysFinite
    <2>4. Cardinality(UserKeysBefore(cursor) \cup {k})
             <= Cardinality(UserKeysBefore(Behind(m)))
      BY <2>2, <2>3, FS_Subset
    <2> QED
      BY <1>4, <2>1, <2>4
  <1>6. ASSUME WellTyped
        PROVE  /\ m.open - 1 \in UserKeys
               /\ UserKeysBefore(m.open - 1) = UserKeysBefore(cursor)
               /\ Cardinality(UserKeysBefore(Behind(m)))
                     = Cardinality(UserKeysBefore(cursor)) + 1
               /\ Text(m) = plist[(m.open - 1) + 1].text
    <2>. DEFINE k == m.open - 1
    <2>1. TypeOfKey("UserType") = "integer"
      BY DEF TypeOfKey
    <2>2. /\ k \in UserKeys /\ cursor <= k
          /\ \A j \in UserKeys : cursor <= j => k <= j
          /\ m.close = m.open /\ Text(m) = plist[m.open].text
          /\ plist[m.open].tag # "key"
      BY <1>1, <1>6, <2>1, WellTypedMatch DEF UserKeys
    <2>3. k + 1 = m.open /\ Behind(m) = k + 2 /\ k \in Nat
      BY <1>1, <1>2, <2>2 DEF Behind
    <2>4. k + 1 \notin UserKeys
      BY <2>2, <2>3 DEF UserKeys, Keys, Key
    <2>. HIDE DEF k
    <2>a. \A j \in UserKeys : /\ j < k <=> j < cursor
                              /\ j < k + 2 <=> (j < cursor \/ j = k)
      <3>. TAKE j \in UserKeys
      <3>1. j \in Nat /\ j # k + 1 /\ (cursor <= j => k <= j) /\ cursor <= k
        BY <1>3, <2>2, <2>4
      <3> QED
        BY <1>1, <2>3, <3>1
    <2>5. UserKeysBefore(k) = UserKeysBefore(cursor)
      BY <2>a DEF UserKeysBefore
    <2>6. UserKeysBefore(k + 2) = UserKeysBefore(cursor) \cup {k}
      BY <2>2, <2>a DEF UserKeysBefore
    <2>7. Cardinality(UserKeysBefore(Behind(m)))
             = Cardinality(UserKeysBefore(cursor)) + 1
      BY <1>4, <2>2, <2>3, <2>6
    <2> QED
      BY <2>2, <2>3, <2>5, <2>7 DEF k
  <1> QED
    BY <1>5, <1>6

\* Nothing of PInductive is about the other parts of the context.
LEMMA SameProtectors ==
    ASSUME PInductive, plist' = plist, context'.protectors = context.protectors,
           pc' = "protectors" => pc = "protectors" /\ cursor' = cursor,
           ListIsDone' => ListIsDone
    PROVE  PInductive'
  <1>1. WellTyped' = WellTyped /\ UserKeys' = UserKeys
    BY SamePlist DEF UserKeys
  <1>2. \A c : UserKeysBefore(c)' = UserKeysBefore(c)
    BY <1>1 DEF UserKeysBefore
  <1>3. InOrder => InOrder'
    <2>. SUFFICES ASSUME InOrder PROVE InOrder'
      OBVIOUS
    <2>1. PICK f \in [DOMAIN context.protectors -> UserKeys] :
             \A n \in DOMAIN context.protectors :
                /\ context.protectors[n].user_type = Numerals[plist[f[n] + 1].text]
                /\ Cardinality(UserKeysBefore(f[n])) = n - 1
      BY DEF InOrder
    <2>2. f \in [DOMAIN context'.protectors -> UserKeys']
      BY <1>1
    <2>3. ASSUME NEW n \in DOMAIN context'.protectors
          PROVE  /\ context'.protectors[n].user_type = Numerals[plist'[f[n] + 1].text]
                 /\ Cardinality(UserKeysBefore(f[n])') = n - 1
      BY <1>2, <2>1
    <2> QED
      BY <2>2, <2>3 DEF InOrder
  <1>4. NoneLeftOut => NoneLeftOut'
    BY <1>1 DEF NoneLeftOut, IsU32, UserKeysBefore
  <1>5. cursor' = cursor => UserKeysBefore(cursor)' = UserKeysBefore(cursor)
    BY <1>1 DEF UserKeysBefore
  <1> QED
    BY <1>1, <1>3, <1>4, <1>5 DEF PInductive

\* A turn that lists one more protector.
LEMMA OneMoreProtector ==
    ASSUME SInductive, SInductive', PInductive, pc = "protectors", plist' = plist,
           NEW m \in extract_integer_from("UserType", cursor, U32Max),
           cursor' = Behind(m),
           context' = [context EXCEPT !.protectors =
                          Append(context.protectors, Protector(Numerals[Text(m)]))],
           pc' = IF Len(context.protectors) + 1 >= MaxProtectors
                 THEN "status" ELSE "protectors"
    PROVE  PInductive'
  <1>. DEFINE s == context.protectors
              p == Protector(Numerals[Text(m)])
              k == m.open - 1
  <1>1. /\ plist \in Seq(Tokens) /\ s \in Seq({Protector(n) : n \in Nat})
        /\ DOMAIN context = {"iterations", "wrapped_vmk", "protectors", "conversion_status"}
        /\ Len(s) \in Nat
    BY DEF SInductive, IsContext
  <1>2. m \in extract_tagged_from("UserType", "integer", cursor)
    BY DEF extract_integer_from
  <1>3. context'.protectors = Append(s, p)
    BY <1>1
  <1>4. p.user_type = Numerals[Text(m)]
    BY DEF Protector
  <1>5. /\ Cardinality(UserKeysBefore(cursor)) + 1 <= Cardinality(UserKeysBefore(Behind(m)))
        /\ WellTyped =>
              /\ k \in UserKeys
              /\ UserKeysBefore(k) = UserKeysBefore(cursor)
              /\ Cardinality(UserKeysBefore(Behind(m)))
                    = Cardinality(UserKeysBefore(cursor)) + 1
              /\ Text(m) = plist[k + 1].text
    BY <1>2, OneMoreKey
  <1>6. /\ WellTyped' = WellTyped /\ UserKeys' = UserKeys
        /\ UserKeysBefore(cursor)' = UserKeysBefore(Behind(m))
    <2>1. WellTyped' = WellTyped /\ UserKeys' = UserKeys
      BY SamePlist DEF UserKeys
    <2> QED
      BY <2>1 DEF UserKeysBefore
  <1>7. \A c : UserKeysBefore(c)' = UserKeysBefore(c)
    BY <1>6 DEF UserKeysBefore
  <1>. HIDE DEF s, p, k
  <1>8. /\ Len(context'.protectors) = Len(s) + 1
        /\ DOMAIN context'.protectors = 1 .. Len(s) + 1 /\ DOMAIN s = 1 .. Len(s)
        /\ context'.protectors[Len(s) + 1] = p
        /\ \A n \in 1 .. Len(s) : context'.protectors[n] = s[n]
    BY <1>1, <1>3
  <1>9. /\ Len(s) <= Cardinality(UserKeysBefore(cursor))
        /\ WellTyped => Cardinality(UserKeysBefore(cursor)) = Len(s)
        /\ WellTyped => InOrder
    BY DEF PInductive, s
  <1>10. /\ Cardinality(UserKeysBefore(cursor)) \in Nat
         /\ Cardinality(UserKeysBefore(Behind(m))) \in Nat
         /\ Cardinality(UserKeysBefore(Behind(m))) <= Cardinality(UserKeys)
         /\ Cardinality(UserKeys) \in Nat
    BY <1>1, UserKeysFinite
  <1>11. /\ Len(context'.protectors) <= Cardinality(UserKeysBefore(Behind(m)))
         /\ Len(context'.protectors) <= Cardinality(UserKeys)
    BY <1>1, <1>5, <1>8, <1>9, <1>10
  <1>12. WellTyped => Cardinality(UserKeysBefore(Behind(m))) = Len(context'.protectors)
    BY <1>5, <1>8, <1>9
  <1>13. ASSUME WellTyped PROVE InOrder'
    <2>1. PICK f \in [DOMAIN s -> UserKeys] :
             \A n \in DOMAIN s :
                /\ s[n].user_type = Numerals[plist[f[n] + 1].text]
                /\ Cardinality(UserKeysBefore(f[n])) = n - 1
      BY <1>9, <1>13 DEF InOrder, s
    <2>2. PICK g \in [1 .. Len(s) + 1 -> UserKeys] :
             g[Len(s) + 1] = k /\ \A n \in 1 .. Len(s) : g[n] = f[n]
      <3>. DEFINE h == [n \in 1 .. Len(s) + 1 |-> IF n = Len(s) + 1 THEN k ELSE f[n]]
      <3>1. h[Len(s) + 1] = k /\ \A n \in 1 .. Len(s) : h[n] = f[n]
        BY <1>1 DEF s
      <3>2. h \in [1 .. Len(s) + 1 -> UserKeys]
        BY <1>5, <1>8, <1>13
      <3>. HIDE DEF h
      <3> QED
        BY <3>1, <3>2
    <2>3. Len(s) \in Nat
      BY <1>1
    <2>4. ASSUME NEW n \in 1 .. Len(s) + 1
          PROVE  /\ context'.protectors[n].user_type = Numerals[plist[g[n] + 1].text]
                 /\ Cardinality(UserKeysBefore(g[n])) = n - 1
      <3>1. CASE n = Len(s) + 1
        <4>1. g[n] = k /\ context'.protectors[n] = p
          BY <1>8, <2>2, <3>1
        <4>2. Cardinality(UserKeysBefore(k)) = Len(s)
          BY <1>5, <1>9, <1>13
        <4>3. Len(s) = n - 1
          BY <1>1, <3>1
        <4> QED
          BY <1>4, <1>5, <1>13, <4>1, <4>2, <4>3
      <3>2. CASE n \in 1 .. Len(s)
        <4>1. g[n] = f[n] /\ context'.protectors[n] = s[n] /\ n \in DOMAIN s
          BY <1>8, <2>2, <3>2
        <4> QED
          BY <2>1, <4>1
      <3>3. n = Len(s) + 1 \/ n \in 1 .. Len(s)
        BY <2>3
      <3> QED
        BY <3>1, <3>2, <3>3
    <2>5. g \in [DOMAIN context'.protectors -> UserKeys']
      BY <1>6, <1>8, <2>2
    <2>6. ASSUME NEW n \in DOMAIN context'.protectors
          PROVE  /\ context'.protectors[n].user_type = Numerals[plist'[g[n] + 1].text]
                 /\ Cardinality(UserKeysBefore(g[n])') = n - 1
      BY <1>7, <1>8, <2>4
    <2> QED
      BY <2>5, <2>6 DEF InOrder
  <1>14. ListIsDone' => NoneLeftOut'
    <2>. SUFFICES ASSUME pc' = "status" PROVE Len(context'.protectors) = MaxProtectors
      BY DEF NoneLeftOut, ListIsDone, SInductive, Progressed
    <2>1. MaxProtectors \in Nat /\ Len(context'.protectors) <= MaxProtectors
      BY ScanAssumption DEF SInductive, TypeOK
    <2>2. Len(s) + 1 >= MaxProtectors
      BY DEF s
    <2> QED
      BY <1>1, <1>8, <2>1, <2>2
  <1> QED
    BY <1>6, <1>11, <1>12, <1>13, <1>14 DEF PInductive

\* The turn that finds no user: there is none left, or the next one's value
\* does not parse.
LEMMA LastTurn ==
    ASSUME SInductive, PInductive, pc = "protectors", plist' = plist,
           extract_integer_from("UserType", cursor, U32Max) = None,
           pc' = "status", cursor' = cursor, context' = context
    PROVE  PInductive'
  <1>1. plist \in Seq(Tokens) /\ cursor \in Nat \ {0} /\ Len(plist) \in Nat
    BY DEF SInductive, TypeOK
  <1>2. WellTyped => NoneLeftOut
    <2>. SUFFICES ASSUME WellTyped, Len(context.protectors) < Cardinality(UserKeys)
                  PROVE  \E k \in UserKeys :
                            /\ ~IsU32(plist[k + 1].text)
                            /\ Cardinality(UserKeysBefore(k)) = Len(context.protectors)
      BY DEF NoneLeftOut
    <2>1. Cardinality(UserKeysBefore(cursor)) = Len(context.protectors)
      BY DEF PInductive
    <2>2. UserKeysBefore(cursor) # UserKeys
      BY <2>1
    <2>. DEFINE S == {k \in UserKeys : cursor <= k}
    <2>3. S \in SUBSET Nat /\ S # {} /\ UserKeys \subseteq Nat
      BY <1>1, <2>2 DEF UserKeysBefore, UserKeys, Keys
    <2>4. PICK k \in S : \A j \in S : k <= j
      <3>. HIDE DEF S
      <3> QED
        BY <2>3, SmallestOf
    <2>5. TypeOfKey("UserType") = "integer"
      BY DEF TypeOfKey
    <2>6. PICK m \in extract_tagged_from("UserType", "integer", cursor) :
              Text(m) = plist[k + 1].text
      BY <1>1, <2>4, <2>5, WellTypedIsFound DEF UserKeys
    <2>7. ~(Text(m) \in DOMAIN Numerals /\ Numerals[Text(m)] <= U32Max)
      BY DEF extract_integer_from, None
    <2> QED
      <3>1. UserKeysBefore(k) = UserKeysBefore(cursor)
        <4>1. k \in Nat /\ cursor \in Nat /\ cursor <= k
          BY <1>1, <2>3, <2>4
        <4>2. ASSUME NEW j \in UserKeys PROVE j < k <=> j < cursor
          <5>1. j \in Nat /\ (cursor <= j => k <= j)
            BY <2>3, <2>4
          <5> QED
            BY <4>1, <5>1
        <4> QED
          BY <4>2 DEF UserKeysBefore
      <3>2. k \in UserKeys /\ ~IsU32(plist[k + 1].text)
        BY <2>4, <2>6, <2>7 DEF IsU32
      <3> QED
        BY <2>1, <3>1, <3>2
  <1>3. WellTyped' = WellTyped /\ UserKeys' = UserKeys
    BY SamePlist DEF UserKeys
  <1>4. NoneLeftOut => NoneLeftOut'
    BY <1>3 DEF NoneLeftOut, IsU32, UserKeysBefore
  <1>5. InOrder => InOrder'
    <2>1. \A c : UserKeysBefore(c)' = UserKeysBefore(c)
      BY <1>3 DEF UserKeysBefore
    <2> QED
      BY <1>3, <2>1 DEF InOrder
  <1> QED
    BY <1>2, <1>3, <1>4, <1>5 DEF PInductive

LEMMA InitPInductive == Init => PInductive
  <1>. SUFFICES ASSUME Init PROVE PInductive
    OBVIOUS
  <1>1. /\ plist \in Seq(Tokens) /\ context.protectors = <<>> /\ pc = "passphrase"
        /\ ~ListIsDone
    BY ScanAssumption DEF Init, NoContext, ListIsDone
  <1> QED
    BY <1>1, NoProtectorsYet

\* The searches before the loop leave the list of protectors empty.
LEMMA EarlierSearches ==
    ASSUME SInductive, SInductive', PInductive,
           pc \in {"passphrase", "algorithm"}, FindPassphraseStruct \/ ScanAlgorithm
    PROVE  PInductive'
  <1>1. /\ plist' = plist /\ plist' \in Seq(Tokens)
        /\ DOMAIN context = {"iterations", "wrapped_vmk", "protectors", "conversion_status"}
    BY DEF SInductive, IsContext, FindPassphraseStruct, ScanAlgorithm, TakeVolumeKey,
       Missing, Fail
  <1>2. context'.protectors = context.protectors
    BY <1>1 DEF FindPassphraseStruct, ScanAlgorithm, TakeVolumeKey, Missing, Fail
  <1>3. context.protectors = <<>>
    BY DEF SInductive, Progressed
  <1>4. /\ pc' \in {"algorithm", "protectors", "done"}
        /\ pc' = "protectors" => cursor' = 1
        /\ ~ListIsDone'
    <2>1. result = "none"
      BY DEF SInductive, Progressed
    <2> QED
      BY <2>1 DEF FindPassphraseStruct, ScanAlgorithm, TakeVolumeKey, Missing, Fail,
         ListIsDone
  <1>5. context'.protectors = <<>>
    BY <1>2, <1>3
  <1>6. /\ WellTyped' = WellTyped /\ UserKeys' = UserKeys
        /\ Cardinality(UserKeys) \in Nat
    BY <1>1, SamePlist, UserKeysFinite DEF UserKeys
  <1>7. Len(context'.protectors) = 0 /\ DOMAIN context'.protectors = {}
    BY <1>5
  <1>8. InOrder'
    <2>1. PICK f : f \in [DOMAIN context'.protectors -> UserKeys']
      <3>1. [n \in {} |-> 0] \in [DOMAIN context'.protectors -> UserKeys']
        BY <1>7
      <3> QED
        BY <3>1
    <2> QED
      BY <1>7, <2>1 DEF InOrder
  <1>9. pc' = "protectors" => Cardinality(UserKeysBefore(cursor)') = 0
    <2>1. \A k \in UserKeys : k \in Nat \ {0}
      BY <1>1 DEF UserKeys, Keys
    <2>2. \A k \in UserKeys : ~(k < 1)
      BY <2>1
    <2>3. pc' = "protectors" => UserKeysBefore(cursor)' = {}
      BY <1>4, <1>6, <2>2 DEF UserKeysBefore
    <2> QED
      BY <2>3, FS_EmptySet
  <1> QED
    BY <1>4, <1>6, <1>7, <1>8, <1>9 DEF PInductive

\* The later ones do not touch it.
LEMMA LaterSearches ==
    ASSUME SInductive, PInductive, FindStatus \/ FindVolumeInfo \/ UNCHANGED vars
    PROVE  PInductive'
  <1>1. DOMAIN context = {"iterations", "wrapped_vmk", "protectors", "conversion_status"}
    BY DEF SInductive, IsContext
  <1>2. CASE FindStatus
    <2>1. context'.protectors = context.protectors
      BY <1>1, <1>2 DEF FindStatus
    <2> QED
      BY <1>2, <2>1, SameProtectors DEF FindStatus, ListIsDone
  <1>3. CASE FindVolumeInfo
    <2>1. plist' = plist /\ context' = context /\ pc' = "done" /\ ListIsDone
      BY <1>3 DEF FindVolumeInfo, Missing, Fail, ListIsDone
    <2> QED
      BY <2>1, SameProtectors
  <1>4. CASE UNCHANGED vars
    BY <1>4, SameProtectors DEF vars, ListIsDone
  <1> QED
    BY <1>2, <1>3, <1>4

LEMMA ProtectorStepPreserves ==
    ASSUME SInductive, PInductive, [Next]_vars
    PROVE  PInductive'
  <1>1. SInductive'
    BY ScanStepPreserves
  <1>2. CASE FindPassphraseStruct \/ ScanAlgorithm
    BY <1>1, <1>2, EarlierSearches DEF FindPassphraseStruct, ScanAlgorithm
  <1>3. CASE ScanProtector
    BY <1>1, <1>3, ProtectorStep, OneMoreProtector, LastTurn
  <1>4. CASE FindStatus \/ FindVolumeInfo \/ UNCHANGED vars
    BY <1>4, LaterSearches
  <1> QED
    BY <1>2, <1>3, <1>4 DEF Next

\* No UserType key is reported twice; of a well typed plist the protectors are
\* the UserType values in their order, and none is left out before one that
\* does not parse or the cap.
THEOREM ScanProtectorsInOrder == Spec => []ProtectorsInOrder
  <1>1. SInductive /\ PInductive /\ [Next]_vars => PInductive'
    BY ProtectorStepPreserves
  <1>2. SInductive /\ PInductive => ProtectorsInOrder
    BY DEF PInductive, ProtectorsInOrder, InOrder, NoneLeftOut, UserKeys, UserKeysBefore,
       ListIsDone
  <1> QED
    BY <1>1, <1>2, InitPInductive, ScanInvariant, PTL DEF Spec
--------------------------------------------------------------------------------
(* Progress. *)

LEMMA TurnAdvances ==
    ASSUME SInductive, SInductive', Next
    PROVE  TurnsLeft' \in 0 .. TurnsLeft - 1
  <1>. DEFINE n == Len(plist)
  <1>1. /\ plist' = plist /\ n \in Nat /\ plist \in Seq(Tokens)
        /\ cursor \in 1 .. n + 1 /\ cursor' \in 1 .. n + 1
    <2>1. plist' = plist
      BY DEF Next, FindPassphraseStruct, ScanAlgorithm, TakeVolumeKey, ScanProtector,
         FindStatus, FindVolumeInfo, Missing, Fail
    <2> QED
      BY <2>1 DEF SInductive, TypeOK
  <1>2. \A name, tag : \A m \in extract_tagged_from(name, tag, cursor) :
            Behind(m) \in cursor + 1 .. n + 1
    BY <1>1, MatchBounds
  <1>3. CASE FindPassphraseStruct
    <2>1. pc = "passphrase" /\ pc' \in {"algorithm", "done"}
      BY <1>3 DEF FindPassphraseStruct, Missing, Fail
    <2> QED
      BY <1>1, <2>1 DEF TurnsLeft
  <1>4. CASE ScanAlgorithm
    <2>1. /\ pc = "algorithm"
          /\ \/ pc' \in {"protectors", "done"}
             \/ /\ pc' = pc
                /\ \E a \in extract_tagged_from("BlockAlgorithm", "string", cursor) :
                      cursor' = Behind(a)
      BY <1>4 DEF ScanAlgorithm, TakeVolumeKey, Missing, Fail
    <2>2. pc' = pc => cursor' \in cursor + 1 .. n + 1
      BY <1>2, <2>1
    <2> QED
      BY <1>1, <2>1, <2>2, SMTT(30) DEF TurnsLeft
  <1>5. CASE ScanProtector
    <2>1. /\ pc = "protectors"
          /\ \/ pc' = "status"
             \/ /\ pc' = pc
                /\ \E m \in extract_integer_from("UserType", cursor, U32Max) :
                      cursor' = Behind(m)
      BY <1>5, ProtectorStep
    <2>2. pc' = pc => cursor' \in cursor + 1 .. n + 1
      BY <1>2, <2>1 DEF extract_integer_from
    <2> QED
      BY <1>1, <2>1, <2>2 DEF TurnsLeft
  <1>6. CASE FindStatus \/ FindVolumeInfo
    <2>1. \/ pc = "status" /\ pc' = "volume_info"
          \/ pc = "volume_info" /\ pc' = "done"
      BY <1>6 DEF FindStatus, FindVolumeInfo, Missing, Fail
    <2> QED
      BY <2>1 DEF TurnsLeft
  <1> QED
    BY <1>3, <1>4, <1>5, <1>6 DEF Next

\* Every turn of the searches is one of finitely many, whatever the plist.
THEOREM ScanEveryTurnAdvances == Spec => EveryTurnAdvances
  <1>1. SInductive /\ SInductive' /\ [Next]_vars => [TurnsLeft' \in 0 .. TurnsLeft - 1]_vars
    BY TurnAdvances
  <1> QED
    BY <1>1, ScanInvariant, PTL DEF Spec, EveryTurnAdvances
--------------------------------------------------------------------------------
(* The contract with module Unlock. *)

\* A search finds the text of the first key from where it starts.
LEMMA FirstTextIsFound ==
    ASSUME plist \in Seq(Tokens), WellTyped, NEW name, NEW pos \in Nat,
           NEW from \in Nat \ {0}, \A k \in Keys(name) : k > pos <=> from <= k
    PROVE  {Text(m) : m \in extract_tagged_from(name, TypeOfKey(name), from)}
              = FirstText(name, pos)
  <1>. DEFINE S == extract_tagged_from(name, TypeOfKey(name), from)
  <1>1. ASSUME NEW m \in S
        PROVE  Text(m) \in FirstText(name, pos)
    <2>. DEFINE k == m.open - 1
    <2>1. /\ k \in Keys(name) /\ k > pos
          /\ \A j \in Keys(name) : j > pos => k <= j
          /\ Text(m) = plist[m.open].text
      BY WellTypedMatch
    <2>2. k + 1 = m.open
      BY MatchBounds
    <2> QED
      BY <2>1, <2>2 DEF FirstText
  <1>2. ASSUME NEW t \in FirstText(name, pos)
        PROVE  \E m \in S : Text(m) = t
    <2>1. PICK k \in Keys(name) :
              /\ k > pos /\ \A j \in Keys(name) : j > pos => k <= j
              /\ t = plist[k + 1].text
      BY DEF FirstText
    <2> QED
      BY <2>1, WellTypedIsFound
  <1>. HIDE DEF S
  <1>3. {Text(m) : m \in S} = FirstText(name, pos)
    BY <1>1, <1>2
  <1> QED
    BY <1>3 DEF S

\* One text, and what it is called.
LEMMA StructIs ==
    ASSUME NEW T, NEW W
    PROVE  /\ (\A t \in T : ~Decodes(t)) => StructOf(T, W) \in {"absent", "bad_base64"}
           /\ \A t : T = {t} /\ Decodes(t) =>
                 StructOf(T, W) = IF t \in W THEN "whole" ELSE "short"
  BY DEF StructOf

\* The struct found, or none.
LEMMA StructFound ==
    ASSUME plist \in Seq(Tokens), NEW name, NEW from \in Nat \ {0}, NEW T, NEW W,
           {Text(m) : m \in extract_tagged_from(name, "data", from)} = T
    PROVE  /\ extract_data(name, from) = None => StructOf(T, W) \in {"absent", "bad_base64"}
           /\ \A m \in extract_data(name, from) :
                 /\ T = {Text(m)} /\ Text(m) \in DOMAIN Blobs
                 /\ StructOf(T, W) = IF Text(m) \in W THEN "whole" ELSE "short"
  <1>. DEFINE S == extract_tagged_from(name, "data", from)
  <1>1. extract_data(name, from) = {m \in S : Decodes(Text(m))}
    BY DEF extract_data
  <1>2. \A m, n \in S : m = n
    BY MatchIsUnique
  <1>. HIDE DEF S
  <1>3. T = {Text(m) : m \in S}
    BY DEF S
  <1>4. extract_data(name, from) = None => \A t \in T : ~Decodes(t)
    BY <1>1, <1>3 DEF None
  <1>5. ASSUME NEW m \in extract_data(name, from)
        PROVE  T = {Text(m)} /\ Decodes(Text(m))
    BY <1>1, <1>2, <1>3
  <1> QED
    BY <1>4, <1>5, StructIs DEF Decodes

\* What has been found of a well typed plist when a search is over.
PassphraseFound ==
    /\ PassphraseStruct = "whole"
    /\ {context.iterations} = {Blobs[t].iterations : t \in PassphraseText}

CInductive ==
    /\ WellTyped =>
          /\ (pc \notin {"passphrase", "done"} \/ result = "ok") => PassphraseFound
          /\ (pc \in {"protectors", "status", "volume_info"} \/ result = "ok")
                => VolumeKeyStruct = "whole"
    /\ SearchesKeepContract

LEMMA SameContract ==
    ASSUME plist' = plist
    PROVE  /\ \A name, pos : FirstText(name, pos)' = FirstText(name, pos)
           /\ PassphraseText' = PassphraseText /\ PassphraseStruct' = PassphraseStruct
           /\ VolumeKeyStruct' = VolumeKeyStruct /\ FamilyUuid' = FamilyUuid
  <1>1. \A name : Keys(name)' = Keys(name)
    BY SamePlist
  <1>2. \A name, pos : FirstText(name, pos)' = FirstText(name, pos)
    BY <1>1 DEF FirstText
  <1> QED
    BY <1>1, <1>2 DEF PassphraseText, PassphraseStruct, VolumeKeyStruct, VolumeKeyText,
       XtsKeys, FamilyUuid, StructOf, Decodes

LEMMA NoContract == ~WellTyped' => CInductive'
  BY DEF CInductive, SearchesKeepContract

\* A blob that reaches to the end of its last field holds every field.
LEMMA WholeIsLongEnough ==
    /\ AtLeast(PW_ITERATIONS_OFFSET + 4)
          = {t \in DOMAIN Blobs : PassphraseWhole(Blobs[t])}
    /\ AtLeast(KEK_WRAPPED_VMK_OFFSET + 24)
          = {t \in DOMAIN Blobs : VolumeKeyWhole(Blobs[t])}
  <1>1. ASSUME NEW t \in DOMAIN Blobs
        PROVE  /\ PassphraseWhole(Blobs[t]) <=> Blobs[t].len >= PW_ITERATIONS_OFFSET + 4
               /\ VolumeKeyWhole(Blobs[t]) <=> Blobs[t].len >= KEK_WRAPPED_VMK_OFFSET + 24
    <2>1. Blobs[t].len \in Nat
      BY ScanAssumption
    <2> QED
      BY <2>1 DEF PassphraseWhole, VolumeKeyWhole, Slice, PW_SALT_OFFSET,
         PW_WRAPPED_KEK_OFFSET, PW_ITERATIONS_OFFSET, KEK_WRAPPED_VMK_OFFSET
  <1> QED
    BY <1>1 DEF AtLeast

LEMMA ContractPassphrase ==
    ASSUME SInductive, CInductive, FindPassphraseStruct
    PROVE  CInductive'
  <1>. DEFINE N == "PassphraseWrappedKEKStruct"
              W == {t \in DOMAIN Blobs : PassphraseWhole(Blobs[t])}
  <1>1. /\ pc = "passphrase" /\ result = "none" /\ plist' = plist
        /\ plist \in Seq(Tokens)
        /\ DOMAIN context = {"iterations", "wrapped_vmk", "protectors", "conversion_status"}
    BY DEF SInductive, Progressed, IsContext, FindPassphraseStruct, Missing, Fail
  <1>. SUFFICES ASSUME WellTyped PROVE CInductive'
    BY <1>1, SamePlist, NoContract
  <1>2. {Text(m) : m \in extract_tagged_from(N, "data", 1)} = PassphraseText
    <2>1. TypeOfKey(N) = "data"
      BY DEF TypeOfKey
    <2>2. \A k \in Keys(N) : k > 0 <=> 1 <= k
      BY <1>1 DEF Keys
    <2> QED
      BY <1>1, <2>1, <2>2, FirstTextIsFound DEF PassphraseText
  <1>3. PassphraseStruct = StructOf(PassphraseText, W)
    BY WholeIsLongEnough DEF PassphraseStruct
  <1>. HIDE DEF N, W
  <1>4. CASE extract_data(N, 1) = None
    <2>1. pc' = "done" /\ result' = "MetadataStructureMissing"
      BY <1>4 DEF FindPassphraseStruct, Missing, Fail, N, None
    <2>2. PassphraseStruct' \in {"absent", "bad_base64"}
      BY <1>1, <1>2, <1>3, <1>4, StructFound, SameContract
    <2> QED
      BY <2>1, <2>2 DEF CInductive, SearchesKeepContract, ContextError, ExtractStruct
  <1>5. ASSUME NEW m \in extract_data(N, 1),
               IF ~PassphraseWhole(Blobs[Text(m)]) THEN Fail("OutOfRange")
               ELSE /\ context' = [context EXCEPT !.iterations = Blobs[Text(m)].iterations]
                    /\ pc' = "algorithm"
                    /\ UNCHANGED <<plist, cursor, lv, result>>
        PROVE  CInductive'
    <2>1. /\ PassphraseText = {Text(m)}
          /\ PassphraseStruct = IF PassphraseWhole(Blobs[Text(m)]) THEN "whole" ELSE "short"
      BY <1>1, <1>2, <1>3, StructFound DEF W
    <2>2. PassphraseText' = PassphraseText /\ PassphraseStruct' = PassphraseStruct
      BY <1>1, SameContract
    <2>3. CASE ~PassphraseWhole(Blobs[Text(m)])
      <3>1. pc' = "done" /\ result' = "OutOfRange" /\ PassphraseStruct' = "short"
        BY <1>5, <2>1, <2>2, <2>3 DEF Fail
      <3> QED
        BY <3>1 DEF CInductive, SearchesKeepContract, ContextError, ExtractStruct
    <2>4. CASE PassphraseWhole(Blobs[Text(m)])
      <3>1. /\ pc' = "algorithm" /\ result' = "none" /\ PassphraseStruct' = "whole"
            /\ context'.iterations = Blobs[Text(m)].iterations
        BY <1>1, <1>5, <2>1, <2>2, <2>4
      <3>2. PassphraseFound'
        BY <2>1, <2>2, <3>1 DEF PassphraseFound
      <3> QED
        BY <3>1, <3>2 DEF CInductive, SearchesKeepContract
    <2> QED
      BY <2>3, <2>4
  <1> QED
    BY <1>4, <1>5 DEF FindPassphraseStruct, N

\* The turn that finds no further algorithm: none of them is AES-XTS.
LEMMA NoAlgorithmLeft ==
    ASSUME SInductive, WellTyped, pc = "algorithm",
           extract_tagged_from("BlockAlgorithm", "string", cursor) = {}
    PROVE  VolumeKeyStruct = "absent"
  <1>. DEFINE A == Keys("BlockAlgorithm")
              S == {k \in A : cursor <= k}
  <1>1. /\ plist \in Seq(Tokens) /\ cursor \in Nat \ {0} /\ Len(plist) \in Nat
        /\ \A k \in A : k \in Nat
    BY DEF SInductive, TypeOK, Keys
  <1>2. S = {}
    <2>. SUFFICES ASSUME S # {} PROVE FALSE
      OBVIOUS
    <2>1. S \in SUBSET Nat
      BY <1>1
    <2>2. PICK k \in S : \A j \in S : k <= j
      <3>. HIDE DEF S
      <3> QED
        BY <2>1, SmallestOf
    <2>3. TypeOfKey("BlockAlgorithm") = "string"
      BY DEF TypeOfKey
    <2> QED
      BY <1>1, <2>2, <2>3, WellTypedIsFound
  <1>3. XtsKeys = {}
    BY <1>1, <1>2 DEF XtsKeys, SInductive, NoAesXtsPassed
  <1>4. VolumeKeyText = {}
    BY <1>3 DEF VolumeKeyText
  <1> QED
    BY <1>4 DEF VolumeKeyStruct, StructOf

\* The volume key is looked for behind the first AES-XTS algorithm.
LEMMA VolumeKeyIsBehind ==
    ASSUME SInductive, WellTyped, pc = "algorithm",
           NEW a \in extract_tagged_from("BlockAlgorithm", "string", cursor),
           IsAesXts(Text(a))
    PROVE  /\ Behind(a) \in Nat \ {0}
           /\ {Text(m) : m \in extract_tagged_from("KEKWrappedVolumeKeyStruct", "data", Behind(a))}
                 = VolumeKeyText
  <1>. DEFINE A == Keys("BlockAlgorithm")
              N == "KEKWrappedVolumeKeyStruct"
              i == a.open - 1
  <1>1. /\ plist \in Seq(Tokens) /\ cursor \in Nat \ {0} /\ Len(plist) \in Nat
        /\ \A k \in A : k \in Nat
        /\ \A k \in Keys(N) : k \in Nat
    BY DEF SInductive, TypeOK, Keys
  <1>2. TypeOfKey("BlockAlgorithm") = "string" /\ TypeOfKey(N) = "data"
    BY DEF TypeOfKey
  <1>3. /\ i \in A /\ cursor <= i /\ \A j \in A : cursor <= j => i <= j
        /\ a.close = a.open /\ Text(a) = plist[a.open].text
        /\ plist[a.open].tag # "key"
    BY <1>1, <1>2, WellTypedMatch
  <1>4. i \in Nat /\ i + 1 = a.open /\ Behind(a) = i + 2
    BY <1>1, <1>3, MatchBounds DEF Behind
  <1>5. \A k \in Keys(N) : k > i <=> Behind(a) <= k
    <2>1. \A k \in Keys(N) : k # i + 1
      BY <1>3, <1>4 DEF Keys, Key
    <2> QED
      BY <1>1, <1>4, <2>1
  <1>6. {Text(m) : m \in extract_tagged_from(N, "data", Behind(a))} = FirstText(N, i)
    <2>. HIDE DEF N, i
    <2> QED
      BY <1>1, <1>2, <1>4, <1>5, FirstTextIsFound
  <1>7. {b \in XtsKeys : \A c \in XtsKeys : b <= c} = {i}
    <2>1. i \in XtsKeys
      BY <1>3, <1>4 DEF XtsKeys, IsAesXts
    <2>2. \A b \in XtsKeys : b \in Nat /\ i <= b
      BY <1>1, <1>3 DEF XtsKeys, SInductive, NoAesXtsPassed
    <2>. HIDE DEF i
    <2>3. ASSUME NEW b \in XtsKeys, \A c \in XtsKeys : b <= c PROVE b = i
      <3>1. b \in Nat /\ i \in Nat /\ b <= i /\ i <= b
        BY <1>4, <2>1, <2>2, <2>3
      <3> QED
        BY <3>1
    <2> QED
      BY <2>1, <2>2, <2>3
  <1>8. VolumeKeyText = FirstText(N, i)
    <2>. HIDE DEF i
    <2> QED
      BY <1>7 DEF VolumeKeyText
  <1> QED
    BY <1>4, <1>6, <1>8

LEMMA ContractAlgorithm ==
    ASSUME SInductive, CInductive, ScanAlgorithm
    PROVE  CInductive'
  <1>. DEFINE N == "KEKWrappedVolumeKeyStruct"
              W == {t \in DOMAIN Blobs : VolumeKeyWhole(Blobs[t])}
  <1>1. /\ pc = "algorithm" /\ result = "none" /\ plist' = plist
        /\ plist \in Seq(Tokens)
        /\ DOMAIN context = {"iterations", "wrapped_vmk", "protectors", "conversion_status"}
    BY DEF SInductive, Progressed, IsContext, ScanAlgorithm, TakeVolumeKey, Missing, Fail
  <1>. SUFFICES ASSUME WellTyped PROVE CInductive'
    BY <1>1, SamePlist, NoContract
  <1>2. /\ PassphraseFound
        /\ PassphraseText' = PassphraseText /\ PassphraseStruct' = PassphraseStruct
        /\ VolumeKeyStruct' = VolumeKeyStruct
    BY <1>1, SameContract DEF CInductive
  <1>3. context'.iterations = context.iterations => PassphraseFound'
    BY <1>2 DEF PassphraseFound
  <1>4. ASSUME Fail("MetadataStructureMissing"),
               VolumeKeyStruct \in {"absent", "bad_base64"}
        PROVE  CInductive'
    BY <1>2, <1>4 DEF Fail, CInductive, SearchesKeepContract, ContextError,
       ExtractStruct, PassphraseFound
  <1>5. ASSUME Fail("OutOfRange"), VolumeKeyStruct = "short"
        PROVE  CInductive'
    BY <1>2, <1>5 DEF Fail, CInductive, SearchesKeepContract, ContextError,
       ExtractStruct, PassphraseFound
  <1>6. CASE extract_tagged_from("BlockAlgorithm", "string", cursor) = {}
    BY <1>1, <1>4, <1>6, NoAlgorithmLeft DEF ScanAlgorithm, Missing, None
  <1>7. CASE extract_tagged_from("BlockAlgorithm", "string", cursor) # {}
    <2>1. PICK a \in extract_tagged_from("BlockAlgorithm", "string", cursor) :
              IF IsAesXts(Text(a)) THEN TakeVolumeKey(Behind(a))
              ELSE /\ cursor' = Behind(a)
                   /\ UNCHANGED <<plist, pc, context, lv, result>>
      BY <1>7 DEF ScanAlgorithm, None
    <2>2. CASE ~IsAesXts(Text(a))
      BY <1>1, <1>3, <2>1, <2>2 DEF CInductive, SearchesKeepContract
    <2>3. CASE IsAesXts(Text(a))
      <3>1. TakeVolumeKey(Behind(a))
        BY <2>1, <2>3
      <3>2. /\ Behind(a) \in Nat \ {0}
            /\ {Text(m) : m \in extract_tagged_from(N, "data", Behind(a))} = VolumeKeyText
        BY <1>1, <2>3, VolumeKeyIsBehind
      <3>3. VolumeKeyStruct = StructOf(VolumeKeyText, W)
        BY WholeIsLongEnough DEF VolumeKeyStruct
      <3>. HIDE DEF N, W
      <3>4. CASE extract_data(N, Behind(a)) = None
        <4>1. VolumeKeyStruct \in {"absent", "bad_base64"}
          BY <1>1, <3>2, <3>3, <3>4, StructFound
        <4> QED
          BY <1>4, <3>1, <3>4, <4>1 DEF TakeVolumeKey, Missing, N, None
      <3>5. ASSUME NEW k \in extract_data(N, Behind(a)),
                   IF ~VolumeKeyWhole(Blobs[Text(k)]) THEN Fail("OutOfRange")
                   ELSE /\ context' = [context EXCEPT !.wrapped_vmk = k.open]
                        /\ pc' = "protectors"
                        /\ cursor' = 1
                        /\ UNCHANGED <<plist, lv, result>>
            PROVE  CInductive'
        <4>1. VolumeKeyStruct
                 = IF VolumeKeyWhole(Blobs[Text(k)]) THEN "whole" ELSE "short"
          BY <1>1, <3>2, <3>3, StructFound DEF W
        <4>2. CASE ~VolumeKeyWhole(Blobs[Text(k)])
          BY <1>5, <3>5, <4>1, <4>2
        <4>3. CASE VolumeKeyWhole(Blobs[Text(k)])
          <5>1. /\ pc' = "protectors" /\ result' = "none"
                /\ context'.iterations = context.iterations
            BY <1>1, <3>5, <4>3
          <5> QED
            BY <1>2, <1>3, <4>1, <4>3, <5>1 DEF CInductive, SearchesKeepContract
        <4> QED
          BY <4>2, <4>3
      <3> QED
        BY <3>1, <3>4, <3>5 DEF TakeVolumeKey, N
    <2> QED
      BY <2>2, <2>3
  <1> QED
    BY <1>6, <1>7

\* The size reported is that of the first size in the plist.
LEMMA SizeIsTheFirst ==
    ASSUME plist \in Seq(Tokens), WellTyped
    PROVE  extract_lv_size = Max({0} \cup {Numerals[t] : t \in
              {t \in FirstText("com.apple.corestorage.lv.size", 0) :
                  t \in DOMAIN Numerals /\ Numerals[t] <= U64Max}})
  <1>. DEFINE N == "com.apple.corestorage.lv.size"
              S == extract_tagged_from(N, "integer", 1)
              T == FirstText(N, 0)
              IsU64(t) == t \in DOMAIN Numerals /\ Numerals[t] <= U64Max
  <1>1. {Text(m) : m \in S} = T
    <2>1. TypeOfKey(N) = "integer"
      BY DEF TypeOfKey
    <2>2. \A k \in Keys(N) : k > 0 <=> 1 <= k
      BY DEF Keys
    <2>. HIDE DEF N
    <2> QED
      BY <2>1, <2>2, FirstTextIsFound
  <1>2. extract_integer_from(N, 1, U64Max) = {m \in S : IsU64(Text(m))}
    BY DEF extract_integer_from
  <1>. HIDE DEF S, T, IsU64
  <1>3. {Numerals[Text(m)] : m \in {m \in S : IsU64(Text(m))}}
           = {Numerals[t] : t \in {t \in T : IsU64(t)}}
    BY <1>1
  <1>4. extract_lv_size = Max({0} \cup {Numerals[t] : t \in {t \in T : IsU64(t)}})
    BY <1>2, <1>3 DEF extract_lv_size
  <1> QED
    BY <1>4 DEF T, IsU64

LEMMA ContractVolumeInfo ==
    ASSUME SInductive, CInductive, FindVolumeInfo
    PROVE  CInductive'
  <1>. DEFINE N == "com.apple.corestorage.lv.familyUUID"
  <1>1. /\ pc = "volume_info" /\ pc' = "done" /\ plist' = plist /\ context' = context
        /\ plist \in Seq(Tokens)
    BY DEF SInductive, FindVolumeInfo, Missing, Fail
  <1>. SUFFICES ASSUME WellTyped PROVE CInductive'
    BY <1>1, SamePlist, NoContract
  <1>2. /\ PassphraseFound /\ VolumeKeyStruct = "whole"
        /\ \A name, pos : FirstText(name, pos)' = FirstText(name, pos)
        /\ PassphraseText' = PassphraseText /\ PassphraseStruct' = PassphraseStruct
        /\ VolumeKeyStruct' = VolumeKeyStruct /\ FamilyUuid' = FamilyUuid
    BY <1>1, SameContract DEF CInductive
  <1>3. PassphraseFound'
    BY <1>1, <1>2 DEF PassphraseFound
  <1>4. {Text(m) : m \in extract_tagged_from(N, "string", 1)} = FirstText(N, 0)
    <2>1. TypeOfKey(N) = "string"
      BY DEF TypeOfKey
    <2>2. \A k \in Keys(N) : k > 0 <=> 1 <= k
      BY <1>1 DEF Keys
    <2>. HIDE DEF N
    <2> QED
      BY <1>1, <2>1, <2>2, FirstTextIsFound
  <1>5. extract_string(N) = None <=> FamilyUuid = "absent"
    BY <1>4 DEF extract_string, FamilyUuid, None
  <1>6. ContextError(PassphraseStruct, VolumeKeyStruct, FamilyUuid)'
           = IF FamilyUuid = "absent" THEN "MetadataStructureMissing" ELSE "none"
    BY <1>2 DEF ContextError, ExtractStruct, PassphraseFound
  <1>7. CASE extract_string(N) = None
    <2>1. result' = "MetadataStructureMissing"
      BY <1>7 DEF FindVolumeInfo, Missing, Fail
    <2> QED
      BY <1>1, <1>5, <1>6, <1>7, <2>1 DEF CInductive, SearchesKeepContract
  <1>8. CASE extract_string(N) # None
    <2>1. result' = "ok" /\ lv'.size = extract_lv_size
      BY <1>8 DEF FindVolumeInfo
    <2>2. lv'.size = Max({0} \cup {Numerals[t] : t \in
              {t \in FirstText("com.apple.corestorage.lv.size", 0)' :
                  t \in DOMAIN Numerals /\ Numerals[t] <= U64Max}})
      BY <1>1, <1>2, <2>1, SizeIsTheFirst
    <2>3. SearchesKeepContract'
      BY <1>3, <1>5, <1>6, <1>8, <2>1, <2>2 DEF SearchesKeepContract, PassphraseFound
    <2> QED
      BY <1>1, <1>2, <1>3, <2>3 DEF CInductive
  <1> QED
    BY <1>7, <1>8

\* The searches in between leave everything the contract is about alone.
LEMMA ContractOthers ==
    ASSUME SInductive, CInductive, ScanProtector \/ FindStatus \/ UNCHANGED vars
    PROVE  CInductive'
  <1>1. DOMAIN context = {"iterations", "wrapped_vmk", "protectors", "conversion_status"}
    BY DEF SInductive, IsContext
  <1>2. /\ plist' = plist /\ lv' = lv /\ result' = result
        /\ context'.iterations = context.iterations
    BY <1>1 DEF ScanProtector, FindStatus, vars
  <1>3. \/ pc \in {"protectors", "status"} /\ pc' \in {"protectors", "status", "volume_info"}
        \/ pc' = pc
    BY DEF ScanProtector, FindStatus, vars
  <1>4. WellTyped' = WellTyped
    BY <1>2, SamePlist
  <1>5. PassphraseFound => PassphraseFound'
    BY <1>2, SameContract DEF PassphraseFound
  <1>6. VolumeKeyStruct' = VolumeKeyStruct
    BY <1>2, SameContract
  <1>7. pc' = "done" => SearchesKeepContract'
    <2>. SUFFICES ASSUME pc' = "done", WellTyped PROVE SearchesKeepContract'
      BY <1>4 DEF SearchesKeepContract
    <2>1. pc = "done"
      BY <1>3
    <2>2. FirstText("com.apple.corestorage.lv.size", 0)'
             = FirstText("com.apple.corestorage.lv.size", 0)
      BY <1>2, SameContract
    <2>3. /\ PassphraseText' = PassphraseText /\ PassphraseStruct' = PassphraseStruct
          /\ FamilyUuid' = FamilyUuid
      BY <1>2, SameContract
    <2> QED
      BY <1>2, <1>6, <2>1, <2>2, <2>3 DEF CInductive, SearchesKeepContract
  <1>8. SearchesKeepContract'
    BY <1>7 DEF SearchesKeepContract
  <1> QED
    BY <1>2, <1>3, <1>4, <1>5, <1>6, <1>8 DEF CInductive

\* The searches in a well typed plist keep to the contract that module Unlock
\* has with them.
THEOREM ScanKeepsContract == Spec => []SearchesKeepContract
  <1>1. Init => CInductive
    BY DEF Init, CInductive, SearchesKeepContract
  <1>2. SInductive /\ CInductive /\ [Next]_vars => CInductive'
    BY ContractPassphrase, ContractAlgorithm, ContractVolumeInfo, ContractOthers DEF Next
  <1>3. CInductive => SearchesKeepContract
    BY DEF CInductive
  <1> QED
    BY <1>1, <1>2, <1>3, ScanInvariant, PTL DEF Spec
================================================================================
