------------------------------ MODULE PlistScan ------------------------------
(***************************************************************************)
(* core/src/context.rs: EncryptionContext::extract and then                *)
(* LogicalVolumeInfo::extract over decrypted metadata.  The code does not  *)
(* parse the plist, it searches it: for a key, then for the next opening   *)
(* tag of the wanted type, then for the next closing tag of that type,     *)
(* wherever those are.                                                     *)
(*                                                                         *)
(* The metadata is a sequence of tokens: <key>NAME</key> and the typed     *)
(* elements, each with its text and possibly without its closing tag.  A   *)
(* text is a name from a small set; the constants say which of them are    *)
(* base64, integers or no UTF-8, and what they decode to.                  *)
(***************************************************************************)
EXTENDS Integers, Sequences, FiniteSetsExt, FileVaultError, ContextContract

CONSTANTS Plists,         \* the token sequences
          Blobs,          \* of a base64 text: its decoded length and, as a
                          \* passphrase struct, its iteration count
          Numerals,       \* of a decimal or hexadecimal text: its value
          NotUtf8,        \* texts that are no UTF-8
          U32Max, U64Max, \* the largest values of those types
          MaxProtectors   \* 64 in the code

Markup == "markup"        \* a text that runs over other tags
None == {}                \* an Option is a set of at most one element

Tokens == [tag : STRING, text : STRING, closed : BOOLEAN]

ASSUME ScanAssumption ==
    /\ Plists \subseteq Seq(Tokens)
    /\ \A text \in DOMAIN Blobs : /\ Blobs[text].len \in Nat
                                 /\ Blobs[text].iterations \in 0 .. U32Max
    /\ \A text \in DOMAIN Numerals : Numerals[text] \in Nat
    /\ MaxProtectors \in Nat \ {0}
    /\ U32Max \in Nat /\ U64Max \in Nat
    /\ Markup \notin DOMAIN Blobs \cup DOMAIN Numerals
    /\ NotUtf8 \cap DOMAIN Numerals = {}

Key(name) == [tag |-> "key", text |-> name, closed |-> TRUE]
Element(tag, text) == [tag |-> tag, text |-> text, closed |-> TRUE]
Unclosed(tag, text) == [tag |-> tag, text |-> text, closed |-> FALSE]

VARIABLES plist,     \* the metadata; it does not change
          pc,        \* the search that comes next
          cursor,    \* where the loop in progress goes on
          context,   \* EncryptionContext, as far as it was found
          lv,        \* LogicalVolumeInfo
          result     \* "none" yet, "ok" or an error

vars == <<plist, pc, cursor, context, lv, result>>

NoContext == [iterations |-> 0, wrapped_vmk |-> 0, protectors |-> <<>>,
              conversion_status |-> None]
NoVolume == [size |-> 0, family_uuid |-> None, lv_identifier |-> None, name |-> None]

Init == /\ plist \in Plists
        /\ pc = "passphrase"
        /\ cursor = 1
        /\ context = NoContext
        /\ lv = NoVolume
        /\ result = "none"
-----------------------------------------------------------------------------
\* find_sub: the first token from `from' on that satisfies P.
First(from, P(_)) ==
    {i \in from .. Len(plist) : /\ P(plist[i])
                                /\ \A j \in from .. i - 1 : ~P(plist[j])}

\* The opening tag of the element searched for, and the closing tag that is
\* taken for its own.
extract_tagged_from(name, tag, from) ==
    UNION {UNION {{[open |-> o, close |-> c] :
        c \in First(o, LAMBDA t : t.tag = tag /\ t.closed)} :
        o \in First(k + 1, LAMBDA t : t.tag = tag)} :
        k \in First(from, LAMBDA t : t = Key(name))}

Text(m) == IF m.open = m.close THEN plist[m.open].text ELSE Markup

\* Mutant: the search starts again at the key just found.
Behind_same_key(m) == m.open - 1

\* The cursor behind a match.
Behind(m) == m.close + 1

MAX_BASE64_BLOB == 4096
EncodedLen(n) == 4 * ((n + 2) \div 3)

\* A blob that is too long or does not decode counts as absent.
Decodes(text) == /\ text \in DOMAIN Blobs
                 /\ EncodedLen(Blobs[text].len) <= MAX_BASE64_BLOB

extract_data(name, from) ==
    {m \in extract_tagged_from(name, "data", from) : Decodes(Text(m))}

\* Mutant: the search goes on where the last loop stopped.
extract_string_onwards(name) ==
    {Text(m) : m \in extract_tagged_from(name, "string", cursor)} \ NotUtf8

extract_string(name) ==
    {Text(m) : m \in extract_tagged_from(name, "string", 1)} \ NotUtf8

extract_integer_from(name, from, max) ==
    {m \in extract_tagged_from(name, "integer", from) :
        Text(m) \in DOMAIN Numerals /\ Numerals[Text(m)] <= max}

\* An absent size is 0.
extract_lv_size ==
    LET found == extract_integer_from("com.apple.corestorage.lv.size", 1, U64Max)
    IN  Max({0} \cup {Numerals[Text(m)] : m \in found})

\* ProtectorKind::from_user_type and label
from_user_type(code) ==
    CASE code = 268435457 -> "password"                    \* 0x10000001
      [] code = 268435465 -> "recovery"                    \* 0x10000009
      [] code \in {268435461, 268435471} -> "institutional" \* ..05, ..0f
      [] OTHER -> "unknown"
-----------------------------------------------------------------------------
PW_SALT_OFFSET == 8
PW_WRAPPED_KEK_OFFSET == 32
PW_ITERATIONS_OFFSET == 168
KEK_WRAPPED_VMK_OFFSET == 8

\* slice16, slice24 and read_u32_le: n bytes at off, if the blob has them.
Slice(blob, off, n) == off + n <= blob.len

Fail(e) == /\ pc' = "done"
           /\ result' = e
           /\ UNCHANGED <<plist, cursor, context, lv>>

Missing == Fail("MetadataStructureMissing")

\* Mutant: a blob without an iteration count is taken to have a count of 0.
PassphraseWhole_no_count(pw) == /\ Slice(pw, PW_SALT_OFFSET, 16)
                                /\ Slice(pw, PW_WRAPPED_KEK_OFFSET, 24)

\* The blobs hold every field that is read from them.
PassphraseWhole(pw) == /\ Slice(pw, PW_SALT_OFFSET, 16)
                       /\ Slice(pw, PW_WRAPPED_KEK_OFFSET, 24)
                       /\ Slice(pw, PW_ITERATIONS_OFFSET, 4)

VolumeKeyWhole(vk) == Slice(vk, KEK_WRAPPED_VMK_OFFSET, 24)

FindPassphraseStruct ==
    LET found == extract_data("PassphraseWrappedKEKStruct", 1)
    IN  /\ pc = "passphrase"
        /\ \/ found = None /\ Missing
           \/ \E m \in found :
                 IF ~PassphraseWhole(Blobs[Text(m)]) THEN Fail("OutOfRange")
                 ELSE /\ context' = [context EXCEPT
                                       !.iterations = Blobs[Text(m)].iterations]
                      /\ pc' = "algorithm"
                      /\ UNCHANGED <<plist, cursor, lv, result>>

\* Mutant: the first wrapped volume key is taken, whatever its algorithm.
IsAesXts_any(text) == TRUE

IsAesXts(text) == text = "AES-XTS"

\* The blob behind the AES-XTS marker.
TakeVolumeKey(from) ==
    LET found == extract_data("KEKWrappedVolumeKeyStruct", from)
    IN  \/ found = None /\ Missing
        \/ \E k \in found :
              IF ~VolumeKeyWhole(Blobs[Text(k)]) THEN Fail("OutOfRange")
              ELSE /\ context' = [context EXCEPT !.wrapped_vmk = k.open]
                   /\ pc' = "protectors"
                   /\ cursor' = 1
                   /\ UNCHANGED <<plist, lv, result>>

\* extract_kek_wrapped_aes_xts, one turn of its loop.
ScanAlgorithm ==
    LET found == extract_tagged_from("BlockAlgorithm", "string", cursor)
    IN  /\ pc = "algorithm"
        /\ \/ found = None /\ Missing
           \/ \E a \in found :
                 IF IsAesXts(Text(a)) THEN TakeVolumeKey(Behind(a))
                 ELSE /\ cursor' = Behind(a)
                      /\ UNCHANGED <<plist, pc, context, lv, result>>

\* Mutant: one protector too many.
CapReached_late(n) == n > MaxProtectors

CapReached(n) == n >= MaxProtectors

Protector(code) == [user_type |-> code, kind |-> from_user_type(code)]

\* extract_protectors, one turn of its loop.
ScanProtector ==
    LET found == extract_integer_from("UserType", cursor, U32Max)
    IN  /\ pc = "protectors"
        /\ \/ found = None /\ pc' = "status" /\ UNCHANGED <<cursor, context>>
           \/ \E m \in found :
                 /\ context' = [context EXCEPT !.protectors =
                                   Append(@, Protector(Numerals[Text(m)]))]
                 /\ cursor' = Behind(m)
                 /\ pc' = IF CapReached(Len(context'.protectors)) THEN "status"
                          ELSE "protectors"
        /\ UNCHANGED <<plist, lv, result>>

FindStatus ==
    /\ pc = "status"
    /\ context' = [context EXCEPT
                      !.conversion_status = extract_string("ConversionStatus")]
    /\ pc' = "volume_info"
    /\ UNCHANGED <<plist, cursor, lv, result>>

\* LogicalVolumeInfo::extract: only the family UUID must be there.
FindVolumeInfo ==
    LET uuid == extract_string("com.apple.corestorage.lv.familyUUID")
    IN  /\ pc = "volume_info"
        /\ IF uuid = None THEN Missing
           ELSE /\ lv' = [size |-> extract_lv_size, family_uuid |-> uuid,
                   lv_identifier |-> extract_string("com.apple.corestorage.lv.uuid"),
                   name |-> extract_string("com.apple.corestorage.lv.name")]
                /\ pc' = "done"
                /\ result' = "ok"
                /\ UNCHANGED <<plist, cursor, context>>

Next == \/ FindPassphraseStruct \/ ScanAlgorithm \/ ScanProtector
        \/ FindStatus \/ FindVolumeInfo

Spec == Init /\ [][Next]_vars /\ WF_vars(Next)
-----------------------------------------------------------------------------
TypeOK ==
    /\ pc \in {"passphrase", "algorithm", "protectors", "status",
               "volume_info", "done"}
    /\ cursor \in 1 .. Len(plist) + 1
    /\ context.wrapped_vmk \in 0 .. Len(plist)
    /\ context.iterations \in 0 .. U32Max
    /\ Len(context.protectors) <= MaxProtectors
    /\ lv.size \in 0 .. U64Max
    /\ result \in Errors \cup {"none", "ok"}

\* Every key is directly followed by an element of the type it is read as.
TypeOfKey(name) ==
    CASE name \in {"PassphraseWrappedKEKStruct", "KEKWrappedVolumeKeyStruct"} -> "data"
      [] name \in {"UserType", "com.apple.corestorage.lv.size"} -> "integer"
      [] OTHER -> "string"

WellTyped == \A i \in DOMAIN plist :
                /\ plist[i].closed
                /\ plist[i].tag = "key" =>
                      /\ i < Len(plist)
                      /\ plist[i + 1].tag = TypeOfKey(plist[i].text)

Keys(name) == {i \in DOMAIN plist : plist[i] = Key(name)}

\* A UserType element that the scan can list.
IsU32(text) == text \in DOMAIN Numerals /\ Numerals[text] <= U32Max

(***************************************************************************)
(* In a plist whose elements have the types of their keys, the volume key  *)
(* taken is the first one behind the first AES-XTS algorithm: none from    *)
(* before it, so not that of a `None' algorithm listed first, and none     *)
(* from further on.  What may stand between the two is not said here, see  *)
(* VolumeKeyFollowsItsAlgorithm.                                           *)
(***************************************************************************)
VolumeKeyIsAesXts ==
    LET vmk == context.wrapped_vmk
    IN  (WellTyped /\ vmk # 0) =>
        /\ plist[vmk - 1] = Key("KEKWrappedVolumeKeyStruct")
        /\ \E a \in Keys("BlockAlgorithm") :
              /\ a < vmk
              /\ plist[a + 1].text = "AES-XTS"
              /\ \A b \in Keys("BlockAlgorithm") :
                    b < a => plist[b + 1].text # "AES-XTS"
              /\ \A k \in Keys("KEKWrappedVolumeKeyStruct") :
                    k > a => vmk - 1 <= k

(***************************************************************************)
(* extract_kek_wrapped_aes_xts takes the struct `whose preceding           *)
(* BlockAlgorithm is AES-XTS': the last algorithm before the volume key    *)
(* taken is AES-XTS.                                                       *)
(***************************************************************************)
VolumeKeyFollowsItsAlgorithm ==
    LET vmk == context.wrapped_vmk
        before == {a \in Keys("BlockAlgorithm") : a < vmk}
    IN  (WellTyped /\ vmk # 0) =>
        \E a \in before : /\ plist[a + 1].text = "AES-XTS"
                          /\ \A b \in before : b <= a

(***************************************************************************)
(* Whatever the plist, no UserType key is reported twice.  In a well typed *)
(* one the protectors are the UserType values in their order, up to the    *)
(* first that does not parse and to the cap: none skipped, no value of     *)
(* another key.                                                            *)
(***************************************************************************)
ProtectorsInOrder ==
    LET found == context.protectors
    IN  /\ Len(found) <= Cardinality(Keys("UserType"))
        /\ (WellTyped /\ (pc \in {"status", "volume_info"} \/ result = "ok")) =>
           /\ \E f \in [DOMAIN found -> Keys("UserType")] :
                 \A n \in DOMAIN found :
                    /\ found[n].user_type = Numerals[plist[f[n] + 1].text]
                    /\ Cardinality({k \in Keys("UserType") : k < f[n]}) = n - 1
           /\ Len(found) < Cardinality(Keys("UserType"))
                 => \/ Len(found) = MaxProtectors
                    \/ \E k \in Keys("UserType") :
                          /\ ~IsU32(plist[k + 1].text)
                          /\ Cardinality({j \in Keys("UserType") : j < k}) = Len(found)

(***************************************************************************)
(* extract_protectors works `by scanning every UserType integer': each one *)
(* that parses is listed.                                                  *)
(***************************************************************************)
EveryUserTypeIsListed ==
    (WellTyped /\ result = "ok") =>
        \A k \in Keys("UserType") : IsU32(plist[k + 1].text) =>
            \E n \in DOMAIN context.protectors :
                context.protectors[n].user_type = Numerals[plist[k + 1].text]

\* The text of the first key of this name behind a position, if there is one.
FirstText(name, pos) ==
    {plist[k + 1].text : k \in {k \in Keys(name) :
        k > pos /\ \A j \in Keys(name) : j > pos => k <= j}}

\* The texts of blobs that reach this far.
AtLeast(n) == {t \in DOMAIN Blobs : Blobs[t].len >= n}

\* What the text of a wrapped key struct is in the words of ContextContract.
StructOf(text, whole) ==
    IF text = {} THEN "absent"
    ELSE IF \A t \in text : ~Decodes(t) THEN "bad_base64"
    ELSE IF text \cap whole = {} THEN "short"
    ELSE "whole"

PassphraseText == FirstText("PassphraseWrappedKEKStruct", 0)

PassphraseStruct ==
    StructOf(PassphraseText, AtLeast(PW_ITERATIONS_OFFSET + 4))

\* The volume key behind the first AES-XTS algorithm.
XtsKeys == {a \in Keys("BlockAlgorithm") : plist[a + 1].text = "AES-XTS"}

VolumeKeyText == UNION {FirstText("KEKWrappedVolumeKeyStruct", a) :
                           a \in {a \in XtsKeys : \A b \in XtsKeys : a <= b}}

VolumeKeyStruct ==
    StructOf(VolumeKeyText, AtLeast(KEK_WRAPPED_VMK_OFFSET + 24))

FamilyUuid ==
    IF FirstText("com.apple.corestorage.lv.familyUUID", 0) \subseteq NotUtf8
    THEN "absent" ELSE "present"

(***************************************************************************)
(* The searches in a well typed plist keep to the contract that unlocking  *)
(* counts on: they fail for the reason it says, or find the iteration      *)
(* count and the size of the first keys of their names, whatever stands    *)
(* before, between and behind those.                                       *)
(***************************************************************************)
SearchesKeepContract ==
    (WellTyped /\ pc = "done") =>
        LET error == ContextError(PassphraseStruct, VolumeKeyStruct, FamilyUuid)
        IN  /\ result = IF error = "none" THEN "ok" ELSE error
            /\ result = "ok" =>
                  /\ {context.iterations} = {Blobs[t].iterations : t \in PassphraseText}
                  /\ lv.size = Max({0} \cup {Numerals[t] : t \in
                        {t \in FirstText("com.apple.corestorage.lv.size", 0) :
                            t \in DOMAIN Numerals /\ Numerals[t] <= U64Max}})

\* No search is made more often than the plist is long.
TurnsLeft ==
    LET ahead == Len(plist) + 1 - cursor
    IN  CASE pc = "passphrase" -> 2 * Len(plist) + 5
          [] pc = "algorithm" -> Len(plist) + 4 + ahead
          [] pc = "protectors" -> 3 + ahead
          [] pc = "status" -> 2
          [] pc = "volume_info" -> 1
          [] pc = "done" -> 0

(***************************************************************************)
(* Every turn of every loop is one towards the end, whatever the plist: a  *)
(* turn that finds something takes the cursor behind it, and no search     *)
(* goes back to an earlier one.  An extraction takes at most 2 * Len + 5   *)
(* turns.                                                                  *)
(***************************************************************************)
EveryTurnAdvances == [][TurnsLeft' \in 0 .. TurnsLeft - 1]_vars

\* The searches end: every turn of a loop takes the cursor further.
ScanEnds == <>(pc = "done")
=============================================================================
