----------------------------- MODULE MCPlistScan -----------------------------
(***************************************************************************)
(* Plists of up to three entries behind a passphrase struct, each entry a  *)
(* key with an element, in any order and with any of them repeated,        *)
(* missing, damaged, unclosed or of the wrong type; and whole contexts     *)
(* with up to three users and other entries behind or before them.         *)
(***************************************************************************)
EXTENDS PlistScan, SequencesExt

\* Decoded lengths on both sides of every field's end and of the cap.
MCBlobs == [blob |-> [len |-> 284, iterations |-> 90506],
            weak |-> [len |-> 172, iterations |-> 19999],
            floor |-> [len |-> 284, iterations |-> 20000],
            zero |-> [len |-> 284, iterations |-> 0],
            vmk_only |-> [len |-> 32, iterations |-> 0],
            short |-> [len |-> 31, iterations |-> 0],
            cut |-> [len |-> 171, iterations |-> 0],
            long |-> [len |-> 3073, iterations |-> 0]]

MCNumerals == [password |-> 268435457, recovery |-> 268435465,
               keychain |-> 268435461, certificate |-> 268435471,
               other |-> 0, huge |-> 1073741824]

LV(field) == "com.apple.corestorage.lv." \o field

Entry(name, tag, text) == <<Key(name), Element(tag, text)>>
Open(name, tag, text) == <<Key(name), Unclosed(tag, text)>>

Passphrases == {Entry("PassphraseWrappedKEKStruct", "data", x) :
                   x \in {"blob", "short", "cut", "long"}}
    \cup {Open("PassphraseWrappedKEKStruct", "data", "blob")}

Entries == {Entry("BlockAlgorithm", "string", x) : x \in {"AES-XTS", "None"}}
    \cup {Entry("KEKWrappedVolumeKeyStruct", "data", x) :
             x \in {"vmk_only", "short", "bad"}}
    \cup {Entry("UserType", "integer", x) : x \in {"password", "recovery", "huge"}}
    \cup {Entry("UserType", "string", "text"), Open("UserType", "integer", "password"),
          Open("BlockAlgorithm", "string", "AES-XTS"),
          Entry(LV("familyUUID"), "string", "uuid"),
          Entry(LV("familyUUID"), "string", "latin1"),
          Entry("ConversionStatus", "string", "Complete")}

Context(pw) == Entry("PassphraseWrappedKEKStruct", "data", pw)
    \o Entry("BlockAlgorithm", "string", "AES-XTS")
    \o Entry("KEKWrappedVolumeKeyStruct", "data", "blob")
    \o Entry(LV("familyUUID"), "string", "uuid")

ThreeUsers ==
    {Context("blob") \o Entry("UserType", "integer", a)
        \o Entry("UserType", "integer", b) \o Entry("UserType", "integer", c) :
        a, b, c \in {"password", "recovery", "huge"}}

\* A `None' algorithm with its key, behind an AES-XTS one that has none.
NoneBehindXts ==
    {Entry("PassphraseWrappedKEKStruct", "data", "blob")
        \o Entry("BlockAlgorithm", "string", "AES-XTS")
        \o Entry("BlockAlgorithm", "string", "None")
        \o Entry("KEKWrappedVolumeKeyStruct", "data", "vmk_only")}

\* What may stand behind a context, or before it.
Tails == {Entry("UserType", "integer", x) : x \in DOMAIN MCNumerals}
    \cup {Entry("ConversionStatus", "string", x) : x \in {"Complete", "latin1"}}
    \cup {Entry(LV("size"), "integer", x) : x \in {"huge", "text"}}
    \cup {Open("UserType", "integer", "password"), Entry(LV("name"), "string", "lv"),
          Open("ConversionStatus", "string", "Complete"),
          Entry(LV("uuid"), "string", "uuid")}

Contexts == {Context("blob") \o FlattenSeq(s) : s \in SeqOf(Tails, 3)}
    \cup {FlattenSeq(s) \o Context(pw) :
             s \in SeqOf(Tails, 2), pw \in {"weak", "floor", "zero"}}

MCPlists == {p \o FlattenSeq(s) : p \in Passphrases, s \in SeqOf(Entries, 3)}
    \cup {FlattenSeq(s) : s \in SeqOf(Entries, 1)}
    \cup ThreeUsers \cup Contexts
=============================================================================
