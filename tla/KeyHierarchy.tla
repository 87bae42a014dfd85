---------------------------- MODULE KeyHierarchy ----------------------------
(***************************************************************************)
(* core/src/unlock.rs with symbolic cryptography.  A key is a term, a      *)
(* wrapped key is a pair of the wrapping and the wrapped key; the RFC 3394 *)
(* integrity check refuses every other wrapping key.  Two different terms  *)
(* are two different keys: PBKDF2 and SHA-256 do not collide.              *)
(***************************************************************************)
EXTENDS Integers

NoKey == <<>>

\* The term of a key drawn at random when the volume was made.
FreshKey(name) == <<"fresh", name>>

Wrapped(by, key) == [by |-> by, key |-> key]

\* A wrapped key that was damaged: no key unwraps it.
Damaged == [by |-> <<"none">>, key |-> NoKey]

\* PBKDF2; a count of zero is taken as one.
passphrase_key(password, salt, iterations) ==
    <<"pbkdf2", password, salt, IF iterations < 1 THEN 1 ELSE iterations>>

\* RFC 3394 key unwrap: the key, or NoKey when the integrity check fails.
aes_kw_unwrap(kek, wrapped) == IF wrapped.by = kek THEN wrapped.key ELSE NoKey

\* The tweak key: SHA-256 of the volume key and the family UUID.
TweakKey(vmk, family_uuid) == <<"sha256", vmk, family_uuid>>

\* Mutant: the volume key is unwrapped without looking at the first check.
derive_volume_keys_unchecked(password, context, family_uuid) ==
    LET vmk == context.wrapped_vmk.key
    IN  [ok |-> TRUE, vmk |-> vmk, tweak_key |-> TweakKey(vmk, family_uuid)]

derive_volume_keys(password, context, family_uuid) ==
    LET pk == passphrase_key(password, context.salt, context.iterations)
        kek == aes_kw_unwrap(pk, context.wrapped_kek)
        vmk == aes_kw_unwrap(kek, context.wrapped_vmk)
    IN  IF kek = NoKey \/ vmk = NoKey
        THEN [ok |-> FALSE, vmk |-> NoKey, tweak_key |-> NoKey]
        ELSE [ok |-> TRUE, vmk |-> vmk, tweak_key |-> TweakKey(vmk, family_uuid)]
=============================================================================
