--------------------------- MODULE EncryptionLayer ---------------------------
(***************************************************************************)
(* core/src/vfs.rs: FileVaultLayer::open, which tries the credentials it   *)
(* is offered one after the other, each by a whole unlock over a reader of *)
(* its own, any read of which may fail.                                    *)
(***************************************************************************)
EXTENDS Unlock

CONSTANT Offers    \* sequences of credentials that a CredentialSource returns

VARIABLES cands,    \* the candidates of the call in progress
          next,     \* index of the candidate to be tried
          last_err, \* error of the last unlock, "none" before the first
          layer,    \* "idle", "loop", "unlocking"
          answer,   \* what open returned: "none" yet, "opened" for Ok,
                    \* "NeedCredentials", the detail of a VfsError::Decode,
                    \* or "panic" where it did not return
          faults    \* has a read failed for no reason of the image's?

lvars == <<cands, next, last_err, layer, answer, faults>>
vars == <<uvars, lvars>>

Password(p) == [kind |-> "password", value |-> p]
OtherCredential == [kind |-> "other", value |-> "token"]

Credentials == {Password(p) : p \in Passwords} \cup {OtherCredential}

ASSUME OfferAssumption == \A offer \in Offers : offer \in Seq(Credentials)

LInit == /\ UInit
         /\ cands = <<>>
         /\ next = 1
         /\ last_err = "none"
         /\ layer = "idle"
         /\ answer = "none"
         /\ faults = FALSE

\* Mutant: the loop goes on where the last call's loop ended.
Open_keeps_next(offer) ==
    /\ layer = "idle"
    /\ cands' = offer
    /\ last_err' = "none"
    /\ faults' = FALSE
    /\ IF offer = <<>> THEN answer' = "NeedCredentials" /\ UNCHANGED layer
                       ELSE answer' = "none" /\ layer' = "loop"
    /\ UNCHANGED <<uvars, next>>

Open(offer) ==
    /\ layer = "idle"
    /\ cands' = offer
    /\ next' = 1
    /\ last_err' = "none"
    /\ faults' = FALSE
    /\ IF offer = <<>> THEN answer' = "NeedCredentials" /\ UNCHANGED layer
                       ELSE answer' = "none" /\ layer' = "loop"
    /\ UNCHANGED uvars

\* Mutant: a credential of another kind is looked at again.
Skip_stays == /\ layer = "loop"
              /\ next <= Len(cands)
              /\ cands[next].kind # "password"
              /\ UNCHANGED vars

\* Only a password is tried.
Skip == /\ layer = "loop"
        /\ next <= Len(cands)
        /\ cands[next].kind # "password"
        /\ next' = next + 1
        /\ UNCHANGED <<uvars, cands, last_err, layer, answer, faults>>

Try == /\ layer = "loop"
       /\ next <= Len(cands)
       /\ cands[next].kind = "password"
       /\ Begin(cands[next].value)
       /\ layer' = "unlocking"
       /\ UNCHANGED <<cands, next, last_err, answer, faults>>

\* Mutant: the first error ends the loop.
Outcome_first_error ==
    /\ answer' = IF result'.ok THEN "opened" ELSE result'.error
    /\ layer' = "idle"
    /\ UNCHANGED <<next, last_err>>

\* Mutant: the first error is kept.
Outcome_keep_first ==
    \/ /\ result'.ok
       /\ answer' = "opened"
       /\ layer' = "idle"
       /\ UNCHANGED <<next, last_err>>
    \/ /\ ~result'.ok
       /\ last_err' = IF last_err = "none" THEN result'.error ELSE last_err
       /\ next' = next + 1
       /\ layer' = "loop"
       /\ UNCHANGED answer

\* Mutant: a password whose unlock met an I/O error is tried again.
Outcome_retries ==
    \/ /\ result'.ok
       /\ answer' = "opened"
       /\ layer' = "idle"
       /\ UNCHANGED <<next, last_err>>
    \/ /\ ~result'.ok
       /\ last_err' = result'.error
       /\ next' = IF result'.error = "Io" THEN next ELSE next + 1
       /\ layer' = "loop"
       /\ UNCHANGED answer

\* The unlock has returned: done, or on to the next candidate.  A panic in it
\* is one in open.
Outcome ==
    \/ /\ result'.ok
       /\ answer' = "opened"
       /\ layer' = "idle"
       /\ UNCHANGED <<next, last_err>>
    \/ /\ result'.error = "panic"
       /\ answer' = "panic"
       /\ layer' = "idle"
       /\ UNCHANGED <<next, last_err>>
    \/ /\ ~result'.ok /\ result'.error # "panic"
       /\ last_err' = result'.error
       /\ next' = next + 1
       /\ layer' = "loop"
       /\ UNCHANGED answer

Unlocking(step) ==
    /\ layer = "unlocking"
    /\ step
    /\ IF pc' = "idle" THEN Outcome ELSE UNCHANGED <<next, last_err, layer, answer>>
    /\ UNCHANGED cands

Progress == Unlocking(Advance) /\ UNCHANGED faults

Fault == Unlocking(ReaderFails) /\ faults' = TRUE

GiveUp == /\ layer = "loop"
          /\ next > Len(cands)
          /\ answer' = IF last_err = "none" THEN "NeedCredentials" ELSE last_err
          /\ layer' = "idle"
          /\ UNCHANGED <<uvars, cands, next, last_err, faults>>

LNext == \/ \E offer \in Offers : Open(offer)
         \/ Skip \/ Try \/ Progress \/ Fault \/ GiveUp

LSpec == LInit /\ [][LNext]_vars

\* The thread runs; no failure of the reader is ever owed.
FairLSpec == LSpec /\ WF_vars(Skip \/ Try \/ Progress \/ GiveUp)
-----------------------------------------------------------------------------
LayerTypeOK ==
    /\ layer \in {"idle", "loop", "unlocking"}
    /\ next \in 1 .. Len(cands) + 1
    /\ faults \in BOOLEAN
    /\ layer # "unlocking" <=> pc = "idle"

Offered == {i \in DOMAIN cands : cands[i].kind = "password"}

(***************************************************************************)
(* An opened source was opened by a password that was offered and is the   *)
(* volume's own, and holds the volume's keys.                              *)
(***************************************************************************)
OpenedByARightPassword ==
    answer = "opened" =>
        /\ \E i \in Offered : cands[i].value = image.password
        /\ result.ok /\ request = image.password
        /\ result.keys.vmk = FreshKey("vmk")

(***************************************************************************)
(* Order does not matter: if the right password is anywhere among the      *)
(* candidates of an image that was opened before, a call that fails has    *)
(* met a failing read; wrong candidates before it do no harm.              *)
(***************************************************************************)
NoCandidateIsPassedOver ==
    (/\ layer = "idle" /\ answer \notin {"none", "opened"}
     /\ \E u \in seen[image.password] : u.ok
     /\ \E i \in Offered : cands[i].value = image.password) => faults

(***************************************************************************)
(* NeedCredentials means that there was no password to try; any attempt    *)
(* that failed is reported by the error of the last one.                   *)
(***************************************************************************)
FailureIsReported ==
    (layer = "idle" /\ answer \notin {"none", "opened"}) =>
        IF Offered = {} THEN answer = "NeedCredentials"
        ELSE answer = result.error /\ ~result.ok

\* The steps that an unlock makes at most from each of its reads on.
UnlockSteps == [idle |-> 0, header |-> 5, first_block |-> 4, region |-> 3,
                ciphertext |-> 2, extract |-> 1]

\* At most six steps for each candidate that is left, one of them to begin.
StepsLeft ==
    LET tries == Len(cands) + 1 - next
    IN  IF layer = "idle" THEN 0
        ELSE IF layer = "loop" THEN 6 * tries + 1
        ELSE 6 * (tries - 1) + 1 + UnlockSteps[pc]

(***************************************************************************)
(* Every step of an open is one towards its end, failing reads included:   *)
(* no candidate is unlocked twice and none reads the image more than four  *)
(* times, so that the work of an open is bounded by the offer's length.    *)
(***************************************************************************)
EveryStepAdvances ==
    [][layer # "idle" => StepsLeft' \in 0 .. StepsLeft - 1]_vars

\* Every call of open returns.
OpenReturns == layer # "idle" ~> layer = "idle"
=============================================================================
