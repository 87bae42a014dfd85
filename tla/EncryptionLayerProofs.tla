------------------------ MODULE EncryptionLayerProofs ------------------------
(***************************************************************************)
(* Proofs about module EncryptionLayer: FileVaultLayer::open, for every    *)
(* set of images and every list of credentials of any length.  They use    *)
(* what UnlockProofs shows of the unlock of a single candidate.            *)
(***************************************************************************)
EXTENDS EncryptionLayer, UnlockProofs

\* The image's own password opens it unless a read fails.
Openable == Readable(image) /\ Verdict(image, image.password).ok

\* The candidate that is being unlocked is the one the loop has come to.
CandidateInHand ==
    layer = "unlocking" => /\ next <= Len(cands)
                           /\ cands[next].kind = "password"
                           /\ cands[next].value = request

\* While the loop runs, last_err is the error of the last password tried.
LastError ==
    layer # "idle" =>
        /\ answer = "none"
        /\ last_err = "none" <=> \A i \in Offered : i >= next
        /\ (layer = "loop" /\ last_err # "none") => ~result.ok /\ last_err = result.error

\* A right password has not been tried in vain.
RightOneIsAhead ==
    (layer # "idle" /\ ~faults /\ Openable) =>
        \A i \in Offered : i < next => cands[i].value # image.password

RightOneOpens ==
    (/\ layer = "idle" /\ answer \notin {"none", "opened"} /\ ~faults /\ Openable) =>
        \A i \in Offered : cands[i].value # image.password

LInductive ==
    /\ UInductive
    /\ LayerTypeOK
    /\ cands \in Seq(Credentials)
    /\ CandidateInHand /\ LastError /\ RightOneIsAhead /\ RightOneOpens
    /\ OpenedByARightPassword /\ FailureIsReported
------------------------------------------------------------------------------
LEMMA CandidateTypes ==
    ASSUME cands \in Seq(Credentials), NEW i \in 1 .. Len(cands)
    PROVE  /\ cands[i] \in Credentials
           /\ cands[i].kind = "password" => cands[i].value \in Passwords
  <1>1. cands[i] \in Credentials
    OBVIOUS
  <1> QED
    BY <1>1 DEF Credentials, Password, OtherCredential

LEMMA InitLInductive == LInit => LInductive
  <1>. SUFFICES ASSUME LInit PROVE LInductive
    OBVIOUS
  <1>1. UInductive /\ pc = "idle"
    BY InitUInductive DEF LInit, UInit
  <1>2. cands = <<>> /\ cands \in Seq(Credentials) /\ Len(cands) = 0
    BY DEF LInit
  <1>3. LayerTypeOK
    <2>1. layer = "idle" /\ next \in 1 .. Len(cands) + 1
      BY <1>2 DEF LInit
    <2>2. faults \in BOOLEAN
      BY DEF LInit
    <2> QED
      BY <1>1, <2>1, <2>2 DEF LayerTypeOK
  <1> QED
    BY <1>1, <1>2, <1>3 DEF LInit, LInductive, CandidateInHand, LastError,
       RightOneIsAhead, RightOneOpens, OpenedByARightPassword, FailureIsReported

LEMMA OpenPreserves ==
    ASSUME LInductive, NEW offer \in Offers, Open(offer)
    PROVE  LInductive'
  <1>1. /\ layer = "idle" /\ cands' = offer /\ next' = 1 /\ last_err' = "none"
        /\ faults' = FALSE /\ UNCHANGED uvars
        /\ \/ offer = <<>> /\ answer' = "NeedCredentials" /\ layer' = "idle"
           \/ offer # <<>> /\ answer' = "none" /\ layer' = "loop"
    BY DEF Open
  <1>2. UInductive'
    BY <1>1, UnchangedPreserves DEF LInductive
  <1>3. cands' \in Seq(Credentials) /\ Len(cands') \in Nat
    BY <1>1, OfferAssumption
  <1>4. pc' = "idle"
    BY <1>1 DEF LInductive, LayerTypeOK, uvars
  <1>5. LayerTypeOK'
    <2>1. layer' \in {"idle", "loop"} /\ next' \in 1 .. Len(cands') + 1
      BY <1>1, <1>3
    <2>2. faults' \in BOOLEAN
      BY <1>1
    <2> QED
      BY <1>4, <2>1, <2>2 DEF LayerTypeOK
  <1>6. \A i \in Offered' : i >= next' /\ i \in 1 .. Len(cands')
    BY <1>1, <1>3 DEF Offered
  <1>7. CandidateInHand' /\ OpenedByARightPassword'
    BY <1>1 DEF CandidateInHand, OpenedByARightPassword
  <1>8. LastError'
    BY <1>1, <1>6 DEF LastError
  <1>9. RightOneIsAhead'
    BY <1>1, <1>6 DEF RightOneIsAhead
  <1>10. offer = <<>> => Offered' = {}
    BY <1>1 DEF Offered
  <1>11. RightOneOpens'
    BY <1>1, <1>10 DEF RightOneOpens
  <1>12. FailureIsReported'
    BY <1>1, <1>10 DEF FailureIsReported
  <1> QED
    BY <1>2, <1>3, <1>5, <1>7, <1>8, <1>9, <1>11, <1>12 DEF LInductive

LEMMA SkipPreserves ==
    ASSUME LInductive, Skip
    PROVE  LInductive'
  <1>1. /\ layer = "loop" /\ next <= Len(cands) /\ cands[next].kind # "password"
        /\ next' = next + 1
        /\ UNCHANGED uvars /\ cands' = cands /\ last_err' = last_err
        /\ layer' = layer /\ answer' = answer /\ faults' = faults
    BY DEF Skip
  <1>2. UInductive'
    BY <1>1, UnchangedPreserves DEF LInductive
  <1>3. /\ cands \in Seq(Credentials) /\ Len(cands) \in Nat
        /\ next \in 1 .. Len(cands) + 1 /\ answer = "none" /\ LayerTypeOK
    BY <1>1 DEF LInductive, LayerTypeOK, LastError
  <1>4. LayerTypeOK'
    BY <1>1, <1>3 DEF LayerTypeOK, uvars
  <1>5. Offered' = Offered /\ \A i \in Offered : i \in Nat /\ i # next
    BY <1>1, <1>3 DEF Offered
  <1>6. \A i \in Offered : (i >= next' <=> i >= next) /\ (i < next' <=> i < next)
    BY <1>1, <1>3, <1>5
  <1>7. LastError'
    BY <1>1, <1>5, <1>6 DEF LInductive, LastError, uvars
  <1>8. Openable' = Openable /\ image' = image
    BY <1>1 DEF Openable, uvars
  <1>9. RightOneIsAhead'
    BY <1>1, <1>5, <1>6, <1>8 DEF LInductive, RightOneIsAhead
  <1>10. /\ CandidateInHand' /\ RightOneOpens' /\ OpenedByARightPassword'
         /\ FailureIsReported'
    BY <1>1, <1>3 DEF CandidateInHand, RightOneOpens, OpenedByARightPassword,
       FailureIsReported
  <1> QED
    BY <1>1, <1>2, <1>3, <1>4, <1>7, <1>9, <1>10 DEF LInductive

LEMMA TryPreserves ==
    ASSUME LInductive, Try
    PROVE  LInductive'
  <1>1. /\ layer = "loop" /\ next <= Len(cands) /\ cands[next].kind = "password"
        /\ Begin(cands[next].value) /\ layer' = "unlocking"
        /\ cands' = cands /\ next' = next /\ last_err' = last_err
        /\ answer' = answer /\ faults' = faults
    BY DEF Try
  <1>2. /\ cands \in Seq(Credentials) /\ Len(cands) \in Nat
        /\ next \in 1 .. Len(cands) + 1 /\ answer = "none" /\ LayerTypeOK
    BY <1>1 DEF LInductive, LayerTypeOK, LastError
  <1>3. cands[next].value \in Requests
    BY <1>1, <1>2, CandidateTypes DEF Requests
  <1>4. UInductive'
    BY <1>1, <1>3, BeginPreserves DEF LInductive
  <1>5. /\ pc' = "header" /\ request' = cands[next].value /\ image' = image
    BY <1>1 DEF Begin
  <1>6. LayerTypeOK'
    BY <1>1, <1>2, <1>5 DEF LayerTypeOK
  <1>7. CandidateInHand'
    BY <1>1, <1>5 DEF CandidateInHand
  <1>8. Offered' = Offered
    BY <1>1 DEF Offered
  <1>9. LastError'
    BY <1>1, <1>8 DEF LInductive, LastError
  <1>10. Openable' = Openable
    BY <1>5 DEF Openable
  <1>11. RightOneIsAhead'
    BY <1>1, <1>5, <1>8, <1>10 DEF LInductive, RightOneIsAhead
  <1>12. RightOneOpens' /\ OpenedByARightPassword' /\ FailureIsReported'
    BY <1>1, <1>2 DEF RightOneOpens, OpenedByARightPassword, FailureIsReported
  <1> QED
    BY <1>1, <1>2, <1>4, <1>6, <1>7, <1>9, <1>11, <1>12 DEF LInductive

\* A step within an unlock leaves the loop as it is.
LEMMA UnlockGoesOn ==
    ASSUME LInductive, layer = "unlocking", Advance \/ ReaderFails, pc' # "idle",
           next' = next, last_err' = last_err, layer' = layer, answer' = answer,
           cands' = cands, faults' \in BOOLEAN, faults => faults'
    PROVE  LInductive'
  <1>1. UInductive'
    BY AdvancePreserves, ReaderFailsPreserves DEF LInductive
  <1>2. image' = image /\ request' = request
    BY StepFrame
  <1>3. LayerTypeOK'
    BY DEF LInductive, LayerTypeOK
  <1>4. CandidateInHand'
    BY <1>2 DEF LInductive, CandidateInHand
  <1>5. Offered' = Offered /\ Openable' = Openable
    BY <1>2 DEF Offered, Openable
  <1>6. LastError'
    BY <1>5 DEF LInductive, LastError
  <1>7. RightOneIsAhead'
    BY <1>2, <1>5 DEF LInductive, RightOneIsAhead
  <1>8. answer' = "none"
    BY DEF LInductive, LastError
  <1>9. RightOneOpens' /\ OpenedByARightPassword' /\ FailureIsReported'
    BY <1>8 DEF RightOneOpens, OpenedByARightPassword, FailureIsReported
  <1> QED
    BY <1>1, <1>3, <1>4, <1>6, <1>7, <1>9 DEF LInductive

\* An unlock that succeeds ends the loop with the volume's keys.
LEMMA UnlockSucceeds ==
    ASSUME LInductive, layer = "unlocking", Advance \/ ReaderFails, pc' = "idle",
           result'.ok, answer' = "opened", layer' = "idle", next' = next,
           last_err' = last_err, cands' = cands, faults' \in BOOLEAN
    PROVE  LInductive'
  <1>1. UInductive'
    BY AdvancePreserves, ReaderFailsPreserves DEF LInductive
  <1>2. image' = image /\ request' = request /\ image \in Images
    BY StepFrame DEF LInductive, UInductive
  <1>3. LayerTypeOK'
    BY DEF LInductive, LayerTypeOK
  <1>4. /\ next \in 1 .. Len(cands) /\ cands[next].kind = "password"
        /\ cands[next].value = request /\ request \in Passwords
    <2>1. /\ cands \in Seq(Credentials) /\ next \in 1 .. Len(cands) + 1
          /\ next <= Len(cands) /\ cands[next].kind = "password"
          /\ cands[next].value = request
      BY DEF LInductive, LayerTypeOK, CandidateInHand
    <2>2. next \in 1 .. Len(cands)
      BY <2>1
    <2> QED
      BY <2>1, <2>2, CandidateTypes
  <1>5. result' = Verdict(image, request)
    BY CallEnds DEF LInductive
  <1>6. request = image.password /\ result'.keys.vmk = FreshKey("vmk")
    BY <1>2, <1>4, <1>5, KeysOfTheVerdict
  <1>7. OpenedByARightPassword'
    <2>1. next \in Offered' /\ cands'[next].value = image'.password
      BY <1>2, <1>4, <1>6 DEF Offered, LInductive
    <2> QED
      BY <1>2, <1>6, <2>1 DEF OpenedByARightPassword
  <1>8. /\ CandidateInHand' /\ LastError' /\ RightOneIsAhead' /\ RightOneOpens'
        /\ FailureIsReported'
    BY DEF CandidateInHand, LastError, RightOneIsAhead, RightOneOpens, FailureIsReported
  <1> QED
    BY <1>1, <1>3, <1>7, <1>8 DEF LInductive

\* One that fails sends the loop to the next candidate; it was not the right
\* one's, unless a read failed.
LEMMA UnlockFails ==
    ASSUME LInductive, layer = "unlocking", Advance \/ ReaderFails, pc' = "idle",
           ~result'.ok, last_err' = result'.error, next' = next + 1,
           layer' = "loop", answer' = answer, cands' = cands,
           faults' \in BOOLEAN, faults => faults', Advance \/ faults'
    PROVE  LInductive'
  <1>1. UInductive'
    BY AdvancePreserves, ReaderFailsPreserves DEF LInductive
  <1>2. image' = image /\ request' = request /\ image \in Images
    BY StepFrame DEF LInductive, UInductive
  <1>3. /\ cands \in Seq(Credentials) /\ Len(cands) \in Nat
        /\ next \in 1 .. Len(cands) /\ cands[next].kind = "password"
        /\ cands[next].value = request
    BY DEF LInductive, LayerTypeOK, CandidateInHand
  <1>4. LayerTypeOK'
    <2>1. next' \in 1 .. Len(cands') + 1
      BY <1>3
    <2> QED
      BY <2>1 DEF LayerTypeOK
  <1>5. next \in Offered /\ Offered' = Offered /\ \A i \in Offered : i \in Nat
    BY <1>3 DEF Offered
  <1>6. last_err' # "none"
    BY CallEnds DEF LInductive, IsResult, Errors
  <1>7. LastError'
    <2>1. ~(next >= next')
      BY <1>3
    <2>2. ~(\A i \in Offered' : i >= next')
      BY <1>5, <2>1
    <2>3. answer' = "none"
      BY DEF LInductive, LastError
    <2> QED
      BY <1>6, <2>2, <2>3 DEF LastError
  <1>8. RightOneIsAhead'
    <2>. SUFFICES ASSUME ~faults', Openable', NEW i \in Offered, i < next'
                  PROVE  cands[i].value # image.password
      BY <1>2, <1>5 DEF RightOneIsAhead
    <2>1. Openable /\ ~faults /\ Advance
      BY <1>2 DEF Openable
    <2>2. CASE i < next
      BY <2>1, <2>2 DEF LInductive, RightOneIsAhead
    <2>3. CASE i = next
      <3>1. result' = Verdict(image, request)
        BY <2>1, AdvanceEnds DEF LInductive, Openable
      <3> QED
        BY <1>3, <2>1, <2>3, <3>1 DEF Openable
    <2> QED
      BY <1>3, <1>5, <2>2, <2>3
  <1>9. /\ CandidateInHand' /\ RightOneOpens' /\ OpenedByARightPassword'
        /\ FailureIsReported'
    BY DEF LInductive, LastError, CandidateInHand, RightOneOpens,
       OpenedByARightPassword, FailureIsReported
  <1> QED
    BY <1>1, <1>3, <1>4, <1>7, <1>8, <1>9 DEF LInductive

\* One that panics ends the call; no password would have opened the image.
LEMMA UnlockPanics ==
    ASSUME LInductive, layer = "unlocking", Advance \/ ReaderFails, pc' = "idle",
           result'.error = "panic", answer' = "panic", layer' = "idle", next' = next,
           last_err' = last_err, cands' = cands,
           faults' \in BOOLEAN, Advance \/ faults'
    PROVE  LInductive'
  <1>1. UInductive'
    BY AdvancePreserves, ReaderFailsPreserves DEF LInductive
  <1>2. image' = image /\ request' = request /\ image \in Images
    BY StepFrame DEF LInductive, UInductive
  <1>3. LayerTypeOK'
    BY DEF LInductive, LayerTypeOK
  <1>4. next \in Offered'
    BY DEF LInductive, LayerTypeOK, CandidateInHand, Offered
  <1>5. ~result'.ok
    BY CallEnds DEF LInductive, IsResult
  <1>6. FailureIsReported'
    BY <1>4, <1>5 DEF FailureIsReported
  <1>7. RightOneOpens'
    <2>. SUFFICES ASSUME ~faults', Openable' PROVE FALSE
      BY DEF RightOneOpens
    <2>1. Openable /\ Advance
      BY <1>2 DEF Openable
    <2>2. result' = Verdict(image, request)
      BY <2>1, AdvanceEnds DEF LInductive, Openable
    <2> QED
      BY <1>2, <2>1, <2>2, PanicForAll DEF Openable
  <1>8. /\ CandidateInHand' /\ LastError' /\ RightOneIsAhead'
        /\ OpenedByARightPassword'
    BY DEF CandidateInHand, LastError, RightOneIsAhead, OpenedByARightPassword
  <1> QED
    BY <1>1, <1>3, <1>6, <1>7, <1>8 DEF LInductive

LEMMA UnlockingPreserves ==
    ASSUME LInductive, Progress \/ Fault
    PROVE  LInductive'
  <1>1. /\ layer = "unlocking" /\ (Advance \/ ReaderFails) /\ cands' = cands
        /\ IF pc' = "idle" THEN Outcome
           ELSE next' = next /\ last_err' = last_err /\ layer' = layer /\ answer' = answer
    BY DEF Progress, Fault, Unlocking
  <1>2. faults' \in BOOLEAN /\ (faults => faults') /\ (Advance \/ faults')
    <2>1. faults \in BOOLEAN
      BY DEF LInductive, LayerTypeOK
    <2>2. CASE Fault
      BY <2>2 DEF Fault
    <2>3. CASE Progress
      <3>1. faults' = faults
        BY <2>3 DEF Progress
      <3>2. Advance
        BY <2>3 DEF Progress, Unlocking
      <3> QED
        BY <2>1, <3>1, <3>2
    <2> QED
      BY <2>2, <2>3
  <1>3. CASE pc' # "idle"
    BY <1>1, <1>2, <1>3, UnlockGoesOn
  <1>4. CASE pc' = "idle" /\ result'.ok
    <2>1. result'.error # "panic"
      BY <1>1, <1>4, CallEnds DEF LInductive, IsResult, Errors
    <2> QED
      BY <1>1, <1>2, <1>4, <2>1, UnlockSucceeds DEF Outcome
  <1>5. CASE pc' = "idle" /\ ~result'.ok /\ result'.error # "panic"
    BY <1>1, <1>2, <1>5, UnlockFails DEF Outcome
  <1>6. CASE pc' = "idle" /\ ~result'.ok /\ result'.error = "panic"
    BY <1>1, <1>2, <1>6, UnlockPanics DEF Outcome
  <1> QED
    BY <1>3, <1>4, <1>5, <1>6

LEMMA GiveUpPreserves ==
    ASSUME LInductive, GiveUp
    PROVE  LInductive'
  <1>1. /\ layer = "loop" /\ next > Len(cands)
        /\ answer' = IF last_err = "none" THEN "NeedCredentials" ELSE last_err
        /\ layer' = "idle" /\ UNCHANGED uvars /\ cands' = cands /\ next' = next
        /\ last_err' = last_err /\ faults' = faults
    BY DEF GiveUp
  <1>2. UInductive'
    BY <1>1, UnchangedPreserves DEF LInductive
  <1>3. /\ cands \in Seq(Credentials) /\ Len(cands) \in Nat
        /\ next = Len(cands) + 1 /\ LayerTypeOK
    BY <1>1 DEF LInductive, LayerTypeOK
  <1>4. LayerTypeOK'
    BY <1>1, <1>3 DEF LayerTypeOK, uvars
  <1>5. Offered' = Offered /\ \A i \in Offered : i \in Nat /\ i < next
    BY <1>1, <1>3 DEF Offered
  <1>6. last_err = "none" <=> Offered = {}
    <2>1. last_err = "none" <=> \A i \in Offered : i >= next
      BY <1>1 DEF LInductive, LastError
    <2> QED
      BY <1>3, <1>5, <2>1
  <1>7. last_err # "none" => ~result.ok /\ last_err = result.error
    BY <1>1 DEF LInductive, LastError
  <1>8. answer' # "opened"
    <2>1. last_err # "none" => last_err \in Errors \cup {"none", "panic"}
      BY <1>7 DEF LInductive, UInductive, TypeOK
    <2> QED
      BY <1>1, <2>1 DEF Errors
  <1>9. FailureIsReported'
    BY <1>1, <1>5, <1>6, <1>7 DEF FailureIsReported, uvars
  <1>10. RightOneOpens'
    <2>1. image' = image /\ Openable' = Openable
      BY <1>1 DEF uvars, Openable
    <2> QED
      BY <1>1, <1>5, <2>1 DEF LInductive, RightOneIsAhead, RightOneOpens
  <1>11. CandidateInHand' /\ LastError' /\ RightOneIsAhead' /\ OpenedByARightPassword'
    BY <1>1, <1>8 DEF CandidateInHand, LastError, RightOneIsAhead,
       OpenedByARightPassword
  <1> QED
    BY <1>1, <1>2, <1>3, <1>4, <1>9, <1>10, <1>11 DEF LInductive

LEMMA LayerUnchanged ==
    ASSUME LInductive, UNCHANGED vars
    PROVE  LInductive'
  <1>1. UNCHANGED uvars /\ UNCHANGED lvars
    BY DEF vars
  <1>2. UInductive'
    BY <1>1, UnchangedPreserves DEF LInductive
  <1>3. Offered' = Offered /\ Openable' = Openable
    BY <1>1 DEF uvars, lvars, Offered, Openable
  <1> QED
    BY <1>1, <1>2, <1>3 DEF LInductive, uvars, lvars, LayerTypeOK, CandidateInHand,
       LastError, RightOneIsAhead, RightOneOpens, OpenedByARightPassword,
       FailureIsReported

LEMMA LayerStepPreserves ==
    ASSUME LInductive, [LNext]_vars
    PROVE  LInductive'
  BY OpenPreserves, SkipPreserves, TryPreserves, UnlockingPreserves, GiveUpPreserves,
     LayerUnchanged DEF LNext

\* The inductive invariant holds in every state of every run.
THEOREM LayerInvariant == LSpec => []LInductive
  <1>1. LInductive /\ [LNext]_vars => LInductive'
    BY LayerStepPreserves
  <1> QED
    BY <1>1, InitLInductive, PTL DEF LSpec
------------------------------------------------------------------------------
\* The loop index stays within the candidates, and an unlock is in progress
\* exactly while the loop waits for one.
THEOREM LayerTypeCorrect == LSpec => []LayerTypeOK
  <1>1. LInductive => LayerTypeOK
    BY DEF LInductive
  <1> QED
    BY <1>1, LayerInvariant, PTL

\* open returns Ok only for a password that was offered and is the volume's.
THEOREM LayerOpenedByARightPassword == LSpec => []OpenedByARightPassword
  <1>1. LInductive => OpenedByARightPassword
    BY DEF LInductive
  <1> QED
    BY <1>1, LayerInvariant, PTL

\* open reports the last error, and NeedCredentials only if nothing was tried.
THEOREM LayerFailureIsReported == LSpec => []FailureIsReported
  <1>1. LInductive => FailureIsReported
    BY DEF LInductive
  <1> QED
    BY <1>1, LayerInvariant, PTL

\* The right password opens the volume from any place in the list, unless a
\* read fails.
THEOREM LayerNoCandidateIsPassedOver == LSpec => []NoCandidateIsPassedOver
  <1>1. LInductive => NoCandidateIsPassedOver
    <2>. SUFFICES ASSUME LInductive, layer = "idle", answer \notin {"none", "opened"},
                         NEW u \in seen[image.password], u.ok,
                         NEW i \in Offered, cands[i].value = image.password
                  PROVE  faults
      BY DEF NoCandidateIsPassedOver
    <2>1. cands \in Seq(Credentials) /\ i \in 1 .. Len(cands) /\ cands[i].kind = "password"
      BY DEF Offered, LInductive
    <2>2. image.password \in Requests
      BY <2>1, CandidateTypes DEF Requests
    <2>3. Openable
      BY <2>2 DEF LInductive, UInductive, SeenAreVerdicts, Openable
    <2> QED
      BY <2>3 DEF LInductive, RightOneOpens
  <1> QED
    BY <1>1, LayerInvariant, PTL
------------------------------------------------------------------------------
(* The work of an open. *)

LEMMA UnlockStepsAre ==
    /\ UnlockSteps["idle"] = 0 /\ UnlockSteps["header"] = 5
    /\ UnlockSteps["first_block"] = 4 /\ UnlockSteps["region"] = 3
    /\ UnlockSteps["ciphertext"] = 2 /\ UnlockSteps["extract"] = 1
  BY DEF UnlockSteps

\* A step of an unlock ends it or comes to the next read.
LEMMA UnlockAdvances ==
    ASSUME Advance \/ ReaderFails
    PROVE  /\ pc \in {"header", "first_block", "region", "ciphertext", "extract"}
           /\ pc' = "idle" \/ UnlockSteps[pc'] = UnlockSteps[pc] - 1
  <1>1. \/ pc \in {"header", "first_block", "region", "ciphertext", "extract"} /\ pc' = "idle"
        \/ pc = "header" /\ pc' = "first_block"
        \/ pc = "first_block" /\ pc' = "region"
        \/ pc = "region" /\ pc' = "ciphertext"
        \/ pc = "ciphertext" /\ pc' = "extract"
    BY DEF Advance, ReaderFails, ReadHeader, ReadFirstBlock, ReadRegion, ReadCiphertext,
       Extract, Finish, GoOn
  <1> QED
    BY <1>1, UnlockStepsAre

\* What is left, case by case.
LEMMA StepsLeftIs ==
    ASSUME Len(cands) \in Nat, next \in Nat, UnlockSteps[pc] \in Nat
    PROVE  /\ layer = "idle" => StepsLeft = 0
           /\ layer = "loop" => StepsLeft = 6 * (Len(cands) + 1 - next) + 1
           /\ layer = "unlocking" =>
                 StepsLeft = 6 * (Len(cands) - next) + 1 + UnlockSteps[pc]
  BY DEF StepsLeft

LEMMA StepsLeftTyped ==
    ASSUME LInductive
    PROVE  Len(cands) \in Nat /\ next \in Nat /\ UnlockSteps[pc] \in Nat
  <1>1. pc \in {"idle", "header", "first_block", "region", "ciphertext", "extract"}
    BY DEF LInductive, UInductive, TypeOK
  <1>2. Len(cands) \in Nat /\ next \in 1 .. Len(cands) + 1
    BY DEF LInductive, LayerTypeOK
  <1> QED
    BY <1>1, <1>2, UnlockStepsAre

LEMMA StepAdvances ==
    ASSUME LInductive, LNext, layer # "idle"
    PROVE  StepsLeft' \in 0 .. StepsLeft - 1
  <1>1. /\ Len(cands) \in Nat /\ next \in 1 .. Len(cands) + 1
        /\ layer \in {"loop", "unlocking"} /\ layer = "unlocking" => next <= Len(cands)
    BY DEF LInductive, LayerTypeOK, CandidateInHand
  <1>2. /\ layer = "loop" => StepsLeft = 6 * (Len(cands) + 1 - next) + 1
        /\ layer = "unlocking" =>
              StepsLeft = 6 * (Len(cands) - next) + 1 + UnlockSteps[pc]
        /\ layer' = "idle" => StepsLeft' = 0
        /\ layer' = "loop" => StepsLeft' = 6 * (Len(cands') + 1 - next') + 1
        /\ layer' = "unlocking" =>
              StepsLeft' = 6 * (Len(cands') - next') + 1 + UnlockSteps[pc']
    <2>1. LInductive'
      BY LayerStepPreserves
    <2>2. Len(cands') \in Nat /\ next' \in Nat /\ UnlockSteps[pc'] \in Nat
      <3>1. pc' \in {"idle", "header", "first_block", "region", "ciphertext", "extract"}
        BY <2>1 DEF LInductive, UInductive, TypeOK
      <3>2. Len(cands') \in Nat /\ next' \in 1 .. Len(cands') + 1
        BY <2>1 DEF LInductive, LayerTypeOK
      <3> QED
        BY <3>1, <3>2, UnlockStepsAre
    <2> QED
      BY <2>2, StepsLeftTyped, StepsLeftIs DEF StepsLeft
  <1>3. cands' = cands
    BY DEF LNext, Open, Skip, Try, Progress, Fault, Unlocking, GiveUp
  <1>4. CASE Skip
    <2>1. layer = "loop" /\ layer' = "loop" /\ next <= Len(cands) /\ next' = next + 1
      BY <1>4 DEF Skip
    <2> QED
      BY <1>1, <1>2, <1>3, <2>1
  <1>5. CASE Try
    <2>1. /\ layer = "loop" /\ layer' = "unlocking" /\ next <= Len(cands) /\ next' = next
          /\ pc' = "header"
      BY <1>5 DEF Try, Begin
    <2> QED
      BY <1>1, <1>2, <1>3, <2>1, UnlockStepsAre
  <1>6. CASE Progress \/ Fault
    <2>1. layer = "unlocking" /\ (Advance \/ ReaderFails)
      BY <1>6 DEF Progress, Fault, Unlocking
    <2>2. /\ pc \in {"header", "first_block", "region", "ciphertext", "extract"}
          /\ pc' = "idle" \/ UnlockSteps[pc'] = UnlockSteps[pc] - 1
      BY <2>1, UnlockAdvances
    <2>3. UnlockSteps[pc] \in 1 .. 5
      BY <2>2, UnlockStepsAre
    <2>4. CASE pc' = "idle"
      <3>1. \/ layer' = "idle"
            \/ layer' = "loop" /\ next' = next + 1
        BY <1>6, <2>4 DEF Progress, Fault, Unlocking, Outcome
      <3> QED
        BY <1>1, <1>2, <1>3, <2>1, <2>3, <3>1, SMTT(30)
    <2>5. CASE pc' # "idle"
      <3>1. layer' = "unlocking" /\ next' = next
        BY <1>6, <2>1, <2>5 DEF Progress, Fault, Unlocking
      <3> QED
        BY <1>1, <1>2, <1>3, <2>1, <2>2, <2>3, <2>5, <3>1
    <2> QED
      BY <2>4, <2>5
  <1>7. CASE GiveUp
    <2>1. layer = "loop" /\ layer' = "idle"
      BY <1>7 DEF GiveUp
    <2> QED
      BY <1>1, <1>2, <2>1
  <1> QED
    BY <1>4, <1>5, <1>6, <1>7 DEF LNext, Open

\* Every step of an open is one towards its end: an open makes six steps at most
\* for each candidate, whatever the reader does.
THEOREM LayerEveryStepAdvances == LSpec => EveryStepAdvances
  <1>1. LInductive /\ [LNext]_vars
           => [layer # "idle" => StepsLeft' \in 0 .. StepsLeft - 1]_vars
    BY StepAdvances
  <1> QED
    BY <1>1, LayerInvariant, PTL DEF LSpec, EveryStepAdvances
------------------------------------------------------------------------------
\* Whatever open does to the unlock, it does by whole calls of it: what is
\* proved of unlock_with_password holds of every candidate open tries.
THEOREM LayerUsesUnlock == LSpec => USpec
  <1>1. LInit => UInit
    BY DEF LInit
  <1>2. LInductive /\ [LNext]_vars => [UNext]_uvars
    <2>. SUFFICES ASSUME LInductive, [LNext]_vars PROVE [UNext]_uvars
      OBVIOUS
    <2>1. CASE Try
      <3>1. /\ cands \in Seq(Credentials) /\ next \in 1 .. Len(cands)
            /\ cands[next].kind = "password" /\ Begin(cands[next].value)
        BY <2>1 DEF Try, LInductive, LayerTypeOK
      <3>2. cands[next].value \in Requests
        BY <3>1, CandidateTypes DEF Requests
      <3> QED
        BY <3>1, <3>2 DEF UNext
    <2>2. CASE Progress \/ Fault
      BY <2>2 DEF Progress, Fault, Unlocking, UNext
    <2>3. CASE UNCHANGED uvars
      BY <2>3
    <2> QED
      BY <2>1, <2>2, <2>3 DEF LNext, Open, Skip, GiveUp, vars
  <1> QED
    BY <1>1, <1>2, LayerInvariant, PTL DEF LSpec, USpec
==============================================================================
