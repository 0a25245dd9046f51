------------------------- MODULE ImagePolicyProofs -------------------------
(***************************************************************************)
(* What holds of the image policy for every set of blocks and bodies, every *)
(* limit and every session: that the budget is what was rendered, and that a *)
(* refused triple is never tried again.                                      *)
(***************************************************************************)
EXTENDS ImagePolicy, TLAPS

(* The session's log agrees with its NoRetrySet: every triple it refused is  *)
(* in the set, which is what a later verification consults.                  *)
RefusalsRemembered ==
    \A n \in 1..Len(log) : log[n].code # "Accept" => Key(log[n].image) \in failed

(* The running sums of what was rendered exist, and end in the budget.       *)
(* RenderedPixels is chosen to be such a sum; that there is one, and that     *)
(* all end alike, follows step by step as the log grows.                      *)
RunningSum(f) ==
    f = [n \in start..Len(log) |->
            IF n = start THEN 0
            ELSE f[n - 1] + (IF Accepted(n) THEN Pixels(log[n].image) ELSE 0)]

SumsToUsed ==
    /\ \E f : RunningSum(f)
    /\ \A f : RunningSum(f) => f[Len(log)] = used

PolicyInv ==
    /\ PolicyTypeOK
    /\ SumsToUsed
    /\ RefusalsRemembered
    /\ DecoderSeesAuthentic
    /\ NoSecondTry

----------------------------------------------------------------------------
(* What run_checks answers: a refusal or an acceptance, the decoder only run *)
(* on an authentic body, an acceptance only within the budget.               *)
LEMMA VerdictOK ==
    ASSUME NEW image \in Images, NEW response \in Responses, NEW budget \in Nat
    PROVE  LET verdict == RunChecks(image, response, budget)
           IN  /\ verdict.code \in Codes
               /\ verdict.decoder \in BOOLEAN
               /\ verdict.decoder => Authentic(image, response)
               /\ verdict.code = "Accept" =>
                     (verdict.decoder /\ budget + Pixels(image) <= MaxDecodedPixels)
  BY PolicyAssumption, SMTT(30)
     DEF RunChecks, Verdict, Codes, Refusals, Authentic, Responses, Charges

(* The pixels of a block are a natural number. *)
LEMMA PixelsNat == ASSUME NEW image \in Images PROVE Pixels(image) \in Nat
<1>1. /\ image.width \in Nat /\ image.height \in Nat
  BY PolicyAssumption
<1> QED
  BY <1>1, Z3 DEF Pixels

(* Authenticity is a truth value. *)
LEMMA AuthenticBoolean ==
    \A image, response : Authentic(image, response) \in BOOLEAN
  BY DEF Authentic

(* Before the first event of a document there is nothing to add up. *)
LEMMA EmptySum == start \in Nat /\ start = Len(log) /\ used = 0 => SumsToUsed
<1> SUFFICES ASSUME start \in Nat, start = Len(log), used = 0 PROVE SumsToUsed
  OBVIOUS
<1> DEFINE g == [n \in start..Len(log) |-> 0]
<1>1. start..Len(log) = {start}
  OBVIOUS
<1>2. RunningSum(g)
  BY <1>1 DEF RunningSum
<1>3. \A f : RunningSum(f) => f[Len(log)] = used
  BY <1>1 DEF RunningSum
<1> QED
  BY <1>2, <1>3 DEF SumsToUsed

(* One more event adds what it renders: a running sum of the longer log is   *)
(* one of the shorter log and one step more.                                 *)
LEMMA SumExtends ==
    ASSUME SumsToUsed, start \in Nat, Len(log) \in Nat, start <= Len(log),
           start' = start, Len(log') = Len(log) + 1,
           \A n \in 1..Len(log) : log'[n] = log[n],
           used' = used + (IF log'[Len(log) + 1].code = "Accept"
                           THEN Pixels(log'[Len(log) + 1].image) ELSE 0)
    PROVE  SumsToUsed'
<1> DEFINE len == Len(log)
           charge(n) == IF log'[n].code = "Accept" THEN Pixels(log'[n].image) ELSE 0
<1>1. \A f : RunningSum(f) <=>
         f = [n \in start..len |-> IF n = start THEN 0 ELSE f[n - 1] + charge(n)]
  <2> SUFFICES ASSUME NEW f
               PROVE  [n \in start..len |->
                          IF n = start THEN 0
                          ELSE f[n - 1] + (IF Accepted(n) THEN Pixels(log[n].image) ELSE 0)]
                      = [n \in start..len |-> IF n = start THEN 0 ELSE f[n - 1] + charge(n)]
    BY DEF RunningSum
  <2>1. ASSUME NEW n \in start..len, n # start
        PROVE  (IF Accepted(n) THEN Pixels(log[n].image) ELSE 0) = charge(n)
    <3>1. log'[n] = log[n]
      BY <2>1
    <3> QED
      BY <3>1 DEF Accepted, Pixels
  <2> HIDE DEF charge
  <2> QED
    BY <2>1
<1>2. \A f : RunningSum(f)' <=>
         f = [n \in start..len + 1 |-> IF n = start THEN 0 ELSE f[n - 1] + charge(n)]
  BY DEF RunningSum, Accepted, Pixels
<1>3. used' = used + charge(len + 1)
  OBVIOUS
<1>4. start \in Nat /\ len \in Nat /\ start <= len
  OBVIOUS
<1> HIDE DEF len, charge
<1>5. ASSUME NEW f, RunningSum(f)
      PROVE  \E h : RunningSum(h)'
  <2> DEFINE g == [n \in start..len + 1 |->
                      IF n \in start..len THEN f[n] ELSE f[len] + charge(len + 1)]
  <2>1. \A n \in start..len :
           f[n] = IF n = start THEN 0 ELSE f[n - 1] + charge(n)
    BY <1>1, <1>5
  <2>2. \A n \in start..len + 1 :
           g[n] = IF n = start THEN 0 ELSE g[n - 1] + charge(n)
    <3> SUFFICES ASSUME NEW n \in start..len + 1
                 PROVE  g[n] = IF n = start THEN 0 ELSE g[n - 1] + charge(n)
      OBVIOUS
    <3>1. CASE n = len + 1
      <4>1. g[n] = f[len] + charge(len + 1) /\ n # start /\ n - 1 = len
        BY <1>4, <3>1
      <4>2. g[len] = f[len]
        BY <1>4
      <4> QED
        BY <3>1, <4>1, <4>2
    <3>2. CASE n \in start..len /\ n # start
      <4>1. n - 1 \in start..len /\ n - 1 \in start..len + 1
        BY <1>4, <3>2
      <4>2. g[n] = f[n] /\ g[n - 1] = f[n - 1]
        BY <3>2, <4>1
      <4> QED
        BY <2>1, <3>2, <4>2
    <3>3. CASE n = start
      <4>1. start \in start..len
        BY <1>4
      <4> QED
        BY <2>1, <3>3, <4>1
    <3> QED
      BY <1>4, <3>1, <3>2, <3>3
  <2>3. g = [n \in start..len + 1 |-> IF n = start THEN 0 ELSE g[n - 1] + charge(n)]
    BY <2>2
  <2> HIDE DEF g
  <2>4. PICK h : h = g
    OBVIOUS
  <2> QED
    BY <1>2, <2>3, <2>4
<1>6. ASSUME NEW f, RunningSum(f)'
      PROVE  f[len + 1] = used'
  <2> DEFINE g == [n \in start..len |-> f[n]]
  <2>1. \A n \in start..len + 1 :
           f[n] = IF n = start THEN 0 ELSE f[n - 1] + charge(n)
    BY <1>2, <1>6
  <2>2. \A n \in start..len :
           g[n] = IF n = start THEN 0 ELSE g[n - 1] + charge(n)
    <3> SUFFICES ASSUME NEW n \in start..len
                 PROVE  g[n] = IF n = start THEN 0 ELSE g[n - 1] + charge(n)
      OBVIOUS
    <3>1. n \in start..len + 1 /\ (n # start => n - 1 \in start..len)
      BY <1>4
    <3> QED
      BY <2>1, <3>1
  <2>3. g = [n \in start..len |-> IF n = start THEN 0 ELSE g[n - 1] + charge(n)]
    BY <2>2
  <2>4. len \in start..len /\ g[len] = f[len]
    BY <1>4
  <2> HIDE DEF g
  <2>5. RunningSum(g)
    BY <1>1, <2>3
  <2>6. g[len] = used
    BY <2>5 DEF SumsToUsed, len
  <2>7. f[len + 1] = f[len] + charge(len + 1)
    <3>1. len + 1 \in start..len + 1 /\ len + 1 # start /\ (len + 1) - 1 = len
      BY <1>4
    <3> QED
      BY <2>1, <3>1
  <2> QED
    BY <1>3, <2>4, <2>6, <2>7
<1>7. PICK f : RunningSum(f)
  BY DEF SumsToUsed
<1>8. \E g : RunningSum(g)'
  BY <1>5, <1>7
<1> QED
  BY <1>6, <1>8 DEF SumsToUsed, len

(* One more event, which obeys the rules with respect to what has failed,    *)
(* keeps the five parts of the invariant that are about the log.             *)
LEMMA ReportKeeps ==
    ASSUME PolicyInv, NEW image \in Images,
           NEW code \in Codes, NEW decoder \in BOOLEAN, NEW authentic \in BOOLEAN,
           Report(image, Verdict(code, decoder), authentic),
           failed \subseteq failed', failed' \subseteq {Key(i) : i \in Images},
           code # "Accept" => Key(image) \in failed',
           decoder => authentic,
           Key(image) \in failed => (~decoder /\ code # "Accept"),
           used' \in 0..MaxDecodedPixels, UNCHANGED start,
           used' = used + (IF code = "Accept" THEN Pixels(image) ELSE 0)
    PROVE  PolicyInv'
<1> DEFINE event == [image |-> image, code |-> code,
                     decoder |-> decoder, authentic |-> authentic]
<1>1. event \in Events
  BY DEF Events
<1>2. log' = Append(log, event)
  BY DEF Report, Verdict
<1>3. log \in Seq(Events) /\ start \in 0..Len(log)
  BY DEF PolicyInv, PolicyTypeOK
<1> HIDE DEF event
<1>4. /\ log' \in Seq(Events) /\ Len(log') = Len(log) + 1
      /\ \A n \in 1..Len(log) : log'[n] = log[n]
      /\ log'[Len(log) + 1] = event
  BY <1>1, <1>2, <1>3
<1>5. PolicyTypeOK'
  BY <1>3, <1>4 DEF PolicyTypeOK
<1>6. RefusalsRemembered'
  <2> SUFFICES ASSUME NEW n \in 1..Len(log'), log'[n].code # "Accept"
               PROVE  Key(log'[n].image) \in failed'
    BY DEF RefusalsRemembered
  <2>1. CASE n \in 1..Len(log)
    <3>1. log'[n] = log[n]
      BY <2>1, <1>4
    <3>2. Key(log[n].image) \in failed
      BY <2>1, <3>1 DEF PolicyInv, RefusalsRemembered
    <3> QED
      BY <3>1, <3>2 DEF Key
  <2>2. CASE n = Len(log) + 1
    <3>1. log'[n] = event
      BY <2>2, <1>4
    <3>2. event.image = image /\ event.code = code
      BY DEF event
    <3> QED
      BY <3>1, <3>2
  <2> QED
    BY <2>1, <2>2, <1>3, <1>4
<1>7. DecoderSeesAuthentic'
  <2> SUFFICES ASSUME NEW n \in 1..Len(log'), log'[n].decoder
               PROVE  log'[n].authentic
    BY DEF DecoderSeesAuthentic
  <2>1. CASE n \in 1..Len(log)
    BY <2>1, <1>4 DEF PolicyInv, DecoderSeesAuthentic
  <2>2. CASE n = Len(log) + 1
    <3>1. event.decoder => event.authentic
      BY DEF event
    <3> QED
      BY <3>1, <2>2, <1>4
  <2> QED
    BY <2>1, <2>2, <1>3, <1>4
<1>8. NoSecondTry'
  <2> SUFFICES ASSUME NEW n \in 1..Len(log'), NEW k \in 1..(n - 1),
                      log'[k].code # "Accept",
                      Key(log'[k].image) = Key(log'[n].image)
               PROVE  ~log'[n].decoder /\ log'[n].code # "Accept"
    BY DEF NoSecondTry, Accepted
  <2>1. k \in 1..Len(log) /\ log'[k] = log[k]
    BY <1>3, <1>4
  <2>2. CASE n \in 1..Len(log)
    BY <2>1, <2>2, <1>4 DEF PolicyInv, NoSecondTry, Accepted
  <2>3. CASE n = Len(log) + 1
    <3>1. Key(log[k].image) \in failed
      BY <2>1 DEF PolicyInv, RefusalsRemembered
    <3>2. log'[n] = event
      BY <2>3, <1>4
    <3>3. event.image = image /\ event.code = code /\ event.decoder = decoder
      BY DEF event
    <3>4. Key(log[k].image) = Key(image)
      BY <2>1, <3>2, <3>3
    <3> QED
      BY <3>1, <3>2, <3>3, <3>4
  <2> QED
    BY <2>2, <2>3, <1>3, <1>4
<1>9. SumsToUsed'
  <2>1. event.code = code /\ event.image = image
    BY DEF event
  <2> QED
    BY <1>3, <1>4, <2>1, SumExtends DEF PolicyInv
<1> QED
  BY <1>5, <1>6, <1>7, <1>8, <1>9 DEF PolicyInv

----------------------------------------------------------------------------
LEMMA PolicyInitial == Init => PolicyInv
<1> SUFFICES ASSUME Init PROVE PolicyInv
  OBVIOUS
<1>1. SumsToUsed
  BY EmptySum DEF Init
<1> QED
  BY <1>1, PolicyAssumption
     DEF Init, PolicyInv, PolicyTypeOK, RefusalsRemembered, DecoderSeesAuthentic, NoSecondTry

LEMMA VerifyKeeps ==
    ASSUME PolicyInv, NEW image \in Images, NEW response \in Responses,
           VerifyImage(image, response)
    PROVE  PolicyInv'
<1> DEFINE verdict == RunChecks(image, response, used)
           authentic == Authentic(image, response)
<1>1. /\ used \in 0..MaxDecodedPixels
      /\ failed \subseteq {Key(i) : i \in Images}
  BY DEF PolicyInv, PolicyTypeOK
<1>2. /\ verdict.code \in Codes /\ verdict.decoder \in BOOLEAN
      /\ verdict.decoder => authentic
      /\ verdict.code = "Accept" => used + Pixels(image) <= MaxDecodedPixels
  BY <1>1, VerdictOK, PolicyAssumption
<1>3. verdict = Verdict(verdict.code, verdict.decoder)
  BY DEF RunChecks, Verdict
<1>4. authentic \in BOOLEAN
  BY AuthenticBoolean
<1>5. /\ Key(image) \notin failed
      /\ used' = used + (IF verdict.code = "Accept" THEN Pixels(image) ELSE 0)
      /\ failed' = failed \cup (IF verdict.code = "Accept" THEN {} ELSE {Key(image)})
      /\ Report(image, verdict, authentic)
      /\ UNCHANGED start
  BY DEF VerifyImage
<1> HIDE DEF verdict, authentic
<1>6. Report(image, Verdict(verdict.code, verdict.decoder), authentic)
  BY <1>3, <1>5
<1>7. used' \in 0..MaxDecodedPixels
  BY <1>1, <1>2, <1>5, PixelsNat, PolicyAssumption
<1>8. /\ failed \subseteq failed' /\ failed' \subseteq {Key(i) : i \in Images}
      /\ verdict.code # "Accept" => Key(image) \in failed'
  BY <1>1, <1>5
<1> QED
  BY <1>2, <1>4, <1>5, <1>6, <1>7, <1>8, ReportKeeps

LEMMA RefuseKeeps ==
    ASSUME PolicyInv, NEW image \in Images, NEW response \in Responses,
           RefuseAgain(image, response)
    PROVE  PolicyInv'
<1>1. /\ used \in 0..MaxDecodedPixels /\ failed \subseteq {Key(i) : i \in Images}
  BY DEF PolicyInv, PolicyTypeOK
<1>2. /\ Key(image) \in failed /\ UNCHANGED <<used, failed, start>>
      /\ Report(image, Verdict("DecodeFailed", FALSE), Authentic(image, response))
  BY DEF RefuseAgain
<1>3. /\ Authentic(image, response) \in BOOLEAN /\ "DecodeFailed" \in Codes
      /\ used' = used + 0
  BY <1>1, <1>2, AuthenticBoolean DEF Codes, Refusals
<1> QED
  BY <1>1, <1>2, <1>3, ReportKeeps

LEMMA FetchKeeps ==
    ASSUME PolicyInv, NEW image \in Images, FetchFailed(image)
    PROVE  PolicyInv'
<1>1. /\ used \in 0..MaxDecodedPixels /\ failed \subseteq {Key(i) : i \in Images}
  BY DEF PolicyInv, PolicyTypeOK
<1>2. /\ failed' = failed \cup {Key(image)} /\ UNCHANGED <<used, start>>
      /\ Report(image, Verdict("FetchFailed", FALSE), FALSE)
  BY DEF FetchFailed
<1>3. "FetchFailed" \in Codes /\ used' = used + 0
  BY <1>1, <1>2 DEF Codes, Refusals
<1> QED
  BY <1>1, <1>2, <1>3, ReportKeeps

LEMMA PolicyStep == PolicyInv /\ [Next]_vars => PolicyInv'
<1> SUFFICES ASSUME PolicyInv, [Next]_vars PROVE PolicyInv'
  OBVIOUS
<1>1. ASSUME NEW image \in Images, NEW response \in Responses,
             VerifyImage(image, response)
      PROVE  PolicyInv'
  BY <1>1, VerifyKeeps
<1>2. ASSUME NEW image \in Images, NEW response \in Responses,
             RefuseAgain(image, response)
      PROVE  PolicyInv'
  BY <1>2, RefuseKeeps
<1>3. ASSUME NEW image \in Images, FetchFailed(image) PROVE PolicyInv'
  BY <1>3, FetchKeeps
<1>4. CASE NewDocument
  <2>1. SumsToUsed'
    <3>1. start' \in Nat /\ start' = Len(log') /\ used' = 0
      BY <1>4 DEF NewDocument, PolicyInv, PolicyTypeOK
    <3>2. (start \in Nat /\ start = Len(log) /\ used = 0 => SumsToUsed)'
      BY EmptySum, PTL
    <3> QED
      BY <3>1, <3>2
  <2> QED
    BY <1>4, <2>1, PolicyAssumption
     DEF NewDocument, PolicyInv, PolicyTypeOK, RefusalsRemembered,
         DecoderSeesAuthentic, NoSecondTry, Accepted
<1>5. CASE NewSession
  <2>1. SumsToUsed'
    <3>1. start' \in Nat /\ start' = Len(log') /\ used' = 0
      BY <1>5 DEF NewSession
    <3>2. (start \in Nat /\ start = Len(log) /\ used = 0 => SumsToUsed)'
      BY EmptySum, PTL
    <3> QED
      BY <3>1, <3>2
  <2> QED
    BY <1>5, <2>1, PolicyAssumption
     DEF NewSession, PolicyInv, PolicyTypeOK, RefusalsRemembered,
         DecoderSeesAuthentic, NoSecondTry, Accepted
<1>6. CASE UNCHANGED vars
  BY <1>6 DEF vars, PolicyInv, SumsToUsed, RunningSum, PolicyTypeOK, RefusalsRemembered,
              DecoderSeesAuthentic, NoSecondTry, Accepted
<1> QED
  BY <1>1, <1>2, <1>3, <1>4, <1>5, <1>6 DEF Next

LEMMA PolicyInvariance == Spec => []PolicyInv
  BY PolicyInitial, PolicyStep, PTL DEF Spec

----------------------------------------------------------------------------
(* A document never renders more pixels than the limit: try_charge. *)
THEOREM PolicyTypeCorrect == Spec => []PolicyTypeOK
<1>1. PolicyInv => PolicyTypeOK
  BY DEF PolicyInv
<1> QED
  BY <1>1, PolicyInvariance, PTL

(* A document's budget is the pixels of the images it was told to render:    *)
(* verify_image charges an image when it accepts it, once, and never else.   *)
THEOREM BudgetIsRendered == Spec => []BudgetCountsRendered
<1>1. ASSUME PolicyInv PROVE BudgetCountsRendered
  <2>1. PICK f : RunningSum(f)
    BY <1>1 DEF PolicyInv, SumsToUsed
  <2>2. RunningSum(RenderedPixels)
    BY <2>1 DEF RunningSum, RenderedPixels
  <2> QED
    BY <1>1, <2>2 DEF PolicyInv, SumsToUsed, BudgetCountsRendered
<1> QED
  BY <1>1, PolicyInvariance, PTL

(* The decoder runs on bodies the block commits to, and on no other:         *)
(* run_checks, in its order.                                                 *)
THEOREM DecoderInputAuthentic == Spec => []DecoderSeesAuthentic
<1>1. PolicyInv => DecoderSeesAuthentic
  BY DEF PolicyInv
<1> QED
  BY <1>1, PolicyInvariance, PTL

(* A refused triple is not tried again in its session: verify_image and      *)
(* fetch_failed.                                                             *)
THEOREM RefusedForTheSession == Spec => []NoSecondTry
<1>1. PolicyInv => NoSecondTry
  BY DEF PolicyInv
<1> QED
  BY <1>1, PolicyInvariance, PTL
=============================================================================
