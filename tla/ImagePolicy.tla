---------------------------- MODULE ImagePolicy ----------------------------
(***************************************************************************)
(* The image verification policy of entangled-client/src/image.rs:          *)
(* verify_image and fetch_failed, over the pixel budget of a document       *)
(* (ImageBudget) and the triples that failed in a rendering session          *)
(* (NoRetrySet).  The shell fetches images in any order, any answer may      *)
(* come back for any of them, and one session shows several documents.       *)
(*                                                                           *)
(* A body is a record of its hash, its length and what the shell's decoder   *)
(* makes of it under each media type: the decoder itself is external.        *)
(***************************************************************************)
EXTENDS Integers, Sequences

CONSTANTS
    MediaTypes,         \* png, jpeg, webp
    Hashes,             \* sha256 values
    Images,             \* the image blocks of the documents
    Bodies,             \* what a server may answer
    MaxImageBytes,      \* 2 MiB in the code
    MaxDecodedPixels,   \* 16 777 216 in the code
    MaxEvents           \* bound: image resources looked at in one session

(* Result<Decoded, DecodeError>. *)
DecodeError == [width |-> -1, height |-> -1, animated |-> FALSE]
Decodings == [width : Nat, height : Nat, animated : BOOLEAN] \cup {DecodeError}

ASSUME PolicyAssumption ==
    /\ Images \subseteq [src : STRING, sha256 : Hashes, media_type : MediaTypes,
                         width : Nat, height : Nat]
    /\ Bodies \subseteq [sha256 : Hashes, len : Nat, decoded : [MediaTypes -> Decodings]]
    /\ MaxImageBytes \in Nat /\ MaxDecodedPixels \in Nat /\ MaxEvents \in Nat

VARIABLES
    used,    \* the document's ImageBudget
    failed,  \* the session's NoRetrySet
    log,     \* history variable: what the shell was told, in order
    start    \* history variable: how much of the log is about earlier documents

vars == <<used, failed, log, start>>

(* The Content-Type of a response: a media type, or one that names none. *)
Responses == [content_type : MediaTypes \cup {"other"}, body : Bodies]

Refusals == {"ContentType", "Oversize", "HashMismatch", "DecodeFailed",
             "Dimensions", "Budget", "FetchFailed"}
Codes == Refusals \cup {"Accept"}

(* The bound triple: width and height are no part of the key. *)
Key(image) == <<image.src, image.sha256, image.media_type>>
Pixels(image) == image.width * image.height

(* Is the response what the block commits to? *)
Authentic(image, response) ==
    /\ response.content_type = image.media_type
    /\ response.body.len <= MaxImageBytes
    /\ response.body.sha256 = image.sha256

(* A code, and whether the decoder was given the body. *)
Verdict(code, decoder) == [code |-> code, decoder |-> decoder]

Events == [image : Images, code : Codes, decoder : BOOLEAN, authentic : BOOLEAN]

----------------------------------------------------------------------------
(* Fault variant: the budget is compared before the image is added. *)
FaultChargesLate(budget, image) == budget <= MaxDecodedPixels

(* ImageBudget::try_charge: does the budget take the image? *)
Charges(budget, image) == budget + Pixels(image) <= MaxDecodedPixels

(* Fault variant: the hash is compared after the decoder has run. *)
FaultDecodesFirst(image, response, budget) ==
    LET body == response.body
        decoded == body.decoded[image.media_type]
    IN  IF response.content_type # image.media_type THEN Verdict("ContentType", FALSE)
        ELSE IF body.len > MaxImageBytes THEN Verdict("Oversize", FALSE)
        ELSE IF decoded = DecodeError \/ decoded.animated THEN Verdict("DecodeFailed", TRUE)
        ELSE IF body.sha256 # image.sha256 THEN Verdict("HashMismatch", TRUE)
        ELSE IF <<decoded.width, decoded.height>> # <<image.width, image.height>>
             THEN Verdict("Dimensions", TRUE)
        ELSE IF ~Charges(budget, image) THEN Verdict("Budget", TRUE)
        ELSE Verdict("Accept", TRUE)

(* run_checks: the first step that fails names the refusal. *)
RunChecks(image, response, budget) ==
    LET body == response.body
        decoded == body.decoded[image.media_type]
    IN  IF response.content_type # image.media_type THEN Verdict("ContentType", FALSE)
        ELSE IF body.len > MaxImageBytes THEN Verdict("Oversize", FALSE)
        ELSE IF body.sha256 # image.sha256 THEN Verdict("HashMismatch", FALSE)
        ELSE IF decoded = DecodeError \/ decoded.animated THEN Verdict("DecodeFailed", TRUE)
        ELSE IF <<decoded.width, decoded.height>> # <<image.width, image.height>>
             THEN Verdict("Dimensions", TRUE)
        ELSE IF ~Charges(budget, image) THEN Verdict("Budget", TRUE)
        ELSE Verdict("Accept", TRUE)

----------------------------------------------------------------------------
Init ==
    /\ used = 0
    /\ failed = {}
    /\ log = <<>>
    /\ start = 0

Report(image, verdict, authentic) ==
    log' = Append(log, [image |-> image, code |-> verdict.code,
                        decoder |-> verdict.decoder, authentic |-> authentic])

(* Fault variant: what was decoded is charged, refused or not. *)
FaultChargesRefused(image, response) ==
    /\ Len(log) < MaxEvents
    /\ Key(image) \notin failed
    /\ LET verdict == RunChecks(image, response, used)
       IN  /\ used' = used + (IF verdict.decoder /\ Charges(used, image)
                              THEN Pixels(image) ELSE 0)
           /\ failed' = failed \cup (IF verdict.code = "Accept" THEN {} ELSE {Key(image)})
           /\ Report(image, verdict, Authentic(image, response))
    /\ UNCHANGED start

(* verify_image of a triple that has not failed. *)
VerifyImage(image, response) ==
    /\ Len(log) < MaxEvents
    /\ Key(image) \notin failed
    /\ LET verdict == RunChecks(image, response, used)
       IN  /\ used' = used + (IF verdict.code = "Accept" THEN Pixels(image) ELSE 0)
           /\ failed' = failed \cup (IF verdict.code = "Accept" THEN {} ELSE {Key(image)})
           /\ Report(image, verdict, Authentic(image, response))
    /\ UNCHANGED start

(* verify_image of a triple that failed: refused, whatever came back, as if  *)
(* it had not decoded.                                                       *)
RefuseAgain(image, response) ==
    /\ Len(log) < MaxEvents
    /\ Key(image) \in failed
    /\ Report(image, Verdict("DecodeFailed", FALSE), Authentic(image, response))
    /\ UNCHANGED <<used, failed, start>>

(* Fault variant: a fetch failure is only reported. *)
FaultFetchRetried(image) ==
    /\ Len(log) < MaxEvents
    /\ Report(image, Verdict("FetchFailed", FALSE), FALSE)
    /\ UNCHANGED <<used, failed, start>>

(* fetch_failed: no response, a status other than 200, a timeout. *)
FetchFailed(image) ==
    /\ Len(log) < MaxEvents
    /\ failed' = failed \cup {Key(image)}
    /\ Report(image, Verdict("FetchFailed", FALSE), FALSE)
    /\ UNCHANGED <<used, start>>

(* The session shows another document: ImageBudget::new. *)
NewDocument ==
    /\ start < Len(log)
    /\ used' = 0
    /\ start' = Len(log)
    /\ UNCHANGED <<failed, log>>

(* A new rendering session: NoRetrySet::new and a new document. *)
NewSession ==
    /\ log # <<>>
    /\ used' = 0 /\ failed' = {} /\ log' = <<>> /\ start' = 0

Next ==
    \/ \E image \in Images, response \in Responses :
          VerifyImage(image, response) \/ RefuseAgain(image, response)
    \/ \E image \in Images : FetchFailed(image)
    \/ NewDocument \/ NewSession

Spec == Init /\ [][Next]_vars

----------------------------------------------------------------------------
(* The budget a document has used never passes the limit. *)
PolicyTypeOK ==
    /\ used \in 0..MaxDecodedPixels
    /\ failed \subseteq {Key(image) : image \in Images}
    /\ log \in Seq(Events)
    /\ start \in 0..Len(log)

Accepted(n) == log[n].code = "Accept"

(* What the document has rendered up to the n-th event of the session. *)
RenderedPixels[n \in start..Len(log)] ==
    IF n = start THEN 0
    ELSE RenderedPixels[n - 1] + (IF Accepted(n) THEN Pixels(log[n].image) ELSE 0)

(* A document's budget is the pixels of the images it was told to render,    *)
(* each time it was told so, and of no image it refused: what charges the    *)
(* budget early, twice or for a refused image shows here.                    *)
BudgetCountsRendered == used = RenderedPixels[Len(log)]

(* The image decoder is only given bodies the signed block commits to, by    *)
(* type, size and hash (image.rs: "authenticated by hash before decoding").   *)
DecoderSeesAuthentic ==
    \A n \in 1..Len(log) : log[n].decoder => log[n].authentic

(* Once a triple was refused, for whatever reason and in whatever document,  *)
(* the rest of the session neither decodes nor renders an image of it, the   *)
(* blocks that declare other dimensions for it included.                     *)
NoSecondTry ==
    \A n \in 1..Len(log) : \A k \in 1..(n - 1) :
        (log[k].code # "Accept" /\ Key(log[k].image) = Key(log[n].image)) =>
            (~log[n].decoder /\ ~Accepted(n))

(* "it and every subsequent image in the document is refused", the doc of    *)
(* ImageBudget says: after a budget refusal the document renders no image.   *)
RefusesTheRest ==
    \A k, n \in (start + 1)..Len(log) :
        (k < n /\ log[k].code = "Budget") => ~Accepted(n)
=============================================================================
