----------------------------- MODULE ModelClient -----------------------------
(***************************************************************************)
(* OpenAICompatibleLLMClient: a chat request with its retries and its      *)
(* fallback profile, and a request for an edited image.  ModelReply says   *)
(* what is made of the answer of a chat.                                   *)
(*                                                                         *)
(* One call at a time, as one turn makes them.  Of an endpoint's reply     *)
(* only its class matters: "busy" is a status worth a retry, "down" a      *)
(* connection error or a timeout, "refused" any other status or transport  *)
(* error, "faulty" a reply of status 200 that carries an error object.  A  *)
(* request is one call of the SDK, which may have retries of its own.      *)
(***************************************************************************)
EXTENDS Naturals, Sequences, FiniteSets

CONSTANT MaxTries       \* DEFAULT_MAX_RETRIES

ASSUME ClientAssumption == MaxTries \in Nat \ {0}

VARIABLES
    llm_keys,       \* the profiles configured with a key
    llm_at,         \* where the call is
    llm_use,        \* the profile in use
    llm_tries,      \* requests made with it
    llm_log,        \* the requests of the call and their outcomes
    llm_image       \* the image given back

llm_vars == <<llm_keys, llm_at, llm_use, llm_tries, llm_log, llm_image>>

Profile == {"primary", "fallback", "image"}

Outage == {"busy", "down"}

LlmInit == /\ llm_keys \in SUBSET Profile
           /\ llm_at = "idle" /\ llm_use = "primary" /\ llm_tries = 0
           /\ llm_log = <<>> /\ llm_image = "none"

(***************************************************************************)
(* The call.                                                               *)
(***************************************************************************)
\* A profile without a key fails before anything is sent; there is no
\* fallback from that.
BeginCall(profile) ==
    /\ llm_use' = profile /\ llm_tries' = 0 /\ llm_log' = <<>>
    /\ llm_at' = IF profile \in llm_keys THEN "asking" ELSE "failed"
    /\ UNCHANGED <<llm_keys, llm_image>>

Requested(outcome) == /\ llm_at = "asking"
                      /\ llm_log' = Append(llm_log, <<llm_use, outcome>>)
                      /\ UNCHANGED <<llm_keys, llm_image>>

EndpointAnswers == /\ Requested("ok")
                   /\ llm_at' = "answered"
                   /\ UNCHANGED <<llm_use, llm_tries>>

\* Mutant: off by one.
MayRetryOnceMore(outcome) == outcome \in Outage /\ llm_tries < MaxTries

MayRetry(outcome) == outcome \in Outage /\ llm_tries < MaxTries - 1

RetryLater == \E outcome \in Outage :
                 /\ MayRetry(outcome)
                 /\ Requested(outcome)
                 /\ llm_tries' = llm_tries + 1
                 /\ UNCHANGED <<llm_at, llm_use>>

\* The error of the last try decides; images have no fallback.
MayFallBack(outcome) == /\ llm_use = "primary"
                        /\ outcome \in Outage
                        /\ "fallback" \in llm_keys

FallBack == \E outcome \in Outage :
               /\ ~MayRetry(outcome) /\ MayFallBack(outcome)
               /\ Requested(outcome)
               /\ llm_use' = "fallback" /\ llm_tries' = 0
               /\ UNCHANGED llm_at

CallFails == \E outcome \in Outage \cup {"refused", "faulty"} :
                /\ ~MayRetry(outcome) /\ ~MayFallBack(outcome)
                /\ outcome = "faulty" => llm_use # "image"
                /\ Requested(outcome)
                /\ llm_at' = "failed"
                /\ UNCHANGED <<llm_use, llm_tries>>

\* Whoever made the call takes what came of it.
EndCall == /\ llm_at' = "idle" /\ llm_use' = "primary"
           /\ llm_tries' = 0 /\ llm_log' = <<>>
           /\ UNCHANGED <<llm_keys, llm_image>>

LlmStep == EndpointAnswers \/ RetryLater \/ FallBack \/ CallFails

(***************************************************************************)
(* Images.  A reply is the sequence of the things in it that look like an  *)
(* image: base64 of the "input" or of an "edited" image, "junk" that does  *)
(* not decode, a "link" in a field that is only read as a URL, and a URL   *)
(* where base64 is looked for: base64 skips the characters it does not     *)
(* know, so whether a URL decodes, to garbage, is a matter of its length.  *)
(***************************************************************************)
Candidate == {"input", "edited", "junk", "link", "url", "decoding_url"}

Decoded(c) == CASE c \in {"input", "edited"} -> c
                [] c = "decoding_url" -> "garbage"
                [] OTHER -> "nothing"

Usable(image) == image \notin {"nothing", "input"}

\* _extract_image_bytes_from_payload: the first candidate that decodes to
\* something else than the input.
ExtractImageBytes(reply) ==
    LET good == {i \in DOMAIN reply : Usable(Decoded(reply[i]))}
    IN IF good = {} THEN "nothing"
       ELSE Decoded(reply[CHOOSE i \in good : \A j \in good : i <= j])

HasUrl(reply) == \E i \in DOMAIN reply : reply[i] \in {"link", "url", "decoding_url"}

\* The end of generate_image_edit: a URL is fetched only when nothing
\* decodes, and what it gives must not be the input either.
ReadImage(reply, fetched) ==
    /\ llm_at = "answered" /\ llm_use = "image"
    /\ llm_at' = "idle"
    /\ LET decoded == ExtractImageBytes(reply)
           got == IF decoded = "nothing" /\ HasUrl(reply) THEN fetched ELSE decoded
       IN llm_image' = IF Usable(got) THEN got ELSE "failed"
    /\ UNCHANGED <<llm_keys, llm_use, llm_tries, llm_log>>

BeginImage == llm_at = "idle" /\ BeginCall("image")

ImageFails == /\ llm_at = "failed" /\ llm_use = "image"
              /\ llm_at' = "idle" /\ llm_image' = "failed"
              /\ UNCHANGED <<llm_keys, llm_use, llm_tries, llm_log>>

BeginChat == llm_at = "idle" /\ BeginCall("primary")

EndChat == llm_at \in {"answered", "failed"} /\ llm_use # "image" /\ EndCall

LlmNext == \/ BeginChat \/ BeginImage \/ LlmStep \/ EndChat \/ ImageFails
           \/ \E reply \in UNION {[1..n -> Candidate] : n \in 0..2},
                 fetched \in {"nothing", "input", "edited"} : ReadImage(reply, fetched)

LlmSpec == LlmInit /\ [][LlmNext]_llm_vars

(***************************************************************************)
(* Properties.                                                             *)
(***************************************************************************)
Spent(profile) == Cardinality({i \in DOMAIN llm_log : llm_log[i][1] = profile})

\* The endpoint is asked again only after an outage, at most MaxTries times
\* for a profile, the fallback only when the primary used up its tries; and
\* an outage ends a call only when every profile the call may use did
\* (OpenAICompatibleLLMClient.chat_with_tools).
EveryRetryIsJustified ==
    LET last == llm_log[Len(llm_log)]
    IN /\ \A i \in DOMAIN llm_log :
             i < Len(llm_log) => llm_log[i][2] \in Outage
       /\ \A p \in Profile : Spent(p) <= MaxTries
       /\ Spent("fallback") > 0 => Spent("primary") = MaxTries
       /\ llm_at = "failed" /\ llm_log # <<>> /\ last[2] \in Outage =>
             /\ Spent(last[1]) = MaxTries
             /\ last[1] = "primary" => "fallback" \notin llm_keys

\* "Extract an image URL when endpoint returns URL instead of base64": what
\* is given back is an edited image (_extract_image_url_from_payload).  The code
\* does not keep it: a link is decoded like the image itself.
ImagesAreEdits == llm_image \in {"none", "failed", "edited"}
=============================================================================
