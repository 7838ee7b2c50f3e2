------------------------------ MODULE Provider ------------------------------
(***************************************************************************)
(* The model behind OllamaProvider (plugin-provider-ollama) and what the   *)
(* pipeline makes of its answer (parse_llm_output).  The server may do     *)
(* anything; generate and parse_llm_output decide what it amounts to.      *)
(*                                                                         *)
(* A text is the sequence of its fragments: prose, a lone brace, or a JSON *)
(* object that carries a status.  Prompts, usage figures and the stripping *)
(* of control characters are left out, and so are the wordings of errors.  *)
(***************************************************************************)
EXTENDS Naturals, Sequences

\* The request got no answer: the 30 seconds passed, nobody listened, or the
\* network broke.
NoAnswer == {"timeout", "refused", "broken"}

\* Bodies that are no answer of the protocol: over MAX_RESPONSE_BYTES, cut off
\* while it was read, not the JSON that was expected.
BadBody == {<<"too large">>, <<"cut off">>, <<"foreign">>}

\* Fragments that are JSON objects with a status field, by what it says (in any
\* case of letters); "else" is a status that is neither done nor blocked.
StatusObject == {"done", "blocked", "else"}

Fragment == {"prose", "brace"} \cup StatusObject

ReplyType == [fate : NoAnswer \cup {"answered"}, status : 0..599,
              body : Seq(Fragment) \cup BadBody]

\* Mutant: the status of the response is not looked at.
GenerateError_AnyStatus(reply) ==
  IF reply.fate # "answered" \/ reply.body \in BadBody THEN "Transport" ELSE "none"

\* generate, when it fails.  Redirects are not followed: a 3xx is read like a 200.
GenerateError(reply) ==
  IF reply.fate # "answered" THEN "Transport"
  ELSE IF reply.status = 401 THEN "Unauthorized"
  ELSE IF reply.status = 429 THEN "RateLimited"
  ELSE IF reply.status >= 400 THEN "Provider"
  ELSE IF reply.body \in BadBody THEN "Transport"
  ELSE "none"

\* parse_llm_output tries every "{" in turn, but the candidate is the whole rest of
\* the text: an object counts only if nothing follows it, so it is the last one.
ParseOutput(text) ==
  IF text # <<>> /\ text[Len(text)] \in {"done", "blocked"}
  THEN text[Len(text)] ELSE "unparseable"

\* What came of a call of the model, as the pipeline's (is_blocked, content).
Verdict(reply) ==
  IF GenerateError(reply) # "none" THEN "failed" ELSE ParseOutput(reply.body)
=============================================================================
