--------------------------- MODULE CatalogFetch ---------------------------
(***************************************************************************)
(* One request to a declared source of the catalog, under the limits of    *)
(* the configuration (catalog.ts).  A URL is a record [secure, host]; a    *)
(* reply is a record [kind, location, declared, chunks]: a redirect to a   *)
(* location, an answer with its declared length and the sizes of the       *)
(* chunks of its body, or a timeout.                                       *)
(***************************************************************************)
EXTENDS SequencesExt, CatalogConfig

CONSTANTS MaxHops  \* redirects that are followed (3 in the code)

\* assertAllowed
Allowed(url, limits) ==
  (limits.requireHttps => url.secure) /\ url.host \in limits.allowedHosts

\* readCapped: bytes kept, and whether the cap was respected.
ReadCapped(reply, limits) ==
  IF reply.declared # None /\ reply.declared > limits.maxBytes THEN [bytes |-> 0, ok |-> FALSE]
  ELSE FoldLeft(LAMBDA acc, n : IF ~acc.ok \/ acc.bytes + n > limits.maxBytes
                                THEN [acc EXCEPT !.ok = FALSE]
                                ELSE [acc EXCEPT !.bytes = @ + n],
                [bytes |-> 0, ok |-> TRUE], reply.chunks)

\* sent: the URLs asked for.  result: "pending", "failed", "body", or "skipped"
\* when there is nothing to ask.
Ended(result) == [sent |-> <<>>, result |-> result, bytes |-> 0]
Ask(url)      == [sent |-> <<url>>, result |-> "pending", bytes |-> 0]

\* Mutant: only the declared URL is checked.
FollowAny(f, url, limits) ==
  IF Len(f.sent) > MaxHops THEN [f EXCEPT !.result = "failed"]
  ELSE [f EXCEPT !.sent = Append(@, url)]

\* A redirect: the next request, unless it leaves the allowed hosts or is
\* one too many.
Follow(f, url, limits) ==
  IF (limits.onlyWithin /\ ~Allowed(url, limits)) \/ Len(f.sent) > MaxHops
  THEN [f EXCEPT !.result = "failed"]
  ELSE [f EXCEPT !.sent = Append(@, url)]

Receive(f, reply, limits) ==
  CASE f.result # "pending" -> f
    [] f.result = "pending" /\ reply.kind = "redirect" ->
         IF reply.location = None THEN [f EXCEPT !.result = "failed"]
         ELSE Follow(f, reply.location, limits)
    [] f.result = "pending" /\ reply.kind = "answer" ->
         LET body == ReadCapped(reply, limits) IN
         [f EXCEPT !.result = IF body.ok THEN "body" ELSE "failed", !.bytes = body.bytes]
    [] OTHER -> [f EXCEPT !.result = "failed"]

\* fetchLimited, when the network answers with these replies.
FetchLimited(url, replies, limits) ==
  IF ~Allowed(url, limits) THEN Ended("failed")
  ELSE FoldLeft(LAMBDA f, reply : Receive(f, reply, limits), Ask(url), replies)

\* checkCatalog and refreshCatalog, for the declared endpoint.
CheckEndpoint(file, replies) ==
  LET sources == LoadCatalogSources(file) IN
  IF sources = None THEN Ended("failed")
  ELSE IF Attempt(sources) # "asked" THEN Ended(Attempt(sources))
  ELSE FetchLimited(sources.api.url, replies, sources.fetch)
=============================================================================
