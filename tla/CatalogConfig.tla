--------------------------- MODULE CatalogConfig ---------------------------
(***************************************************************************)
(* The declared sources of the catalog (catalog.ts): what the operator's   *)
(* file allows, once the configuration reader has parsed it, and which     *)
(* endpoint a check asks.                                                  *)
(*                                                                         *)
(* A file is a record of the fields the code looks at; a field is None     *)
(* when it is absent and Bad when it has a type the code rejects:          *)
(*   head      apiVersion, kind, mappings and the fields not named here    *)
(*             are as required                                             *)
(*   timezone  of the schedule                                             *)
(*   hosts, bytes, https, within   the limits, as they are written         *)
(*   api       the endpoint: [url, enabled, optional, credential]          *)
(* An unreadable file is None.                                             *)
(***************************************************************************)
EXTENDS Integers

CONSTANTS
  None, Bad,
  Utc,          \* the one supported time zone
  DefaultBytes, \* maxResponseBytes of a file that has none
  Credentials   \* references whose secret is in the environment

\* A switch is on unless the file says false, whatever else it says.
On(switch) == switch # FALSE

\* integer(value, label, fallback)
OrElse(value, fallback) == IF value = None THEN fallback ELSE value

\* What makes parseCatalogSources throw.
Rejected(file) ==
  \/ file = None \/ ~file.head
  \/ file.timezone \notin {None, Utc}
  \/ file.hosts = Bad \/ file.bytes = Bad \/ file.api = Bad
  \/ file.api # None /\ file.api.url \in {None, Bad}

ModelApi(api) ==
  [url |-> api.url, enabled |-> On(api.enabled), optional |-> On(api.optional),
   credential |-> IF api.credential = Bad THEN None ELSE api.credential]

\* loadCatalogSources: the sources, or None with an error.
LoadCatalogSources(file) ==
  IF Rejected(file) THEN None
  ELSE [api |-> IF file.api = None THEN None ELSE ModelApi(file.api),
        fetch |-> [allowedHosts |-> OrElse(file.hosts, {}),
                   onlyWithin |-> On(file.within), requireHttps |-> On(file.https),
                   maxBytes |-> OrElse(file.bytes, DefaultBytes)]]

\* refreshCatalog: is the declared endpoint asked, passed over, or a failure?
Attempt(sources) ==
  LET api == sources.api IN
  CASE api = None -> "skipped"
    [] api # None /\ ~api.enabled -> "skipped"
    [] api # None /\ api.enabled /\ api.credential \in Credentials -> "asked"
    [] OTHER -> IF api.optional THEN "skipped" ELSE "failed"
=============================================================================
