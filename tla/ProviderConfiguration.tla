------------------------- MODULE ProviderConfiguration -------------------------
(***************************************************************************)
(* GenericHttpProvider, the one provider of the registry: what it makes of *)
(* a submitted configuration, {"base_url": <text>}.  A configuration is    *)
(* the shape of its text: the parts urlsplit finds in it, and for each     *)
(* part what the provider tells apart.                                     *)
(*                                                                         *)
(* The output is a text that is stored, read back and compiled again, so   *)
(* it is described by the same record as the input.                        *)
(***************************************************************************)
EXTENDS Integers, Sequences, FiniteSets

CONSTANT None   \* ProviderConfigurationError

Characters == {"slash", "blank", "letter"}
Hosts == {"absent", "name", "NAME", "ipv6", "spaced"}
Ports == {"absent", "empty", "443", "8443", "invalid"}

(* form is "other" for a value that is not a mapping of just base_url to a *)
(* text, or whose text is empty.  padded: blanks before the text (blanks   *)
(* after it belong to the path).  A query stands for a fragment as well.   *)
SubmittedConfigurations ==
  {c \in [form : {"url", "other"}, padded : BOOLEAN,
          scheme : {"https", "HTTPS", "http"}, credentials : BOOLEAN,
          host : Hosts, bracketed : BOOLEAN, port : Ports,
          path : Seq(Characters), query : {"absent", "empty", "given"}] :
     c.path # <<>> => c.path[1] = "slash"}

Casefold(text) ==
  CASE text = "HTTPS" -> "https" [] text = "NAME" -> "name" [] OTHER -> text

(* rstrip: the text up to its last character other than blank.             *)
TrimEnd(text, blank) ==
  SubSeq(text, 1, Cardinality({i \in 1..Len(text) :
                                 \E j \in i..Len(text) : text[j] # blank}))

(* urlsplit and .port raise no ValueError: only an IPv6 literal stands in  *)
(* brackets, and without them its colons would introduce a port.           *)
Parses(c) ==
  /\ c.form = "url"
  /\ c.bracketed <=> c.host = "ipv6"
  /\ c.port # "invalid"

Acceptable(c) ==
  /\ Parses(c)
  /\ Casefold(c.scheme) = "https"
  /\ c.host \notin {"absent", "spaced"}
  /\ ~c.credentials
  /\ c.query # "given"

(* Blanks at the end of the text are stripped first; they are blanks at    *)
(* the end of the path unless a "?" or "#" follows it.                     *)
StrippedPath(c) == IF c.query = "absent" THEN TrimEnd(c.path, "blank") ELSE c.path

(* Fault: .hostname drops the brackets and they are not put back.          *)
CanonicalWithoutBrackets(c) ==
  [form |-> "url", padded |-> FALSE, scheme |-> "https",
   credentials |-> FALSE, host |-> Casefold(c.host), bracketed |-> FALSE,
   port |-> IF c.port = "8443" THEN c.port ELSE "absent",
   path |-> TrimEnd(StrippedPath(c), "slash"), query |-> "absent"]

Canonical(c) ==
  [form |-> "url", padded |-> FALSE, scheme |-> "https",
   credentials |-> FALSE, host |-> Casefold(c.host),
   bracketed |-> c.host = "ipv6",
   port |-> IF c.port = "8443" THEN c.port ELSE "absent",
   path |-> TrimEnd(StrippedPath(c), "slash"), query |-> "absent"]

(* canonicalize, as compile_draft and publish call it. *)
Compile(c) == IF Acceptable(c) THEN Canonical(c) ELSE None
=============================================================================
