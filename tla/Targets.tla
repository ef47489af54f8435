-------------------------------- MODULE Targets --------------------------------
(***************************************************************************)
(* The target of an HTTP request: how url parses it, what http_service     *)
(* makes of it, and how it is written for the server.  A text is a         *)
(* sequence of words and delimiters; "?" stands for ; ? and #.             *)
(***************************************************************************)
EXTENDS Naturals, Sequences, FiniteSetsExt

CONSTANTS
    Ports,      \* words that are numbers a port can have; "80" and "443" among them
    Requests    \* what clients ask for: records of a form, a scheme, a user, a host, a port,
                \* a path and a search; form "rootless" has no netloc

(* A host holds no delimiter but the colons of an address, which does not   *)
(* end like a port; a path starts with a slash and holds no search, which  *)
(* has a delimiter of its own.                                             *)
ASSUME RequestAssumption ==
    /\ Ports \subseteq STRING /\ {"80", "443"} \subseteq Ports
    /\ Ports \intersect {":", "/", "@", "?", "none"} = {}
    /\ \A m \in Requests :
          /\ m.form \in {"origin", "absolute", "authority", "asterisk", "rootless"}
          /\ m.scheme \in STRING \ {":", "/"} /\ m.port \in Ports \union {"none"}
          /\ m.user \in Seq(STRING) /\ m.host \in Seq(STRING)
          /\ m.path \in Seq(STRING) /\ m.search \in Seq(STRING)
          /\ m.form \in {"origin", "absolute", "authority"} =>
                /\ m.host \notin {<<>>, <<"*">>}
                /\ \A i \in DOMAIN m.host :
                      /\ m.host[i] \notin {"/", "@", "?"}
                      /\ m.host[i] = ":" => ~(i + 1 = Len(m.host) /\ m.host[i + 1] \in Ports)
          /\ m.form \in {"origin", "absolute"} =>
                /\ m.form = "origin" \/ m.path # <<>> => (m.path # <<>> /\ m.path[1] = "/")
                /\ \A i \in DOMAIN m.path : m.path[i] # "?"
                /\ m.search # <<>> => m.search[1] = "?"

VARIABLES
    asked,      \* the request as its client means it
    secured,    \* TLS has been established with the server
    target,     \* request::target_
    host_header,\* the Host header; empty is none
    handling    \* "received", "parsed", "valid" or "refused"

targetVars == <<asked, secured, target, host_header, handling>>

NoNetloc == [username |-> <<>>, password |-> <<>>, host |-> <<>>, port |-> "none"]

EmptyUrl(form) == [form |-> form, scheme |-> <<>>, netloc |-> NoNetloc, path |-> <<>>, search |-> <<>>]

(***************************************************************************)
(* What a client writes.                                                   *)
(***************************************************************************)

HostText(host, port) == host \o (IF port = "none" THEN <<>> ELSE <<":", port>>)

UserText(m) == IF m.user = <<>> THEN <<>> ELSE m.user \o <<"@">>

AbsoluteText(m, port) ==
    <<m.scheme, ":", "/", "/">> \o UserText(m) \o HostText(m.host, port) \o m.path \o m.search

TargetText(m) ==
    CASE m.form = "asterisk"  -> <<"*">>
      [] m.form = "origin"    -> m.path \o m.search
      [] m.form = "authority" -> HostText(m.host, m.port)
      [] m.form = "absolute"  -> AbsoluteText(m, m.port)
      [] m.form = "rootless"  -> <<m.scheme, ":">> \o m.path \o m.search

(***************************************************************************)
(* Parsing.  The place behind the end stands for npos.                     *)
(***************************************************************************)

Find(text, words, from) == Min({i \in from..Len(text) : text[i] \in words} \union {Len(text) + 1})

Found(text, i) == i =< Len(text)

Part(text, from, to) == SubSeq(text, from, to - 1)

Behind(text, from) == SubSeq(text, from, Len(text))

(* What the buffer holds at i; a blank follows the target. *)
At(text, i) == IF Found(text, i) THEN text[i] ELSE " "

(* parse_port: the number, or "none" where it is not one in range. *)
ParsePort(text) == IF Len(text) = 1 /\ text[1] \in Ports THEN text[1] ELSE "none"

(* Mutant: the host ends at the first colon, whether a port follows or not. *)
ParseNetlocShort(text) ==
    LET colon == Find(text, {":"}, 1)
    IN [NoNetloc EXCEPT !.host = Part(text, 1, colon), !.port = ParsePort(Behind(text, colon + 1))]

(* parse_netloc. *)
ParseNetloc(text) ==
    LET start == IF At(text, 1) = "/" /\ At(text, 2) = "/" THEN 3 ELSE 1
        at    == Find(text, {"@"}, start)
        pass  == Find(text, {":"}, start)
        begin == IF Found(text, at) THEN at ELSE start
        colon == Find(text, {":"}, begin)
        port  == ParsePort(Behind(text, colon + 1))
    IN [username |-> IF Found(text, at) THEN Part(text, start, at) ELSE <<>>,
        password |-> IF Found(text, at) /\ pass < at THEN Part(text, pass + 1, at) ELSE <<>>,
        port     |-> port,
        host     |-> IF port = "none" THEN Behind(text, begin) ELSE Part(text, begin, colon)]

(* The path up to the search, and the search, from a place on. *)
WithPath(u, text, from) ==
    LET delim == Find(text, {"?"}, from)
    IN [u EXCEPT !.path = Part(text, from, delim), !.search = Behind(text, delim)]

(* parse_absolute_form, behind "//".  A search that comes before the first *)
(* slash is lost.                                                          *)
WithNetloc(u, text, from) ==
    LET delim == Find(text, {"?"}, from)
        slash == Find(text, {"/"}, from)
        v     == [u EXCEPT !.netloc = ParseNetloc(Part(text, from, Min({delim, slash})))]
    IN IF ~Found(text, slash) THEN [v EXCEPT !.search = Behind(text, delim)]
       ELSE IF delim < slash THEN [v EXCEPT !.path = Behind(text, slash)]
       ELSE WithPath(v, text, slash)

(* parse_absolute_form. *)
ParseAbsolute(text) ==
    LET colon == Find(text, {":"}, 1)
        start == IF Found(text, colon) THEN colon ELSE 1
        u     == [EmptyUrl("absolute") EXCEPT
                     !.scheme = IF Found(text, colon) THEN Part(text, 1, colon) ELSE <<>>]
    IN CASE At(text, start + 1) = "/" /\ At(text, start + 2) = "/" -> WithNetloc(u, text, start + 3)
         [] At(text, start + 1) = "/" /\ At(text, start + 2) # "/" -> WithPath(u, text, start + 2)
         [] OTHER -> [u EXCEPT !.search = Behind(text, start + 1)]

(* parse_authority_form; a url without a port is refused. *)
ParseAuthority(text) ==
    LET colon == Find(text, {":"}, 1)
    IN [EmptyUrl("authority") EXCEPT !.netloc.host = Part(text, 1, colon),
                                     !.netloc.port = ParsePort(Behind(text, colon + 1))]

(* parse_target. *)
ParseTarget(text, connect) ==
    IF text = <<"*">> THEN EmptyUrl("asterisk")
    ELSE IF text[1] = "/" THEN WithPath(EmptyUrl("origin"), text, 1)
    ELSE IF connect THEN ParseAuthority(text)
    ELSE ParseAbsolute(text)

(***************************************************************************)
(* Writing.                                                                *)
(***************************************************************************)

NetlocString(netloc) ==
    IF netloc.username = <<>> /\ netloc.password = <<>> /\ netloc.host = <<>> THEN <<>>
    ELSE (IF netloc.username = <<>> THEN <<>>
          ELSE netloc.username \o (IF netloc.password = <<>> THEN <<>> ELSE <<":">> \o netloc.password)
               \o <<"@">>)
         \o HostText(netloc.host, netloc.port)

(* absolute_string. *)
AbsoluteString(u) ==
    (IF u.scheme = <<>> THEN <<>>
     ELSE u.scheme \o (IF NetlocString(u.netloc) = <<>> THEN <<":">> ELSE <<":", "/", "/">>))
    \o NetlocString(u.netloc) \o u.path \o u.search

(* operator<<, to_string. *)
Printed(u) ==
    CASE u.form = "asterisk" -> <<"*">>
      [] u.form = "origin"   -> u.path \o u.search
      [] OTHER               -> AbsoluteString(u)

(***************************************************************************)
(* The handlers.                                                           *)
(***************************************************************************)

TargetInit ==
    /\ asked \in Requests /\ secured \in BOOLEAN
    /\ host_header \in IF asked.form \in {"origin", "absolute"} THEN {<<>>, HostText(asked.host, asked.port)}
                       ELSE {<<>>}
    /\ target = EmptyUrl("asterisk")
    /\ handling = "received"

(* The types of what is parsed. *)
TargetTypeOK ==
    /\ secured \in BOOLEAN
    /\ target.form \in {"origin", "absolute", "authority", "asterisk"}
    /\ target.netloc.port \in Ports \union {"none"}
    /\ handling \in {"received", "parsed", "valid", "refused"}

(* http_parser::read_request_line. *)
ReadTarget ==
    /\ handling = "received"
    /\ target' = ParseTarget(TargetText(asked), asked.form = "authority")
    /\ handling' = IF target'.form = "authority" /\ target'.netloc.port = "none" THEN "refused" ELSE "parsed"
    /\ UNCHANGED <<asked, secured, host_header>>

(* http_service::validate_target: the host is in the target or in the Host *)
(* header, which is added where it is missing.  The scheme and the port     *)
(* that are not given follow from the connection to the server.            *)
ValidateTarget ==
    LET origin == target.form = "origin" /\ target.netloc.host = <<>>
        hosted == IF origin THEN [target EXCEPT !.netloc = ParseNetloc(host_header)]
                  ELSE IF target.form = "absolute" THEN [target EXCEPT !.form = "origin"]
                  ELSE target
        scheme == IF target.form = "authority" \/ hosted.scheme # <<>> THEN hosted.scheme
                  ELSE IF secured THEN <<"https">> ELSE <<"http">>
        port   == IF hosted.netloc.port # "none" THEN hosted.netloc.port
                  ELSE IF scheme = <<"https">> \/ secured THEN "443" ELSE "80"
    IN /\ handling = "parsed"
       /\ IF origin /\ host_header = <<>>
          THEN handling' = "refused" /\ UNCHANGED <<target, host_header>>
          ELSE /\ handling' = "valid"
               /\ target' = [hosted EXCEPT !.scheme = scheme, !.netloc.port = port]
               /\ host_header' = IF target.form = "absolute" /\ host_header = <<>>
                                 THEN HostText(target.netloc.host, target.netloc.port)
                                 ELSE host_header
       /\ UNCHANGED <<asked, secured>>

TargetNext == ReadTarget \/ ValidateTarget

TargetSpec == TargetInit /\ [][TargetNext]_targetVars

(***************************************************************************)
(* Properties.                                                             *)
(***************************************************************************)

(* What parse_netloc and parse_absolute_form do not tell apart: a user, the *)
(* colons of an address before a port, a target without a path.            *)
PlainTarget(m) ==
    /\ m.form # "rootless" /\ m.user = <<>>
    /\ m.port = "none" \/ \A i \in DOMAIN m.host : m.host[i] # ":"
    /\ m.form = "absolute" => m.path # <<>>

(* The port that a client means that names none. *)
Effectively(m) ==
    IF m.port # "none" THEN m.port
    ELSE IF secured \/ (m.form = "absolute" /\ m.scheme = "https") THEN "443" ELSE "80"

(* Whichever of the four forms a client chooses for its target,             *)
(* parse_target, parse_netloc and validate_target together reach the host   *)
(* and the port that it means, forward its path and search as they were     *)
(* written, and write the URL back in full; only a target that names no     *)
(* host, and a tunnel that names no port, is refused.  The code fails for   *)
(* targets that are not plain: user information, a host with colons before  *)
(* a port, an absolute form without slashes or without a path.              *)
TargetUnderstood ==
    PlainTarget(asked) =>
    /\ handling = "refused" => \/ asked.form = "origin" /\ host_header = <<>>
                               \/ asked.form = "authority" /\ asked.port = "none"
    /\ handling = "valid" /\ asked.form # "asterisk" =>
          /\ target.netloc.host = asked.host /\ target.netloc.port = Effectively(asked)
          /\ asked.form = "authority" => Printed(target) = HostText(asked.host, asked.port)
          /\ asked.form # "authority" =>
                /\ Printed(target) = asked.path \o asked.search
                /\ host_header = HostText(asked.host, asked.port)
          /\ asked.form = "absolute" =>
                AbsoluteString(target) = AbsoluteText(asked, Effectively(asked))
=============================================================================
