------------------------------- MODULE MCLibrary -------------------------------
(***************************************************************************)
(* The components that stand alone, checked side by side: each behaviour   *)
(* is one of the component "part", the others stay at one initial state.   *)
(***************************************************************************)
EXTENDS AnyInvocable, VoidResult, OpenSslPointers, Uuid, Interceptors, Bodies, HelloReader, Options,
    WebSocketParser, Targets, TLC

CONSTANT Parts      \* the components to check

VARIABLE part

libraryVars == <<part, invocableVars, resultVars, voidVars, pointerVars, uuidVars, interceptorVars,
                 bodyVars, helloVars, optionVars, parserVars, targetVars>>

Request(form, scheme, user, host, port, path, search) ==
    [form |-> form, scheme |-> scheme, user |-> user, host |-> host, port |-> port,
     path |-> path, search |-> search]

PlainRequest == Request("origin", "http", <<>>, <<"h">>, "none", <<"/">>, <<>>)

LibraryInit ==
    /\ part \in Parts
    /\ part # "invocable" => kind = [t \in Callables |-> "remote"]
    /\ InvocableInit /\ ResultInit /\ VoidInit /\ PointerInit /\ UuidInit /\ InterceptorInit
    /\ part # "hello" => record = 1 /\ isHello = TRUE
    /\ HelloInit
    /\ part # "bodies" => sent = [length |-> "chunked", chunks |-> <<>>, fault |-> "none"] /\ body = Segment
    /\ BodyInit
    /\ part # "options" => args = <<>>
    /\ OptionInit
    /\ part # "websocket" => dest = "client" /\ deflate = FALSE
    /\ ParserInit
    /\ part # "targets" => asked = PlainRequest /\ secured = FALSE /\ host_header = <<>>
    /\ TargetInit

LibraryNext ==
    \/ part = "invocable" /\ InvocableNext
       /\ UNCHANGED <<part, resultVars, voidVars, pointerVars, uuidVars,
                      interceptorVars, bodyVars, helloVars, optionVars, parserVars, targetVars>>
    \/ part = "result" /\ ResultNext
       /\ UNCHANGED <<part, invocableVars, voidVars, pointerVars, uuidVars,
                      interceptorVars, bodyVars, helloVars, optionVars, parserVars, targetVars>>
    \/ part = "optional" /\ VoidNext
       /\ UNCHANGED <<part, invocableVars, pointerVars, uuidVars, interceptorVars,
                      bodyVars, helloVars, optionVars, parserVars, targetVars>>
    \/ part = "pointers" /\ PointerNext
       /\ UNCHANGED <<part, invocableVars, resultVars, voidVars, uuidVars,
                      interceptorVars, bodyVars, helloVars, optionVars, parserVars, targetVars>>
    \/ part = "uuids" /\ UuidNext
       /\ UNCHANGED <<part, invocableVars, resultVars, voidVars, pointerVars,
                      interceptorVars, bodyVars, helloVars, optionVars, parserVars, targetVars>>
    \/ part = "interceptors" /\ InterceptorNext
       /\ UNCHANGED <<part, invocableVars, resultVars, voidVars, pointerVars,
                      uuidVars, bodyVars, helloVars, optionVars, parserVars, targetVars>>
    \/ part = "bodies" /\ BodyNext
       /\ UNCHANGED <<part, invocableVars, resultVars, voidVars, pointerVars,
                      uuidVars, interceptorVars, helloVars, optionVars, parserVars, targetVars>>
    \/ part = "hello" /\ HelloNext
       /\ UNCHANGED <<part, invocableVars, resultVars, voidVars, pointerVars,
                      uuidVars, interceptorVars, bodyVars, optionVars, parserVars, targetVars>>
    \/ part = "options" /\ OptionNext
       /\ UNCHANGED <<part, invocableVars, resultVars, voidVars, pointerVars,
                      uuidVars, interceptorVars, bodyVars, helloVars, parserVars, targetVars>>
    \/ part = "websocket" /\ ParserNext
       /\ UNCHANGED <<part, invocableVars, resultVars, voidVars, pointerVars,
                      uuidVars, interceptorVars, bodyVars, helloVars, optionVars, targetVars>>
    \/ part = "targets" /\ TargetNext
       /\ UNCHANGED <<part, invocableVars, resultVars, voidVars, pointerVars,
                      uuidVars, interceptorVars, bodyVars, helloVars, optionVars, parserVars>>

LibrarySpec == LibraryInit /\ [][LibraryNext]_libraryVars

(* Every component's variables have their types. *)
LibraryTypeOK ==
    /\ part \in Parts
    /\ InvocableTypeOK /\ ResultTypeOK /\ VoidTypeOK /\ PointerTypeOK /\ UuidTypeOK
    /\ InterceptorTypeOK /\ BodyTypeOK /\ HelloTypeOK /\ OptionTypeOK /\ ParserTypeOK /\ TargetTypeOK

-------------------------------------------------------------------------------

LibraryHubs == {Events}

LibraryData == {"x", "CR", "LF"}

LibraryDigits == <<"0", "1", "2", "3", "4">>

LibraryChunkings ==
    LET One(n) == [1..n -> LibraryData] IN
    {<<>>} \union {<<c>> : c \in One(1) \union One(2)}
           \union {<<c, d>> : c \in One(1) \union One(2), d \in One(1) \union {<<"LF", "x">>}}

Opt(name, letter, boolean, required, fallback, accepts) ==
    [name |-> name, letter |-> letter, boolean |-> boolean, required |-> required,
     fallback |-> fallback, accepts |-> accepts]

LibraryOptions == <<
    Opt("port", "p", FALSE, FALSE, "3000", {"7", "8"}),
    Opt("help", "h", TRUE, FALSE, FALSE, {}),
    Opt("ipv6", "none", TRUE, FALSE, TRUE, {}),
    Opt("none", "k", FALSE, TRUE, "", {"7", "-", "false"})>>

Arg(form, key, text) == [form |-> form, key |-> key, text |-> text]

LibraryCommandLines ==
    UNION {[1..n -> {Arg("full", "port", "none"), Arg("full", "port", "7"), Arg("full", "port", "false"),
                     Arg("letter", "k", "none"), Arg("full", "help", "none"), Arg("letter", "h", "false"),
                     Arg("full", "ipv6", "false"), Arg("plain", "none", "8"), Arg("end", "none", "none"),
                     Arg("letter", "q", "none")}] : n \in 0..3}

LibraryRequests ==
    LET hosts    == {<<"h">>, <<"[", ":", ":", "1", "]">>}
        ports    == {"none", "80", "8080"}
        paths    == {<<"/">>, <<"/", "a">>, <<"/", "a", ":", "80">>, <<"/", "/", "a", "@">>}
        searches == {<<>>, <<"?", "q">>, <<"?", "/", ":", "q">>}
    IN {Request("origin", "http", <<>>, h, p, a, s) : h \in hosts, p \in ports, a \in paths, s \in searches}
       \union {Request("absolute", c, u, h, p, a, s) :
                   c \in {"http", "https"}, u \in {<<>>, <<"u">>, <<"u", ":", "p">>}, h \in hosts,
                   p \in ports, a \in paths \union {<<>>}, s \in searches}
       \union {Request("authority", "http", <<>>, h, p, <<>>, <<>>) : h \in hosts, p \in ports}
       \union {Request("asterisk", "http", <<>>, <<>>, "none", <<>>, <<>>)}
       \union {Request("rootless", "urn", <<>>, <<>>, "none", a, s) : a \in {<<"a">>, <<"/", "a">>}, s \in searches}

LibrarySymmetry == Permutations(Natives) \union Permutations(Callers)

===============================================================================
