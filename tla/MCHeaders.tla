------------------------------ MODULE MCHeaders ------------------------------
(* Requests and responses for TLC: a few values for each field that matters.  *)
EXTENDS Headers

MCValues ==
    {"close", "X-Token", "Keep-Alive", "X-Forwarded-For", "Accept-Encoding", "Connection",
     "X-Real-IP", "Via", "k", "t", "v", "w", "a", "b", "https", "br", "text/html",
     "image/png", "9", "5", "0-8"}

MCCodings == {"identity", "gzip", "br"}

\* A header with these fields and no other.
Header(fields) ==
    [n \in Names |-> IF n \in DOMAIN fields THEN fields[n] ELSE <<>>]

Two == << <<"v">>, <<"w">> >>

MCRequests ==
    {Header(("Connection" :> c) @@ ("Keep-Alive" :> k) @@ ("TE" :> k)
            @@ ("X-Token" :> << <<"t">> >>) @@ ("Cookie" :> Two)
            @@ ("X-Real-IP" :> r) @@ ("X-Forwarded-For" :> f)
            @@ ("X-Forwarded-Proto" :> << <<"https">> >>)
            @@ ("Accept-Encoding" :> e) @@ ("Range" :> g)) :
        c \in {<<>>, << <<"close">> >>, << <<"X-Token">> >>,
               << <<"Keep-Alive", "X-Token", "X-Forwarded-For">> >>,
               << <<"Accept-Encoding">>, <<"X-Token">> >>,
               << <<"Connection", "X-Real-IP", "Via">> >>},
        k \in {<<>>, << <<"k">> >>},
        g \in {<<>>, << <<"0-8">> >>},
        r \in {<<>>, << <<>> >>, << <<"a">> >>},
        f \in {<<>>, << <<"a", "b">> >>, << <<"a">>, <<"b">> >>},
        e \in {<<>>, << <<>> >>, << <<"gzip", "br">> >>, << <<"gzip">>, <<"br">> >>}}

MCResponses ==
    {Header(("Content-Type" :> << <<t>> >>) @@ ("Content-Length" :> l)
            @@ ("Cookie" :> Two) @@ ("Connection" :> << <<"close">> >>)
            @@ ("Content-Range" :> p) @@ ("Retry-After" :> r)) :
        t \in {"text/html", "image/png"},
        l \in {<<>>, << <<"9">> >>},
        p \in {<<>>, << <<"0-8">> >>},
        r \in {<<>>, << <<"5">> >>}}
=============================================================================
