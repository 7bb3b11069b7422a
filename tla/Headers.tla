-------------------------------- MODULE Headers --------------------------------
(***************************************************************************)
(* The header fields of one request and its response on their way through    *)
(* waiting room, stripper, proxy (proxy/proxy.go) and the HTTP transport.    *)
(* Each of them edits fields the others rely on: the proxy drops what        *)
(* concerns one connection only and tells the backend who the client is, the *)
(* transport and the stripper negotiate the encoding of the body, and the    *)
(* response is written below what the room has already set.                  *)
(*                                                                         *)
(* A field is the sequence of its lines, as in http.Header, and a line is    *)
(* the sequence of its comma-separated elements.  Elements of Connection are *)
(* names, elements of the Forwarded fields are addresses.  No line means      *)
(* that the field is absent, and a line without elements is empty.           *)
(*                                                                         *)
(* Of the backend one thing is assumed: Content-Encoding names the coding it *)
(* has used.  It may use one that nobody has asked for.                      *)
(***************************************************************************)
EXTENDS Sequences, SequencesExt

CONSTANTS
    Values,     \* what clients and the backend write into their fields
    Codings,    \* the content codings that backends know
    Requests,   \* the header fields of the requests that clients send
    Responses   \* the header fields of the backend's responses

hopByHopHeaders ==
    {"Connection", "Keep-Alive", "Proxy-Authenticate", "Proxy-Authorization", "TE",
     "Trailers", "Transfer-Encoding", "Upgrade"}

excludedResponseHeaders ==
    {"Connection", "Keep-Alive", "Transfer-Encoding", "Trailer", "Upgrade"}

\* The fields that tell the backend who the client is, and what they say when the
\* client is directly connected.
Introductions == {"X-Real-IP", "X-Forwarded-Host", "X-Forwarded-Proto"}

Own == [n \in Introductions |->
          IF n = "X-Real-IP" THEN "client" ELSE IF n = "X-Forwarded-Host" THEN "host" ELSE "http"]

\* The fields that are modelled.  "Cookie" and "X-Token" stand for fields that only
\* concern the client and the backend.
Names == hopByHopHeaders \cup excludedResponseHeaders \cup Introductions \cup
         {"X-Forwarded-For", "Via", "Cookie", "X-Token", "Accept-Encoding", "Range",
          "Content-Type", "Content-Encoding", "Content-Length", "Content-Range",
          "Retry-After", "X-PeakShield-Proxied"}

\* What a line may list: what the others write, and what the proxy and the
\* transport write themselves.
Words == Values \cup {"client", "host", "http", "30", "1", "1.1 peakshield",
                      "identity", "gzip"}

Headers == [Names -> Seq(Seq(Words))]

ASSUME HeadersAssumption ==
    /\ Requests \cup Responses \subseteq Headers
    /\ {"identity", "gzip"} \subseteq Codings /\ Codings \subseteq Words

VARIABLES
    at,         \* how far the request has come
    client,     \* the fields the client has sent
    method,     \* r.Method, which nobody changes
    inbound,    \* r.Header, which the stripper may edit
    strip,      \* the stripper is active for this request
    outbound,   \* outReq.Header
    autoGzip,   \* the transport has asked for gzip on its own account
    answer,     \* the fields the backend has sent
    body,       \* resp.Body: the coding the backend has used, the coding it is in, and
                \* whether it is what the backend sent
    written,    \* w.Header()
    held        \* the stripper's writer holds the page back and scans it

vars == <<at, client, method, inbound, strip, outbound, autoGzip, answer, body, written,
          held>>

-----------------------------------------------------------------------------
(* http.Header.                                                             *)

None == [n \in Names |-> <<>>]

\* The first line; an empty one if the field is absent.
Get(h, n) == IF h[n] = <<>> THEN <<>> ELSE Head(h[n])

Set(h, n, line) == [h EXCEPT ![n] = <<line>>]

Del(h, names) == [n \in Names |-> IF n \in names THEN <<>> ELSE h[n]]

\* What is listed on any line of a field.
Elements(field) == UNION {Range(field[i]) : i \in DOMAIN field}

Init ==
    /\ at = "room"
    /\ client \in Requests /\ method \in {"GET", "HEAD"}
    /\ inbound = client
    /\ strip = FALSE
    /\ outbound = None /\ autoGzip = FALSE
    /\ answer = None
    /\ body = [coding |-> "identity", encoding |-> "identity", original |-> TRUE]
    /\ written = None
    /\ held = FALSE

-----------------------------------------------------------------------------
(* On the way in.                                                           *)

\* The waiting room lets the request pass at once, or has it wait in line and has
\* set Retry-After before it knew what would come of it.
Admit ==
    /\ at = "room"
    /\ at' = "stripper"
    /\ written' \in {written, Set(written, "Retry-After", <<"30">>)}
    /\ UNCHANGED <<client, method, inbound, strip, outbound, autoGzip, answer, body, held>>

\* Faulty variant: the stripper lets the backend compress the page.
InterceptCompressed ==
    /\ at = "stripper"
    /\ at' = "proxy"
    /\ strip' \in BOOLEAN
    /\ UNCHANGED <<client, method, inbound, outbound, autoGzip, answer, body, written, held>>

\* Under load the stripper is active and withdraws the client's Accept-Encoding.
Intercept ==
    /\ at = "stripper"
    /\ at' = "proxy"
    /\ strip' \in BOOLEAN
    /\ inbound' = IF strip' THEN Del(inbound, {"Accept-Encoding"}) ELSE inbound
    /\ UNCHANGED <<client, method, outbound, autoGzip, answer, body, written, held>>

-----------------------------------------------------------------------------
(* buildBackendRequest.                                                     *)

\* Faulty variant: of several lines only the last is kept, as Set would do.
copyRequestHeadersSet(src) ==
    [n \in Names |-> IF src[n] = <<>> THEN <<>> ELSE <<Last(src[n])>>]

\* All lines are added to an empty header.
copyRequestHeaders(src) == [n \in Names |-> None[n] \o src[n]]

\* Faulty variant: the standard list first; Connection is gone when it is read.
sanitizeListFirst(h) ==
    LET g == Del(h, hopByHopHeaders) IN Del(g, Range(Get(g, "Connection")))

\* The fields that Connection nominates (in its first line, which is what Get
\* returns), then the standard ones.
sanitizeHopByHopHeaders(h) ==
    Del(Del(h, Range(Get(h, "Connection"))), hopByHopHeaders)

\* Faulty variant: the field is overwritten.
ForwardReplaced(h) == Set(h, "X-Forwarded-For", <<"client">>)

\* Faulty variant: the field is added to, and not set.
ForwardAdds(h) == [h EXCEPT !["X-Forwarded-For"] = Append(@, <<"client">>)]

\* The client's address is appended to the line that Get returns.
Forward(h) ==
    Set(h, "X-Forwarded-For", Append(Get(h, "X-Forwarded-For"), "client"))

\* What the first proxy has said about the client stays.
Introduce(h) ==
    [n \in Names |->
        IF n \in Introductions /\ Get(h, n) = <<>> THEN << <<Own[n]>> >> ELSE h[n]]

Build ==
    /\ at = "proxy"
    /\ at' = "transport"
    /\ LET h == sanitizeHopByHopHeaders(copyRequestHeaders(inbound))
       IN  outbound' = Set(Introduce(Forward(h)), "Via", <<"1.1 peakshield">>)
    /\ UNCHANGED <<client, method, inbound, strip, autoGzip, answer, body, written, held>>

-----------------------------------------------------------------------------
(* The transport and the backend (external).                                *)

\* What an answer may be encoded in: anything, if nothing was said about it.
Acceptable ==
    IF outbound["Accept-Encoding"] = <<>> /\ ~autoGzip
      THEN Codings
      ELSE {"identity"} \cup Elements(outbound["Accept-Encoding"])
                        \cup (IF autoGzip THEN {"gzip"} ELSE {})

\* The transport asks for gzip if the request does not say what it accepts, asks for
\* the whole of it and has a body to come (DisableCompression is off).  It undoes
\* the gzip it has asked for, and only that.  The backend may use any coding, and
\* says which.
RoundTrip ==
    /\ at = "transport"
    /\ at' = "answered"
    /\ autoGzip' = /\ Get(outbound, "Accept-Encoding") = <<>>
                   /\ Get(outbound, "Range") = <<>>
                   /\ method # "HEAD"
    /\ \E h \in Responses, e \in Codings :
          IF autoGzip' /\ e = "gzip"
            THEN /\ answer' = Del(h, {"Content-Encoding", "Content-Length"})
                 /\ body' = [coding |-> e, encoding |-> "identity", original |-> FALSE]
            ELSE /\ answer' = IF e = "identity" THEN Del(h, {"Content-Encoding"})
                              ELSE Set(h, "Content-Encoding", <<e>>)
                 /\ body' = [coding |-> e, encoding |-> e, original |-> TRUE]
    /\ UNCHANGED <<client, method, inbound, strip, outbound, written, held>>

-----------------------------------------------------------------------------
(* On the way out.                                                          *)

\* Faulty variant: a line replaces the one before it.
copyResponseHeadersSet(dst, src) ==
    [n \in Names |->
        IF n \in excludedResponseHeaders \/ src[n] = <<>> THEN dst[n] ELSE <<Last(src[n])>>]

\* The lines are added to those that are there.
copyResponseHeaders(dst, src) ==
    [n \in Names |-> IF n \in excludedResponseHeaders THEN dst[n] ELSE dst[n] \o src[n]]

Relay ==
    /\ at = "answered"
    /\ at' = "head"
    /\ LET h == copyResponseHeaders(written, answer)
       IN  written' = Set(Set(h, "X-PeakShield-Proxied", <<"1">>), "Via", <<"1.1 peakshield">>)
    /\ UNCHANGED <<client, method, inbound, strip, outbound, autoGzip, answer, body, held>>

IsHTML(h) == Get(h, "Content-Type") = <<"text/html">>

\* Faulty variant: the length of the unstripped page stays.
WriteHeaderKeepsLength ==
    /\ at = "head"
    /\ at' = "done"
    /\ held' = (strip /\ IsHTML(written))
    /\ body' = IF held' THEN [body EXCEPT !.original = FALSE] ELSE body
    /\ UNCHANGED <<client, method, inbound, strip, outbound, autoGzip, answer, written>>

\* The stripper's writer: a page is held back, scanned and sent without a length.
WriteHeader ==
    /\ at = "head"
    /\ at' = "done"
    /\ held' = (strip /\ IsHTML(written))
    /\ written' = IF held' THEN Del(written, {"Content-Length"}) ELSE written
    /\ body' = IF held' THEN [body EXCEPT !.original = FALSE] ELSE body
    /\ UNCHANGED <<client, method, inbound, strip, outbound, autoGzip, answer>>

Next == Admit \/ Intercept \/ Build \/ RoundTrip \/ Relay \/ WriteHeader

Spec == Init /\ [][Next]_vars

-----------------------------------------------------------------------------
(* Properties.                                                              *)

\* Values that the variables can have; what the proxy sets is one line.
TypeOK ==
    /\ at \in {"room", "stripper", "proxy", "transport", "answered", "head", "done"}
    /\ \A h \in {client, inbound, outbound, answer, written} : h \in Headers
    /\ \A n \in {"X-Forwarded-For", "Via"} : Len(outbound[n]) <= 1
    /\ strip \in BOOLEAN /\ autoGzip \in BOOLEAN /\ held \in BOOLEAN
    /\ method \in {"GET", "HEAD"}
    /\ body \in [coding : Codings, encoding : Codings, original : BOOLEAN]

Asked == at \notin {"room", "stripper", "proxy"}

\* The fields that end here: the standard ones and those the client nominates.
Nominated == Range(Get(client, "Connection"))

\* No field that only concerns the connection to the client reaches the backend,
\* neither a standard one nor one that Connection nominates.  (A nominated field
\* that the proxy itself sets holds nothing of the client's.)
HopByHopStops ==
    Asked => \A n \in Names \cap (hopByHopHeaders \cup Nominated) :
                \/ outbound[n] = <<>>
                \/ n \in Introductions /\ outbound[n] = << <<Own[n]>> >>
                \/ n = "X-Forwarded-For" /\ outbound[n] = << <<"client">> >>
                \/ n = "Via"

\* Every other field reaches the backend with all its lines in order, except the
\* encodings that the stripper withdraws.
EndToEndArrives ==
    Asked => \A n \in Names \ (hopByHopHeaders \cup Nominated) :
                \/ outbound[n] = client[n]
                \/ n \in {"X-Forwarded-For", "Via"}
                \/ n \in Introductions /\ Get(client, n) = <<>>
                \/ n = "Accept-Encoding" /\ strip

\* The backend can tell who the client is: its address ends the forwarded chain and
\* the chain before it is what the client sent first; an earlier proxy's word
\* about the client stands, and where there is none there is the proxy's.
ClientIsNamed ==
    Asked =>
       /\ Len(outbound["X-Forwarded-For"]) = 1
       /\ LET chain == Get(outbound, "X-Forwarded-For")
              prior == IF "X-Forwarded-For" \in Nominated THEN <<>>
                       ELSE Get(client, "X-Forwarded-For")
          IN  chain = Append(prior, "client")
       /\ \A n \in Introductions :
             Get(outbound, n) \in {Get(client, n), <<Own[n]>>} \ {<<>>}

\* The scanner looks for tags in text, not in a compressed page, whatever the client
\* accepts, if the backend keeps to what it was told.  "Prevent the backend from
\* sending compressed responses" (stripper.go:94) is as much as this, and no more: the
\* stripper deletes the client's wish, and what prevents compression is that the
\* transport then states one of its own and undoes it.  For a part of a page it
\* states none, any coding is acceptable, and nobody undoes it.  (The answer to HEAD
\* has nothing to scan.)
ScannerReadsText ==
    held /\ body.coding \in Acceptable /\ body.encoding # "identity" =>
        method = "HEAD" \/ Get(outbound, "Range") # <<>>

\* What the client can decode: what it has named, or anything if it has not said.
Welcome ==
    IF client["Accept-Encoding"] = <<>>
      THEN Codings
      ELSE {"identity"} \cup Elements(client["Accept-Encoding"])

\* The client's wish was taken out of the request and the transport put none in its
\* place, which happens to requests for a part and to HEAD.
WishLost ==
    client["Accept-Encoding"] # <<>> /\ outbound["Accept-Encoding"] = <<>> /\ ~autoGzip

\* What the client is told about the body is true after everyone has edited it.  It
\* is encoded as stated.  If the backend used an acceptable coding it is one the
\* client can decode, unless its wish was lost.  A length is stated only if the
\* body is what the backend sent; and the range of a part only if it is what the
\* backend sent or, which the code does not look at, the stripper has held it.
BodyAsDescribed ==
    at = "done" =>
       /\ written["Content-Encoding"] =
             IF body.encoding = "identity" THEN <<>> ELSE << <<body.encoding>> >>
       /\ body.coding \in Acceptable => body.encoding \in Welcome \/ WishLost
       /\ written["Content-Length"] # <<>> => body.original
       /\ written["Content-Range"] # <<>> /\ Get(outbound, "Range") # <<>> =>
             body.original \/ held

\* The backend's own fields reach the client with all their lines in order; only a
\* field the waiting room has set is there twice.
AnswerRelayed ==
    at = "done" => \A n \in Names \ (excludedResponseHeaders \cup {"Via", "X-PeakShield-Proxied"}) :
                      \/ written[n] = answer[n]
                      \/ n = "Retry-After" /\ Tail(written[n]) = answer[n]
                      \/ n = "Content-Length" /\ held

\* "We preserve the full chain" (proxy.go:424): every address that earlier proxies
\* have reported reaches the backend.  It does not if they are on several lines:
\* Get returns the first, and Set drops the others.
ChainIsPreserved ==
    Asked /\ "X-Forwarded-For" \notin Nominated =>
       FlattenSeq(outbound["X-Forwarded-For"])
          = Append(FlattenSeq(client["X-Forwarded-For"]), "client")
=============================================================================
