----------------------------- MODULE HeadersProofs -----------------------------
(***************************************************************************)
(* Proofs about Headers for any requests and any responses.                 *)
(*                                                                         *)
(* A field is looked at through a few facts about lines (FieldFacts), and    *)
(* buildBackendRequest through what it makes of each field (BuiltField).      *)
(* With them two invariants carry the theorems: WayIn says what the request   *)
(* that goes out is made of, WayOut what is known of the response: when the   *)
(* transport has asked for gzip, how the body is encoded then, and what the   *)
(* fields say of it as they are edited.                                       *)
(***************************************************************************)
EXTENDS Headers, TLAPS

Line == Seq(Words)

Field == Seq(Line)

\* What the proofs use of sequences.
LEMMA FieldFacts ==
  /\ <<>> \in Line /\ <<>> \in Field
  /\ \A l \in Line : /\ <<l>> \in Field /\ <<l>> # <<>>
                     /\ Head(<<l>>) = l /\ Len(<<l>>) = 1
                     /\ \A e \in Words : /\ Append(l, e) \in Line
                                          /\ Append(l, e) # <<>>
  /\ \A f \in Field : /\ <<>> \o f = f
                      /\ f # <<>> => Head(f) \in Line
                      /\ \A i \in DOMAIN f : f[i] \in Line
  /\ \A l \in Line : \A f \in Field : <<l>> \o f \in Field /\ Tail(<<l>> \o f) = f
  /\ Len(<<>>) = 0
<1>1. ASSUME NEW S
      PROVE  /\ <<>> \in Seq(S)
             /\ \A x \in S : /\ <<x>> \in Seq(S) /\ <<x>> # <<>>
                             /\ Head(<<x>>) = x /\ Len(<<x>>) = 1
             /\ \A q \in Seq(S) : /\ <<>> \o q = q
                                  /\ q # <<>> => Head(q) \in S
                                  /\ \A i \in DOMAIN q : q[i] \in S
             /\ \A x \in S : \A q \in Seq(S) : /\ Append(q, x) \in Seq(S)
                                               /\ Append(q, x) # <<>>
  OBVIOUS
<1>2. ASSUME NEW S, NEW x \in S, NEW q \in Seq(S)
      PROVE  <<x>> \o q \in Seq(S) /\ Tail(<<x>> \o q) = q
  OBVIOUS
<1>3. Len(<<>>) = 0
  OBVIOUS
<1> QED  BY <1>1, <1>2, <1>3 DEF Line, Field

\* The lines that the program itself writes.
LEMMA OwnLines ==
  /\ "client" \in Words /\ "identity" \in Words /\ "gzip" \in Words
  /\ \A s \in {"1.1 peakshield", "1", "30", "client", "host", "http"} :
        <<s>> \in Line /\ << <<s>> >> \in Field
<1>1. {"1.1 peakshield", "1", "30", "client", "host", "http", "identity", "gzip"} \subseteq Words
  BY DEF Words
<1>2. \A s \in Words : <<s>> \in Line
  BY DEF Line
<1> QED  BY <1>1, <1>2, FieldFacts

\* A header has a field of every name, and so have its edits.
LEMMA HeaderFacts ==
  /\ Headers = [Names -> Field]
  /\ None \in Headers
  /\ \A h \in Headers : \A n \in Names : h[n] \in Field /\ Get(h, n) \in Line
  /\ \A h \in Headers : \A n \in Names : \A l \in Line : Set(h, n, l) \in Headers
  /\ \A h \in Headers : \A N : Del(h, N) \in Headers
<1>1. Headers = [Names -> Field]
  BY DEF Headers, Field, Line
<1> QED  BY <1>1, FieldFacts DEF None, Get, Set, Del

\* The names the steps mention are names.
LEMMA NameFacts ==
  /\ {"Connection", "X-Forwarded-For", "Via", "Accept-Encoding", "Content-Type",
      "Content-Encoding", "Content-Length", "Content-Range", "Range",
      "Retry-After", "X-PeakShield-Proxied"} \subseteq Names
  /\ hopByHopHeaders \subseteq Names /\ Introductions \subseteq Names
  /\ excludedResponseHeaders \subseteq Names
  /\ "Accept-Encoding" \notin hopByHopHeaders
BY DEF Names, hopByHopHeaders, Introductions, excludedResponseHeaders

-----------------------------------------------------------------------------
(* buildBackendRequest.                                                     *)

\* What is sent for a request with header h.
Built(h) ==
    Set(Introduce(Forward(sanitizeHopByHopHeaders(copyRequestHeaders(h)))),
        "Via", <<"1.1 peakshield">>)

\* The fields of h that end at the proxy.
Stopped(h) == hopByHopHeaders \cup Range(Get(h, "Connection"))

\* What is left of a field before the proxy adds to it.
Kept(h, n) == IF n \in Stopped(h) THEN <<>> ELSE h[n]

\* Each field of what is sent, from the field of the same name that came in.
LEMMA BuiltField ==
  ASSUME NEW h \in Headers, NEW n \in Names
  PROVE  Built(h)[n] =
           IF n = "Via" THEN << <<"1.1 peakshield">> >>
           ELSE IF n = "X-Forwarded-For"
             THEN << Append(IF Kept(h, n) = <<>> THEN <<>> ELSE Head(Kept(h, n)), "client") >>
           ELSE IF n \in Introductions /\ (Kept(h, n) = <<>> \/ Head(Kept(h, n)) = <<>>)
             THEN << <<Own[n]>> >>
           ELSE Kept(h, n)
<1>1. copyRequestHeaders(h) = h
  BY HeaderFacts, FieldFacts DEF copyRequestHeaders, None
<1> DEFINE g == sanitizeHopByHopHeaders(h)
<1>2. g = [m \in Names |-> Kept(h, m)]
  BY DEF sanitizeHopByHopHeaders, Del, Kept, Stopped
<1>3. \A m \in Names : Get(g, m) = IF Kept(h, m) = <<>> THEN <<>> ELSE Head(Kept(h, m))
  BY <1>2 DEF Get
<1> HIDE DEF g
<1> DEFINE f == Forward(g)
<1>4. f = [m \in Names |-> IF m = "X-Forwarded-For"
                             THEN << Append(Get(g, "X-Forwarded-For"), "client") >>
                             ELSE g[m]]
  BY <1>2 DEF Forward, Set
<1>5. \A m \in Introductions : m # "X-Forwarded-For" /\ m # "Via" /\ m \in Names
  BY DEF Introductions, Names
<1>6. \A m \in Introductions : Get(f, m) = Get(g, m)
  BY <1>4, <1>5 DEF Get
<1> HIDE DEF f
<1>7. Introduce(f) = [m \in Names |->
                        IF m \in Introductions /\ Get(g, m) = <<>> THEN << <<Own[m]>> >>
                                                                   ELSE f[m]]
  BY <1>6 DEF Introduce
<1>8. Built(h) = [Introduce(f) EXCEPT !["Via"] = << <<"1.1 peakshield">> >>]
  BY <1>1 DEF Built, Set, f, g
<1>9. CASE n = "Via"
  BY <1>7, <1>8, <1>9
<1>10. CASE n = "X-Forwarded-For"
  BY <1>3, <1>4, <1>5, <1>7, <1>8, <1>10
<1>11. CASE n \in Introductions
  BY <1>2, <1>3, <1>4, <1>5, <1>7, <1>8, <1>11
<1>12. CASE n \notin Introductions \cup {"Via", "X-Forwarded-For"}
  BY <1>2, <1>4, <1>7, <1>8, <1>12
<1> QED  BY <1>9, <1>10, <1>11, <1>12

\* What is sent is a header, with one line in each field the proxy always sets.
LEMMA BuiltType ==
  ASSUME NEW h \in Headers
  PROVE  /\ Built(h) \in Headers
         /\ Len(Built(h)["X-Forwarded-For"]) = 1 /\ Len(Built(h)["Via"]) = 1
<1>1. ASSUME NEW n \in Names PROVE Kept(h, n) \in Field
  BY HeaderFacts, FieldFacts DEF Kept
<1>2. ASSUME NEW n \in Names
      PROVE  (IF Kept(h, n) = <<>> THEN <<>> ELSE Head(Kept(h, n))) \in Line
  BY <1>1, FieldFacts
<1>3. ASSUME NEW n \in Names
      PROVE  << Append(IF Kept(h, n) = <<>> THEN <<>> ELSE Head(Kept(h, n)), "client") >> \in Field
  BY <1>2, FieldFacts, OwnLines
<1>4. \A n \in Introductions : << <<Own[n]>> >> \in Field
  <2>1. \A n \in Introductions : Own[n] \in {"client", "host", "http"}
    BY DEF Own
  <2> QED  BY <2>1, OwnLines
<1>5. << <<"1.1 peakshield">> >> \in Field
  BY OwnLines
<1>6. ASSUME NEW n \in Names PROVE Built(h)[n] \in Field
  BY <1>1, <1>3, <1>4, <1>5, BuiltField
<1>7. DOMAIN Built(h) = Names /\ Built(h) = [n \in Names |-> Built(h)[n]]
  BY DEF Built, Set, Introduce
<1>8. Built(h) \in [Names -> Field]
  BY <1>6, <1>7
<1>9. Len(Built(h)["X-Forwarded-For"]) = 1 /\ Len(Built(h)["Via"]) = 1
  BY <1>2, BuiltField, NameFacts, FieldFacts, OwnLines
<1> QED  BY <1>8, <1>9, HeaderFacts

-----------------------------------------------------------------------------
(* The invariants.                                                          *)

\* The stripper only takes a field away, and what is sent is built from the rest.
WayIn ==
    /\ at \in {"room", "stripper", "proxy", "transport", "answered", "head", "done"}
    /\ strip \in BOOLEAN /\ autoGzip \in BOOLEAN
    /\ at \in {"room", "stripper"} => ~strip
    /\ client \in Requests /\ method \in {"GET", "HEAD"}
    /\ inbound = IF strip THEN Del(client, {"Accept-Encoding"}) ELSE client
    /\ outbound = IF Asked THEN Built(inbound) ELSE None

\* What the room may have set before the response is there.
Preset == {None, Set(None, "Retry-After", <<"30">>)}

Answered == at \in {"answered", "head", "done"}

\* What the proxy makes of the backend's fields and the room's.
Relayed(h) ==
    Set(Set(copyResponseHeaders(h, answer), "X-PeakShield-Proxied", <<"1">>),
        "Via", <<"1.1 peakshield">>)

\* When the transport asks for gzip on its own account, and when it undoes it.
AsksGzip ==
    /\ Get(outbound, "Accept-Encoding") = <<>>
    /\ Get(outbound, "Range") = <<>>
    /\ method # "HEAD"

Undone == autoGzip /\ body.coding = "gzip"

\* How the body is encoded, what the backend's fields say of it, and what of them
\* has been written.
WayOut ==
    /\ held \in BOOLEAN /\ (held => strip /\ at = "done")
    /\ body \in [coding : Codings, encoding : Codings, original : BOOLEAN]
    /\ answer \in Headers
    /\ Answered =>
          /\ autoGzip = AsksGzip
          /\ body.encoding = IF Undone THEN "identity" ELSE body.coding
          /\ body.original \/ held \/ Undone
          /\ answer["Content-Encoding"] =
                IF body.encoding = "identity" THEN <<>> ELSE << <<body.encoding>> >>
          /\ answer["Content-Length"] # <<>> => body.original \/ held
    /\ at \notin {"head", "done"} => written \in Preset
    /\ at \in {"head", "done"} =>
          \E h \in Preset :
             written = IF held THEN Del(Relayed(h), {"Content-Length"}) ELSE Relayed(h)

IInv == WayIn /\ WayOut

\* What clients and the backend send are headers.
LEMMA Sent == Requests \subseteq Headers /\ Responses \subseteq Headers
BY HeadersAssumption

\* Codings are words, and two of them have a meaning of their own.
LEMMA KnownCodings == {"identity", "gzip"} \subseteq Codings /\ Codings \subseteq Words
BY HeadersAssumption

LEMMA WayInInit == Init => WayIn
BY DEF Init, WayIn, Asked

LEMMA WayInStep == WayIn /\ [Next]_vars => WayIn'
<1> SUFFICES ASSUME WayIn, [Next]_vars
             PROVE  WayIn'
  OBVIOUS
<1> USE DEF WayIn, Asked
<1>u. CASE UNCHANGED vars
  BY <1>u DEF vars
<1>1. CASE Admit
  BY <1>1 DEF Admit
<1>2. CASE Intercept
  BY <1>2 DEF Intercept
<1>3. CASE Build
  BY <1>3 DEF Build, Built
<1>4. CASE RoundTrip
  BY <1>4 DEF RoundTrip
<1>5. CASE Relay
  BY <1>5 DEF Relay
<1>6. CASE WriteHeader
  BY <1>6 DEF WriteHeader
<1> QED  BY <1>u, <1>1, <1>2, <1>3, <1>4, <1>5, <1>6 DEF Next

\* What the request that goes out says about the encoding of the answer: what the
\* client said or nothing, and nothing while the stripper is active.
LEMMA EncodingAsked ==
  ASSUME WayIn, Asked
  PROVE  /\ client \in Headers /\ inbound \in Headers /\ outbound \in Headers
         /\ outbound["Accept-Encoding"] \in {<<>>, client["Accept-Encoding"]}
         /\ strip => outbound["Accept-Encoding"] = <<>>
<1>1. client \in Headers /\ inbound \in Headers
  BY Sent, HeaderFacts DEF WayIn
<1>2. inbound["Accept-Encoding"] = IF strip THEN <<>> ELSE client["Accept-Encoding"]
  BY NameFacts DEF WayIn, Del
<1>3. outbound["Accept-Encoding"] = Kept(inbound, "Accept-Encoding")
  <2>1. "Accept-Encoding" \notin Introductions
    BY DEF Introductions
  <2> QED  BY <1>1, <2>1, BuiltField, NameFacts DEF WayIn
<1> QED  BY <1>1, <1>2, <1>3, BuiltType DEF Kept, WayIn

\* The round trip settles how the body is encoded.
LEMMA RoundTripAnswers == WayIn /\ WayOut /\ RoundTrip => WayOut'
<1> SUFFICES ASSUME WayIn, WayOut, RoundTrip
             PROVE  WayOut'
  OBVIOUS
<1>1. /\ at = "transport" /\ at' = "answered"
      /\ UNCHANGED <<client, method, strip, outbound, written, held>>
  BY DEF RoundTrip
<1>2. PICK h \in Responses, e \in Codings :
        IF autoGzip' /\ e = "gzip"
          THEN /\ answer' = Del(h, {"Content-Encoding", "Content-Length"})
               /\ body' = [coding |-> e, encoding |-> "identity", original |-> FALSE]
          ELSE /\ answer' = IF e = "identity" THEN Del(h, {"Content-Encoding"})
                            ELSE Set(h, "Content-Encoding", <<e>>)
               /\ body' = [coding |-> e, encoding |-> e, original |-> TRUE]
  BY DEF RoundTrip
<1>3. autoGzip' = AsksGzip'
  BY <1>1 DEF RoundTrip, AsksGzip, Get
<1>4. h \in Headers
  BY Sent
<1>5. written' \in Preset /\ held' \in BOOLEAN /\ ~held'
  BY <1>1 DEF WayOut
<1>6. CASE autoGzip' /\ e = "gzip"
  <2>1. /\ answer' = Del(h, {"Content-Encoding", "Content-Length"})
        /\ body' = [coding |-> "gzip", encoding |-> "identity", original |-> FALSE]
    BY <1>2, <1>6
  <2>2. answer'["Content-Encoding"] = <<>> /\ answer'["Content-Length"] = <<>>
    BY <2>1, NameFacts DEF Del
  <2>3. answer' \in Headers
    BY <1>4, <2>1, HeaderFacts
  <2>4. body' \in [coding : Codings, encoding : Codings, original : BOOLEAN]
    BY <2>1, KnownCodings
  <2> QED  BY <1>1, <1>3, <1>5, <1>6, <2>1, <2>2, <2>3, <2>4 DEF WayOut, Answered, Undone
<1>7. CASE ~(autoGzip' /\ e = "gzip")
  <2>1. /\ answer' = IF e = "identity" THEN Del(h, {"Content-Encoding"})
                     ELSE Set(h, "Content-Encoding", <<e>>)
        /\ body' = [coding |-> e, encoding |-> e, original |-> TRUE]
    BY <1>2, <1>7
  <2>2. e \in Words /\ <<e>> \in Line
    BY KnownCodings DEF Line
  <2>3. answer'["Content-Encoding"] = IF e = "identity" THEN <<>> ELSE << <<e>> >>
    BY <1>4, <2>1, NameFacts, HeaderFacts DEF Del, Set
  <2>4. answer' \in Headers
    BY <1>4, <2>1, <2>2, HeaderFacts, NameFacts
  <2>5. body' \in [coding : Codings, encoding : Codings, original : BOOLEAN]
    BY <2>1
  <2> QED  BY <1>1, <1>3, <1>5, <1>7, <2>1, <2>3, <2>4, <2>5 DEF WayOut, Answered, Undone
<1> QED  BY <1>6, <1>7

LEMMA WayOutInit == Init => WayOut
<1> SUFFICES ASSUME Init PROVE WayOut
  OBVIOUS
<1>1. at = "room" /\ ~held /\ written \in Preset /\ answer \in Headers
  BY HeaderFacts DEF Init, Preset
<1>2. body = [coding |-> "identity", encoding |-> "identity", original |-> TRUE]
  BY DEF Init
<1>3. held \in BOOLEAN
  BY DEF Init
<1>4. body \in [coding : Codings, encoding : Codings, original : BOOLEAN]
  BY <1>2, KnownCodings
<1> QED  BY <1>1, <1>3, <1>4 DEF WayOut, Answered

LEMMA WayOutStep == WayIn /\ WayOut /\ [Next]_vars => WayOut'
<1> SUFFICES ASSUME WayIn, WayOut, [Next]_vars
             PROVE  WayOut'
  OBVIOUS
<1> USE DEF WayOut, Answered, AsksGzip, Undone
<1>u. CASE UNCHANGED vars
  BY <1>u DEF vars, Relayed
<1>1. CASE Admit
  <2>1. at = "room" /\ at' = "stripper" /\ UNCHANGED <<strip, answer, body, held>>
    BY <1>1 DEF Admit
  <2>2. written' \in {written, Set(written, "Retry-After", <<"30">>)}
    BY <1>1 DEF Admit
  <2>3. written' \in Preset
    BY <2>1, <2>2, NameFacts DEF Preset, Set, None
  <2> QED  BY <2>1, <2>3
<1>2. CASE Intercept
  BY <1>2 DEF Intercept, WayIn
<1>3. CASE Build
  BY <1>3 DEF Build
<1>4. CASE RoundTrip
  BY <1>4, RoundTripAnswers
<1>5. CASE Relay
  <2>1. /\ at = "answered" /\ at' = "head" /\ ~held
        /\ written' = Relayed(written) /\ UNCHANGED <<client, method, strip, outbound, autoGzip, answer, body, held>>
    BY <1>5 DEF Relay, Relayed
  <2>2. written \in Preset
    BY <2>1
  <2> QED  BY <2>1, <2>2 DEF Relayed
<1>6. CASE WriteHeader
  <2>1. /\ at = "head" /\ at' = "done" /\ ~held
        /\ UNCHANGED <<client, method, strip, outbound, autoGzip, answer>>
        /\ held' = (strip /\ IsHTML(written))
        /\ written' = (IF held' THEN Del(written, {"Content-Length"}) ELSE written)
        /\ body' = (IF held' THEN [body EXCEPT !.original = FALSE] ELSE body)
    BY <1>6 DEF WriteHeader
  <2>2. PICK h \in Preset : written = Relayed(h)
    BY <2>1
  <2>3. written' = IF held' THEN Del(Relayed(h)', {"Content-Length"}) ELSE Relayed(h)'
    BY <2>1, <2>2 DEF Relayed
  <2>4. /\ body' \in [coding : Codings, encoding : Codings, original : BOOLEAN]
        /\ body'.encoding = body.encoding /\ body'.coding = body.coding
        /\ body.original => body'.original \/ held'
    BY <2>1
  <2> QED  BY <2>1, <2>3, <2>4
<1> QED  BY <1>u, <1>1, <1>2, <1>3, <1>4, <1>5, <1>6 DEF Next

LEMMA HeadersInvariant == Spec => []IInv
<1>1. Init => IInv
  BY WayInInit, WayOutInit DEF IInv
<1>2. IInv /\ [Next]_vars => IInv'
  BY WayInStep, WayOutStep DEF IInv
<1> QED  BY <1>1, <1>2, PTL DEF Spec

-----------------------------------------------------------------------------
(* The theorems.                                                            *)

\* What the room may have set is a header with at most one line, in one field.
LEMMA PresetFacts ==
  /\ Preset \subseteq Headers
  /\ \A h \in Preset : \A n \in Names :
        h[n] = <<>> \/ (n = "Retry-After" /\ h[n] = << <<"30">> >>)
<1>1. <<"30">> \in Line
  BY OwnLines
<1>2. Set(None, "Retry-After", <<"30">>) \in Headers
  <2>1. None \in Headers /\ "Retry-After" \in Names
    BY HeaderFacts, NameFacts
  <2> QED  BY <1>1, <2>1, HeaderFacts
<1>3. \A n \in Names : None[n] = <<>>
  BY DEF None
<1>4. \A n \in Names : LET h == Set(None, "Retry-After", <<"30">>)
                     IN  h[n] = IF n = "Retry-After" THEN << <<"30">> >> ELSE <<>>
  BY DEF None, Set
<1> QED  BY <1>2, <1>3, <1>4, HeaderFacts DEF Preset

\* The state of a request has its type; the fields that the proxy sets are one
\* line, whatever the client has sent.
THEOREM HeadersTypeCorrect == Spec => []TypeOK
<1>1. ASSUME IInv PROVE TypeOK
  <2>1. client \in Headers /\ inbound \in Headers
    BY <1>1, Sent, HeaderFacts DEF IInv, WayIn
  <2>2. /\ outbound \in Headers
        /\ \A n \in {"X-Forwarded-For", "Via"} : Len(outbound[n]) <= 1
    <3>1. CASE Asked
      <4>1. outbound = Built(inbound)
        BY <1>1, <3>1 DEF IInv, WayIn
      <4>2. /\ Built(inbound) \in Headers
            /\ Len(Built(inbound)["X-Forwarded-For"]) = 1
            /\ Len(Built(inbound)["Via"]) = 1
        BY <2>1, BuiltType
      <4>3. ASSUME NEW n \in {"X-Forwarded-For", "Via"} PROVE Len(outbound[n]) = 1
        BY <4>1, <4>2
      <4>4. \A i : i = 1 => i <= 1
        OBVIOUS
      <4> QED  BY <4>1, <4>2, <4>3, <4>4
    <3>2. CASE ~Asked
      <4>1. outbound = None
        BY <1>1, <3>2 DEF IInv, WayIn
      <4>2. \A n \in Names : outbound[n] = <<>>
        BY <4>1 DEF None
      <4> QED  BY <4>1, <4>2, HeaderFacts, NameFacts, FieldFacts
    <3> QED  BY <3>1, <3>2
  <2>3. answer \in Headers /\ written \in Headers
    <3>1. Preset \subseteq Headers
      BY PresetFacts
    <3>2. ASSUME NEW h \in Preset PROVE Relayed(h) \in Headers
      <4>1. copyResponseHeaders(h, answer) \in Headers
        <5>1. ASSUME NEW n \in Names PROVE h[n] \o answer[n] \in Field
          <6>1. answer[n] \in Field
            BY <1>1, HeaderFacts DEF IInv, WayOut
          <6>2. h[n] = <<>> \/ h[n] = << <<"30">> >>
            BY <3>2, PresetFacts
          <6>3. <<"30">> \in Line
            BY OwnLines
          <6> QED  BY <6>1, <6>2, <6>3, FieldFacts
        <5> QED  BY <3>1, <5>1, HeaderFacts DEF copyResponseHeaders
      <4> QED  BY <4>1, HeaderFacts, NameFacts, OwnLines DEF Relayed
    <3>3. at \in {"head", "done"} => written \in Headers
      BY <1>1, <3>2, HeaderFacts DEF IInv, WayOut
    <3> QED  BY <1>1, <3>1, <3>3 DEF IInv, WayOut
  <2> QED  BY <1>1, <2>1, <2>2, <2>3 DEF IInv, WayIn, WayOut, TypeOK
<1> QED  BY <1>1, HeadersInvariant, PTL

\* The proxy stops the same fields whether the stripper was active or not, and
\* leaves the others as the client sent them, except Accept-Encoding.
LEMMA KeptOfClient ==
  ASSUME WayIn, Asked
  PROVE  /\ inbound \in Headers /\ client \in Headers /\ outbound = Built(inbound)
         /\ Stopped(inbound) = hopByHopHeaders \cup Nominated
         /\ \A n \in Names :
              Kept(inbound, n) =
                 IF n \in hopByHopHeaders \cup Nominated \/ (n = "Accept-Encoding" /\ strip)
                   THEN <<>> ELSE client[n]
<1>1. inbound \in Headers /\ client \in Headers /\ outbound = Built(inbound)
  BY Sent, HeaderFacts DEF WayIn
<1>2. \A n \in Names : inbound[n] = IF n = "Accept-Encoding" /\ strip THEN <<>> ELSE client[n]
  BY <1>1, HeaderFacts DEF WayIn, Del
<1>3. Get(inbound, "Connection") = Get(client, "Connection")
  BY <1>2, NameFacts DEF Get
<1> QED  BY <1>1, <1>2, <1>3 DEF Stopped, Nominated, Kept

\* Fields of the client's connection stop at the proxy, for any list of nominations.
THEOREM ConnectionFieldsStop == Spec => []HopByHopStops
<1>1. ASSUME IInv, Asked, NEW n \in Names \cap (hopByHopHeaders \cup Nominated)
      PROVE  \/ outbound[n] = <<>>
             \/ n \in Introductions /\ outbound[n] = << <<Own[n]>> >>
             \/ n = "X-Forwarded-For" /\ outbound[n] = << <<"client">> >>
             \/ n = "Via"
  <2>1. Kept(inbound, n) = <<>>
    BY <1>1, KeptOfClient DEF IInv
  <2>2. Append(<<>>, "client") = <<"client">>
    OBVIOUS
  <2> QED  BY <1>1, <2>1, <2>2, KeptOfClient, BuiltField DEF IInv
<1>2. IInv => HopByHopStops
  BY <1>1 DEF HopByHopStops
<1> QED  BY <1>2, HeadersInvariant, PTL

\* Every other field arrives with all its lines in order.
THEOREM OtherFieldsArrive == Spec => []EndToEndArrives
<1>1. ASSUME IInv, Asked, NEW n \in Names \ (hopByHopHeaders \cup Nominated)
      PROVE  \/ outbound[n] = client[n]
             \/ n \in {"X-Forwarded-For", "Via"}
             \/ n \in Introductions /\ Get(client, n) = <<>>
             \/ n = "Accept-Encoding" /\ strip
  <2>1. (n = "Accept-Encoding" /\ strip) \/ Kept(inbound, n) = client[n]
    BY <1>1, KeptOfClient DEF IInv
  <2> QED  BY <1>1, <2>1, KeptOfClient, BuiltField DEF IInv, Get
<1>2. IInv => EndToEndArrives
  BY <1>1 DEF EndToEndArrives
<1> QED  BY <1>2, HeadersInvariant, PTL

\* The backend can always tell who the client is.
THEOREM ClientAlwaysNamed == Spec => []ClientIsNamed
<1>1. ASSUME IInv, Asked PROVE ClientIsNamed
  <2>1. /\ inbound \in Headers /\ client \in Headers /\ outbound = Built(inbound)
        /\ \A n \in Names \ {"Accept-Encoding"} :
              Kept(inbound, n) = IF n \in hopByHopHeaders \cup Nominated THEN <<>>
                                                                         ELSE client[n]
    BY <1>1, KeptOfClient DEF IInv
  <2> DEFINE prior == IF "X-Forwarded-For" \in Nominated THEN <<>>
                      ELSE Get(client, "X-Forwarded-For")
  <2>2. outbound["X-Forwarded-For"] = << Append(prior, "client") >>
    <3>1. "X-Forwarded-For" \notin hopByHopHeaders
      BY DEF hopByHopHeaders
    <3> QED  BY <2>1, <3>1, BuiltField, NameFacts DEF Get
  <2>3. prior \in Line
    BY <2>1, HeaderFacts, NameFacts, FieldFacts
  <2>4. /\ Len(outbound["X-Forwarded-For"]) = 1
        /\ Get(outbound, "X-Forwarded-For") = Append(prior, "client")
    BY <2>2, <2>3, FieldFacts, OwnLines DEF Get
  <2>5. ASSUME NEW n \in Introductions
        PROVE  Get(outbound, n) \in {Get(client, n), <<Own[n]>>} \ {<<>>}
    <3>1. n \in Names \ {"Accept-Encoding", "X-Forwarded-For", "Via"}
      BY DEF Introductions, Names
    <3>2. Own[n] \in {"client", "host", "http"}
      BY DEF Own
    <3>3. <<Own[n]>> \in Line /\ <<Own[n]>> # <<>>
      BY <3>2, OwnLines
    <3>4. CASE Kept(inbound, n) = <<>> \/ Head(Kept(inbound, n)) = <<>>
      <4>1. outbound[n] = << <<Own[n]>> >>
        BY <2>1, <3>1, <3>4, BuiltField
      <4> QED  BY <3>3, <4>1, FieldFacts DEF Get
    <3>5. CASE Kept(inbound, n) # <<>> /\ Head(Kept(inbound, n)) # <<>>
      BY <2>1, <3>1, <3>5, BuiltField DEF Get
    <3> QED  BY <3>4, <3>5
  <2> QED  BY <2>4, <2>5 DEF ClientIsNamed
<1>2. IInv => ClientIsNamed
  BY <1>1 DEF ClientIsNamed
<1> QED  BY <1>2, HeadersInvariant, PTL

\* Nothing is listed in a field that is absent.
LEMMA NothingListed == Elements(<<>>) = {} /\ \A h : \A n : h[n] = <<>> => Get(h, n) = <<>>
BY DEF Elements, Get

\* The scanner sees no compressed page that was asked for as a whole, if the backend
\* keeps to what the stripper, the proxy and the transport have made of the request.
THEOREM ScannerAlwaysReadsText == Spec => []ScannerReadsText
<1>1. ASSUME IInv, held, body.coding \in Acceptable, method # "HEAD",
             Get(outbound, "Range") = <<>>
      PROVE  body.encoding = "identity"
  <2>1. strip /\ at = "done"
    BY <1>1 DEF IInv, WayOut
  <2>2. outbound["Accept-Encoding"] = <<>>
    BY <1>1, <2>1, EncodingAsked DEF IInv, Asked
  <2>3. autoGzip
    BY <1>1, <2>1, <2>2, NothingListed DEF IInv, WayOut, Answered, AsksGzip
  <2>4. body.coding \in {"identity", "gzip"}
    BY <1>1, <2>2, <2>3, NothingListed DEF Acceptable
  <2> QED  BY <1>1, <2>1, <2>3, <2>4 DEF IInv, WayOut, Answered, Undone
<1>2. IInv => ScannerReadsText
  BY <1>1 DEF ScannerReadsText, IInv, WayIn
<1> QED  BY <1>2, HeadersInvariant, PTL

\* Each field of what is written, from the backend's and the room's.
LEMMA WrittenField ==
  ASSUME WayOut, at = "done",
         NEW n \in Names \ (excludedResponseHeaders \cup {"Via", "X-PeakShield-Proxied"})
  PROVE  \/ written[n] = answer[n]
         \/ n = "Retry-After" /\ Tail(written[n]) = answer[n]
         \/ n = "Content-Length" /\ held /\ written[n] = <<>>
<1>1. PICK h \in Preset :
         written = IF held THEN Del(Relayed(h), {"Content-Length"}) ELSE Relayed(h)
  BY DEF WayOut
<1>2. Relayed(h)[n] = h[n] \o answer[n]
  BY DEF Relayed, Set, copyResponseHeaders
<1>3. h[n] = <<>> \/ (n = "Retry-After" /\ h[n] = << <<"30">> >>)
  BY PresetFacts
<1>4. answer[n] \in Field
  BY HeaderFacts DEF WayOut
<1>5. CASE n = "Content-Length" /\ held
  BY <1>1, <1>5 DEF Del
<1>6. CASE ~(n = "Content-Length" /\ held)
  <2>1. written[n] = h[n] \o answer[n]
    BY <1>1, <1>2, <1>6 DEF Del
  <2>2. CASE h[n] = <<>>
    BY <1>4, <2>1, <2>2, FieldFacts
  <2>3. CASE n = "Retry-After" /\ h[n] = << <<"30">> >>
    <3>1. <<"30">> \in Line
      BY OwnLines
    <3> QED  BY <1>4, <2>1, <2>3, <3>1, FieldFacts
  <2> QED  BY <1>3, <2>2, <2>3
<1> QED  BY <1>5, <1>6

\* An answer in an acceptable coding reaches the client in one it can decode, unless
\* its wish was lost on the way.
LEMMA Decodable ==
  ASSUME IInv, at = "done", body.coding \in Acceptable, ~WishLost
  PROVE  body.encoding \in Welcome
<1>1. /\ outbound["Accept-Encoding"] \in {<<>>, client["Accept-Encoding"]}
  BY EncodingAsked DEF IInv, Asked
<1>2. /\ body.coding \in Codings /\ body.encoding \in Codings
      /\ body.encoding = IF Undone THEN "identity" ELSE body.coding
  BY DEF IInv, WayOut, Answered
<1>3. "identity" \in Welcome
  BY KnownCodings DEF Welcome
<1>4. CASE client["Accept-Encoding"] = <<>>
  BY <1>2, <1>4 DEF Welcome
<1>5. CASE client["Accept-Encoding"] # <<>> /\ Undone
  BY <1>2, <1>3, <1>5
<1>6. CASE client["Accept-Encoding"] # <<>> /\ ~Undone
  <2>1. body.encoding = body.coding
    BY <1>2, <1>6
  <2>2. autoGzip \/ outbound["Accept-Encoding"] # <<>>
    BY <1>6 DEF WishLost
  <2>3. \/ body.coding = "identity"
        \/ body.coding \in Elements(outbound["Accept-Encoding"])
    BY <1>6, <2>2 DEF Acceptable, Undone
  <2>4. CASE body.coding \in Elements(outbound["Accept-Encoding"])
    BY <1>1, <1>6, <2>1, <2>4, NothingListed DEF Welcome
  <2> QED  BY <1>3, <2>1, <2>3, <2>4
<1> QED  BY <1>4, <1>5, <1>6

\* What the client is told of the body is true after everyone has edited it.
THEOREM BodyAlwaysAsDescribed == Spec => []BodyAsDescribed
<1>1. ASSUME IInv, at = "done" PROVE BodyAsDescribed
  <2>1. {"Content-Encoding", "Content-Length"} \subseteq
           Names \ (excludedResponseHeaders \cup {"Via", "X-PeakShield-Proxied"})
    BY DEF Names, excludedResponseHeaders
  <2>2. written["Content-Encoding"] = answer["Content-Encoding"]
    BY <1>1, <2>1, WrittenField DEF IInv
  <2>3. \/ written["Content-Length"] = answer["Content-Length"]
        \/ written["Content-Length"] = <<>>
    BY <1>1, <2>1, WrittenField DEF IInv
  <2>4. held => written["Content-Length"] = <<>>
    BY <1>1, NameFacts DEF IInv, WayOut, Del
  <2>5. Get(outbound, "Range") # <<>> => body.original \/ held
    BY <1>1 DEF IInv, WayOut, Answered, Undone, AsksGzip
  <2>6. body.coding \in Acceptable => body.encoding \in Welcome \/ WishLost
    BY <1>1, Decodable
  <2>7. /\ answer["Content-Encoding"] =
             IF body.encoding = "identity" THEN <<>> ELSE << <<body.encoding>> >>
        /\ answer["Content-Length"] # <<>> => body.original \/ held
    BY <1>1 DEF IInv, WayOut, Answered
  <2> QED  BY <1>1, <2>2, <2>3, <2>4, <2>5, <2>6, <2>7 DEF BodyAsDescribed
<1>2. IInv => BodyAsDescribed
  BY <1>1 DEF BodyAsDescribed
<1> QED  BY <1>2, HeadersInvariant, PTL

\* The backend's own fields reach the client.
THEOREM AnswerAlwaysRelayed == Spec => []AnswerRelayed
<1>1. IInv => AnswerRelayed
  BY WrittenField DEF IInv, AnswerRelayed
<1> QED  BY <1>1, HeadersInvariant, PTL
=============================================================================
