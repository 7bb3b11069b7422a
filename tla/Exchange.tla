------------------------------- MODULE Exchange -------------------------------
(***************************************************************************)
(* One exchange with the backend: the proxy's ServeHTTP (proxy/proxy.go)    *)
(* below the stripper's middleware and response writer (stripper.go).       *)
(* It is what a request of the waiting room does while it holds a slot.     *)
(*                                                                         *)
(* The handler goroutine runs against three others: the backend, which may  *)
(* answer, stall or break off; the client, which may hang up, stop reading  *)
(* or never finish the body of its request, which the transport reads while *)
(* it waits for the answer; and the timeouts of http.Client and of the      *)
(* server.  A page is a sequence of chunks, and a chunk only says whether   *)
(* it belongs to this exchange.                                             *)
(***************************************************************************)
EXTENDS Integers, Sequences

CONSTANT MaxChunks  \* bound: the longest page, in chunks

ASSUME ExchangeAssumption == MaxChunks \in Nat

VARIABLES
    pc,         \* where the handler is
    strip,      \* the stripper is active for this request
    buf,        \* what is in the buffer the stripper took from its pool
    isHTML,     \* sw.isHTML: the writer holds the response back
    read,       \* chunks the proxy has read of resp.Body
    conn,       \* the connection resp.Body reads from
    err,        \* what client.Do returned
    backend,    \* what the backend does
    offer,      \* its response: HTML or not, Content-Length or not, its size
    sent,       \* chunks of the body that it has sent
    late,       \* BackendTimeout, or another timeout of the transport, has passed
    upload,     \* how the transport's reading of r.Body goes
    gone,       \* the client's connection is of no use
    cancelled,  \* r.Context() is done
    status,     \* the status line the client was sent
    length,     \* Content-Length is among the response headers
    got         \* chunks the client was sent

handlerVars == <<strip, buf, isHTML, read, conn, err>>
backendVars == <<backend, offer, sent>>
clientVars == <<status, length, got>>
events == <<late, upload, gone, cancelled>>
vars == <<pc, strip, buf, isHTML, read, conn, err, backend, offer, sent, late,
          upload, gone, cancelled, status, length, got>>

\* What the backend may answer.
Responses == [html : BOOLEAN, length : BOOLEAN, size : 0..MaxChunks]
NoResponse == [html |-> FALSE, length |-> FALSE, size |-> 0]

\* The handler runs (it has not returned to net/http).
Running == pc \notin {"ready", "done"}

\* client.Do has begun, and the body of the response is not closed yet.
Asking == pc \in {"do", "failed", "head", "read", "write", "drain"}

Init ==
    /\ pc = "ready"
    /\ strip = FALSE /\ buf = <<>> /\ isHTML = FALSE
    /\ read = 0 /\ conn = "none" /\ err = "none"
    /\ backend = "unasked" /\ offer = NoResponse /\ sent = 0
    /\ late = FALSE /\ upload = "sent" /\ gone = FALSE /\ cancelled = FALSE
    /\ status = "none" /\ length = FALSE /\ got = <<>>

-----------------------------------------------------------------------------
(* The stripper's middleware, on the way in.                                *)

\* The load is compared with the threshold once, and the stripper gets one of
\* buffers from its pool.  A request without a body has sent it.
Begin(buffers) ==
    /\ ~Running
    /\ pc' = "build"
    /\ strip' \in BOOLEAN
    /\ buf' \in buffers
    /\ isHTML' = FALSE /\ read' = 0 /\ conn' = "none" /\ err' = "none"
    /\ backend' = "unasked" /\ offer' = NoResponse /\ sent' = 0
    /\ late' = FALSE /\ gone' = FALSE /\ cancelled' = FALSE
    /\ upload' \in {"sending", "sent"}
    /\ status' = "none" /\ length' = FALSE /\ got' = <<>>

\* Faulty variant: the buffer is used as some earlier exchange left it.
StartUnreset == Begin({<<>>, <<"old">>})

\* A new request; the buffer is emptied by Reset.
Start == Begin({<<>>})

-----------------------------------------------------------------------------
(* ServeHTTP: the request.                                                  *)

\* writeError: a JSON answer of the proxy's own, which no stripper holds back.
WriteError(code) ==
    /\ status' = code /\ length' = FALSE /\ got' = <<"error">>
    /\ pc' = "finish"

BuildFails ==
    /\ pc = "build"
    /\ WriteError("502")
    /\ UNCHANGED <<handlerVars, backendVars, events>>

\* buildBackendRequest (its headers are left out), and client.Do starts.
Ask ==
    /\ pc = "build"
    /\ pc' = "do"
    /\ backend' = "asked"
    /\ UNCHANGED <<handlerVars, offer, sent, clientVars, events>>

\* The status and the headers of the backend arrive.
Answered ==
    /\ pc = "do" /\ backend = "answered"
    /\ pc' = "head"
    /\ conn' = "open"
    /\ UNCHANGED <<strip, buf, isHTML, read, err, backendVars, clientVars, events>>

\* client.Do fails: a deadline has passed, the backend's or the one for reading
\* r.Body; or the context is cancelled, the backend broke off, or r.Body is no good.
DoFails ==
    /\ pc = "do"
    /\ \/ (late \/ upload = "late") /\ err' = "timeout"
       \/ (cancelled \/ backend = "broken" \/ upload = "broken") /\ err' = "failure"
    /\ pc' = "failed"
    /\ UNCHANGED <<strip, buf, isHTML, read, conn, backendVars, clientVars, events>>

\* Faulty variant: no failure is told from another.
ClassifyBlind ==
    /\ pc = "failed"
    /\ IF cancelled
         THEN pc' = "finish" /\ UNCHANGED clientVars
         ELSE WriteError("500")
    /\ UNCHANGED <<handlerVars, backendVars, events>>

\* A context that is done is taken for a client that has left: nothing is written.
\* Else 504 or 502.
Classify ==
    /\ pc = "failed"
    /\ IF cancelled
         THEN pc' = "finish" /\ UNCHANGED clientVars
         ELSE WriteError(IF err = "timeout" THEN "504" ELSE "502")
    /\ UNCHANGED <<handlerVars, backendVars, events>>

-----------------------------------------------------------------------------
(* ServeHTTP: the response, written through the stripper's writer.          *)

\* The headers are copied and the status line is written.  The writer holds HTML
\* back if the stripper is active.
SendHead ==
    /\ pc = "head"
    /\ isHTML' = (strip /\ offer.html)
    /\ status' = IF isHTML' THEN "none" ELSE "backend"
    /\ pc' = "read"
    /\ UNCHANGED <<strip, buf, read, conn, err, backendVars, got, events>>

\* Faulty variant: Content-Length is dropped whenever the stripper is active.
WriteHeaderNoLength == SendHead /\ length' = (offer.length /\ ~strip)

\* Faulty variant: Content-Length stays when a page is held back.
WriteHeaderKeepsLength == SendHead /\ length' = offer.length

\* Content-Length is dropped for a page that is held back.
WriteHeader == SendHead /\ length' = (offer.length /\ ~isHTML')

\* Faulty variant: the timeout ends with the headers, as config.go has it.
BodyFailsUntimed == cancelled \/ backend = "broken" \/ upload \in {"late", "broken"}

\* The client's context and the timeout of http.Client also end reads of the body,
\* and so does an upload that fails: the transport then closes the connection.
BodyFails == cancelled \/ late \/ backend = "broken" \/ upload \in {"late", "broken"}

ReadChunk ==
    /\ pc = "read" /\ read < sent
    /\ read' = read + 1
    /\ pc' = "write"
    /\ UNCHANGED <<strip, buf, isHTML, conn, err, backendVars, clientVars, events>>

\* io.Copy ends, at the end of the body or with an error.
CopyEnds ==
    /\ pc = "read" /\ (read = offer.size \/ BodyFails)
    /\ pc' = "drain"
    /\ UNCHANGED <<handlerVars, backendVars, clientVars, events>>

\* The writer keeps a chunk of a page that is held back.
Hold ==
    /\ pc = "write" /\ isHTML
    /\ buf' = Append(buf, "own")
    /\ pc' = "read"
    /\ UNCHANGED <<strip, isHTML, read, conn, err, backendVars, clientVars, events>>

\* Any other chunk goes to the client, as fast as the client reads.
Deliver ==
    /\ pc = "write" /\ ~isHTML
    /\ got' = Append(got, "own")
    /\ pc' = "read"
    /\ UNCHANGED <<handlerVars, backendVars, status, length, events>>

\* The write fails, for the client has gone or the server's WriteTimeout has
\* passed; net/http cancels the context.
WriteFails ==
    /\ pc = "write" /\ ~isHTML
    /\ gone' = TRUE /\ cancelled' = TRUE
    /\ pc' = "drain"
    /\ UNCHANGED <<handlerVars, backendVars, clientVars, late, upload>>

\* The deferred drain reads what is left...
DrainChunk ==
    /\ pc = "drain" /\ read < sent
    /\ read' = read + 1
    /\ UNCHANGED <<pc, strip, buf, isHTML, conn, err, backendVars, clientVars,
                   events>>

\* ...and closes the body.  The connection goes back to the pool if the body was
\* read to its end and the request was sent.
Close ==
    /\ pc = "drain"
    /\ \/ read = offer.size /\ conn' = (IF upload = "sent" THEN "pooled" ELSE "closed")
       \/ BodyFails /\ conn' = "closed"
    /\ pc' = "strip"
    /\ UNCHANGED <<strip, buf, isHTML, read, err, backendVars, clientVars, events>>

-----------------------------------------------------------------------------
(* The stripper's middleware, on the way out.                               *)

\* Faulty variant: a page with an empty body is not answered.
SendStrippedNonEmpty ==
    /\ pc = "strip" /\ isHTML
    /\ IF buf = <<>> THEN UNCHANGED <<status, got>>
                     ELSE status' = "backend" /\ got' = buf
    /\ pc' = "finish"
    /\ UNCHANGED <<handlerVars, backendVars, length, events>>

\* The page that was held back is stripped and sent, whatever became of the body.
SendStripped ==
    /\ pc = "strip" /\ isHTML
    /\ status' = "backend" /\ got' = buf
    /\ pc' = "finish"
    /\ UNCHANGED <<handlerVars, backendVars, length, events>>

SendFails ==
    /\ pc = "strip" /\ isHTML
    /\ gone' = TRUE /\ cancelled' = TRUE
    /\ pc' = "finish"
    /\ UNCHANGED <<handlerVars, backendVars, clientVars, late, upload>>

NothingHeld ==
    /\ pc = "strip" /\ ~isHTML
    /\ pc' = "finish"
    /\ UNCHANGED <<handlerVars, backendVars, clientVars, events>>

\* net/http ends the response; a handler that wrote nothing has said 200 OK.
Finish ==
    /\ pc = "finish"
    /\ status' = IF status = "none" THEN "empty" ELSE status
    /\ pc' = "done"
    /\ UNCHANGED <<handlerVars, backendVars, length, got, events>>

-----------------------------------------------------------------------------
(* The others.                                                              *)

BackendAnswers ==
    /\ backend = "asked" /\ Running
    /\ backend' = "answered"
    /\ offer' \in Responses
    /\ UNCHANGED <<pc, handlerVars, sent, clientVars, events>>

BackendSends ==
    /\ backend = "answered" /\ sent < offer.size /\ Running
    /\ sent' = sent + 1
    /\ UNCHANGED <<pc, handlerVars, backend, offer, clientVars, events>>

BackendBreaks ==
    /\ Running
    /\ \/ backend = "asked"
       \/ backend = "answered" /\ sent < offer.size
    /\ backend' = "broken"
    /\ UNCHANGED <<pc, handlerVars, offer, sent, clientVars, events>>

\* http.Client.Timeout runs from client.Do to the end of the body, and
\* ResponseHeaderTimeout passes a second earlier while there is no answer.
Timeout ==
    /\ Asking /\ ~late
    /\ late' = TRUE
    /\ UNCHANGED <<pc, handlerVars, backendVars, clientVars, upload, gone, cancelled>>

\* The transport has read r.Body to its end.
UploadEnds ==
    /\ Asking /\ upload = "sending"
    /\ upload' = "sent"
    /\ UNCHANGED <<pc, handlerVars, backendVars, clientVars, late, gone, cancelled>>

\* A read of r.Body fails while the connection is in order: the body is malformed, or
\* net/http has read what was left of it to be able to answer.
UploadBreaks ==
    /\ Asking /\ upload = "sending"
    /\ upload' = "broken"
    /\ UNCHANGED <<pc, handlerVars, backendVars, clientVars, late, gone, cancelled>>

\* The server's ReadTimeout ends a read of r.Body.  net/http takes a failed read for
\* the end of the connection and cancels the context, of a client that is there
\* still; the model leaves open whether the failure is seen before that.
UploadTimesOut ==
    /\ Asking /\ upload = "sending"
    /\ upload' = "late" /\ cancelled' \in {cancelled, TRUE}
    /\ UNCHANGED <<pc, handlerVars, backendVars, clientVars, late, gone>>

\* The client closes its connection, or its sending side, which is the same to net/http.
Disconnect ==
    /\ Running /\ ~gone
    /\ gone' = TRUE
    /\ UNCHANGED <<pc, handlerVars, backendVars, clientVars, late, upload, cancelled>>

\* net/http reads from the connection, and learns of it.
Notice ==
    /\ Running /\ gone /\ ~cancelled
    /\ cancelled' = TRUE
    /\ UNCHANGED <<pc, handlerVars, backendVars, clientVars, late, upload, gone>>

\* What the handler does by itself, whatever backend and client do.
Handler ==
    \/ BuildFails
    \/ Ask
    \/ Answered
    \/ DoFails
    \/ Classify
    \/ WriteHeader
    \/ ReadChunk
    \/ CopyEnds
    \/ Hold
    \/ WriteFails
    \/ DrainChunk
    \/ Close
    \/ SendFails
    \/ NothingHeld
    \/ Finish

Next ==
    \/ Start
    \/ Handler
    \/ Deliver
    \/ SendStripped
    \/ BackendAnswers
    \/ BackendSends
    \/ BackendBreaks
    \/ Timeout
    \/ UploadEnds
    \/ UploadBreaks
    \/ UploadTimesOut
    \/ Disconnect
    \/ Notice

Spec == Init /\ [][Next]_vars

\* The handler is scheduled, its writes fail after WriteTimeout if not before,
\* and BackendTimeout passes.  Backend and client owe nothing.
FairSpec == Spec /\ WF_vars(Handler) /\ WF_vars(Timeout)

-----------------------------------------------------------------------------
(* Properties.                                                              *)

Chunks == {"own", "old", "error"}

TypeOK ==
    /\ pc \in {"ready", "build", "do", "failed", "head", "read", "write", "drain",
               "strip", "finish", "done"}
    /\ strip \in BOOLEAN /\ isHTML \in BOOLEAN
    /\ buf \in Seq(Chunks) /\ got \in Seq(Chunks)
    /\ offer \in Responses
    /\ sent \in 0..offer.size /\ read \in 0..sent
    /\ conn \in {"none", "open", "pooled", "closed"}
    /\ err \in {"none", "timeout", "failure"}
    /\ backend \in {"unasked", "asked", "answered", "broken"}
    /\ late \in BOOLEAN /\ gone \in BOOLEAN /\ cancelled \in BOOLEAN
    /\ upload \in {"sending", "sent", "broken", "late"}
    /\ status \in {"none", "backend", "502", "504", "empty"}
    /\ length \in BOOLEAN

\* The exchange is over and the client has been there to the end.
Received == pc = "done" /\ ~gone

Page == [i \in 1..offer.size |-> "own"]

\* No read of the request's body has failed.
UploadGood == upload \in {"sending", "sent"}

\* A client that stays gets the answer that fits what happened: the backend's status
\* as soon as its headers arrived, 504 only after a timeout, the backend's or the one
\* for its own upload, 502 only for a request that could not be built or sent or a
\* backend that failed.  The empty 200 that net/http makes of a handler which wrote
\* nothing only goes to a client that was too slow to send its request.
RightAnswer ==
    Received =>
        /\ status = "empty" => upload = "late"
        /\ status = "backend" <=> conn # "none"
        /\ status = "504" => late \/ upload = "late"
        /\ status = "502" => backend \in {"unasked", "broken"} \/ upload = "broken"

\* To the client the response looks complete.  Stripping changes the number of
\* bytes, and net/http breaks off a response that does not fit its Content-Length.
LooksWhole == length => ~isHTML /\ Len(got) = offer.size

\* When the request was sent and the backend sends its page in time, a client that
\* stays receives all of it, as a complete response: stripped or not, with
\* Content-Length or without.
WholePage ==
    Received /\ status = "backend" /\ UploadGood /\ ~late /\ backend # "broken" =>
        LooksWhole /\ got = Page

\* A page that the backend, a timeout or a failed upload cut off looks complete only
\* where nobody could tell the client its length: the backend did not say, or the
\* stripper held the page back.
TruncationShows ==
    Received /\ status = "backend" /\ LooksWhole /\ got # Page =>
        ~offer.length \/ isHTML

\* Nobody is sent a piece of another client's page out of a pooled buffer, or of
\* an error message behind the page.
OwnPage == status = "backend" => \A i \in 1..Len(got) : got[i] = "own"

\* Whatever backend and client do, the exchange ends, and with it the slot of the
\* waiting room comes back; by then the body is closed.
ExchangeEnds == Running ~> pc = "done" /\ conn # "open"

-----------------------------------------------------------------------------
(* What a comment says, and the code does not do.                           *)

\* "BackendTimeout ... Does NOT include response body streaming time": a page
\* that began to arrive in time is not cut off by the timeout.  Broken because
\* http.Client.Timeout runs until the body is read.
StreamingIsNotTimed ==
    Received /\ status = "backend" /\ UploadGood /\ backend # "broken" => got = Page
=============================================================================
