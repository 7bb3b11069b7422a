# PeakShield in TLA+

PeakShield is a reverse proxy that protects a slow backend from traffic peaks. A
request passes a rate limiter, a waiting room, an HTML stripper and the proxy
itself, in this order, and each of them is a Go middleware that runs in the
goroutine of the request. This directory holds TLA+ models of the parts that keep
state or run concurrently, TLC configurations that check them on small instances,
and proofs that TLAPS checks for every value of the constants.

    tlc -workers 2 -config room_safety.cfg MCWaitingRoom      (model checking)
    tlapm WaitingRoomProofs.tla                               (proofs)

## 1. Inventory

| component | state | operations | status |
|---|---|---|---|
| waiting room, `waitingroom/waitingroom.go` | atomics `activeRequests`, `queueDepth`; channel `queue` of one-slot ticket channels; per request its place, its ticket and its context | `Middleware` (direct path, queue, three-way select), `releaseSlot`, `signalNext`, `drainTicket` | `WaitingRoom`, promise in `AdmissionLine`, proofs in `WaitingRoomProofs` |
| its wait page, `estimateWait`, getters | none of their own | formatting, reading counters | not modelled |
| rate limiter, `ratelimiter/token_bucket.go` | 256 shards, each a map and an `RWMutex`; per bucket tokens, last refill, last seen | `Allow`, `getOrCreate`, `consume`, `gcLoop`, `runGC` | `RateLimiter`, promise in `TokenBuckets`, the rate measured in `RateMeter`, proofs in `RateLimiterProofs` and `RateMeterProofs` |
| proxy, `proxy/proxy.go` | the outgoing request and the client's body in it, the response body and its connection; the header fields of both | `ServeHTTP`, `writeError`; `buildBackendRequest`, `copyRequestHeaders`, `sanitizeHopByHopHeaders`, `copyResponseHeaders` | `Exchange`, proofs in `ExchangeProofs`; `Headers`, proofs in `HeadersProofs` |
| stripper middleware, `stripper/stripper.go` | pooled buffers, `isHTML` and status of its writer | `Middleware`, `WriteHeader`, `Write` | `Exchange`; what it does to headers in `Headers` |
| stripper scanner, same file | position in the page, `bodyInjected`, the output | `stripHTML`, `hasTagPrefix`, `indexFold` | `HTMLScanner`, proofs in `HTMLScannerProofs` |
| configuration, `config/config.go` | read once | `Load`, `validate` | `Config`; its limits are the assumptions on the constants elsewhere |
| server, `main.go`, `middleware/chain.go` | two servers with their listeners and connections, the signal channel, the shutdown context | start, `Chain`, rate-limit wrapper, signals, graceful shutdown, `os.Exit` | `Server`, proofs in `ServerProofs` |
| metrics endpoints, `main.go` | none | read counters | `Scrape` of `Server`; what they print is not modelled |
| Helm chart, Docker, docs, scripts | none | none | not modelled |

How they interact. `main` wraps the proxy in the stripper, the stripper in the
waiting room and the waiting room in the rate limiter. A request that the limiter
refuses (429) never reaches the room. A request that the room admits calls
`next.ServeHTTP` while it owns a slot, which is the place `backend` of
`WaitingRoom` and one run of `Exchange` from `Start` to `done`; the slot comes back
in a deferred `releaseSlot`. The stripper reads the room's `activeRequests` once per
request to decide whether to strip. Limiter and room share nothing but the request.
All of them see the request's context, which net/http cancels when the handler
returns or a read from the client's connection fails. They also share the request's header and the writer's
header: the room sets a field before it waits, the stripper withdraws one before the
proxy reads it and another after the proxy has written it.

What is hard about it:

* **Interleaving.** The room has no lock. Its comparison with the limit, the undo of
  the increment, the enqueue, the decrement of a release and the signal of a release
  are separate atomic steps, so a decision can be stale when it takes effect.
* **Conservation.** A released slot travels as a signal through a ticket, possibly to a
  request that has timed out or whose client has left, and from there to the next.
  It must neither be duplicated nor vanish.
* **Timeouts against answers.** The queue timeout, the safety timeout of `drainTicket`
  (two minutes) and the client's disconnection race with the signal; the backend's
  timeout races with its answer, with the body and with the client's disconnection. The
  client's own upload goes on beside all of this, under the server's `ReadTimeout`.
* **Check, then act.** `Allow` uses a bucket it looked up under a lock it has since
  released; the sweep decides in one phase and deletes in another.
* **Clocks.** `consume` works with the wall clock, which can be set back.
* **Broken input.** Pages lack ends of tags and blocks, and constructs sit inside one another;
  the scanner must not lose text, loop or run beyond the page.
* **Shutdown.** A signal meets connections that are idle, requests that wait in line and
  requests that are being served, each with deadlines of its own.
* **Partial failure.** A backend can break off after its status line was passed on; the
  stripper holds a page back and must answer all the same.

What makes each component correct:

* waiting room: its counters are exact; slots are conserved; order is FIFO; nobody
  who waits is forgotten; every goroutine ends; a release never blocks;
* rate limiter: an address gets the tokens of one ideal bucket, no more and no fewer;
  silent buckets go, others stay;
* exchange: a client that stays gets the right status and the whole page, or can tell
  that it is not whole; no byte of another page; every exchange ends;
* scanner: no text is lost, repeated or moved, what is heavy goes, and it always advances;
* headers: what concerns one connection stops at the proxy, everything else arrives whole,
  and what is said of the body is true when it is sent;
* server: its deadlines fit the room's, no request outlives them, main does not return
  before what it waits for is done, and a signalled process ends.

`PROJECT.json` lists the hazards one by one, each at its line, with the properties
that cover it or the reason why none does.

## 2. The modules

| module | is | extends or instantiates |
|---|---|---|
| `WaitingRoom` | the room, its properties | instantiates `AdmissionLine` |
| `AdmissionLine` | what the room promises to clients | |
| `WaitingRoomProofs` | theorems about the room | `WaitingRoom` |
| `MCWaitingRoom` | symmetry and a property that talks about cores | `WaitingRoom` |
| `RateLimiter` | the limiter, its properties | instantiates `TokenBuckets` |
| `TokenBuckets` | what the limiter promises | |
| `MCRateLimiter` | a shard function and symmetry | `RateLimiter` |
| `RateLimiterProofs` | theorems about the limiter | `RateLimiter` |
| `RateMeter` | what one address is allowed in a window | `RateLimiter` |
| `MCRateMeter` | a shard function | `RateMeter` |
| `RateMeterProofs` | the theorem about the rate | `RateMeter`, `RateLimiterProofs` |
| `Exchange` | proxy and stripper around one round trip | |
| `ExchangeProofs` | theorems about an exchange | `Exchange` |
| `HTMLScanner` | the stripper's scanner | |
| `MCHTMLScanner` | pages for TLC | `HTMLScanner` |
| `HTMLScannerProofs` | theorems about the scanner | `HTMLScanner` |
| `Headers` | header fields on their way through the chain and back | |
| `MCHeaders` | requests and responses for TLC | `Headers` |
| `HeadersProofs` | theorems about header fields | `Headers` |
| `Config` | what `Load` accepts, and what it makes of the environment | |
| `Server` | the process: start, service, shutdown, time | `Config`, instantiates `AdmissionLine` |
| `MCServer` | defaults and environments for TLC | `Server` |
| `ServerProofs` | theorems about the process | `Server` |

In every module of a component a definition whose comment begins with "Faulty variant"
is not part of the specification. It stands before the definition it
is a variant of, and is what a plausible mistake in that piece of code would make of
it. Each checked property has one that violates it, so that no property is satisfied
for want of anything that could go wrong.

### WaitingRoom

One action is one atomic operation of the code on shared state: an `atomic.AddInt64`,
a channel send or receive, a decision of a select. `pc[r]` says which operation comes
next in the goroutine of request `r`.

| code | model |
|---|---|
| `wr.activeRequests`, `wr.queueDepth` | `activeRequests`, `queueDepth` |
| `wr.queue` | `queue`, a sequence of request names |
| the ticket of a request (`make(chan struct{}, 1)`) | its name; `buffer[r]` counts the signals in it |
| `r.Context()` is done | `r \in disconnected` |
| increment within the limit / above it, then undone | `AdmitDirect` / `Overload`, `UndoIncrement` |
| position, non-blocking send, 503 on a full queue | `TakePosition`, `Enqueue`, `QueueFull`, `TurnAway` |
| the select: signal / `time.After` / `ctx.Done` | `Receive` / `QueueTimeout` / `LeaveQueue` |
| after the signal: leave the queue's count, look at the context, claim | `LeavePosition`, `PassOn`, `ClaimSlot` |
| deferred `releaseSlot`: decrement, then signal | `ReleaseSlot`, then `SignalNext` or `SignalNobody` |
| `drainTicket` | `DrainReceive`, `DrainForward`, `DrainExpire`, `DrainExit` |

A name may be used by a new request as soon as the old one's goroutines are gone and
its ticket is out of the queue; that models any number of requests over time with a
bounded number alive. A request whose safety timeout expired leaves its ticket behind,
so its name stays blocked until the ticket is dequeued, as the memory does in the code.
Receiving from the queue and sending to the ticket are one step in `SignalNext`: between
the two the ticket is in the hands of one goroutine only, and `SignalNeverBlocks` shows
that the send does not wait. Durations are not modelled: a timer may fire at any moment
its select is parked. That includes every order the real durations allow, and some they
do not; the safety properties hold for all of them. The safety timeout is two minutes and
the queue timeout is configured, so the orders in which that
timeout matters need a backend that stays busy for that long while its queue does not move.

### AdmissionLine

The promise, in the client's terms: who is outside, deciding, waiting, called or served; one
line; and vouchers, each a departure nobody has been called for. It is weaker than a
semaphore because the code is: the limit is only seen by those who walk in. `Stage`,
`Vouchers` and the queue are the refinement mapping; `queueDepth`, `activeRequests`, ticket
buffers and cleanup goroutines disappear. The refinement says that calls follow the order
of joining, that a call is paid for by one departure, and that a direct entry sees fewer
than the limit served. `Server` uses the same module as its waiting room: what is proved of
the room is what the server's model relies on.

### RateLimiter and TokenBuckets

| code | model |
|---|---|
| `time.Now().UnixNano()` | `clock`, which ticks and may be set back (`SetBack`) |
| the map entry of an address | `buckets[ip]`, a heap object or `None` |
| `bucket` | a record of the heap; unreachable ones are collected |
| read-locked lookup in `Allow` | `Lookup`; the pointer it found is `held[r]` |
| `getOrCreate` under the write lock | `GetOrCreate` |
| `consume` under the bucket's mutex | `Consume` with `Refilled` |
| ticker, `runGC`, cutoff | `StartSweep`, `EndSweep`, `cutoff` |
| phase 1: read lock, loop, unlock | `LockShared`, `Scan`, `UnlockShared` |
| phase 2: write lock, re-check and delete, unlock | `LockExclusive`, `Evict`, `UnlockExclusive` |
| root context cancelled | `StopGC` |

A bucket's mutex makes `consume` one step, since its one other reader, the sweep, only
loads `lastSeen` atomically. Locks of the shards are not variables: the place of the sweep
says which it holds, and a lookup or a creation holds its lock within one step. Tokens are
exact: `Rate` fractions flow in per tick and a request costs `Cost`. Rounding of float64
is not modelled. `shardFor` is an arbitrary function from addresses to shards.

`TokenBuckets` has a bucket that fills by itself. `Level` is the mapping: what a bucket
would hold if it were refilled now, and a full bucket for an unknown address. The promise
has two provisos, both taken from the code. A request whose bucket is deleted between its
lookup and its `consume` may be answered from an object nobody else sees (`excused`). And a
clock set back by `MaxSkew` in all can hide up to `Slack` fractions from a bucket; it can
never create any.

`RateMeter` says the same in the words of `config.go` (RateLimit, BurstSize), without buckets: it
leaves the limiter as it is and counts beside it, in a window that opens at any moment, how many
calls the bucket of each address in `Watched` has paid for and how often the sweep has deleted it. Calls
answered from a bucket that was deleted under their hands do not count, which is the first proviso
above. A bucket that is deleted comes back full and forgets that it lagged behind a clock that was
set back; that is worth up to `Slack` each time, and nothing if the clock never is.

### Exchange

One goroutine against a backend, a client and a timer. `pc` follows `ServeHTTP` and the
stripper around it:

| code | model |
|---|---|
| stripper: compare the load, take a buffer, `Reset` | `Start` |
| `buildBackendRequest` | `Ask`, `BuildFails` |
| `client.Do` returns a response / an error | `Answered` / `DoFails` |
| meanwhile the transport reads `r.Body`: to its end, malformed, past `ReadTimeout` | `UploadEnds`, `UploadBreaks`, `UploadTimesOut` |
| `r.Context()` is done | `cancelled`, by `Notice` or `UploadTimesOut` |
| cases A, B, C after an error | `Classify`, `WriteError` |
| copy headers, `WriteHeader` of the stripper's writer | `WriteHeader` |
| `io.Copy`: read, write | `ReadChunk`; `Hold` (stripper), `Deliver` or `WriteFails`; `CopyEnds` |
| deferred drain and close | `DrainChunk`, `Close` |
| stripper on the way out | `SendStripped`, `SendFails` or `NothingHeld` |
| net/http ends the response | `Finish` |

A page is a sequence of chunks, and a chunk only tells whether it is of this exchange
(`"own"`), left over in a pooled buffer (`"old"`) or an error message. Stripping itself keeps
the chunks; what it does to the text is the scanner's matter. `length` records whether
Content-Length is among the headers the client got, and `LooksWhole` is what a client can
then tell: net/http breaks a response off if the handler wrote fewer bytes than it had
announced. `http.Client.Timeout` runs from `Do` to the end of the body, which is how
net/http defines it; `ResponseHeaderTimeout` is a second shorter and can only bring the same
failure earlier.

`gone` and `cancelled` are two things: that the client's connection is of no use, and that
`r.Context()` is done. net/http cancels the context when a read from the connection or a write
to it fails. That is how it learns of a client that has left (`Notice`), but a read of the
request's body that runs into the server's `ReadTimeout` is such a failure too, and then the
client is still there. How the failed read and the cancelled context are seen by `client.Do` and
by the check at line 289 is net/http's affair; the model allows every order. A failed upload
ends the exchange with the backend in any case, before its answer or in the middle of it:
the transport closes the connection. A body may also break because the backend answers before
it has been sent: net/http then reads the rest of it itself, to be able to answer the client.

### HTMLScanner

A page is a sequence of symbols: the characters and words the scanner compares with, in
lower case since it folds case, and `x` for all other text. The condition on what may
follow a tag's name, the search for the first end from the tag's own `<`, and the way the
offset of that end becomes the next position are modelled as they are in the code; so a
`</script>` inside an attribute, a `<style` at the end of the page, or a `<body` without `>`
do what they do there.

| code | model |
|---|---|
| `hasTagPrefix(rem, "<script")` with its word boundary | `TagAt("script", pos)` |
| `indexFold`, `bytes.IndexByte` | `Stretch`: from here to the first end |
| text up to the next `<` | `FastForward` |
| the five kinds of construct | `StripScript`; `StripStyle`, `KeepStyle`; `StripLink`, `KeepLink`; `ReplaceImg`; `InjectNotice` |
| nothing fits, or the end is missing: emit `<` | `EmitAngle` |

The output records which symbol each item stands for, which makes order and loss
properties of it. `FastForward` and the branch behind it are two steps here and one turn of the
loop in the code; nothing else runs in between. The limit on style blocks is counted in
symbols instead of bytes.

### Headers

One request from the room to the transport and its response back. A field is the sequence
of its lines, a line the sequence of its comma-separated elements, because the code treats
the two differently: `Get` sees the first line, `Set` replaces all, `Add` and the copy loops
keep all. `Values` is what others write into their fields, `Words` adds what the program writes
itself, and a request or response is any assignment of lines of words to fields; the theorems are
about all of them, and `MCHeaders` selects those that lead the code different ways.

| code | model |
|---|---|
| `Retry-After` set before parking | `Admit` |
| `r.Header.Del("Accept-Encoding")` | `Intercept` |
| `copyRequestHeaders`, `sanitizeHopByHopHeaders`, X-Forwarded-For, the other three, Via | `Build` |
| `http.Transport` asks for gzip itself if nobody asked, not for HEAD or with Range, and undoes what it has asked for; the backend | `RoundTrip` |
| `copyResponseHeaders` and the proxy's own two fields | `Relay` |
| `WriteHeader` of the stripper's writer | `WriteHeader` |

The body is three facts: the coding the backend has used, the coding it is in now, and whether it
is what the backend sent. The backend may use any coding, also one that nobody asked for. Two
things are assumed of it or of net/http and are not checked anywhere in `src/`:

* Content-Encoding names the coding that was used. A backend that compresses and does not say so is
  beyond what anybody on the way could notice.
* net/http's transport (compression not disabled, HTTP/1.1) adds `Accept-Encoding: gzip` if
  `Get("Accept-Encoding")` and `Get("Range")` are empty and the method is not HEAD, and decompresses
  only what it has asked for, taking Content-Encoding and Content-Length away.

`Acceptable` is what the request that goes out allows. `ScannerReadsText` and the second clause of
`BodyAsDescribed` are about a backend that keeps to it, since nothing in the stripper looks at
Content-Encoding (`stripper.go:53-61`): an encoded page that comes unasked is scanned as it is.
Weights (`q=0`, `*`) are not modelled.

### Config and Server

`Config` says which environments `Load` accepts and what it makes of them; `Server` starts from
any of the given environments. One action is one thing main, a server or a handler does.

| code | model |
|---|---|
| `config.Load`, `proxy.New`, building the servers | `Start`, `RefuseToStart` |
| `proxyServer.WriteTimeout` | `writeTimeout`, from `ServerTimeout` |
| the two goroutines with `ListenAndServe`, `os.Exit` | `ListenAndServe`, `ListenerFails` |
| before `signal.Notify` / the signal | `Notify`, `Killed` / `Signal` |
| two goroutines with `Shutdown(shutdownCtx)` | `BeginShutdown`, `EndShutdown`; `GraceOver` is the context |
| `wg.Wait` and the end of main | `Return` |
| `rlMiddleware` | `LimitRate`: it may refuse any request |
| `wr.Middleware` | the actions of `AdmissionLine`, with time |
| `prx.ServeHTTP` | `Answer`, `AnswerError` (BackendTimeout), `Finish`, `WriteFails`, `Abandon` |
| keep-alive connections, idle ones closed by `Shutdown` | `conn`, `KeepAlive`, `CloseIdle` |

Time is a clock that ticks when no code is due: running code takes no time, waiting does.
`age[c]` is the time since the header of the request was read, from which net/http reckons the
write deadline; `since[c]` is the time in the present stage, which the room and `http.Client` compare
with their timeouts. A unit stands for 15 s, the granularity of the constants in main.

## 3. What is checked

| run | instance | states | shows |
|---|---|---|---|
| `room_safety` | 5 requests, limit 2, queue 2 | 135 787 (symmetry) | `TypeOK`, `CountersExact`, `SignalNeverBlocks`, `TicketReachable`, `SlotConservation`, `RefinesAdmissionLine` hold |
| `room_liveness` | 3 requests, limit 1, queue 2 | 13 000 | `EveryGoroutineEnds`, `NoStarvation` hold under fairness |
| `room_stranded` | 2 requests, limit 1 | | `NoStrandedWaiter` fails |
| `room_overshoot` | 3 requests, limit 1, one core | | `OvershootWithinCores` fails |
| `limiter_safety` | 2 addresses in a shard, 2 calls, clock to 4, set back by 1 | 1 138 427 (symmetry) | `TypeOK`, `OneBucketPerAddress`, `EvictsOnlySilent`, `RefinesTokenBuckets` hold |
| `limiter_sweep` | 2 addresses in 2 shards, 1 call, fair sweep, a meter on one address, burst 2, clock to 4, never set back | 2 003 913 | `SilentIsCollected`, `WithinRate` hold |
| `exchange` | pages up to 3 chunks | 72 745 | `TypeOK`, `RightAnswer`, `WholePage`, `TruncationShows`, `OwnPage`, `ExchangeEnds` hold |
| `exchange_cut` | the same | | `StreamingIsNotTimed` fails |
| `scanner` | pages of up to 4 fragments out of 12, or 5 out of 9 | 559 443 | `TypeOK`, `InOrder`, `LossExplained`, `HeavyIsStripped`, `OneNotice`, `Progress`, `ScanEnds` hold |
| `server` | 2 clients, limit 1, room 1, timeouts up to 30 s, grace 15 s | 1 387 403 | `TypeOK`, `AnswerInTime`, `NoneOutlivesDeadline`, `DrainedBeforeReturn`, `StopEnds` hold |
| `headers` | 864 requests, GET and HEAD, 16 responses, 3 codings | 981 504 | `TypeOK`, `HopByHopStops`, `EndToEndArrives`, `ClientIsNamed`, `ScannerReadsText`, `BodyAsDescribed`, `AnswerRelayed` hold |
| `headers_chain` | the same | | `ChainIsPreserved` fails |

The deadlock check is off where the modelled code ends: a scan, and the life of one request
(`scanner`, `headers`, `headers_chain`). In `Server` the end of the process is an action (`Ended`), so
that every other halt would be a deadlock.

Why the bounds are enough to see what can go wrong.

* Room: with five requests, two are in the backend, two fill the queue and one
  more is turned away or takes a freed slot directly, while any of them may be
  departed tickets. A queue of two has a front that has left and a live one behind it.
  The theorems below remove the bound.
* Limiter: two calls suffice to race for one bucket or for its deletion; four buckets
  exceed what two addresses and two calls can reach at once, so the heap never blocks
  a call. `Rate = 3`, `Cost = 2` makes a tick worth one and a half tokens, so fractions
  remain and the cap cuts one off. An idle timeout of 2 and a clock up to 4 leave room
  for a bucket to be created, go silent, be swept and be created again. `MaxClock` and
  `MaxSkew` are the only artificial bounds: once the clock has stopped the rest of the
  system goes on. In `limiter_sweep` one address is measured, since buckets share nothing. Its bucket holds two
  requests and fills in two ticks, which is also the idle timeout: it can be used, deleted, made again
  and used again within one window. The clock is never set back there, so that `Slack` is nothing
  and a deletion is credited with nothing: a bucket deleted early breaks `WithinRate`
  (`EvictUnchecked`), as does one without a cap. `limiter_safety` and the theorem have a clock that
  is set back. The theorems remove the bounds.
* Exchange: three chunks give a page that is cut at its start, inside and before its
  end. The theorems remove this bound too.
* Scanner: a fragment is a whole tag, a tag without its end, or what completes another
  one, so four or five of them nest, overlap and break off in every way two constructs can.
  The theorems remove this bound.
* Headers: no step looks at more than two fields at once. Each field that a step reads has the
  values that lead it different ways: absent, empty, one line, several lines. A coding is none, the
  one the transport knows, or another. The theorems are about any fields and codings.
* Server: one client is served while the other waits; a third place is not needed for a full
  line, since a departed client's ticket still fills it. Every combination of the three
  timeouts set to 15 s or 30 s or left at its default runs, and every single way in which
  validation refuses. The theorems are about any number of clients, any limits and any environment.

`limiter_safety` uses an instance whose bucket is full again within the idle timeout,
as the default configuration's is (100 tokens per second, 200 at most, 5 minutes), and so does
`limiter_sweep`.

### Fairness

* `WaitingRoom!FairSpec`: weak fairness of `Step(r)` for each request. The Go scheduler
  runs every goroutine that can run. It includes `ReleaseSlot`: calls to the backend end,
  which is not assumed out of thin air but is what `ExchangeEnds` checks of the proxy. No
  fairness for arrivals and disconnections. `Step` contains both branches where a Go select
  chooses, so the choice itself is not fair.
* Timers: only `EveryGoroutineEnds` needs them, and it names the assumption (`TimersFire`)
  in its statement. `NoStarvation` holds without timers: the order of the line does it.
* `RateLimiter!FairSpec`, and `RateMeter!FairMeterSpec` with the meter beside it: weak fairness of
  the sweep: its ticker keeps firing, and
  `sync.RWMutex` does not let readers starve a writer. Requests owe nothing.
* `Exchange!FairSpec`: weak fairness of what the handler does by itself, and of the
  timeout. A write to a client that does not read fails in the end because the server has
  a `WriteTimeout`; `WriteFails` is therefore among the handler's steps and `Deliver` is not.
  Backend and client owe nothing.
* `HTMLScanner!FairSpec`: weak fairness of the loop. It is sequential code.
* `Server!FairSpec`: weak fairness of main after the signal, of both `Shutdown` goroutines, of the
  room and of each handler, and of time. Clients, backend, scrapes and listeners owe nothing.

### Disagreements between the code and its comments

Each is a run that TLC refutes, with the quoted line in `PROJECT.json`.

1. `room_stranded`: `signalNext` takes an empty queue to mean that nobody will wait. A
   request that found the limit reached may enqueue after that look; it then waits
   although the backend is idle, until other traffic completes or its timer fires. A
   second look at the counter after the enqueue would close the gap.
2. `room_overshoot`: the comment bounds the overshoot by GOMAXPROCS. Signalled goroutines
   do not count until they run, so the excess follows the length of the queue instead.
3. `exchange_cut`: `BackendTimeout` is said not to include streaming the body. It does.
4. `headers_chain`: "We preserve the full chain" of X-Forwarded-For. If it is on several lines, all
   but the first are lost.

Others were met while modelling. Some have shown in a run that is no longer kept, since each
is a consequence of a line that is quoted here, and the remaining runs cover more:

* The room's overshoot is called momentary (`waitingroom.go:220`). Under load it can last: every
  release both frees the counter for a newcomer and calls a waiter.
* `drainTicket` exists so that no slot is lost (`waitingroom.go:399`), and its own safety timeout
  leaves a ticket in the queue that swallows the next signal. `SlotConservation` names this exception.
* "After 5 minutes of silence, an IP's rate-limit state is irrelevant" (`token_bucket.go:89`) is true
  only if a bucket fills within 5 minutes; `validate` accepts limits where it does not.
* The second look of the sweep (`token_bucket.go:502`) does not see a request between its lookup
  and its `consume`; `TokenBuckets` excuses it.
* "15-second grace period for in-flight requests and waiting room to drain" (`main.go:169`): requests
  may wait for `QueueTimeout`, 30 s by default, and are then still in line when main returns.
* `WriteTimeout` is validated against `QueueTimeout` (`config.go:213`), but main does not use it, nor
  `ReadTimeout` and `IdleTimeout`. `AnswerInTime` holds because of the value main computes instead.
* `RATE_LIMIT=NaN` passes `validate`, since no comparison with NaN is true.
* `proxy.go:217` says that compressed responses are forwarded as they are and that the stripper asks
  for `identity`. The stripper deletes Accept-Encoding; the transport then asks for gzip on its own and
  decompresses.
* "Prevent the backend from sending compressed responses (gzip/br) so we can scan the raw HTML"
  (`stripper.go:94`): deleting Accept-Encoding allows the backend any coding. That it is answered in
  text is the transport's doing, and the transport does nothing for a request with Range. A part of a
  page that comes compressed is scanned as it is, and relayed to a client that may not know its coding.
  The same becomes of a page that the backend encodes unasked. `ScannerReadsText` and
  `BodyAsDescribed` (`WishLost`) name these exceptions; without them TLC refutes both.
* Content-Length is removed from a page that is stripped (`stripper.go:57`), Content-Range is not. On
  a stripped 206 it states a range that the body no longer is; `BodyAsDescribed` names it.
* A context that is done is taken for "client disconnected [...] the connection is gone"
  (`proxy.go:286-288`). It is also done when `ReadTimeout` (10 s, `main.go:131`) ends the reading of the
  request's body. The client is then sent nothing by the proxy and an empty 200 by net/http.
* A 504 is said to be the backend's ("upstream server did not respond within the deadline",
  `proxy.go:301`). An upload that runs into `ReadTimeout` may look the same, before `BackendTimeout`; and
  a malformed one gives the 502 of a "genuine backend error" (`proxy.go:305`). `RightAnswer` names these
  causes. `ReadTimeout` runs while a request waits in line, so that one which is called after 10 s, with
  a body that net/http has not buffered by then, can only fail.
* Only the first Connection line is read for nominations (`proxy.go:557`); on the way back nominations
  are not read at all, and Proxy-Authenticate is relayed.
* Via is overwritten although the comment above quotes that it MUST be appended (`proxy.go:459`).
* A request that waited and was then admitted still carries the room's Retry-After
  (`waitingroom.go:281`), and the backend's is added behind it; `AnswerRelayed` names this exception.

## 4. What is proved

`WaitingRoomProofs` assumes `RoomAssumption` (finitely many requests alive, positive limits:
the second is what `validate` enforces) and nothing else.

* `TypeCorrect`: `Spec => []TypeOK`.
* `TicketsCorrect`: `SignalNeverBlocks` and `TicketReachable`. Neither is inductive alone. That
  a queued ticket has an empty buffer is needed to see that a signal and its reader stay
  paired; that a goroutine outside the select has no ticket in the queue is needed to see
  that a ticket is never queued twice. Their conjunction with `TypeOK` is `TicketInv`. `TicketReachability` states the second
  by itself.
* `CountersCorrect`: `CountersExact`. The lemma `Move` computes what the step of one goroutine
  from place to place does to the cardinality of a set of places; the rest is one line per
  action.
* `SlotsConserved`: `SlotConservation`, for every step, from `IInv` (tickets and counters
  together). `SignalledStep` is the core: the signal goes to another goroutine whose
  buffer has room, so holders are exchanged one for one unless that goroutine has expired.
  The bound on direct entries comes from `CountersExact`.
* `RoomRefinesLine`: `Spec => RefinesAdmissionLine`, action by action (`LineStep`): each action
  is one abstract action or a stutter. `SignalNext` is a call, a skip that keeps the voucher or a
  skip that loses it, according to where the owner of the ticket is.

`ExchangeProofs` assumes only that pages have at most some number of chunks.

* `ExchangeTypeCorrect`. The types are inductive with two facts added (`TypeInv`): a new
  exchange has asked nothing, and nothing is offered before the backend answers. They
  are what keeps `read` within `sent` and `sent` within the offer when the offer is fixed.
* `AnswerCorrect`, `PageCorrect`, `TruncationCorrect`, `PagesNeverMix`: `RightAnswer`, `WholePage`,
  `TruncationShows`, `OwnPage`, all from one invariant (`Progress`). It relates what has been read
  to what is kept or sent, and records an excuse for a copy that ended early. Excuses
  are stable, which is why they are still there when the exchange is over. `Excused`, that a context is
  only done if the client has gone or its upload was late, turns them into the exceptions that
  `RightAnswer` and `WholePage` name.

`HTMLScannerProofs` assumes nothing about pages but that they are sequences of symbols.

* The lemma `TurnTaken` sorts the actions into four kinds of turn and says what each has seen
  and written; `WrittenByTurn` computes what is in the output after each kind. All else rests on these.
* `ScannerTypeCorrect`, `ScannerProgresses`: the cursor stays on the page and every turn moves it.
* `ScannerKeepsOrder`: what a turn adds is in order (`AdditionsAre`) and lies behind what was there.
* `ScannerLosesNothingElse`, `ScannerStripsHeavy`: inductive with `TypeOK`. That a tag has one name and
  one end (`OneName`, `OneEnd`) is what keeps the branches apart.
* `ScannerWritesOneNotice`: needs two strengthenings. `bodyInjected` remembers whether the notice is in
  the output, and a body tag that was copied has its notice even if its end is still ahead of
  the cursor (`Noticed`). That no two items of the output are notices follows with `InOrder`.

`RateLimiterProofs` assumes `LimiterAssumption`: finitely many addresses and calls, at least one
shard, positive rate, cost, burst and idle timeout (what `validate` and the constants of the code
guarantee), and a heap that is large enough never to block a call. Its inductive invariant `IInv`
has four parts. `TypeOK` is not inductive alone: a creation needs that the call has an address
(`Paired`).
`Paired` also says that a bucket belongs to one address, in the maps and in the hands of the calls.
`Clocked` compares all time stamps with `clock + skew`, the time that has really passed, which never
runs back although the clock does. `Stale` says that a bucket which an old cutoff finds idle has not
been refilled since; it needs the clock to be set back by less than the idle timeout.

* `LimiterTypeCorrect`, `RacersShareBucket`, `OnlySilentIsEvicted`: `TypeOK`, `OneBucketPerAddress`,
  `EvictsOnlySilent`, the last two for every step.
* `LimiterRefinesBuckets`: `RefinesTokenBuckets`, action by action, from facts about refilling
  (`LevelTick`: a tick adds at most the rate; `LevelSetBack`: a step back hides at most as much;
  `LevelOfSilent`: what was silent for the idle timeout is full but for `Slack`). Its hypothesis
  `RefillsWhileIdle`, that a bucket fills within the idle timeout, is what the code's comment on the
  idle timeout claims and the default configuration satisfies; `validate` does not enforce it, and
  without it the theorem is false: a bucket is deleted before it is full and comes back full. TLC
  refutes the property, and `WithinRate` too, in an instance with a burst of 3, a rate of 1 and an idle
  timeout of 1.

`RateMeterProofs`: `RateHolds` is `WithinRate` for any addresses measured (`WatchedAssumption`), under the
same hypothesis. `WithinRate` is not
inductive, since it does not see what may still be paid. `Balanced` is: what the address was paid plus
what its bucket holds is at most the burst plus what has flowed in. That a step keeps the balance
follows from what `RateLimiterProofs` says about the level of a bucket in each step.

`HeadersProofs` assumes that requests and responses are headers, and that identity and gzip are among
the codings (`HeadersAssumption`). What it takes of net/http is in `RoundTrip` and listed under Headers
above. `FieldFacts` are the few facts
about lines it needs, `BuiltField` computes what `buildBackendRequest` makes of each field. The
inductive invariant is `WayIn /\ WayOut`: what the outgoing request is made of, and when the transport
has asked for gzip, how the body is encoded then, and what the fields say of it at every stage of the
response. `EncodingAsked` says what is left of the client's Accept-Encoding, which with the transport's
rule gives `ScannerReadsText` and `Decodable`.

* `HeadersTypeCorrect`, `ConnectionFieldsStop`, `OtherFieldsArrive`, `ClientAlwaysNamed`,
  `ScannerAlwaysReadsText`, `BodyAlwaysAsDescribed`, `AnswerAlwaysRelayed`: the seven invariants
  of the run `headers`, for any request and any response.

`ServerProofs` assumes `ServerAssumption` (finitely many clients, positive limits and periods) and
`ConfigAssumption` (the defaults pass `validate`, an environment gives values to known names). The
configuration is any that `Load` accepts: `LoadedConfig` derives from `validate` and the helpers what
the rest needs of it. The inductive invariant is `TypeOK` with four additions. `Backed`: a voucher has
a client who has left. `Loading`: nothing listens before the configuration is read, and the write
deadline is the one main has computed. `OnTime`: at each stage the two clocks of a client are bounded
by the timeouts due there, so that `QueueTimeout` and `BackendTimeout` together stay below the
deadline. `Closing`: a server that shuts down does not listen, and one that is done in time is quiet.
`ClientStep` says once what any action of a client leaves alone, and `LineSteps` sorts the moves of the
line into three kinds.

* `ServerTypeCorrect`, `AnswersInTime`, `DeadlineEndsRequests`, `ReturnsDrained`: `TypeOK`,
  `AnswerInTime`, `NoneOutlivesDeadline`, `DrainedBeforeReturn`.

The three `IInv` of limiter, headers and server, and `Balanced`, also hold in the instances of their
runs when TLC checks them as invariants.

Only model-checked: liveness (`EveryGoroutineEnds`, `NoStarvation`, `SilentIsCollected`,
`ExchangeEnds`, `ScanEnds`, `StopEnds`). It needs ENABLED and fairness, which are out of the prover's
reach. Every other property of a passing run is a theorem.

## 5. What is not modelled

* Wait page, `estimateWait`, what the metrics endpoints print, logging: formatting and reading.
* `joinPath`, `ExtractIP` and the request's URL: functions of the request without state. The
  limiter takes the address as given.
* Of the configuration: addresses, `ReadTimeout`, `IdleTimeout`, `InsecureSkipVerify`, and NaN. main
  does not use the configured `ReadTimeout`; the 10 s it uses instead are `UploadTimesOut` of `Exchange`.
  In `Server` an error that an upload brings about is an answer like any other: `Answer` may come at
  any time while a client is served. `ReadTimeout` on the header of a request is left out: no handler
  runs before the header has been read.
* Which requests the limiter refuses, in `Server`: any may be, which includes what `RateLimiter` does.
  What the stripper does to a page, in `Exchange`: it keeps the chunks.
* Panics: a panic in the backend call runs the same deferred `releaseSlot` as a return.
* Float rounding of tokens, and hash collisions: see above.
* HTTP/2, and the keep-alive pool behind `http.Client`: external. `Close` only says whether a
  connection could be used again.
* A comment that is wrong and has no run: `proxy.go:324` says that draining recycles the
  connection after the client has left, but the outgoing request carries the client's
  context, so its body can no longer be read.
* The deployment files: values and text.

## 6. Plan

In this order; the first entries are done.

1. `WaitingRoom`, `AdmissionLine`, their runs and theorems. Done.
2. `RateLimiter`, `TokenBuckets`, their runs. Done.
3. `Exchange`, its runs and theorems. Done.
4. `HTMLScanner`, its run and theorems. Done.
5. `Config` and `Server`, which composes the stages of `AdmissionLine` with the server's life. Done.
6. `Headers`, its runs. Done.
7. `RateLimiterProofs` with the refinement of `TokenBuckets`; `RateMeter`, its run and theorem. Done.
8. `HeadersProofs` and `ServerProofs`. Done.
9. The steps that liveness rests on and that are safety: that every turn of `drainTicket` and of the
   room's line brings a request closer to its end, as action properties with a decreasing measure.
