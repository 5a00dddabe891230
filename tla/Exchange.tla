------------------------------ MODULE Exchange ------------------------------
(***************************************************************************)
(* One request through a route's middleware chain, and its answer back     *)
(* through the writers the chain puts in front of the proxy: Compress,     *)
(* HeaderTransform, Retry's buffer, PanicRecover's tracker, the recorders  *)
(* of AccessLog and observingHandler, and the server's own writer.  Each   *)
(* wraps the next, holds back or rewrites some of what passes, and acts    *)
(* again when the handler returns or panics.                               *)
(*                                                                         *)
(* A body is a sequence of chunks, each as long as one Read returned: its  *)
(* attempt, its index and its size in units of which MinBytes is a number. *)
(***************************************************************************)
EXTENDS Integers, Sequences, Functions

CONSTANTS
  MaxAttempts,   \* bound: of Retry's configuration
  RetryOn,       \* the statuses Retry's configuration lists
  MinBytes,      \* Compress's threshold
  AcceptHeaders, \* bound: Accept-Encoding headers, as sequences of [name, q]
  Bodies         \* bound: the bodies an upstream may send, as sequences of sizes

ASSUME ExchangeAssumption ==
  /\ MaxAttempts \in Nat \ {0} /\ MinBytes \in Nat \ {0}
  /\ Bodies \subseteq Seq(Nat \ {0}) /\ RetryOn \subseteq Nat
  /\ AcceptHeaders \subseteq Seq([name : STRING, q : Nat])

VARIABLES
  chain,   \* which middlewares the route has
  msg,     \* the request as the client sent it
  pc,      \* where its goroutine is
  bodyBuf, maxAttempts,                        \* serveSequential's
  attempt,
  expired, \* the deadline Timeout set has passed
  err,     \* outcome.Err of the attempt
  resp,    \* the upstream's response of the attempt, and what was read of it
  w,       \* the writers, from the proxy's to the server's
  sent     \* ghost: the requests the upstreams were sent

exchangeVars == <<chain, msg, pc, bodyBuf, maxAttempts, attempt, expired, err, resp, w, sent>>

NoLength == -1
Encodings == <<"gzip", "zstd", "br">>       \* in the order of the type encoding
NoHeader == [coding |-> "none", length |-> NoLength, skipType |-> FALSE, added |-> FALSE]

\* A compressingWriter, where Compress is in the chain and the client takes
\* codings; a bufferedResponse, where Retry is.
NewCompressor == [wroteHeader |-> FALSE, committed |-> FALSE, compress |-> FALSE,
                  status |-> 0, buf |-> <<>>]
NewBuffer == [status |-> 0, body |-> <<>>]

Writers ==
  [hdr |-> NoHeader,             \* what Header() returns to the proxy
   applied |-> FALSE,            \* the responseHeaderRewriter's
   comp |-> NewCompressor, rec |-> NewBuffer,
   wroteHeader |-> FALSE,        \* the writeTracker's
   logged |-> 200, logging |-> FALSE,                        \* the recorders'
   net |-> [status |-> 0, hdr |-> NoHeader, body |-> <<>>, headers |-> 0]]

NoResponse == [from |-> "none", status |-> 0, hdr |-> NoHeader, sizes |-> <<>>, read |-> 0,
               broken |-> FALSE]

ExchangeInit ==
  /\ chain \in [retry : BOOLEAN, headers : BOOLEAN, compress : BOOLEAN, timeout : BOOLEAN]
  /\ msg \in [body : {"none", "small", "large", "broken"}, retryable : BOOLEAN,
              accept : AcceptHeaders]
  /\ pc = "arrived" /\ attempt = 0 /\ expired = FALSE /\ err = FALSE
  /\ bodyBuf = "none" /\ maxAttempts = 1
  /\ resp = NoResponse /\ w = Writers /\ sent = <<>>

\* The switch on a directive's name: 0, encodingNone, for a name it does not have.
candidate(d) ==
  IF d.name \in Range(Encodings) THEN CHOOSE e \in DOMAIN Encodings : Encodings[e] = d.name
  ELSE 0

\* Mutant of pickEncoding: the last of two equal offers is taken.
lastOfEqual(accept) ==
  LET best[n \in 0..Len(accept)] ==
        IF n = 0 THEN [enc |-> 0, q |-> -1]
        ELSE IF accept[n].q # 0 /\ candidate(accept[n]) # 0 /\ accept[n].q >= best[n - 1].q
               THEN [enc |-> candidate(accept[n]), q |-> accept[n].q]
        ELSE best[n - 1]
  IN  best[Len(accept)].enc

\* pickEncoding's loop: the best of the first n directives, where one of q = 0
\* is passed over.
Beats(d, best) ==
  /\ d.q # 0 /\ candidate(d) # 0
  /\ d.q > best.q \/ (d.q = best.q /\ candidate(d) > best.enc)

pickEncoding(accept) ==
  LET best[n \in 0..Len(accept)] ==
        IF n = 0 THEN [enc |-> 0, q |-> -1]
        ELSE IF Beats(accept[n], best[n - 1])
               THEN [enc |-> candidate(accept[n]), q |-> accept[n].q]
        ELSE best[n - 1]
  IN  best[Len(accept)].enc

Compressing == chain.compress /\ pickEncoding(msg.accept) # 0

-----------------------------------------------------------------------------
\* The server's writer: the first WriteHeader sends the headers as they are.
netWriteHeader(x, code) ==
  [x EXCEPT !.net.headers = @ + 1,
            !.net.status = IF @ = 0 THEN code ELSE @,
            !.net.hdr = IF x.net.status = 0 THEN x.hdr ELSE @]

netWrite(x, items) ==
  LET y == IF x.net.status = 0 THEN netWriteHeader(x, 200) ELSE x
  IN  [y EXCEPT !.net.body = @ \o items]

\* writeTracker, accessRecorder and statusWriter, in front of it.
outerWriteHeader(x, code) ==
  netWriteHeader([x EXCEPT !.wroteHeader = TRUE, !.logging = TRUE,
                           !.logged = IF x.logging THEN @ ELSE code], code)

outerWrite(x, items) ==
  netWrite([x EXCEPT !.wroteHeader = TRUE, !.logging = TRUE], items)

\* bufferedResponse, where Retry is, or else what is in front of it.
bufWriteHeader(x, code) ==
  IF chain.retry THEN [x EXCEPT !.rec.status = IF @ = 0 THEN code ELSE @]
  ELSE outerWriteHeader(x, code)

bufWrite(x, items) ==
  IF chain.retry THEN [x EXCEPT !.rec.status = IF @ = 0 THEN 200 ELSE @,
                                !.rec.body = @ \o items]
  ELSE outerWrite(x, items)

\* responseHeaderRewriter.
applyOnce(x) ==
  IF chain.headers /\ ~ x.applied THEN [x EXCEPT !.applied = TRUE, !.hdr.added = TRUE]
  ELSE x

sinkWriteHeader(x, code) == bufWriteHeader(applyOnce(x), code)
sinkWrite(x, items) == bufWrite(applyOnce(x), items)

-----------------------------------------------------------------------------
\* compressingWriter.
Coded(items) == [i \in DOMAIN items |-> [items[i] EXCEPT !.coded = TRUE]]

Total(sizes) ==
  LET sum[n \in 0..Len(sizes)] == IF n = 0 THEN 0 ELSE sum[n - 1] + sizes[n]
  IN  sum[Len(sizes)]

Size(items) == Total([i \in DOMAIN items |-> items[i].size])

shouldCompress(x) ==
  /\ x.hdr.coding = "none"
  /\ x.comp.status \notin {204, 304}
  /\ ~ x.hdr.skipType
  /\ x.comp.buf = <<>> \/ Size(x.comp.buf) >= MinBytes

\* Mutant of setCoding: Content-Length is left as the upstream sent it.
keepsLength(x) == [x EXCEPT !.hdr.coding = Encodings[pickEncoding(msg.accept)]]

setCoding(x) ==
  [x EXCEPT !.hdr.coding = Encodings[pickEncoding(msg.accept)], !.hdr.length = NoLength]

commit(x) ==
  LET yes == shouldCompress(x)
      code == IF x.comp.status = 0 THEN 200 ELSE x.comp.status
      buf == x.comp.buf
      y == [x EXCEPT !.comp.committed = TRUE, !.comp.compress = yes, !.comp.status = code,
                     !.comp.buf = <<>>]
      z == sinkWriteHeader(IF yes THEN setCoding(y) ELSE y, code)
  IN  IF buf = <<>> THEN z ELSE sinkWrite(z, IF yes THEN Coded(buf) ELSE buf)

WriteHeader(x, code) ==
  IF ~ Compressing THEN sinkWriteHeader(x, code)
  ELSE IF x.comp.wroteHeader THEN x
  ELSE [x EXCEPT !.comp.wroteHeader = TRUE, !.comp.status = code]

\* Mutant of Write: it buffers after the commit too.
keepsBuffering(x, items) ==
  IF ~ Compressing THEN sinkWrite(x, items)
  ELSE [x EXCEPT !.comp.buf = @ \o items]

Write(x, items) ==
  IF ~ Compressing THEN sinkWrite(x, items)
  ELSE LET y == IF x.comp.wroteHeader THEN x ELSE WriteHeader(x, 200)
           z == [y EXCEPT !.comp.buf = @ \o items]
       IN  IF y.comp.committed
             THEN sinkWrite(y, IF y.comp.compress THEN Coded(items) ELSE items)
           ELSE IF Size(z.comp.buf) < MinBytes THEN z ELSE commit(z)

\* No writer behind the compressingWriter is a Flusher, so that the proxy's
\* flushes go no further, and without it there is none.
Flush(x) == IF Compressing /\ ~ x.comp.committed THEN commit(x) ELSE x

\* What closing the encoder writes is an item of no size.
Trailer == [attempt |-> 0, index |-> 0, size |-> 0, coded |-> TRUE]

\* Mutant of Close: the encoder is not closed.
commitsOnly(x) == IF Compressing /\ ~ x.comp.committed THEN commit(x) ELSE x

Close(x) ==
  IF ~ Compressing THEN x
  ELSE LET y == IF x.comp.committed THEN x ELSE commit(x)
       IN  IF y.comp.compress THEN sinkWrite(y, <<Trailer>>) ELSE y

-----------------------------------------------------------------------------
Item(i, size) == [attempt |-> attempt, index |-> i, size |-> size, coded |-> FALSE]

\* writeError, and http.Error: a status and one line.
writeError(x, code) == Write(WriteHeader(x, code), <<Item(1, 1)>>)

\* bufferReplayBody: a body over the cap comes back cut at the cap, one that
\* fails is closed and comes back as none.
bufferReplayBody(body) ==
  CASE body = "large" -> "cut" [] body = "broken" -> "closed" [] OTHER -> body

\* retryHandler.ServeHTTP up to its loop; without Retry the body streams.
RequestStart ==
  /\ pc = "arrived"
  /\ bodyBuf' = IF chain.retry THEN bufferReplayBody(msg.body) ELSE msg.body
  /\ maxAttempts' = IF chain.retry /\ msg.retryable /\ msg.body # "large" THEN MaxAttempts ELSE 1
  /\ pc' = "dispatch"
  /\ UNCHANGED <<chain, msg, attempt, expired, err, resp, w, sent>>

\* Mutant of Dispatch: the attempts share one buffer.
reusesBuffer ==
  /\ pc = "dispatch"
  /\ attempt' = attempt + 1
  /\ err' = FALSE /\ resp' = NoResponse
  /\ w' = [w EXCEPT !.hdr = NoHeader, !.applied = FALSE, !.comp = NewCompressor,
                    !.rec.status = 0]
  /\ pc' = "proxy"
  /\ UNCHANGED <<chain, msg, bodyBuf, maxAttempts, expired, sent>>

\* dispatch: a clone of the request and, where Retry is, a new buffer.
Dispatch ==
  /\ pc = "dispatch"
  /\ attempt' = attempt + 1
  /\ err' = FALSE /\ resp' = NoResponse
  /\ w' = [w EXCEPT !.hdr = NoHeader, !.applied = FALSE, !.comp = NewCompressor,
                    !.rec = NewBuffer]
  /\ pc' = "proxy"
  /\ UNCHANGED <<chain, msg, bodyBuf, maxAttempts, expired, sent>>

\* Mutant of Request: the attempts share the request's headers.
sharesHeaders == [body |-> bodyBuf, hops |-> IF chain.headers THEN attempt ELSE 0]

\* The request an attempt sends: HeaderTransform has added the client's
\* address to the clone's X-Forwarded-For.
Request == [body |-> bodyBuf, hops |-> IF chain.headers THEN 1 ELSE 0]

\* The proxy's handler has returned with writers x, or unwinds from a panic.
Returns(x) ==
  /\ w' = Close(x)
  /\ pc' = IF chain.retry THEN "attempted" ELSE "done"
  /\ UNCHANGED <<chain, msg, bodyBuf, maxAttempts, attempt, expired>>

\* No upstream is eligible, or its breaker refuses.
Refused(pickFailed) ==
  /\ pc = "proxy"
  /\ Returns(writeError(w, 503))
  /\ err' = pickFailed
  /\ resp' = [NoResponse EXCEPT !.from = "proxy", !.status = 503]
  /\ UNCHANGED sent

\* RoundTrip fails; it need not when the request's body does, as the upstream
\* may answer before it has read that.
RoundTripFails ==
  LET code == IF expired THEN 504 ELSE 502 IN
  /\ pc = "proxy"
  /\ Returns(writeError(w, code))
  /\ err' = TRUE
  /\ resp' = [NoResponse EXCEPT !.from = "proxy", !.status = code]
  /\ sent' = Append(sent, Request)

\* Mutant of Recovered: PanicRecover answers past the recorders.
answersPastRecorders(x) ==
  IF chain.retry THEN [x EXCEPT !.rec.status = IF @ = 0 THEN 502 ELSE @]
  ELSE IF x.wroteHeader THEN x
  ELSE netWrite(netWriteHeader(x, 500), <<Item(1, 1)>>)

\* Mutant of Recovered: dispatch recovers and leaves the status open.
leavesStatus(x) ==
  IF chain.retry \/ x.wroteHeader THEN x
  ELSE outerWrite(outerWriteHeader(x, 500), <<Item(1, 1)>>)

\* A panic reaches the recover of dispatch, or that of PanicRecover.
Recovered(x) ==
  IF chain.retry THEN [x EXCEPT !.rec.status = IF @ = 0 THEN 502 ELSE @]
  ELSE IF x.wroteHeader THEN x
  ELSE outerWrite(outerWriteHeader(x, 500), <<Item(1, 1)>>)

\* The selector panics.  Compress's deferred Close runs before the recover.
Panics ==
  /\ pc = "proxy"
  /\ w' = Recovered(Close(w))
  /\ pc' = IF chain.retry THEN "attempted" ELSE "done"
  /\ err' = TRUE
  /\ resp' = [NoResponse EXCEPT !.from = "panic"]
  /\ UNCHANGED <<chain, msg, bodyBuf, maxAttempts, attempt, expired, sent>>

\* RoundTrip returns, and copyResponse hands on the status and the headers.
Answers(status, hdr, sizes) ==
  /\ pc = "proxy" /\ ~ expired
  /\ resp' = [from |-> "upstream", status |-> status, hdr |-> hdr, sizes |-> sizes,
              read |-> 0, broken |-> FALSE]
  /\ w' = WriteHeader([w EXCEPT !.hdr = hdr], status)
  /\ sent' = Append(sent, Request)
  /\ pc' = "copying"
  /\ UNCHANGED <<chain, msg, bodyBuf, maxAttempts, attempt, expired, err>>

\* One round of copyResponse's loop.
CopyChunk ==
  LET i == resp.read + 1 IN
  /\ pc = "copying" /\ i <= Len(resp.sizes)
  /\ w' = Flush(Write(w, <<Item(i, resp.sizes[i])>>))
  /\ resp' = [resp EXCEPT !.read = i]
  /\ UNCHANGED <<chain, msg, pc, bodyBuf, maxAttempts, attempt, expired, err, sent>>

\* The loop ends at the end of the body, and also at an error before it.
CopyEnds ==
  /\ pc = "copying"
  /\ Returns(w)
  /\ resp' = [resp EXCEPT !.broken = resp.read < Len(resp.sizes)]
  /\ UNCHANGED <<err, sent>>

shouldRetry == err \/ w.rec.status \in RetryOn

\* flushTo.
flushTo(x) ==
  LET code == IF x.rec.status = 0 THEN 200 ELSE x.rec.status
  IN  outerWrite(outerWriteHeader(x, code), x.rec.body)

\* The rest of serveSequential's round.
AfterAttempt ==
  LET last == attempt = maxAttempts \/ ~ shouldRetry IN
  /\ pc = "attempted"
  /\ w' = IF last THEN flushTo(w) ELSE w
  /\ pc' = IF last THEN "done" ELSE "dispatch"
  /\ UNCHANGED <<chain, msg, bodyBuf, maxAttempts, attempt, expired, err, resp, sent>>

\* The context Timeout derived ends.
Deadline ==
  /\ chain.timeout /\ ~ expired /\ pc # "done"
  /\ expired' = TRUE
  /\ UNCHANGED <<chain, msg, pc, bodyBuf, maxAttempts, attempt, err, resp, w, sent>>

Done == pc = "done" /\ UNCHANGED exchangeVars

UpstreamHeaders(sizes) ==
  [coding : {"none", "upstream"}, length : {NoLength, Total(sizes)},
   skipType : BOOLEAN, added : {FALSE}]

ExchangeNext ==
  \/ RequestStart
  \/ Dispatch
  \/ \E pickFailed \in BOOLEAN : Refused(pickFailed)
  \/ RoundTripFails
  \/ Panics
  \/ \E status \in {200, 503}, sizes \in Bodies : \E hdr \in UpstreamHeaders(sizes) :
       Answers(status, hdr, sizes)
  \/ Answers(204, NoHeader, <<>>)
  \/ CopyChunk
  \/ CopyEnds
  \/ AfterAttempt
  \/ Deadline
  \/ Done

ExchangeSpec == ExchangeInit /\ [][ExchangeNext]_exchangeVars

-----------------------------------------------------------------------------
CodedHere == w.net.hdr.coding \in Range(Encodings)

\* The exchange's state is well-typed, and Compress holds nothing back once
\* it has decided.
ExchangeTypeOK ==
  /\ pc \in {"arrived", "dispatch", "proxy", "copying", "attempted", "done"}
  /\ bodyBuf \in {"none", "small", "large", "broken", "cut", "closed"}
  /\ attempt \in 0..maxAttempts /\ maxAttempts \in 1..MaxAttempts
  /\ expired \in BOOLEAN /\ err \in BOOLEAN
  /\ resp.from \in {"none", "proxy", "panic", "upstream"} /\ resp.read \in 0..Len(resp.sizes)
  /\ w.hdr.coding \in {"none", "upstream"} \cup Range(Encodings)
  /\ w.comp.committed => w.comp.buf = <<>>

\* The client sees one answer: WriteHeader reaches the server once, and the
\* bytes are those of a single attempt, from its first on, in order, coded
\* all or not at all, as the Content-Encoding that went out with them says;
\* nothing of an attempt that Retry gave up, nothing twice from Compress's
\* buffer (Retry, bufferedResponse, compressingWriter, PanicRecover).
OneAnswer ==
  LET body == w.net.body IN
  /\ w.net.headers <= 1
  /\ \A i \in DOMAIN body :
       \/ body[i].attempt = attempt /\ body[i].index = i /\ body[i].coded = CodedHere
       \/ body[i] = Trailer /\ i = Len(body) /\ CodedHere

\* Once the handler has returned, everything that was read of the upstream's
\* body has been handed to the server, under the upstream's status and with
\* the headers the route adds; a coded body is ended, so that the client can
\* tell that it is over (commit, Close, flushTo, applyOnce).
AnswerComplete ==
  pc = "done" /\ resp.from = "upstream" =>
    /\ w.net.status = resp.status
    /\ Len(w.net.body) = resp.read + (IF CodedHere THEN 1 ELSE 0)
    /\ w.net.hdr.added = chain.headers
    /\ CodedHere => w.net.body[Len(w.net.body)] = Trailer

\* A Content-Length that reaches the client is right unless the upstream
\* broke off, and then it shows that the body is cut.  It is dropped only
\* with the coding, where the cut no longer shows: copyResponse ends as if
\* the body were over and Close ends the coded stream (commit, CopyEnds).
LengthTells ==
  pc = "done" /\ resp.from = "upstream" =>
    /\ w.net.hdr.length = IF CodedHere THEN NoLength ELSE resp.hdr.length
    /\ w.net.hdr.length # NoLength =>
         (w.net.hdr.length = Size(w.net.body)) = ~ resp.broken

\* The proxy codes a body only as the client asked: it takes an encoding
\* the client lists with a q above 0, none listed has a greater q or the
\* same q and a better ratio; and never what is coded already, has no body,
\* is of a type to skip, or is too short to gain (pickEncoding,
\* shouldCompress).  An empty body is coded.
CodingAgreed ==
  CodedHere =>
    LET rank(d) == IF d.name = "br" THEN 3 ELSE IF d.name = "zstd" THEN 2 ELSE 1
        offers == {d \in Range(msg.accept) : d.q > 0 /\ d.name \in Range(Encodings)}
        size == Size(w.net.body)
    IN  /\ chain.compress
        /\ \E d \in offers : /\ d.name = w.net.hdr.coding
                             /\ \A o \in offers : o.q < d.q \/ (o.q = d.q /\ rank(o) <= rank(d))
        /\ resp.hdr.coding = "none" /\ ~ resp.hdr.skipType
        /\ w.net.status # 204
        /\ size = 0 \/ size >= MinBytes

\* The access log and the metrics give the status that the client was sent,
\* also when it comes from a recovered panic or was never written by the
\* handler (accessRecorder, statusWriter).
LoggedIsSent == pc = "done" => w.logged = w.net.status

\* What the proxy reports reaches the client: the status of its own errors,
\* and a server error for a panic, unless Compress is between the panic and
\* whoever recovers it (writeError, PanicRecover, dispatch).
FailuresReported ==
  pc = "done" =>
    /\ resp.from = "proxy" => w.net.status = resp.status
    /\ resp.from = "panic" /\ ~ Compressing =>
         w.net.status = IF chain.retry THEN 502 ELSE 500

\* All attempts of a request send the same, with X-Forwarded-For extended
\* once, and what the client sent, except where Retry cannot buffer it: a
\* body over the cap is sent cut, but once (bufferReplayBody, dispatch).
RequestsAgree ==
  /\ Len(sent) <= IF chain.retry /\ msg.retryable /\ msg.body # "large" THEN MaxAttempts ELSE 1
  /\ \A i \in DOMAIN sent :
       /\ sent[i].hops = IF chain.headers THEN 1 ELSE 0
       /\ sent[i].body = msg.body
            \/ (chain.retry /\ <<msg.body, sent[i].body>> \in {<<"large", "cut">>, <<"broken", "closed">>})
=============================================================================
