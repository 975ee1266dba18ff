------------------------------- MODULE Serving --------------------------------
(***************************************************************************)
(* The life of a process and the time a request spends in it: the startup of *)
(* main.go, which waits for the signal engine for a while; handlers that     *)
(* forward an answer of the upstream chunk by chunk (upstream.go, stream.go) *)
(* under the deadline of WithRequestDeadline; and the shutdown, which waits  *)
(* for them and then for the collector of their spans (telemetry/otel.go).   *)
(*                                                                           *)
(* Time is counted in ticks.  Timers are prompt: no tick passes over a timer *)
(* that is due.  The upstream may stay silent at any point, for ever, and so  *)
(* may the signal engine and the collector; and a client may stop reading,    *)
(* which blocks the handler in its write: no deadline covers it.              *)
(***************************************************************************)
EXTENDS Integers

CONSTANTS
    Requests,  \* the requests the process serves
    Deadline,  \* the ticks a handler has: 15 seconds
    Limit,     \* the ticks main waits in each of its Waits: 5 seconds
    Chunks,    \* the bound on the chunks of an answer
    Buffer,    \* the chunks that the server buffers before it writes to the client
    Wrapped    \* the handler is given a responseWrapper, as the chain of main.go does

\* The phases in which main waits for others, but not for ever.
Waits == {"dialing", "draining", "flushing"}

ASSUME TimeAssumption ==
    /\ Wrapped \in BOOLEAN
    /\ Deadline \in Nat /\ Chunks \in Nat /\ Buffer \in Nat
    /\ Limit \in [Waits -> Nat]

VARIABLES
    phase,   \* where main is, and how the process ended
    waited,  \* the ticks spent in each of the Waits
    client,  \* the client of the signal engine
    conn     \* the handler of each request, as its client sees it, and its span

vars == <<phase, waited, client, conn>>

\* read and delivered count chunks; reply is the status that the handler has written; age
\* are the ticks since it was accepted, until its deadline or its return.
Connection ==
    [pc : {"new", "waiting", "copying", "writing", "finishing", "done", "refused", "cut"},
     age : 0..Deadline,
     stream : BOOLEAN, reply : {"none", "502", "answer"},
     read : 0..Chunks, delivered : 0..Chunks,
     span : {"none", "open", "ended", "exported", "dropped"}]

NewConnection ==
    [pc |-> "new", age |-> 0, stream |-> FALSE, reply |-> "none", read |-> 0, delivered |-> 0,
     span |-> "none"]

TypeOK ==
    /\ phase \in {"starting", "dialed", "listening", "serving", "closing",
                  "exited", "killed", "failed"} \cup Waits
    /\ \A w \in Waits : waited[w] \in 0..Limit[w]
    /\ client \in {"nil", "connected", "closed"}
    /\ conn \in [Requests -> Connection]

Init ==
    /\ phase = "starting"
    /\ waited = [w \in Waits |-> 0]
    /\ client = "nil"
    /\ conn = [r \in Requests |-> NewConnection]

\* What the context of the request cancels: the call of the upstream and the reading of
\* its answer.
Cancellable(r) == conn[r].pc \in {"waiting", "copying"}

\* A write to the client, which only the client can end: the server has no WriteTimeout.
Blocked(r) == conn[r].pc \in {"writing", "finishing"}

Active(r) == Cancellable(r) \/ Blocked(r)

Running == phase \notin {"exited", "killed", "failed"}

Due(w) == phase = w /\ waited[w] = Limit[w]

-----------------------------------------------------------------------------
(***************************************************************************)
(* Handlers                                                                *)
(***************************************************************************)

\* Only handler r moves.
Becomes(r, c) ==
    /\ Running
    /\ conn' = [conn EXCEPT ![r] = c]
    /\ UNCHANGED <<phase, waited, client>>

Accept(r, stream) ==
    /\ phase \in {"listening", "serving"}
    /\ conn[r].pc = "new"
    /\ Becomes(r, [conn[r] EXCEPT !.pc = "waiting", !.stream = stream, !.span = "open"])

\* Nothing listens yet, or Shutdown has closed the listener.
Refuse(r) ==
    /\ phase \notin {"listening", "serving"}
    /\ conn[r].pc = "new"
    /\ Becomes(r, [conn[r] EXCEPT !.pc = "refused"])

\* The handler returns, and its span ends: it is queued for the collector, or dropped if
\* the queue has been shut down.
WithSpanEnded(c) == [c EXCEPT !.span = IF phase = "flushing" THEN "dropped" ELSE "ended"]

\* The deferred cancel stops the timer; what the server has buffered is still to be written.
Returned(c) == [WithSpanEnded(c) EXCEPT !.pc = "finishing", !.age = 0]

UpstreamAnswers(r) ==
    /\ conn[r].pc = "waiting"
    /\ Becomes(r, [conn[r] EXCEPT !.pc = "copying", !.reply = "answer"])

\* The call of the upstream fails before an answer has begun, by itself or because the
\* client has gone away, which cancels it.
UpstreamFails(r) ==
    /\ conn[r].pc = "waiting"
    /\ Becomes(r, [Returned(conn[r]) EXCEPT !.reply = "502"])

\* streamResponse finds an http.Flusher; a responseWrapper embeds the interface
\* http.ResponseWriter and so is none.
Flushes(r) == conn[r].stream /\ ~Wrapped

\* A chunk is read from the upstream and written: into the buffer, or to the client if it
\* is flushed or the buffer overflows.
Chunk(r) ==
    LET read == conn[r].read + 1
        toClient == Flushes(r) \/ read - conn[r].delivered > Buffer
    IN  /\ conn[r].pc = "copying"
        /\ conn[r].read < Chunks
        /\ Becomes(r, [conn[r] EXCEPT !.read = read,
                                     !.pc = IF toClient THEN "writing" ELSE @])

\* The client takes what is written to it; the handler goes on copying, or the server is
\* done with it.
ClientReads(r) ==
    /\ Blocked(r)
    /\ Becomes(r, [conn[r] EXCEPT !.delivered = conn[r].read,
                                 !.pc = IF @ = "writing" THEN "copying" ELSE "done"])

\* The client goes away instead: the write fails, and with it the handler.
ClientLeaves(r) ==
    /\ Blocked(r)
    /\ LET c == IF conn[r].pc = "writing" THEN Returned(conn[r]) ELSE conn[r]
       IN  Becomes(r, [c EXCEPT !.pc = "done"])

\* The answer ends, or it breaks off, by itself or because the client goes away; the
\* handler returns.
CopyEnds(r) ==
    /\ conn[r].pc = "copying"
    /\ Becomes(r, Returned(conn[r]))

\* A variant of DeadlineExpires whose context does not reach the copy.
DeadlineExpiresUncopied(r) ==
    /\ conn[r].pc = "waiting"
    /\ conn[r].age = Deadline
    /\ Becomes(r, [Returned(conn[r]) EXCEPT !.reply = "502"])

\* The context of the request ends, and with it the call of the upstream or the
\* reading of its answer.  A write that is blocked goes on.
DeadlineExpires(r) ==
    /\ Cancellable(r)
    /\ conn[r].age = Deadline
    /\ Becomes(r, [Returned(conn[r]) EXCEPT !.reply = IF @ = "none" THEN "502" ELSE @])

-----------------------------------------------------------------------------
(***************************************************************************)
(* Startup                                                                 *)
(***************************************************************************)

MainGoes(from, to) ==
    /\ phase = from
    /\ phase' = to
    /\ UNCHANGED <<waited, conn>>

\* Configuration and policy are loaded, and a tracer is made, without waiting.
Load == MainGoes("starting", "dialing") /\ UNCHANGED client

Connected == MainGoes("dialing", "dialed") /\ client' = "connected"

\* A variant of DialExpires that tries again, for as long as it takes.
DialAgain ==
    /\ Due("dialing")
    /\ waited' = [waited EXCEPT !.dialing = 0]
    /\ UNCHANGED <<phase, client, conn>>

\* The dial gives up; the process goes on without a client, for all of its life.
DialExpires == Due("dialing") /\ MainGoes("dialing", "dialed") /\ UNCHANGED client

Listen == MainGoes("dialed", "listening") /\ UNCHANGED client

\* The process ends here and now, with its handlers; no deferred call is made.
Dies(how) ==
    /\ phase' = how
    /\ conn' = [r \in Requests |-> IF Active(r) THEN [conn[r] EXCEPT !.pc = "cut"] ELSE conn[r]]
    /\ UNCHANGED <<waited, client>>

\* The configuration, the policy or the upstream URL is invalid, or the server
\* cannot listen: os.Exit(1).
Fail == phase \in {"starting", "dialed", "listening", "serving"} /\ Dies("failed")

Notify == MainGoes("listening", "serving") /\ UNCHANGED client

-----------------------------------------------------------------------------
(***************************************************************************)
(* Shutdown                                                                *)
(***************************************************************************)

\* SIGTERM before Notify has been called: the runtime ends the process.
Killed == phase \in {"starting", "dialing", "dialed", "listening"} /\ Dies("killed")

\* SIGTERM afterwards: Shutdown is called.
Stop == MainGoes("serving", "draining") /\ UNCHANGED client

\* A variant of ShutdownReturns that does not wait for the handlers.
ShutdownReturnsAtOnce == MainGoes("draining", "closing") /\ UNCHANGED client

ShutdownReturns ==
    /\ Due("draining") \/ \A r \in Requests : ~Active(r)
    /\ MainGoes("draining", "closing")
    /\ UNCHANGED client

\* A variant of CloseClient for a main that does not shut its tracer down.
CloseClientAndExit == phase = "closing" /\ Dies("exited")

\* The deferred calls: the client is closed, then the tracer is shut down.
CloseClient ==
    /\ MainGoes("closing", "flushing")
    /\ client' = IF client = "connected" THEN "closed" ELSE client

Exported(c) == IF c.span = "ended" THEN [c EXCEPT !.span = "exported"] ELSE c

\* The batcher sends the spans that are queued, if the collector takes them.  What it
\* gives up by itself, a full queue or an export of half a minute, is left out.
Export ==
    /\ Running
    /\ conn' = [r \in Requests |-> Exported(conn[r])]
    /\ UNCHANGED <<phase, waited, client>>

\* A variant of FlushExpires that tries again, for as long as it takes.
FlushAgain ==
    /\ Due("flushing")
    /\ waited' = [waited EXCEPT !.flushing = 0]
    /\ UNCHANGED <<phase, client, conn>>

\* The collector has not taken them in time; main returns.
FlushExpires == Due("flushing") /\ Dies("exited")

\* All queued spans have been sent; main returns, and every handler ends with it.
FlushEnds ==
    /\ phase = "flushing"
    /\ \A r \in Requests : conn[r].span # "ended"
    /\ Dies("exited")

-----------------------------------------------------------------------------

\* A variant of Tick in a process whose handlers have no deadline.
TickPastDeadline ==
    /\ Running
    /\ conn' = [r \in Requests |-> IF Active(r) THEN [conn[r] EXCEPT !.age = @ + 1] ELSE conn[r]]
    /\ UNCHANGED <<phase, waited, client>>

\* The timer of a handler runs until its deadline; a handler that is blocked outlives it.
Older(c) ==
    [c EXCEPT !.age = IF c.pc \in {"waiting", "copying", "writing"} /\ @ < Deadline
                      THEN @ + 1 ELSE @]

\* A tick passes unless a timer is due, and while anyone waits for time to pass.
Tick ==
    /\ Running
    /\ \A r \in Requests : Cancellable(r) => conn[r].age < Deadline
    /\ \A w \in Waits : ~Due(w)
    /\ phase \in Waits \/ \E r \in Requests : Active(r)
    /\ waited' = [w \in Waits |-> IF phase = w THEN waited[w] + 1 ELSE waited[w]]
    /\ conn' = [r \in Requests |-> IF Active(r) THEN Older(conn[r]) ELSE conn[r]]
    /\ UNCHANGED <<phase, client>>

\* What main does without waiting for anyone, or when it has waited long enough.
MainRuns ==
    \/ Load \/ DialExpires \/ Listen \/ Notify
    \/ ShutdownReturns \/ CloseClient \/ FlushExpires \/ FlushEnds

Next ==
    \/ \E r \in Requests :
          \/ \E stream \in BOOLEAN : Accept(r, stream)
          \/ Refuse(r)
          \/ UpstreamAnswers(r)
          \/ UpstreamFails(r)
          \/ Chunk(r)
          \/ ClientReads(r)
          \/ ClientLeaves(r)
          \/ CopyEnds(r)
          \/ DeadlineExpires(r)
    \/ MainRuns
    \/ Connected \/ Fail \/ Killed \/ Stop \/ Export \/ Tick

Spec == Init /\ [][Next]_vars

\* Time passes, timers fire, and main goes on.  Nothing is assumed of the upstream, of the
\* clients, of the signal engine or of the collector.
Fairness ==
    /\ WF_vars(Tick)
    /\ WF_vars(MainRuns)
    /\ \A r \in Requests : WF_vars(DeadlineExpires(r))

FairSpec == Spec /\ Fairness

-----------------------------------------------------------------------------
(***************************************************************************)
(* Properties                                                               *)
(***************************************************************************)

\* A process that ends as main returns cuts a request off only after it has waited
\* for it as long as it promises (main.go, Shutdown).
GraceHonoured ==
    \A r \in Requests :
        phase = "exited" /\ conn[r].pc = "cut" => waited.draining = Limit.draining

\* The span of a handler that returned is lost only if the handler outlasted the
\* grace of the shutdown, or the collector the time to flush, or the process died
\* (the order of Shutdown and the deferred calls of main, tp.Shutdown).
SpansKept ==
    \A r \in Requests :
        /\ conn[r].span = "dropped" => waited.draining = Limit.draining
        /\ phase = "exited" /\ conn[r].span = "ended" => waited.flushing = Limit.flushing

\* Every accepted request ends, though the upstream may fall silent before its answer or
\* in the middle of it, unless its client stops reading for good: the deadline covers the
\* copy, but not the writes to the client (WithRequestDeadline, streamResponse, and the
\* WriteTimeout of main, which is zero).
Ended ==
    \A r \in Requests :
        \/ conn[r].pc = "waiting" ~> conn[r].pc \in {"done", "cut"}
        \/ <>[]Blocked(r)

\* A process that has read its settings serves although the signal engine is silent,
\* or has ended (the timeout of the blocking dial in NewClient).
Serves == phase = "dialing" ~> phase \notin {"dialing", "dialed", "listening"}

\* A process asked to stop does, though handlers, upstream and collector are silent, and
\* clients do not read.
Stops == phase = "draining" ~> ~Running

\* What has been read of a streamed answer has reached the client ("FlushWriter
\* ensures periodic flush during streaming copy", upstream.go).
Flushed ==
    \A r \in Requests :
        conn[r].stream /\ conn[r].pc = "copying" => conn[r].delivered = conn[r].read

=============================================================================
