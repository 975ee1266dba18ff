----------------------------- MODULE ServingProofs ----------------------------
(***************************************************************************)
(* What a shutdown keeps of requests and spans, for any number of requests,  *)
(* and whatever the limits of main and of the handlers are.                  *)
(***************************************************************************)
EXTENDS Serving, TLAPS

USE TimeAssumption

-----------------------------------------------------------------------------
(***************************************************************************)
(* Type correctness                                                        *)
(***************************************************************************)

\* A handler that returns leaves a connection.
LEMMA ReturnedType ==
  ASSUME NEW c \in Connection
  PROVE  /\ Returned(c) \in Connection
         /\ Returned(c).pc = "finishing"
         /\ [Returned(c) EXCEPT !.reply = "502"] \in Connection
         /\ [Returned(c) EXCEPT !.pc = "done"] \in Connection
<1>1. WithSpanEnded(c) \in Connection
  BY DEF WithSpanEnded, Connection
<1> DEFINE ended == WithSpanEnded(c)
<1> HIDE DEF ended
<1>2. [ended EXCEPT !.pc = "finishing", !.age = 0] \in Connection
  <2>1. ended \in Connection
    BY <1>1 DEF ended
  <2>2. [ended EXCEPT !.pc = "finishing"] \in Connection
    BY <2>1 DEF Connection
  <2>3. 0 \in 0..Deadline
    OBVIOUS
  <2> DEFINE finishing == [ended EXCEPT !.pc = "finishing"]
  <2> HIDE DEF finishing
  <2>4. [finishing EXCEPT !.age = 0] \in Connection
    BY <2>2, <2>3 DEF Connection, finishing
  <2>5. [ended EXCEPT !.pc = "finishing", !.age = 0] = [finishing EXCEPT !.age = 0]
    BY Zenon DEF finishing
  <2> QED
    BY <2>4, <2>5, Zenon
<1>3. Returned(c) = [ended EXCEPT !.pc = "finishing", !.age = 0]
  BY Zenon DEF Returned, ended
<1>4. Returned(c) \in Connection
  BY <1>2, <1>3, Zenon
<1>5. [ended EXCEPT !.pc = "finishing", !.age = 0].pc = "finishing"
  BY <1>1 DEF ended, Connection
<1>6. Returned(c).pc = "finishing"
  BY <1>3, <1>5, Zenon
<1> QED
  BY <1>4, <1>6 DEF Connection

\* A process that dies keeps the types of everything but its phase.
LEMMA DiesType ==
  ASSUME TypeOK, NEW how \in {"exited", "killed", "failed"}, Dies(how)
  PROVE  TypeOK'
<1>1. ASSUME NEW r \in Requests
      PROVE  conn'[r] \in Connection
  BY DEF TypeOK, Dies, Connection
<1>2. conn' \in [Requests -> Connection]
  BY <1>1 DEF Dies
<1> QED
  BY <1>2 DEF TypeOK, Dies

\* No timer passes its limit and no handler its deadline, since ticks wait for the
\* timers that are due (Tick, the contexts of main and of WithRequestDeadline).
THEOREM TypeCorrect == Spec => []TypeOK
<1>1. Init => TypeOK
  BY DEF Init, TypeOK, NewConnection, Connection, Waits
<1>2. TypeOK /\ [Next]_vars => TypeOK'
  <2> SUFFICES ASSUME TypeOK, [Next]_vars
               PROVE  TypeOK'
    OBVIOUS
  <2>1. ASSUME NEW r \in Requests, NEW c \in Connection, Becomes(r, c)
        PROVE  TypeOK'
    BY <2>1 DEF Becomes, TypeOK
  <2>2. ASSUME NEW r \in Requests, NEW stream \in BOOLEAN, Accept(r, stream)
        PROVE  TypeOK'
    <3>1. [conn[r] EXCEPT !.pc = "waiting", !.stream = stream, !.span = "open"] \in Connection
      BY DEF TypeOK, Connection
    <3> QED
      BY <2>1, <2>2, <3>1 DEF Accept
  <2>3. ASSUME NEW r \in Requests, Refuse(r)
        PROVE  TypeOK'
    <3>1. [conn[r] EXCEPT !.pc = "refused"] \in Connection
      BY DEF TypeOK, Connection
    <3> QED
      BY <2>1, <2>3, <3>1 DEF Refuse
  <2>4. ASSUME NEW r \in Requests, UpstreamAnswers(r)
        PROVE  TypeOK'
    <3>1. [conn[r] EXCEPT !.pc = "copying", !.reply = "answer"] \in Connection
      BY DEF TypeOK, Connection
    <3> QED
      BY <2>1, <2>4, <3>1 DEF UpstreamAnswers
  <2>5. ASSUME NEW r \in Requests, UpstreamFails(r)
        PROVE  TypeOK'
    <3>1. [Returned(conn[r]) EXCEPT !.reply = "502"] \in Connection
      BY ReturnedType DEF TypeOK
    <3> QED
      BY <2>1, <2>5, <3>1 DEF UpstreamFails
  <2>6. ASSUME NEW r \in Requests, Chunk(r)
        PROVE  TypeOK'
    <3>1. conn[r] \in Connection
      BY DEF TypeOK
    <3>2. conn[r].read + 1 \in 0..Chunks
      BY <2>6, <3>1 DEF Chunk, Connection
    <3> DEFINE read == conn[r].read + 1
               toClient == Flushes(r) \/ read - conn[r].delivered > Buffer
    <3>3. [conn[r] EXCEPT !.read = read,
                          !.pc = IF toClient THEN "writing" ELSE @] \in Connection
      BY <3>1, <3>2 DEF Connection
    <3>4. Becomes(r, [conn[r] EXCEPT !.read = read,
                                     !.pc = IF toClient THEN "writing" ELSE @])
      BY <2>6 DEF Chunk
    <3> QED
      BY <2>1, <3>3, <3>4
  <2>7. ASSUME NEW r \in Requests, CopyEnds(r)
        PROVE  TypeOK'
    BY <2>1, <2>7, ReturnedType DEF CopyEnds, TypeOK
  <2>8. ASSUME NEW r \in Requests, DeadlineExpires(r)
        PROVE  TypeOK'
    <3>1. Returned(conn[r]) \in Connection
      BY ReturnedType DEF TypeOK
    <3>2. [Returned(conn[r]) EXCEPT !.reply = IF @ = "none" THEN "502" ELSE @] \in Connection
      BY <3>1 DEF Connection
    <3> QED
      BY <2>1, <2>8, <3>2 DEF DeadlineExpires
  <2>9. CASE MainRuns
    <3>1. CASE Load \/ DialExpires \/ Listen \/ Notify \/ ShutdownReturns \/ CloseClient
      BY <3>1 DEF Load, DialExpires, Listen, Notify, ShutdownReturns, CloseClient,
                  MainGoes, TypeOK, Waits
    <3>2. CASE FlushExpires \/ FlushEnds
      BY <3>2, DiesType DEF FlushExpires, FlushEnds
    <3> QED
      BY <2>9, <3>1, <3>2 DEF MainRuns
  <2>10. CASE Connected \/ Stop
    BY <2>10 DEF Connected, Stop, MainGoes, TypeOK, Waits
  <2>11. CASE Fail \/ Killed
    BY <2>11, DiesType DEF Fail, Killed
  <2>12. CASE Export
    <3>1. ASSUME NEW r \in Requests
          PROVE  Exported(conn[r]) \in Connection
      BY DEF Exported, TypeOK, Connection
    <3> QED
      BY <2>12, <3>1 DEF Export, TypeOK
  <2>13. CASE Tick
    <3>1. ASSUME NEW w \in Waits
          PROVE  waited'[w] \in 0..Limit[w]
      BY <2>13 DEF Tick, Due, TypeOK
    <3>2. ASSUME NEW r \in Requests
          PROVE  conn'[r] \in Connection
      <4>1. conn[r] \in Connection
        BY DEF TypeOK
      <4>2. Older(conn[r]) \in Connection
        BY <4>1 DEF Older, Connection
      <4> QED
        BY <2>13, <4>1, <4>2 DEF Tick
    <3>3. conn' \in [Requests -> Connection]
      BY <2>13, <3>2 DEF Tick
    <3> QED
      BY <2>13, <3>1, <3>3 DEF Tick, TypeOK
  <2>14. CASE UNCHANGED vars
    BY <2>14 DEF vars, TypeOK
  <2>15. ASSUME NEW r \in Requests, ClientReads(r)
         PROVE  TypeOK'
    <3>1. [conn[r] EXCEPT !.delivered = conn[r].read,
                          !.pc = IF @ = "writing" THEN "copying" ELSE "done"] \in Connection
      BY DEF TypeOK, Connection
    <3> QED
      BY <2>1, <2>15, <3>1 DEF ClientReads
  <2>16. ASSUME NEW r \in Requests, ClientLeaves(r)
         PROVE  TypeOK'
    <3>1. [Returned(conn[r]) EXCEPT !.pc = "done"] \in Connection
      BY ReturnedType DEF TypeOK
    <3>2. [conn[r] EXCEPT !.pc = "done"] \in Connection
      BY DEF TypeOK, Connection
    <3> QED
      BY <2>1, <2>16, <3>1, <3>2 DEF ClientLeaves
  <2> QED
    BY <2>2, <2>3, <2>4, <2>5, <2>6, <2>7, <2>8, <2>9, <2>10, <2>11, <2>12, <2>13, <2>14,
       <2>15, <2>16 DEF Next
<1> QED
  BY <1>1, <1>2, PTL DEF Spec

-----------------------------------------------------------------------------
(***************************************************************************)
(* What the shutdown keeps                                                 *)
(***************************************************************************)

\* Shutdown has returned.
PastGrace == phase \in {"closing", "flushing", "exited"}

\* A handler that is still there, or was, when Shutdown has returned has outlasted the
\* grace period; only a process that has ended has cut handlers off; spans are dropped
\* only while or after main flushes, and only of such handlers; and what is queued when
\* main returns has outlasted the time to flush.
Outlasting(r) ==
    /\ PastGrace /\ (Active(r) \/ conn[r].pc = "cut") => waited.draining = Limit.draining
    /\ conn[r].pc = "cut" => ~Running
    /\ conn[r].span = "dropped" =>
          phase \in {"flushing", "exited"} /\ waited.draining = Limit.draining
    /\ phase = "exited" /\ conn[r].span = "ended" => waited.flushing = Limit.flushing

ShutdownInvariant == \A r \in Requests : Outlasting(r)

\* A step of one handler keeps what is known of the others.
LEMMA OthersOutlast ==
  ASSUME TypeOK, ShutdownInvariant, NEW r \in Requests, NEW c, Becomes(r, c),
         c.pc \in {"waiting", "copying", "writing", "finishing"} => Active(r) \/ ~PastGrace,
         c.pc # "cut",
         c.span = "dropped" => conn[r].span = "dropped" \/ (phase = "flushing" /\ Active(r))
  PROVE  ShutdownInvariant'
<1>1. ASSUME NEW other \in Requests \ {r}
      PROVE  Outlasting(other)'
  <2>1. conn'[other] = conn[other]
    BY DEF Becomes, TypeOK
  <2> QED
    BY <2>1 DEF ShutdownInvariant, Outlasting, PastGrace, Active, Cancellable, Blocked, Running, Becomes
<1>2. Outlasting(r)'
  <2>1. conn'[r] = c /\ Running
    BY DEF Becomes, TypeOK
  <2> QED
    BY <2>1 DEF ShutdownInvariant, Outlasting, PastGrace, Active, Cancellable, Blocked, Running, Becomes
<1> QED
  BY <1>1, <1>2 DEF ShutdownInvariant

\* The invariant holds in every state: Shutdown returns while a handler is active only
\* when its time is up, and nothing is accepted any more after it has been called.
LEMMA ShutdownInvariantHolds == Spec => []ShutdownInvariant
<1>1. Init => ShutdownInvariant
  <2> SUFFICES ASSUME Init, NEW r \in Requests
               PROVE  Outlasting(r)
    BY DEF ShutdownInvariant
  <2>1. conn[r].pc = "new" /\ conn[r].span = "none" /\ phase = "starting"
    BY DEF Init, NewConnection
  <2> QED
    BY <2>1 DEF Outlasting, PastGrace, Active, Cancellable, Blocked
<1>2. TypeOK /\ ShutdownInvariant /\ [Next]_vars => ShutdownInvariant'
  <2> SUFFICES ASSUME TypeOK, ShutdownInvariant, [Next]_vars
               PROVE  ShutdownInvariant'
    OBVIOUS
  <2>1. ASSUME NEW r \in Requests, NEW stream \in BOOLEAN, Accept(r, stream)
        PROVE  ShutdownInvariant'
    BY <2>1, OthersOutlast DEF Accept, PastGrace, TypeOK, Connection
  <2>2. ASSUME NEW r \in Requests, Refuse(r)
        PROVE  ShutdownInvariant'
    BY <2>2, OthersOutlast DEF Refuse, TypeOK, Connection
  <2>3. ASSUME NEW r \in Requests, UpstreamAnswers(r)
        PROVE  ShutdownInvariant'
    BY <2>3, OthersOutlast DEF UpstreamAnswers, Active, Cancellable, TypeOK, Connection
  <2>4. ASSUME NEW r \in Requests, Chunk(r)
        PROVE  ShutdownInvariant'
    BY <2>4, OthersOutlast DEF Chunk, Active, Cancellable, TypeOK, Connection
  <2>5. ASSUME NEW r \in Requests, UpstreamFails(r) \/ CopyEnds(r) \/ DeadlineExpires(r)
        PROVE  ShutdownInvariant'
    BY <2>5, OthersOutlast
       DEF UpstreamFails, CopyEnds, DeadlineExpires, Returned, WithSpanEnded, Active,
           Cancellable, TypeOK, Connection
  <2>6. ASSUME NEW r \in Requests, MainRuns
        PROVE  Outlasting(r)'
    <3>1. CASE Load \/ DialExpires \/ Listen \/ Notify
      BY <3>1 DEF Load, DialExpires, Listen, Notify, MainGoes, Due,
                  ShutdownInvariant, Outlasting, PastGrace, Active, Cancellable, Blocked, Running
    <3>2. CASE ShutdownReturns
      BY <3>2 DEF ShutdownReturns, MainGoes, Due,
                  ShutdownInvariant, Outlasting, PastGrace, Active, Cancellable, Blocked, Running
    <3>3. CASE CloseClient
      BY <3>3 DEF CloseClient, MainGoes,
                  ShutdownInvariant, Outlasting, PastGrace, Active, Cancellable, Blocked, Running
    <3>4. CASE FlushExpires \/ FlushEnds
      BY <3>4 DEF FlushExpires, FlushEnds, Dies, Due, TypeOK, Connection,
                  ShutdownInvariant, Outlasting, PastGrace, Active, Cancellable, Blocked, Running
    <3> QED
      BY <2>6, <3>1, <3>2, <3>3, <3>4 DEF MainRuns
  <2>7. ASSUME NEW r \in Requests, Connected \/ Stop
        PROVE  Outlasting(r)'
    BY <2>7 DEF Connected, Stop, MainGoes,
                ShutdownInvariant, Outlasting, PastGrace, Active, Cancellable, Blocked, Running
  <2>8. ASSUME NEW r \in Requests, Fail \/ Killed
        PROVE  Outlasting(r)'
    BY <2>8 DEF Fail, Killed, Dies, TypeOK, Connection,
                ShutdownInvariant, Outlasting, PastGrace, Active, Cancellable, Blocked, Running
  <2>9. ASSUME NEW r \in Requests, Export
        PROVE  Outlasting(r)'
    BY <2>9 DEF Export, Exported, TypeOK, Connection,
                ShutdownInvariant, Outlasting, PastGrace, Active, Cancellable, Blocked, Running
  <2>10. ASSUME NEW r \in Requests, Tick
         PROVE  Outlasting(r)'
    <3>1. phase' = phase /\ phase # "exited"
      BY <2>10 DEF Tick, Running
    <3>2. phase # "draining" => waited'.draining = waited.draining
      BY <2>10 DEF Tick, Waits, TypeOK
    <3>3. conn'[r].pc = conn[r].pc /\ conn'[r].span = conn[r].span
      BY <2>10 DEF Tick, Older, TypeOK, Connection
    <3> QED
      BY <3>1, <3>2, <3>3 DEF ShutdownInvariant, Outlasting, PastGrace, Active, Cancellable, Blocked, Running
  <2>11. CASE UNCHANGED vars
    BY <2>11 DEF vars, ShutdownInvariant, Outlasting, PastGrace, Active, Cancellable, Blocked, Running
  <2>12. ASSUME NEW r \in Requests, ClientReads(r) \/ ClientLeaves(r)
         PROVE  ShutdownInvariant'
    BY <2>12, OthersOutlast
       DEF ClientReads, ClientLeaves, Returned, WithSpanEnded, Active, Blocked, TypeOK,
           Connection
  <2> QED
    BY <2>1, <2>2, <2>3, <2>4, <2>5, <2>6, <2>7, <2>8, <2>9, <2>10, <2>11, <2>12
       DEF Next, ShutdownInvariant
<1> QED
  BY <1>1, <1>2, TypeCorrect, PTL DEF Spec

\* A process that ends as main returns has cut off only requests that outlasted the
\* grace period, whatever the upstream did (main.go, Shutdown).
THEOREM GraceIsHonoured == Spec => []GraceHonoured
<1>1. ShutdownInvariant => GraceHonoured
  BY DEF ShutdownInvariant, Outlasting, PastGrace, GraceHonoured
<1> QED
  BY <1>1, ShutdownInvariantHolds, PTL

\* The span of a handler that returned is lost only if the handler outlasted the grace
\* period, or the collector the time to flush, or the process died (the order of the
\* deferred calls of main).
THEOREM SpansAreKept == Spec => []SpansKept
<1>1. ShutdownInvariant => SpansKept
  BY DEF ShutdownInvariant, Outlasting, SpansKept
<1> QED
  BY <1>1, ShutdownInvariantHolds, PTL

=============================================================================
