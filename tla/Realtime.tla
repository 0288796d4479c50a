------------------------------ MODULE Realtime ------------------------------
(***************************************************************************)
(* One realtime recording session: its row in PostgreSQL, the provider     *)
(* stream the API process retains for it, and the WebSocket connections    *)
(* that start it, resume it and feed it.  A call of the session service    *)
(* reads the row and then updates it if its version is unchanged; other    *)
(* connections act between the two.  StreamHub.Reap and Session.Expire are *)
(* not modelled: no process of the repository calls them.                  *)
(***************************************************************************)
EXTENDS Integers, FiniteSets

CONSTANTS Conns,        \* connections; a name is used again when one has ended
          MaxFrames,    \* bound on the frames of the recording
          MaxLeases,    \* bound on the resumes that attach to the stream
          Life,         \* ticks until expires_at
          Window,       \* ticks of the reconnect window
          MaxFaults     \* bound on crashes and on calls that return an error

ASSUME RealtimeAssumption ==
    /\ MaxFrames \in Nat \ {0} /\ MaxLeases \in Nat \ {0}
    /\ Life \in Nat \ {0} /\ Window \in Nat \ {0} /\ MaxFaults \in Nat

VARIABLES row,        \* recording_sessions
          stream,     \* the managedStream of the session
          conn,       \* what each connection is doing
          life,       \* ticks left before expires_at
          heard,      \* nextSequence of the provider stream: the frames it was given
          acked,      \* history: how many frames were acknowledged to the client
          delivered,  \* history: whether the client was sent the final transcript
          faults      \* history: crashes and failed calls, and whether one saved a frame

vars == <<row, stream, conn, life, heard, acked, delivered, faults>>

States == {"streaming", "interrupted", "finalizing", "completed", "failed"}
Terminal == {"completed", "failed"}
Past == -1
NoRow == [state |-> "none", next |-> 0, reconnect |-> Past, version |-> 0]
Rows == [state: States, next: 0..MaxFrames, reconnect: Past..Window, version: Nat \ {0}]

\* Where a connection is.  A stage named after a service call is in the
\* call's second half once `update` holds the row it is going to write.
Calls == {"audio", "interrupt", "resume", "finish", "complete", "fail"}
Closed == [stage |-> "closed", lease |-> 0, seq |-> 0, update |-> NoRow, code |-> "none", until |-> Past]
Codes == {"none", "provider_unavailable", "provider_rejected", "internal_error", "stream_timeout"}
Serving == {"serving", "audio", "push", "ack", "finish", "providerFinish"}

\* Every variable has its type; as the CHECK of the table says, only an
\* interrupted session has a reconnect time.
TypeOK ==
    /\ row \in Rows \cup {NoRow}
    /\ row.state # "interrupted" => row.reconnect = Past
    /\ stream \in [state: {"absent", "open", "closed"}, attached: BOOLEAN, lease: 0..MaxLeases,
                   reconnect: Past..Window, bounded: BOOLEAN]
    /\ conn \in [Conns -> [stage: Calls \cup {"closed", "created", "attach", "serving", "push", "ack",
                                              "providerFinish", "detach", "deliver"},
                           lease: 0..MaxLeases, seq: 0..(MaxFrames - 1),
                           update: Rows \cup {NoRow}, code: Codes, until: Past..Window]]
    /\ life \in 0..Life
    /\ heard \in 0..MaxFrames
    /\ acked \in 0..MaxFrames
    /\ delivered \in BOOLEAN
    /\ faults \in [count: 0..MaxFaults, frame: BOOLEAN]

NoStream == [state |-> "absent", attached |-> FALSE, lease |-> 0, reconnect |-> Past, bounded |-> FALSE]

Init ==
    /\ row = NoRow
    /\ stream = NoStream
    /\ conn = [c \in Conns |-> Closed]
    /\ life = Life
    /\ heard = 0
    /\ acked = 0
    /\ delivered = FALSE
    /\ faults = [count |-> 0, frame |-> FALSE]

Smaller(a, b) == IF a < b THEN a ELSE b
Go(c, s) == conn' = [conn EXCEPT ![c].stage = s, ![c].update = NoRow]
GoFail(c, code) == conn' = [conn EXCEPT ![c].stage = "fail", ![c].update = NoRow, ![c].code = code]
End(c) == conn' = [conn EXCEPT ![c] = Closed]

----------------------------------------------------------------------------
(* The stream hub. *)

\* The checks of Push, Detach and Finish.
Holds(c) == stream.state = "open" /\ stream.attached /\ stream.lease = conn[c].lease

\* Close a stream: it leaves the map at once.
CloseStream == stream' = [stream EXCEPT !.state = "closed", !.attached = FALSE]

\* StreamLease.Close does not ask whether the stream is attached.
CloseLease(c) ==
    IF stream.state = "open" /\ conn[c].lease # 0 /\ stream.lease = conn[c].lease
    THEN CloseStream ELSE UNCHANGED stream

Detach(c, until) ==
    IF Holds(c)
    THEN stream' = [stream EXCEPT !.attached = FALSE, !.bounded = TRUE,
                                  !.reconnect = Smaller(until, life)]
    ELSE CloseLease(c)

\* Mutant: a resume takes the stream from the connection that has it.
Attachable_Steal ==
    /\ stream.state = "open"
    /\ life > 0
    /\ stream.bounded => stream.reconnect >= 0

\* The first resume to find the stream detached and in time gets it.
Attachable ==
    /\ stream.state = "open"
    /\ life > 0
    /\ stream.bounded => stream.reconnect >= 0
    /\ ~stream.attached

----------------------------------------------------------------------------
(* The first event of a connection. *)

\* Service.Start inserts the row.  A start with the same idempotency key is
\* told that the session exists, and ends.
Start(c) ==
    /\ conn[c] = Closed
    /\ row = NoRow
    /\ row' = [state |-> "streaming", next |-> 0, reconnect |-> Past, version |-> 1]
    /\ Go(c, "created")
    /\ UNCHANGED <<stream, life, heard, acked, delivered, faults>>

\* StreamHub.Start: the provider opens the stream, or not.
Open(c) ==
    /\ conn[c].stage = "created"
    /\ \/ /\ life > 0
          /\ stream' = [NoStream EXCEPT !.state = "open", !.attached = TRUE, !.lease = 1]
          /\ conn' = [conn EXCEPT ![c].stage = "serving", ![c].lease = 1]
       \/ GoFail(c, "provider_unavailable") /\ UNCHANGED stream
    /\ UNCHANGED <<row, life, heard, acked, delivered, faults>>

\* A resume reads the row: only an interrupted session goes on.
Resume(c) ==
    /\ conn[c] = Closed
    /\ row.state = "interrupted"
    /\ stream.lease + Cardinality({d \in Conns : conn[d].stage = "attach"}) < MaxLeases
    /\ conn' = [conn EXCEPT ![c].stage = "attach", ![c].until = row.reconnect]
    /\ UNCHANGED <<row, stream, life, heard, acked, delivered, faults>>

\* The stored result is sent to a client that resumes a completed session.
ReplayCompleted(c) ==
    /\ conn[c] = Closed
    /\ row.state = "completed"
    /\ delivered' = TRUE
    /\ UNCHANGED <<row, stream, conn, life, heard, acked, faults>>

\* StreamHub.Resume; a refusal of the hub fails the whole session.
Attach(c) ==
    /\ conn[c].stage = "attach"
    /\ \/ /\ Attachable
          /\ stream' = [stream EXCEPT !.attached = TRUE, !.lease = @ + 1,
                                      !.bounded = FALSE, !.reconnect = Past]
          /\ conn' = [conn EXCEPT ![c].stage = "resume", ![c].lease = stream.lease + 1]
       \/ /\ ~Attachable
          /\ GoFail(c, "stream_timeout")
          /\ UNCHANGED stream
    /\ UNCHANGED <<row, life, heard, acked, delivered, faults>>

----------------------------------------------------------------------------
(* The calls of the session service. *)

\* The guards and the effects of the transitions of a Session.
Applies(call, r) ==
    CASE call \in {"audio", "interrupt"} -> r.state = "streaming" /\ life > 0
      [] call = "resume" -> r.state = "interrupted" /\ r.reconnect >= 0 /\ life > 0
      [] call = "finish" -> r.state \in {"streaming", "interrupted"} /\ life > 0
      [] call = "complete" -> r.state = "finalizing"
      [] call = "fail" -> r.state \notin Terminal

\* Mutant: only an interrupt touches the reconnect time.
Updated_KeepsReconnect(call, r) ==
    [r EXCEPT !.version = @ + 1,
              !.next = IF call = "audio" THEN @ + 1 ELSE @,
              !.reconnect = IF call = "interrupt" THEN Smaller(Window, life) ELSE @,
              !.state = CASE call = "audio" -> @
                          [] call = "interrupt" -> "interrupted"
                          [] call = "resume" -> "streaming"
                          [] call = "finish" -> "finalizing"
                          [] call = "complete" -> "completed"
                          [] call = "fail" -> "failed"]

Updated(call, r) ==
    [r EXCEPT !.version = @ + 1,
              !.next = IF call = "audio" THEN @ + 1 ELSE @,
              !.reconnect = IF call = "interrupt" THEN Smaller(Window, life) ELSE Past,
              !.state = CASE call = "audio" -> @
                          [] call = "interrupt" -> "interrupted"
                          [] call = "resume" -> "streaming"
                          [] call = "finish" -> "finalizing"
                          [] call = "complete" -> "completed"
                          [] call = "fail" -> "failed"]

\* What the controller does when a call has failed.
AfterError(c) ==
    CASE conn[c].stage \in {"audio", "finish"} -> Go(c, "interrupt") /\ UNCHANGED stream
      [] conn[c].stage = "resume" -> Detach(c, conn[c].until) /\ End(c)
      [] conn[c].stage = "complete" -> GoFail(c, "internal_error") /\ UNCHANGED stream
      [] conn[c].stage \in {"interrupt", "fail"} -> CloseLease(c) /\ End(c)

\* What the controller does when a call has been saved.
AfterSave(c) ==
    CASE conn[c].stage = "audio" -> Go(c, "push") /\ UNCHANGED stream
      [] conn[c].stage = "interrupt" ->
            /\ conn' = [conn EXCEPT ![c].stage = "detach", ![c].update = NoRow,
                                    ![c].until = conn[c].update.reconnect]
            /\ UNCHANGED stream
      [] conn[c].stage = "resume" -> Go(c, "serving") /\ UNCHANGED stream
      [] conn[c].stage = "finish" -> Go(c, "providerFinish") /\ UNCHANGED stream
      [] conn[c].stage = "complete" -> Go(c, "deliver") /\ UNCHANGED stream
      [] conn[c].stage = "fail" -> CloseLease(c) /\ End(c)

Calling(c) == conn[c].stage \in Calls

\* Mutant: a frame that was already accepted is given to the provider again.
Duplicate_Pushed(c) ==
    /\ conn[c].seq < row.next
    /\ Go(c, "push")
\* A frame the row has already counted is acknowledged and nothing else.
Duplicate(c) ==
    /\ conn[c].seq < row.next
    /\ conn' = [conn EXCEPT ![c].stage = "ack", ![c].seq = row.next - 1]

\* The first half: Get the row, and apply the transition to it.  A resume is
\* also refused when the client claims an acknowledgement it was never sent.
ReadRow(c) ==
    /\ Calling(c) /\ conn[c].update = NoRow
    /\ \/ /\ Applies(conn[c].stage, row)
          /\ conn[c].stage = "audio" => conn[c].seq = row.next
          /\ conn' = [conn EXCEPT ![c].update = Updated(conn[c].stage, row)]
          /\ UNCHANGED stream
       \/ /\ conn[c].stage = "audio"
          /\ Applies("audio", row)
          /\ Duplicate(c)
          /\ UNCHANGED stream
       \/ /\ ~Applies(conn[c].stage, row) \/ conn[c].stage = "resume"
          /\ AfterError(c)
    /\ UNCHANGED <<row, life, heard, acked, delivered, faults>>

\* Mutant: the version is not compared.
Unchanged_Always(c) == TRUE
\* The WHERE of the UPDATE.
Unchanged(c) == row.version + 1 = conn[c].update.version

\* The second half: the UPDATE of the row and its audit event.
SaveRow(c) ==
    /\ Calling(c) /\ conn[c].update # NoRow
    /\ Unchanged(c)
    /\ row' = conn[c].update
    /\ AfterSave(c)
    /\ UNCHANGED <<life, heard, acked, delivered, faults>>

\* Another version: a frame is tried again, a finish is reported to the client.
\* Whoever else writes ends the session, so the third try of a frame is not reached.
Conflict(c) ==
    /\ Calling(c) /\ conn[c].update # NoRow
    /\ ~Unchanged(c)
    /\ CASE conn[c].stage = "audio" -> Go(c, "audio") /\ UNCHANGED stream
         [] conn[c].stage = "finish" -> Go(c, "serving") /\ UNCHANGED stream
         [] OTHER -> AfterError(c)
    /\ UNCHANGED <<row, life, heard, acked, delivered, faults>>

\* The database or the connection to it fails a call: nothing was written, or
\* the transaction was committed and its answer is lost.
CallFails(c) ==
    /\ Calling(c)
    /\ faults.count < MaxFaults
    /\ \/ /\ UNCHANGED row
          /\ faults' = [faults EXCEPT !.count = @ + 1]
       \/ /\ conn[c].update # NoRow
          /\ Unchanged(c)
          /\ row' = conn[c].update
          /\ faults' = [count |-> faults.count + 1, frame |-> faults.frame \/ conn[c].stage = "audio"]
    /\ AfterError(c)
    /\ UNCHANGED <<life, heard, acked, delivered>>

----------------------------------------------------------------------------
(* A connection that is being served. *)

\* An audio event: the next frame, or one the client sends again.
Audio(c) ==
    /\ conn[c].stage = "serving"
    /\ \E s \in 0..Smaller(row.next, MaxFrames - 1) :
          conn' = [conn EXCEPT ![c].stage = "audio", ![c].seq = s]
    /\ UNCHANGED <<row, stream, life, heard, acked, delivered, faults>>

\* The provider takes the frame it expects; any error fails the session.
Push(c) ==
    /\ conn[c].stage = "push"
    /\ \/ /\ Holds(c) /\ life > 0
          /\ conn[c].seq = heard
          /\ heard' = heard + 1
          /\ Go(c, "ack")
       \/ GoFail(c, "provider_unavailable") /\ UNCHANGED heard
    /\ UNCHANGED <<row, stream, life, acked, delivered, faults>>

\* The acknowledgement is written, and then the provider's update is checked.
Ack(c) ==
    /\ conn[c].stage = "ack"
    /\ \/ /\ acked' = IF conn[c].seq + 1 > acked THEN conn[c].seq + 1 ELSE acked
          /\ Go(c, "serving") \/ GoFail(c, "provider_rejected")
       \/ Go(c, "interrupt") /\ UNCHANGED acked
    /\ UNCHANGED <<row, stream, life, heard, delivered, faults>>

\* A finish event whose final sequence is the last one of the row.
Finish(c) ==
    /\ conn[c].stage = "serving"
    /\ Go(c, "finish")
    /\ UNCHANGED <<row, stream, life, heard, acked, delivered, faults>>

\* Mutant: the session is kept for a reconnect when the provider has no result.
NoResult_Retained(c) == Go(c, "interrupt")
NoResult(c) == GoFail(c, "provider_unavailable") \/ GoFail(c, "provider_rejected")

\* StreamLease.Finish closes the stream whatever the provider answers; the
\* provider has no result for a stream without a frame.
ProviderFinish(c) ==
    /\ conn[c].stage = "providerFinish"
    /\ IF Holds(c) THEN CloseStream ELSE UNCHANGED stream
    /\ \/ Holds(c) /\ heard > 0 /\ Go(c, "complete")
       \/ NoResult(c)
    /\ UNCHANGED <<row, life, heard, acked, delivered, faults>>

\* The final transcript is written to the client, or the connection is gone.
Deliver(c) ==
    /\ conn[c].stage = "deliver"
    /\ delivered' \in {delivered, TRUE}
    /\ End(c)
    /\ UNCHANGED <<row, stream, life, heard, acked, faults>>

\* Mutant: the connection just ends.
Drop_Forgets(c) ==
    /\ conn[c].stage = "serving"
    /\ End(c)
    /\ UNCHANGED <<row, stream, life, heard, acked, delivered, faults>>

\* The connection breaks or is silent for three heartbeats.
Drop(c) ==
    /\ conn[c].stage = "serving"
    /\ Go(c, "interrupt")
    /\ UNCHANGED <<row, stream, life, heard, acked, delivered, faults>>

\* The stream is detached after the row says that the session is interrupted.
Retain(c) ==
    /\ conn[c].stage = "detach"
    /\ Detach(c, conn[c].until)
    /\ End(c)
    /\ UNCHANGED <<row, life, heard, acked, delivered, faults>>

----------------------------------------------------------------------------
\* The API process stops: its connections and streams are gone.
Crash ==
    /\ faults.count < MaxFaults
    /\ row # NoRow
    /\ conn' = [c \in Conns |-> Closed]
    /\ stream' = NoStream
    /\ faults' = [faults EXCEPT !.count = @ + 1]
    /\ UNCHANGED <<row, life, heard, acked, delivered>>

Later(t) == IF t = Past THEN Past ELSE t - 1

Tick ==
    /\ life > 0
    /\ row # NoRow
    /\ life' = life - 1
    /\ row' = [row EXCEPT !.reconnect = Later(@)]
    /\ stream' = [stream EXCEPT !.reconnect = Later(@)]
    /\ conn' = [c \in Conns |-> [conn[c] EXCEPT !.until = Later(@), !.update.reconnect = Later(@)]]
    /\ UNCHANGED <<heard, acked, delivered, faults>>

Serve(c) ==
    \/ Open(c) \/ Attach(c) \/ ReadRow(c) \/ SaveRow(c) \/ Conflict(c)
    \/ Push(c) \/ Ack(c) \/ ProviderFinish(c) \/ Deliver(c) \/ Retain(c)

Next ==
    \/ \E c \in Conns : Serve(c) \/ Start(c) \/ Resume(c) \/ ReplayCompleted(c)
                        \/ Audio(c) \/ Finish(c) \/ Drop(c) \/ CallFails(c)
    \/ Crash \/ Tick

Spec == Init /\ [][Next]_vars

\* A goroutine that can go on does; the clock runs; a silent client is dropped.
Fairness == WF_vars(Tick) /\ \A c \in Conns : WF_vars(Serve(c)) /\ SF_vars(Drop(c))
FairSpec == Spec /\ Fairness

----------------------------------------------------------------------------
\* The connection that is being served always has the provider's stream: no
\* resume and no connection that is still ending takes it away or closes it.
ServingHoldsStream == \A c \in Conns : conn[c].stage \in Serving => Holds(c)

\* A frame that was acknowledged stays counted by the row, and a client that
\* was sent the transcript finds the session completed, whatever writes late.
AckedIsKept == acked <= row.next /\ (delivered => row.state = "completed")

\* A session that is completed or failed is never changed.
EndedIsFinal == [][row.state \in Terminal => row' = row]_vars

\* Unless a failed call saved a frame, the provider is given every accepted
\* frame once and in order: the transcript covers the whole recording.
ProviderInStep ==
    ~faults.frame =>
        /\ \A c \in Conns : conn[c].stage = "push" => conn[c].seq = heard
        /\ row.state \in {"finalizing", "completed"} => heard = row.next

\* Without a fault, a session that has not expired is only recorded as
\* streaming while a connection feeds it or is about to end it.
StreamingIsServed ==
    row.state = "streaming" /\ life > 0 /\ faults.count = 0 =>
        \E c \in Conns : conn[c].stage \notin {"closed", "attach"}

\* A session that is being finalized ends, completed or failed, whatever the
\* provider answers, unless the database fails or the process stops.
FinalizingEnds == row.state = "finalizing" ~> (row.state \in Terminal \/ faults.count > 0)

\* The code tells a client that the reconnect window has expired: it has, or
\* the process no longer has the stream.
FailedOnlyAfterWindow ==
    \A c \in Conns : conn[c].stage = "fail" /\ conn[c].code = "stream_timeout" /\ stream.state = "open"
        => row.reconnect = Past

\* A lost acknowledgement is safe: the frame is replayed, and the transcript
\* of a completed session covers every frame.
TranscriptCoversAudio == row.state = "completed" => heard = row.next

\* The stream of a session nobody resumes is released after the window.
StreamIsReleased == stream.state = "open" /\ life = 0 ~> stream.state # "open"
=============================================================================
