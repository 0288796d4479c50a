--------------------------- MODULE UploadSession ---------------------------
(***************************************************************************)
(* Resumable uploads: sessions, numbered parts, completion, and the asset  *)
(* status they move, with the lifecycle requests and the purge that may    *)
(* run meanwhile.                                                          *)
(*                                                                         *)
(* A request reads the session in one statement and acts on it later, so a *)
(* put or a completion is a sequence of actions of a process q.  A part is *)
(* "good" when it holds the bytes the session declared, "bad" otherwise:   *)
(* the client declares the checksum of every part and of the whole file.   *)
(* Reading a session that has ended or expired removes its part files;     *)
(* such a session stays so, hence the read and the removal are one step.   *)
(***************************************************************************)
EXTENDS Integers, FiniteSets

CONSTANTS
    Assets, Uploads, Processes,
    Parts,        \* the part numbers of every session
    Files,        \* declared file contents
    None,
    AssetOf,      \* the asset of a session
    Declared,     \* the file a session declares
    ValidAudio    \* the files the media probe accepts

ASSUME UploadAssumption ==
    /\ AssetOf \in [Uploads -> Assets]
    /\ Declared \in [Uploads -> Files]
    /\ ValidAudio \subseteq Files
    /\ None \notin Files

VARIABLES
    asset,     \* assets rows, with the original listed in asset_objects
    session,   \* upload_sessions rows
    row,       \* upload_parts rows
    part,      \* part files
    object,    \* the original of each asset in object storage
    purge,     \* what a purge of the asset has loaded and deleted
    process    \* requests under way

vars == <<asset, session, row, part, object, purge, process>>

PartBytes == {"good", "bad"}
NoParts == [n \in Parts |-> None]
AssetStatuses == {"draft", "uploading", "ready", "failed", "trashed", "purging", "gone"}
SessionStates == {"absent", "active", "assembling", "completed", "failed"}
Steps == {"free", "store", "record", "mark", "assemble", "probe", "finish", "fail",
          "reset", "cleanup"}
Free == [step |-> "free", upload |-> None, part |-> None, bytes |-> None]
NoPurge == [step |-> "none", listed |-> None]

TypeOK ==
    /\ asset \in [Assets -> [status: AssetStatuses, before: AssetStatuses, deleted: BOOLEAN,
                             original: Files \cup {None}]]
    /\ session \in [Uploads -> [state: SessionStates, expired: BOOLEAN]]
    /\ row \in [Uploads -> [Parts -> PartBytes \cup {None}]]
    /\ part \in [Uploads -> [Parts -> PartBytes \cup {None}]]
    /\ object \in [Assets -> Files \cup {None}]
    /\ purge \in [Assets -> [step: {"none", "loaded", "deleted"}, listed: Files \cup {None}]]
    /\ process \in [Processes -> [step: Steps, upload: Uploads \cup {None},
                                  part: Parts \cup {None}, bytes: PartBytes \cup {None}]]

Init ==
    /\ asset = [a \in Assets |-> [status |-> "draft", before |-> "draft", deleted |-> FALSE,
                                  original |-> None]]
    /\ session = [u \in Uploads |-> [state |-> "absent", expired |-> FALSE]]
    /\ row = [u \in Uploads |-> NoParts]
    /\ part = [u \in Uploads |-> NoParts]
    /\ object = [a \in Assets |-> None]
    /\ purge = [a \in Assets |-> NoPurge]
    /\ process = [q \in Processes |-> Free]

Open(u) == session[u].state \in {"active", "assembling"}
Live(u) == session[u].state = "active" /\ ~session[u].expired
\* Mutant: a session counts as over before it has expired.
Over_TooEarly(u) == session[u].state \in {"failed", "completed", "active"}

\* What a request that meets the session in this state cleans up.
Over(u) ==
    \/ session[u].state \in {"failed", "completed"}
    \/ session[u].state = "active" /\ session[u].expired

DeleteParts(u) == part' = [part EXCEPT ![u] = NoParts]
CleanIfOver(u) == part' = IF Over(u) THEN [part EXCEPT ![u] = NoParts] ELSE part
Step(q, s) == process' = [process EXCEPT ![q].step = s]
Return(q) == process' = [process EXCEPT ![q] = Free]

----------------------------------------------------------------------------
(* Sessions. *)

Create(u) ==
    LET a == AssetOf[u] IN
    /\ session[u].state = "absent"
    /\ ~asset[a].deleted
    /\ asset[a].status \in {"draft", "uploading"}
    /\ \A v \in Uploads : AssetOf[v] = a => ~Open(v)
    /\ session' = [session EXCEPT ![u] = [state |-> "active", expired |-> FALSE]]
    /\ asset' = [asset EXCEPT ![a].status = "uploading"]
    /\ UNCHANGED <<row, part, object, purge, process>>

Expire(u) ==
    /\ Open(u)
    /\ ~session[u].expired
    /\ session' = [session EXCEPT ![u].expired = TRUE]
    /\ UNCHANGED <<asset, row, part, object, purge, process>>

\* Reading a session, or replaying its creation, removes the parts of one
\* that has ended or expired, even while it is being assembled.
Get(u) ==
    /\ session[u].state \in {"failed", "completed"} \/ session[u].expired
    /\ DeleteParts(u)
    /\ UNCHANGED <<asset, session, row, object, purge, process>>

----------------------------------------------------------------------------
(* Parts. *)

BeginPut(q, u, n, c) ==
    /\ process[q] = Free
    /\ session[u].state # "absent"
    /\ process' = IF Live(u)
                  THEN [process EXCEPT ![q] = [step |-> "store", upload |-> u, part |-> n, bytes |-> c]]
                  ELSE process
    /\ CleanIfOver(u)
    /\ UNCHANGED <<asset, session, row, object, purge>>

\* A part number that holds other bytes is a conflict.
StorePart(q) ==
    LET u == process[q].upload
        n == process[q].part
        c == process[q].bytes IN
    /\ process[q].step = "store"
    /\ IF part[u][n] \in {None, c}
       THEN part' = [part EXCEPT ![u][n] = c] /\ Step(q, "record")
       ELSE Return(q) /\ UNCHANGED part
    /\ UNCHANGED <<asset, session, row, object, purge>>

\* The session is locked and tested again.  Only an expired session is
\* cleaned up here.
RecordPart(q) ==
    LET u == process[q].upload
        n == process[q].part IN
    /\ process[q].step = "record"
    /\ row' = IF Live(u) /\ row[u][n] = None
              THEN [row EXCEPT ![u][n] = process[q].bytes] ELSE row
    /\ part' = IF session[u].state = "active" /\ session[u].expired
               THEN [part EXCEPT ![u] = NoParts] ELSE part
    /\ Return(q)
    /\ UNCHANGED <<asset, session, object, purge>>

----------------------------------------------------------------------------
(* Completion. *)

BeginComplete(q, u) ==
    /\ process[q] = Free
    /\ session[u].state # "absent"
    /\ process' = IF Live(u) /\ \A n \in Parts : row[u][n] # None
                  THEN [process EXCEPT ![q] = [Free EXCEPT !.step = "mark", !.upload = u]]
                  ELSE process
    /\ CleanIfOver(u)
    /\ UNCHANGED <<asset, session, row, object, purge>>

\* Mutant: the state is not part of the UPDATE's condition.
MarkAssembling_Unconditional(q) ==
    LET u == process[q].upload IN
    /\ process[q].step = "mark"
    /\ session[u].state # "absent"
    /\ session' = [session EXCEPT ![u].state = "assembling"]
    /\ Step(q, "assemble")
    /\ UNCHANGED <<asset, row, part, object, purge>>

MarkAssembling(q) ==
    LET u == process[q].upload IN
    /\ process[q].step = "mark"
    /\ \/ /\ Live(u)
          /\ session' = [session EXCEPT ![u].state = "assembling"]
          /\ Step(q, "assemble")
          /\ UNCHANGED part
       \/ /\ ~Live(u)
          /\ part' = IF session[u].state = "active" THEN [part EXCEPT ![u] = NoParts] ELSE part
          /\ Return(q)
          /\ UNCHANGED session
    /\ UNCHANGED <<asset, row, object, purge>>

\* Mutant: the checksum of the whole file is not compared.
Assemble_NoChecksum(q) ==
    LET u == process[q].upload
        a == AssetOf[u] IN
    /\ process[q].step = "assemble"
    /\ object[a] = None
    /\ \A n \in Parts : part[u][n] = row[u][n]
    /\ object' = [object EXCEPT ![a] = IF \A n \in Parts : part[u][n] = "good"
                                       THEN Declared[u] ELSE CHOOSE f \in Files : f # Declared[u]]
    /\ Step(q, "probe")
    /\ UNCHANGED <<asset, session, row, part, purge>>

\* Every part is read and compared with its row, the whole with the
\* declaration; an object that already holds the declared bytes is reused.
Assemble(q) ==
    LET u == process[q].upload
        a == AssetOf[u] IN
    /\ process[q].step = "assemble"
    /\ \/ object[a] = Declared[u]
       \/ object[a] = None /\ \A n \in Parts : part[u][n] = "good" /\ row[u][n] = "good"
    /\ object' = [object EXCEPT ![a] = Declared[u]]
    /\ Step(q, "probe")
    /\ UNCHANGED <<asset, session, row, part, purge>>

\* Storage or database errors, mismatching parts and a conflicting object.
Stumble(q) ==
    /\ process[q].step \in {"assemble", "probe", "finish", "fail"}
    /\ Step(q, "reset")
    /\ UNCHANGED <<asset, session, row, part, object, purge>>

\* Invalid media is deleted before the failure is recorded.
Probe(q) ==
    LET u == process[q].upload
        a == AssetOf[u] IN
    /\ process[q].step = "probe"
    /\ object[a] # None
    /\ \/ /\ Declared[u] \in ValidAudio
          /\ Step(q, "finish")
          /\ UNCHANGED object
       \/ /\ Declared[u] \notin ValidAudio
          /\ object' = [object EXCEPT ![a] = IF object[a] = Declared[u] THEN None ELSE object[a]]
          /\ Step(q, "fail")
    /\ UNCHANGED <<asset, session, row, part, purge>>

\* Mutant: the session is cancelled, a state the table allows and no code handles.
MarkFailed_Cancels(q) ==
    LET u == process[q].upload IN
    /\ process[q].step = "fail"
    /\ session[u].state = "assembling"
    /\ session' = [session EXCEPT ![u].state = "cancelled"]
    /\ asset' = [asset EXCEPT ![AssetOf[u]].status = "failed"]
    /\ Step(q, "cleanup")
    /\ UNCHANGED <<row, part, object, purge>>

\* The asset is failed whatever its status is.
MarkFailed(q) ==
    LET u == process[q].upload IN
    /\ process[q].step = "fail"
    /\ session[u].state = "assembling"
    /\ session' = [session EXCEPT ![u].state = "failed"]
    /\ asset' = [asset EXCEPT ![AssetOf[u]].status = "failed"]
    /\ Step(q, "cleanup")
    /\ UNCHANGED <<row, part, object, purge>>

\* The asset becomes ready whatever its status is; a second original is
\* refused by the unique index.
Finish(q) ==
    LET u == process[q].upload
        a == AssetOf[u] IN
    /\ process[q].step = "finish"
    /\ session[u].state = "assembling"
    /\ asset[a].original = None
    /\ asset' = [asset EXCEPT ![a].status = "ready", ![a].original = Declared[u]]
    /\ session' = [session EXCEPT ![u].state = "completed"]
    /\ Step(q, "cleanup")
    /\ UNCHANGED <<row, part, object, purge>>

CleanUp(q) ==
    /\ process[q].step = "cleanup"
    /\ DeleteParts(process[q].upload)
    /\ Return(q)
    /\ UNCHANGED <<asset, session, row, object, purge>>

ResetToActive(q) ==
    LET u == process[q].upload IN
    /\ process[q].step = "reset"
    /\ session' = IF session[u].state = "assembling"
                  THEN [session EXCEPT ![u].state = "active"] ELSE session
    /\ Return(q)
    /\ UNCHANGED <<asset, row, part, object, purge>>

\* The API process dies, or the client goes away between two steps.
Crash(q) ==
    /\ process[q] # Free
    /\ Return(q)
    /\ UNCHANGED <<asset, session, row, part, object, purge>>

----------------------------------------------------------------------------
(* The asset meanwhile. *)

Trash(a) ==
    /\ ~asset[a].deleted
    /\ asset[a].status # "gone"
    /\ asset' = [asset EXCEPT ![a].before = asset[a].status, ![a].status = "trashed",
                              ![a].deleted = TRUE]
    /\ UNCHANGED <<session, row, part, object, purge, process>>

Restore(a) ==
    /\ asset[a].deleted
    /\ asset[a].status = "trashed"
    /\ asset' = [asset EXCEPT ![a].status = asset[a].before, ![a].deleted = FALSE]
    /\ UNCHANGED <<session, row, part, object, purge, process>>

RequestPurge(a) ==
    /\ asset[a].deleted
    /\ asset[a].status = "trashed"
    /\ asset' = [asset EXCEPT ![a].status = "purging"]
    /\ UNCHANGED <<session, row, part, object, purge, process>>

\* The inventory lists the sessions and the original, if there is one.
LoadPurge(a) ==
    /\ asset[a].status = "purging"
    /\ purge' = [purge EXCEPT ![a] = [step |-> "loaded", listed |-> asset[a].original]]
    /\ UNCHANGED <<asset, session, row, part, object, process>>

\* DeleteObject refuses an object with another checksum.
DeletePurged(a) ==
    /\ purge[a].step = "loaded"
    /\ purge[a].listed # None => object[a] \in {None, purge[a].listed}
    /\ part' = [u \in Uploads |-> IF AssetOf[u] = a THEN NoParts ELSE part[u]]
    /\ object' = [object EXCEPT ![a] = IF purge[a].listed = None THEN object[a] ELSE None]
    /\ purge' = [purge EXCEPT ![a].step = "deleted"]
    /\ UNCHANGED <<asset, session, row, process>>

FinalizePurge(a) ==
    /\ purge[a].step = "deleted"
    /\ asset[a].status = "purging"
    /\ asset[a].original = purge[a].listed
    /\ asset' = [asset EXCEPT ![a].status = "gone", ![a].original = None]
    /\ session' = [u \in Uploads |-> IF AssetOf[u] = a THEN [state |-> "absent", expired |-> FALSE]
                                     ELSE session[u]]
    /\ row' = [u \in Uploads |-> IF AssetOf[u] = a THEN NoParts ELSE row[u]]
    /\ purge' = [purge EXCEPT ![a] = NoPurge]
    /\ UNCHANGED <<part, object, process>>

----------------------------------------------------------------------------
Put(q) ==
    \/ \E u \in Uploads, n \in Parts, c \in PartBytes : BeginPut(q, u, n, c)
    \/ StorePart(q) \/ RecordPart(q)

Complete(q) ==
    \/ \E u \in Uploads : BeginComplete(q, u)
    \/ MarkAssembling(q) \/ Assemble(q) \/ Probe(q) \/ Stumble(q)
    \/ MarkFailed(q) \/ Finish(q) \/ CleanUp(q) \/ ResetToActive(q)

Lifecycle(a) ==
    Trash(a) \/ Restore(a) \/ RequestPurge(a) \/ LoadPurge(a) \/ DeletePurged(a) \/ FinalizePurge(a)

Next ==
    \/ \E u \in Uploads : Create(u) \/ Expire(u) \/ Get(u)
    \/ \E q \in Processes : Put(q) \/ Complete(q) \/ Crash(q)
    \/ \E a \in Assets : Lifecycle(a)

Spec == Init /\ [][Next]_vars

----------------------------------------------------------------------------
(* Properties. *)

\* A request between MarkAssembling and its answer.
Completing(q) == process[q].step \in {"assemble", "probe", "finish", "fail", "reset"}

\* The conditional UPDATE of MarkAssembling lets one request assemble a
\* session at a time, and nobody else moves the session meanwhile: it is
\* still assembling, or a purge has removed it.
OneAssembler ==
    \A q \in Processes :
        Completing(q) =>
            /\ session[process[q].upload].state \in {"assembling", "absent"}
            /\ \A p \in Processes \ {q} :
                  Completing(p) => process[p].upload # process[q].upload

\* A recorded part of a session that can still be completed is in storage
\* with the recorded bytes: cleaning up never meets a session that is alive.
RecordedPartsStored ==
    \A u \in Uploads, n \in Parts :
        Open(u) /\ ~session[u].expired /\ row[u][n] # None
          /\ asset[AssetOf[u]].status # "purging" /\ purge[AssetOf[u]].step = "none"
            => part[u][n] = row[u][n]

\* A completed session means that its declared bytes, accepted by the probe,
\* are the listed original and are in storage until a purge deletes them.
CompletedIsStored ==
    \A u \in Uploads :
        LET a == AssetOf[u] IN
        session[u].state = "completed" =>
            /\ asset[a].original = Declared[u]
            /\ Declared[u] \in ValidAudio
            /\ asset[a].status # "purging" => object[a] = Declared[u]

\* ADR 0010 calls the trash reversible: a deleted asset is trashed, and can
\* be restored, or purging.
TrashIsReversible ==
    \A a \in Assets : asset[a].deleted => asset[a].status \in {"trashed", "purging", "gone"}
=============================================================================
