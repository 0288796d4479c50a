----------------------------- MODULE ChangeFeed -----------------------------
(***************************************************************************)
(* The incremental change feed.  Every write of an asset row fires a       *)
(* trigger that appends a row to sync_changes in the writer's transaction. *)
(* The trigger draws the sequence number when it runs, the row becomes     *)
(* visible when the transaction commits.  A client polls the changes after *)
(* its cursor: the server reads the high watermark and then, in a second   *)
(* statement, one page below it.  The client applies a whole page and then *)
(* stores the cursor that came with it; an answer may be lost.             *)
(***************************************************************************)
EXTENDS Integers, Sequences, FiniteSets, SequencesExt

CONSTANTS Assets,        \* assets of all workspaces
          Mine,          \* the assets of the client's workspace
          Writers,       \* connections that write assets
          Backfilled,    \* assets that existed before the migration, in its order
          Limit,         \* page size
          MaxSequence,   \* bound on the sequence numbers drawn
          None

ASSUME FeedAssumption ==
    /\ Mine \subseteq Assets
    /\ Backfilled \in Seq(Assets) /\ IsInjective(Backfilled)
    /\ Limit \in Nat \ {0}
    /\ MaxSequence \in Nat /\ MaxSequence >= Len(Backfilled)
    /\ None \notin [seq: Nat, asset: Assets, operation: {"upsert", "delete"}, version: Nat]

VARIABLES row,       \* the committed asset rows
          tx,        \* the change of each open transaction; it holds the row's lock
          sequence,  \* last sequence number drawn
          feed,      \* committed rows of sync_changes
          cursor,    \* the client's stored cursor
          copy,      \* the last change the client applied to each asset
          request,   \* the request being answered
          late       \* history: changes that committed below a watermark already read

vars == <<row, tx, sequence, feed, cursor, copy, request, late>>

Changes == [seq: 1..MaxSequence, asset: Assets,
            operation: {"upsert", "delete"}, version: 1..MaxSequence]

Idle == [stage |-> "idle", high |-> 0, items |-> <<>>, next |-> 0]

TypeOK ==
    /\ row \in [Assets -> [state: {"absent", "live", "deleted"}, version: 0..MaxSequence]]
    /\ tx \in [Writers -> Changes \cup {None}]
    /\ sequence \in 0..MaxSequence
    /\ feed \subseteq Changes
    /\ cursor \in 0..MaxSequence
    /\ copy \in [Assets -> Changes \cup {None}]
    /\ request \in [stage: {"idle", "watermark", "answered"}, high: 0..MaxSequence,
                    items: BoundedSeq(Changes, Limit), next: 0..MaxSequence]
    /\ late \subseteq feed

Change(s, a, op, v) == [seq |-> s, asset |-> a, operation |-> op, version |-> v]

\* The migration appends one upsert for every asset it finds.
Init ==
    /\ row = [a \in Assets |-> IF a \in Range(Backfilled) THEN [state |-> "live", version |-> 1]
                               ELSE [state |-> "absent", version |-> 0]]
    /\ tx = [w \in Writers |-> None]
    /\ sequence = Len(Backfilled)
    /\ feed = {Change(i, Backfilled[i], "upsert", 1) : i \in DOMAIN Backfilled}
    /\ cursor = 0
    /\ copy = [a \in Assets |-> None]
    /\ request = Idle
    /\ late = {}

----------------------------------------------------------------------------
(* Writers. *)

\* Writers of one row wait for each other.
Unlocked(a) == \A w \in Writers : tx[w] # None => tx[w].asset # a

\* The trigger appends the change of writer w, invisible until the commit.
AppendAssetSyncChange(w, a, op, v) ==
    /\ tx[w] = None
    /\ Unlocked(a)
    /\ sequence < MaxSequence
    /\ sequence' = sequence + 1
    /\ tx' = [tx EXCEPT ![w] = Change(sequence + 1, a, op, v)]
    /\ UNCHANGED <<row, feed, cursor, copy, request, late>>

Create(w, a) ==
    /\ row[a].state = "absent"
    /\ AppendAssetSyncChange(w, a, "upsert", 1)

\* A metadata edit, a lifecycle change or a status change by a job.
Update(w, a) ==
    /\ row[a].state = "live"
    /\ AppendAssetSyncChange(w, a, "upsert", row[a].version + 1)

\* The final step of a permanent deletion.
Delete(w, a) ==
    /\ row[a].state = "live"
    /\ AppendAssetSyncChange(w, a, "delete", row[a].version)

\* Mutant: the trigger does not fire on DELETE.
Visible_NoTombstone(c) == IF c.operation = "delete" THEN {} ELSE {c}

\* What the commit of change c makes visible.
Visible(c) == {c}

Commit(w) ==
    LET c == tx[w] IN
    /\ c # None
    /\ row' = [row EXCEPT ![c.asset] =
                  [state |-> IF c.operation = "delete" THEN "deleted" ELSE "live",
                   version |-> c.version]]
    /\ feed' = feed \cup Visible(c)
    /\ late' = IF c.seq <= cursor \/ c.seq <= request.high THEN late \cup Visible(c) ELSE late
    /\ tx' = [tx EXCEPT ![w] = None]
    /\ UNCHANGED <<sequence, cursor, copy, request>>

\* The sequence number of a rolled back transaction is not used again.
Rollback(w) ==
    /\ tx[w] # None
    /\ tx' = [tx EXCEPT ![w] = None]
    /\ UNCHANGED <<row, sequence, feed, cursor, copy, request, late>>

----------------------------------------------------------------------------
(* The client and its requests. *)

Newest(C) == CHOOSE c \in C : \A d \in C : d.seq <= c.seq

OfWorkspace == {c \in feed : c.asset \in Mine}

HighWatermark == IF OfWorkspace = {} THEN 0 ELSE Newest(OfWorkspace).seq

ReadWatermark ==
    /\ request.stage = "idle"
    /\ request' = [Idle EXCEPT !.stage = "watermark", !.high = HighWatermark]
    /\ UNCHANGED <<row, tx, sequence, feed, cursor, copy, late>>

\* Mutant: the page query forgets the cursor.
After_Start(low, high) == {c \in OfWorkspace : c.seq <= high}

After(low, high) == {c \in OfWorkspace : low < c.seq /\ c.seq <= high}

Ordered(C) == SetToSortSeq(C, LAMBDA c, d : c.seq < d.seq)

\* Mutants: the watermark is the checkpoint of a truncated page; the checkpoint
\* of a truncated page does not move.
Checkpoint_Watermark(items, hasMore, high) == high
Checkpoint_Stays(items, hasMore, high) == IF hasMore THEN cursor ELSE high

Checkpoint(items, hasMore, high) ==
    LET next == IF hasMore THEN Last(items).seq ELSE high
    IN  IF next < cursor THEN cursor ELSE next

\* Mutant: the extra row that tells whether there are more stays in the page.
Page_Extra(rows) == IF Len(rows) > Limit THEN SubSeq(rows, 1, Limit + 1) ELSE rows

Page(rows) == IF Len(rows) > Limit THEN SubSeq(rows, 1, Limit) ELSE rows

\* The server asks for one row more than the page to see whether there are more;
\* a watermark below the cursor is an error.
ReadPage ==
    /\ request.stage = "watermark"
    /\ request.high >= cursor
    /\ LET rows    == Ordered(After(cursor, request.high))
           hasMore == Len(rows) > Limit
           items   == Page(rows)
       IN  request' = [request EXCEPT !.stage = "answered", !.items = items,
                                      !.next = Checkpoint(items, hasMore, request.high)]
    /\ UNCHANGED <<row, tx, sequence, feed, cursor, copy, late>>

\* The client applies the page in order and stores the cursor with it.
Persist ==
    /\ request.stage = "answered"
    /\ copy' = FoldLeft(LAMBDA known, c : [known EXCEPT ![c.asset] = c], copy, request.items)
    /\ cursor' = request.next
    /\ request' = Idle
    /\ UNCHANGED <<row, tx, sequence, feed, late>>

\* The request fails or its answer is lost.
Lose ==
    /\ request.stage # "idle"
    /\ request' = Idle
    /\ UNCHANGED <<row, tx, sequence, feed, cursor, copy, late>>

Write ==
    \E w \in Writers :
        \/ \E a \in Assets : Create(w, a) \/ Update(w, a) \/ Delete(w, a)
        \/ Commit(w)
        \/ Rollback(w)

Poll == ReadWatermark \/ ReadPage \/ Persist \/ Lose

Next == Write \/ Poll

Spec == Init /\ [][Next]_vars

\* The client keeps polling, and neither every request nor every answer is lost.
Fairness == WF_vars(ReadWatermark) /\ SF_vars(ReadPage) /\ SF_vars(Persist)

FairSpec == Spec /\ Fairness

----------------------------------------------------------------------------
(* Properties. *)

AsRow(c) == [state |-> IF c.operation = "delete" THEN "deleted" ELSE "live",
             version |-> c.version]

\* The newest committed change of an asset, by sequence number, is its row: row
\* locks make the order of the numbers the order of the commits, per asset, so
\* the trigger's snapshots and tombstones can be replayed in sequence order.
FeedMatchesRows ==
    \A a \in Assets :
        LET C == {c \in feed : c.asset = a} IN
        IF C = {} THEN row[a].state = "absent" ELSE AsRow(Newest(C)) = row[a]

\* Between requests the client has, of every asset, the newest change up to its
\* cursor, except a change that became visible below a watermark the server had
\* already read: truncated pages, lost answers and repeated polls lose nothing.
OnlyLateChangesMissed ==
    \A a \in Mine :
        LET C == {c \in feed : c.asset = a /\ c.seq <= cursor} IN
        C # {} => copy[a] = Newest(C) \/ Newest(C) \in late

\* The client's copy of an asset never goes back to an older version and never
\* comes back from its tombstone, however pages and polls fall.
CopyNeverRegresses ==
    [][\A a \in Mine : copy[a] # None =>
          /\ copy'[a] # None
          /\ copy'[a].version >= copy[a].version
          /\ copy[a].operation = "delete" => copy'[a] = copy[a]]_vars

\* Once the writers rest, polling reaches the end of the feed: every truncated
\* page moves the cursor (List's checkpoint).
PollingCatchesUp == <>[](cursor >= HighWatermark)

\* ADR 0014: a client that is at the end of the feed has the exact rows.
ReplayIsExact ==
    (request.stage = "idle" /\ cursor = HighWatermark /\ \A w \in Writers : tx[w] = None)
        => \A a \in Mine : IF copy[a] = None THEN row[a].state = "absent"
                           ELSE AsRow(copy[a]) = row[a]
=============================================================================
