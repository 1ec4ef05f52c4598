------------------------------ MODULE SpoolDrain ------------------------------
(****************************************************************************)
(* How artifacts reach the provenance index (publish.py, ingest.py,         *)
(* reindex.py, scheduler.py _maybe_drain_provenance_spool).                 *)
(*                                                                          *)
(* A producer process renames an artifact to its fingerprinted place and    *)
(* then appends a record to a spool file of its own.  The supervisor        *)
(* renames the spool file, reads it, commits its records in one transaction *)
(* and removes it.  A rename takes an open descriptor along and replaces a  *)
(* renamed file that an earlier drain left behind.  The operator may        *)
(* rebuild the index from the artifacts that carry their own record.        *)
(****************************************************************************)
EXTENDS Naturals, FiniteSets

CONSTANTS
    Producers,       \* worker processes
    SelfDescribing,  \* those whose artifacts are directories of the two shared stores
    MaxRecords,      \* bound on the artifacts of a producer
    Faults,          \* crash, store, read, unlink, delay, norecord, clear
    MaxFaults        \* bound on faults

ASSUME SpoolDrainAssumption ==
    /\ SelfDescribing \subseteq Producers
    /\ MaxRecords \in Nat /\ MaxFaults \in Nat

VARIABLES
    live,       \* the records of each {host}.{pid}.jsonl
    draining,   \* the records of each {host}.{pid}.jsonl.draining
    exists,     \* which of these files there are
    made,       \* how many artifacts each producer has published
    pending,    \* the producers whose last artifact still gets its record
    skipped,    \* the artifacts whose record is never appended
    fd,         \* where the file is that a delayed append has opened
    step,       \* what the supervisor does next
    todo,       \* the renamed files of this pass that are not drained yet
    current,    \* the file in work, and what was read from it
    db,         \* the records of provenance.db
    reindexing, \* a full reindex has cleared the table and walks the stores
    faults,     \* faults so far
    past        \* history: the faults since the stores were last walked, as
                \* they concern each producer

files == <<live, draining, exists>>
producer == <<made, pending, skipped, fd>>
supervisor == <<step, todo, current>>
history == <<faults, past>>
vars == <<files, producer, supervisor, db, reindexing, history>>

\* The n-th artifact of a producer, and its record.
Records == Producers \X (1 .. MaxRecords)
Made == {r \in Records : r[2] <= made[r[1]]}
Appended == {r \in Made \ skipped : r[1] \in pending => r[2] < made[r[1]]}

Nothing == [file |-> "none", records |-> {}]

TypeOK ==
    /\ live \in [Producers -> SUBSET Records]
    /\ draining \in [Producers -> SUBSET Records]
    /\ exists \in [Producers -> SUBSET {"live", "draining"}]
    /\ made \in [Producers -> 0 .. MaxRecords]
    /\ pending \subseteq Producers
    /\ skipped \subseteq Records
    /\ fd \in [Producers -> {"closed", "live", "draining", "unlinked"}]
    /\ step \in {"rotate", "read", "commit", "unlink"}
    /\ todo \subseteq Producers
    /\ current \in [file : Producers \cup {"none"}, records : SUBSET Records]
    /\ db \subseteq Records
    /\ reindexing \in BOOLEAN
    /\ faults \in 0 .. MaxFaults
    /\ past \in [Producers -> SUBSET Faults]

Init ==
    /\ live = [p \in Producers |-> {}]
    /\ draining = [p \in Producers |-> {}]
    /\ exists = [p \in Producers |-> {}]
    /\ made = [p \in Producers |-> 0]
    /\ pending = {}
    /\ skipped = {}
    /\ fd = [p \in Producers |-> "closed"]
    /\ step = "rotate"
    /\ todo = {}
    /\ current = Nothing
    /\ db = {}
    /\ reindexing = FALSE
    /\ faults = 0
    /\ past = [p \in Producers |-> {}]

Fault(kind) ==
    /\ kind \in Faults
    /\ faults < MaxFaults
    /\ faults' = faults + 1
    /\ past' = [p \in Producers |-> past[p] \cup {kind}]

(****************************************************************************)
(* A producer                                                               *)
(****************************************************************************)
\* publish_dir and publish_record up to the rename of the finished artifact.
Publish(p) ==
    /\ p \notin pending
    /\ made[p] < MaxRecords
    /\ made' = [made EXCEPT ![p] = @ + 1]
    /\ pending' = pending \cup {p}
    /\ UNCHANGED <<files, skipped, fd, supervisor, db, reindexing, history>>

\* The record of p's last artifact is written to the file that is where f says.
WriteTo(p, f) ==
    LET r == <<p, made[p]>> IN
    /\ pending' = pending \ {p}
    /\ live' = IF f = "live" THEN [live EXCEPT ![p] = @ \cup {r}] ELSE live
    /\ draining' = IF f = "draining" THEN [draining EXCEPT ![p] = @ \cup {r}] ELSE draining

\* append_spool_record, with no rename between its open and its write.
Append(p) ==
    /\ p \in pending
    /\ fd[p] = "closed"
    /\ WriteTo(p, "live")
    /\ exists' = [exists EXCEPT ![p] = @ \cup {"live"}]
    /\ UNCHANGED <<made, skipped, fd, supervisor, db, reindexing, history>>

\* The open of an append whose write comes later.
Open(p) ==
    /\ p \in pending
    /\ fd[p] = "closed"
    /\ Fault("delay")
    /\ fd' = [fd EXCEPT ![p] = "live"]
    /\ exists' = [exists EXCEPT ![p] = @ \cup {"live"}]
    /\ UNCHANGED <<live, draining, made, pending, skipped, supervisor, db, reindexing>>

Write(p) ==
    /\ fd[p] # "closed"
    /\ WriteTo(p, fd[p])
    /\ fd' = [fd EXCEPT ![p] = "closed"]
    /\ UNCHANGED <<exists, made, skipped, supervisor, db, reindexing, history>>

\* The producer is killed between the rename and the record, or the append
\* raises and try_publish_dir or try_publish_record swallows it.
GiveUp(p) ==
    /\ p \in pending
    /\ Fault("norecord")
    /\ pending' = pending \ {p}
    /\ skipped' = skipped \cup {<<p, made[p]>>}
    /\ fd' = [fd EXCEPT ![p] = "closed"]
    /\ UNCHANGED <<files, made, supervisor, db, reindexing>>

(****************************************************************************)
(* The supervisor                                                           *)
(****************************************************************************)
\* Where an open file goes with a rename.
Moved(place) ==
    CASE place = "live" -> "draining"
      [] place = "draining" -> "unlinked"
      [] OTHER -> place

Renamed == {p \in Producers : "live" \in exists[p]}

\* Mutant: what an earlier drain left behind is not picked up.
Rotate_fresh_only ==
    /\ step = "rotate"
    /\ draining' = [p \in Producers |-> IF p \in Renamed THEN live[p] ELSE draining[p]]
    /\ live' = [p \in Producers |-> {}]
    /\ exists' = [p \in Producers |-> IF p \in Renamed THEN {"draining"} ELSE exists[p]]
    /\ fd' = [p \in Producers |-> IF p \in Renamed THEN Moved(fd[p]) ELSE fd[p]]
    /\ todo' = Renamed
    /\ step' = IF todo' = {} THEN "rotate" ELSE "read"
    /\ UNCHANGED <<made, pending, skipped, current, db, reindexing, history>>

\* rotate_spool_files: the files are independent, so the renames are one step.
Rotate ==
    /\ step = "rotate"
    /\ draining' = [p \in Producers |-> IF p \in Renamed THEN live[p] ELSE draining[p]]
    /\ live' = [p \in Producers |-> {}]
    /\ exists' = [p \in Producers |-> IF p \in Renamed THEN {"draining"} ELSE exists[p]]
    /\ fd' = [p \in Producers |-> IF p \in Renamed THEN Moved(fd[p]) ELSE fd[p]]
    /\ todo' = {p \in Producers : "draining" \in exists'[p]}
    /\ step' = IF todo' = {} THEN "rotate" ELSE "read"
    /\ UNCHANGED <<made, pending, skipped, current, db, reindexing, history>>

\* A file that cannot be read has no records.
Read ==
    /\ step = "read"
    /\ \E p \in todo :
          \/ current' = [file |-> p, records |-> draining[p]] /\ UNCHANGED history
          \/ current' = [file |-> p, records |-> {}] /\ Fault("read")
    /\ step' = "commit"
    /\ UNCHANGED <<files, producer, todo, db, reindexing>>

\* The file in work is done with: the next one, or the next pass.
Proceed ==
    /\ todo' = todo \ {current.file}
    /\ current' = Nothing
    /\ step' = IF todo' = {} THEN "rotate" ELSE "read"

\* Mutant: a file whose transaction failed is removed like any other.
Commit_goes_on ==
    /\ step = "commit"
    /\ \/ db' = db \cup current.records /\ UNCHANGED history
       \/ Fault("store") /\ UNCHANGED db
    /\ step' = "unlink"
    /\ UNCHANGED <<todo, current, files, producer, reindexing>>

\* The transaction of a file: all of its records, or none and the file stays.
Commit ==
    /\ step = "commit"
    /\ \/ /\ db' = db \cup current.records
          /\ step' = "unlink"
          /\ UNCHANGED <<todo, current, history>>
       \/ /\ Fault("store")
          /\ Proceed
          /\ UNCHANGED db
    /\ UNCHANGED <<files, producer, reindexing>>

\* Mutant: the first commit removes every renamed file.
Unlink_all ==
    /\ step = "unlink"
    /\ draining' = [p \in Producers |-> {}]
    /\ exists' = [p \in Producers |-> exists[p] \ {"draining"}]
    /\ fd' = [p \in Producers |-> Moved(fd[p])]
    /\ Proceed
    /\ UNCHANGED <<live, made, pending, skipped, db, reindexing, history>>

Unlink ==
    /\ step = "unlink"
    /\ LET p == current.file IN
       \/ /\ draining' = [draining EXCEPT ![p] = {}]
          /\ exists' = [exists EXCEPT ![p] = @ \ {"draining"}]
          /\ fd' = [fd EXCEPT ![p] = IF @ = "draining" THEN "unlinked" ELSE @]
          /\ UNCHANGED history
       \/ /\ Fault("unlink")
          /\ UNCHANGED <<draining, exists, fd>>
    /\ Proceed
    /\ UNCHANGED <<live, made, pending, skipped, db, reindexing>>

\* The supervisor dies in the middle of a pass; the next one starts over.
Crash ==
    /\ Fault("crash")
    /\ step # "rotate"
    /\ step' = "rotate"
    /\ todo' = {}
    /\ current' = Nothing
    /\ UNCHANGED <<files, producer, db, reindexing>>

Drain == Rotate \/ Read \/ Commit \/ Unlink

(****************************************************************************)
(* The operator                                                             *)
(****************************************************************************)
\* syndiff bookkeeping reindex, without --incremental, beside all of the above.
Clear ==
    /\ ~reindexing
    /\ Fault("clear")
    /\ db' = {}
    /\ reindexing' = TRUE
    /\ UNCHANGED <<files, producer, supervisor>>

\* reindex_shared_store: every artifact with a record of its own.
Walk ==
    /\ reindexing
    /\ db' = db \cup {r \in Made : r[1] \in SelfDescribing}
    /\ reindexing' = FALSE
    /\ past' = [p \in Producers |-> IF p \in SelfDescribing THEN {} ELSE past[p]]
    /\ UNCHANGED <<files, producer, supervisor, faults>>

Next ==
    \/ \E p \in Producers : Publish(p) \/ Append(p) \/ Open(p) \/ Write(p) \/ GiveUp(p)
    \/ Drain
    \/ Crash
    \/ Clear \/ Walk

Spec == Init /\ [][Next]_vars

\* The supervisor drains again and again, a producer goes on with an append or
\* gives it up, a reindex goes on.
FairSpec ==
    /\ Spec
    /\ WF_vars(Drain)
    /\ \A p \in Producers : WF_vars(Append(p) \/ Open(p) \/ Write(p) \/ GiveUp(p))
    /\ WF_vars(Walk)

(****************************************************************************)
(* Properties                                                               *)
(****************************************************************************)
\* On disk, and neither indexed, nor in a spool file, nor about to be.
Lost ==
    {r \in Appended \cup skipped : r \notin db \cup live[r[1]] \cup draining[r[1]]}

\* What it takes to lose an artifact from the index: a record that is never
\* appended, a read that fails, an append that is late, a full reindex, or a
\* crash or a failed transaction before the commit, after which the producer
\* has written again.  Records committed and not unlinked are never at risk, and
\* what happened before a reindex has no effect on an artifact that carries its
\* own record.
LossHasCause ==
    \A r \in Lost :
        LET causes == past[r[1]] IN
        \/ causes \cap {"read", "delay", "clear"} # {}
        \/ "norecord" \in causes /\ r \in skipped
        \/ /\ causes \cap {"crash", "store"} # {}
           /\ \E q \in Appended : q[1] = r[1] /\ q[2] > r[2]

\* A fault costs records of one producer only, at the moment its file is
\* removed, replaced or already gone; a full reindex costs what the index holds,
\* and nothing that waits in a spool file.
LossIsLocal ==
    [][\A r \in Lost' \ Lost :
         \/ step = "unlink" /\ current.file = r[1]
         \/ step = "rotate" /\ exists[r[1]] = {"live", "draining"}
         \/ fd[r[1]] = "unlinked"
         \/ r[1] \in pending /\ r \in skipped'
         \/ ~reindexing /\ reindexing' /\ r \in db]_vars

\* Whatever fails, every artifact is indexed in the end or one of those that are
\* lost: no record waits for ever.
EverythingIndexed == \A r \in Records : r \in Made ~> r \in db \cup Lost
=============================================================================
