--------------------------- MODULE SpoolDrain_proofs ---------------------------
(****************************************************************************)
(* Proofs about SpoolDrain, for any set of producers, any number of         *)
(* artifacts and any number of faults of every kind.                        *)
(*                                                                          *)
(* A record is in one of three places until the index has it: still to be   *)
(* written, in the live file, in the renamed file.  What each rename,       *)
(* commit and unlink does to the next place is tied to the faults there     *)
(* have been since the stores were last walked.                             *)
(****************************************************************************)
EXTENDS SpoolDrain, TLAPS

\* The files hold appended records of their producer, the renamed one the older
\* ones, and a file that is not there holds none.
FilesInOrder ==
    \A p \in Producers :
        /\ live[p] \cup draining[p] \subseteq Appended
        /\ \A r \in live[p] \cup draining[p] : r[1] = p
        /\ \A d \in draining[p], l \in live[p] : d[2] < l[2]
        /\ live[p] # {} => "live" \in exists[p]
        /\ draining[p] # {} => "draining" \in exists[p]

\* A record is pending for an artifact that was made and not skipped; an open file
\* is that of a pending record and goes with the renames.
AppendsUnderWay ==
    /\ skipped \subseteq Made
    /\ \A p \in pending : made[p] > 0 /\ <<p, made[p]>> \notin skipped
    /\ \A p \in Producers :
          /\ fd[p] # "closed" => p \in pending
          /\ fd[p] \in {"draining", "unlinked"} => "live" \notin exists[p]
          /\ fd[p] = "live" => "live" \in exists[p]
          /\ fd[p] = "draining" => "draining" \in exists[p]

\* A file is in work while the pass has it to do; between passes there is none.
PassUnderWay ==
    /\ step \in {"commit", "unlink"} => current.file \in todo
    /\ step = "rotate" <=> todo = {}

SpoolInv ==
    /\ TypeOK
    /\ FilesInOrder
    /\ AppendsUnderWay
    /\ PassUnderWay

Indexed(p) == {r \in Made : r[1] = p} \subseteq db

\* An open file, or a live one with no record, is the trace of a delayed append: what
\* it puts at risk was indexed by a walk if the past does not have the delay.
TracesOfDelay ==
    \A p \in Producers : past[p] \cap {"delay", "clear"} = {} =>
        /\ fd[p] # "closed" => Indexed(p)
        /\ "live" \in exists[p] /\ live[p] = {} => draining[p] \subseteq db

\* What the file in work holds was read, and after the commit is indexed.  A renamed
\* file that is not indexed has a turn in this pass, or a crash or a failed
\* transaction has left it behind.
DrainUnderWay ==
    \A p \in Producers : past[p] \cap {"read", "delay", "clear"} = {} =>
        /\ step = "commit" /\ current.file = p => draining[p] \subseteq current.records \cup db
        /\ step = "unlink" /\ current.file = p => draining[p] \subseteq db
        /\ \/ draining[p] \subseteq db
           \/ past[p] \cap {"crash", "store"} # {}
           \/ step # "rotate" /\ p \in todo

CauseInv ==
    /\ SpoolInv
    /\ TracesOfDelay
    /\ DrainUnderWay
    /\ LossHasCause

(****************************************************************************)
(* Types                                                                    *)
(****************************************************************************)
LEMMA ConstantsTyped == MaxRecords \in Nat /\ MaxFaults \in Nat /\ SelfDescribing \subseteq Producers
BY SpoolDrainAssumption

LEMMA InitTyped == Init => TypeOK
<1> SUFFICES ASSUME Init PROVE TypeOK
    OBVIOUS
<1>1. reindexing \in BOOLEAN
    BY DEF Init
<1> QED
    BY <1>1, ConstantsTyped DEF Init, TypeOK, Records, Nothing

LEMMA FaultTyped ==
    ASSUME TypeOK, NEW kind, Fault(kind)
    PROVE  /\ faults' \in 0 .. MaxFaults
           /\ past' \in [Producers -> SUBSET Faults]
           /\ \A p \in Producers : past'[p] = past[p] \cup {kind}
BY ConstantsTyped DEF TypeOK, Fault

\* The record of a producer that has made an artifact is one of the records.
LEMMA LatestTyped ==
    ASSUME SpoolInv, NEW p \in pending
    PROVE  p \in Producers /\ <<p, made[p]>> \in Records
BY ConstantsTyped DEF SpoolInv, TypeOK, AppendsUnderWay, Records

LEMMA ReindexingTyped == TypeOK /\ [Next]_vars => reindexing' \in BOOLEAN
BY Zenon DEF TypeOK, Next, vars, Publish, Append, Open, Write, GiveUp, Drain, Rotate, Read, Commit,
             Unlink, Crash, Clear, Walk

LEMMA TypePreserved == SpoolInv /\ [Next]_vars => TypeOK'
<1> SUFFICES ASSUME SpoolInv, [Next]_vars PROVE TypeOK'
    OBVIOUS
<1>0. TypeOK /\ reindexing' \in BOOLEAN
    BY ReindexingTyped DEF SpoolInv
<1> USE <1>0, ConstantsTyped DEF TypeOK, files, producer, supervisor, history
<1>1. ASSUME NEW p \in Producers, Publish(p) PROVE TypeOK'
    BY <1>1 DEF Publish
<1>2. ASSUME NEW p \in Producers, Append(p) PROVE TypeOK'
    BY <1>2, LatestTyped DEF Append, WriteTo
<1>3. ASSUME NEW p \in Producers, Open(p) PROVE TypeOK'
    BY <1>3, FaultTyped DEF Open
<1>4. ASSUME NEW p \in Producers, Write(p) PROVE TypeOK'
    BY <1>4, LatestTyped DEF Write, WriteTo, SpoolInv, AppendsUnderWay
<1>5. ASSUME NEW p \in Producers, GiveUp(p) PROVE TypeOK'
    BY <1>5, FaultTyped, LatestTyped DEF GiveUp
<1>6. CASE Rotate
    BY <1>6 DEF Rotate, Moved, Renamed
<1>7. CASE Read
    BY <1>7, FaultTyped DEF Read
<1>8. CASE Commit
    BY <1>8, FaultTyped DEF Commit, Proceed, Nothing
<1>9. CASE Unlink
    BY <1>9, FaultTyped DEF Unlink, Proceed, Nothing
<1>10. CASE Crash
    BY <1>10, FaultTyped DEF Crash, Nothing
<1>11. CASE Clear
    BY <1>11, FaultTyped DEF Clear
<1>12. CASE Walk
    BY <1>12 DEF Walk, Made
<1>13. CASE UNCHANGED vars
    BY <1>13 DEF vars
<1> QED
    BY <1>1, <1>2, <1>3, <1>4, <1>5, <1>6, <1>7, <1>8, <1>9, <1>10, <1>11, <1>12, <1>13
    DEF Next, Drain

(****************************************************************************)
(* Artifacts and their records                                              *)
(****************************************************************************)
\* A record is appended by an append or a write only, and then the newest of its
\* producer; what is made or appended stays so.
LEMMA AppendedGrows ==
    ASSUME SpoolInv, [Next]_vars
    PROVE  /\ Made \subseteq Made' /\ Appended \subseteq Appended' /\ skipped \subseteq skipped'
           /\ \A r \in Appended' \ Appended :
                 r[1] \in pending /\ r[2] = made[r[1]] /\ (Append(r[1]) \/ Write(r[1]))
           /\ \A r \in skipped' \ skipped : r[1] \in pending /\ r[2] = made[r[1]] /\ GiveUp(r[1])
<1> USE DEF SpoolInv, TypeOK, AppendsUnderWay, Made, Appended, Records
<1>1. ASSUME NEW p \in Producers, Publish(p)
      PROVE  Made \subseteq Made' /\ Appended = Appended' /\ skipped' = skipped
    BY <1>1 DEF Publish
<1>2. ASSUME NEW p \in pending, pending' = pending \ {p}, UNCHANGED <<made, skipped>>
      PROVE  Made' = Made /\ Appended \subseteq Appended' /\ Appended' \subseteq Appended \cup {<<p, made[p]>>}
    BY <1>2
<1>3. ASSUME NEW p \in Producers, Append(p) \/ Write(p)
      PROVE  /\ p \in pending /\ pending' = pending \ {p} /\ UNCHANGED <<made, skipped>>
    BY <1>3 DEF Append, Write, WriteTo
<1>4. ASSUME NEW p \in Producers, GiveUp(p)
      PROVE  Made' = Made /\ Appended' = Appended /\ skipped' = skipped \cup {<<p, made[p]>>} /\ p \in pending
    BY <1>4 DEF GiveUp
<1>5. ASSUME UNCHANGED <<made, pending, skipped>>
      PROVE  Made' = Made /\ Appended' = Appended /\ skipped' = skipped
    BY <1>5
<1>6. ASSUME NEW p \in Producers, Open(p) PROVE UNCHANGED <<made, pending, skipped>>
    BY <1>6 DEF Open
<1>7. CASE Drain \/ Crash \/ Clear \/ Walk \/ UNCHANGED vars
  <2>1. UNCHANGED <<made, pending, skipped>>
    BY <1>7 DEF Drain, Rotate, Read, Commit, Unlink, Crash, Clear, Walk, vars, producer
  <2> QED
    BY <1>5, <2>1
<1> QED
    BY <1>1, <1>2, <1>3, <1>4, <1>5, <1>6, <1>7 DEF Next

\* The record a producer is about to write is newer than all in its files.
LEMMA LatestIsNewest ==
    ASSUME SpoolInv, NEW p \in pending
    PROVE  \A r \in live[p] \cup draining[p] : r[1] = p /\ r[2] < made[p]
BY DEF SpoolInv, TypeOK, FilesInOrder, Appended

LEMMA WrittenIsAppended ==
    ASSUME SpoolInv, NEW p \in pending, pending' = pending \ {p}, UNCHANGED <<made, skipped>>
    PROVE  <<p, made[p]>> \in Appended'
BY LatestTyped, ConstantsTyped DEF SpoolInv, TypeOK, AppendsUnderWay, Appended, Made

(****************************************************************************)
(* The files                                                                *)
(****************************************************************************)
LEMMA FilesPreserved == SpoolInv /\ [Next]_vars => FilesInOrder'
<1> SUFFICES ASSUME SpoolInv, [Next]_vars PROVE FilesInOrder'
    OBVIOUS
<1>0. TypeOK /\ FilesInOrder /\ Appended \subseteq Appended'
    BY AppendedGrows DEF SpoolInv
<1> USE <1>0 DEF TypeOK, FilesInOrder, files, producer, supervisor
<1>1. ASSUME UNCHANGED files PROVE FilesInOrder'
    BY <1>1
<1>2. ASSUME NEW p \in Producers, Append(p) PROVE FilesInOrder'
  <2>1. p \in pending /\ <<p, made[p]>> \in Appended'
    BY <1>2, WrittenIsAppended DEF Append, WriteTo
  <2> QED
    BY <1>2, <2>1, LatestIsNewest DEF Append, WriteTo
<1>3. ASSUME NEW p \in Producers, Open(p) PROVE FilesInOrder'
    BY <1>3 DEF Open
<1>4. ASSUME NEW p \in Producers, Write(p) PROVE FilesInOrder'
  <2>1. p \in pending /\ <<p, made[p]>> \in Appended'
    BY <1>4, WrittenIsAppended DEF Write, WriteTo, SpoolInv, AppendsUnderWay
  <2>2. /\ fd[p] = "live" => "live" \in exists[p]
        /\ fd[p] = "draining" => "draining" \in exists[p] /\ live[p] = {}
    BY DEF SpoolInv, AppendsUnderWay
  <2> QED
    BY <1>4, <2>1, <2>2, LatestIsNewest DEF Write, WriteTo
<1>5. CASE Rotate
    BY <1>5 DEF Rotate, Renamed
<1>6. CASE Unlink
    BY <1>6 DEF Unlink
<1>7. ASSUME NEW p \in Producers, Publish(p) \/ GiveUp(p) PROVE UNCHANGED files
    BY <1>7 DEF Publish, GiveUp
<1>8. CASE Read \/ Commit \/ Crash \/ Clear \/ Walk \/ UNCHANGED vars
    BY <1>8, <1>1 DEF Read, Commit, Crash, Clear, Walk, vars
<1> QED
    BY <1>1, <1>2, <1>3, <1>4, <1>5, <1>6, <1>7, <1>8 DEF Next, Drain

LEMMA AppendsPreserved == SpoolInv /\ [Next]_vars => AppendsUnderWay'
<1> SUFFICES ASSUME SpoolInv, [Next]_vars PROVE AppendsUnderWay'
    OBVIOUS
<1>0. TypeOK /\ AppendsUnderWay /\ FilesInOrder /\ Made \subseteq Made'
    BY AppendedGrows DEF SpoolInv
<1> USE <1>0 DEF TypeOK, AppendsUnderWay, files, producer, supervisor
<1>1. ASSUME UNCHANGED <<files, producer>> PROVE AppendsUnderWay'
    BY <1>1 DEF Made
<1>2. ASSUME NEW p \in Producers, Publish(p) PROVE AppendsUnderWay'
    BY <1>2 DEF Publish, Made
<1>3. ASSUME NEW p \in Producers, Append(p) PROVE AppendsUnderWay'
    BY <1>3 DEF Append, WriteTo
<1>4. ASSUME NEW p \in Producers, Open(p) PROVE AppendsUnderWay'
    BY <1>4 DEF Open
<1>5. ASSUME NEW p \in Producers, Write(p) PROVE AppendsUnderWay'
    BY <1>5 DEF Write, WriteTo
<1>6. ASSUME NEW p \in Producers, GiveUp(p) PROVE AppendsUnderWay'
    BY <1>6, LatestTyped DEF GiveUp, Made
<1>7. CASE Rotate
    BY <1>7 DEF Rotate, Renamed, Moved
<1>8. CASE Unlink
    BY <1>8 DEF Unlink
<1>9. CASE Read \/ Commit \/ Crash \/ Clear \/ Walk \/ UNCHANGED vars
    BY <1>9, <1>1 DEF Read, Commit, Crash, Clear, Walk, vars
<1> QED
    BY <1>2, <1>3, <1>4, <1>5, <1>6, <1>7, <1>8, <1>9 DEF Next, Drain

LEMMA PassPreserved == SpoolInv /\ [Next]_vars => PassUnderWay'
<1> SUFFICES ASSUME SpoolInv, [Next]_vars PROVE PassUnderWay'
    OBVIOUS
<1> USE DEF SpoolInv, TypeOK, PassUnderWay, supervisor
<1>1. ASSUME UNCHANGED supervisor PROVE PassUnderWay'
    BY <1>1
<1>2. CASE \E p \in Producers : Publish(p) \/ Append(p) \/ Open(p) \/ Write(p) \/ GiveUp(p)
    BY <1>1, <1>2 DEF Publish, Append, Open, Write, GiveUp
<1>3. CASE Rotate
    BY <1>3 DEF Rotate
<1>4. CASE Read
    BY <1>4 DEF Read
<1>5. CASE Commit
    BY <1>5 DEF Commit, Proceed
<1>6. CASE Unlink
    BY <1>6 DEF Unlink, Proceed
<1>7. CASE Crash
    BY <1>7 DEF Crash
<1>8. CASE Clear \/ Walk \/ UNCHANGED vars
    BY <1>1, <1>8 DEF Clear, Walk, vars
<1> QED
    BY <1>2, <1>3, <1>4, <1>5, <1>6, <1>7, <1>8 DEF Next, Drain

LEMMA InitSpool == Init => SpoolInv
BY InitTyped DEF Init, SpoolInv, FilesInOrder, AppendsUnderWay, PassUnderWay

LEMMA SpoolPreserved == SpoolInv /\ [Next]_vars => SpoolInv'
BY TypePreserved, FilesPreserved, AppendsPreserved, PassPreserved DEF SpoolInv

\* Every variable of the spool and the index keeps its type.
THEOREM TypeCorrect == Spec => []TypeOK
<1>1. SpoolInv => TypeOK
    BY DEF SpoolInv
<1> QED
    BY <1>1, InitSpool, SpoolPreserved, PTL DEF Spec

(****************************************************************************)
(* A loss is local                                                          *)
(****************************************************************************)
\* A record that is lost by a step was in one of the three places, or is the newest
\* of a producer whose append is under way.
LEMMA NewlyLost ==
    ASSUME SpoolInv, [Next]_vars, NEW r \in Lost', r \notin Lost
    PROVE  /\ r \in Records /\ r[1] \in Producers
           /\ r \notin db' /\ r \notin live'[r[1]] /\ r \notin draining'[r[1]]
           /\ \/ r \in Appended \cup skipped /\ r \in db \cup live[r[1]] \cup draining[r[1]]
              \/ r[1] \in pending /\ r[2] = made[r[1]] /\ (Append(r[1]) \/ Write(r[1]))
              \/ r[1] \in pending /\ r \in skipped' /\ GiveUp(r[1])
<1>1. r \in Made' /\ r \in Records /\ r[1] \in Producers
    BY SpoolPreserved DEF Lost, Appended, SpoolInv, AppendsUnderWay, Made, Records
<1>2. r \notin db' /\ r \notin live'[r[1]] /\ r \notin draining'[r[1]] /\ r \in Appended' \cup skipped'
    BY DEF Lost
<1>3. CASE r \in Appended \cup skipped
    BY <1>1, <1>2, <1>3 DEF Lost
<1> QED
    BY <1>1, <1>2, <1>3, AppendedGrows

\* Where one step loses a record of an artifact.
LossPlace(r) ==
    \/ step = "unlink" /\ current.file = r[1]
    \/ step = "rotate" /\ exists[r[1]] = {"live", "draining"}
    \/ fd[r[1]] = "unlinked"
    \/ r[1] \in pending /\ r \in skipped'
    \/ ~reindexing /\ reindexing' /\ r \in db

LEMMA LossHasPlace ==
    ASSUME SpoolInv, [Next]_vars, NEW r \in Lost', r \notin Lost
    PROVE  LossPlace(r)
<1> DEFINE p == r[1]
<1>0. /\ TypeOK /\ FilesInOrder /\ p \in Producers /\ r = <<p, r[2]>>
      /\ r \notin db' /\ r \notin live'[p] /\ r \notin draining'[p]
    BY NewlyLost DEF SpoolInv, Records
<1>1. CASE r \in Appended \cup skipped /\ r \in db \cup live[p] \cup draining[p]
  <2> USE <1>0, <1>1 DEF files, producer, supervisor, TypeOK
  <2>1. CASE UNCHANGED <<live, draining>> /\ db \subseteq db'
    BY <2>1
  <2>2. ASSUME NEW q \in Producers, Publish(q) \/ Open(q) \/ GiveUp(q) PROVE LossPlace(r)
    BY <2>1, <2>2 DEF Publish, Open, GiveUp
  <2>3. ASSUME NEW q \in Producers, Append(q) \/ Write(q) PROVE LossPlace(r)
    BY <2>3 DEF Append, Write, WriteTo
  <2>4. CASE Rotate
    BY <2>4 DEF Rotate, Renamed, FilesInOrder, LossPlace
  <2>5. CASE Unlink
    BY <2>5 DEF Unlink, LossPlace
  <2>6. CASE Clear
    BY <2>6 DEF Clear, LossPlace
  <2>7. CASE Read \/ Commit \/ Crash \/ Walk \/ UNCHANGED vars
    BY <2>1, <2>7 DEF Read, Commit, Crash, Walk, vars
  <2> QED
    BY <2>2, <2>3, <2>4, <2>5, <2>6, <2>7 DEF Next, Drain
<1>2. CASE r[2] = made[p] /\ (Append(p) \/ Write(p))
    BY <1>0, <1>2 DEF Append, Write, WriteTo, TypeOK, LossPlace
<1>3. CASE p \in pending /\ r \in skipped'
    BY <1>3 DEF LossPlace
<1> QED
    BY <1>1, <1>2, <1>3, NewlyLost

\* Any one step of any actor loses records of one producer only, where a file is
\* removed, replaced or already gone, or, by a reindex, indexed ones.
THEOREM LossStaysLocal == Spec => LossIsLocal
<1>1. SpoolInv /\ [Next]_vars =>
        [\A r \in Lost' \ Lost :
           \/ step = "unlink" /\ current.file = r[1]
           \/ step = "rotate" /\ exists[r[1]] = {"live", "draining"}
           \/ fd[r[1]] = "unlinked"
           \/ r[1] \in pending /\ r \in skipped'
           \/ ~reindexing /\ reindexing' /\ r \in db]_vars
    BY LossHasPlace DEF LossPlace
<1> QED
    BY <1>1, InitSpool, SpoolPreserved, PTL DEF Spec, LossIsLocal

(****************************************************************************)
(* A loss has a cause                                                       *)
(****************************************************************************)
\* What a walk of the stores leaves of a past.
LEMMA PastKept ==
    ASSUME SpoolInv, [Next]_vars, NEW p \in Producers
    PROVE  \/ past[p] \subseteq past'[p]
           \/ Walk /\ p \in SelfDescribing /\ past'[p] = {}
<1> USE DEF SpoolInv, TypeOK, history
<1>1. ASSUME NEW kind, Fault(kind) PROVE past[p] \subseteq past'[p]
    BY <1>1, FaultTyped
<1>2. CASE \E q \in Producers : Publish(q) \/ Append(q) \/ Open(q) \/ Write(q) \/ GiveUp(q)
    BY <1>1, <1>2 DEF Publish, Append, Open, Write, GiveUp
<1>3. CASE Drain
    BY <1>1, <1>3 DEF Drain, Rotate, Read, Commit, Unlink
<1>4. CASE Crash \/ Clear
    BY <1>1, <1>4 DEF Crash, Clear
<1>5. CASE Walk
    BY <1>5 DEF Walk
<1>6. CASE UNCHANGED vars
    BY <1>6 DEF vars
<1> QED
    BY <1>2, <1>3, <1>4, <1>5, <1>6 DEF Next

\* A walk indexes what the producers of the shared stores have made.
LEMMA WalkIndexes ==
    ASSUME SpoolInv, Walk
    PROVE  /\ \A p \in SelfDescribing : Indexed(p)'
           /\ db \subseteq db'
BY DEF Walk, Indexed, producer, Made

\* The index shrinks by a clear only, which leaves its trace.
LEMMA IndexKept ==
    ASSUME SpoolInv, [Next]_vars, NEW p \in Producers, "clear" \notin past'[p]
    PROVE  db \subseteq db'
<1> USE DEF SpoolInv, TypeOK, files, producer, supervisor
<1>1. CASE \E q \in Producers : Publish(q) \/ Append(q) \/ Open(q) \/ Write(q) \/ GiveUp(q)
    BY <1>1 DEF Publish, Append, Open, Write, GiveUp
<1>2. CASE Drain \/ Crash
    BY <1>2 DEF Drain, Rotate, Read, Commit, Unlink, Crash
<1>3. CASE Clear
    BY <1>3, FaultTyped DEF Clear
<1>4. CASE Walk \/ UNCHANGED vars
    BY <1>4, WalkIndexes DEF vars
<1> QED
    BY <1>1, <1>2, <1>3, <1>4 DEF Next

\* Once its artifacts are indexed, nothing of a producer waits in its files.
LEMMA IndexedFiles ==
    ASSUME SpoolInv, NEW p \in Producers, Indexed(p)
    PROVE  live[p] \subseteq db /\ draining[p] \subseteq db
BY DEF SpoolInv, FilesInOrder, Indexed, Appended

LEMMA TracesPreserved == SpoolInv /\ TracesOfDelay /\ [Next]_vars => TracesOfDelay'
<1> SUFFICES ASSUME SpoolInv, TracesOfDelay, [Next]_vars,
                    NEW p \in Producers, past'[p] \cap {"delay", "clear"} = {}
             PROVE  /\ fd'[p] # "closed" => Indexed(p)'
                    /\ "live" \in exists'[p] /\ live'[p] = {} => draining'[p] \subseteq db'
    BY DEF TracesOfDelay
<1>1. CASE Walk /\ p \in SelfDescribing
    BY <1>1, WalkIndexes, SpoolPreserved DEF SpoolInv, FilesInOrder, Indexed, Appended
<1>2. CASE past[p] \subseteq past'[p]
  <2>1. /\ TypeOK /\ FilesInOrder /\ AppendsUnderWay /\ db \subseteq db'
        /\ fd[p] # "closed" => Indexed(p)
        /\ "live" \in exists[p] /\ live[p] = {} => draining[p] \subseteq db
    BY <1>2, IndexKept DEF SpoolInv, TracesOfDelay
  <2> USE <2>1 DEF TypeOK, files, producer, supervisor
  <2>2. ASSUME UNCHANGED <<files, made, fd>>
        PROVE  /\ fd'[p] # "closed" => Indexed(p)'
               /\ "live" \in exists'[p] /\ live'[p] = {} => draining'[p] \subseteq db'
    BY <2>2 DEF Indexed, Made
  <2>3. ASSUME NEW q \in Producers, Publish(q)
        PROVE  /\ fd'[p] # "closed" => Indexed(p)'
               /\ "live" \in exists'[p] /\ live'[p] = {} => draining'[p] \subseteq db'
    BY <2>3 DEF Publish, AppendsUnderWay, Indexed, Made, Records
  <2>4. ASSUME NEW q \in Producers, Append(q)
        PROVE  /\ fd'[p] # "closed" => Indexed(p)'
               /\ "live" \in exists'[p] /\ live'[p] = {} => draining'[p] \subseteq db'
    BY <2>4 DEF Append, WriteTo, Indexed, Made
  <2>5. ASSUME NEW q \in Producers, Open(q)
        PROVE  FALSE
    BY <2>5, FaultTyped DEF Open
  <2>6. ASSUME NEW q \in Producers, Write(q)
        PROVE  /\ fd'[p] # "closed" => Indexed(p)'
               /\ "live" \in exists'[p] /\ live'[p] = {} => draining'[p] \subseteq db'
    BY <2>6 DEF Write, WriteTo, Indexed, Made, AppendsUnderWay
  <2>7. ASSUME NEW q \in Producers, GiveUp(q)
        PROVE  /\ fd'[p] # "closed" => Indexed(p)'
               /\ "live" \in exists'[p] /\ live'[p] = {} => draining'[p] \subseteq db'
    BY <2>7 DEF GiveUp, Indexed, Made
  <2>8. CASE Rotate
    BY <2>8 DEF Rotate, Renamed, Moved, Indexed, Made, FilesInOrder
  <2>9. CASE Unlink
    BY <2>9 DEF Unlink, Indexed, Made
  <2>10. CASE Read \/ Commit \/ Crash \/ Clear \/ Walk \/ UNCHANGED vars
    BY <2>2, <2>10 DEF Read, Commit, Crash, Clear, Walk, vars
  <2> QED
    BY <2>3, <2>4, <2>5, <2>6, <2>7, <2>8, <2>9, <2>10 DEF Next, Drain
<1> QED
    BY <1>1, <1>2, PastKept

LEMMA DrainPreserved == SpoolInv /\ TracesOfDelay /\ DrainUnderWay /\ [Next]_vars => DrainUnderWay'
<1> SUFFICES ASSUME SpoolInv, TracesOfDelay, DrainUnderWay, [Next]_vars,
                    NEW p \in Producers, past'[p] \cap {"read", "delay", "clear"} = {}
             PROVE  /\ step' = "commit" /\ current'.file = p => draining'[p] \subseteq current'.records \cup db'
                    /\ step' = "unlink" /\ current'.file = p => draining'[p] \subseteq db'
                    /\ \/ draining'[p] \subseteq db'
                       \/ past'[p] \cap {"crash", "store"} # {}
                       \/ step' # "rotate" /\ p \in todo'
    BY DEF DrainUnderWay
<1> DEFINE Goal == /\ step' = "commit" /\ current'.file = p => draining'[p] \subseteq current'.records \cup db'
                   /\ step' = "unlink" /\ current'.file = p => draining'[p] \subseteq db'
                   /\ \/ draining'[p] \subseteq db'
                      \/ past'[p] \cap {"crash", "store"} # {}
                      \/ step' # "rotate" /\ p \in todo'
<1>1. CASE Walk /\ p \in SelfDescribing
    BY <1>1, WalkIndexes, SpoolPreserved DEF SpoolInv, FilesInOrder, Indexed, Appended
<1>2. CASE past[p] \subseteq past'[p]
  <2>1. /\ TypeOK /\ FilesInOrder /\ PassUnderWay /\ db \subseteq db'
        /\ fd[p] # "closed" => Indexed(p)
        /\ step = "commit" /\ current.file = p => draining[p] \subseteq current.records \cup db
        /\ step = "unlink" /\ current.file = p => draining[p] \subseteq db
        /\ \/ draining[p] \subseteq db
           \/ past[p] \cap {"crash", "store"} # {}
           \/ step # "rotate" /\ p \in todo
    BY <1>2, IndexKept DEF SpoolInv, TracesOfDelay, DrainUnderWay
  <2> USE <1>2, <2>1 DEF TypeOK, files, producer, supervisor
  <2>2. ASSUME draining'[p] = draining[p] \/ draining'[p] \subseteq db', UNCHANGED supervisor PROVE Goal
    BY <2>2
  <2>3. ASSUME NEW q \in Producers, Publish(q) \/ Append(q) \/ Open(q) \/ GiveUp(q) PROVE Goal
    BY <2>2, <2>3 DEF Publish, Append, WriteTo, Open, GiveUp
  <2>4. ASSUME NEW q \in Producers, Write(q) PROVE Goal
    <3>1. CASE q = p
      <4>1. <<p, made[p]>> \in Made
        BY <2>4, <3>1, LatestTyped DEF Write, SpoolInv, AppendsUnderWay, Made, Records
      <4>2. Indexed(p) /\ draining[p] \subseteq db /\ <<p, made[p]>> \in db
        BY <2>4, <3>1, <4>1, IndexedFiles DEF Write, Indexed
      <4> QED
        BY <2>2, <2>4, <3>1, <4>2 DEF Write, WriteTo
    <3>2. CASE q # p
      BY <2>2, <2>4, <3>2 DEF Write, WriteTo
    <3> QED
      BY <3>1, <3>2
  <2>5. CASE Rotate
    BY <2>5 DEF Rotate, Renamed, PassUnderWay
  <2>6. CASE Read
    BY <2>6, FaultTyped DEF Read, history
  <2>7. CASE Commit
    <3>1. CASE db' = db \cup current.records /\ step' = "unlink" /\ UNCHANGED <<todo, current>>
      BY <2>7, <3>1 DEF Commit
    <3>2. CASE Fault("store") /\ Proceed
      <4>1. "store" \in past'[p] /\ step' \in {"rotate", "read"}
        BY <3>2, FaultTyped DEF Proceed
      <4> QED
        BY <4>1
    <3> QED
      BY <2>7, <3>1, <3>2 DEF Commit
  <2>8. CASE Unlink
    BY <2>8, FaultTyped DEF Unlink, Proceed, history, Nothing
  <2>9. CASE Crash
    BY <2>9, FaultTyped DEF Crash
  <2>10. CASE Clear \/ Walk \/ UNCHANGED vars
    BY <2>2, <2>10 DEF Clear, Walk, vars
  <2> QED
    BY <2>3, <2>4, <2>5, <2>6, <2>7, <2>8, <2>9, <2>10 DEF Next, Drain
<1> QED
    BY <1>1, <1>2, PastKept

\* A record goes unindexed from the files with a rename only, over a file that was
\* left behind and by one that holds newer records.
LEMMA DroppedIsReplaced ==
    ASSUME CauseInv, [Next]_vars, NEW p \in Producers, NEW r \in live[p] \cup draining[p],
           r \notin db', r \notin live'[p], r \notin draining'[p],
           past[p] \subseteq past'[p], past'[p] \cap {"read", "delay", "clear"} = {}
    PROVE  /\ past[p] \cap {"crash", "store"} # {}
           /\ \E q \in Appended : q[1] = p /\ q[2] > r[2]
<1>1. /\ TypeOK /\ FilesInOrder /\ PassUnderWay /\ db \subseteq db' /\ r \notin db
      /\ past[p] \cap {"read", "delay", "clear"} = {}
    BY IndexKept DEF CauseInv, SpoolInv
<1> USE <1>1 DEF TypeOK, files, producer, supervisor
<1>2. CASE Rotate
  <2>1. "live" \in exists[p] /\ r \in draining[p] /\ step = "rotate"
    BY <1>2 DEF Rotate, Renamed, FilesInOrder
  <2>2. PICK q \in live[p] : TRUE
    BY <2>1 DEF CauseInv, TracesOfDelay
  <2>3. q \in Appended /\ q[1] = p /\ r[2] < q[2] /\ q \in Records /\ r \in Records
    BY <2>1, <2>2 DEF FilesInOrder
  <2>4. q[2] > r[2]
    BY <2>3, ConstantsTyped DEF Records
  <2>5. past[p] \cap {"crash", "store"} # {}
    BY <2>1 DEF CauseInv, DrainUnderWay
  <2> QED
    BY <2>3, <2>4, <2>5
<1>3. CASE Unlink
    BY <1>3 DEF Unlink, CauseInv, DrainUnderWay
<1>4. CASE \E q \in Producers : Publish(q) \/ Append(q) \/ Open(q) \/ Write(q) \/ GiveUp(q)
    BY <1>4 DEF Publish, Append, Open, Write, GiveUp, WriteTo
<1>5. CASE Read \/ Commit \/ Crash \/ Clear \/ Walk \/ UNCHANGED vars
    BY <1>5 DEF Read, Commit, Crash, Clear, Walk, vars
<1> QED
    BY <1>2, <1>3, <1>4, <1>5 DEF Next, Drain

LEMMA CausePreserved == CauseInv /\ [Next]_vars => LossHasCause'
<1> SUFFICES ASSUME CauseInv, [Next]_vars, NEW r \in Lost',
                    past'[r[1]] \cap {"read", "delay", "clear"} = {}
             PROVE  \/ "norecord" \in past'[r[1]] /\ r \in skipped'
                    \/ /\ past'[r[1]] \cap {"crash", "store"} # {}
                       /\ \E q \in Appended' : q[1] = r[1] /\ q[2] > r[2]
    BY DEF LossHasCause
<1> DEFINE p == r[1]
<1>0. /\ SpoolInv /\ TypeOK /\ p \in Producers /\ r \in Made' /\ r = <<p, r[2]>>
      /\ r \notin db' /\ r \notin live'[p] /\ r \notin draining'[p]
      /\ Appended \subseteq Appended' /\ skipped \subseteq skipped'
    BY SpoolPreserved, AppendedGrows
    DEF CauseInv, SpoolInv, AppendsUnderWay, Lost, Appended, Made, Records
<1>1. CASE Walk /\ p \in SelfDescribing
    BY <1>0, <1>1, WalkIndexes DEF Indexed
<1>2. CASE past[p] \subseteq past'[p]
  <2>1. CASE r \in Lost
    BY <1>0, <1>2, <2>1 DEF CauseInv, LossHasCause
  <2>2. CASE r \in db \cup live[p] \cup draining[p]
    BY <1>0, <1>2, <2>2, IndexKept, DroppedIsReplaced
  <2>3. CASE p \in pending /\ r[2] = made[p] /\ (Append(p) \/ Write(p))
    <3>1. Write(p) /\ fd[p] # "closed"
      BY <1>0, <2>3 DEF Append, Write, WriteTo, TypeOK
    <3>2. Indexed(p) /\ r \in Made /\ db' = db
      BY <1>0, <1>2, <2>3, <3>1, LatestTyped DEF Write, CauseInv, TracesOfDelay, Made, Records
    <3> QED
      BY <1>0, <3>2 DEF Indexed
  <2>4. CASE r \in skipped' /\ GiveUp(p)
    BY <1>0, <2>4, FaultTyped DEF GiveUp
  <2> QED
    BY <1>0, <2>1, <2>2, <2>3, <2>4, NewlyLost
<1> QED
    BY <1>0, <1>1, <1>2, PastKept

\* An artifact missing from the index has one of the causes named, each since the
\* last walk of the stores: without one, a made artifact is indexed or waits in a
\* file that will be drained.
THEOREM LossStaysCaused == Spec => []LossHasCause
<1>1. Init => CauseInv
    BY InitSpool DEF Init, CauseInv, TracesOfDelay, DrainUnderWay, LossHasCause, Lost, Appended,
       Made, Records
<1>2. CauseInv /\ [Next]_vars => CauseInv'
    BY SpoolPreserved, TracesPreserved, DrainPreserved, CausePreserved DEF CauseInv
<1>3. CauseInv => LossHasCause
    BY DEF CauseInv
<1> QED
    BY <1>1, <1>2, <1>3, PTL DEF Spec
=============================================================================
