----------------------------- MODULE CellPipeline -----------------------------
(****************************************************************************)
(* The threads of ps1_process that turn raw PS1 cells into published cells  *)
(* and convolved rows (ps1_process.py):                                     *)
(*                                                                          *)
(*   tasks -> ingest -> rawQ -> band combiners -> combQ -> coordinator      *)
(*         -> SEP processes -> coordinator -> (store) and outQ -> main      *)
(*                                                                          *)
(* The run has one of two modes.  "publish" (skip_convolved) ends with the  *)
(* cells in the store: main waits for every thread in turn and then counts  *)
(* what is missing.  "rows" has main assemble the rows of one projection    *)
(* after the other from outQ and from the band cache, and load by itself    *)
(* what did not come in time.                                               *)
(*                                                                          *)
(* The threads of a kind are alike, so a set of busy ones and a count stand *)
(* for them.  Pixels, headers and catalogues are left out.                  *)
(****************************************************************************)
EXTENDS Naturals, FiniteSets, Sequences, SequencesExt

CONSTANTS
    RowSeq,         \* the rows in the order main takes them, projection by projection
    ProjOf,         \* the projection of each row
    RowCells,       \* the cells of each row
    Padding,        \* row_padding_map: cells of other projections a row step reads
    Modes,          \* the modes a run can have: publish, rows
    InStore,        \* sets of cells the store may hold at the start
    NotInArchive,   \* sets of cells PS1 may not have (HTTP 404 in every band)
    Readers,        \* num_ingest_workers
    Combiners,      \* num_band_combiners
    RawCap,         \* maxsize of raw_cell_queue
    CombCap,        \* maxsize of combined_raw_queue
    OutCap,         \* maxsize of combined_cell_queue
    ResCap,         \* maxsize of results_queue
    Throttle,       \* MAX_TOTAL_PENDING_WORK
    WriteCap,       \* max_pending of the band publish pool
    FaultKinds,     \* fetch, combine, sep, publish, pool, row, conflict, slow, saver
    MaxFaults       \* bound on the faults of one run

Rows == ToSet(RowSeq)
Steps == DOMAIN RowSeq
Cells == UNION {RowCells[r] \cup Padding[r] : r \in Rows}
Regular == UNION {RowCells[r] : r \in Rows}
None == [cell |-> "none", row |-> "none", kind |-> "sentinel"]

ASSUME CellPipelineAssumption ==
    /\ Modes \subseteq {"publish", "rows"}
    /\ {Readers, RawCap, CombCap, OutCap, ResCap, Throttle, WriteCap} \subseteq Nat \ {0}
    /\ Combiners \in 1 .. RawCap
    /\ MaxFaults \in Nat
    /\ RowSeq \in Seq(Rows)
    /\ \A r \in Rows : IsFiniteSet(RowCells[r] \cup Padding[r])
    \* A cell has one projection and one y, and is in that row only.
    /\ \A i, j \in Steps : i # j => RowCells[RowSeq[i]] \cap RowCells[RowSeq[j]] = {}

VARIABLES
    mode,         \* what the run is for
    archive,      \* the cells PS1 has
    tasks,        \* task_queue, up to the sentinels of the readers
    reading,      \* tasks in the hands of ingest workers
    rawQ,         \* raw_cell_queue
    combining,    \* bundles in the hands of band combiners
    alive,        \* band combiners that have not met their sentinel
    sentinels,    \* sentinels combiners have still to put into combQ
    combQ,        \* combined_raw_queue
    coord,        \* the coordinator: loop, drain or done
    active,       \* tasks whose SEP future the coordinator has not collected
    pending,      \* pending_results
    outQ,         \* combined_cell_queue
    writing,      \* band cells queued in the band publish pool
    published,    \* cells in the combined store
    absent,       \* cells recorded as absent from PS1
    cache,        \* band_cache
    uses,         \* band_cache_uses; 0 stands for no entry
    arrived,      \* cells main took from outQ: gathered or in cell_buffer
    placed,       \* cells placed into the array of their row
    manual,       \* cells main loaded by itself
    assembled,    \* rows put together
    step,         \* position of main in RowSeq
    pc,           \* what main does
    sent,         \* sentinels main has put into rawQ
    results,      \* results_queue: rows, then the end
    saver,        \* the saver thread: open, gone (could not open) or done
    lost,         \* history: cells a fault made a thread drop
    past          \* history: the faults there have been

front == <<tasks, reading, rawQ, combining, alive, sentinels, combQ>>
back  == <<coord, active, pending, outQ, writing>>
store == <<published, absent, cache, uses>>
main  == <<arrived, placed, manual, assembled, step, pc, sent>>
tail  == <<results, saver>>
past0 == <<mode, archive>>
vars  == <<front, back, store, main, tail, past0, lost, past>>

(****************************************************************************)
(* The task list                                                            *)
(****************************************************************************)
SameProj(i, j) == ProjOf[RowSeq[i]] = ProjOf[RowSeq[j]]
LastOfProj(i) == i = Len(RowSeq) \/ ~SameProj(i, i + 1)

Task(c, i, kind) == [cell |-> c, row |-> RowSeq[i], kind |-> kind]
RegularTasks(i) == {Task(c, i, "regular") : c \in RowCells[RowSeq[i]]}

\* The padding sources of step i no earlier step of the projection has dispatched.
PaddingTasks(i) ==
    {Task(c, i, "padding_source") :
        c \in Padding[RowSeq[i]] \ UNION {Padding[RowSeq[j]] : j \in {j \in 1 .. i - 1 : SameProj(i, j)}}}

\* A row, then the padding of the step before it; the last row's padding follows it.
InterleavedTasks ==
    FlattenSeq([i \in Steps |->
        SetToSeq(RegularTasks(i))
        \o (IF i > 1 /\ SameProj(i, i - 1) THEN SetToSeq(PaddingTasks(i - 1)) ELSE <<>>)
        \o (IF LastOfProj(i) THEN SetToSeq(PaddingTasks(i)) ELSE <<>>)])

\* skip_convolved: each cell once, the padding sources after the cells of the rows.
PublishTasks ==
    FlattenSeq([i \in Steps |-> SetToSeq(RegularTasks(i))])
    \o SetToSeq({Task(c, 1, "padding_source") : c \in Cells \ Regular})

PaddingSteps(c) == Cardinality({i \in Steps : c \in Padding[RowSeq[i]]})
NoDualRole(c) == 0
DualRole(c) == IF c \in Regular THEN 1 ELSE 0
CacheUses(c) == IF PaddingSteps(c) = 0 THEN 0 ELSE PaddingSteps(c) + DualRole(c)

Init ==
    /\ mode \in Modes
    /\ \E gone \in NotInArchive : archive = Cells \ gone
    /\ tasks = IF mode = "publish" THEN PublishTasks ELSE InterleavedTasks
    /\ published \in {s \in InStore : s \subseteq archive}
    /\ reading = {} /\ rawQ = <<>> /\ combining = {} /\ alive = Combiners /\ sentinels = 0
    /\ combQ = <<>> /\ coord = "loop" /\ active = {} /\ pending = <<>> /\ outQ = <<>>
    /\ writing = {} /\ absent = {} /\ cache = {}
    /\ uses = [c \in Cells |-> CacheUses(c)]
    /\ arrived = {} /\ placed = {} /\ manual = {} /\ assembled = {}
    /\ step = 1 /\ sent = 0
    /\ pc = CASE mode = "publish" -> "ingest"
               [] mode = "rows" /\ RowSeq # <<>> -> "current"
               [] mode = "rows" /\ RowSeq = <<>> -> "end"
    /\ results = <<>>
    /\ saver \in {"open"} \cup (IF mode = "rows" THEN {"gone"} ELSE {})
    /\ saver = "gone" => "saver" \in FaultKinds
    /\ past = IF saver = "gone" THEN {"saver"} ELSE {}
    /\ lost = {}

-----------------------------------------------------------------------------
Fault(k) ==
    /\ k \in FaultKinds \ past
    /\ Cardinality(past) < MaxFaults
    /\ past' = past \cup {k}

Lose(c) == lost' = lost \cup {c}

(****************************************************************************)
(* Ingest workers.  A reader leaves when the task queue holds sentinels     *)
(* only.  The tests that make a task a hit or a skip are done when it is    *)
(* taken; the fetch is over when its bundle can be put.                     *)
(****************************************************************************)
StoreHit(t) == mode = "rows" /\ t.kind = "regular" /\ t.cell \in cache \cup published
AlreadyDone(t) == mode = "publish" /\ t.cell \in published \cup absent

TakeTask ==
    /\ tasks # <<>>
    /\ Cardinality(reading) < Readers
    /\ tasks' = Tail(tasks)
    /\ LET t == Head(tasks) IN
        /\ reading' = CASE AlreadyDone(t) -> reading
                        [] StoreHit(t) -> reading \cup {[t EXCEPT !.kind = "regular_cache_hit"]}
                        [] OTHER -> reading \cup {t}
        /\ cache' = IF StoreHit(t) THEN cache \cup {t.cell} ELSE cache
    /\ UNCHANGED <<rawQ, combining, alive, sentinels, combQ, back, published, absent, uses, main, tail,
                   past0, lost, past>>

IsHit(t) == t.kind = "regular_cache_hit"

PutRaw(t) ==
    /\ IsHit(t) \/ t.cell \in archive
    /\ Len(rawQ) < RawCap
    /\ reading' = reading \ {t}
    /\ rawQ' = Append(rawQ, t)
    /\ UNCHANGED <<tasks, combining, alive, sentinels, combQ, back, store, main, tail, past0, lost, past>>

\* Every band answered 404: recorded under skip_convolved, else skipped.
FindAbsent(t) ==
    /\ ~IsHit(t) /\ t.cell \notin archive
    /\ reading' = reading \ {t}
    /\ absent' = IF mode = "publish" THEN absent \cup {t.cell} ELSE absent
    /\ UNCHANGED <<tasks, rawQ, combining, alive, sentinels, combQ, back, published, cache, uses, main, tail,
                   past0, lost, past>>

\* A transient band failure, or an exception of the fetch: the cell is not queued.
FailFetch(t) ==
    /\ ~IsHit(t)
    /\ Fault("fetch")
    /\ reading' = reading \ {t}
    /\ Lose(t.cell)
    /\ UNCHANGED <<tasks, rawQ, combining, alive, sentinels, combQ, back, store, main, tail, past0>>

Ingest == TakeTask \/ \E t \in reading : PutRaw(t) \/ FindAbsent(t) \/ FailFetch(t)

(****************************************************************************)
(* Band combiners.  A combiner ends at its sentinel.  In rows mode each one *)
(* forwards it; under skip_convolved only the last of them to end does, so  *)
(* that what the others still combine is queued before it.                  *)
(****************************************************************************)
EveryoneForwards == 1
Forwards == IF mode = "publish" THEN (IF alive = 1 THEN 1 ELSE 0) ELSE 1

TakeRaw ==
    /\ rawQ # <<>>
    /\ Cardinality(combining) < alive
    /\ rawQ' = Tail(rawQ)
    /\ IF Head(rawQ) = None
         THEN /\ alive' = alive - 1
              /\ sentinels' = sentinels + Forwards
              /\ UNCHANGED combining
         ELSE /\ combining' = combining \cup {Head(rawQ)}
              /\ UNCHANGED <<alive, sentinels>>
    /\ UNCHANGED <<tasks, reading, combQ, back, store, main, tail, past0, lost, past>>

PutCombined(t) ==
    /\ Len(combQ) < CombCap
    /\ combining' = combining \ {t}
    /\ combQ' = Append(combQ, t)
    /\ UNCHANGED <<tasks, reading, rawQ, alive, sentinels, back, store, main, tail, past0, lost, past>>

FailCombine(t) ==
    /\ ~IsHit(t)
    /\ Fault("combine")
    /\ combining' = combining \ {t}
    /\ Lose(t.cell)
    /\ UNCHANGED <<tasks, reading, rawQ, alive, sentinels, combQ, back, store, main, tail, past0>>

ForwardSentinel ==
    /\ sentinels > 0
    /\ Len(combQ) < CombCap
    /\ sentinels' = sentinels - 1
    /\ combQ' = Append(combQ, None)
    /\ UNCHANGED <<tasks, reading, rawQ, combining, alive, back, store, main, tail, past0, lost, past>>

Combine == TakeRaw \/ ForwardSentinel \/ \E t \in combining : PutCombined(t) \/ FailCombine(t)

(****************************************************************************)
(* SEP processes.  Once their pool is broken every unfinished future fails. *)
(****************************************************************************)
Broken == "pool" \in past

BreakPool ==
    /\ ~Broken /\ coord # "done"
    /\ Fault("pool")
    /\ UNCHANGED <<front, back, store, main, tail, past0, lost>>

(****************************************************************************)
(* The coordinator.  Its loop flushes pending results, collects and         *)
(* publishes finished futures, and takes a bundle unless too much work is   *)
(* under way; after the sentinel or an exception it drains what it started. *)
(****************************************************************************)
Flush ==
    /\ coord # "done"
    /\ pending # <<>> /\ Len(outQ) < OutCap
    /\ outQ' = Append(outQ, Head(pending))
    /\ pending' = Tail(pending)
    /\ UNCHANGED <<front, coord, active, writing, store, main, tail, past0, lost, past>>

\* The store copy of a result: band cells go to the pool under skip_convolved.
Publish(c) ==
    \/ /\ mode = "publish"
       /\ Cardinality(writing) < WriteCap
       /\ writing' = writing \cup {c}
       /\ UNCHANGED <<published, lost, past>>
    \/ /\ mode = "rows"
       /\ published' = published \cup {c}
       /\ UNCHANGED <<writing, lost, past>>
    \/ /\ Fault("publish")
       /\ lost' = IF mode = "publish" THEN lost \cup {c} ELSE lost
       /\ UNCHANGED <<published, writing>>

\* What is kept of a result for main; skip_convolved keeps nothing.
Keep(t) ==
    /\ cache' = IF mode = "rows" /\ t.kind = "padding_source" THEN cache \cup {t.cell} ELSE cache
    /\ pending' = IF mode = "rows" /\ t.kind # "padding_source" THEN Append(pending, t.cell) ELSE pending

\* A future that ended well is published and kept, one that failed or gave None is logged.
Collect(t) ==
    /\ coord # "done"
    /\ active' = active \ {t}
    /\ \/ Publish(t.cell) /\ Keep(t)
       \/ /\ Fault("sep") \/ (Broken /\ UNCHANGED past)
          /\ Lose(t.cell)
          /\ UNCHANGED <<published, cache, pending, writing>>
    /\ UNCHANGED <<front, coord, outQ, absent, uses, main, tail, past0>>

TakeCombined ==
    /\ coord = "loop"
    /\ combQ # <<>>
    /\ Cardinality(active) + Len(outQ) < Throttle
    /\ combQ' = Tail(combQ)
    /\ LET t == Head(combQ) IN
         CASE t = None ->
                coord' = "drain" /\ UNCHANGED <<active, pending, published, lost, past, writing, cache>>
           [] IsHit(t) /\ t.cell \in cache ->
                Publish(t.cell) /\ Keep(t) /\ UNCHANGED <<coord, active>>
           [] IsHit(t) /\ t.cell \notin cache ->
                Lose(t.cell) /\ UNCHANGED <<coord, active, pending, published, past, writing, cache>>
           [] t # None /\ ~IsHit(t) /\ Broken ->
                coord' = "drain" /\ Lose(t.cell)
                /\ UNCHANGED <<active, pending, published, past, writing, cache>>
           [] t # None /\ ~IsHit(t) /\ ~Broken ->
                active' = active \cup {t}
                /\ UNCHANGED <<coord, pending, published, lost, past, writing, cache>>
    /\ UNCHANGED <<tasks, reading, rawQ, combining, alive, sentinels, outQ, absent, uses, main, tail, past0>>

\* future.result(timeout) of the drain gives a hung worker up.
GiveUpFuture(t) ==
    /\ coord = "drain"
    /\ Fault("slow")
    /\ active' = active \ {t}
    /\ Lose(t.cell)
    /\ UNCHANGED <<front, coord, pending, outQ, writing, store, main, tail, past0>>

\* A put(timeout=5) that found combined_cell_queue full ends the drain of results.
GiveUpResults ==
    /\ coord = "drain" /\ active = {}
    /\ pending # <<>> /\ Len(outQ) = OutCap
    /\ lost' = lost \cup ToSet(pending)
    /\ pending' = <<>>
    /\ UNCHANGED <<front, coord, active, outQ, writing, store, main, tail, past0, past>>

\* _BandPublishPool: close waits for every write.
NotWaited == TRUE
PoolClosed == writing = {}

EndCoordinator ==
    /\ coord = "drain" /\ active = {} /\ pending = <<>>
    /\ PoolClosed
    /\ coord' = "done"
    /\ UNCHANGED <<front, active, pending, outQ, writing, store, main, tail, past0, lost, past>>

WriteBandCells(c) ==
    /\ writing' = writing \ {c}
    /\ \/ published' = published \cup {c} /\ UNCHANGED <<lost, past>>
       \/ Fault("publish") /\ Lose(c) /\ UNCHANGED published
    /\ UNCHANGED <<front, coord, active, pending, outQ, absent, cache, uses, main, tail, past0>>

Coordinate ==
    \/ Flush \/ TakeCombined \/ GiveUpResults \/ EndCoordinator
    \/ \E t \in active : Collect(t) \/ GiveUpFuture(t)
    \/ \E c \in writing : WriteBandCells(c)

(****************************************************************************)
(* Main, rows mode.  The first row of a projection is gathered as the       *)
(* current one, every other row as the next one of the step before it.      *)
(****************************************************************************)
Row == RowSeq[step]
Wanted == IF pc = "next" THEN RowCells[RowSeq[step + 1]] ELSE RowCells[Row]
Gathering == pc \in {"current", "next"}

Upstream == (ToSet(tasks) \cup reading \cup ToSet(rawQ) \cup combining \cup ToSet(combQ)) \ {None}

\* A result of this kind for c is still to come.
InFlight(c, padding) ==
    LET Brings(t) == t.cell = c /\ (t.kind = "padding_source") = padding IN
    \/ coord = "loop" /\ \E t \in Upstream : Brings(t)
    \/ coord # "done" /\ \E t \in active : Brings(t)
    \/ ~padding /\ (c \in ToSet(outQ) \/ (coord # "done" /\ c \in ToSet(pending)))

\* 180 s without an arrival: due when nothing more can arrive, early when the threads are slow.
TimesOut(cells, padding) ==
    \/ (\A c \in cells : ~InFlight(c, padding)) /\ UNCHANGED past
    \/ (\E c \in cells : InFlight(c, padding)) /\ Fault("slow")

\* _manually_process_cell for each of the cells; it fails for what PS1 does not have or send.
NoFallback(cells, loaded) == loaded = {} /\ UNCHANGED manual
LoadManually(cells, loaded) ==
    /\ loaded \subseteq cells \cap archive
    /\ loaded = cells \cap archive \/ "fetch" \in past
    /\ manual' = manual \cup cells

\* While it gathers a row and while it waits for padding, main empties the queue:
\* a bundle of another row is kept in cell_buffer.
GathersOnly == Gathering /\ ~(Wanted \subseteq arrived)
Drains ==
    \/ Gathering /\ ~(Wanted \subseteq arrived)
    \/ pc = "padding" /\ ~(Padding[Row] \subseteq cache)

Receive ==
    /\ outQ # <<>>
    /\ Drains
    /\ arrived' = arrived \cup {Head(outQ)}
    /\ outQ' = Tail(outQ)
    /\ UNCHANGED <<front, coord, active, pending, writing, store, placed, manual, assembled, step, pc, sent,
                   tail, past0, lost, past>>

AssembleRow(cells) ==
    /\ placed' = placed \cup cells
    /\ assembled' = assembled \cup {IF pc = "next" THEN RowSeq[step + 1] ELSE Row}
    /\ pc' = IF pc = "current" /\ ~LastOfProj(step) THEN "next" ELSE "padding"

Gathered ==
    /\ Gathering /\ Wanted \subseteq arrived
    /\ AssembleRow(Wanted)
    /\ UNCHANGED <<front, back, store, arrived, manual, step, sent, tail, past0, lost, past>>

\* A last sweep of the queue, then the missing cells are loaded here.
GatherTimesOut ==
    /\ Gathering /\ ~(Wanted \subseteq arrived)
    /\ TimesOut(Wanted \ arrived, FALSE)
    /\ arrived' = arrived \cup ToSet(outQ)
    /\ outQ' = <<>>
    /\ \E loaded \in SUBSET Wanted :
        /\ LoadManually(Wanted \ arrived', loaded)
        /\ AssembleRow((Wanted \cap arrived') \cup loaded)
    /\ UNCHANGED <<front, coord, active, pending, writing, store, step, sent, tail, past0, lost>>

\* The cells the step has used up, each once; only the current row counts of the rows.
ConsumedAlsoNext ==
    {c \in RowCells[Row] \cup (IF LastOfProj(step) THEN {} ELSE RowCells[RowSeq[step + 1]]) \cup Padding[Row] :
        uses[c] > 0}
Consumed == {c \in RowCells[Row] \cup Padding[Row] : uses[c] > 0}

ApplyPadding(cached) ==
    /\ uses' = [c \in Cells |-> IF c \in Consumed THEN uses[c] - 1 ELSE uses[c]]
    /\ cache' = cached \ {c \in Consumed : uses'[c] = 0}
    /\ pc' = "emit"

PaddingReady ==
    /\ pc = "padding" /\ Padding[Row] \subseteq cache
    /\ ApplyPadding(cache)
    /\ UNCHANGED <<front, back, published, absent, arrived, placed, manual, assembled, step, sent, tail, past0,
                   lost, past>>

PaddingTimesOut ==
    /\ pc = "padding" /\ ~(Padding[Row] \subseteq cache)
    /\ TimesOut(Padding[Row] \ cache, TRUE)
    /\ \E loaded \in SUBSET Padding[Row] :
        LoadManually(Padding[Row] \ cache, loaded) /\ ApplyPadding(cache \cup loaded)
    /\ UNCHANGED <<front, back, published, absent, arrived, placed, assembled, step, sent, tail, past0, lost>>

\* An exception gives up the rest of the projection; a conflicting fingerprint ends the run.
FailRow ==
    /\ pc = "padding"
    /\ \/ /\ Fault("row")
          /\ LET others == {i \in Steps : i > step /\ ~SameProj(i, step)} IN
              IF others = {}
                THEN pc' = "end" /\ UNCHANGED step
                ELSE pc' = "current" /\ step' = CHOOSE i \in others : \A j \in others : i <= j
       \/ Fault("conflict") /\ pc' = "raise" /\ UNCHANGED step
    /\ UNCHANGED <<front, back, store, arrived, placed, manual, assembled, sent, tail, past0, lost>>

Emit ==
    /\ pc = "emit"
    /\ Len(results) < ResCap
    /\ results' = Append(results, "row")
    /\ IF step = Len(RowSeq)
         THEN pc' = "end" /\ UNCHANGED step
         ELSE /\ step' = step + 1
              /\ pc' = CASE LastOfProj(step) -> "current"
                         [] ~LastOfProj(step) /\ LastOfProj(step + 1) -> "padding"
                         [] OTHER -> "next"
    /\ UNCHANGED <<front, back, store, arrived, placed, manual, assembled, sent, saver, past0, lost, past>>

AssembleRows ==
    Receive \/ Gathered \/ GatherTimesOut \/ PaddingReady \/ PaddingTimesOut \/ FailRow \/ Emit

(****************************************************************************)
(* Main, the way down.  skip_convolved waits for every thread in turn and   *)
(* fails unless every task cell is published; rows mode gives combiners and *)
(* coordinator a limited time.  Both wait for the readers and the saver.    *)
(****************************************************************************)
ReadersGone == tasks = <<>> /\ reading = {}
TaskCells == IF mode = "publish" THEN Cells ELSE Regular

Goto(here, there) == pc = here /\ pc' = there
OnlyPc == <<front, back, store, arrived, placed, manual, assembled, step, sent, tail, past0, lost, past>>

AwaitThreads ==
    /\ \/ Goto("ingest", "sentinels") /\ ReadersGone
       \/ Goto("combiners", "coordinator") /\ alive = 0 /\ sentinels = 0
       \/ Goto("coordinator", "end") /\ coord = "done"
       \/ Goto("exit", "saver") /\ ReadersGone
       \/ Goto("saver", "done") /\ saver # "open"
       \/ Goto("raise", "failed") /\ ReadersGone
    /\ UNCHANGED OnlyPc

SendSentinel ==
    /\ pc = "sentinels"
    /\ Len(rawQ) < RawCap
    /\ rawQ' = Append(rawQ, None)
    /\ sent' = sent + 1
    /\ pc' = IF sent' < Combiners THEN pc ELSE IF mode = "publish" THEN "combiners" ELSE "exit"
    /\ UNCHANGED <<tasks, reading, combining, alive, sentinels, combQ, back, store, arrived, placed, manual,
                   assembled, step, tail, past0, lost, past>>

EndResults ==
    /\ Goto("end", IF mode = "publish" THEN "report" ELSE "sentinels")
    /\ Len(results) < ResCap
    /\ results' = Append(results, "end")
    /\ UNCHANGED <<front, back, store, arrived, placed, manual, assembled, step, sent, saver, past0, lost, past>>

\* The sentinels sent again after the report find no combiner.
Report ==
    /\ Goto("report", IF Cells \subseteq published \cup absent THEN "exit" ELSE "failed")
    /\ rawQ' = IF pc' = "exit" THEN rawQ \o [i \in 1 .. Combiners |-> None] ELSE rawQ
    /\ UNCHANGED <<tasks, reading, combining, alive, sentinels, combQ, back, store, arrived, placed, manual,
                   assembled, step, sent, tail, past0, lost, past>>

WindDown == AwaitThreads \/ SendSentinel \/ EndResults \/ Report

Save ==
    /\ saver = "open" /\ results # <<>>
    /\ results' = Tail(results)
    /\ saver' = IF Head(results) = "end" THEN "done" ELSE saver
    /\ UNCHANGED <<front, back, store, main, past0, lost, past>>

-----------------------------------------------------------------------------
Work == Ingest \/ Combine \/ Coordinate \/ AssembleRows \/ WindDown \/ Save
Next == Work \/ BreakPool

\* Some thread moves as long as one of them can.
Spec == Init /\ [][Next]_vars /\ WF_vars(Work)

-----------------------------------------------------------------------------
Kinds == {"regular", "regular_cache_hit", "padding_source"}
Tasks == [cell : Cells, row : Rows, kind : Kinds]

\* Every queue keeps its bound, every thread count its range.
TypeOK ==
    /\ mode \in Modes /\ archive \subseteq Cells
    /\ tasks \in Seq(Tasks) /\ reading \subseteq Tasks /\ combining \subseteq Tasks
    /\ Cardinality(reading) <= Readers
    /\ rawQ \in Seq(Tasks \cup {None}) /\ Len(rawQ) <= RawCap
    /\ combQ \in Seq(Tasks \cup {None}) /\ Len(combQ) <= CombCap
    /\ alive \in 0 .. Combiners /\ sentinels \in 0 .. Combiners /\ sent \in 0 .. Combiners
    /\ coord \in {"loop", "drain", "done"}
    /\ active \subseteq Tasks
    /\ pending \in Seq(Regular) /\ outQ \in Seq(Regular) /\ Len(outQ) <= OutCap
    /\ writing \subseteq Cells /\ Cardinality(writing) <= WriteCap
    /\ published \subseteq Cells /\ absent \subseteq Cells /\ cache \subseteq Cells
    /\ uses \in [Cells -> Nat]
    /\ arrived \subseteq Regular /\ placed \subseteq Regular /\ manual \subseteq Cells
    /\ assembled \subseteq Rows /\ step \in Steps \cup {1}
    /\ pc \in {"ingest", "sentinels", "combiners", "coordinator", "report", "current", "next", "padding",
               "emit", "end", "exit", "saver", "raise", "done", "failed"}
    /\ results \in Seq({"row", "end"}) /\ Len(results) <= ResCap
    /\ saver \in {"open", "gone", "done"}
    /\ lost \subseteq Cells /\ past \subseteq FaultKinds

(****************************************************************************)
(* skip_convolved judges the run when the whole chain has come to rest: no  *)
(* bundle is queued or in a combiner, no SEP result or band write is open.  *)
(* One sentinel sent too early would leave a bundle behind it.  A broken    *)
(* process pool ends the coordinator before its sentinel.                   *)
(****************************************************************************)
NothingLeftBehind ==
    mode = "publish" /\ pc \in {"end", "report", "exit", "saver", "done", "failed"} /\ ~Broken
        => Upstream = {} /\ active = {} /\ writing = {}

(****************************************************************************)
(* A run that fails for cells that are not published names cells a fault    *)
(* really lost: the completeness check never races a write or a result.     *)
(****************************************************************************)
FailureHasCause ==
    mode = "publish" /\ pc = "failed" /\ ~Broken => Cells \ (published \cup absent) \subseteq lost

(****************************************************************************)
(* A row main has put together holds every cell of it PS1 has, whatever     *)
(* thread dropped it on the way: what did not arrive is loaded by main.     *)
(****************************************************************************)
RowsAreComplete ==
    "fetch" \notin past => \A r \in assembled : RowCells[r] \cap archive \subseteq placed

(****************************************************************************)
(* Main loads and removes stars by itself only for a cell that was lost or  *)
(* does not exist: a result that came out of order, for a row that is not   *)
(* gathered yet or for a later padding step, is still there when needed.    *)
(****************************************************************************)
ManualHasCause ==
    past \cap {"slow", "pool"} = {} => manual \subseteq lost \cup (Cells \ archive)

(****************************************************************************)
(* A bundle sent as a cache hit finds its cell in the band cache: the use   *)
(* counts keep a cell that pads one row and belongs to another until both   *)
(* have used it, so no hit is dropped by the coordinator.                   *)
(****************************************************************************)
HitsStayCached ==
    past \cap {"slow", "pool"} = {} => \A t \in Upstream : IsHit(t) => t.cell \in cache

(****************************************************************************)
(* Every run ends, with full queues on all sides and the main thread now a  *)
(* consumer and now busy, unless the process pool breaks, a row fails, the  *)
(* saver cannot open its store or a timeout comes early; after each of      *)
(* these nobody may be left to empty a queue.                               *)
(****************************************************************************)
RunEnds ==
    <>(pc \in {"done", "failed"} \/ past \cap {"pool", "row", "conflict", "saver", "slow"} # {})
=============================================================================
