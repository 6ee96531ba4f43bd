-------------------------------- MODULE SalesLake -------------------------------
(***************************************************************************)
(* The data lake of the sales: the ingestion copies the headers and the      *)
(* lines of a day's documents from ICG into two bronze partitions, the build *)
(* joins them into two silver partitions.  A partition is a directory with   *)
(* one file; every write makes a directory of its own beside it, removes the *)
(* old one and renames the new.  Nothing is locked.                         *)
(*                                                                         *)
(* shutil.rmtree is two steps, the file and then the directory, and fails if  *)
(* what it looks for is gone; a rename fails on a directory that has a file  *)
(* in it and replaces an empty one.                                         *)
(***************************************************************************)
EXTENDS Naturals, Sequences, FiniteSets

CONSTANTS
    SalesDays,
    Docs,       \* documents of ICG
    Workers,
    LakeBound   \* bound on the operations begun, late documents and crashes included

VARIABLES
    icg,        \* icg[d]: the documents ICG has for day d
    lake,       \* lake[path]: a directory
    leftover,   \* paths beside which a temporary directory was left
    worker,     \* worker[w]: what w is doing
    begun

lakeVars == <<icg, lake, leftover, worker, begun>>
-----------------------------------------------------------------------------
Bronze == {"head", "line"}          \* albventacab, albventalin
Silver == {"sales", "items"}        \* documentos_venta, documentos_venta_lineas
Paths == (Bronze \cup Silver) \X SalesDays
Frames == SUBSET Docs

\* A directory is not there, has no file, or has data.parquet.
Gone == [there |-> FALSE]
Bare == [there |-> TRUE]
Holding(frame) == [there |-> TRUE, frame |-> frame]
HasFile(path) == lake[path] \notin {Gone, Bare}

Asleep == [pc |-> "idle"]
Busy == {w \in Workers : worker[w] # Asleep}
DayOf(w) == worker[w].day

\* todo: the frames still to be written, with their paths; seen: the bronze files
\* that were there when a build registered them; alone: has no other worker been
\* busy with this day since this one began?
Working(pc, op, d, todo) ==
    [pc |-> pc, op |-> op, day |-> d, todo |-> todo, seen |-> {}, sales |-> {}, alone |-> TRUE]

Begin(w, s) ==
    /\ begun < LakeBound
    /\ worker[w] = Asleep
    /\ begun' = begun + 1
    /\ LET rivals == {v \in Busy : DayOf(v) = s.day} IN
          worker' = [v \in Workers |->
                        CASE v = w -> [s EXCEPT !.alone = rivals = {}]
                          [] v \in rivals -> [worker[v] EXCEPT !.alone = FALSE]
                          [] OTHER -> worker[v]]

Continue(w, s) == worker' = [worker EXCEPT ![w] = s]

\* An exception: the item is FAILED, what is on disk stays.
Fail(w) == Continue(w, Asleep)
-----------------------------------------------------------------------------
(* write_partition.                                                          *)
Target(w) == worker[w].todo[1].path
Replacement(w) == worker[w].todo[1].frame

\* with_name(...): the name of the temporary directory bears a uuid4.
X_NameTaken(w) == Target(w) \in leftover
NameTaken(w) == FALSE

\* mkdir with exist_ok=False, write_parquet.
WriteTemp(w) ==
    /\ worker[w] # Asleep /\ worker[w].pc = "temp"
    /\ IF NameTaken(w) THEN Fail(w)
       ELSE Continue(w, [worker[w] EXCEPT !.pc = "look"])
    /\ UNCHANGED <<icg, lake, leftover, begun>>

\* if partition_dir.exists()
Look(w) ==
    /\ worker[w] # Asleep /\ worker[w].pc = "look"
    /\ Continue(w, [worker[w] EXCEPT !.pc = IF lake[Target(w)] = Gone THEN "rename" ELSE "unlink"])
    /\ UNCHANGED <<icg, lake, leftover, begun>>

\* rmtree: the file.
Unlink(w) ==
    /\ worker[w] # Asleep /\ worker[w].pc = "unlink"
    /\ IF lake[Target(w)] = Gone
       THEN Fail(w) /\ leftover' = leftover \cup {Target(w)} /\ UNCHANGED lake
       ELSE /\ lake' = [lake EXCEPT ![Target(w)] = Bare]
            /\ Continue(w, [worker[w] EXCEPT !.pc = "rmdir"])
            /\ UNCHANGED leftover
    /\ UNCHANGED <<icg, begun>>

\* rmtree: the directory.
RemoveDir(w) ==
    /\ worker[w] # Asleep /\ worker[w].pc = "rmdir"
    /\ IF lake[Target(w)] # Bare
       THEN Fail(w) /\ leftover' = leftover \cup {Target(w)} /\ UNCHANGED lake
       ELSE /\ lake' = [lake EXCEPT ![Target(w)] = Gone]
            /\ Continue(w, [worker[w] EXCEPT !.pc = "rename"])
            /\ UNCHANGED leftover
    /\ UNCHANGED <<icg, begun>>

\* temp_dir.replace(partition_dir), which a directory with a file in it stops.
X_Stopped(w) == FALSE
Stopped(w) == HasFile(Target(w))
Rename(w) ==
    /\ worker[w] # Asleep /\ worker[w].pc = "rename"
    /\ IF Stopped(w)
       THEN Fail(w) /\ leftover' = leftover \cup {Target(w)} /\ UNCHANGED lake
       ELSE /\ lake' = [lake EXCEPT ![Target(w)] = Holding(Replacement(w))]
            /\ Continue(w, IF Len(worker[w].todo) = 1 THEN Asleep
                           ELSE [worker[w] EXCEPT !.todo = Tail(@), !.pc = "temp"])
            /\ UNCHANGED leftover
    /\ UNCHANGED <<icg, begun>>
-----------------------------------------------------------------------------
(* The ingestion of one table and day: extract, and then write_partition.     *)
Ingest(w, table, d) ==
    /\ Begin(w, Working("temp", "ingest", d, <<[path |-> <<table, d>>, frame |-> icg[d]]>>))
    /\ UNCHANGED <<icg, lake, leftover>>
-----------------------------------------------------------------------------
(* The build of one day.                                                     *)
StartBuild(w, d) ==
    /\ Begin(w, Working("register", "build", d, <<>>))
    /\ UNCHANGED <<icg, lake, leftover>>

\* register_parquet_or_empty: a file that is not there stands for an empty table.
Register(w) ==
    /\ worker[w] # Asleep /\ worker[w].pc = "register"
    /\ Continue(w, [worker[w] EXCEPT !.pc = "documents",
                       !.seen = {t \in Bronze : HasFile(<<t, DayOf(w)>>)}])
    /\ UNCHANGED <<icg, lake, leftover, begun>>

\* The views read the files again in every query.
Readable(w) == \A t \in worker[w].seen : HasFile(<<t, DayOf(w)>>)
Table(w, t) == IF t \in worker[w].seen THEN lake[<<t, DayOf(w)>>].frame ELSE {}

\* documentos_venta, documentos_venta_lineas: the documents with header and lines.
Documents(heads, lines) == heads \cap lines
Lines(heads, lines) == Documents(heads, lines) \cap lines

ReadDocuments(w) ==
    /\ worker[w] # Asleep /\ worker[w].pc = "documents"
    /\ IF Readable(w)
       THEN Continue(w, [worker[w] EXCEPT !.pc = "lines",
                            !.sales = Documents(Table(w, "head"), Table(w, "line"))])
       ELSE Fail(w)
    /\ UNCHANGED <<icg, lake, leftover, begun>>

\* Only when every query is done is anything written.
ReadLines(w) ==
    LET s == worker[w] IN
    /\ s # Asleep /\ s.pc = "lines"
    /\ IF Readable(w)
       THEN Continue(w, [s EXCEPT !.pc = "temp",
               !.todo = <<[path |-> <<"sales", s.day>>, frame |-> s.sales],
                          [path |-> <<"items", s.day>>,
                           frame |-> Lines(Table(w, "head"), Table(w, "line"))]>>])
       ELSE Fail(w)
    /\ UNCHANGED <<icg, lake, leftover, begun>>
-----------------------------------------------------------------------------
\* The worker dies; its temporary directory, if it has one, stays.
HasTemp(w) == worker[w] # Asleep /\ worker[w].pc \in {"look", "unlink", "rmdir", "rename"}

Crash(w) ==
    /\ begun < LakeBound /\ worker[w] # Asleep
    /\ begun' = begun + 1
    /\ leftover' = IF HasTemp(w) THEN leftover \cup {Target(w)} ELSE leftover
    /\ Fail(w)
    /\ UNCHANGED <<icg, lake>>

\* A document reaches ICG late.
LateDocument(d, x) ==
    /\ begun < LakeBound /\ x \notin icg[d]
    /\ begun' = begun + 1
    /\ icg' = [icg EXCEPT ![d] = @ \cup {x}]
    /\ UNCHANGED <<lake, leftover, worker>>

Init ==
    /\ icg = [d \in SalesDays |-> {}]
    /\ lake = [path \in Paths |-> Gone]
    /\ leftover = {}
    /\ worker = [w \in Workers |-> Asleep]
    /\ begun = 0

Write(w) == WriteTemp(w) \/ Look(w) \/ Unlink(w) \/ RemoveDir(w) \/ Rename(w)
Build(w) == Register(w) \/ ReadDocuments(w) \/ ReadLines(w)

Next ==
    \/ \E w \in Workers : Write(w) \/ Build(w) \/ Crash(w)
    \/ \E w \in Workers, t \in Bronze, d \in SalesDays : Ingest(w, t, d)
    \/ \E w \in Workers, d \in SalesDays : StartBuild(w, d)
    \/ \E d \in SalesDays, x \in Docs : LateDocument(d, x)
    \/ begun = LakeBound /\ Busy = {} /\ UNCHANGED lakeVars

Spec == Init /\ [][Next]_lakeVars
-----------------------------------------------------------------------------
(* The directories and the workers are well formed.                          *)
TypeOK ==
    /\ icg \in [SalesDays -> Frames]
    /\ lake \in [Paths -> {Gone, Bare} \cup {Holding(frame) : frame \in Frames}]
    /\ leftover \subseteq Paths
    /\ \A w \in Busy : HasTemp(w) => Target(w) \in Paths /\ Replacement(w) \in Frames

(* Deleting, renaming, failing and dying in any order, the lake keeps what    *)
(* PartitionStore promises: ParquetDataLakeWriter never deletes a partition   *)
(* before its replacement is complete on disk, and never writes over one.     *)
Nothing == [none |-> TRUE]
Kept == [path \in Paths |-> IF HasFile(path) THEN lake[path] ELSE Nothing]
Ready == [w \in Workers |-> IF HasTemp(w) THEN [path |-> Target(w), frame |-> Holding(Replacement(w))]
                            ELSE Nothing]
Store == INSTANCE PartitionStore
            WITH Holders <- Workers, Paths <- Paths, Frames <- {Holding(frame) : frame \in Frames}, Nothing <- Nothing,
                 kept <- Kept, ready <- Ready
ImplementsStore == Store!Spec

(* Whatever dead workers have left of directories, files and temporary names,  *)
(* a write that shares its day with no other worker does not fail.            *)
WriteAlone ==
    \A w \in Workers :
        worker[w] # Asleep /\ worker[w].alone /\ worker'[w] = Asleep /\ begun' = begun
        => lake'[Target(w)] = Holding(Replacement(w))

(* An undisturbed build leaves the join of the bronze tables as they are, and    *)
(* repairs whatever was there before.                                          *)
BuildAlone ==
    \A w \in Workers :
        worker[w] # Asleep /\ worker[w].op = "build" /\ worker[w].alone
           /\ worker'[w] = Asleep /\ begun' = begun
        => LET frame(t) == IF HasFile(<<t, DayOf(w)>>) THEN lake[<<t, DayOf(w)>>].frame ELSE {}
               joined == Holding(frame("head") \cap frame("line"))
           IN lake'[<<"sales", DayOf(w)>>] = joined /\ lake'[<<"items", DayOf(w)>>] = joined
AloneIsEnough == [][WriteAlone /\ BuildAlone]_lakeVars
=============================================================================
