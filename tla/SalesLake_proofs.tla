--------------------------- MODULE SalesLake_proofs ----------------------------
(***************************************************************************)
(* The data lake keeps what PartitionStore promises, for any number of     *)
(* days, documents and workers, whoever crashes and whenever; and a worker *)
(* that is alone with its day neither fails nor builds anything but the    *)
(* join of the bronze.                                                     *)
(***************************************************************************)
EXTENDS SalesLake, SequenceTheorems, TLAPS

WritePC == {"temp", "look", "unlink", "rmdir", "rename"}
ReadPC == {"register", "documents", "lines"}
Job == [path : Paths, frame : Frames]
WorkerState ==
    [pc : WritePC \cup ReadPC, op : {"ingest", "build"}, day : SalesDays, todo : Seq(Job),
     seen : SUBSET Bronze, sales : Frames, alone : BOOLEAN]

\* A worker that writes has something to write, all of it for its day.
WellFormed(s) ==
    \/ s = Asleep
    \/ /\ s \in WorkerState
       /\ s.pc \in WritePC => s.todo # <<>>
       /\ \A k \in DOMAIN s.todo : s.todo[k].path[2] = s.day

Dirs == {Gone, Bare} \cup {Holding(frame) : frame \in Frames}

Types ==
    /\ icg \in [SalesDays -> Frames]
    /\ lake \in [Paths -> Dirs]
    /\ leftover \subseteq Paths
    /\ worker \in [Workers -> {Asleep} \cup WorkerState]
    /\ \A w \in Workers : WellFormed(worker[w])

-----------------------------------------------------------------------------
(* Directories and workers.                                                *)

LEMMA DirsDiffer ==
  /\ Gone # Bare
  /\ \A frame : /\ Holding(frame) \notin {Gone, Bare, Nothing}
                /\ Holding(frame).frame = frame
  /\ \A path, frame : [path |-> path, frame |-> frame] # Nothing
<1>1. Gone.there = FALSE /\ Bare.there = TRUE /\ DOMAIN Bare = {"there"}
  BY DEF Gone, Bare
<1>2. ASSUME NEW frame
      PROVE  /\ Holding(frame).there = TRUE /\ "frame" \in DOMAIN Holding(frame)
             /\ Holding(frame).frame = frame
  BY DEF Holding
<1>3. DOMAIN Nothing = {"none"}
  BY DEF Nothing
<1>4. ASSUME NEW path, NEW frame
      PROVE  [path |-> path, frame |-> frame] # Nothing
  <2>1. "path" \in DOMAIN [path |-> path, frame |-> frame]
    OBVIOUS
  <2>. QED  BY <1>3, <2>1
<1>5. ASSUME NEW frame
      PROVE  Holding(frame) \notin {Gone, Bare, Nothing}
  <2>. DEFINE full == Holding(frame)
  <2>1. full # Gone
    BY <1>1, <1>2
  <2>2. "frame" \in DOMAIN full /\ "frame" \notin DOMAIN Bare /\ "frame" \notin DOMAIN Nothing
    BY <1>1, <1>2, <1>3
  <2>3. full # Bare /\ full # Nothing
    BY <2>2, Zenon
  <2>. QED  BY <2>1, <2>2, <2>3
<1>. QED  BY <1>1, <1>2, <1>4, <1>5

LEMMA AwakeDiffers ==
  /\ Asleep.pc = "idle" /\ Asleep \notin WorkerState
  BY DEF Asleep, WorkerState, WritePC, ReadPC

\* What a busy worker is about to put where.
LEMMA TargetType ==
  ASSUME NEW w \in Workers, WellFormed(worker[w]), worker[w] # Asleep, worker[w].pc \in WritePC
  PROVE  /\ Target(w) \in Paths /\ Replacement(w) \in Frames /\ Target(w)[2] = DayOf(w)
         /\ Len(worker[w].todo) \in Nat \ {0}
<1>1. worker[w] \in WorkerState /\ worker[w].todo \in Seq(Job) /\ worker[w].todo # <<>>
  BY DEF WellFormed, WorkerState
<1>2. Len(worker[w].todo) \in Nat \ {0} /\ 1 \in DOMAIN worker[w].todo
  BY <1>1
<1>3. worker[w].todo[1] \in Job
  BY <1>1, <1>2
<1>. QED  BY <1>2, <1>3 DEF Job, Target, Replacement, DayOf, WellFormed

\* The rest of the work, when the first frame is in place.
LEMMA TailType ==
  ASSUME NEW s \in WorkerState, WellFormed(s), s.pc \in WritePC, Len(s.todo) # 1
  PROVE  /\ [s EXCEPT !.todo = Tail(@), !.pc = "temp"] \in WorkerState
         /\ WellFormed([s EXCEPT !.todo = Tail(@), !.pc = "temp"])
<1>1. s.todo \in Seq(Job) /\ s.todo # <<>> /\ s # Asleep
  BY AwakeDiffers DEF WellFormed, WorkerState
<1>2. Len(s.todo) \in Nat /\ Len(s.todo) > 1
  <2>1. Len(s.todo) \in Nat \ {0}
    BY <1>1, EmptySeq
  <2>2. \A n \in Nat \ {0} : n # 1 => n > 1
    OBVIOUS
  <2>. QED  BY <2>1, <2>2
<1>. DEFINE rest == Tail(s.todo)
            new == [s EXCEPT !.todo = rest, !.pc = "temp"]
<1>3. /\ rest \in Seq(Job) /\ Len(rest) = Len(s.todo) - 1
      /\ \A k \in 1 .. Len(rest) : rest[k] = s.todo[k + 1]
  BY <1>1, <1>2
<1>4. rest # <<>> /\ DOMAIN rest = 1 .. Len(rest)
  <2>1. DOMAIN rest = 1 .. Len(rest)
    BY <1>3, LenProperties
  <2>2. Len(<<>>) = 0
    OBVIOUS
  <2>3. Len(rest) # 0
    BY <1>2, <1>3
  <2>. HIDE DEF rest
  <2>. QED  BY <2>1, <2>2, <2>3
<1>5. \A k \in DOMAIN rest : k + 1 \in DOMAIN s.todo /\ rest[k] = s.todo[k + 1]
  BY <1>1, <1>2, <1>3, <1>4
<1>6. \A k \in DOMAIN rest : rest[k].path[2] = s.day
  BY <1>1, <1>5 DEF WellFormed
<1>. HIDE DEF rest
<1>7. new \in WorkerState /\ new.todo = rest /\ new.day = s.day
  BY <1>3 DEF WorkerState, WritePC
<1>. QED  BY <1>4, <1>6, <1>7 DEF WellFormed, rest

LEMMA ContinueType ==
  ASSUME Types, NEW w \in Workers, NEW s \in {Asleep} \cup WorkerState, WellFormed(s),
         Continue(w, s)
  PROVE  /\ worker' \in [Workers -> {Asleep} \cup WorkerState]
         /\ \A v \in Workers : worker'[v] = IF v = w THEN s ELSE worker[v]
         /\ \A v \in Workers : WellFormed(worker'[v])
  BY DEF Types, Continue

\* A worker that begins takes from its rivals nothing but that they are alone.
LEMMA BeginType ==
  ASSUME Types, NEW w \in Workers, NEW s \in WorkerState, WellFormed(s), Begin(w, s)
  PROVE  /\ worker' \in [Workers -> {Asleep} \cup WorkerState]
         /\ worker'[w] = [s EXCEPT !.alone = \A v \in Busy : DayOf(v) # s.day]
         /\ \A v \in Workers : v # w =>
              worker'[v] = IF v \in Busy /\ DayOf(v) = s.day
                           THEN [worker[v] EXCEPT !.alone = FALSE] ELSE worker[v]
         /\ \A v \in Workers : WellFormed(worker'[v])
<1>. DEFINE rivals == {v \in Busy : DayOf(v) = s.day}
            mine == [s EXCEPT !.alone = rivals = {}]
<1>1. worker[w] = Asleep /\ w \notin rivals
  BY DEF Begin, Busy
<1>2. worker' = [v \in Workers |-> CASE v = w -> mine
                                     [] v \in rivals -> [worker[v] EXCEPT !.alone = FALSE]
                                     [] OTHER -> worker[v]]
  BY DEF Begin
<1>3. mine \in WorkerState /\ WellFormed(mine)
  <2>1. PICK b \in BOOLEAN : b = (rivals = {})
    BY Zenon
  <2>2. [s EXCEPT !.alone = b] \in WorkerState /\ WellFormed([s EXCEPT !.alone = b])
    BY AwakeDiffers DEF WorkerState, WellFormed
  <2>. QED  BY <2>1, <2>2, Zenon
<1>4. ASSUME NEW v \in rivals
      PROVE  /\ [worker[v] EXCEPT !.alone = FALSE] \in WorkerState
             /\ WellFormed([worker[v] EXCEPT !.alone = FALSE])
  <2>1. worker[v] \in WorkerState /\ WellFormed(worker[v]) /\ worker[v] # Asleep
    BY DEF Types, Busy
  <2>. QED  BY <2>1, AwakeDiffers DEF WorkerState, WellFormed
<1>5. mine = [s EXCEPT !.alone = \A v \in Busy : DayOf(v) # s.day]
  BY DEF rivals
<1>. HIDE DEF mine
<1>6. \A v \in Workers : worker'[v] = IF v = w THEN mine ELSE
                           IF v \in rivals THEN [worker[v] EXCEPT !.alone = FALSE] ELSE worker[v]
  BY <1>1, <1>2
<1>7. worker' \in [Workers -> {Asleep} \cup WorkerState]
  BY <1>2, <1>3, <1>4, <1>6 DEF Types
<1>8. \A v \in Workers : WellFormed(worker'[v])
  BY <1>3, <1>4, <1>6 DEF Types
<1>. QED  BY <1>5, <1>6, <1>7, <1>8

-----------------------------------------------------------------------------
(* Every step keeps the types.                                             *)

LEMMA InitTypes == Init => Types
  BY DEF Init, Types, Frames, Dirs, WellFormed

LEMMA AsleepType == Asleep \in {Asleep} \cup WorkerState /\ WellFormed(Asleep)
  BY DEF WellFormed

\* A worker at work: its state, the phase aside, goes on as it is.
LEMMA PhaseType ==
  ASSUME NEW s \in WorkerState, WellFormed(s), NEW pc \in WritePC \cup ReadPC,
         pc \in WritePC => s.pc \in WritePC
  PROVE  [s EXCEPT !.pc = pc] \in WorkerState /\ WellFormed([s EXCEPT !.pc = pc])
  BY AwakeDiffers DEF WorkerState, WellFormed

LEMMA WriteTypes ==
  ASSUME Types, NEW w \in Workers, Write(w)
  PROVE  Types'
<1>. DEFINE s == worker[w]
<1>1. s # Asleep /\ s.pc \in WritePC
  BY DEF Write, WriteTemp, Look, Unlink, RemoveDir, Rename, WritePC
<1>2. s \in WorkerState /\ WellFormed(s)
  BY <1>1 DEF Types
<1>3. /\ Target(w) \in Paths /\ Replacement(w) \in Frames
      /\ UNCHANGED icg
  BY <1>1, <1>2, TargetType DEF Write, WriteTemp, Look, Unlink, RemoveDir, Rename
<1>4. lake' \in [Paths -> Dirs]
  <2>1. \/ UNCHANGED lake
        \/ lake' = [lake EXCEPT ![Target(w)] = Bare]
        \/ lake' = [lake EXCEPT ![Target(w)] = Gone]
        \/ lake' = [lake EXCEPT ![Target(w)] = Holding(Replacement(w))]
    BY DEF Write, WriteTemp, Look, Unlink, RemoveDir, Rename
  <2>2. Bare \in Dirs /\ Gone \in Dirs /\ Holding(Replacement(w)) \in Dirs
    BY <1>3 DEF Dirs
  <2>. QED  BY <2>1, <2>2 DEF Types
<1>5. leftover' \subseteq Paths
  BY <1>3 DEF Types, Write, WriteTemp, Look, Unlink, RemoveDir, Rename
<1>6. PICK new \in {Asleep} \cup WorkerState : WellFormed(new) /\ Continue(w, new)
  <2>1. CASE Fail(w)
    BY <2>1, AsleepType DEF Fail
  <2>2. CASE \E pc \in WritePC : Continue(w, [s EXCEPT !.pc = pc])
    BY <1>1, <1>2, <2>2, PhaseType
  <2>3. CASE Rename(w) /\ ~Stopped(w)
    <3>1. CASE Len(s.todo) = 1
      BY <2>3, <3>1, AsleepType DEF Rename
    <3>2. CASE Len(s.todo) # 1
      BY <1>1, <1>2, <2>3, <3>2, TailType DEF Rename
    <3>. QED  BY <3>1, <3>2
  <2>. QED
    BY <2>1, <2>2, <2>3 DEF Write, WriteTemp, Look, Unlink, RemoveDir, Rename, NameTaken, WritePC
<1>7. /\ worker' \in [Workers -> {Asleep} \cup WorkerState]
      /\ \A v \in Workers : WellFormed(worker'[v])
  BY <1>6, ContinueType
<1>. QED  BY <1>3, <1>4, <1>5, <1>7 DEF Types, WellFormed

\* What the queries of a build read.
LEMMA ReadableFrames ==
  ASSUME Types, NEW w \in Workers, worker[w] # Asleep, Readable(w)
  PROVE  \A t \in Bronze : Table(w, t) \in Frames
<1>1. worker[w] \in WorkerState
  BY DEF Types
<1>2. ASSUME NEW t \in worker[w].seen PROVE lake[<<t, DayOf(w)>>].frame \in Frames
  <2>1. lake[<<t, DayOf(w)>>] \in Dirs \ {Gone, Bare}
    BY <1>1 DEF Types, WorkerState, Readable, HasFile, Paths, DayOf
  <2>. QED  BY <2>1, DirsDiffer DEF Dirs
<1>. QED  BY <1>2 DEF Table, Frames

LEMMA BuildTypes ==
  ASSUME Types, NEW w \in Workers, Build(w)
  PROVE  Types'
<1>. DEFINE s == worker[w]
<1>1. s \in WorkerState /\ WellFormed(s) /\ s # Asleep /\ s.pc \in ReadPC
  BY DEF Types, Build, Register, ReadDocuments, ReadLines, ReadPC
<1>2. UNCHANGED <<icg, lake, leftover>>
  BY DEF Build, Register, ReadDocuments, ReadLines
<1>4. Readable(w) => \A t \in Bronze : Table(w, t) \in Frames
  BY <1>1, ReadableFrames
<1>5. PICK new \in {Asleep} \cup WorkerState : WellFormed(new) /\ Continue(w, new)
  <2>1. CASE Fail(w)
    BY <2>1, AsleepType DEF Fail
  <2>2. CASE Register(w)
    <3>. DEFINE new == [s EXCEPT !.pc = "documents", !.seen = {t \in Bronze : HasFile(<<t, DayOf(w)>>)}]
    <3>1. new \in WorkerState /\ WellFormed(new)
      BY <1>1, AwakeDiffers DEF WorkerState, WellFormed, ReadPC, WritePC
    <3>2. Continue(w, new)
      BY <2>2 DEF Register
    <3>. QED  BY <3>1, <3>2
  <2>3. CASE ReadDocuments(w) /\ Readable(w)
    <3>. DEFINE docs == Documents(Table(w, "head"), Table(w, "line"))
                new == [s EXCEPT !.pc = "documents", !.sales = docs]
    <3>1. docs \in Frames
      BY <1>4, <2>3 DEF Documents, Frames, Bronze
    <3>. HIDE DEF docs
    <3>2. /\ [s EXCEPT !.pc = "lines", !.sales = docs] \in WorkerState
          /\ WellFormed([s EXCEPT !.pc = "lines", !.sales = docs])
      BY <1>1, <3>1, AwakeDiffers DEF WorkerState, WellFormed, ReadPC, WritePC
    <3>. QED  BY <2>3, <3>2 DEF ReadDocuments, docs
  <2>4. CASE ReadLines(w) /\ Readable(w)
    <3>. DEFINE rows == Lines(Table(w, "head"), Table(w, "line"))
                one == [path |-> <<"sales", s.day>>, frame |-> s.sales]
                two == [path |-> <<"items", s.day>>, frame |-> rows]
                plan == <<one, two>>
                new == [s EXCEPT !.pc = "temp", !.todo = plan]
    <3>1. rows \in Frames
      BY <1>4, <2>4 DEF Lines, Documents, Frames, Bronze
    <3>2. one \in Job /\ two \in Job /\ one.path[2] = s.day /\ two.path[2] = s.day
      BY <1>1, <3>1 DEF WorkerState, Job, Paths, Silver
    <3>3. Continue(w, new)
      BY <2>4 DEF ReadLines
    <3>. HIDE DEF one, two
    <3>4. /\ plan \in Seq(Job) /\ plan # <<>>
          /\ \A k \in DOMAIN plan : plan[k] \in {one, two}
      BY <3>2
    <3>. HIDE DEF plan
    <3>5. new \in WorkerState /\ new.todo = plan /\ new.day = s.day
      BY <1>1, <3>4 DEF WorkerState, WritePC
    <3>6. WellFormed(new)
      BY <3>2, <3>4, <3>5 DEF WellFormed
    <3>. QED  BY <3>3, <3>5, <3>6
  <2>. QED  BY <2>1, <2>2, <2>3, <2>4 DEF Build, ReadDocuments, ReadLines
<1>6. /\ worker' \in [Workers -> {Asleep} \cup WorkerState]
      /\ \A v \in Workers : WellFormed(worker'[v])
  BY <1>5, ContinueType
<1>. QED  BY <1>2, <1>6 DEF Types, WellFormed

\* What a worker begins with.
LEMMA IngestState ==
  ASSUME Types, NEW t \in Bronze, NEW d \in SalesDays
  PROVE  LET s == Working("temp", "ingest", d, <<[path |-> <<t, d>>, frame |-> icg[d]]>>)
         IN  s \in WorkerState /\ WellFormed(s) /\ s.day = d /\ s.op = "ingest" /\ s.pc = "temp"
<1>. DEFINE job == [path |-> <<t, d>>, frame |-> icg[d]]
            s == Working("temp", "ingest", d, <<job>>)
<1>1. job \in Job /\ job.path[2] = d
  BY DEF Types, Job, Paths
<1>. HIDE DEF job
<1>2. <<job>> \in Seq(Job) /\ \A k \in DOMAIN <<job>> : <<job>>[k] = job
  BY <1>1
<1>3. s \in WorkerState /\ s.todo = <<job>> /\ s.day = d /\ s.op = "ingest" /\ s.pc = "temp"
  BY <1>1, <1>2 DEF Working, WorkerState, WritePC, Frames
<1>4. s.todo # <<>>
  BY <1>3
<1>5. WellFormed(s)
  <2>. HIDE DEF s
  <2>. QED  BY <1>1, <1>2, <1>3, <1>4 DEF WellFormed
<1>. QED  BY <1>3, <1>5 DEF job

LEMMA BuildState ==
  ASSUME NEW d \in SalesDays
  PROVE  LET s == Working("register", "build", d, <<>>)
         IN  s \in WorkerState /\ WellFormed(s) /\ s.day = d /\ s.op = "build" /\ s.pc = "register"
<1>. DEFINE s == Working("register", "build", d, <<>>)
<1>1. <<>> \in Seq(Job) /\ DOMAIN <<>> = {}
  OBVIOUS
<1>2. /\ s \in WorkerState /\ s.todo = <<>> /\ s.day = d /\ s.op = "build" /\ s.pc = "register"
  BY <1>1 DEF Working, WorkerState, WritePC, ReadPC, Frames
<1>3. WellFormed(s)
  BY <1>1, <1>2 DEF WellFormed, WritePC
<1>. QED  BY <1>2, <1>3

LEMMA StepTypes == Types /\ [Next]_lakeVars => Types'
<1>. SUFFICES ASSUME Types, [Next]_lakeVars PROVE Types'
  OBVIOUS
<1>1. ASSUME NEW w \in Workers, NEW s \in WorkerState, WellFormed(s), Begin(w, s),
             UNCHANGED <<icg, lake, leftover>>
      PROVE  Types'
  BY <1>1, BeginType DEF Types, WellFormed
<1>2. ASSUME NEW w \in Workers, Write(w) \/ Build(w) PROVE Types'
  BY <1>2, WriteTypes, BuildTypes
<1>3. ASSUME NEW w \in Workers, Crash(w) PROVE Types'
  <2>1. Continue(w, Asleep) /\ UNCHANGED <<icg, lake>>
    BY <1>3 DEF Crash, Fail
  <2>2. /\ worker' \in [Workers -> {Asleep} \cup WorkerState]
        /\ \A v \in Workers : WellFormed(worker'[v])
    BY <2>1, AsleepType, ContinueType
  <2>3. leftover' \subseteq Paths
    BY <1>3, TargetType DEF Crash, HasTemp, WritePC, Types
  <2>. QED  BY <2>1, <2>2, <2>3 DEF Types, WellFormed
<1>4. ASSUME NEW w \in Workers, NEW t \in Bronze, NEW d \in SalesDays, Ingest(w, t, d) PROVE Types'
  BY <1>1, <1>4, IngestState DEF Ingest
<1>5. ASSUME NEW w \in Workers, NEW d \in SalesDays, StartBuild(w, d) PROVE Types'
  BY <1>1, <1>5, BuildState DEF StartBuild
<1>6. ASSUME NEW d \in SalesDays, NEW x \in Docs, LateDocument(d, x) PROVE Types'
  <2>1. icg' \in [SalesDays -> Frames]
    BY <1>6 DEF LateDocument, Types, Frames
  <2>. QED  BY <1>6, <2>1 DEF LateDocument, Types, WellFormed
<1>7. CASE UNCHANGED lakeVars
  BY <1>7 DEF lakeVars, Types, WellFormed
<1>. QED  BY <1>2, <1>3, <1>4, <1>5, <1>6, <1>7 DEF Next

-----------------------------------------------------------------------------
(* Step by step, the lake is a PartitionStore: a worker that has a complete   *)
(* temporary directory holds a replacement.                                  *)

\* Only a file in place is kept.
LEMMA KeptNext ==
  ASSUME Types, NEW path \in Paths, NEW dir \in Dirs, lake' = [lake EXCEPT ![path] = dir]
  PROVE  Kept' = [Kept EXCEPT ![path] = IF dir \in {Gone, Bare} THEN Nothing ELSE dir]
<1>1. \A p \in Paths : lake'[p] = IF p = path THEN dir ELSE lake[p]
  BY DEF Types
<1>2. \A p \in Paths : Kept[p] = IF lake[p] \notin {Gone, Bare} THEN lake[p] ELSE Nothing
  BY DEF Kept, HasFile
<1>3. \A p \in Paths : Kept'[p] = IF lake'[p] \notin {Gone, Bare} THEN lake'[p] ELSE Nothing
  BY DEF Kept, HasFile
<1>4. /\ Kept = [p \in Paths |-> Kept[p]] /\ Kept' = [p \in Paths |-> Kept'[p]]
  BY DEF Kept
<1>5. \A p \in Paths : Kept'[p] = IF p = path THEN IF dir \in {Gone, Bare} THEN Nothing ELSE dir
                                                ELSE Kept[p]
  BY <1>1, <1>2, <1>3
<1>. QED  BY <1>4, <1>5

Holds(s) == s # Asleep /\ s.pc \in {"look", "unlink", "rmdir", "rename"}
Held(s) == IF Holds(s) THEN [path |-> s.todo[1].path, frame |-> Holding(s.todo[1].frame)]
           ELSE Nothing

LEMMA ReadyHeld == Ready = [w \in Workers |-> Held(worker[w])]
  BY DEF Ready, Held, Holds, HasTemp, Target, Replacement

LEMMA ReadyNext ==
  ASSUME Types, NEW w \in Workers, NEW s \in {Asleep} \cup WorkerState, WellFormed(s),
         Continue(w, s)
  PROVE  Ready' = [Ready EXCEPT ![w] = Held(s)]
<1>1. \A v \in Workers : worker'[v] = IF v = w THEN s ELSE worker[v]
  BY ContinueType
<1>2. Ready' = [v \in Workers |-> Held(worker'[v])]
  BY DEF Ready, Held, Holds, HasTemp, Target, Replacement
<1>3. Ready = [v \in Workers |-> Held(worker[v])]
  BY ReadyHeld
<1>. QED  BY <1>1, <1>2, <1>3

LEMMA InitStore == Init => Store!Init
<1>. SUFFICES ASSUME Init PROVE Store!Init
  OBVIOUS
<1>1. Kept = [path \in Paths |-> Nothing]
  BY DEF Init, Kept, HasFile
<1>2. Ready = [w \in Workers |-> Nothing]
  BY DEF Init, Ready, HasTemp
<1>. QED  BY <1>1, <1>2 DEF Store!Init

\* A worker that begins, or that goes on without a temporary directory.
LEMMA FailStep ==
  ASSUME Types, NEW w \in Workers, Fail(w), UNCHANGED lake
  PROVE  Store!Next
<1>1. Ready' = [Ready EXCEPT ![w] = Held(Asleep)] /\ Held(Asleep) = Nothing
  BY AsleepType, ReadyNext DEF Fail, Held, Holds
<1>2. Kept' = Kept
  BY DEF Kept, HasFile
<1>. QED  BY <1>1, <1>2 DEF Store!Next, Store!Abandon

LEMMA WriteStep ==
  ASSUME Types, NEW w \in Workers, Write(w)
  PROVE  Store!Next \/ UNCHANGED <<Kept, Ready>>
<1>. DEFINE s == worker[w]
            held == [path |-> Target(w), frame |-> Holding(Replacement(w))]
<1>1. s \in WorkerState /\ WellFormed(s) /\ s # Asleep /\ s.pc \in WritePC
  BY DEF Types, Write, WriteTemp, Look, Unlink, RemoveDir, Rename, WritePC
<1>2. /\ Target(w) \in Paths /\ Replacement(w) \in Frames
  BY <1>1, TargetType
<1>3. Ready[w] = IF s.pc = "temp" THEN Nothing ELSE held
  BY <1>1 DEF Ready, HasTemp, WritePC
<1>4. held # Nothing /\ held.path = Target(w) /\ held.frame = Holding(Replacement(w))
  BY DirsDiffer
<1>5. ASSUME NEW pc \in {"look", "unlink", "rmdir", "rename"}, Continue(w, [s EXCEPT !.pc = pc])
      PROVE  Ready' = [Ready EXCEPT ![w] = held]
  <2>. DEFINE new == [s EXCEPT !.pc = pc]
  <2>1. new \in WorkerState /\ WellFormed(new)
    BY <1>1, PhaseType DEF WritePC
  <2>2. new.pc = pc /\ new.todo = s.todo /\ new # Asleep
    BY <1>1, <2>1, AwakeDiffers DEF WorkerState
  <2>. HIDE DEF new
  <2>3. Held(new) = held
    BY <2>2 DEF Held, Holds, Target, Replacement
  <2>. QED  BY <1>5, <2>1, <2>3, ReadyNext DEF new
<1>6. \A pc : s.pc # "temp" /\ pc = held => [Ready EXCEPT ![w] = pc] = Ready
  BY <1>3 DEF Ready
<1>7. lake[Target(w)] \in Dirs
  BY <1>2 DEF Types
<1>8. CASE Fail(w) /\ UNCHANGED lake
  BY <1>8, FailStep
<1>9. CASE WriteTemp(w)
  <2>1. Continue(w, [s EXCEPT !.pc = "look"]) /\ UNCHANGED lake /\ s.pc = "temp"
    BY <1>9 DEF WriteTemp, NameTaken
  <2>2. Ready' = [Ready EXCEPT ![w] = held] /\ Kept' = Kept /\ Ready[w] = Nothing
    BY <1>3, <1>5, <2>1 DEF Kept, HasFile
  <2>3. Store!Prepare(w, Target(w), Holding(Replacement(w)))
    BY <2>2 DEF Store!Prepare
  <2>. QED  BY <1>2, <2>3 DEF Store!Next
<1>10. CASE Look(w)
  <2>1. PICK pc \in {"unlink", "rename"} : Continue(w, [s EXCEPT !.pc = pc])
    BY <1>10 DEF Look
  <2>2. Ready' = Ready
    BY <1>3, <1>5, <1>6, <1>10, <2>1 DEF Look
  <2>. QED  BY <1>10, <2>2 DEF Look, Kept, HasFile
<1>11. CASE Unlink(w) /\ lake[Target(w)] # Gone
  <2>1. /\ lake' = [lake EXCEPT ![Target(w)] = Bare] /\ s.pc = "unlink"
        /\ Continue(w, [s EXCEPT !.pc = "rmdir"])
    BY <1>11 DEF Unlink
  <2>2. Kept' = [Kept EXCEPT ![Target(w)] = Nothing]
    BY <1>2, <2>1, KeptNext DEF Dirs
  <2>3. Ready' = Ready
    BY <1>3, <1>5, <1>6, <2>1
  <2>4. Store!Drop(Target(w))
    BY <1>3, <1>4, <2>1, <2>2, <2>3 DEF Store!Drop
  <2>. QED  BY <1>2, <2>4 DEF Store!Next
<1>12. CASE RemoveDir(w) /\ lake[Target(w)] = Bare
  <2>1. /\ lake' = [lake EXCEPT ![Target(w)] = Gone] /\ s.pc = "rmdir"
        /\ Continue(w, [s EXCEPT !.pc = "rename"])
    BY <1>12 DEF RemoveDir
  <2>2. Kept' = [Kept EXCEPT ![Target(w)] = Nothing] /\ Kept[Target(w)] = Nothing
    BY <1>2, <1>12, <2>1, KeptNext DEF Dirs, Kept, HasFile
  <2>3. Kept' = Kept
    BY <2>2 DEF Kept
  <2>4. Ready' = Ready
    BY <1>3, <1>5, <1>6, <2>1
  <2>. QED  BY <2>3, <2>4
<1>13. CASE Rename(w) /\ ~Stopped(w)
  <2>1. /\ lake' = [lake EXCEPT ![Target(w)] = Holding(Replacement(w))] /\ s.pc = "rename"
    BY <1>13 DEF Rename
  <2>2. Kept' = [Kept EXCEPT ![Target(w)] = Holding(Replacement(w))] /\ Kept[Target(w)] = Nothing
    BY <1>2, <1>13, <2>1, KeptNext, DirsDiffer DEF Dirs, Kept, Stopped
  <2>3. Ready' = [Ready EXCEPT ![w] = Nothing]
    <3>1. CASE Len(s.todo) = 1
      <4>1. Held(Asleep) = Nothing
        BY DEF Held, Holds
      <4>. QED  BY <1>13, <3>1, <4>1, AsleepType, ReadyNext DEF Rename
    <3>2. CASE Len(s.todo) # 1
      <4>. DEFINE new == [s EXCEPT !.todo = Tail(@), !.pc = "temp"]
      <4>1. new \in WorkerState /\ WellFormed(new)
        BY <1>1, <3>2, TailType
      <4>2. new.pc = "temp"
        BY <1>1 DEF WorkerState
      <4>3. Continue(w, new)
        BY <1>13, <3>2 DEF Rename
      <4>. HIDE DEF new
      <4>4. Held(new) = Nothing
        BY <4>2 DEF Held, Holds
      <4>. QED  BY <4>1, <4>3, <4>4, ReadyNext
    <3>. QED  BY <3>1, <3>2
  <2>4. Store!Install(w)
    BY <1>3, <1>4, <2>1, <2>2, <2>3 DEF Store!Install
  <2>. QED  BY <2>4 DEF Store!Next
<1>. QED
  BY <1>8, <1>9, <1>10, <1>11, <1>12, <1>13 DEF Write, Unlink, RemoveDir, Rename

\* A build that reads, and a worker that begins, have no temporary directory.
LEMMA BuildHolds ==
  ASSUME Types, NEW w \in Workers, Build(w)
  PROVE  UNCHANGED <<Kept, Ready>>
<1>. DEFINE s == worker[w]
<1>1. s \in WorkerState /\ s # Asleep /\ s.pc \in ReadPC /\ UNCHANGED lake
  BY DEF Types, Build, Register, ReadDocuments, ReadLines, ReadPC
<1>2. PICK new : Continue(w, new) /\ Held(new) = Nothing
  <2>1. Held(Asleep) = Nothing
    BY DEF Held, Holds
  <2>2. \A new : new.pc \in {"documents", "lines", "temp"} => Held(new) = Nothing
    BY DEF Held, Holds
  <2>3. CASE Fail(w)
    BY <2>1, <2>3 DEF Fail
  <2>4. CASE Register(w)
    <3>. DEFINE new == [s EXCEPT !.pc = "documents", !.seen = {t \in Bronze : HasFile(<<t, DayOf(w)>>)}]
    <3>1. new.pc \in {"documents", "lines", "temp"}
      BY <1>1 DEF WorkerState
    <3>2. Continue(w, new)
      BY <2>4 DEF Register
    <3>. HIDE DEF new
    <3>. QED  BY <2>2, <3>1, <3>2
  <2>5. CASE ReadDocuments(w) /\ Readable(w)
    <3>. DEFINE new == [s EXCEPT !.pc = "lines",
                               !.sales = Documents(Table(w, "head"), Table(w, "line"))]
    <3>1. new.pc \in {"documents", "lines", "temp"}
      BY <1>1 DEF WorkerState
    <3>2. Continue(w, new)
      BY <2>5 DEF ReadDocuments
    <3>. HIDE DEF new
    <3>. QED  BY <2>2, <3>1, <3>2
  <2>6. CASE ReadLines(w) /\ Readable(w)
    <3>. DEFINE new == [s EXCEPT !.pc = "temp",
                   !.todo = <<[path |-> <<"sales", s.day>>, frame |-> s.sales],
                              [path |-> <<"items", s.day>>,
                               frame |-> Lines(Table(w, "head"), Table(w, "line"))]>>]
    <3>1. new.pc \in {"documents", "lines", "temp"}
      BY <1>1 DEF WorkerState
    <3>2. Continue(w, new)
      BY <2>6 DEF ReadLines
    <3>. HIDE DEF new
    <3>. QED  BY <2>2, <3>1, <3>2
  <2>. QED
    BY <2>3, <2>4, <2>5, <2>6 DEF Build, ReadDocuments, ReadLines
<1>3. \A v \in Workers : worker'[v] = IF v = w THEN new ELSE worker[v]
  BY <1>2 DEF Continue, Types
<1>4. Held(worker[w]) = Nothing
  BY <1>1 DEF Held, Holds, ReadPC
<1>5. Ready' = [v \in Workers |-> Held(worker'[v])]
  BY DEF Ready, Held, Holds, HasTemp, Target, Replacement
<1>6. Ready' = Ready
  BY <1>2, <1>3, <1>4, <1>5, ReadyHeld
<1>. QED  BY <1>1, <1>6 DEF Kept, HasFile

LEMMA BeginHolds ==
  ASSUME Types, NEW w \in Workers, NEW s \in WorkerState, WellFormed(s),
         s.pc \in {"temp", "register"}, Begin(w, s), UNCHANGED lake
  PROVE  UNCHANGED <<Kept, Ready>>
<1>1. worker[w] = Asleep
  BY DEF Begin
<1>2. ASSUME NEW v \in Workers
      PROVE  Held(worker'[v]) = Held(worker[v])
  <2>1. CASE v = w
    <3>1. \A b : [s EXCEPT !.alone = b].pc = s.pc
      BY DEF WorkerState
    <3>2. \E b : worker'[w] = [s EXCEPT !.alone = b]
      BY BeginType, Zenon
    <3>3. worker'[w].pc = s.pc
      BY <3>1, <3>2
    <3>. QED  BY <1>1, <2>1, <3>3 DEF Held, Holds
  <2>2. CASE v # w /\ v \in Busy
    <3>1. worker[v] \in WorkerState /\ worker[v] # Asleep
      BY <2>2 DEF Busy, Types
    <3>2. /\ [worker[v] EXCEPT !.alone = FALSE] # Asleep
          /\ [worker[v] EXCEPT !.alone = FALSE].pc = worker[v].pc
          /\ [worker[v] EXCEPT !.alone = FALSE].todo = worker[v].todo
      BY <3>1, AwakeDiffers DEF WorkerState
    <3>3. worker'[v] = [worker[v] EXCEPT !.alone = FALSE] \/ worker'[v] = worker[v]
      BY <2>2, BeginType
    <3>. QED  BY <3>1, <3>2, <3>3 DEF Held, Holds
  <2>3. CASE v # w /\ v \notin Busy
    BY <2>3, BeginType
  <2>. QED  BY <2>1, <2>2, <2>3
<1>3. Ready' = [v \in Workers |-> Held(worker'[v])]
  BY DEF Ready, Held, Holds, HasTemp, Target, Replacement
<1>. QED  BY <1>2, <1>3, ReadyHeld DEF Kept, HasFile

LEMMA StepStore == Types /\ [Next]_lakeVars => [Store!Next]_<<Kept, Ready>>
<1>. SUFFICES ASSUME Types, [Next]_lakeVars PROVE Store!Next \/ UNCHANGED <<Kept, Ready>>
  OBVIOUS
<1>1. ASSUME NEW w \in Workers, Write(w) \/ Build(w)
      PROVE  Store!Next \/ UNCHANGED <<Kept, Ready>>
  BY <1>1, WriteStep, BuildHolds
<1>2. ASSUME NEW w \in Workers, Crash(w)
      PROVE  Store!Next \/ UNCHANGED <<Kept, Ready>>
  BY <1>2, FailStep DEF Crash
<1>3. ASSUME NEW w \in Workers, NEW t \in Bronze, NEW d \in SalesDays, Ingest(w, t, d)
      PROVE  Store!Next \/ UNCHANGED <<Kept, Ready>>
  BY <1>3, IngestState, BeginHolds DEF Ingest
<1>4. ASSUME NEW w \in Workers, NEW d \in SalesDays, StartBuild(w, d)
      PROVE  Store!Next \/ UNCHANGED <<Kept, Ready>>
  BY <1>4, BuildState, BeginHolds DEF StartBuild
<1>5. CASE UNCHANGED <<lake, worker>>
  BY <1>5 DEF Kept, HasFile, Ready, HasTemp, Target, Replacement
<1>. QED
  BY <1>1, <1>2, <1>3, <1>4, <1>5 DEF Next, LateDocument, lakeVars

LEMMA TypesAreEnough == Types => TypeOK
BY TargetType DEF Types, TypeOK, Dirs, Busy, HasTemp, WritePC

(* Directories, workers and what they are about to write stay well formed.      *)
THEOREM TypeCorrect == Spec => []TypeOK
BY TypesAreEnough, InitTypes, StepTypes, PTL DEF Spec

(* The two steps of rmtree, the rename, the failures and the deaths of any        *)
(* number of workers, in any order, are steps of PartitionStore: a partition is   *)
(* dropped only by someone who holds its complete replacement, and is never        *)
(* written over (write_partition).                                            *)
THEOREM LakeIsAStore == Spec => ImplementsStore
<1>1. Init => Types /\ Store!Init
  BY InitTypes, InitStore
<1>2. Types /\ [Next]_lakeVars => Types' /\ [Store!Next]_<<Kept, Ready>>
  BY StepTypes, StepStore
<1>. QED  BY <1>1, <1>2, PTL DEF Spec, ImplementsStore, Store!Spec, Store!storeVars

-----------------------------------------------------------------------------
(* A worker that is alone with its day.                                      *)

\* What the bronze of a day holds, and what its silver should.
Present(d) == {t \in Bronze : HasFile(<<t, d>>)}
FrameOf(t, d) == IF HasFile(<<t, d>>) THEN lake[<<t, d>>].frame ELSE {}
Joined(d) == FrameOf("head", d) \cap FrameOf("line", d)
Replacing(t, d) == [path |-> <<t, d>>, frame |-> Joined(d)]

\* The directory is as the last look at it, or the last step of rmtree, left it.
OnDisk(s) ==
    /\ s.pc = "unlink" => lake[s.todo[1].path] # Gone
    /\ s.pc = "rmdir" => lake[s.todo[1].path] = Bare
    /\ s.pc = "rename" => lake[s.todo[1].path] = Gone

\* A build knows the bronze as it is.
UpToDate(s) ==
    /\ s.pc \in {"documents", "lines"} => s.seen = Present(s.day)
    /\ s.pc = "lines" => s.sales = Joined(s.day)
    /\ s.pc \in WritePC =>
         \/ s.todo = <<Replacing("sales", s.day), Replacing("items", s.day)>>
         \/ /\ s.todo = <<Replacing("items", s.day)>>
            /\ lake[<<"sales", s.day>>] = Holding(Joined(s.day))

Settled(s) == /\ s.pc \in ReadPC => s.op = "build"
              /\ s.alone => OnDisk(s) /\ (s.op = "build" => UpToDate(s))

AloneInv ==
    /\ Types
    /\ begun \in Nat
    /\ \A w \in Busy : Settled(worker[w])
    /\ \A v, w \in Busy : v # w /\ worker[w].alone => DayOf(v) # DayOf(w)

LEMMA SettledNext ==
  ASSUME NEW v, NEW s, worker'[v] = s, Settled(s)'
  PROVE  Settled(worker[v])'
  BY DEF Settled, OnDisk, UpToDate, Present, Joined, FrameOf, Replacing, HasFile

\* What another day's directories say does not matter to a worker.
LEMMA Locality ==
  ASSUME Types, Types', NEW s \in WorkerState, WellFormed(s), Settled(s),
         \A path \in Paths : path[2] = s.day => lake'[path] = lake[path]
  PROVE  Settled(s)'
<1>1. \A t \in Bronze \cup Silver : <<t, s.day>> \in Paths /\ lake'[<<t, s.day>>] = lake[<<t, s.day>>]
  BY DEF Paths, WorkerState
<1>2. /\ Present(s.day)' = Present(s.day) /\ Joined(s.day)' = Joined(s.day)
  BY <1>1 DEF Present, Joined, FrameOf, HasFile, Bronze
<1>3. s.pc \in WritePC => lake'[s.todo[1].path] = lake[s.todo[1].path]
  <2>1. SUFFICES ASSUME s.pc \in WritePC PROVE s.todo[1].path \in Paths /\ s.todo[1].path[2] = s.day
    OBVIOUS
  <2>2. s.todo \in Seq(Job) /\ s.todo # <<>> /\ s # Asleep
    BY <2>1, AwakeDiffers DEF WellFormed, WorkerState
  <2>3. 1 \in DOMAIN s.todo
    BY <2>2
  <2>4. s.todo[1] \in Job
    BY <2>2, <2>3
  <2>. QED  BY <2>2, <2>3, <2>4 DEF Job, WellFormed
<1>4. OnDisk(s) => OnDisk(s)'
  BY <1>3 DEF OnDisk, WritePC
<1>5. UpToDate(s) => UpToDate(s)'
  <2>1. lake'[<<"sales", s.day>>] = lake[<<"sales", s.day>>]
    BY <1>1 DEF Silver
  <2>2. \A t : Replacing(t, s.day)' = Replacing(t, s.day)
    BY <1>2 DEF Replacing
  <2>. QED  BY <1>2, <2>1, <2>2 DEF UpToDate
<1>. QED  BY <1>4, <1>5 DEF Settled

\* A step of one worker is the others' business only within its day.
LEMMA OwnStep ==
  ASSUME AloneInv, Types', NEW w \in Workers, worker[w] # Asleep,
         NEW s \in {Asleep} \cup WorkerState, Continue(w, s), WellFormed(s),
         s # Asleep => s.day = DayOf(w) /\ s.alone = worker[w].alone /\ Settled(s)',
         \A path \in Paths : path[2] # DayOf(w) => lake'[path] = lake[path],
         begun' \in Nat
  PROVE  AloneInv'
<1>1. \A v \in Workers : worker'[v] = IF v = w THEN s ELSE worker[v]
  BY ContinueType DEF AloneInv
<1>2. /\ Busy = {v \in Workers : worker[v] # Asleep} /\ Busy' = {v \in Workers : worker'[v] # Asleep}
      /\ \A v : DayOf(v) = worker[v].day /\ DayOf(v)' = worker'[v].day
  BY DEF Busy, DayOf
<1>3. \A u, v \in Busy' : u # v /\ worker'[v].alone => worker'[u].day # worker'[v].day
  BY <1>1, <1>2 DEF AloneInv
<1>4. ASSUME NEW v \in Busy' PROVE Settled(worker[v])'
  <2>1. CASE v = w
    BY <1>1, <1>2, <1>4, <2>1, SettledNext
  <2>2. CASE v # w
    <3>1. PICK s2 \in WorkerState : worker'[v] = s2 /\ worker[v] = s2
      BY <1>1, <1>2, <1>4, <2>2 DEF AloneInv, Types
    <3>2. WellFormed(s2) /\ Settled(s2) /\ v \in Busy
      BY <1>1, <1>2, <1>4, <2>2, <3>1 DEF AloneInv, Types
    <3>3. CASE s2.alone
      <4>1. s2.day # DayOf(w)
        BY <1>2, <2>2, <3>1, <3>2, <3>3 DEF AloneInv
      <4>2. \A path \in Paths : path[2] = s2.day => lake'[path] = lake[path]
        BY <4>1
      <4>3. Settled(s2)'
        BY <3>2, <4>2, Locality DEF AloneInv
      <4>. QED  BY <3>1, <4>3, SettledNext
    <3>4. CASE ~s2.alone
      <4>1. Settled(s2)'
        BY <3>2, <3>4 DEF Settled
      <4>. QED  BY <3>1, <4>1, SettledNext
    <3>. QED  BY <3>3, <3>4
  <2>. QED  BY <2>1, <2>2
<1>. QED  BY <1>2, <1>3, <1>4 DEF AloneInv

\* A write to the silver leaves the bronze, and the other silver table, as they are.
LEMMA SilverStep ==
  ASSUME Types, NEW d \in SalesDays, NEW t \in Silver, NEW dir,
         lake' = lake \/ lake' = [lake EXCEPT ![<<t, d>>] = dir]
  PROVE  /\ Present(d)' = Present(d) /\ Joined(d)' = Joined(d)
         /\ \A u : Replacing(u, d)' = Replacing(u, d)
         /\ \A u \in Silver : u # t => lake'[<<u, d>>] = lake[<<u, d>>]
<1>1. \A u \in Bronze \cup Silver : u # t => <<u, d>> \in Paths /\ lake'[<<u, d>>] = lake[<<u, d>>]
  BY DEF Types, Paths
<1>2. \A u \in Bronze : lake'[<<u, d>>] = lake[<<u, d>>]
  BY <1>1 DEF Bronze, Silver
<1>3. Present(d)' = Present(d) /\ Joined(d)' = Joined(d)
  BY <1>2 DEF Present, Joined, FrameOf, HasFile, Bronze
<1>. QED  BY <1>1, <1>3 DEF Replacing

\* What is left to do for a build that is alone and writes.
LEMMA BuildTodo ==
  ASSUME NEW s \in WorkerState, s.pc \in WritePC, UpToDate(s)
  PROVE  \/ /\ s.todo = <<Replacing("sales", s.day), Replacing("items", s.day)>>
            /\ s.todo[1].path = <<"sales", s.day>> /\ s.todo[1].frame = Joined(s.day)
            /\ Len(s.todo) = 2 /\ Tail(s.todo) = <<Replacing("items", s.day)>>
         \/ /\ s.todo = <<Replacing("items", s.day)>>
            /\ s.todo[1].path = <<"items", s.day>> /\ s.todo[1].frame = Joined(s.day)
            /\ Len(s.todo) = 1
            /\ lake[<<"sales", s.day>>] = Holding(Joined(s.day))
<1>1. \A t : Replacing(t, s.day).path = <<t, s.day>> /\ Replacing(t, s.day).frame = Joined(s.day)
  BY DEF Replacing
<1>2. CASE s.todo = <<Replacing("sales", s.day), Replacing("items", s.day)>>
  BY <1>1, <1>2
<1>3. CASE s.todo = <<Replacing("items", s.day)>> /\ lake[<<"sales", s.day>>] = Holding(Joined(s.day))
  BY <1>1, <1>3
<1>. QED  BY <1>2, <1>3 DEF UpToDate, WritePC, ReadPC

\* A phase of a write, in which only the directory written to changes.
LEMMA PhaseSettled ==
  ASSUME Types, NEW s \in WorkerState, WellFormed(s), s.pc \in WritePC, Settled(s),
         NEW pc \in WritePC, NEW dir,
         lake' = lake \/ lake' = [lake EXCEPT ![s.todo[1].path] = dir],
         s.alone => OnDisk([s EXCEPT !.pc = pc])'
  PROVE  Settled([s EXCEPT !.pc = pc])'
<1>. DEFINE new == [s EXCEPT !.pc = pc]
<1>1. /\ new.pc = pc /\ new.todo = s.todo /\ new.day = s.day /\ new.op = s.op /\ new.alone = s.alone
      /\ s.day \in SalesDays
  BY DEF WorkerState
<1>. HIDE DEF new
<1>2. ASSUME s.alone, s.op = "build" PROVE UpToDate(new)'
  <2>1. UpToDate(s)
    BY <1>2 DEF Settled
  <2>2. PICK t \in Silver : s.todo[1].path = <<t, s.day>>
    BY <2>1, BuildTodo DEF Silver
  <2>3. /\ Joined(s.day)' = Joined(s.day) /\ \A u : Replacing(u, s.day)' = Replacing(u, s.day)
        /\ \A u \in Silver : u # t => lake'[<<u, s.day>>] = lake[<<u, s.day>>]
    BY <1>1, <2>2, SilverStep
  <2>4. CASE s.todo = <<Replacing("sales", s.day), Replacing("items", s.day)>>
    <3>1. new.todo = <<Replacing("sales", new.day), Replacing("items", new.day)>>'
      BY <1>1, <2>3, <2>4
    <3>. QED  BY <1>1, <3>1 DEF UpToDate, WritePC
  <2>5. CASE s.todo = <<Replacing("items", s.day)>> /\ s.todo[1].path = <<"items", s.day>>
             /\ lake[<<"sales", s.day>>] = Holding(Joined(s.day))
    <3>1. lake'[<<"sales", s.day>>] = lake[<<"sales", s.day>>]
      <4>1. t = "items"
        BY <2>2, <2>5
      <4>. QED  BY <2>3, <4>1 DEF Silver
    <3>2. /\ new.todo = <<Replacing("items", new.day)>>'
          /\ lake'[<<"sales", new.day>>] = Holding(Joined(new.day))'
      BY <1>1, <2>3, <2>5, <3>1 DEF Holding
    <3>. QED  BY <1>1, <3>2 DEF UpToDate, WritePC
  <2>. QED  BY <2>1, <2>4, <2>5, BuildTodo
<1>3. (s.alone => OnDisk(new)')
  BY DEF new
<1>4. Settled(new)'
  BY <1>1, <1>2, <1>3 DEF Settled, WritePC, ReadPC
<1>. QED  BY <1>4 DEF new

\* What a worker that is alone leaves when it goes to sleep.
Left(w) ==
    worker[w].alone /\ worker'[w] = Asleep =>
       /\ lake'[Target(w)] = Holding(Replacement(w))
       /\ worker[w].op = "build" =>
            \A t \in Silver : lake'[<<t, DayOf(w)>>] = Holding(Joined(DayOf(w)))

LEMMA RenameAlone ==
  ASSUME AloneInv, Types', NEW w \in Workers, Rename(w), ~Stopped(w)
  PROVE  AloneInv' /\ Left(w)
<1>0. PICK s : s = worker[w]
  OBVIOUS
<1>. DEFINE dir == Holding(Replacement(w))
<1>1. /\ s \in WorkerState /\ WellFormed(s) /\ Settled(s) /\ s # Asleep
      /\ s.pc \in WritePC /\ s.pc = "rename" /\ s.day \in SalesDays
  BY <1>0 DEF AloneInv, Types, Rename, WritePC, Busy, WorkerState
<1>2. /\ Target(w) \in Paths /\ Target(w)[2] = s.day /\ Target(w) = s.todo[1].path
      /\ Replacement(w) = s.todo[1].frame /\ DayOf(w) = s.day
  BY <1>0, <1>1, TargetType DEF Target, Replacement, DayOf
<1>3. /\ lake' = [lake EXCEPT ![Target(w)] = dir] /\ lake'[Target(w)] = dir
      /\ begun' \in Nat
      /\ \A path \in Paths : path[2] # DayOf(w) => lake'[path] = lake[path]
  BY <1>0, <1>2 DEF Rename, AloneInv, Types
<1>4. CASE Len(s.todo) = 1
  <2>1. Continue(w, Asleep)
    BY <1>0, <1>4 DEF Rename
  <2>2. AloneInv'
    BY <1>0, <1>1, <1>3, <2>1, AsleepType, OwnStep
  <2>3. ASSUME s.alone, s.op = "build"
        PROVE  \A t \in Silver : lake'[<<t, s.day>>] = Holding(Joined(s.day))
    <3>1. UpToDate(s)
      BY <1>0, <1>1, <2>3 DEF Settled
    <3>2. /\ s.todo[1].path = <<"items", s.day>> /\ s.todo[1].frame = Joined(s.day)
          /\ lake[<<"sales", s.day>>] = Holding(Joined(s.day))
      BY <1>0, <1>1, <1>4, <3>1, BuildTodo
    <3>3. <<"sales", s.day>> \in Paths /\ <<"sales", s.day>> # <<"items", s.day>>
      BY <1>0, <1>1 DEF Paths, Silver
    <3>4. lake'[<<"sales", s.day>>] = lake[<<"sales", s.day>>]
      BY <1>0, <1>2, <1>3, <3>2, <3>3 DEF AloneInv, Types
    <3>. QED  BY <1>0, <1>2, <1>3, <3>2, <3>4 DEF Silver
  <2>. QED  BY <1>0, <1>2, <1>3, <2>2, <2>3 DEF Left
<1>5. CASE Len(s.todo) # 1
  <2>. DEFINE new == [s EXCEPT !.todo = Tail(@), !.pc = "temp"]
  <2>1. Continue(w, new) /\ new \in WorkerState /\ WellFormed(new)
    BY <1>0, <1>1, <1>5, TailType DEF Rename
  <2>2. /\ new.pc = "temp" /\ new.todo = Tail(s.todo) /\ new.day = s.day /\ new.op = s.op
        /\ new.alone = s.alone /\ new # Asleep
    BY <1>0, <1>1, AwakeDiffers DEF WorkerState
  <2>. HIDE DEF new
  <2>3. OnDisk(new)'
    BY <1>0, <2>2 DEF OnDisk
  <2>4. ASSUME s.alone, s.op = "build" PROVE UpToDate(new)'
    <3>1. UpToDate(s)
      BY <1>0, <1>1, <2>4 DEF Settled
    <3>2. /\ s.todo[1].path = <<"sales", s.day>> /\ s.todo[1].frame = Joined(s.day)
          /\ Tail(s.todo) = <<Replacing("items", s.day)>>
      BY <1>0, <1>1, <1>5, <3>1, BuildTodo
    <3>3. Joined(s.day)' = Joined(s.day) /\ \A u : Replacing(u, s.day)' = Replacing(u, s.day)
      BY <1>0, <1>1, <1>2, <1>3, <3>2, SilverStep DEF Silver, AloneInv
    <3>4. new.todo = <<Replacing("items", new.day)>>'
      BY <1>0, <2>2, <3>2, <3>3
    <3>5. lake'[<<"sales", new.day>>] = Holding(Joined(new.day))'
      BY <1>0, <1>2, <1>3, <2>2, <3>2, <3>3 DEF Holding
    <3>. QED  BY <1>0, <2>2, <3>4, <3>5 DEF UpToDate, ReadPC, WritePC
  <2>5. Settled(new)'
    BY <1>0, <2>2, <2>3, <2>4 DEF Settled, ReadPC
  <2>6. AloneInv'
    BY <1>0, <1>1, <1>2, <1>3, <2>1, <2>2, <2>5, OwnStep
  <2>7. worker'[w] # Asleep
    BY <1>0, <2>1, <2>2, ContinueType DEF AloneInv
  <2>. QED  BY <1>0, <2>6, <2>7 DEF Left
<1>. QED  BY <1>4, <1>5

LEMMA WriteAloneStep ==
  ASSUME AloneInv, NEW w \in Workers, Write(w)
  PROVE  AloneInv' /\ Left(w)
<1>0. PICK s : s = worker[w]
  OBVIOUS
<1>1. /\ s \in WorkerState /\ WellFormed(s) /\ Settled(s) /\ s # Asleep /\ s.pc \in WritePC
  BY <1>0 DEF AloneInv, Types, Write, WriteTemp, Look, Unlink, RemoveDir, Rename, WritePC, Busy
<1>2. /\ Target(w) \in Paths /\ Target(w)[2] = s.day /\ Target(w) = s.todo[1].path
      /\ DayOf(w) = s.day /\ begun' \in Nat
  BY <1>0, <1>1, TargetType
     DEF Target, DayOf, AloneInv, Write, WriteTemp, Look, Unlink, RemoveDir, Rename
<1>3. Types'
  BY <1>0, WriteTypes DEF AloneInv
<1>4. ASSUME NEW pc \in WritePC, NEW dir, Continue(w, [s EXCEPT !.pc = pc]),
             lake' = lake \/ lake' = [lake EXCEPT ![Target(w)] = dir],
             s.alone => OnDisk([s EXCEPT !.pc = pc])'
      PROVE  AloneInv' /\ Left(w)
  <2>. DEFINE new == [s EXCEPT !.pc = pc]
  <2>1. new \in WorkerState /\ WellFormed(new)
    BY <1>0, <1>1, PhaseType
  <2>2. Settled(new)'
    BY <1>0, <1>1, <1>2, <1>4, PhaseSettled DEF AloneInv
  <2>3. new.day = s.day /\ new.alone = s.alone /\ new # Asleep
    BY <1>0, <1>1, <2>1, AwakeDiffers DEF WorkerState
  <2>. HIDE DEF new
  <2>4. \A path \in Paths : path[2] # DayOf(w) => lake'[path] = lake[path]
    BY <1>0, <1>2, <1>4 DEF AloneInv, Types
  <2>5. Continue(w, new)
    BY <1>0, <1>4 DEF new
  <2>6. AloneInv'
    BY <1>0, <1>1, <1>2, <1>3, <2>1, <2>2, <2>3, <2>4, <2>5, OwnStep
  <2>7. worker'[w] # Asleep
    BY <1>0, <2>1, <2>3, <2>5, ContinueType DEF AloneInv
  <2>. QED  BY <1>0, <2>6, <2>7 DEF Left
<1>5. ASSUME ~s.alone, Fail(w), UNCHANGED lake
      PROVE  AloneInv' /\ Left(w)
  <2>1. AloneInv'
    BY <1>0, <1>1, <1>2, <1>3, <1>5, AsleepType, OwnStep DEF Fail
  <2>. QED  BY <1>0, <1>5, <2>1 DEF Left
<1>6. \A pc \in WritePC : /\ [s EXCEPT !.pc = pc].pc = pc
                         /\ [s EXCEPT !.pc = pc].todo = s.todo
  BY <1>0, <1>1 DEF WorkerState
<1>7. CASE WriteTemp(w)
  <2>1. Continue(w, [s EXCEPT !.pc = "look"]) /\ lake' = lake
    BY <1>0, <1>7 DEF WriteTemp, NameTaken
  <2>2. OnDisk([s EXCEPT !.pc = "look"])'
    BY <1>0, <1>6 DEF OnDisk, WritePC
  <2>. QED  BY <1>0, <1>4, <2>1, <2>2 DEF WritePC
<1>8. CASE Look(w)
  <2>1. PICK pc \in WritePC : /\ Continue(w, [s EXCEPT !.pc = pc]) /\ lake' = lake
                            /\ pc = IF lake[Target(w)] = Gone THEN "rename" ELSE "unlink"
    BY <1>0, <1>8 DEF Look, WritePC
  <2>2. OnDisk([s EXCEPT !.pc = pc])'
    <3>1. \/ pc = "rename" /\ lake'[s.todo[1].path] = Gone
          \/ pc = "unlink" /\ lake'[s.todo[1].path] # Gone
      BY <1>2, <2>1
    <3>. QED  BY <1>6, <3>1 DEF OnDisk, Gone
  <2>. QED  BY <1>4, <2>1, <2>2
<1>9. CASE Unlink(w)
  <2>1. CASE lake[Target(w)] = Gone
    <3>1. ~s.alone
      BY <1>0, <1>1, <1>2, <1>9, <2>1 DEF Settled, OnDisk, Unlink
    <3>. QED  BY <1>0, <1>5, <1>9, <2>1, <3>1 DEF Unlink
  <2>2. CASE lake[Target(w)] # Gone
    <3>1. /\ Continue(w, [s EXCEPT !.pc = "rmdir"])
          /\ lake' = [lake EXCEPT ![Target(w)] = Bare] /\ lake'[Target(w)] = Bare
      BY <1>0, <1>2, <1>9, <2>2 DEF Unlink, AloneInv, Types
    <3>2. OnDisk([s EXCEPT !.pc = "rmdir"])'
      BY <1>0, <1>2, <1>6, <3>1 DEF OnDisk, WritePC, Bare
    <3>. QED  BY <1>0, <1>4, <3>1, <3>2 DEF WritePC
  <2>. QED  BY <2>1, <2>2
<1>10. CASE RemoveDir(w)
  <2>1. CASE lake[Target(w)] # Bare
    <3>1. ~s.alone
      BY <1>0, <1>1, <1>2, <1>10, <2>1 DEF Settled, OnDisk, RemoveDir
    <3>. QED  BY <1>0, <1>5, <1>10, <2>1, <3>1 DEF RemoveDir
  <2>2. CASE lake[Target(w)] = Bare
    <3>1. /\ Continue(w, [s EXCEPT !.pc = "rename"])
          /\ lake' = [lake EXCEPT ![Target(w)] = Gone] /\ lake'[Target(w)] = Gone
      BY <1>0, <1>2, <1>10, <2>2 DEF RemoveDir, AloneInv, Types
    <3>2. OnDisk([s EXCEPT !.pc = "rename"])'
      BY <1>0, <1>2, <1>6, <3>1 DEF OnDisk, WritePC, Gone
    <3>. QED  BY <1>0, <1>4, <3>1, <3>2 DEF WritePC
  <2>. QED  BY <2>1, <2>2
<1>11. CASE Rename(w)
  <2>1. CASE Stopped(w)
    <3>1. ~s.alone
      BY <1>0, <1>1, <1>2, <1>11, <2>1 DEF Settled, OnDisk, Rename, Stopped, HasFile
    <3>. QED  BY <1>0, <1>5, <1>11, <2>1, <3>1 DEF Rename
  <2>2. CASE ~Stopped(w)
    BY <1>0, <1>3, <1>11, <2>2, RenameAlone
  <2>. QED  BY <2>1, <2>2
<1>. QED  BY <1>7, <1>8, <1>9, <1>10, <1>11 DEF Write

\* Alone, a build finds every file it has registered.
LEMMA BuildAloneStep ==
  ASSUME AloneInv, NEW w \in Workers, Build(w)
  PROVE  AloneInv' /\ (worker[w].alone => worker'[w] # Asleep)
<1>0. PICK s : s = worker[w]
  OBVIOUS
<1>1. /\ s \in WorkerState /\ WellFormed(s) /\ Settled(s) /\ s # Asleep /\ s.pc \in ReadPC
      /\ s.op = "build" /\ DayOf(w) = s.day /\ s.day \in SalesDays
  BY <1>0 DEF AloneInv, Types, Settled, Build, Register, ReadDocuments, ReadLines, ReadPC, Busy,
              DayOf, WorkerState
<1>2. Types' /\ UNCHANGED lake /\ begun' \in Nat
  BY BuildTypes DEF AloneInv, Build, Register, ReadDocuments, ReadLines
<1>3. /\ Present(s.day)' = Present(s.day) /\ Joined(s.day)' = Joined(s.day)
      /\ \A t : Replacing(t, s.day)' = Replacing(t, s.day)
  BY <1>2 DEF Present, Joined, FrameOf, Replacing, HasFile
<1>4. ASSUME s.alone, s.pc # "register"
      PROVE  Readable(w) /\ \A t \in Bronze : Table(w, t) = FrameOf(t, s.day)
  <2>1. s.seen = Present(s.day)
    BY <1>1, <1>4 DEF Settled, UpToDate, ReadPC
  <2>. QED  BY <1>0, <1>1, <2>1 DEF Readable, Table, FrameOf, Present
<1>5. ASSUME NEW new \in WorkerState, Continue(w, new), WellFormed(new), new.day = s.day,
             new.op = "build", new.alone = s.alone, new.pc \in {"documents", "lines", "temp"},
             s.alone => UpToDate(new)'
      PROVE  AloneInv' /\ worker'[w] # Asleep
  <2>1. Settled(new)'
    BY <1>5 DEF Settled, OnDisk
  <2>2. new # Asleep
    BY AwakeDiffers
  <2>3. AloneInv'
    BY <1>0, <1>1, <1>2, <1>5, <2>1, <2>2, OwnStep
  <2>. QED  BY <1>5, <2>2, <2>3, ContinueType DEF AloneInv
<1>6. ASSUME ~s.alone, Fail(w) PROVE AloneInv'
  BY <1>0, <1>1, <1>2, <1>6, AsleepType, OwnStep DEF Fail
<1>7. CASE Register(w)
  <2>. DEFINE new == [s EXCEPT !.pc = "documents", !.seen = {t \in Bronze : HasFile(<<t, DayOf(w)>>)}]
  <2>1. Continue(w, new) /\ new \in WorkerState /\ WellFormed(new)
    BY <1>0, <1>1, <1>7, AwakeDiffers DEF Register, WorkerState, WellFormed, ReadPC, WritePC
  <2>2. /\ new.pc = "documents" /\ new.seen = Present(s.day) /\ new.day = s.day
        /\ new.op = "build" /\ new.alone = s.alone
    BY <1>1 DEF WorkerState, Present
  <2>3. PICK settled \in WorkerState : settled = new
    BY <2>1
  <2>4. UpToDate(settled)'
    BY <1>3, <2>2, <2>3 DEF UpToDate, WritePC
  <2>. HIDE DEF new
  <2>. QED  BY <1>0, <1>5, <2>1, <2>2, <2>3, <2>4
<1>8. CASE ReadDocuments(w)
  <2>1. CASE Readable(w)
    <3>. DEFINE docs == Documents(Table(w, "head"), Table(w, "line"))
    <3>1. docs \in Frames
      BY <1>0, <1>8, <2>1, ReadableFrames DEF Documents, Frames, Bronze, AloneInv, ReadDocuments
    <3>2. PICK new : new = [s EXCEPT !.pc = "lines", !.sales = docs]
      OBVIOUS
    <3>3. Continue(w, new)
      BY <1>0, <1>8, <2>1, <3>2 DEF ReadDocuments
    <3>. HIDE DEF docs
    <3>4. new \in WorkerState /\ WellFormed(new)
      BY <1>1, <3>1, <3>2, AwakeDiffers DEF WorkerState, WellFormed, ReadPC, WritePC
    <3>5. /\ new.pc = "lines" /\ new.sales = docs /\ new.day = s.day /\ new.seen = s.seen
          /\ new.op = "build" /\ new.alone = s.alone
      BY <1>1, <3>2 DEF WorkerState
    <3>6. s.alone => docs = Joined(s.day) /\ s.seen = Present(s.day)
      BY <1>0, <1>1, <1>4, <1>8 DEF docs, Documents, Joined, Bronze, ReadDocuments, Settled, UpToDate
    <3>7. s.alone => UpToDate(new)'
      BY <1>3, <3>5, <3>6 DEF UpToDate, WritePC
    <3>. QED  BY <1>5, <3>3, <3>4, <3>5, <3>7
  <2>2. CASE ~Readable(w)
    BY <1>0, <1>4, <1>6, <1>8, <2>2 DEF ReadDocuments
  <2>. QED  BY <2>1, <2>2
<1>9. CASE ReadLines(w)
  <2>1. CASE Readable(w)
    <3>. DEFINE rows == Lines(Table(w, "head"), Table(w, "line"))
                one == [path |-> <<"sales", s.day>>, frame |-> s.sales]
                two == [path |-> <<"items", s.day>>, frame |-> rows]
    <3>1. PICK new : new = [s EXCEPT !.pc = "temp", !.todo = <<one, two>>]
      OBVIOUS
    <3>2. Continue(w, new)
      BY <1>0, <1>9, <2>1, <3>1 DEF ReadLines
    <3>3. new \in WorkerState /\ WellFormed(new)
      <4>1. worker'[w] = new /\ worker' \in [Workers -> {Asleep} \cup WorkerState]
            /\ WellFormed(worker'[w])
        <5>1. worker' = [worker EXCEPT ![w] = new]
          BY <3>2 DEF Continue
        <5>2. \A v \in Workers : WellFormed(worker'[v])
          BY <1>2 DEF Types, WellFormed
        <5>. QED  BY <1>2, <5>1, <5>2 DEF AloneInv, Types
      <4>2. new.pc = "temp"
        BY <1>1, <3>1 DEF WorkerState
      <4>3. new # Asleep
        BY <4>2, AwakeDiffers
      <4>. QED  BY <4>1, <4>3
    <3>4. /\ new.pc = "temp" /\ new.todo = <<one, two>> /\ new.day = s.day
          /\ new.op = "build" /\ new.alone = s.alone
      BY <1>1, <3>1 DEF WorkerState
    <3>5. s.alone => rows = Joined(s.day) /\ s.sales = Joined(s.day)
      BY <1>0, <1>1, <1>4, <1>9
         DEF Lines, Documents, Joined, Bronze, ReadLines, Settled, UpToDate
    <3>6. s.alone => one = Replacing("sales", s.day) /\ two = Replacing("items", s.day)
      BY <3>5 DEF Replacing
    <3>. HIDE DEF rows, one, two
    <3>7. s.alone => UpToDate(new)'
      BY <1>3, <3>4, <3>6 DEF UpToDate, WritePC
    <3>. QED  BY <1>5, <3>2, <3>3, <3>4, <3>7
  <2>2. CASE ~Readable(w)
    BY <1>0, <1>4, <1>6, <1>9, <2>2 DEF ReadLines
  <2>. QED  BY <2>1, <2>2
<1>. QED  BY <1>0, <1>7, <1>8, <1>9 DEF Build

\* Whoever begins with a day takes from those at work on it that they are alone.
LEMMA BeginAlone ==
  ASSUME AloneInv, NEW w \in Workers, NEW s \in WorkerState, WellFormed(s), Begin(w, s),
         UNCHANGED <<icg, lake, leftover>>,
         \/ s.pc = "temp" /\ s.op = "ingest"
         \/ s.pc = "register" /\ s.op = "build"
  PROVE  AloneInv'
<1>. DEFINE free == \A v \in Busy : DayOf(v) # s.day
<1>1. /\ worker' \in [Workers -> {Asleep} \cup WorkerState]
      /\ worker'[w] = [s EXCEPT !.alone = free]
      /\ \A v \in Workers : v # w =>
           worker'[v] = IF v \in Busy /\ DayOf(v) = s.day
                        THEN [worker[v] EXCEPT !.alone = FALSE] ELSE worker[v]
      /\ \A v \in Workers : WellFormed(worker'[v])
  BY BeginType DEF AloneInv
<1>2. Types' /\ begun' \in Nat /\ worker[w] = Asleep
  BY <1>1, SMTT(30) DEF AloneInv, Types, Begin, WellFormed
<1>3. /\ Busy = {v \in Workers : worker[v] # Asleep} /\ Busy' = {v \in Workers : worker'[v] # Asleep}
      /\ \A v : DayOf(v) = worker[v].day /\ DayOf(v)' = worker'[v].day
  BY DEF Busy, DayOf
<1>4. \A v \in Busy : worker[v] \in WorkerState /\ v # w
  BY <1>2, <1>3 DEF AloneInv, Types
<1>5. PICK b \in BOOLEAN : b = free
  BY Zenon
<1>. HIDE DEF free
<1>6. /\ worker'[w].day = s.day /\ (worker'[w].alone <=> free)
      /\ worker'[w].pc = s.pc /\ worker'[w].op = s.op
  <2>1. [s EXCEPT !.alone = b].day = s.day /\ [s EXCEPT !.alone = b].alone = b
        /\ [s EXCEPT !.alone = b].pc = s.pc /\ [s EXCEPT !.alone = b].op = s.op
    BY DEF WorkerState
  <2>2. worker'[w] = [s EXCEPT !.alone = b]
    BY <1>1, <1>5, Zenon
  <2>. QED  BY <1>5, <2>1, <2>2
<1>7. ASSUME NEW v \in Busy
      PROVE  /\ worker'[v].day = worker[v].day /\ worker'[v].pc = worker[v].pc
             /\ worker'[v].op = worker[v].op
             /\ worker'[v].alone => worker'[v] = worker[v] /\ DayOf(v) # s.day
  <2>1. worker[v] \in WorkerState /\ v # w /\ v \in Workers
    BY <1>3, <1>4
  <2>2. CASE DayOf(v) = s.day
    <3>1. worker'[v] = [worker[v] EXCEPT !.alone = FALSE]
      BY <1>1, <2>1, <2>2
    <3>2. /\ [worker[v] EXCEPT !.alone = FALSE].day = worker[v].day
          /\ [worker[v] EXCEPT !.alone = FALSE].pc = worker[v].pc
          /\ [worker[v] EXCEPT !.alone = FALSE].op = worker[v].op
          /\ [worker[v] EXCEPT !.alone = FALSE].alone = FALSE
      BY <2>1 DEF WorkerState
    <3>. QED  BY <3>1, <3>2
  <2>3. CASE DayOf(v) # s.day
    BY <1>1, <2>1, <2>3
  <2>. QED  BY <2>2, <2>3
<1>8. \A v \in Busy' : v = w \/ v \in Busy
  BY <1>1, <1>3
<1>9. ASSUME NEW u \in Busy', NEW v \in Busy', u # v, worker'[v].alone
      PROVE  worker'[u].day # worker'[v].day
  <2>1. CASE v = w
    BY <1>3, <1>6, <1>7, <1>8, <1>9, <2>1 DEF free
  <2>2. CASE u = w
    BY <1>3, <1>6, <1>7, <1>8, <1>9, <2>2
  <2>3. CASE u # w /\ v # w
    BY <1>3, <1>7, <1>8, <1>9, <2>3 DEF AloneInv
  <2>. QED  BY <2>1, <2>2, <2>3
<1>10. ASSUME NEW v \in Busy' PROVE Settled(worker[v])'
  <2>1. PICK new \in WorkerState : worker'[v] = new /\ WellFormed(new)
    BY <1>1, <1>3, <1>10
  <2>2. CASE v = w
    <3>1. \/ new.pc = "temp" /\ new.op = "ingest"
          \/ new.pc = "register" /\ new.op = "build"
      BY <1>6, <2>1, <2>2
    <3>2. Settled(new)'
      BY <3>1 DEF Settled, OnDisk, UpToDate, ReadPC, WritePC
    <3>. QED  BY <2>1, <3>2, SettledNext
  <2>3. CASE v # w
    <3>1. v \in Busy
      BY <1>8, <2>3
    <3>2. CASE new.alone
      <4>1. new = worker[v]
        BY <1>7, <2>1, <3>1, <3>2
      <4>2. Settled(new)
        BY <3>1, <4>1 DEF AloneInv
      <4>3. Settled(new)'
        BY <1>2, <2>1, <4>2, Locality DEF AloneInv
      <4>. QED  BY <2>1, <4>3, SettledNext
    <3>3. CASE ~new.alone
      <4>1. new.pc \in ReadPC => new.op = "build"
        BY <1>7, <2>1, <3>1 DEF AloneInv, Settled
      <4>2. Settled(new)'
        BY <3>3, <4>1 DEF Settled
      <4>. QED  BY <2>1, <4>2, SettledNext
    <3>. QED  BY <3>2, <3>3
  <2>. QED  BY <2>2, <2>3
<1>. QED  BY <1>2, <1>3, <1>9, <1>10 DEF AloneInv

\* Nobody moves but the documents of ICG.
LEMMA LateAlone ==
  ASSUME AloneInv, Types', begun' \in Nat, UNCHANGED <<lake, worker>>
  PROVE  AloneInv'
<1>1. Busy' = Busy /\ \A v : DayOf(v)' = DayOf(v)
  BY DEF Busy, DayOf
<1>2. \A s : Settled(s)' <=> Settled(s)
  BY DEF Settled, OnDisk, UpToDate, Present, Joined, FrameOf, Replacing, HasFile
<1>3. ASSUME NEW v \in Busy PROVE Settled(worker[v])'
  <2>1. PICK s : worker'[v] = s /\ worker[v] = s
    OBVIOUS
  <2>. QED  BY <1>2, <1>3, <2>1, SettledNext DEF AloneInv
<1>. QED  BY <1>1, <1>3 DEF AloneInv

LEMMA InitAlone == Init => AloneInv
  BY InitTypes DEF Init, AloneInv, Busy

LEMMA StepAlone == AloneInv /\ [Next]_lakeVars => AloneInv' /\ WriteAlone /\ BuildAlone
<1>. SUFFICES ASSUME AloneInv, [Next]_lakeVars PROVE AloneInv' /\ WriteAlone /\ BuildAlone
  OBVIOUS
<1>1. Types /\ Types' /\ begun \in Nat /\ \A n \in Nat : n + 1 # n
  BY StepTypes DEF AloneInv
<1>2. ASSUME NEW w \in Workers, Write(w)
      PROVE  AloneInv' /\ WriteAlone /\ BuildAlone
  <2>1. AloneInv' /\ Left(w)
    BY <1>2, WriteAloneStep
  <2>2. \A v \in Workers : worker[v] # Asleep /\ worker'[v] = Asleep => v = w
    BY <1>1, <1>2
       DEF Write, WriteTemp, Look, Unlink, RemoveDir, Rename, Fail, Continue, Types
  <2>3. WriteAlone
    BY <2>1, <2>2 DEF WriteAlone, Left
  <2>4. worker[w].alone /\ worker[w].op = "build" /\ worker'[w] = Asleep =>
           \A t \in Silver : lake'[<<t, DayOf(w)>>] = Holding(Joined(DayOf(w)))
    BY <2>1 DEF Left
  <2>5. BuildAlone
    BY <2>2, <2>4 DEF BuildAlone, Joined, FrameOf, Silver
  <2>. QED  BY <2>1, <2>3, <2>5
<1>3. ASSUME NEW w \in Workers, Build(w)
      PROVE  AloneInv' /\ WriteAlone /\ BuildAlone
  <2>1. AloneInv' /\ (worker[w].alone => worker'[w] # Asleep)
    BY <1>3, BuildAloneStep
  <2>2. \A v \in Workers : worker[v] # Asleep /\ worker'[v] = Asleep => v = w
    BY <1>1, <1>3 DEF Build, Register, ReadDocuments, ReadLines, Fail, Continue, Types
  <2>. QED  BY <2>1, <2>2 DEF WriteAlone, BuildAlone
<1>4. ASSUME begun' # begun PROVE WriteAlone /\ BuildAlone
  BY <1>4 DEF WriteAlone, BuildAlone
<1>5. ASSUME NEW w \in Workers, Crash(w) PROVE AloneInv' /\ WriteAlone /\ BuildAlone
  <2>1. /\ begun' = begun + 1 /\ Continue(w, Asleep) /\ UNCHANGED lake /\ worker[w] # Asleep
    BY <1>5 DEF Crash, Fail
  <2>2. AloneInv'
    BY <1>1, <2>1, AsleepType, OwnStep
  <2>. QED  BY <1>1, <1>4, <2>1, <2>2
<1>6. ASSUME NEW w \in Workers, NEW t \in Bronze, NEW d \in SalesDays, Ingest(w, t, d)
      PROVE  AloneInv' /\ WriteAlone /\ BuildAlone
  <2>1. AloneInv'
    BY <1>1, <1>6, IngestState, BeginAlone DEF Ingest
  <2>2. begun' = begun + 1
    BY <1>6 DEF Ingest, Begin
  <2>. QED  BY <1>1, <1>4, <2>1, <2>2
<1>7. ASSUME NEW w \in Workers, NEW d \in SalesDays, StartBuild(w, d)
      PROVE  AloneInv' /\ WriteAlone /\ BuildAlone
  <2>1. AloneInv'
    BY <1>7, BuildState, BeginAlone DEF StartBuild
  <2>2. begun' = begun + 1
    BY <1>7 DEF StartBuild, Begin
  <2>. QED  BY <1>1, <1>4, <2>1, <2>2
<1>8. ASSUME NEW d \in SalesDays, NEW x \in Docs, LateDocument(d, x)
      PROVE  AloneInv' /\ WriteAlone /\ BuildAlone
  <2>1. begun' = begun + 1 /\ UNCHANGED <<lake, worker>>
    BY <1>8 DEF LateDocument
  <2>. QED  BY <1>1, <1>4, <2>1, LateAlone
<1>9. CASE UNCHANGED lakeVars
  BY <1>1, <1>9, LateAlone DEF lakeVars, WriteAlone, BuildAlone
<1>. QED
  BY <1>2, <1>3, <1>5, <1>6, <1>7, <1>8, <1>9 DEF Next

(* Whatever dead workers left behind, a write that no other worker shares its day    *)
(* with finds the directory as it last saw it and does not fail (write_partition:     *)
(* exists, rmtree, replace); and a build that no other worker shares its day with     *)
(* leaves in both silver tables the join of the bronze as it is (build_day).          *)
THEOREM AloneSucceeds == Spec => AloneIsEnough
<1>. QED  BY InitAlone, StepAlone, PTL DEF Spec, AloneIsEnough
=============================================================================
