------------------------ MODULE DescriptorPoolProofs ------------------------
(***************************************************************************)
(* What DescriptorPool promises for every database, however many files and *)
(* threads there are: the files that are loaded are whole, no pointer to a *)
(* descriptor dangles, and loading does not recurse without end.           *)
(*                                                                         *)
(* The inductive invariant says what the roll-back relies on: while a file *)
(* is built everything added since the checkpoint is its own, which is so  *)
(* because all its imports are loaded before the checkpoint is made.       *)
(***************************************************************************)
EXTENDS DescriptorPool, FiniteSetTheorems, SequenceTheorems, TLAPS

Building == stack # <<>> /\ Top.stage = "symbols"

\* Only the innermost file is past its imports; no file is loaded twice at a
\* time, or again; pending_files_ are the files whose imports are loaded.
StackOK ==
  /\ \A i \in 1..Len(stack) : i < Len(stack) => stack[i].stage = "imports"
  /\ \A i \in 1..Len(stack) : stack[i].stage = "imports" => stack[i].file \notin base.files
  /\ \A i, j \in 1..Len(stack) : stack[i].file = stack[j].file => i = j
  /\ Len(pending) = IF Building THEN Len(stack) - 1 ELSE Len(stack)
  /\ \A i \in 1..Len(pending) : pending[i] = stack[i].file

\* What was added since the checkpoint belongs to the file that is built.
CheckpointOK ==
  /\ base.newFiles = IF Building THEN {Top.file} ELSE {}
  /\ base.newFiles \subseteq base.files /\ base.newSymbols \subseteq base.symbols
  /\ \A e \in base.symbols : e.file \in base.files
  /\ \A e \in base.symbols : e \in base.newSymbols <=> e.file \in base.newFiles
  /\ \A d, e \in base.symbols : d.name = e.name => d = e

\* A file has its imports, its symbols except those in rest, and its package.
Whole(f, rest, symbols) ==
  /\ db.imports[f] \subseteq Loaded \cup {f}
  /\ \A s \in db.defines[f] \ rest : Entry(s, f, FALSE) \in symbols
  /\ db.package[f] # None => \E e \in symbols : e.name = db.package[f] /\ e.package

\* Descriptors that stay whatever the files being built come to.
Kept == base.symbols \ base.newSymbols

FilesOK ==
  /\ \A f \in Loaded : Whole(f, {}, Kept)
  /\ Building /\ ~Top.errors => Whole(Top.file, Top.todo, base.symbols)

LinksOK ==
  /\ \A l \in base.links : l.to \in Kept /\ l.by \in Loaded
  /\ \A l \in over.links :
       \/ l.to \in Kept
       \/ l.to \in over.symbols \ over.newSymbols
       \/ l.to \in over.symbols /\ l.by \in over.newFiles
  /\ over.newFiles = IF job.stage = "idle" THEN {} ELSE {job.file}
  /\ job.stage = "idle" => over.newSymbols = {}

ResultsOK == \A t \in Threads : holder # t => res[t] \in Loaded \cup {None}

IInv ==
  /\ db \in Databases /\ TypeOK
  /\ StackOK /\ CheckpointOK /\ FilesOK /\ LinksOK /\ ResultsOK
-----------------------------------------------------------------------------
(* Facts *)

\* What a database may contain.
LEMMA DbType ==
  ASSUME db \in Databases
  PROVE  /\ db.has \subseteq Files
         /\ \A f \in Files \cup Overlays :
              /\ db.imports[f] \subseteq Files
              /\ db.defines[f] \subseteq Symbols /\ db.uses[f] \subseteq Symbols
              /\ db.package[f] \in Symbols \cup {None}
  BY DatabasesAssumption

\* A sequence without its last element.
LEMMA FrontProperties ==
  ASSUME NEW S, NEW q \in Seq(S), Len(q) # 0
  PROVE  /\ SubSeq(q, 1, Len(q) - 1) \in Seq(S)
         /\ Len(SubSeq(q, 1, Len(q) - 1)) = Len(q) - 1
         /\ \A i \in 1..(Len(q) - 1) : SubSeq(q, 1, Len(q) - 1)[i] = q[i]
<1> DEFINE n == Len(q) - 1
           front == SubSeq(q, 1, n)
<1>1. n \in Nat /\ n = Len(q) - 1
  OBVIOUS
<1>2. 1 \in Int /\ n \in Int /\ \A i \in 1..n : q[i] \in S
  OBVIOUS
<1> HIDE DEF n
<1>3. /\ front \in Seq(S)
      /\ Len(front) = IF 1 <= n THEN n - 1 + 1 ELSE 0
      /\ \A i \in 1..(n - 1 + 1) : front[i] = q[1 + i - 1]
  BY <1>2, SubSeqProperties
<1> HIDE DEF front
<1>4. Len(front) = n
  BY <1>1, <1>3
<1>5. ASSUME NEW i \in 1..n PROVE front[i] = q[i]
  <2>1. i \in 1..(n - 1 + 1) /\ 1 + i - 1 = i
    BY <1>1, <1>5
  <2>2. front[i] = q[1 + i - 1]
    BY <1>3, <2>1, Zenon
  <2> QED
    BY <2>1, <2>2, Zenon
<1> QED
  BY <1>3, <1>4, <1>5, Zenon DEF front, n

\* The innermost frame, and the others.
LEMMA StackType ==
  ASSUME TypeOK, stack # <<>>
  PROVE  /\ Len(stack) \in Nat \ {0} /\ Top \in Frames /\ Lower \in Seq(Frames)
         /\ Len(Lower) = Len(stack) - 1
         /\ \A i \in 1..Len(Lower) : Lower[i] = stack[i]
         /\ \A x : Len(Append(Lower, x)) = Len(stack)
         /\ \A x : Append(Lower, x)[Len(stack)] = x
         /\ \A x : \A i \in 1..Len(Lower) : Append(Lower, x)[i] = stack[i]
         /\ \A x : Append(Lower, x) # <<>>
<1>1. stack \in Seq(Frames) /\ Len(stack) \in Nat \ {0}
  BY DEF TypeOK
<1>2. Top \in Frames
  BY <1>1 DEF Top
<1>3. /\ Lower \in Seq(Frames) /\ Len(Lower) = Len(stack) - 1
      /\ \A i \in 1..(Len(stack) - 1) : Lower[i] = stack[i]
  <2>1. Len(stack) # 0
    BY <1>1
  <2> QED
    BY <1>1, <2>1, FrontProperties, Zenon DEF Lower
<1> QED
  BY <1>1, <1>2, <1>3

\* Adding to the tables keeps their type.
LEMMA AddSymbolType ==
  ASSUME NEW F, NEW t \in Tables(F), NEW e \in Entries(F)
  PROVE  AddSymbol(t, e) \in Tables(F)
  BY DEF AddSymbol, Tables

\* What AddSymbol does to the tables.
LEMMA AddSymbolFields ==
  ASSUME NEW F, NEW t \in Tables(F), NEW e \in Entries(F), NEW r, r = AddSymbol(t, e)
  PROVE  /\ r.files = t.files /\ r.newFiles = t.newFiles /\ r.links = t.links
         /\ \/ /\ Defined(t, e.name)
               /\ r.symbols = t.symbols /\ r.newSymbols = t.newSymbols
            \/ /\ ~Defined(t, e.name)
               /\ r.symbols = t.symbols \cup {e} /\ r.newSymbols = t.newSymbols \cup {e}
  BY DEF AddSymbol, Tables

LEMMA AddFileType ==
  ASSUME NEW F, NEW t \in Tables(F), NEW f \in F
  PROVE  AddFile(Checkpoint(t), f) \in Tables(F)
  BY DEF AddFile, Checkpoint, Tables

LEMMA EntryType ==
  ASSUME NEW F, NEW f \in F, NEW s \in Symbols, NEW p \in BOOLEAN
  PROVE  Entry(s, f, p) \in Entries(F)
  BY DEF Entry, Entries

LEMMA AddPackageType ==
  ASSUME NEW F \in SUBSET (Files \cup Overlays), NEW t \in Tables(F), NEW f \in F,
         db \in Databases
  PROVE  AddPackage(t, f) \in Tables(F)
<1>1. CASE db.package[f] = None
  BY <1>1 DEF AddPackage, PackageOf
<1>2. CASE db.package[f] # None
  <2>1. Entry(db.package[f], f, TRUE) \in Entries(F)
    BY <1>2, DbType, EntryType
  <2> QED
    BY <1>2, <2>1, AddSymbolType DEF AddPackage, PackageOf
<1> QED
  BY <1>1, <1>2

\* The tables r are b with a file that is new in them, and its package.
WithNewFile(r, b, f) ==
  /\ r.files = b.files \cup {f} /\ r.newFiles = {f}
  /\ r.links = b.links
  /\ b.symbols \subseteq r.symbols
  /\ r.newSymbols = r.symbols \ b.symbols
  /\ r.newSymbols \subseteq {Entry(db.package[f], f, TRUE)}
  /\ \A e \in r.newSymbols : ~Defined(b, e.name)
  /\ db.package[f] # None /\ ~PackageClashes(b, f) =>
       \E e \in r.symbols : e.name = db.package[f] /\ e.package

\* AddFile and AddPackage make such tables.
LEMMA NewFileTables ==
  ASSUME NEW F \in SUBSET (Files \cup Overlays), NEW b \in Tables(F), NEW f \in F,
         db \in Databases, NEW r, r = AddPackage(AddFile(Checkpoint(b), f), f)
  PROVE  r \in Tables(F) /\ WithNewFile(r, b, f)
<1> USE DEF WithNewFile
<1> DEFINE t == AddFile(Checkpoint(b), f)
           e == Entry(db.package[f], f, TRUE)
<1>1. r = AddPackage(t, f)
  OBVIOUS
<1>2. /\ t \in Tables(F)
      /\ t.files = b.files \cup {f} /\ t.newFiles = {f} /\ t.links = b.links
      /\ t.symbols = b.symbols /\ t.newSymbols = {}
  BY <1>1, AddFileType DEF AddFile, Checkpoint, Tables
<1> HIDE DEF t
<1>3. r \in Tables(F)
  BY <1>1, <1>2, AddPackageType
<1>4. CASE db.package[f] = None
  <2>1. r = t
    BY <1>1, <1>4 DEF AddPackage, PackageOf
  <2> QED
    BY <1>1, <1>2, <1>3, <1>4, <2>1
<1>5. CASE db.package[f] # None
  <2>1. r = AddSymbol(t, e) /\ PackageOf(f) = {e}
    BY <1>1, <1>5 DEF AddPackage, PackageOf
  <2>2. e \in Entries(F) /\ e.name = db.package[f] /\ e.package
    <3>1. db.package[f] \in Symbols
      BY <1>1, <1>5, DbType
    <3> QED
      BY <1>1, <3>1, EntryType DEF Entry
  <2> HIDE DEF e
  <2>3. /\ r.files = t.files /\ r.newFiles = t.newFiles /\ r.links = t.links
        /\ \/ /\ Defined(t, e.name)
              /\ r.symbols = t.symbols /\ r.newSymbols = t.newSymbols
           \/ /\ ~Defined(t, e.name)
              /\ r.symbols = t.symbols \cup {e} /\ r.newSymbols = t.newSymbols \cup {e}
    BY <1>2, <2>1, <2>2, AddSymbolFields
  <2>4. Defined(t, e.name) <=> Defined(b, e.name)
    BY <1>2 DEF Defined
  <2>5. CASE Defined(b, e.name)
    <3>1. ~PackageClashes(b, f) => \E d \in r.symbols : d.name = db.package[f] /\ d.package
      BY <1>2, <2>1, <2>2, <2>3, <2>4, <2>5 DEF PackageClashes, Clashes, Defined
    <3> QED
      BY <1>1, <1>2, <1>3, <2>3, <2>4, <2>5, <3>1
  <2>6. CASE ~Defined(b, e.name)
    <3>1. e \notin b.symbols
      BY <2>6 DEF Defined
    <3>2. e = Entry(db.package[f], f, TRUE)
      BY DEF e
    <3>3. r.symbols = b.symbols \cup {e} /\ r.newSymbols = {e}
      BY <1>2, <2>3, <2>4, <2>6
    <3> QED
      BY <1>1, <1>2, <1>3, <2>2, <2>3, <2>6, <3>1, <3>2, <3>3
  <2> QED
    BY <2>5, <2>6
<1> QED
  BY <1>4, <1>5

LEMMA RollbackType ==
  ASSUME NEW F, NEW t \in Tables(F)
  PROVE  Rollback(t) \in Tables(F) /\ Checkpoint(t) \in Tables(F)
  BY DEF Rollback, Checkpoint, Tables
-----------------------------------------------------------------------------
(* Loading a file *)

\* The stack with frames that differ in what is left to do only.
Restacked(rest) ==
  /\ rest \in Seq(Frames) /\ Len(rest) = Len(stack)
  /\ \A i \in 1..Len(stack) : rest[i].file = stack[i].file /\ rest[i].stage = stack[i].stage

\* One more import was tried.
LEMMA RestackKeepsStack ==
  ASSUME IInv, ~Building, NEW rest, Restacked(rest), stack' = rest,
         UNCHANGED <<db, base, pending>>
  PROVE  /\ stack' \in Seq(Frames) /\ pending' \in Seq(Files)
         /\ StackOK' /\ ~Building'
<1> USE DEF IInv
<1>1. /\ stack' \in Seq(Frames) /\ Len(stack') = Len(stack)
      /\ \A i \in 1..Len(stack) : stack'[i].file = stack[i].file /\ stack'[i].stage = stack[i].stage
  BY DEF Restacked
<1>2. ~Building'
  BY <1>1 DEF Building, Top, TypeOK
<1>3. StackOK'
  <2>1. Len(pending) = Len(stack)
    BY ~Building DEF StackOK
  <2>2. \A i \in 1..Len(pending) : pending[i] = stack[i].file
    BY DEF StackOK
  <2>3. \A i \in 1..Len(pending') : pending'[i] = stack'[i].file
    BY <1>1, <2>1, <2>2
  <2>4. Len(pending') = Len(stack')
    BY <1>1, <2>1
  <2>5. \A i, j \in 1..Len(stack') : stack'[i].file = stack'[j].file => i = j
    BY <1>1 DEF StackOK
  <2>6. /\ \A i \in 1..Len(stack') : i < Len(stack') => stack'[i].stage = "imports"
        /\ \A i \in 1..Len(stack') : stack'[i].stage = "imports" => stack'[i].file \notin base'.files
    BY <1>1 DEF StackOK
  <2> QED
    BY <1>2, <2>3, <2>4, <2>5, <2>6 DEF StackOK
<1> QED
  BY <1>1, <1>2, <1>3 DEF TypeOK

\* BuildFile is entered for a file that is neither pending nor loaded.
LEMMA EnterKeepsStack ==
  ASSUME IInv, ~Building, NEW rest, Restacked(rest), NEW f \in Files, f \notin base.files,
         f \notin PendingFiles, NEW r \in BOOLEAN, Enter(f, rest, r), UNCHANGED <<db, base>>
  PROVE  /\ stack' \in Seq(Frames) /\ stack' # <<>>
         /\ pending' \in Seq(Files) /\ bad' \subseteq Files
         /\ StackOK' /\ ~Building'
<1> USE DEF IInv
<1> DEFINE fr == [file |-> f, stage |-> "imports", todo |-> db.imports[f],
                  errors |-> FALSE, remember |-> r]
<1>1. fr \in Frames
  BY DbType DEF Frames
<1>2. /\ stack' = Append(rest, fr) /\ pending' = Append(pending, f) /\ bad' = bad
  BY DEF Enter
<1>3. /\ fr.file = f /\ fr.stage = "imports"
  OBVIOUS
<1> HIDE DEF fr
<1>4. /\ stack' \in Seq(Frames) /\ Len(stack') = Len(stack) + 1
      /\ stack'[Len(stack) + 1] = fr /\ Len(stack) \in Nat
      /\ \A i \in 1..Len(stack) : stack'[i] = rest[i]
  BY <1>1, <1>2 DEF Restacked, TypeOK
<1>5. /\ pending' \in Seq(Files) /\ Len(pending') = Len(pending) + 1
      /\ pending'[Len(pending) + 1] = f
      /\ \A i \in 1..Len(pending) : pending'[i] = pending[i]
  BY <1>2 DEF TypeOK
<1>6. Top' = fr /\ ~Building'
  BY <1>3, <1>4 DEF Top, Building
<1>7. Len(pending) = Len(stack) /\ \A i \in 1..Len(stack) : stack[i].file # f
  BY ~Building DEF StackOK, PendingFiles, TypeOK
<1>8. \A i \in 1..Len(stack) : stack[i].stage = "imports"
  <2>1. stack # <<>> => Top.stage = "imports"
    BY StackType DEF Building, Frames
  <2> QED
    BY <2>1 DEF StackOK, Top, TypeOK
<1>9. StackOK'
  <2>1. \A i \in 1..Len(stack') : stack'[i].stage = "imports" /\ stack'[i].file \notin base.files
    BY <1>3, <1>4, <1>8 DEF StackOK, Restacked
  <2>2. \A i, j \in 1..Len(stack') : stack'[i].file = stack'[j].file => i = j
    BY <1>3, <1>4, <1>7 DEF StackOK, Restacked
  <2>3. \A i \in 1..Len(pending') : pending'[i] = stack'[i].file
    BY <1>3, <1>4, <1>5, <1>7 DEF StackOK, Restacked
  <2> QED
    BY <1>4, <1>5, <1>6, <1>7, <2>1, <2>2, <2>3 DEF StackOK
<1> QED
  BY <1>2, <1>4, <1>5, <1>6, <1>9 DEF TypeOK

\* TryFindFileInFallbackDatabase enters it, or leaves the stack alone.
LEMMA TryFileKeepsStack ==
  ASSUME IInv, ~Building, NEW rest, Restacked(rest), NEW f \in Files, f \notin base.files,
         TryFile(f, rest), UNCHANGED <<db, base>>
  PROVE  /\ stack' \in Seq(Frames) /\ pending' \in Seq(Files) /\ bad' \subseteq Files
         /\ StackOK' /\ ~Building'
<1>1. CASE f \notin PendingFiles /\ Enter(f, rest, TRUE)
  BY <1>1, EnterKeepsStack
<1>2. CASE stack' = rest /\ bad' = bad \cup {f} /\ pending' = pending
  BY <1>2, RestackKeepsStack DEF TypeOK, IInv
<1> QED
  BY <1>1, <1>2 DEF TryFile

\* While no file is past its imports the tables hold loaded files only.
LEMMA TablesKept ==
  ASSUME IInv, (~Building /\ ~Building') \/ UNCHANGED stack, UNCHANGED <<db, base>>
  PROVE  CheckpointOK' /\ FilesOK' /\ Kept' = Kept /\ Loaded' = Loaded
<1>1. Kept' = Kept /\ Loaded' = Loaded
  BY DEF Kept, Loaded
<1>2. CASE ~Building /\ ~Building'
  <2>1. CheckpointOK'
    BY <1>2 DEF CheckpointOK, IInv
  <2>2. FilesOK'
    BY <1>1, <1>2 DEF FilesOK, Whole, IInv
  <2> QED
    BY <1>1, <2>1, <2>2
<1>3. CASE UNCHANGED stack
  <2>1. CheckpointOK'
    BY <1>3 DEF CheckpointOK, IInv, Building, Top
  <2>2. FilesOK'
    BY <1>1, <1>3 DEF FilesOK, Whole, IInv, Building, Top
  <2> QED
    BY <1>1, <2>1, <2>2
<1> QED
  BY <1>2, <1>3

\* What the overlay and the answers point to stays.
LEMMA PointersKept ==
  ASSUME IInv, Kept \subseteq Kept', Loaded \subseteq Loaded',
         UNCHANGED <<over, job>>, base'.links = base.links
  PROVE  LinksOK'
  BY DEF LinksOK, IInv
-----------------------------------------------------------------------------
(* The steps of the first pool *)

LEMMA InitIInv == Init => IInv
<1> SUFFICES ASSUME Init PROVE IInv
  OBVIOUS
<1>1. db \in Databases /\ TypeOK
  BY NamesAssumption DEF Init, TypeOK, Tables, NoTables, NoRequest, NoJob, Threads
<1>2. ~Building /\ Len(stack) = 0 /\ Len(pending) = 0
  BY DEF Init, Building
<1>3. StackOK
  BY <1>2 DEF StackOK
<1>4. CheckpointOK /\ FilesOK
  BY <1>2 DEF CheckpointOK, FilesOK, Init, NoTables, Loaded
<1>5. LinksOK
  BY DEF LinksOK, Init, NoTables, NoJob
<1>6. ResultsOK
  BY DEF ResultsOK, Init
<1> QED
  BY <1>1, <1>3, <1>4, <1>5, <1>6 DEF IInv

LEMMA LoadImportIInv == ASSUME IInv, LoadImport PROVE IInv'
<1>1. ~Building /\ stack # <<>> /\ Top.stage = "imports"
  BY DEF LoadImport, Building
<1>2. PICK f \in Top.todo :
        LET rest == Append(Lower, [Top EXCEPT !.todo = @ \ {f}])
        IN  \/ f \notin base.files /\ TryFile(f, rest)
            \/ /\ f \in base.files /\ stack' = rest
               /\ UNCHANGED <<pending, bad>>
  BY DEF LoadImport
<1> DEFINE rest == Append(Lower, [Top EXCEPT !.todo = @ \ {f}])
<1>3. Top \in Frames /\ Top.todo \subseteq Files
  BY <1>1, StackType DEF IInv, Frames
<1>4. /\ [Top EXCEPT !.todo = @ \ {f}] \in Frames
      /\ [Top EXCEPT !.todo = @ \ {f}].file = Top.file
      /\ [Top EXCEPT !.todo = @ \ {f}].stage = Top.stage
  BY <1>1, <1>3 DEF Frames
<1>5. Restacked(rest)
  BY <1>1, <1>4, StackType DEF Restacked, IInv, Top
<1>6. UNCHANGED <<db, enforce, base, over, holder, req, res, job, calls>>
  BY DEF LoadImport
<1>7. /\ stack' \in Seq(Frames) /\ pending' \in Seq(Files) /\ bad' \subseteq Files
      /\ StackOK' /\ ~Building'
  <2>1. CASE f \notin base.files /\ TryFile(f, rest)
    BY <1>1, <1>3, <1>5, <1>6, <2>1, TryFileKeepsStack
  <2>2. CASE f \in base.files /\ stack' = rest /\ UNCHANGED <<pending, bad>>
    BY <1>1, <1>5, <1>6, <2>2, RestackKeepsStack DEF IInv, TypeOK
  <2> QED
    BY <1>2, <2>1, <2>2
<1>8. TypeOK'
  BY <1>1, <1>6, <1>7 DEF TypeOK, IInv
<1>9. CheckpointOK' /\ FilesOK' /\ Kept' = Kept /\ Loaded' = Loaded
  BY <1>1, <1>6, <1>7, TablesKept
<1>10. LinksOK'
  BY <1>6, <1>9, PointersKept
<1>11. ResultsOK'
  BY <1>6, <1>9 DEF ResultsOK, IInv
<1> QED
  BY <1>6, <1>7, <1>8, <1>9, <1>10, <1>11 DEF IInv

\* A lookup of a file, by a user or for the overlay.
LEMMA FindFileByNameOK ==
  ASSUME IInv, NEW t \in Threads, NEW f \in Files, FindFileByName(t, f),
         UNCHANGED <<db, base>>
  PROVE  /\ stack' \in Seq(Frames) /\ pending' \in Seq(Files) /\ bad' \subseteq Files
         /\ holder' \in Threads \cup {None} /\ (stack' # <<>> => holder' # None)
         /\ req' \in [Threads -> [file : Files \cup {None}, symbol : Symbols \cup {None}]]
         /\ res' \in [Threads -> Files \cup {None}]
         /\ StackOK' /\ ~Building /\ ~Building' /\ ResultsOK'
<1>1. stack = <<>> /\ ~Building /\ Restacked(<<>>) /\ Loaded' = Loaded /\ Loaded = base.files
  BY DEF FindFileByName, IInv, TypeOK, Building, Restacked, Loaded, CheckpointOK
<1>2. CASE f \in base.files /\ Answer(t, f) /\ UNCHANGED <<pending, bad, stack, holder>>
  <2>1. StackOK' /\ ~Building'
    BY <1>1, <1>2 DEF StackOK, IInv, Building
  <2>2. res' \in [Threads -> Files \cup {None}]
    BY <1>2 DEF Answer, IInv, TypeOK
  <2>3. req' \in [Threads -> [file : Files \cup {None}, symbol : Symbols \cup {None}]]
    BY DEF FindFileByName, NoRequest, IInv, TypeOK
  <2>4. ResultsOK'
    BY <1>1, <1>2 DEF ResultsOK, Answer, IInv, TypeOK
  <2> QED
    BY <1>1, <1>2, <2>1, <2>2, <2>3, <2>4 DEF IInv, TypeOK
<1>3. CASE f \notin base.files /\ TryFile(f, <<>>) /\ holder' = t /\ Answer(t, None)
  <2>1. /\ stack' \in Seq(Frames) /\ pending' \in Seq(Files) /\ bad' \subseteq Files
        /\ StackOK' /\ ~Building'
    BY <1>1, <1>3, TryFileKeepsStack
  <2>2. res' \in [Threads -> Files \cup {None}]
    BY <1>3 DEF Answer, IInv, TypeOK
  <2>3. req' \in [Threads -> [file : Files \cup {None}, symbol : Symbols \cup {None}]]
    BY DEF FindFileByName, NoRequest, IInv, TypeOK
  <2>4. ResultsOK'
    <3>1. \A u \in Threads : holder # u
      BY NamesAssumption DEF FindFileByName, Threads
    <3> QED
      BY <1>1, <1>3, <3>1 DEF ResultsOK, Answer, IInv, TypeOK
  <2>5. holder' \in Threads /\ holder' # None
    BY <1>3, NamesAssumption DEF Threads
  <2> QED
    BY <1>1, <2>1, <2>2, <2>3, <2>4, <2>5
<1> QED
  BY <1>2, <1>3 DEF FindFileByName

\* A lookup of a symbol.
LEMMA FindSymbolOK ==
  ASSUME IInv, NEW t \in Threads, NEW s \in Symbols, FindFileContainingSymbol(t, s),
         UNCHANGED <<db, base>>
  PROVE  /\ stack' \in Seq(Frames) /\ pending' \in Seq(Files) /\ bad' \subseteq Files
         /\ holder' \in Threads \cup {None} /\ (stack' # <<>> => holder' # None)
         /\ req' \in [Threads -> [file : Files \cup {None}, symbol : Symbols \cup {None}]]
         /\ res' \in [Threads -> Files \cup {None}]
         /\ StackOK' /\ ~Building /\ ~Building' /\ ResultsOK'
<1> DEFINE sources == {f \in db.has : s \in db.defines[f]}
<1>1. /\ stack = <<>> /\ ~Building /\ Restacked(<<>>) /\ pending = <<>>
      /\ Loaded' = Loaded /\ Loaded = base.files
  BY DEF FindFileContainingSymbol, IInv, TypeOK, Building, Restacked, Loaded, CheckpointOK, StackOK
<1>2. req' \in [Threads -> [file : Files \cup {None}, symbol : Symbols \cup {None}]]
  <2>1. PICK f \in Files \cup {None} : req' = [req EXCEPT ![t] = [file |-> f, symbol |-> s]]
    BY DbType DEF FindFileContainingSymbol, IInv
  <2> QED
    BY <2>1 DEF IInv, TypeOK
<1>3. ASSUME NEW r \in base.files \cup {None}, Answer(t, r), UNCHANGED <<pending, bad, stack, holder>>
      PROVE  /\ stack' \in Seq(Frames) /\ pending' \in Seq(Files) /\ bad' \subseteq Files
             /\ holder' \in Threads \cup {None} /\ (stack' # <<>> => holder' # None)
             /\ res' \in [Threads -> Files \cup {None}]
             /\ StackOK' /\ ~Building' /\ ResultsOK'
  <2>1. StackOK' /\ ~Building'
    BY <1>1, <1>3 DEF StackOK, IInv, Building
  <2>2. base.files \subseteq Files
    BY DEF IInv, TypeOK, Tables
  <2>3. res' \in [Threads -> Files \cup {None}]
    BY <1>3, <2>2 DEF Answer, IInv, TypeOK
  <2>4. ResultsOK'
    BY <1>1, <1>3 DEF ResultsOK, Answer, IInv, TypeOK
  <2> QED
    BY <1>3, <2>1, <2>3, <2>4 DEF IInv, TypeOK
<1>4. ASSUME NEW f \in sources \ base.files, Enter(f, <<>>, FALSE), holder' = t, Answer(t, None)
      PROVE  /\ stack' \in Seq(Frames) /\ pending' \in Seq(Files) /\ bad' \subseteq Files
             /\ holder' \in Threads \cup {None} /\ (stack' # <<>> => holder' # None)
             /\ res' \in [Threads -> Files \cup {None}]
             /\ StackOK' /\ ~Building' /\ ResultsOK'
  <2>1. f \in Files /\ f \notin base.files /\ f \notin PendingFiles
    BY <1>1, DbType DEF PendingFiles, IInv
  <2>2. /\ stack' \in Seq(Frames) /\ pending' \in Seq(Files) /\ bad' \subseteq Files
        /\ StackOK' /\ ~Building'
    BY <1>1, <1>4, <2>1, EnterKeepsStack
  <2>3. res' \in [Threads -> Files \cup {None}]
    BY <1>4 DEF Answer, IInv, TypeOK
  <2>4. \A u \in Threads : holder # u
    BY NamesAssumption DEF FindFileContainingSymbol, Threads
  <2>5. ResultsOK'
    BY <1>1, <1>4, <2>4 DEF ResultsOK, Answer, IInv, TypeOK
  <2>6. holder' \in Threads /\ holder' # None
    BY <1>4, NamesAssumption DEF Threads
  <2> QED
    BY <2>2, <2>3, <2>5, <2>6
<1>5. CASE \E e \in base.symbols : e.name = s /\ Answer(t, e.file) /\ UNCHANGED <<pending, bad, stack, holder>>
  <2>1. \A e \in base.symbols : e.file \in base.files
    BY DEF IInv, CheckpointOK
  <2> QED
    BY <1>1, <1>2, <1>3, <1>5, <2>1
<1>6. CASE Answer(t, None) /\ UNCHANGED <<pending, bad, stack, holder>>
  BY <1>1, <1>2, <1>3, <1>6
<1>7. CASE (\E f \in sources \ base.files : Enter(f, <<>>, FALSE)) /\ holder' = t /\ Answer(t, None)
  BY <1>1, <1>2, <1>4, <1>7
<1> QED
  BY <1>5, <1>6, <1>7 DEF FindFileContainingSymbol

\* Lookups leave the tables and the overlay alone.
LEMMA LookupIInv == ASSUME IInv, NEW u \in Users, Lookup(u) PROVE IInv'
<1>1. UNCHANGED <<db, enforce, base, over, job>> /\ u \in Threads
  BY DEF Lookup, Threads
<1>2. calls' \in [Threads -> 0..MaxCalls]
  BY <1>1, NamesAssumption DEF Lookup, IInv, TypeOK
<1>3. /\ stack' \in Seq(Frames) /\ pending' \in Seq(Files) /\ bad' \subseteq Files
      /\ holder' \in Threads \cup {None} /\ (stack' # <<>> => holder' # None)
      /\ req' \in [Threads -> [file : Files \cup {None}, symbol : Symbols \cup {None}]]
      /\ res' \in [Threads -> Files \cup {None}]
      /\ StackOK' /\ ~Building /\ ~Building' /\ ResultsOK'
  <2>1. CASE \E f \in Files : FindFileByName(u, f)
    BY <1>1, <2>1, FindFileByNameOK
  <2>2. CASE \E s \in Symbols : FindFileContainingSymbol(u, s)
    BY <1>1, <2>2, FindSymbolOK
  <2> QED
    BY <2>1, <2>2 DEF Lookup
<1>4. TypeOK'
  BY <1>1, <1>2, <1>3 DEF TypeOK, IInv
<1>5. CheckpointOK' /\ FilesOK' /\ Kept' = Kept /\ Loaded' = Loaded
  BY <1>1, <1>3, TablesKept
<1>6. LinksOK'
  BY <1>1, <1>5, PointersKept
<1> QED
  BY <1>1, <1>3, <1>4, <1>5, <1>6 DEF IInv

\* OverImport likewise.
LEMMA OverImportIInv == ASSUME IInv, OverImport PROVE IInv'
<1>1. /\ UNCHANGED <<db, enforce, base, over, calls>> /\ Builder \in Threads
      /\ job.stage = "imports" /\ job.todo \subseteq Files
  BY DEF OverImport, Threads, IInv, TypeOK
<1>2. PICK f \in job.todo :
        FindFileByName(Builder, f) /\ job' = [job EXCEPT !.todo = @ \ {f}, !.stage = "import"]
  BY DEF OverImport
<1>3. /\ stack' \in Seq(Frames) /\ pending' \in Seq(Files) /\ bad' \subseteq Files
      /\ holder' \in Threads \cup {None} /\ (stack' # <<>> => holder' # None)
      /\ req' \in [Threads -> [file : Files \cup {None}, symbol : Symbols \cup {None}]]
      /\ res' \in [Threads -> Files \cup {None}]
      /\ StackOK' /\ ~Building /\ ~Building' /\ ResultsOK'
  BY <1>1, <1>2, FindFileByNameOK
<1>4. /\ job' \in [stage : {"idle", "imports", "import", "link"}, file : Overlays \cup {None},
                   todo : SUBSET (Files \cup Symbols), errors : BOOLEAN]
      /\ job'.stage = "import" /\ job'.file = job.file /\ job'.todo \subseteq Files
      /\ job.file \in Overlays
  BY <1>1, <1>2 DEF IInv, TypeOK
<1>5. TypeOK'
  BY <1>1, <1>3, <1>4 DEF TypeOK, IInv
<1>6. CheckpointOK' /\ FilesOK' /\ Kept' = Kept
  BY <1>1, <1>3, TablesKept
<1>7. LinksOK'
  <2>1. over' = over /\ base' = base /\ job'.stage # "idle" /\ job.stage # "idle" /\ job'.file = job.file
    BY <1>1, <1>4
  <2>2. over'.newFiles = {job'.file}
    BY <2>1 DEF LinksOK, IInv
  <2>3. \A l \in base'.links : l.to \in Kept' /\ l.by \in Loaded'
    BY <1>6, <2>1 DEF LinksOK, IInv, Loaded
  <2>4. \A l \in over'.links :
          \/ l.to \in Kept'
          \/ l.to \in over'.symbols \ over'.newSymbols
          \/ l.to \in over'.symbols /\ l.by \in over'.newFiles
    <3>1. \A l \in over.links :
          \/ l.to \in Kept
          \/ l.to \in over.symbols \ over.newSymbols
          \/ l.to \in over.symbols /\ l.by \in over.newFiles
      BY DEF LinksOK, IInv
    <3> QED
      BY <1>6, <2>1, <3>1
  <2> QED
    BY <2>1, <2>2, <2>3, <2>4 DEF LinksOK
<1> QED
  BY <1>1, <1>3, <1>5, <1>6, <1>7 DEF IInv

LEMMA ReturnIInv == ASSUME IInv, NEW t \in Threads, Return(t) PROVE IInv'
<1>1. /\ UNCHANGED <<db, enforce, base, over, pending, bad, stack, req, job, calls>>
      /\ stack = <<>> /\ holder = t /\ holder' = None
  BY DEF Return
<1>2. Loaded' = Loaded /\ Loaded = base.files /\ base.files \subseteq Files
  BY <1>1 DEF Loaded, IInv, CheckpointOK, Building, TypeOK, Tables
<1>3. PICK r \in base.files \cup {None} : Answer(t, r)
  <2>1. \A e \in base.symbols : e.file \in base.files
    BY DEF IInv, CheckpointOK
  <2> QED
    BY <2>1 DEF Return
<1>4. TypeOK'
  BY <1>1, <1>2, <1>3 DEF Answer, IInv, TypeOK
<1>5. StackOK'
  BY <1>1 DEF StackOK, IInv, Building, Top
<1>6. CheckpointOK' /\ FilesOK' /\ Kept' = Kept
  BY <1>1, TablesKept
<1>7. LinksOK'
  BY <1>1, <1>2, <1>6, PointersKept
<1>8. ResultsOK'
  BY <1>1, <1>2, <1>3 DEF ResultsOK, Answer, IInv, TypeOK
<1> QED
  BY <1>1, <1>4, <1>5, <1>6, <1>7, <1>8 DEF IInv

\* All imports of a file were tried: it is added to the tables.
LEMMA StartBuildTables ==
  ASSUME IInv, StartBuild, NEW f \in Files, f = Top.file
  PROVE  base' \in Tables(Files) /\ WithNewFile(base', base, f)
<1>1. base \in Tables(Files) /\ db \in Databases /\ Files \in SUBSET (Files \cup Overlays)
  BY DEF IInv, TypeOK
<1>2. base' = AddPackage(AddFile(Checkpoint(base), f), f)
  BY DEF StartBuild
<1> QED
  BY <1>1, <1>2, NewFileTables

LEMMA StartBuildIInv == ASSUME IInv, StartBuild PROVE IInv'
<1>1. /\ stack # <<>> /\ Top.stage = "imports" /\ ~Building
      /\ pending' = SubSeq(pending, 1, Len(pending) - 1)
      /\ UNCHANGED <<db, enforce, over, bad, holder, req, res, job, calls>>
  BY DEF StartBuild, Building
<1>2. PICK f \in Files : f = Top.file /\ Top \in Frames /\ db.defines[f] \subseteq Symbols
  BY <1>1, StackType, DbType DEF IInv, Frames
<1> DEFINE x == PackageClashes(base, f) \/ ~(db.imports[f] \subseteq base.files \cup {f})
           fr == [Top EXCEPT !.stage = "symbols", !.todo = db.defines[f], !.errors = x]
<1>3. /\ fr \in Frames /\ fr.file = f /\ fr.stage = "symbols" /\ fr.todo = db.defines[f]
      /\ (~fr.errors => ~PackageClashes(base, f) /\ db.imports[f] \subseteq base.files \cup {f})
  <2>1. x \in BOOLEAN
    OBVIOUS
  <2>2. fr.errors = x
    BY <1>2 DEF Frames
  <2>3. ~fr.errors => ~PackageClashes(base, f) /\ db.imports[f] \subseteq base.files \cup {f}
    BY <2>2
  <2> HIDE DEF x
  <2> QED
    BY <1>1, <1>2, <2>1, <2>3 DEF Frames
<1>4. /\ base' \in Tables(Files)
      /\ base'.files = base.files \cup {f} /\ base'.newFiles = {f} /\ base'.links = base.links
      /\ base.symbols \subseteq base'.symbols
      /\ base'.newSymbols = base'.symbols \ base.symbols
      /\ base'.newSymbols \subseteq {Entry(db.package[f], f, TRUE)} /\ \A e \in base'.newSymbols : ~Defined(base, e.name)
      /\ db.package[f] # None /\ ~PackageClashes(base, f) =>
           \E e \in base'.symbols : e.name = db.package[f] /\ e.package
  BY <1>2, StartBuildTables DEF WithNewFile
<1>17. stack' = Append(Lower, fr)
  BY <1>2 DEF StartBuild
<1> HIDE DEF fr, x
<1>5. /\ stack' \in Seq(Frames) /\ Len(stack') = Len(stack) /\ stack'[Len(stack)] = fr
      /\ Len(stack) \in Nat \ {0} /\ stack' # <<>>
      /\ \A i \in 1..(Len(stack) - 1) : stack'[i] = stack[i]
  BY <1>1, <1>3, <1>17, StackType DEF IInv
<1>6. Top' = fr /\ Building'
  BY <1>3, <1>5 DEF Top, Building
<1>7. f \notin base.files /\ base.newFiles = {} /\ base.newSymbols = {} /\ stack[Len(stack)].file = f
  <2>1. base.newFiles = {} /\ base.newSymbols = {}
    BY <1>1 DEF IInv, CheckpointOK
  <2>2. f \notin base.files
    BY <1>1, <1>2, <1>5 DEF IInv, StackOK, Top
  <2> QED
    BY <1>2, <2>1, <2>2 DEF Top
<1>8. /\ pending' \in Seq(Files) /\ Len(pending') = Len(stack) - 1
      /\ \A i \in 1..(Len(stack) - 1) : pending'[i] = pending[i]
  <2>1. pending \in Seq(Files) /\ Len(pending) = Len(stack) /\ Len(pending) # 0
    BY <1>1, <1>5 DEF IInv, StackOK, TypeOK
  <2> QED
    BY <1>1, <2>1, FrontProperties
<1>9. StackOK'
  <2>1. /\ \A i \in 1..Len(stack') : stack'[i].file = stack[i].file
        /\ \A i \in 1..Len(stack') : i < Len(stack') => stack'[i].stage = "imports"
        /\ \A i \in 1..Len(stack') : stack'[i].stage = "imports" => i < Len(stack')
    <3>1. \A i \in 1..Len(stack') : i = Len(stack) \/ i \in 1..(Len(stack) - 1)
      BY <1>5
    <3> QED
      BY <1>3, <1>5, <1>7, <3>1 DEF IInv, StackOK
  <2>2. \A i, j \in 1..Len(stack') : stack'[i].file = stack'[j].file => i = j
    BY <1>5, <2>1 DEF IInv, StackOK
  <2>3. \A i \in 1..Len(stack') : stack'[i].stage = "imports" => stack'[i].file \notin base'.files
    <3>1. SUFFICES ASSUME NEW i \in 1..(Len(stack) - 1) PROVE stack[i].file \notin base'.files
      BY <1>5, <2>1
    <3>2. stack[i].stage = "imports" /\ i \in 1..Len(stack) /\ i # Len(stack)
      BY <1>5 DEF IInv, StackOK
    <3>3. stack[i].file \notin base.files /\ stack[i].file # f
      BY <1>5, <1>7, <3>2 DEF IInv, StackOK
    <3> QED
      BY <1>4, <3>3
  <2>4. \A i \in 1..Len(pending') : pending'[i] = stack'[i].file
    <3>1. \A i \in 1..Len(pending') : i \in 1..(Len(stack) - 1) /\ i \in 1..Len(stack) /\ i \in 1..Len(pending)
      BY <1>1, <1>5, <1>8 DEF IInv, StackOK
    <3>2. \A i \in 1..Len(pending) : pending[i] = stack[i].file
      BY DEF IInv, StackOK
    <3> QED
      BY <1>5, <1>8, <2>1, <3>1, <3>2
  <2> QED
    BY <1>5, <1>6, <1>8, <2>1, <2>2, <2>3, <2>4 DEF StackOK
<1>10. CheckpointOK'
  <2>1. \A e \in base.symbols : e.file \in base.files
    BY DEF IInv, CheckpointOK
  <2>2. \A e \in base'.newSymbols : e.file = f
    BY <1>4 DEF Entry
  <2>3. \A d, e \in base'.symbols : d.name = e.name => d = e
    <3>1. \A d, e \in base.symbols : d.name = e.name => d = e
      BY DEF IInv, CheckpointOK
    <3>2. \A d \in base.symbols, e \in base'.newSymbols : d.name # e.name
      BY <1>4 DEF Defined
    <3>3. \A d, e \in base'.newSymbols : d = e
      BY <1>4
    <3>4. \A d \in base'.symbols : d \in base.symbols \/ d \in base'.newSymbols
      BY <1>4
    <3> QED
      BY <3>1, <3>2, <3>3, <3>4
  <2> QED
    BY <1>3, <1>4, <1>6, <1>7, <2>1, <2>2, <2>3 DEF CheckpointOK
<1>11. Loaded' = Loaded /\ Loaded = base.files /\ Kept' = Kept /\ Kept = base.symbols
  BY <1>4, <1>7 DEF Loaded, Kept
<1>12. FilesOK'
  <2>1. \A g \in Loaded' : Whole(g, {}, Kept)'
    BY <1>1, <1>11 DEF FilesOK, IInv, Whole
  <2>2. ~fr.errors => Whole(f, db.defines[f], base.symbols)'
    BY <1>1, <1>3, <1>4, <1>11 DEF Whole
  <2> QED
    BY <1>1, <1>3, <1>6, <2>1, <2>2 DEF FilesOK
<1>13. LinksOK'
  BY <1>1, <1>4, <1>11, PointersKept
<1>14. TypeOK'
  BY <1>1, <1>4, <1>5, <1>8 DEF TypeOK, IInv
<1>15. ResultsOK'
  BY <1>1, <1>11 DEF ResultsOK, IInv
<1> QED
  BY <1>1, <1>9, <1>10, <1>12, <1>13, <1>14, <1>15 DEF IInv

LEMMA BuildSymbolIInv == ASSUME IInv, BuildSymbol PROVE IInv'
<1>1. /\ stack # <<>> /\ Top.stage = "symbols" /\ Building
      /\ UNCHANGED <<db, enforce, over, pending, bad, holder, req, res, job, calls>>
  BY DEF BuildSymbol, Building
<1>2. PICK f \in Files : f = Top.file /\ Top \in Frames /\ Top.todo \subseteq Symbols
  BY <1>1, StackType DEF IInv, Frames
<1> DEFINE ent(s) == Entry(s, f, FALSE)
           fr(s) == [Top EXCEPT !.todo = @ \ {s}, !.errors = @ \/ Clashes(base, ent(s))]
<1>3. PICK s \in Top.todo : base' = AddSymbol(base, ent(s)) /\ stack' = Append(Lower, fr(s))
  BY <1>2 DEF BuildSymbol
<1> DEFINE e == Entry(s, f, FALSE)
<1> DEFINE y == Top.errors \/ Clashes(base, e)
<1>4. PICK nf \in Frames :
        /\ nf.file = f /\ nf.stage = "symbols" /\ nf.todo = Top.todo \ {s}
        /\ nf.errors = y /\ stack' = Append(Lower, nf)
  <2>1. y \in BOOLEAN
    OBVIOUS
  <2>2. fr(s) = [Top EXCEPT !.todo = @ \ {s}, !.errors = y]
    OBVIOUS
  <2>3. Top \in [file : Files, stage : {"symbols"}, todo : SUBSET Symbols,
                errors : BOOLEAN, remember : BOOLEAN]
    BY <1>1, <1>2 DEF Frames
  <2>4. stack' = Append(Lower, fr(s))
    BY <1>3
  <2> HIDE DEF y, fr
  <2>5. /\ fr(s).file = f /\ fr(s).stage = "symbols" /\ fr(s).todo = Top.todo \ {s}
        /\ fr(s).errors = y /\ fr(s) \in Frames
    BY <1>2, <2>1, <2>2, <2>3 DEF Frames
  <2> QED
    BY <2>4, <2>5
<1>5. e \in Entries(Files) /\ e.name = s /\ e.file = f /\ e.package = FALSE
  BY <1>2, EntryType DEF Entry
<1>6. /\ base' \in Tables(Files)
      /\ base'.files = base.files /\ base'.newFiles = base.newFiles /\ base'.links = base.links
      /\ \/ /\ Defined(base, s)
            /\ base'.symbols = base.symbols /\ base'.newSymbols = base.newSymbols
         \/ /\ ~Defined(base, s)
            /\ base'.symbols = base.symbols \cup {e} /\ base'.newSymbols = base.newSymbols \cup {e}
  <2>1. base \in Tables(Files) /\ base' = AddSymbol(base, e)
    BY <1>3 DEF IInv, TypeOK
  <2> HIDE DEF e
  <2>2. base' \in Tables(Files)
    BY <1>5, <2>1, AddSymbolType
  <2>3. /\ base'.files = base.files /\ base'.newFiles = base.newFiles /\ base'.links = base.links
        /\ \/ /\ Defined(base, e.name)
              /\ base'.symbols = base.symbols /\ base'.newSymbols = base.newSymbols
           \/ /\ ~Defined(base, e.name)
              /\ base'.symbols = base.symbols \cup {e} /\ base'.newSymbols = base.newSymbols \cup {e}
    BY <1>5, <2>1, AddSymbolFields
  <2> QED
    BY <1>5, <2>2, <2>3
<1>7. ~nf.errors => ~Top.errors /\ ~Clashes(base, e)
  BY <1>4
<1>8. ~nf.errors => e \in base'.symbols
  BY <1>5, <1>6, <1>7 DEF Clashes, Defined
<1> HIDE DEF fr, ent, y
<1>9. /\ stack' \in Seq(Frames) /\ Len(stack') = Len(stack) /\ stack'[Len(stack)] = nf
      /\ Len(stack) \in Nat \ {0} /\ stack' # <<>>
      /\ \A i \in 1..(Len(stack) - 1) : stack'[i] = stack[i]
  BY <1>1, <1>4, StackType DEF IInv
<1>10. Top' = nf /\ Building' /\ stack[Len(stack)] = Top
  BY <1>4, <1>9 DEF Top, Building
<1>11. StackOK'
  <2>1. /\ \A i \in 1..Len(stack) : i = Len(stack) \/ i \in 1..(Len(stack) - 1)
        /\ \A i \in 1..Len(stack) : stack'[i].file = stack[i].file /\ stack'[i].stage = stack[i].stage
    BY <1>1, <1>2, <1>4, <1>9, <1>10
  <2>2. Len(pending) = Len(stack) - 1
    BY <1>1 DEF IInv, StackOK
  <2>3. \A i \in 1..Len(pending') : pending'[i] = stack'[i].file
    BY <1>1, <1>9, <2>1, <2>2 DEF IInv, StackOK
  <2> QED
    BY <1>1, <1>6, <1>9, <1>10, <2>1, <2>2, <2>3 DEF IInv, StackOK
<1>12. base.newFiles = {f}
  BY <1>1, <1>2 DEF IInv, CheckpointOK
<1>13. CheckpointOK'
  <2>1. /\ base.newFiles \subseteq base.files /\ base.newSymbols \subseteq base.symbols
        /\ \A d \in base.symbols : d.file \in base.files
        /\ \A d \in base.symbols : d \in base.newSymbols <=> d.file \in base.newFiles
        /\ \A c, d \in base.symbols : c.name = d.name => c = d
    BY DEF IInv, CheckpointOK
  <2>2. ~Defined(base, s) => \A d \in base.symbols : d.name # e.name
    BY <1>5 DEF Defined
  <2> HIDE DEF e
  <2> QED
    BY <1>4, <1>5, <1>6, <1>10, <1>12, <2>1, <2>2 DEF CheckpointOK
<1>14. Kept' = Kept /\ Loaded' = Loaded
  <2>1. ~Defined(base, s) => e \notin base.symbols
    BY <1>5 DEF Defined
  <2> QED
    BY <1>6, <2>1 DEF Kept, Loaded
<1>15. FilesOK'
  <2>1. \A g \in Loaded' : Whole(g, {}, Kept)'
    BY <1>1, <1>14 DEF FilesOK, IInv, Whole
  <2>2. ~nf.errors => Whole(f, nf.todo, base.symbols)'
    <3>1. ~nf.errors => Whole(f, Top.todo, base.symbols)
      BY <1>1, <1>2, <1>7 DEF FilesOK, IInv
    <3>2. base.symbols \subseteq base'.symbols
      BY <1>6
    <3> QED
      BY <1>1, <1>4, <1>8, <1>14, <3>1, <3>2 DEF Whole
  <2> QED
    BY <1>1, <1>4, <1>10, <2>1, <2>2 DEF FilesOK
<1>16. LinksOK'
  BY <1>1, <1>6, <1>14, PointersKept
<1>17. TypeOK'
  BY <1>1, <1>6, <1>9 DEF TypeOK, IInv
<1>18. ResultsOK'
  BY <1>1, <1>14 DEF ResultsOK, IInv
<1> QED
  BY <1>1, <1>11, <1>13, <1>15, <1>16, <1>17, <1>18 DEF IInv

\* The end of a file: what was added is kept, or all of it goes.
LEMMA EndBuildIInv == ASSUME IInv, EndBuild PROVE IInv'
<1>1. /\ stack # <<>> /\ Top.stage = "symbols" /\ Top.todo = {} /\ Building
      /\ stack' = Lower
      /\ UNCHANGED <<db, enforce, over, pending, holder, req, res, job, calls>>
  BY DEF EndBuild, Building
<1>2. PICK f \in Files : f = Top.file
  BY <1>1, StackType DEF IInv, Frames
<1>3. /\ base \in Tables(Files) /\ base.newFiles = {f}
      /\ base.newFiles \subseteq base.files /\ base.newSymbols \subseteq base.symbols
      /\ \A e \in base.symbols : e.file \in base.files
      /\ \A e \in base.symbols : e \in base.newSymbols <=> e.file \in base.newFiles
      /\ \A d, e \in base.symbols : d.name = e.name => d = e
  BY <1>1, <1>2 DEF IInv, CheckpointOK, TypeOK
<1>4. /\ stack' \in Seq(Frames) /\ Len(stack') = Len(stack) - 1 /\ Len(stack) \in Nat \ {0}
      /\ \A i \in 1..Len(stack') : stack'[i] = stack[i] /\ i \in 1..Len(stack) /\ i < Len(stack)
  BY <1>1, StackType DEF IInv
<1>5. ~Building'
  <2>1. \A i \in 1..Len(stack') : stack'[i].stage = "imports"
    BY <1>4 DEF IInv, StackOK
  <2> QED
    BY <1>4, <2>1 DEF Building, Top
<1>6. ASSUME base'.files \subseteq base.files PROVE StackOK'
  <2>1. Len(pending') = Len(stack') /\ \A i \in 1..Len(pending') : pending'[i] = stack'[i].file
    BY <1>1, <1>4 DEF IInv, StackOK
  <2>2. /\ \A i \in 1..Len(stack') : stack'[i].stage = "imports" /\ stack'[i].file \notin base'.files
    BY <1>4, <1>6 DEF IInv, StackOK
  <2>3. \A i, j \in 1..Len(stack') : stack'[i].file = stack'[j].file => i = j
    <3>1. \A i, j \in 1..Len(stack) : stack[i].file = stack[j].file => i = j
      BY DEF IInv, StackOK
    <3> QED
      BY <1>4, <3>1
  <2> QED
    BY <1>5, <2>1, <2>2, <2>3 DEF StackOK
<1>7. /\ \A l \in base.links : l.to \in Kept /\ l.by \in Loaded
      /\ Loaded = base.files \ {f}
      /\ \A e \in Kept : e \in base.symbols /\ e.file # f
  BY <1>3 DEF IInv, LinksOK, Kept, Loaded
<1> DEFINE found == UNION {Visible(f, s, base, TRUE) : s \in db.uses[f]}
           linked == base.links \cup {[by |-> f, to |-> e] : e \in found}
           kept == Checkpoint([base EXCEPT !.links = @ \cup {[by |-> f, to |-> e] : e \in found}])
           ok == ~Top.errors /\ \A s \in db.uses[f] : \E e \in found : e.name = s
<1>8. /\ base' = IF ok THEN kept ELSE Rollback(base)
      /\ bad' = IF ~ok /\ Top.remember THEN bad \cup {f} ELSE bad
  BY <1>2 DEF EndBuild
<1>9. bad' \subseteq Files
  BY <1>8 DEF IInv, TypeOK
<1>10. CASE ok
  <2>1. found \subseteq base.symbols
    BY DEF Visible
  <2>2. /\ linked \subseteq [by : Files, to : Entries(Files \cup Overlays)]
        /\ \A l \in linked : l \in base.links \/ (l.by = f /\ l.to \in base.symbols)
    <3>1. base.links \subseteq [by : Files, to : Entries(Files \cup Overlays)]
      BY <1>3 DEF Tables
    <3>2. found \subseteq Entries(Files \cup Overlays)
      <4> HIDE DEF found
      <4>1. \A e \in Entries(Files) : e \in Entries(Files \cup Overlays)
        BY DEF Entries
      <4>2. base.symbols \subseteq Entries(Files)
        BY <1>3 DEF Tables
      <4> QED
        BY <2>1, <4>1, <4>2
    <3> HIDE DEF found
    <3>3. \A l \in linked : l \in base.links \/ \E e \in found : l = [by |-> f, to |-> e]
      OBVIOUS
    <3> HIDE DEF linked
    <3>4. \A l \in linked : l \in base.links \/ (l.by = f /\ l.to \in found)
      BY <3>3
    <3>5. \A l \in linked : l \in [by : Files, to : Entries(Files \cup Overlays)]
      BY <3>1, <3>2, <3>3
    <3> QED
      BY <2>1, <3>4, <3>5
  <2>3. base' = kept /\ kept = Checkpoint([base EXCEPT !.links = linked])
    BY <1>8, <1>10
  <2> HIDE DEF linked, kept, found
  <2>4. /\ base' \in Tables(Files) /\ base'.files = base.files /\ base'.symbols = base.symbols
        /\ base'.links = linked /\ base'.newFiles = {} /\ base'.newSymbols = {}
    BY <1>3, <2>2, <2>3 DEF Checkpoint, Tables
  <2>5. StackOK'
    BY <1>6, <2>4
  <2>6. CheckpointOK'
    BY <1>3, <1>5, <2>4 DEF CheckpointOK
  <2>7. Loaded' = base.files /\ Loaded \subseteq Loaded' /\ Kept' = base.symbols /\ Kept \subseteq Kept'
    BY <2>4 DEF Loaded, Kept
  <2>8. FilesOK'
    <3>1. Whole(f, {}, base.symbols)
      BY <1>1, <1>2, <1>10 DEF IInv, FilesOK
    <3>2. \A g \in Loaded : Whole(g, {}, Kept)
      BY DEF IInv, FilesOK
    <3>3. \A g \in Loaded' : g \in Loaded \/ g = f
      BY <1>7, <2>7
    <3>4. \A g \in Loaded' : Whole(g, {}, Kept)'
      BY <1>1, <2>7, <3>1, <3>2, <3>3 DEF Whole
    <3> QED
      BY <1>5, <3>4 DEF FilesOK
  <2>9. LinksOK'
    <3>1. \A l \in base'.links : l.to \in Kept' /\ l.by \in Loaded'
      BY <1>3, <1>7, <2>2, <2>4, <2>7
    <3> QED
      BY <1>1, <2>7, <3>1 DEF IInv, LinksOK
  <2>10. ResultsOK'
    BY <1>1, <2>7 DEF ResultsOK, IInv
  <2>11. TypeOK'
    BY <1>1, <1>4, <1>9, <2>4 DEF TypeOK, IInv
  <2> QED
    BY <1>1, <2>5, <2>6, <2>8, <2>9, <2>10, <2>11 DEF IInv
<1>11. CASE ~ok
  <2>1. base' = Rollback(base)
    BY <1>8, <1>11
  <2>2. /\ base'.files = base.files \ {f} /\ base'.symbols = Kept
        /\ base'.links = {l \in base.links : l.by # f}
        /\ base'.newFiles = {} /\ base'.newSymbols = {}
    BY <1>3, <2>1 DEF Rollback, Kept
  <2>3. base' \in Tables(Files)
    BY <1>3, <2>1, RollbackType
  <2>4. base'.links = base.links /\ Loaded' = Loaded /\ Kept' = Kept
    BY <1>7, <2>2 DEF Loaded, Kept
  <2>5. StackOK'
    BY <1>6, <2>2
  <2>6. CheckpointOK'
    <3>1. \A e \in Kept : e.file \in base.files \ {f}
      BY <1>3, <1>7
    <3>2. \A d, e \in Kept : d.name = e.name => d = e
      BY <1>3 DEF Kept
    <3> QED
      BY <1>5, <2>2, <3>1, <3>2 DEF CheckpointOK
  <2>7. FilesOK'
    BY <1>1, <1>5, <2>4 DEF FilesOK, Whole, IInv
  <2>8. LinksOK'
    BY <1>1, <2>4, PointersKept
  <2>9. ResultsOK'
    BY <1>1, <2>4 DEF ResultsOK, IInv
  <2>10. TypeOK'
    BY <1>1, <1>4, <1>9, <2>3 DEF TypeOK, IInv
  <2> QED
    BY <1>1, <2>5, <2>6, <2>7, <2>8, <2>9, <2>10 DEF IInv
<1> QED
  BY <1>10, <1>11
-----------------------------------------------------------------------------
(* The steps of the overlay *)

JobType ==
  /\ job \in [stage : {"idle", "imports", "import", "link"}, file : Overlays \cup {None},
              todo : SUBSET (Files \cup Symbols), errors : BOOLEAN]
  /\ job.stage # "idle" => job.file \in Overlays
  /\ job.stage \in {"imports", "import"} => job.todo \subseteq Files
  /\ job.stage = "link" => job.todo \subseteq Symbols

OverLinked ==
  /\ \A l \in over.links :
       \/ l.to \in Kept
       \/ l.to \in over.symbols \ over.newSymbols
       \/ l.to \in over.symbols /\ l.by \in over.newFiles
  /\ over.newFiles = IF job.stage = "idle" THEN {} ELSE {job.file}
  /\ job.stage = "idle" => over.newSymbols = {}

\* Steps of the builder leave the first pool alone.
LEMMA OverFrame ==
  ASSUME IInv, UNCHANGED <<db, enforce, base, pending, bad, stack, holder, req, res>>,
         over' \in Tables(Overlays), calls' \in [Threads -> 0..MaxCalls],
         JobType', OverLinked'
  PROVE  IInv'
<1>1. TypeOK'
  BY DEF TypeOK, IInv, JobType
<1>2. StackOK'
  BY DEF StackOK, IInv, Building, Top
<1>3. CheckpointOK' /\ FilesOK' /\ Kept' = Kept /\ Loaded' = Loaded
  BY TablesKept
<1>4. LinksOK'
  <2>1. \A l \in base'.links : l.to \in Kept' /\ l.by \in Loaded'
    BY <1>3 DEF LinksOK, IInv
  <2> QED
    BY <2>1 DEF LinksOK, OverLinked
<1>5. ResultsOK'
  BY <1>3 DEF ResultsOK, IInv
<1> QED
  BY <1>1, <1>2, <1>3, <1>4, <1>5 DEF IInv

LEMMA OverNow ==
  ASSUME IInv
  PROVE  JobType /\ OverLinked /\ over \in Tables(Overlays) /\ calls \in [Threads -> 0..MaxCalls]
  BY DEF IInv, TypeOK, LinksOK, JobType, OverLinked

LEMMA OverBuildFileIInv == ASSUME IInv, NEW f \in Overlays, OverBuildFile(f) PROVE IInv'
<1>1. /\ UNCHANGED <<db, enforce, base, pending, bad, stack, holder, req, res>>
      /\ job.stage = "idle" /\ calls[Builder] < MaxCalls
      /\ calls' = [calls EXCEPT ![Builder] = @ + 1]
  BY DEF OverBuildFile
<1>2. JobType /\ OverLinked /\ over \in Tables(Overlays) /\ calls \in [Threads -> 0..MaxCalls]
  BY OverNow
<1>3. calls' \in [Threads -> 0..MaxCalls]
  <2>1. Builder \in Threads
    BY DEF Threads
  <2> QED
    BY <1>1, <1>2, <2>1, NamesAssumption
<1>4. Kept' = Kept
  BY <1>1 DEF Kept
<1>5. CASE UNCHANGED <<over, job>>
  <2>1. JobType' /\ over' \in Tables(Overlays)
    BY <1>2, <1>5 DEF JobType
  <2>2. OverLinked'
    BY <1>2, <1>4, <1>5 DEF OverLinked
  <2> QED
    BY <1>1, <1>3, <2>1, <2>2, OverFrame
<1>6. CASE /\ f \notin over.files
           /\ over' = AddPackage(AddFile(Checkpoint(over), f), f)
           /\ job' = [stage |-> "imports", file |-> f, todo |-> db.imports[f],
                      errors |-> PackageClashes(over, f)]
  <2>1. db \in Databases /\ Overlays \in SUBSET (Files \cup Overlays)
    BY DEF IInv
  <2>2. over' \in Tables(Overlays) /\ WithNewFile(over', over, f)
    BY <1>2, <1>6, <2>1, NewFileTables
  <2>3. PackageClashes(over, f) \in BOOLEAN /\ db.imports[f] \subseteq Files
    BY <2>1, DbType DEF PackageClashes
  <2>4. JobType' /\ job'.stage = "imports" /\ job'.file = f
    BY <1>6, <2>3 DEF JobType
  <2>5. \A l \in over.links : l.to \in Kept \/ l.to \in over.symbols
    BY <1>2 DEF OverLinked
  <2>6. OverLinked'
    BY <1>4, <2>2, <2>4, <2>5 DEF OverLinked, WithNewFile
  <2> QED
    BY <1>1, <1>3, <2>2, <2>4, <2>6, OverFrame
<1> QED
  BY <1>5, <1>6 DEF OverBuildFile

LEMMA OverImportedIInv == ASSUME IInv, OverImported PROVE IInv'
<1>1. /\ UNCHANGED <<db, enforce, base, over, pending, bad, stack, holder, req, res, calls>>
      /\ job.stage = "import"
  BY DEF OverImported
<1>2. JobType /\ OverLinked /\ over \in Tables(Overlays) /\ calls \in [Threads -> 0..MaxCalls]
  BY OverNow
<1> DEFINE x == job.errors \/ res[Builder] = None
<1>3. x \in BOOLEAN /\ job' = [job EXCEPT !.stage = "imports", !.errors = x]
  BY DEF OverImported
<1> HIDE DEF x
<1>4. JobType' /\ job'.stage = "imports" /\ job'.file = job.file
  BY <1>1, <1>2, <1>3 DEF JobType
<1>5. Kept' = Kept
  BY <1>1 DEF Kept
<1>6. OverLinked'
  BY <1>1, <1>2, <1>4, <1>5 DEF OverLinked
<1> QED
  BY <1>1, <1>2, <1>4, <1>6, OverFrame

LEMMA OverSymbolsIInv == ASSUME IInv, OverSymbols PROVE IInv'
<1>1. /\ UNCHANGED <<db, enforce, base, pending, bad, stack, holder, req, res, calls>>
      /\ job.stage = "imports" /\ job.todo = {}
  BY DEF OverSymbols
<1>2. JobType /\ OverLinked /\ over \in Tables(Overlays) /\ calls \in [Threads -> 0..MaxCalls]
  BY OverNow
<1>3. PICK f \in Overlays : f = job.file
  BY <1>1, <1>2 DEF JobType
<1> DEFINE es == {Entry(s, f, FALSE) : s \in db.defines[f]}
           new == {e \in es : ~Defined(over, e.name)}
           x == job.errors \/ \E e \in es : Clashes(over, e)
<1>4. /\ over' = [over EXCEPT !.symbols = @ \cup new, !.newSymbols = @ \cup new]
      /\ job' = [job EXCEPT !.stage = "link", !.todo = db.uses[f], !.errors = x]
  BY <1>3 DEF OverSymbols
<1>5. db.uses[f] \subseteq Symbols /\ db.defines[f] \subseteq Symbols
  BY DbType DEF IInv
<1>6. new \subseteq Entries(Overlays) /\ new \cap over.symbols = {}
  <2>1. \A s \in db.defines[f] : Entry(s, f, FALSE) \in Entries(Overlays)
    BY <1>5, EntryType
  <2>2. \A e \in new : e \in Entries(Overlays) /\ e \notin over.symbols
    BY <2>1 DEF Defined
  <2> QED
    BY <2>2
<1>7. x \in BOOLEAN
  OBVIOUS
<1> HIDE DEF new, x, es
<1>8. JobType' /\ job'.stage = "link" /\ job'.file = job.file
  BY <1>1, <1>2, <1>4, <1>5, <1>7 DEF JobType
<1>9. /\ over' \in Tables(Overlays)
      /\ over'.symbols = over.symbols \cup new /\ over'.newSymbols = over.newSymbols \cup new
      /\ over'.links = over.links /\ over'.newFiles = over.newFiles
  BY <1>2, <1>4, <1>6 DEF Tables
<1>10. Kept' = Kept
  BY <1>1 DEF Kept
<1>11. OverLinked'
  BY <1>1, <1>2, <1>6, <1>8, <1>9, <1>10 DEF OverLinked
<1> QED
  BY <1>1, <1>2, <1>8, <1>9, <1>11, OverFrame

LEMMA OverLinkIInv == ASSUME IInv, OverLink PROVE IInv'
<1>1. /\ UNCHANGED <<db, enforce, base, pending, bad, stack, holder, req, res, calls>>
      /\ job.stage = "link"
  BY DEF OverLink
<1>2. JobType /\ OverLinked /\ over \in Tables(Overlays) /\ calls \in [Threads -> 0..MaxCalls]
  BY OverNow
<1>3. PICK s \in job.todo :
        \/ Defined(over, s) /\ Link(s, over)
        \/ ~Defined(over, s) /\ holder = None /\ Link(s, base)
  BY DEF OverLink
<1>4. holder = None => Kept = base.symbols
  BY DEF IInv, TypeOK, CheckpointOK, Building, Kept
<1>5. base \in Tables(Files)
  BY DEF IInv, TypeOK
<1>6. PICK es \in SUBSET Entries(Files \cup Overlays) :
        /\ over' = [over EXCEPT !.links = @ \cup {[by |-> job.file, to |-> e] : e \in es}]
        /\ job' = [job EXCEPT !.todo = @ \ {s}, !.errors = @ \/ es = {}]
        /\ es \subseteq over.symbols \/ es \subseteq Kept
  <2>1. CASE Link(s, over)
    <3>1. Visible(job.file, s, over, enforce) \subseteq over.symbols
      BY DEF Visible
    <3>2. over.symbols \subseteq Entries(Files \cup Overlays)
      BY <1>2 DEF Tables, Entries
    <3> QED
      BY <2>1, <3>1, <3>2 DEF Link
  <2>2. CASE holder = None /\ Link(s, base)
    <3>1. Visible(job.file, s, base, enforce) \subseteq base.symbols
      BY DEF Visible
    <3>2. base.symbols \subseteq Entries(Files \cup Overlays)
      BY <1>5 DEF Tables, Entries
    <3> QED
      BY <1>4, <2>2, <3>1, <3>2 DEF Link
  <2> QED
    BY <1>3, <2>1, <2>2
<1> DEFINE linked == over.links \cup {[by |-> job.file, to |-> e] : e \in es}
           x == job.errors \/ es = {}
<1>7. over' = [over EXCEPT !.links = linked] /\ job' = [job EXCEPT !.todo = @ \ {s}, !.errors = x]
  BY <1>6
<1>8. job.file \in Overlays /\ x \in BOOLEAN
  BY <1>1, <1>2 DEF JobType
<1>9. \A l \in linked : l \in over.links \/ \E e \in es : l = [by |-> job.file, to |-> e]
  OBVIOUS
<1> HIDE DEF linked, x
<1>10. over.links \subseteq [by : Overlays, to : Entries(Files \cup Overlays)]
  BY <1>2 DEF Tables
<1>11. linked \subseteq [by : Overlays, to : Entries(Files \cup Overlays)]
  <2>1. SUFFICES ASSUME NEW l \in linked PROVE l \in [by : Overlays, to : Entries(Files \cup Overlays)]
    OBVIOUS
  <2>2. CASE l \in over.links
    BY <1>10, <2>2
  <2>3. CASE \E e \in es : l = [by |-> job.file, to |-> e]
    BY <1>8, <2>3
  <2> QED
    BY <1>9, <2>2, <2>3
<1>12. /\ over' \in Tables(Overlays) /\ over'.links = linked
       /\ over'.symbols = over.symbols /\ over'.newSymbols = over.newSymbols
       /\ over'.newFiles = over.newFiles
  BY <1>2, <1>7, <1>11 DEF Tables
<1>13. JobType' /\ job'.stage = "link" /\ job'.file = job.file
  BY <1>1, <1>2, <1>7, <1>8 DEF JobType
<1>14. Kept' = Kept
  BY <1>1 DEF Kept
<1>15. over.newFiles = {job.file}
  BY <1>1, <1>2 DEF OverLinked
<1>16. \A l \in linked : l \in over.links \/ (l.by = job.file /\ l.to \in es)
  BY <1>9
<1>17. \A l \in linked :
         \/ l.to \in Kept
         \/ l.to \in over.symbols \ over.newSymbols
         \/ l.to \in over.symbols /\ l.by \in over.newFiles
  BY <1>2, <1>6, <1>15, <1>16 DEF OverLinked
<1>18. OverLinked'
  BY <1>1, <1>12, <1>13, <1>14, <1>15, <1>17 DEF OverLinked
<1> QED
  BY <1>1, <1>2, <1>12, <1>13, <1>18, OverFrame

LEMMA OverEndIInv == ASSUME IInv, OverEnd PROVE IInv'
<1>1. /\ UNCHANGED <<db, enforce, base, pending, bad, stack, holder, req, res, calls>>
      /\ job.stage = "link" /\ job' = NoJob
      /\ over' = IF job.errors THEN Rollback(over) ELSE Checkpoint(over)
  BY DEF OverEnd
<1>2. JobType /\ OverLinked /\ over \in Tables(Overlays) /\ calls \in [Threads -> 0..MaxCalls]
  BY OverNow
<1>3. JobType' /\ job'.stage = "idle"
  BY <1>1 DEF JobType, NoJob
<1>4. over' \in Tables(Overlays)
  BY <1>1, <1>2, RollbackType
<1>5. Kept' = Kept
  BY <1>1 DEF Kept
<1>6. OverLinked'
  <2>1. CASE job.errors
    <3>1. /\ over'.symbols = over.symbols \ over.newSymbols
          /\ over'.links = {l \in over.links : l.by \notin over.newFiles}
          /\ over'.newFiles = {} /\ over'.newSymbols = {}
      BY <1>1, <2>1 DEF Rollback
    <3> QED
      BY <1>2, <1>3, <1>5, <3>1 DEF OverLinked
  <2>2. CASE ~job.errors
    <3>1. /\ over'.symbols = over.symbols /\ over'.links = over.links
          /\ over'.newFiles = {} /\ over'.newSymbols = {}
      BY <1>1, <1>2, <2>2 DEF Checkpoint, Tables
    <3> QED
      BY <1>2, <1>3, <1>5, <3>1 DEF OverLinked
  <2> QED
    BY <2>1, <2>2
<1> QED
  BY <1>1, <1>2, <1>3, <1>4, <1>6, OverFrame
-----------------------------------------------------------------------------
(* Theorems *)

LEMMA NextIInv == IInv /\ [Next]_vars => IInv'
<1> SUFFICES ASSUME IInv, [Next]_vars PROVE IInv'
  OBVIOUS
<1>1. CASE Next
  <2>1. CASE LoadImport
    BY <2>1, LoadImportIInv
  <2>2. CASE StartBuild
    BY <2>2, StartBuildIInv
  <2>3. CASE BuildSymbol
    BY <2>3, BuildSymbolIInv
  <2>4. CASE EndBuild
    BY <2>4, EndBuildIInv
  <2>5. CASE \E t \in Threads : Return(t)
    BY <2>5, ReturnIInv
  <2>6. CASE \E u \in Users : Lookup(u)
    BY <2>6, LookupIInv
  <2>7. CASE \E f \in Overlays : OverBuildFile(f)
    BY <2>7, OverBuildFileIInv
  <2>8. CASE OverImport
    BY <2>8, OverImportIInv
  <2>9. CASE OverImported
    BY <2>9, OverImportedIInv
  <2>10. CASE OverSymbols
    BY <2>10, OverSymbolsIInv
  <2>11. CASE OverLink
    BY <2>11, OverLinkIInv
  <2>12. CASE OverEnd
    BY <2>12, OverEndIInv
  <2> QED
    BY <1>1, <2>1, <2>2, <2>3, <2>4, <2>5, <2>6, <2>7, <2>8, <2>9, <2>10, <2>11, <2>12 DEF Next
<1>2. CASE UNCHANGED vars
  <2>1. UNCHANGED <<db, enforce, base, pending, bad, stack, holder, req, res>>
        /\ UNCHANGED <<over, job, calls>>
    BY <1>2 DEF vars
  <2>2. JobType /\ OverLinked /\ over \in Tables(Overlays) /\ calls \in [Threads -> 0..MaxCalls]
    BY OverNow
  <2>3. JobType' /\ over' \in Tables(Overlays) /\ calls' \in [Threads -> 0..MaxCalls]
    BY <2>1, <2>2 DEF JobType
  <2>4. OverLinked'
    BY <2>1, <2>2 DEF OverLinked, Kept
  <2> QED
    BY <2>1, <2>3, <2>4, OverFrame
<1> QED
  BY <1>1, <1>2

LEMMA IInvHolds == Spec => []IInv
<1>1. Init => IInv
  BY InitIInv
<1>2. IInv /\ [Next]_vars => IInv'
  BY NextIInv
<1> QED
  BY <1>1, <1>2, PTL DEF Spec

\* The tables, the stack of files being loaded and the builder's work keep their
\* types, and nobody loads files without the mutex (MutexLockMaybe in the lookups
\* of descriptor.cc).
THEOREM TypesAreKept == Spec => []TypeOK
<1>1. IInv => TypeOK
  BY DEF IInv
<1> QED
  BY <1>1, IInvHolds, PTL

\* Whatever the database holds, a file in the pool has its imports and its symbols
\* there, and a file that fails leaves nothing behind (Checkpoint and Rollback of
\* DescriptorPool::Tables).
THEOREM LoadedFilesAreWholeAlways == Spec => []LoadedFilesAreWhole
<1>1. IInv => LoadedFilesAreWhole
  <2> SUFFICES ASSUME IInv PROVE LoadedFilesAreWhole
    OBVIOUS
  <2>1. /\ base.newSymbols \subseteq base.symbols
        /\ \A e \in base.symbols : e.file \in base.files
        /\ \A e \in base.symbols : e \in base.newSymbols <=> e.file \in base.newFiles
        /\ \A d, e \in base.symbols : d.name = e.name => d = e
    BY DEF IInv, CheckpointOK
  <2>2. stack = <<>> => base.newFiles = {} /\ base.newSymbols = {}
    BY <2>1 DEF IInv, CheckpointOK, Building
  <2>3. \A f \in Loaded : Whole(f, {}, Kept)
    BY DEF IInv, FilesOK
  <2>4. ASSUME NEW f \in Loaded
        PROVE  /\ db.imports[f] \subseteq Loaded
               /\ \A s \in db.defines[f] : Entry(s, f, FALSE) \in base.symbols
               /\ PackageOf(f) # {} => \E e \in base.symbols : e.name = db.package[f] /\ e.package
    <3>1. PackageOf(f) # {} => db.package[f] # None
      BY DEF PackageOf
    <3> QED
      BY <2>3, <3>1 DEF Whole, Kept
  <2> QED
    BY <2>1, <2>2, <2>4 DEF LoadedFilesAreWhole
<1> QED
  BY <1>1, IInvHolds, PTL

\* A descriptor that a lookup returned, or that a field of either pool was linked to,
\* is never rolled back (DescriptorBuilder::FindSymbol takes the mutex of the pool
\* below before it reads its tables).
THEOREM PointersStayValidAlways == Spec => []PointersStayValid
<1>1. IInv => PointersStayValid
  <2> SUFFICES ASSUME IInv PROVE PointersStayValid
    OBVIOUS
  <2>1. \A e \in Kept : e \in base.symbols /\ e.file \in Loaded
    BY DEF IInv, CheckpointOK, Kept, Loaded
  <2> QED
    BY <2>1 DEF IInv, ResultsOK, LinksOK, PointersStayValid
<1> QED
  BY <1>1, IInvHolds, PTL

\* However the files of a database import each other, BuildFile calls itself at most
\* once for each (the look at pending_files_).
THEOREM RecursionIsBoundedAlways == Spec => []RecursionIsBounded
<1>1. IInv => RecursionIsBounded
  <2> SUFFICES ASSUME IInv PROVE RecursionIsBounded
    OBVIOUS
  <2> DEFINE n == Len(stack)
             loading == [i \in 1..n |-> stack[i].file]
  <2>1. n \in Nat /\ \A i \in 1..n : stack[i].file \in Files
    BY DEF IInv, TypeOK, Frames
  <2>2. loading \in Injection(1..n, Files)
    <3>1. \A i, j \in 1..n : stack[i].file = stack[j].file => i = j
      BY DEF IInv, StackOK
    <3> HIDE DEF n
    <3> QED
      BY <2>1, <3>1 DEF Injection, IsInjective
  <2>3. IsFiniteSet(Files)
    BY NamesAssumption
  <2> HIDE DEF n, loading
  <2>4. Cardinality(1..n) <= Cardinality(Files)
    BY <2>2, <2>3, FS_Injection
  <2>5. Cardinality(1..n) = IF 1 > n THEN 0 ELSE n - 1 + 1
    BY <2>1, FS_Interval
  <2>6. Cardinality(1..n) = n
    BY <2>1, <2>5
  <2> QED
    BY <2>4, <2>6 DEF RecursionIsBounded, n
<1> QED
  BY <1>1, IInvHolds, PTL
-----------------------------------------------------------------------------
(* Files without fault *)

\* A file that is loaded for another is needed by it, and what a file without fault
\* imports was loaded when it was tried.
NeededAbove ==
  \A i, j \in 1..Len(stack) : i < j => stack[j].file \in Needs(stack[i].file)
Tried(i) == db.imports[stack[i].file] \ stack[i].todo
TriedOK ==
  \A i \in 1..Len(stack) :
    stack[i].stage = "imports" =>
      /\ stack[i].todo \subseteq db.imports[stack[i].file]
      /\ \A g \in Tried(i) :
           Faultless(g) => g \in Loaded \/ (i < Len(stack) /\ g = stack[i + 1].file)

\* A symbol belongs to a file that defines it or whose package it is.
OwnersOK ==
  \A e \in base.symbols :
    IF e.package THEN e.name = db.package[e.file] ELSE e.name \in db.defines[e.file]

\* The file that is built has what it defines once, and no error if it has no fault.
NoErrors ==
  Building =>
    /\ Top.todo \subseteq db.defines[Top.file]
    /\ \A e \in base.symbols : e.file = Top.file /\ ~e.package => e.name \notin Top.todo
    /\ Faultless(Top.file) => ~Top.errors

\* What a thread asks for it is loading, or has; what it was denied has a fault, and
\* so has what is known to be bad.
Asked(t, f) == f = req[t].file \/ req[t].symbol \in db.defines[f]
AskedOK ==
  \A t \in Threads, f \in Files :
    holder = t /\ Asked(t, f) /\ Faultless(f) =>
      f \in Loaded \/ (stack # <<>> /\ stack[1].file = f)
AnswersOK ==
  \A t \in Threads, f \in Files :
    holder # t /\ res[t] = None /\ Asked(t, f) => ~Faultless(f)
BadOK == \A f \in bad : ~Faultless(f)

FaultInv == NeededAbove /\ TriedOK /\ OwnersOK /\ NoErrors /\ AskedOK /\ AnswersOK /\ BadOK

\* What a file needs is closed under imports.
LEMMA NeedsFacts ==
  ASSUME db \in Databases, NEW f \in Files
  PROVE  /\ Needs(f) \subseteq Files /\ db.imports[f] \subseteq Needs(f)
         /\ \A g \in Needs(f) : db.imports[g] \subseteq Needs(f) /\ Needs(g) \subseteq Needs(f)
<1>1. Needs(f) \in SUBSET Files
  BY DEF Needs
<1>2. db.imports[f] \subseteq Needs(f)
  BY DbType DEF Needs
<1>3. ImportsIn(Needs(f))
  BY DbType DEF Needs, ImportsIn
<1>4. ASSUME NEW g \in Needs(f) PROVE Needs(g) \subseteq Needs(f)
  <2>1. db.imports[g] \subseteq Needs(f)
    BY <1>3 DEF ImportsIn
  <2>2. \A h \in Needs(g) : \A S \in SUBSET Files :
          db.imports[g] \subseteq S /\ ImportsIn(S) => h \in S
    BY DEF Needs
  <2> QED
    BY <1>1, <1>3, <2>1, <2>2
<1> QED
  BY <1>1, <1>2, <1>3, <1>4 DEF ImportsIn

LEMMA FaultlessNeeds ==
  ASSUME db \in Databases, NEW f \in Files, Faultless(f), NEW g \in Needs(f)
  PROVE  Faultless(g)
<1>1. {g} \cup Needs(g) \subseteq {f} \cup Needs(f)
  BY NeedsFacts
<1> QED
  BY <1>1 DEF Faultless

LEMMA SameFaults ==
  ASSUME db' = db
  PROVE  \A f : (Faultless(f)' <=> Faultless(f)) /\ Needs(f)' = Needs(f)
  BY DEF Faultless, Needs, ImportsIn

LEMMA AllTrying ==
  ASSUME IInv, ~Building
  PROVE  /\ Len(stack) \in Nat /\ stack \in Seq(Frames) /\ (stack = <<>> <=> Len(stack) = 0)
         /\ \A i \in 1..Len(stack) :
              /\ stack[i].stage = "imports" /\ stack[i].file \in Files
              /\ stack[i].file \notin base.files
         /\ Len(pending) = Len(stack) /\ \A i \in 1..Len(stack) : pending[i] = stack[i].file
<1>1. stack \in Seq(Frames) /\ Len(stack) \in Nat /\ (stack = <<>> <=> Len(stack) = 0)
  BY DEF IInv, TypeOK
<1>2. \A i \in 1..Len(stack) : stack[i] \in Frames
  BY <1>1
<1>3. \A i \in 1..Len(stack) : stack[i].stage = "imports"
  <2>1. stack # <<>> => Top.stage = "imports"
    BY StackType DEF Building, Frames, IInv
  <2> QED
    BY <1>1, <2>1 DEF IInv, StackOK, Top
<1>4. \A i \in 1..Len(stack) : stack[i].file \in Files
  BY <1>2 DEF Frames
<1>5. Len(pending) = Len(stack)
  BY DEF IInv, StackOK
<1>6. \A i \in 1..Len(stack) : pending[i] = stack[i].file
  BY <1>5 DEF IInv, StackOK
<1>7. \A i \in 1..Len(stack) : stack[i].file \notin base.files
  BY <1>3 DEF IInv, StackOK
<1> QED
  BY <1>1, <1>3, <1>4, <1>5, <1>6, <1>7

\* The stack while its innermost file tries its import f.
Trying(rest, f) ==
  /\ rest \in Seq(Frames) /\ Len(rest) = Len(stack)
  /\ \A i \in 1..Len(stack) : rest[i].file = stack[i].file /\ rest[i].stage = stack[i].stage
  /\ \A i \in 1..Len(stack) :
       IF i < Len(stack) THEN rest[i].todo = stack[i].todo
       ELSE rest[i].todo = stack[i].todo \ {f} /\ f \in db.imports[stack[i].file]

LEMMA TryingFaults ==
  ASSUME IInv, FaultInv, ~Building, NEW f \in Files, NEW rest, Trying(rest, f),
         UNCHANGED <<db, base>>,
         \/ stack' = rest /\ (Faultless(f) => f \in Loaded)
         \/ \E r : Enter(f, rest, r)
  PROVE  NeededAbove' /\ TriedOK'
<1> DEFINE n == Len(stack)
<1>1. /\ n \in Nat /\ \A i \in 1..n : stack[i].stage = "imports" /\ stack[i].file \in Files
  BY AllTrying
<1>2. Loaded' = Loaded /\ db' = db /\ db \in Databases
  BY DEF Loaded, IInv
<1>3. \A g : (Faultless(g)' <=> Faultless(g)) /\ Needs(g)' = Needs(g)
  BY SameFaults
<1>4. /\ Len(rest) = n /\ rest \in Seq(Frames)
      /\ \A i \in 1..n : rest[i].file = stack[i].file
      /\ \A i \in 1..n : i < n => rest[i].todo = stack[i].todo
      /\ \A i \in 1..n : i = n => rest[i].todo = stack[i].todo \ {f} /\ f \in db.imports[stack[i].file]
  BY <1>1 DEF Trying
<1>5. \A i, j \in 1..n : i < j => stack[j].file \in Needs(stack[i].file)
  BY DEF FaultInv, NeededAbove
<1>6. \A i \in 1..n :
        /\ stack[i].todo \subseteq db.imports[stack[i].file]
        /\ \A g \in db.imports[stack[i].file] \ stack[i].todo :
             Faultless(g) => g \in Loaded \/ (i < n /\ g = stack[i + 1].file)
  BY <1>1 DEF FaultInv, TriedOK, Tried
<1>7. \A i \in 1..n :
        /\ rest[i].todo \subseteq db.imports[rest[i].file]
        /\ \A g \in db.imports[rest[i].file] \ rest[i].todo :
             Faultless(g) => \/ g \in Loaded
                             \/ i < n /\ g = rest[i + 1].file
                             \/ i = n /\ g = f
  <2> SUFFICES ASSUME NEW i \in 1..n
               PROVE  /\ rest[i].todo \subseteq db.imports[rest[i].file]
                      /\ \A g \in db.imports[rest[i].file] \ rest[i].todo :
                           Faultless(g) => \/ g \in Loaded
                                           \/ i < n /\ g = rest[i + 1].file
                                           \/ i = n /\ g = f
    OBVIOUS
  <2>1. CASE i = n
    BY <1>1, <1>4, <1>6, <2>1
  <2>2. CASE i < n
    <3>1. i + 1 \in 1..n
      BY <1>1, <2>2
    <3> QED
      BY <1>4, <1>6, <2>2, <3>1
  <2> QED
    BY <1>1, <2>1, <2>2
<1> HIDE DEF n
<1>8. CASE stack' = rest /\ (Faultless(f) => f \in Loaded)
  <2>1. Len(stack') = n /\ stack' = rest
    BY <1>4, <1>8
  <2>2. NeededAbove'
    BY <1>3, <1>4, <1>5, <2>1 DEF NeededAbove
  <2>3. TriedOK'
    BY <1>2, <1>3, <1>7, <1>8, <2>1 DEF TriedOK, Tried
  <2> QED
    BY <2>2, <2>3
<1>9. ASSUME NEW r, Enter(f, rest, r) PROVE NeededAbove' /\ TriedOK'
  <2> DEFINE fr == [file |-> f, stage |-> "imports", todo |-> db.imports[f],
                    errors |-> FALSE, remember |-> r]
  <2>1. fr.file = f /\ fr.todo = db.imports[f] /\ stack' = Append(rest, fr)
    BY <1>9 DEF Enter
  <2> HIDE DEF fr
  <2>2. /\ Len(stack') = n + 1 /\ stack'[n + 1] = fr
        /\ \A i \in 1..n : stack'[i] = rest[i]
        /\ \A i \in 1..(n + 1) : i \in 1..n \/ i = n + 1
    BY <1>1, <1>4, <2>1
  <2>3. NeededAbove'
    <3> SUFFICES ASSUME NEW i \in 1..(n + 1), NEW j \in 1..(n + 1), i < j
                 PROVE  stack'[j].file \in Needs(stack'[i].file)
      BY <1>3, <2>2 DEF NeededAbove
    <3>1. i \in 1..n
      BY <1>1
    <3>2. CASE j \in 1..n
      BY <1>4, <1>5, <2>2, <3>1, <3>2
    <3>3. CASE j = n + 1
      <4>1. stack'[j].file = f /\ stack'[i].file = stack[i].file
        BY <1>4, <2>1, <2>2, <3>1, <3>3
      <4>2. n \in 1..n /\ f \in db.imports[stack[n].file]
        BY <1>1, <1>4, <3>1
      <4>3. i = n \/ stack[n].file \in Needs(stack[i].file)
        BY <1>1, <1>5, <3>1, <4>2
      <4> QED
        BY <1>1, <1>2, <3>1, <4>1, <4>2, <4>3, NeedsFacts
    <3> QED
      BY <2>2, <3>2, <3>3
  <2>4. TriedOK'
    <3> SUFFICES ASSUME NEW i \in 1..(n + 1)
                 PROVE  /\ stack'[i].todo \subseteq db.imports[stack'[i].file]
                        /\ \A g \in db.imports[stack'[i].file] \ stack'[i].todo :
                             Faultless(g) => \/ g \in Loaded
                                             \/ i < n + 1 /\ g = stack'[i + 1].file
      BY <1>2, <1>3, <2>2 DEF TriedOK, Tried
    <3>1. CASE i = n + 1
      BY <2>1, <2>2, <3>1
    <3>2. CASE i \in 1..n
      <4>1. i < n + 1 /\ (i = n \/ i + 1 \in 1..n)
        BY <1>1, <3>2
      <4>2. i < n => stack'[i + 1].file = rest[i + 1].file
        BY <1>1, <2>2, <3>2
      <4>3. i = n => stack'[i + 1].file = f
        BY <2>1, <2>2
      <4> QED
        BY <1>7, <2>2, <3>2, <4>1, <4>2, <4>3
    <3> QED
      BY <2>2, <3>1, <3>2
  <2> QED
    BY <2>3, <2>4
<1> QED
  BY <1>8, <1>9

\* What is not loaded has a fault: it is bad or missing, or it imports itself.
LEMMA TryFileFaults ==
  ASSUME IInv, FaultInv, ~Building, NEW f \in Files, NEW rest, Trying(rest, f),
         UNCHANGED <<db, base>>, TryFile(f, rest)
  PROVE  /\ NeededAbove' /\ TriedOK' /\ BadOK'
         /\ \A i \in 1..Len(stack) : stack'[i].file = stack[i].file /\ stack' # <<>>
         /\ Faultless(f) => stack' # <<>> /\ stack'[Len(stack) + 1].file = f
<1> DEFINE n == Len(stack)
<1>1. /\ n \in Nat /\ Len(pending) = n
      /\ \A i \in 1..n : stack[i].file \in Files /\ pending[i] = stack[i].file
  BY AllTrying
<1>2. db \in Databases
  BY DEF IInv
<1>3. f \in PendingFiles => ~Faultless(f)
  <2> SUFFICES ASSUME NEW i \in 1..n, stack[i].file = f PROVE ~Faultless(f)
    <3>1. pending \in Seq(Files)
      BY DEF IInv, TypeOK
    <3> QED
      BY <1>1, <3>1 DEF PendingFiles
  <2>1. n \in 1..n /\ f \in db.imports[stack[n].file]
    BY <1>1 DEF Trying
  <2>2. i = n \/ stack[n].file \in Needs(f)
    BY <1>1, <2>1 DEF FaultInv, NeededAbove
  <2>3. f \in Needs(f)
    BY <1>2, <2>1, <2>2, NeedsFacts
  <2> QED
    BY <2>3 DEF Faultless
<1>4. \A g : Faultless(g)' <=> Faultless(g)
  BY SameFaults
<1>5. /\ Len(rest) = n /\ rest \in Seq(Frames)
      /\ \A i \in 1..n : rest[i].file = stack[i].file
  BY DEF Trying
<1>6. CASE f \notin PendingFiles /\ Enter(f, rest, TRUE)
  <2> DEFINE fr == [file |-> f, stage |-> "imports", todo |-> db.imports[f],
                    errors |-> FALSE, remember |-> TRUE]
  <2>1. NeededAbove' /\ TriedOK'
    BY <1>6, TryingFaults
  <2>2. BadOK'
    BY <1>4, <1>6 DEF FaultInv, BadOK, Enter
  <2>3. stack' = Append(rest, fr) /\ fr.file = f
    BY <1>6 DEF Enter
  <2> HIDE DEF fr
  <2>4. stack' # <<>> /\ stack'[n + 1] = fr /\ \A i \in 1..n : stack'[i] = rest[i]
    BY <1>1, <1>5, <2>3
  <2> QED
    BY <1>5, <2>1, <2>2, <2>3, <2>4
<1>7. CASE /\ f \in bad \/ f \notin db.has \/ f \in PendingFiles
           /\ bad' = bad \cup {f} /\ stack' = rest
  <2>1. ~Faultless(f)
    <3>1. f \in bad => ~Faultless(f)
      BY DEF FaultInv, BadOK
    <3>2. f \notin db.has => ~Faultless(f)
      BY DEF Faultless
    <3> QED
      BY <1>3, <1>7, <3>1, <3>2
  <2>2. NeededAbove' /\ TriedOK'
    BY <1>7, <2>1, TryingFaults
  <2>3. BadOK'
    BY <1>4, <1>7, <2>1 DEF FaultInv, BadOK
  <2>4. \A i \in 1..n : stack'[i].file = stack[i].file /\ stack' # <<>>
    BY <1>1, <1>5, <1>7
  <2> QED
    BY <2>1, <2>2, <2>3, <2>4
<1> QED
  BY <1>6, <1>7 DEF TryFile

LEMMA LoadImportFaults == ASSUME IInv, FaultInv, LoadImport, IInv' PROVE FaultInv'
<1>1. /\ ~Building /\ stack # <<>> /\ Top.stage = "imports" /\ Top \in Frames
      /\ UNCHANGED <<db, enforce, base, over, holder, req, res, job, calls>>
  BY StackType DEF LoadImport, Building, IInv
<1>2. PICK f \in Top.todo :
        LET rest == Append(Lower, [Top EXCEPT !.todo = @ \ {f}])
        IN  \/ f \notin base.files /\ TryFile(f, rest)
            \/ /\ f \in base.files /\ stack' = rest
               /\ UNCHANGED <<pending, bad>>
  BY DEF LoadImport
<1> DEFINE fr == [Top EXCEPT !.todo = @ \ {f}]
           rest == Append(Lower, fr)
           n == Len(stack)
<1>3. /\ fr \in Frames /\ fr.file = Top.file /\ fr.stage = Top.stage /\ fr.todo = Top.todo \ {f}
      /\ f \in Files
  BY <1>1, <1>2 DEF Frames
<1> HIDE DEF fr
<1>4. /\ n \in Nat \ {0} /\ rest \in Seq(Frames) /\ Len(rest) = n /\ rest[n] = fr /\ stack[n] = Top
      /\ rest # <<>>
      /\ \A i \in 1..n : i < n => rest[i] = stack[i]
  <2>1. /\ n \in Nat \ {0} /\ Lower \in Seq(Frames) /\ Len(Lower) = n - 1
        /\ Len(rest) = n /\ rest[n] = fr /\ rest # <<>>
        /\ \A i \in 1..Len(Lower) : rest[i] = stack[i]
    BY <1>1, StackType DEF IInv
  <2> QED
    BY <1>3, <2>1 DEF Top
<1>5. Trying(rest, f)
  <2>1. Top.todo \subseteq db.imports[Top.file]
    BY <1>1, <1>4 DEF FaultInv, TriedOK
  <2> HIDE DEF rest
  <2> QED
    BY <1>2, <1>3, <1>4, <2>1 DEF Trying
<1>6. Loaded' = Loaded /\ (f \in base.files => f \in Loaded)
  BY <1>1 DEF Loaded, IInv, CheckpointOK
<1>7. /\ NeededAbove' /\ TriedOK' /\ BadOK'
      /\ stack' # <<>> /\ stack'[1].file = stack[1].file
  <2>1. CASE TryFile(f, rest)
    BY <1>1, <1>3, <1>4, <1>5, <2>1, TryFileFaults
  <2>2. CASE f \in base.files /\ stack' = rest /\ UNCHANGED <<pending, bad>>
    <3>1. NeededAbove' /\ TriedOK'
      BY <1>1, <1>3, <1>5, <1>6, <2>2, TryingFaults
    <3>2. BadOK'
      BY <1>1, <2>2, SameFaults DEF FaultInv, BadOK
    <3> QED
      BY <1>4, <1>5, <2>2, <3>1, <3>2 DEF Trying
  <2> QED
    BY <1>2, <2>1, <2>2 DEF fr
<1>8. ~Building'
  <2>1. \A i \in 1..Len(stack') : stack'[i].stage = "imports"
    <3>1. \A i \in 1..n : rest[i].stage = "imports"
      BY <1>1, <1>5, AllTrying DEF Trying
    <3>2. CASE stack' = rest
      BY <1>4, <3>1, <3>2
    <3>3. ASSUME NEW g, NEW r, Enter(g, rest, r)
          PROVE  \A i \in 1..Len(stack') : stack'[i].stage = "imports"
      <4> DEFINE top == [file |-> g, stage |-> "imports", todo |-> db.imports[g],
                         errors |-> FALSE, remember |-> r]
      <4>1. stack' = Append(rest, top) /\ top.stage = "imports"
        BY <3>3 DEF Enter
      <4> HIDE DEF top, rest
      <4> QED
        BY <1>4, <3>1, <4>1
    <3> QED
      BY <1>2, <3>2, <3>3 DEF TryFile, fr
  <2>2. stack' # <<>> /\ Len(stack') \in 1..Len(stack')
    BY <1>7 DEF IInv, TypeOK
  <2> QED
    BY <2>1, <2>2 DEF Building, Top
<1>9. OwnersOK' /\ NoErrors'
  BY <1>1, <1>8 DEF FaultInv, OwnersOK, NoErrors
<1>10. AskedOK' /\ AnswersOK'
  BY <1>1, <1>6, <1>7, SameFaults DEF FaultInv, AskedOK, AnswersOK, Asked
<1> QED
  BY <1>7, <1>9, <1>10 DEF FaultInv

\* What a frame other than the top says of the file above it stays.
LEMMA TopChanges ==
  ASSUME IInv, FaultInv, stack # <<>>, NEW fr \in Frames, fr.file = Top.file,
         fr.stage = "symbols", stack' = Append(Lower, fr), UNCHANGED db, Loaded' = Loaded
  PROVE  /\ NeededAbove' /\ TriedOK' /\ stack' # <<>> /\ stack'[1].file = stack[1].file
         /\ Top' = fr /\ Building'
<1> DEFINE n == Len(stack)
<1>1. /\ n \in Nat \ {0} /\ stack[n] = Top
      /\ Len(stack') = n /\ stack'[n] = fr /\ stack' # <<>>
      /\ \A i \in 1..n : i < n => stack'[i] = stack[i]
  <2>1. /\ n \in Nat \ {0} /\ Lower \in Seq(Frames) /\ Len(Lower) = n - 1
        /\ Len(stack') = n /\ stack'[n] = fr /\ stack' # <<>>
        /\ \A i \in 1..Len(Lower) : stack'[i] = stack[i]
    BY StackType DEF IInv
  <2> QED
    BY <2>1 DEF Top
<1>2. \A i \in 1..n : stack'[i].file = stack[i].file
  BY <1>1
<1>3. \A g : (Faultless(g)' <=> Faultless(g)) /\ Needs(g)' = Needs(g)
  BY SameFaults
<1>4. NeededAbove'
  BY <1>1, <1>2, <1>3 DEF FaultInv, NeededAbove
<1>5. TriedOK'
  <2> SUFFICES ASSUME NEW i \in 1..n, stack'[i].stage = "imports"
               PROVE  /\ stack'[i].todo \subseteq db.imports[stack'[i].file]
                      /\ \A g \in db.imports[stack'[i].file] \ stack'[i].todo :
                           Faultless(g) => g \in Loaded \/ (i < n /\ g = stack'[i + 1].file)
    BY <1>1, <1>3 DEF TriedOK, Tried
  <2>1. i < n /\ stack'[i] = stack[i] /\ i + 1 \in 1..n
    BY <1>1
  <2>2. /\ stack[i].todo \subseteq db.imports[stack[i].file]
        /\ \A g \in db.imports[stack[i].file] \ stack[i].todo :
             Faultless(g) => g \in Loaded \/ (i < n /\ g = stack[i + 1].file)
    BY <2>1 DEF FaultInv, TriedOK, Tried
  <2> QED
    BY <1>2, <2>1, <2>2
<1>6. Top' = fr /\ Building'
  BY <1>1 DEF Top, Building
<1> QED
  BY <1>1, <1>2, <1>4, <1>5, <1>6

\* The names of a file without fault are its own: nothing in the tables has them.
LEMMA NobodyClaims ==
  ASSUME IInv, FaultInv, NEW f \in Files, Faultless(f), NEW e \in base.symbols
  PROVE  /\ e.name \in db.defines[f] => e.file = f /\ ~e.package
         /\ e.name = db.package[f] => e.package
<1>1. e.file \in Files
  BY DEF IInv, CheckpointOK, TypeOK, Tables, Entries
<1>2. IF e.package THEN e.name = db.package[e.file] ELSE e.name \in db.defines[e.file]
  BY DEF FaultInv, OwnersOK
<1>3. /\ \A h \in Files \ {f} :
           /\ db.defines[f] \cap (db.defines[h] \cup {db.package[h]}) = {}
           /\ db.package[f] \notin db.defines[h]
      /\ db.package[f] \notin db.defines[f]
  BY DEF Faultless
<1> QED
  BY <1>1, <1>2, <1>3

LEMMA StartBuildFaults == ASSUME IInv, FaultInv, StartBuild PROVE FaultInv'
<1>1. /\ stack # <<>> /\ Top.stage = "imports" /\ Top.todo = {} /\ ~Building
      /\ UNCHANGED <<db, enforce, over, bad, holder, req, res, job, calls>>
  BY DEF StartBuild, Building
<1>2. PICK f \in Files : f = Top.file /\ Top \in Frames /\ db.defines[f] \subseteq Symbols
  BY <1>1, StackType, DbType DEF IInv, Frames
<1> DEFINE x == PackageClashes(base, f) \/ ~(db.imports[f] \subseteq base.files \cup {f})
           fr == [Top EXCEPT !.stage = "symbols", !.todo = db.defines[f], !.errors = x]
<1>3. fr.errors = x /\ stack' = Append(Lower, fr)
  BY <1>2 DEF Frames, StartBuild
<1>4. x => ~Faultless(f)
  <2>1. PackageClashes(base, f) => ~Faultless(f)
    <3> SUFFICES ASSUME Faultless(f), NEW e \in base.symbols,
                        e.name = db.package[f], ~e.package
                 PROVE  FALSE
      BY DEF PackageClashes, PackageOf, Clashes, Entry
    <3> QED
      BY NobodyClaims
  <2>2. ASSUME Faultless(f), NEW g \in db.imports[f] PROVE g \in base.files
    <3>1. Faultless(g)
      BY <2>2, NeedsFacts, FaultlessNeeds DEF IInv
    <3>2. Len(stack) \in 1..Len(stack) /\ stack[Len(stack)] = Top
      BY <1>1, StackType DEF IInv, Top
    <3>3. g \in Loaded \/ Len(stack) < Len(stack)
      BY <1>1, <1>2, <3>1, <3>2 DEF FaultInv, TriedOK, Tried
    <3> QED
      BY <3>2, <3>3 DEF Loaded
  <2> QED
    BY <2>1, <2>2
<1>5. x \in BOOLEAN
  OBVIOUS
<1> HIDE DEF x
<1>6. fr \in Frames /\ fr.file = f /\ fr.stage = "symbols" /\ fr.todo = db.defines[f]
  BY <1>1, <1>2, <1>5 DEF Frames
<1> HIDE DEF fr
<1>7. WithNewFile(base', base, f)
  BY <1>2, StartBuildTables
<1>8. f \notin base.files /\ base.newFiles = {} /\ \A e \in base.symbols : e.file # f
  <2>1. f \notin base.files
    <3>1. Len(stack) \in 1..Len(stack) /\ stack[Len(stack)] = Top
      BY <1>1, StackType DEF IInv, Top
    <3> QED
      BY <1>1, <1>2, <3>1, AllTrying
  <2> QED
    BY <1>1, <2>1 DEF IInv, CheckpointOK
<1>9. Loaded' = Loaded
  BY <1>7, <1>8 DEF Loaded, WithNewFile
<1>10. /\ NeededAbove' /\ TriedOK' /\ stack' # <<>> /\ stack'[1].file = stack[1].file
       /\ Top' = fr /\ Building'
  BY <1>1, <1>2, <1>3, <1>6, <1>9, TopChanges
<1>11. \A e \in base'.symbols : e \in base.symbols \/ e = Entry(db.package[f], f, TRUE)
  BY <1>7 DEF WithNewFile
<1>12. OwnersOK'
  BY <1>1, <1>11 DEF FaultInv, OwnersOK, Entry
<1>13. NoErrors'
  <2>1. \A e \in base'.symbols : e.file = f => e.package
    BY <1>8, <1>11 DEF Entry
  <2> QED
    BY <1>1, <1>3, <1>4, <1>6, <1>10, <2>1, SameFaults DEF NoErrors
<1>14. AskedOK' /\ AnswersOK' /\ BadOK'
  BY <1>1, <1>9, <1>10, SameFaults DEF FaultInv, AskedOK, AnswersOK, BadOK, Asked
<1> QED
  BY <1>10, <1>12, <1>13, <1>14 DEF FaultInv

LEMMA BuildSymbolFaults == ASSUME IInv, FaultInv, BuildSymbol PROVE FaultInv'
<1>1. /\ stack # <<>> /\ Top.stage = "symbols" /\ Building
      /\ UNCHANGED <<db, enforce, over, pending, bad, holder, req, res, job, calls>>
  BY DEF BuildSymbol, Building
<1>2. PICK f \in Files : f = Top.file /\ Top \in Frames /\ Top.todo \subseteq Symbols
  BY <1>1, StackType DEF IInv, Frames
<1>3. PICK s \in Top.todo :
        LET e == Entry(s, Top.file, FALSE)
        IN  /\ base' = AddSymbol(base, e)
            /\ stack' = Append(Lower,
                 [Top EXCEPT !.todo = @ \ {s}, !.errors = @ \/ Clashes(base, e)])
  BY DEF BuildSymbol
<1> DEFINE e == Entry(s, f, FALSE)
           x == Top.errors \/ Clashes(base, e)
           fr == [Top EXCEPT !.todo = @ \ {s}, !.errors = x]
<1>4. base' = AddSymbol(base, e) /\ stack' = Append(Lower, fr)
  BY <1>2, <1>3
<1>5. /\ Top.todo \subseteq db.defines[f]
      /\ \A d \in base.symbols : d.file = f /\ ~d.package => d.name \notin Top.todo
      /\ Faultless(f) => ~Top.errors
  BY <1>1, <1>2 DEF FaultInv, NoErrors
<1>6. x => ~Faultless(f)
  <2> SUFFICES ASSUME Faultless(f), NEW d \in base.symbols, d.name = s PROVE FALSE
    BY <1>5 DEF Clashes, Entry
  <2> QED
    BY <1>5, NobodyClaims
<1>7. x \in BOOLEAN
  OBVIOUS
<1>8. e \in Entries(Files) /\ e.name = s /\ e.file = f /\ e.package = FALSE
  BY <1>2, EntryType DEF Entry
<1> HIDE DEF x, e
<1>9. /\ fr \in Frames /\ fr.file = f /\ fr.stage = "symbols" /\ fr.todo = Top.todo \ {s}
      /\ fr.errors = x
  BY <1>1, <1>2, <1>7 DEF Frames
<1> HIDE DEF fr
<1>10. /\ base'.files = base.files /\ base'.newFiles = base.newFiles
       /\ \A d \in base'.symbols : d \in base.symbols \/ d = e
  <2>1. base' = AddSymbol(base, e) /\ e \in Entries(Files) /\ base \in Tables(Files)
    BY <1>4, <1>8 DEF IInv, TypeOK
  <2>2. /\ base'.files = base.files /\ base'.newFiles = base.newFiles
        /\ base'.symbols = base.symbols \/ base'.symbols = base.symbols \cup {e}
    BY <2>1, AddSymbolFields
  <2> QED
    BY <2>2
<1>11. Loaded' = Loaded
  BY <1>10 DEF Loaded
<1>12. /\ NeededAbove' /\ TriedOK' /\ stack' # <<>> /\ stack'[1].file = stack[1].file
       /\ Top' = fr /\ Building'
  BY <1>1, <1>2, <1>4, <1>9, <1>11, TopChanges
<1>13. OwnersOK'
  BY <1>1, <1>3, <1>5, <1>8, <1>10 DEF FaultInv, OwnersOK
<1>14. NoErrors'
  <2>1. \A d \in base'.symbols : d.file = f /\ ~d.package => d.name \notin fr.todo
    BY <1>5, <1>8, <1>9, <1>10
  <2> QED
    BY <1>1, <1>5, <1>6, <1>9, <1>12, <2>1, SameFaults DEF NoErrors
<1>15. AskedOK' /\ AnswersOK' /\ BadOK'
  BY <1>1, <1>11, <1>12, SameFaults DEF FaultInv, AskedOK, AnswersOK, BadOK, Asked
<1> QED
  BY <1>12, <1>13, <1>14, <1>15 DEF FaultInv

\* What a file without fault uses is there when it is linked.
LEMMA FaultlessLinks ==
  ASSUME IInv, FaultInv, Building, Top.todo = {}, NEW f \in Files, f = Top.file, Faultless(f),
         NEW s \in db.uses[f]
  PROVE  \E e \in Visible(f, s, base, TRUE) : e.name = s
<1>1. Whole(f, {}, base.symbols)
  BY DEF FaultInv, NoErrors, IInv, FilesOK
<1>2. PICK h \in {f} \cup db.imports[f] : s \in db.defines[h]
  BY DEF Faultless
<1>3. Entry(s, h, FALSE) \in base.symbols
  <2>1. CASE h = f
    BY <1>1, <1>2, <2>1 DEF Whole
  <2>2. CASE h # f
    <3>1. h \in Loaded
      BY <1>1, <1>2, <2>2 DEF Whole
    <3> QED
      BY <1>2, <3>1 DEF IInv, FilesOK, Whole, Kept
  <2> QED
    BY <2>1, <2>2
<1> QED
  BY <1>2, <1>3 DEF Visible, Entry

LEMMA EndBuildFaults == ASSUME IInv, FaultInv, EndBuild, IInv' PROVE FaultInv'
<1>1. /\ stack # <<>> /\ Top.stage = "symbols" /\ Top.todo = {} /\ Building
      /\ stack' = Lower
      /\ UNCHANGED <<db, enforce, over, pending, holder, req, res, job, calls>>
  BY DEF EndBuild, Building
<1> DEFINE n == Len(stack)
<1>2. PICK f \in Files : f = Top.file
  BY <1>1, StackType DEF IInv, Frames
<1> DEFINE found == UNION {Visible(f, s, base, TRUE) : s \in db.uses[f]}
           kept == Checkpoint([base EXCEPT !.links = @ \cup {[by |-> f, to |-> e] : e \in found}])
           ok == ~Top.errors /\ \A s \in db.uses[f] : \E e \in found : e.name = s
<1>3. /\ base' = IF ok THEN kept ELSE Rollback(base)
      /\ bad' = IF ~ok /\ Top.remember THEN bad \cup {f} ELSE bad
  BY <1>2 DEF EndBuild
<1>4. Faultless(f) => ok
  <2> SUFFICES ASSUME Faultless(f) PROVE ok
    OBVIOUS
  <2>1. \A s \in db.uses[f] : \E e \in Visible(f, s, base, TRUE) : e.name = s
    BY <1>1, <1>2, FaultlessLinks
  <2>2. ~Top.errors
    BY <1>1, <1>2 DEF FaultInv, NoErrors
  <2> QED
    BY <2>1, <2>2
<1>5. base \in Tables(Files) /\ base.newFiles = {f} /\ f \in base.files
  BY <1>1, <1>2 DEF IInv, CheckpointOK, TypeOK
<1>6. /\ Loaded \subseteq Loaded' /\ (Faultless(f) => f \in Loaded')
      /\ base'.symbols \subseteq base.symbols
  <2>1. kept.files = base.files /\ kept.newFiles = {} /\ kept.symbols = base.symbols
    BY <1>5 DEF Checkpoint, Tables
  <2>2. LET r == Rollback(base) IN
        r.files = base.files \ {f} /\ r.newFiles = {} /\ r.symbols \subseteq base.symbols
    BY <1>5 DEF Rollback
  <2> HIDE DEF ok, kept
  <2> QED
    BY <1>3, <1>4, <1>5, <2>1, <2>2 DEF Loaded
<1>7. BadOK'
  BY <1>1, <1>3, <1>4, SameFaults DEF FaultInv, BadOK
<1> HIDE DEF ok, kept, found
<1>8. /\ n \in Nat \ {0} /\ stack[n] = Top /\ Len(stack') = n - 1
      /\ \A i \in 1..(n - 1) : stack'[i] = stack[i]
      /\ n > 1 => stack' # <<>>
  <2>1. n \in Nat \ {0} /\ Lower \in Seq(Frames) /\ Len(Lower) = n - 1
        /\ \A i \in 1..Len(Lower) : Lower[i] = stack[i]
    BY <1>1, StackType DEF IInv
  <2> QED
    BY <1>1, <2>1 DEF Top
<1>9. \A g : (Faultless(g)' <=> Faultless(g)) /\ Needs(g)' = Needs(g)
  BY <1>1, SameFaults
<1>10. NeededAbove'
  BY <1>8, <1>9 DEF FaultInv, NeededAbove
<1>11. TriedOK'
  <2> SUFFICES ASSUME NEW i \in 1..(n - 1), stack[i].stage = "imports"
               PROVE  /\ stack[i].todo \subseteq db.imports[stack[i].file]
                      /\ \A g \in db.imports[stack[i].file] \ stack[i].todo :
                           Faultless(g) => g \in Loaded' \/ (i < n - 1 /\ g = stack'[i + 1].file)
    BY <1>1, <1>8, <1>9 DEF TriedOK, Tried
  <2>1. i \in 1..n /\ i < n /\ (i < n - 1 => i + 1 \in 1..(n - 1)) /\ (i < n - 1 \/ i + 1 = n)
    BY <1>8
  <2>2. /\ stack[i].todo \subseteq db.imports[stack[i].file]
        /\ \A g \in db.imports[stack[i].file] \ stack[i].todo :
             Faultless(g) => g \in Loaded \/ g = stack[i + 1].file
    BY <2>1 DEF FaultInv, TriedOK, Tried
  <2> QED
    BY <1>2, <1>6, <1>8, <2>1, <2>2
<1>12. OwnersOK'
  BY <1>1, <1>6 DEF FaultInv, OwnersOK
<1>13. NoErrors'
  <2>1. \A i \in 1..(n - 1) : stack'[i].stage = "imports"
    BY <1>8 DEF IInv, StackOK
  <2>2. stack' # <<>> => Len(stack') \in 1..(n - 1)
    <3>1. stack' \in Seq(Frames)
      BY DEF IInv, TypeOK
    <3> HIDE DEF n
    <3> QED
      BY <1>8, <3>1
  <2>3. ~Building'
    BY <2>1, <2>2 DEF Building, Top
  <2> QED
    BY <2>3 DEF NoErrors
<1>14. AskedOK' /\ AnswersOK'
  <2>1. n = 1 \/ (stack' # <<>> /\ stack'[1] = stack[1])
    BY <1>8
  <2> QED
    BY <1>1, <1>2, <1>6, <1>8, <1>9, <2>1 DEF FaultInv, AskedOK, AnswersOK, Asked
<1> QED
  BY <1>7, <1>10, <1>11, <1>12, <1>13, <1>14 DEF FaultInv

\* A thread that loads has asked for a file, or for a symbol and the file it is in.
SourceInv ==
  \A t \in Threads : holder = t =>
    /\ req[t].file \in Files
    /\ req[t].symbol = None \/ req[t].symbol \in db.defines[req[t].file]

LEMMA SourceKept == ASSUME IInv, SourceInv, [Next]_vars PROVE SourceInv'
<1>1. ASSUME db' = db, holder' = holder, req' = req PROVE SourceInv'
  BY <1>1 DEF SourceInv
<1>2. ASSUME db' = db, holder' = None PROVE SourceInv'
  BY <1>2, NamesAssumption DEF SourceInv, Threads
<1>3. ASSUME NEW t \in Threads, db' = db, holder' = t, NEW f \in Files, NEW x \in Symbols \cup {None},
             x = None \/ x \in db.defines[f],
             req' = [req EXCEPT ![t] = [file |-> f, symbol |-> x]]
      PROVE  SourceInv'
  BY <1>3 DEF SourceInv, IInv, TypeOK
<1>4. ASSUME NEW t \in Threads, NEW f \in Files, FindFileByName(t, f), db' = db PROVE SourceInv'
  <2>1. [NoRequest EXCEPT !.file = f] = [file |-> f, symbol |-> None]
    BY DEF NoRequest
  <2>2. /\ holder' = None \/ holder' = t
        /\ req' = [req EXCEPT ![t] = [file |-> f, symbol |-> None]]
    BY <1>4, <2>1 DEF FindFileByName
  <2> QED
    BY <1>2, <1>3, <1>4, <2>2
<1>5. ASSUME NEW t \in Threads, NEW s \in Symbols, FindFileContainingSymbol(t, s), db' = db
      PROVE  SourceInv'
  <2>1. CASE holder' = None
    BY <1>2, <1>5, <2>1
  <2>2. ASSUME holder' = t, NEW f \in db.has, s \in db.defines[f],
               req' = [req EXCEPT ![t] = [file |-> f, symbol |-> s]]
        PROVE  SourceInv'
    <3>1. f \in Files
      BY DbType DEF IInv
    <3> QED
      BY <1>3, <1>5, <2>2, <3>1
  <2>3. \/ holder' = None
        \/ /\ holder' = t
           /\ \E f \in db.has : /\ s \in db.defines[f]
                               /\ req' = [req EXCEPT ![t] = [file |-> f, symbol |-> s]]
    BY <1>5 DEF FindFileContainingSymbol
  <2> QED
    BY <2>1, <2>2, <2>3
<1>6. CASE \E u \in Users : Lookup(u)
  BY <1>4, <1>5, <1>6 DEF Lookup, Threads
<1>7. CASE OverImport
  BY <1>4, <1>7 DEF OverImport, Threads, IInv, TypeOK
<1>8. CASE \E t \in Threads : Return(t)
  BY <1>2, <1>8 DEF Return
<1>9. CASE LoadImport \/ StartBuild \/ BuildSymbol \/ EndBuild
  BY <1>1, <1>9 DEF LoadImport, StartBuild, BuildSymbol, EndBuild
<1>10. CASE \/ \E f \in Overlays : OverBuildFile(f)
            \/ OverImported \/ OverSymbols \/ OverLink \/ OverEnd
  BY <1>1, <1>10 DEF OverBuildFile, OverImported, OverSymbols, OverLink, OverEnd
<1>11. CASE UNCHANGED vars
  BY <1>1, <1>11 DEF vars
<1> QED
  BY <1>6, <1>7, <1>8, <1>9, <1>10, <1>11 DEF Next

\* What a file without fault defines is in no other file.
LEMMA SourceOfNoFault ==
  ASSUME NEW f \in Files, Faultless(f), NEW g \in Files, NEW x,
         f = g \/ x \in db.defines[f], x = None \/ x \in db.defines[g], db \in Databases
  PROVE  f = g
<1>1. \A h \in Files \ {f} : db.defines[f] \cap db.defines[h] = {}
  BY DEF Faultless
<1>2. \A h \in Files : None \notin db.defines[h]
  BY DbType, NamesAssumption
<1> QED
  BY <1>1, <1>2

\* A file without fault that is loaded has what a thread asks for it, so that its
\* lookup ends with an answer.
LEMMA ReturnFaults ==
  ASSUME IInv, FaultInv, SourceInv, NEW t \in Threads, Return(t)
  PROVE  FaultInv'
<1>1. /\ UNCHANGED <<db, enforce, base, over, pending, bad, stack, req, job, calls>>
      /\ stack = <<>> /\ holder = t /\ holder' = None
  BY DEF Return
<1> DEFINE hits == IF req[t].file \notin base.files THEN {}
                   ELSE IF req[t].symbol = None THEN {req[t].file}
                   ELSE {e.file : e \in {e \in base.symbols : e.name = req[t].symbol}}
<1>2. IF hits = {} THEN Answer(t, None) ELSE \E f \in hits : Answer(t, f)
  BY DEF Return
<1>3. hits \subseteq base.files /\ base.files \subseteq Files /\ None \notin Files
  BY NamesAssumption DEF IInv, CheckpointOK, TypeOK, Tables
<1>4. ASSUME NEW f \in Files, Faultless(f), Asked(t, f) PROVE hits # {}
  <2>1. f \in Loaded
    BY <1>1, <1>4 DEF FaultInv, AskedOK
  <2>2. req[t].file = f
    <3>1. /\ req[t].file \in Files /\ db \in Databases
          /\ req[t].symbol = None \/ req[t].symbol \in db.defines[req[t].file]
          /\ f = req[t].file \/ req[t].symbol \in db.defines[f]
      BY <1>1, <1>4 DEF SourceInv, Asked, IInv
    <3> QED
      BY <1>4, <3>1, SourceOfNoFault
  <2>3. CASE req[t].symbol = None
    BY <2>1, <2>2, <2>3 DEF Loaded
  <2>4. CASE req[t].symbol \in db.defines[f]
    <3>1. Entry(req[t].symbol, f, FALSE) \in base.symbols
      BY <2>1, <2>4 DEF IInv, FilesOK, Whole, Kept
    <3>2. req[t].symbol # None
      BY <2>4, DbType, NamesAssumption DEF IInv
    <3> QED
      BY <2>1, <2>2, <3>1, <3>2 DEF Entry, Loaded
  <2> QED
    BY <1>1, <2>2, <2>3, <2>4 DEF SourceInv
<1>5. /\ \A u \in Threads : u # t => res'[u] = res[u]
      /\ hits # {} => res'[t] # None
  <2>1. res \in [Threads -> Files \cup {None}]
    BY DEF IInv, TypeOK
  <2> HIDE DEF hits
  <2> QED
    BY <1>2, <1>3, <2>1 DEF Answer
<1> HIDE DEF hits
<1>6. AnswersOK'
  <2> SUFFICES ASSUME NEW u \in Threads, NEW f \in Files, res'[u] = None, Asked(u, f), Faultless(f)
               PROVE  FALSE
    BY <1>1, SameFaults DEF AnswersOK, Asked
  <2>1. CASE u = t
    BY <1>4, <1>5, <2>1
  <2>2. CASE u # t
    BY <1>1, <1>5, <2>2 DEF FaultInv, AnswersOK
  <2> QED
    BY <2>1, <2>2
<1>7. \A u \in Threads : holder' # u
  BY <1>1, NamesAssumption DEF Threads
<1>8. NeededAbove' /\ TriedOK' /\ OwnersOK' /\ NoErrors' /\ AskedOK' /\ BadOK'
  BY <1>1, <1>7, SameFaults DEF FaultInv, NeededAbove, TriedOK, Tried, Loaded, OwnersOK, NoErrors,
     Building, Top, AskedOK, BadOK
<1> QED
  BY <1>6, <1>8 DEF FaultInv

\* A lookup that finds the first pool free.
LEMMA FreePool ==
  ASSUME IInv, holder = None
  PROVE  /\ stack = <<>> /\ Len(stack) = 0 /\ ~Building /\ pending = <<>> /\ Loaded = base.files
         /\ \A f : Trying(<<>>, f)
         /\ \A t \in Threads : holder # t
<1>1. stack = <<>> /\ Len(stack) = 0 /\ ~Building
  BY DEF IInv, TypeOK, Building
<1>2. pending = <<>> /\ Loaded = base.files
  BY <1>1 DEF IInv, StackOK, CheckpointOK, Loaded, TypeOK
<1> QED
  BY <1>1, <1>2, NamesAssumption DEF Trying, Threads

\* The lookup of t is answered or it loads what has no fault; the others go on.
LEMMA LookupFaults ==
  ASSUME IInv, FaultInv, IInv', holder = None, UNCHANGED <<db, base>>,
         NEW t \in Threads, NEW q, req' = [req EXCEPT ![t] = q],
         \A u \in Threads : u # t => res'[u] = res[u],
         NeededAbove', TriedOK', BadOK', ~Building',
         \/ /\ holder' = None
            /\ res'[t] = None =>
                 \A f \in Files : f = q.file \/ q.symbol \in db.defines[f] => ~Faultless(f)
         \/ /\ holder' = t
            /\ \A f \in Files :
                 (f = q.file \/ q.symbol \in db.defines[f]) /\ Faultless(f) =>
                   stack' # <<>> /\ stack'[1].file = f
  PROVE  FaultInv'
<1>1. \A u \in Threads : holder # u
  BY FreePool
<1>2. /\ req'[t] = q /\ \A u \in Threads : u # t => req'[u] = req[u]
  BY DEF IInv, TypeOK
<1>3. OwnersOK' /\ NoErrors'
  BY DEF FaultInv, OwnersOK, NoErrors
<1>4. AskedOK'
  BY <1>1, <1>2, NamesAssumption, SameFaults DEF AskedOK, Asked, Threads
<1>5. AnswersOK'
  <2> SUFFICES ASSUME NEW u \in Threads, NEW f \in Files, holder' # u, res'[u] = None,
                      f = req'[u].file \/ req'[u].symbol \in db.defines[f], Faultless(f)
               PROVE  FALSE
    BY SameFaults DEF AnswersOK, Asked
  <2>1. CASE u = t
    BY <1>2, <2>1, NamesAssumption DEF Threads
  <2>2. CASE u # t
    BY <1>1, <1>2, <2>2 DEF FaultInv, AnswersOK, Asked
  <2> QED
    BY <2>1, <2>2
<1> QED
  BY <1>3, <1>4, <1>5 DEF FaultInv

LEMMA FindFileFaults ==
  ASSUME IInv, FaultInv, IInv', UNCHANGED <<db, base>>, NEW t \in Threads, NEW f \in Files,
         FindFileByName(t, f)
  PROVE  FaultInv'
<1> DEFINE q == [NoRequest EXCEPT !.file = f]
<1>1. holder = None /\ req' = [req EXCEPT ![t] = q]
  BY DEF FindFileByName
<1>2. q.file = f /\ \A g \in Files : q.symbol \notin db.defines[g]
  <2>1. None \notin Symbols
    BY NamesAssumption
  <2>2. \A g \in Files : db.defines[g] \subseteq Symbols
    BY DbType DEF IInv
  <2> QED
    BY <2>1, <2>2 DEF NoRequest
<1> HIDE DEF q
<1>3. /\ stack = <<>> /\ Len(stack) = 0 /\ ~Building /\ Trying(<<>>, f)
  BY <1>1, FreePool
<1>4. res \in [Threads -> Files \cup {None}] /\ f # None
  BY NamesAssumption DEF IInv, TypeOK
<1>5. CASE Answer(t, f) /\ UNCHANGED <<pending, bad, stack, holder>>
  <2>1. /\ NeededAbove' /\ TriedOK' /\ BadOK' /\ ~Building'
    BY <1>3, <1>5, SameFaults DEF FaultInv, NeededAbove, TriedOK, BadOK, Building
  <2>2. \A u \in Threads : u # t => res'[u] = res[u]
    BY <1>4, <1>5 DEF Answer
  <2>3. res'[t] # None /\ holder' = None
    BY <1>1, <1>4, <1>5 DEF Answer
  <2> QED
    BY <1>1, <2>1, <2>2, <2>3, LookupFaults
<1>6. CASE f \notin base.files /\ TryFile(f, <<>>) /\ holder' = t /\ Answer(t, None)
  <2>1. /\ NeededAbove' /\ TriedOK' /\ BadOK'
        /\ Faultless(f) => stack' # <<>> /\ stack'[1].file = f
    BY <1>3, <1>6, TryFileFaults
  <2>2. \A u \in Threads : u # t => res'[u] = res[u]
    BY <1>4, <1>6 DEF Answer
  <2>3. ~Building'
    BY FindFileByNameOK
  <2> QED
    BY <1>1, <1>2, <1>6, <2>1, <2>2, <2>3, LookupFaults
<1> QED
  BY <1>5, <1>6 DEF FindFileByName

\* Only the file without fault has the symbol, so the database names that file.
LEMMA FindSymbolFaults ==
  ASSUME IInv, FaultInv, IInv', UNCHANGED <<db, base>>, NEW t \in Threads, NEW s \in Symbols,
         FindFileContainingSymbol(t, s)
  PROVE  FaultInv'
<1> DEFINE q(f) == [file |-> f, symbol |-> s]
           sources == {f \in db.has : s \in db.defines[f]}
<1>1. holder = None
  BY DEF FindFileContainingSymbol
<1>2. \A f : q(f).symbol = s /\ q(f).file = f
  OBVIOUS
<1> HIDE DEF q
<1>3. /\ stack = <<>> /\ Len(stack) = 0 /\ ~Building /\ Loaded = base.files
      /\ \A f : Trying(<<>>, f)
  BY <1>1, FreePool
<1>4. res \in [Threads -> Files \cup {None}] /\ base.files \subseteq Files /\ None \notin Files
      /\ sources \subseteq Files
  BY NamesAssumption, DbType DEF IInv, TypeOK, Tables
<1>5. ASSUME NEW f \in Files, Faultless(f), s \in db.defines[f]
      PROVE  sources = {f}
  <2>1. f \in db.has
    BY <1>5 DEF Faultless
  <2>2. \A h \in Files \ {f} : db.defines[f] \cap db.defines[h] = {}
    BY <1>5 DEF Faultless
  <2> QED
    BY <1>4, <1>5, <2>1, <2>2
<1>6. ASSUME UNCHANGED <<pending, bad, stack, holder>>
      PROVE  NeededAbove' /\ TriedOK' /\ BadOK' /\ ~Building' /\ holder' = None
  BY <1>1, <1>3, <1>6, SameFaults DEF FaultInv, NeededAbove, TriedOK, BadOK, Building
<1>7. CASE /\ \E e \in base.symbols : e.name = s /\ Answer(t, e.file)
           /\ req' = [req EXCEPT ![t] = q(None)]
           /\ UNCHANGED <<pending, bad, stack, holder>>
  <2>1. \A e \in base.symbols : e.file \in Files
    BY <1>4 DEF IInv, CheckpointOK
  <2>2. /\ \A u \in Threads : u # t => res'[u] = res[u]
        /\ res'[t] # None
    BY <1>4, <1>7, <2>1 DEF Answer
  <2> DEFINE r == q(None)
  <2>3. req' = [req EXCEPT ![t] = r]
    BY <1>7
  <2> HIDE DEF r
  <2> QED
    BY <1>1, <1>6, <1>7, <2>2, <2>3, LookupFaults
<1>8. CASE /\ ~Defined(base, s) /\ (sources = {} \/ sources \cap base.files # {})
           /\ req' = [req EXCEPT ![t] = q(None)]
           /\ Answer(t, None) /\ UNCHANGED <<pending, bad, stack, holder>>
  <2>1. \A u \in Threads : u # t => res'[u] = res[u]
    BY <1>4, <1>8 DEF Answer
  <2>2. ASSUME NEW f \in Files, s \in db.defines[f], Faultless(f) PROVE FALSE
    <3>1. f \in Loaded
      BY <1>3, <1>5, <1>8, <2>2
    <3>2. Entry(s, f, FALSE) \in base.symbols
      BY <2>2, <3>1 DEF IInv, FilesOK, Whole, Kept
    <3> QED
      BY <1>8, <3>2 DEF Defined, Entry
  <2> DEFINE r == q(None)
  <2>3. /\ req' = [req EXCEPT ![t] = r]
        /\ r.symbol = s /\ r.file \notin Files
    BY <1>2, <1>4, <1>8
  <2> HIDE DEF r
  <2> QED
    BY <1>1, <1>6, <1>8, <2>1, <2>2, <2>3, LookupFaults
<1>9. CASE /\ \E f \in sources \ base.files :
                req' = [req EXCEPT ![t] = q(f)] /\ Enter(f, <<>>, FALSE)
           /\ holder' = t /\ Answer(t, None)
  <2>1. PICK g \in sources \ base.files :
          req' = [req EXCEPT ![t] = q(g)] /\ Enter(g, <<>>, FALSE)
    BY <1>9
  <2>2. NeededAbove' /\ TriedOK'
    BY <1>3, <1>4, <2>1, TryingFaults
  <2>3. BadOK'
    BY <2>1, SameFaults DEF FaultInv, BadOK, Enter
  <2>4. stack' # <<>> /\ stack'[1].file = g
    BY <2>1 DEF Enter
  <2>5. \A u \in Threads : u # t => res'[u] = res[u]
    BY <1>4, <1>9 DEF Answer
  <2>6. ~Building'
    BY FindSymbolOK
  <2>7. \A f \in Files : s \in db.defines[f] /\ Faultless(f) => f = g
    BY <1>5, <2>1
  <2> DEFINE r == q(g)
  <2>8. /\ req' = [req EXCEPT ![t] = r]
        /\ r.symbol = s /\ r.file = g
    BY <1>2, <2>1
  <2> HIDE DEF r
  <2> QED
    BY <1>1, <1>9, <2>2, <2>3, <2>4, <2>5, <2>6, <2>7, <2>8, LookupFaults
<1> QED
  BY <1>7, <1>8, <1>9 DEF FindFileContainingSymbol, q

\* What happens in the overlay does not matter to the first pool.
LEMMA OverFaults ==
  ASSUME FaultInv, UNCHANGED <<db, base, bad, stack, holder, req, res>>
  PROVE  FaultInv'
  BY SameFaults DEF FaultInv, NeededAbove, TriedOK, Tried, Loaded, OwnersOK, NoErrors, Building, Top,
     AskedOK, AnswersOK, Asked, BadOK

LEMMA NextFaults == ASSUME IInv, FaultInv, SourceInv, IInv', [Next]_vars PROVE FaultInv'
<1>1. ASSUME NEW u \in Users, Lookup(u) PROVE FaultInv'
  <2>1. UNCHANGED <<db, base>> /\ u \in Threads
    BY <1>1 DEF Lookup, Threads
  <2> QED
    BY <1>1, <2>1, FindFileFaults, FindSymbolFaults DEF Lookup
<1>2. CASE OverImport
  <2>1. UNCHANGED <<db, base>> /\ Builder \in Threads /\ job.todo \subseteq Files
    BY <1>2 DEF OverImport, Threads, IInv, TypeOK
  <2> QED
    BY <1>2, <2>1, FindFileFaults DEF OverImport
<1>3. CASE \/ \E f \in Overlays : OverBuildFile(f)
           \/ OverImported \/ OverSymbols \/ OverLink \/ OverEnd
  <2>1. UNCHANGED <<db, base, bad, stack, holder, req, res>>
    BY <1>3 DEF OverBuildFile, OverImported, OverSymbols, OverLink, OverEnd
  <2> QED
    BY <2>1, OverFaults
<1>4. CASE UNCHANGED vars
  BY <1>4, OverFaults DEF vars
<1> QED
  BY <1>1, <1>2, <1>3, <1>4, LoadImportFaults, StartBuildFaults, BuildSymbolFaults, EndBuildFaults,
     ReturnFaults DEF Next

\* Whatever the database holds and whoever asked for what before, a file without
\* fault is found by its name and by what it defines (TryFindFileInFallbackDatabase
\* and known_bad_files_ in descriptor.cc).
THEOREM FaultlessFilesAreFoundAlways == Spec => []FaultlessFilesAreFound
<1>1. Init => FaultInv
  <2> SUFFICES ASSUME Init PROVE FaultInv
    OBVIOUS
  <2>1. stack = <<>> /\ Len(stack) = 0 /\ base = NoTables /\ bad = {} /\ holder = None
    BY DEF Init
  <2>2. \A t \in Threads : holder # t
    BY <2>1, NamesAssumption DEF Threads
  <2>3. \A t \in Threads, f \in Files : ~Asked(t, f)
    <3>1. None \notin Symbols /\ None \notin Files
      BY NamesAssumption
    <3>2. \A f \in Files : db.defines[f] \subseteq Symbols
      BY DbType DEF Init
    <3> QED
      BY <3>1, <3>2 DEF Init, Asked, NoRequest
  <2> QED
    BY <2>1, <2>2, <2>3 DEF FaultInv, NeededAbove, TriedOK, OwnersOK, NoErrors, Building, AskedOK,
       AnswersOK, BadOK, NoTables
<1>2. IInv /\ FaultInv => FaultlessFilesAreFound
  <2> SUFFICES ASSUME IInv, FaultInv, NEW t \in Threads, holder # t, res[t] = None
               PROVE  /\ req[t].file # None => ~Faultless(req[t].file)
                      /\ \A f \in Files : Faultless(f) => req[t].symbol \notin db.defines[f]
    BY DEF FaultlessFilesAreFound, FaultInv, BadOK
  <2>1. req[t].file \in Files \cup {None}
    BY DEF IInv, TypeOK
  <2> QED
    BY <2>1 DEF FaultInv, AnswersOK, Asked
<1>3. IInv /\ FaultInv /\ SourceInv /\ IInv' /\ [Next]_vars => FaultInv'
  BY NextFaults
<1>4. Init => SourceInv
  BY NamesAssumption DEF Init, SourceInv, Threads
<1>5. IInv /\ SourceInv /\ [Next]_vars => SourceInv'
  BY SourceKept
<1> QED
  BY <1>1, <1>2, <1>3, <1>4, <1>5, IInvHolds, PTL DEF Spec
=============================================================================
