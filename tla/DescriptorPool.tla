--------------------------- MODULE DescriptorPool ---------------------------
(***************************************************************************)
(* Two pools of protobuf: one that loads files from a DescriptorDatabase   *)
(* when somebody asks for them, shared by threads under its mutex, and one *)
(* that is overlaid on it and into which one thread builds files of its    *)
(* own (descriptor.cc).                                                    *)
(*                                                                         *)
(* A lookup in the first pool holds the mutex until it returns, and the    *)
(* files it loads import each other: stack holds one frame for each call   *)
(* of DescriptorBuilder::BuildFile that has not returned.                  *)
(***************************************************************************)
EXTENDS Integers, Sequences, FiniteSets

CONSTANTS
  Files,      \* names of files the database may have
  Overlays,   \* names of files built into the overlay
  Symbols,    \* full names of what files define, and of packages
  Databases,  \* the contents tried, see DatabasesAssumption
  Users,      \* threads that look things up in the first pool
  Builder,    \* the thread that builds into the overlay
  None,
  MaxCalls    \* bound: lookups each user makes, and files the builder builds

ASSUME NamesAssumption ==
  /\ Builder \notin Users /\ None \notin Users \cup {Builder} \cup Files \cup Symbols
  /\ Files \cap Overlays = {} /\ IsFiniteSet(Files)
  /\ MaxCalls \in Nat
\* has: the files of the database; for every file what it imports, defines and
\* uses, and its package.  The builder's files import those of the database.
ASSUME DatabasesAssumption ==
  \A d \in Databases :
    /\ d.has \subseteq Files
    /\ \A f \in Files \cup Overlays :
         /\ d.imports[f] \subseteq Files
         /\ d.defines[f] \subseteq Symbols /\ d.uses[f] \subseteq Symbols
         /\ d.package[f] \in Symbols \cup {None}

Threads == Users \cup {Builder}

VARIABLES
  db,       \* the database, which does not change
  enforce,  \* enforce_dependencies_ of the overlay: nobody sets it
  base,     \* the tables of the first pool
  over,     \* the tables of the overlay
  pending,  \* pending_files_ of the first pool
  bad,      \* known_bad_files_ of the first pool
  stack,    \* the files being loaded into it, innermost last
  holder,   \* who holds its mutex
  req,      \* what each thread looks up: a file, or a symbol and the file the
            \* database has it in
  res,      \* what its last lookup returned
  job,      \* what the builder does
  calls     \* how many calls each thread has made

vars == <<db, enforce, base, over, pending, bad, stack, holder, req, res, job, calls>>

\* Tables: files_by_name_, symbols_by_name_, the symbols the fields of a file
\* were linked to, and what was added since the last Checkpoint().
NoTables ==
  [files |-> {}, symbols |-> {}, links |-> {},
   newFiles |-> {}, newSymbols |-> {}]

NoRequest == [file |-> None, symbol |-> None]
NoJob == [stage |-> "idle", file |-> None, todo |-> {}, errors |-> FALSE]

Init ==
  /\ db \in Databases /\ enforce \in BOOLEAN
  /\ base = NoTables /\ over = NoTables
  /\ pending = <<>> /\ bad = {} /\ stack = <<>>
  /\ holder = None
  /\ req = [t \in Threads |-> NoRequest]
  /\ res = [t \in Threads |-> None]
  /\ job = NoJob
  /\ calls = [t \in Threads |-> 0]
-----------------------------------------------------------------------------
(* Tables *)

Entry(s, f, package) == [name |-> s, file |-> f, package |-> package]
Defined(t, s) == \E e \in t.symbols : e.name = s

Checkpoint(t) == [t EXCEPT !.newFiles = {}, !.newSymbols = {}]

\* Mutant: the symbols stay.
RollbackFiles(t) ==
  [files |-> t.files \ t.newFiles,
   symbols |-> t.symbols,
   links |-> {l \in t.links : l.by \notin t.newFiles},
   newFiles |-> {}, newSymbols |-> {}]

\* What was added goes, and the descriptors it consists of are deleted.
Rollback(t) ==
  [files |-> t.files \ t.newFiles,
   symbols |-> t.symbols \ t.newSymbols,
   links |-> {l \in t.links : l.by \notin t.newFiles},
   newFiles |-> {}, newSymbols |-> {}]

AddFile(t, f) == [t EXCEPT !.files = @ \cup {f}, !.newFiles = @ \cup {f}]

\* InsertIfNotPresent on symbols_by_name_.
AddSymbol(t, e) ==
  IF Defined(t, e.name) THEN t
  ELSE [t EXCEPT !.symbols = @ \cup {e}, !.newSymbols = @ \cup {e}]

\* A name can be used again only for a package, by a file of the same package.
Clashes(t, e) ==
  \E d \in t.symbols : d.name = e.name /\ ~(d.package /\ e.package)

\* AddPackage: also a package another file has opened, but nothing else.
PackageOf(f) == IF db.package[f] = None THEN {} ELSE {Entry(db.package[f], f, TRUE)}
AddPackage(t, f) == IF PackageOf(f) = {} THEN t ELSE AddSymbol(t, Entry(db.package[f], f, TRUE))
PackageClashes(t, f) == \E e \in PackageOf(f) : Clashes(t, e)

\* DescriptorBuilder::FindSymbol in the tables t: the file has to import what
\* it uses.
Visible(f, s, t, enforced) ==
  {e \in t.symbols :
     /\ e.name = s /\ ~e.package
     /\ enforced => e.file \in {f} \cup db.imports[f]}
-----------------------------------------------------------------------------
(* Loading files into the first pool.  The thread that looks something up     *)
(* holds the mutex.                                                           *)

Top == stack[Len(stack)]
Lower == SubSeq(stack, 1, Len(stack) - 1)
PendingFiles == {pending[i] : i \in DOMAIN pending}

\* BuildFile begins: imports are loaded first.  remember: a failure is kept
\* in known_bad_files_.
Enter(f, rest, remember) ==
  /\ stack' = Append(rest, [file |-> f, stage |-> "imports",
                            todo |-> db.imports[f], errors |-> FALSE,
                            remember |-> remember])
  /\ pending' = Append(pending, f)
  /\ UNCHANGED bad

\* Mutant: no look at pending_files_.
TryFileAgain(f, rest) ==
  \/ f \notin bad /\ f \in db.has /\ Enter(f, rest, TRUE)
  \/ /\ f \in bad \/ f \notin db.has
     /\ bad' = bad \cup {f}
     /\ stack' = rest
     /\ UNCHANGED pending

\* TryFindFileInFallbackDatabase; a file that is pending imports itself.
TryFile(f, rest) ==
  \/ /\ f \notin bad /\ f \in db.has /\ f \notin PendingFiles
     /\ Enter(f, rest, TRUE)
  \/ /\ f \in bad \/ f \notin db.has \/ f \in PendingFiles
     /\ bad' = bad \cup {f}
     /\ stack' = rest
     /\ UNCHANGED pending

\* Mutant: the loop ends with the first import that is not loaded.
LoadOneImport ==
  /\ stack # <<>> /\ Top.stage = "imports"
  /\ \E f \in Top.todo :
       LET rest == Append(Lower, [Top EXCEPT !.todo = {}])
       IN  \/ f \notin base.files /\ TryFile(f, rest)
           \/ /\ f \in base.files /\ stack' = rest
              /\ UNCHANGED <<pending, bad>>
  /\ UNCHANGED <<db, enforce, base, over, holder, req, res, job, calls>>

\* BuildFile: the next import, in the order of the file.
LoadImport ==
  /\ stack # <<>> /\ Top.stage = "imports"
  /\ \E f \in Top.todo :
       LET rest == Append(Lower, [Top EXCEPT !.todo = @ \ {f}])
       IN  \/ f \notin base.files /\ TryFile(f, rest)
           \/ /\ f \in base.files /\ stack' = rest
              /\ UNCHANGED <<pending, bad>>
  /\ UNCHANGED <<db, enforce, base, over, holder, req, res, job, calls>>

\* All imports were tried: the file and its package are added, and an import
\* that is not there then is an error.
StartBuild ==
  /\ stack # <<>> /\ Top.stage = "imports" /\ Top.todo = {}
  /\ pending' = SubSeq(pending, 1, Len(pending) - 1)
  /\ LET f == Top.file
     IN  /\ base' = AddPackage(AddFile(Checkpoint(base), f), f)
         /\ stack' = Append(Lower,
              [Top EXCEPT !.stage = "symbols", !.todo = db.defines[f],
                          !.errors = \/ PackageClashes(base, f)
                                     \/ ~(db.imports[f] \subseteq base.files \cup {f})])
  /\ UNCHANGED <<db, enforce, over, bad, holder, req, res, job, calls>>

\* BuildMessage and the like: one more symbol of the file.
BuildSymbol ==
  /\ stack # <<>> /\ Top.stage = "symbols"
  /\ \E s \in Top.todo :
       LET e == Entry(s, Top.file, FALSE)
       IN  /\ base' = AddSymbol(base, e)
           /\ stack' = Append(Lower,
                [Top EXCEPT !.todo = @ \ {s}, !.errors = @ \/ Clashes(base, e)])
  /\ UNCHANGED <<db, enforce, over, pending, bad, holder, req, res, job, calls>>

\* CrossLinkFile, and the end of BuildFile: the file is kept or rolled back.
EndBuild ==
  /\ stack # <<>> /\ Top.stage = "symbols" /\ Top.todo = {}
  /\ LET f == Top.file
         found == UNION {Visible(f, s, base, TRUE) : s \in db.uses[f]}
         ok == ~Top.errors /\ \A s \in db.uses[f] : \E e \in found : e.name = s
     IN  /\ base' = IF ok
                    THEN Checkpoint([base EXCEPT !.links = @ \cup
                           {[by |-> f, to |-> e] : e \in found}])
                    ELSE Rollback(base)
         /\ bad' = IF ~ok /\ Top.remember THEN bad \cup {f} ELSE bad
  /\ stack' = Lower
  /\ UNCHANGED <<db, enforce, over, pending, holder, req, res, job, calls>>
-----------------------------------------------------------------------------
(* Lookups in the first pool *)

Answer(t, r) == res' = [res EXCEPT ![t] = r]

\* FindFileByName: the thread gets the mutex; what is there is returned.
FindFileByName(t, f) ==
  /\ holder = None
  /\ req' = [req EXCEPT ![t] = [NoRequest EXCEPT !.file = f]]
  /\ \/ /\ f \in base.files
        /\ Answer(t, f)
        /\ UNCHANGED <<pending, bad, stack, holder>>
     \/ /\ f \notin base.files
        /\ TryFile(f, <<>>)
        /\ holder' = t
        /\ Answer(t, None)

\* FindFileContainingSymbol: the database names one file that has the symbol,
\* and only a file that is not loaded yet is built.
FindFileContainingSymbol(t, s) ==
  /\ holder = None
  /\ LET sources == {f \in db.has : s \in db.defines[f]}
         Ask(f) == req' = [req EXCEPT ![t] = [file |-> f, symbol |-> s]]
     IN  \/ /\ \E e \in base.symbols : e.name = s /\ Answer(t, e.file)
            /\ Ask(None)
            /\ UNCHANGED <<pending, bad, stack, holder>>
         \/ /\ ~Defined(base, s)
            /\ sources = {} \/ sources \cap base.files # {}
            /\ Ask(None) /\ Answer(t, None)
            /\ UNCHANGED <<pending, bad, stack, holder>>
         \/ /\ ~Defined(base, s)
            /\ \E f \in sources \ base.files : Ask(f) /\ Enter(f, <<>>, FALSE)
            /\ holder' = t
            /\ Answer(t, None)

\* Mutant: the mutex is released before the files are loaded.
ReturnEarly(t) ==
  /\ holder = t
  /\ Answer(t, None)
  /\ holder' = None
  /\ UNCHANGED <<db, enforce, base, over, pending, bad, stack, req, job, calls>>

\* The loading is over: if the file was built, the thread looks again.  It releases
\* the mutex.
Return(t) ==
  /\ holder = t /\ stack = <<>>
  /\ LET hits == IF req[t].file \notin base.files THEN {}
                 ELSE IF req[t].symbol = None THEN {req[t].file}
                 ELSE {e.file : e \in {e \in base.symbols : e.name = req[t].symbol}}
     IN  IF hits = {} THEN Answer(t, None) ELSE \E f \in hits : Answer(t, f)
  /\ holder' = None
  /\ UNCHANGED <<db, enforce, base, over, pending, bad, stack, req, job, calls>>

Lookup(u) ==
  /\ holder # u /\ calls[u] < MaxCalls
  /\ \/ \E f \in Files : FindFileByName(u, f)
     \/ \E s \in Symbols : FindFileContainingSymbol(u, s)
  /\ calls' = [calls EXCEPT ![u] = @ + 1]
  /\ UNCHANGED <<db, enforce, base, over, job>>
-----------------------------------------------------------------------------
(* BuildFile of the overlay, by one thread.  The overlay has no database.     *)

OverBuildFile(f) ==
  /\ job.stage = "idle" /\ calls[Builder] < MaxCalls
  /\ calls' = [calls EXCEPT ![Builder] = @ + 1]
  /\ \/ /\ f \in over.files        \* "A file with this name is already in the pool."
        /\ UNCHANGED <<over, job>>
     \/ /\ f \notin over.files
        /\ over' = AddPackage(AddFile(Checkpoint(over), f), f)
        /\ job' = [stage |-> "imports", file |-> f, todo |-> db.imports[f],
                   errors |-> PackageClashes(over, f)]
  /\ UNCHANGED <<db, enforce, base, pending, bad, stack, holder, req, res>>

\* The imports are looked up in the first pool, one after the other.
OverImport ==
  /\ job.stage = "imports"
  /\ \E f \in job.todo :
       /\ FindFileByName(Builder, f)
       /\ job' = [job EXCEPT !.todo = @ \ {f}, !.stage = "import"]
  /\ UNCHANGED <<db, enforce, base, over, calls>>

OverImported ==
  /\ job.stage = "import" /\ holder # Builder
  /\ job' = [job EXCEPT !.stage = "imports", !.errors = @ \/ res[Builder] = None]
  /\ UNCHANGED <<db, enforce, base, over, pending, bad, stack, holder, req, res, calls>>

OverSymbols ==
  /\ job.stage = "imports" /\ job.todo = {}
  /\ LET f == job.file
         es == {Entry(s, f, FALSE) : s \in db.defines[f]}
         new == {e \in es : ~Defined(over, e.name)}
     IN  /\ over' = [over EXCEPT !.symbols = @ \cup new, !.newSymbols = @ \cup new]
         /\ job' = [job EXCEPT !.stage = "link", !.todo = db.uses[f],
                               !.errors = @ \/ \E e \in es : Clashes(over, e)]
  /\ UNCHANGED <<db, enforce, base, pending, bad, stack, holder, req, res, calls>>

Link(s, t) ==
  LET es == Visible(job.file, s, t, enforce)
  IN  /\ over' = [over EXCEPT !.links = @ \cup {[by |-> job.file, to |-> e] : e \in es}]
      /\ job' = [job EXCEPT !.todo = @ \ {s}, !.errors = @ \/ es = {}]

\* Mutant: the tables of the first pool are read without its mutex.
OverLinkUnlocked ==
  /\ job.stage = "link"
  /\ \E s \in job.todo : Link(s, IF Defined(over, s) THEN over ELSE base)
  /\ UNCHANGED <<db, enforce, base, pending, bad, stack, holder, req, res, calls>>

\* DescriptorBuilder::FindSymbol: the overlay's own tables, then those of the
\* first pool, under its mutex.
OverLink ==
  /\ job.stage = "link"
  /\ \E s \in job.todo :
       \/ Defined(over, s) /\ Link(s, over)
       \/ ~Defined(over, s) /\ holder = None /\ Link(s, base)
  /\ UNCHANGED <<db, enforce, base, pending, bad, stack, holder, req, res, calls>>

OverEnd ==
  /\ job.stage = "link" /\ job.todo = {}
  /\ over' = IF job.errors THEN Rollback(over) ELSE Checkpoint(over)
  /\ job' = NoJob
  /\ UNCHANGED <<db, enforce, base, pending, bad, stack, holder, req, res, calls>>
-----------------------------------------------------------------------------
Next ==
  \/ LoadImport \/ StartBuild \/ BuildSymbol \/ EndBuild
  \/ \E t \in Threads : Return(t)
  \/ \E u \in Users : Lookup(u)
  \/ \E f \in Overlays : OverBuildFile(f)
  \/ OverImport \/ OverImported \/ OverSymbols \/ OverLink \/ OverEnd

Spec == Init /\ [][Next]_vars
-----------------------------------------------------------------------------
Entries(F) == [name : Symbols, file : F, package : BOOLEAN]
Tables(F) ==
  [files : SUBSET F, symbols : SUBSET Entries(F),
   links : SUBSET [by : F, to : Entries(Files \cup Overlays)],
   newFiles : SUBSET F, newSymbols : SUBSET Entries(F)]
Frames ==
  [file : Files, stage : {"imports"}, todo : SUBSET Files, errors : BOOLEAN, remember : BOOLEAN]
  \cup
  [file : Files, stage : {"symbols"}, todo : SUBSET Symbols, errors : BOOLEAN, remember : BOOLEAN]

\* The types, and: only a thread that holds the mutex loads files.
TypeOK ==
  /\ enforce \in BOOLEAN
  /\ base \in Tables(Files) /\ over \in Tables(Overlays)
  /\ pending \in Seq(Files) /\ bad \subseteq Files
  /\ stack \in Seq(Frames)
  /\ holder \in Threads \cup {None}
  /\ stack # <<>> => holder # None
  /\ req \in [Threads -> [file : Files \cup {None}, symbol : Symbols \cup {None}]]
  /\ res \in [Threads -> Files \cup {None}]
  /\ job \in [stage : {"idle", "imports", "import", "link"}, file : Overlays \cup {None},
              todo : SUBSET (Files \cup Symbols), errors : BOOLEAN]
  /\ job.stage # "idle" => job.file \in Overlays
  /\ job.stage \in {"imports", "import"} => job.todo \subseteq Files
  /\ job.stage = "link" => job.todo \subseteq Symbols
  /\ calls \in [Threads -> 0..MaxCalls]

\* The files that are in the first pool for good.
Loaded == base.files \ base.newFiles

\* A loaded file has all it needs: its imports and its symbols are in the pool,
\* no name stands for two things, and everything else in the tables belongs to
\* the file being built (Checkpoint, Rollback, BuildFile).
LoadedFilesAreWhole ==
  /\ \A f \in Loaded :
       /\ db.imports[f] \subseteq Loaded
       /\ \A s \in db.defines[f] : Entry(s, f, FALSE) \in base.symbols
       /\ PackageOf(f) # {} => \E e \in base.symbols : e.name = db.package[f] /\ e.package
  /\ \A e \in base.symbols :
       /\ e.file \in base.files
       /\ \A d \in base.symbols : d.name = e.name => d = e
  /\ stack = <<>> => base.newFiles = {} /\ base.newSymbols = {}

\* Descriptors that somebody points to are never deleted: what a lookup
\* returned stays, and what a file was linked to is not rolled back with
\* another file, nor, for the overlay, with a file that the first pool was
\* loading (Rollback, DescriptorBuilder::FindSymbol).
PointersStayValid ==
  /\ \A t \in Threads : holder # t => res[t] \in Loaded \cup {None}
  /\ \A l \in base.links : l.to \in base.symbols
  /\ \A l \in over.links :
       \/ l.to \in over.symbols
       \/ l.to \in base.symbols /\ l.to.file \in Loaded

\* Files cannot import each other without end (pending_files_).
RecursionIsBounded == Len(stack) <= Cardinality(Files)

\* What a file needs, directly or through its imports: the least set that has its
\* imports and theirs.
ImportsIn(S) == \A g \in S : db.imports[g] \subseteq S
Needs(f) ==
  {g \in Files : \A S \in SUBSET Files : db.imports[f] \subseteq S /\ ImportsIn(S) => g \in S}

\* A file without fault: all it needs is in the database and without fault, it
\* does not need itself, it uses what it imports, and nobody claims its names.
Faultless(f) ==
  \A g \in {f} \cup Needs(f) :
    /\ g \in db.has /\ g \notin Needs(g)
    /\ \A s \in db.uses[g] :
         \E h \in {g} \cup db.imports[g] : s \in db.defines[h]
    /\ \A h \in Files \ {g} :
         /\ db.defines[g] \cap (db.defines[h] \cup {db.package[h]}) = {}
         /\ db.package[g] \notin db.defines[h]
    /\ db.package[g] \notin db.defines[g]

\* A file without fault is found, by its name and by what it defines, whatever
\* was loaded before it and in whatever order: the failures of others are not
\* remembered against it (known_bad_files_).
FaultlessFilesAreFound ==
  /\ \A f \in bad : ~Faultless(f)
  /\ \A t \in Threads : holder # t /\ res[t] = None =>
       /\ req[t].file # None => ~Faultless(req[t].file)
       /\ \A f \in Files : Faultless(f) => req[t].symbol \notin db.defines[f]
=============================================================================
