------------------------------- MODULE Loader -------------------------------
(***************************************************************************)
(* Loading a project (project.rs): a breadth-first walk from the entry     *)
(* files and the library files of project.yaml through `import`s, and the  *)
(* merge of what was loaded into one program.                              *)
(*                                                                         *)
(* A path is one spelling of a file; a file can be reached under several,  *)
(* and its imports are resolved in the directory of the spelling that      *)
(* arrived first.                                                          *)
(***************************************************************************)
EXTENDS Naturals, Sequences, FiniteSets
LOCAL INSTANCE SequencesExt

CONSTANTS Files,       \* files, by canonical path
          Paths,       \* spellings
          Missing,     \* spellings of no file
          Canonical,   \* canonicalise_or_pass
          Projects,    \* the projects considered
          MaxErrors    \* max_errors: parse diagnostics at most

Unresolved == "unresolved"   \* a bare spec that no search root has (F5)

\* imports[p]: the specs and what each resolves to when the file is read as p;
\* errors[f]: parse diagnostics of f, 0 if it parses; declares[f]: its entities.
IsProject(p) ==
  /\ p.entries \in Seq(Paths) /\ p.entries # << >> /\ p.extra \in Seq(Paths)
  /\ \A q \in Paths : p.imports[q] \in Seq([spec : STRING, path : Paths \cup {Unresolved}])
  /\ p.errors \in [Files -> Nat]
  /\ \A f \in Files : p.declares[f] \subseteq STRING

ASSUME LoaderAssumption ==
  /\ Canonical \in [Paths -> Files \cup Missing] /\ Missing \subseteq Paths
  /\ \A p \in Missing : Canonical[p] = p
  /\ \A p \in Paths \ Missing : Canonical[p] \in Files
  /\ MaxErrors \in Nat \ {0}
  /\ \A p \in Projects : IsProject(p)

VARIABLES
  project,   \* what is on disk; never changes
  queue,     \* paths to load, each with its kind
  seen,      \* canonical paths taken from the queue
  out,       \* files loaded, in order
  diags,     \* parse diagnostics so far
  result     \* "walking", "merged", or how the load failed

vars == <<project, queue, seen, out, diags, result>>

Kinds == {"Entry", "Imported"}
Results == {"walking", "Io", "F5", "parse", "F4", "duplicate", "merged"}
Elems(s) == { s[k] : k \in 1..Len(s) }
Tagged(paths, kind) == [k \in 1..Len(paths) |-> [path |-> paths[k], kind |-> kind]]

-----------------------------------------------------------------------------
\* Mutant: the library files of the yaml come first.
InitLibrariesFirst ==
  /\ project \in Projects
  /\ queue = Tagged(project.extra, "Imported") \o Tagged(project.entries, "Entry")
  /\ seen = {} /\ out = << >> /\ diags = 0 /\ result = "walking"

Init ==
  /\ project \in Projects
  /\ queue = Tagged(project.entries, "Entry") \o Tagged(project.extra, "Imported")
  /\ seen = {} /\ out = << >> /\ diags = 0 /\ result = "walking"

Item == Head(queue)
Walking == result = "walking" /\ queue # << >>
Fail(how) == result' = how /\ UNCHANGED <<queue, out, diags>>

\* Mutant: a file seen before goes to the back of the queue.
AgainLater ==
  /\ Walking /\ Canonical[Item.path] \in seen
  /\ queue' = Append(Tail(queue), Item)
  /\ UNCHANGED <<project, seen, out, diags, result>>

\* The front of the queue is a file seen before.
Again ==
  /\ Walking /\ Canonical[Item.path] \in seen
  /\ queue' = Tail(queue)
  /\ UNCHANGED <<project, seen, out, diags, result>>

\* Mutant: seen keeps spellings instead of canonical paths.
TakeSpelling ==
  /\ Walking /\ Canonical[Item.path] \notin seen
  /\ seen' = seen \cup {Item.path}
  /\ UNCHANGED project

Take ==
  /\ Walking /\ Canonical[Item.path] \notin seen
  /\ seen' = seen \cup {Canonical[Item.path]}
  /\ UNCHANGED project

NotThere == Take /\ Item.path \in Missing /\ Fail("Io")

File == Canonical[Item.path]
Imports == project.imports[Item.path]
Room == MaxErrors - diags

\* A file that does not parse adds its diagnostics, while there is room, and
\* the walk goes on without its imports.
DoesNotParse ==
  /\ Take /\ Item.path \notin Missing /\ project.errors[File] > 0
  /\ diags' = diags + (IF project.errors[File] < Room THEN project.errors[File] ELSE Room)
  /\ queue' = Tail(queue)
  /\ UNCHANGED <<out, result>>

DoesNotResolve ==
  /\ Take /\ Item.path \notin Missing /\ project.errors[File] = 0
  /\ \E i \in Elems(Imports) : i.path = Unresolved
  /\ Fail("F5")

\* Mutant: the imports of a library are not followed.
ParsesEntriesOnly ==
  /\ Take /\ Item.path \notin Missing /\ project.errors[File] = 0
  /\ \A i \in Elems(Imports) : i.path # Unresolved
  /\ out' = Append(out, Item)
  /\ queue' = Tail(queue) \o (IF Item.kind = "Entry" THEN
                [k \in 1..Len(Imports) |-> [path |-> Imports[k].path, kind |-> "Imported"]] ELSE << >>)
  /\ UNCHANGED <<diags, result>>

Parses ==
  /\ Take /\ Item.path \notin Missing /\ project.errors[File] = 0
  /\ \A i \in Elems(Imports) : i.path # Unresolved
  /\ out' = Append(out, Item)
  /\ queue' = Tail(queue) \o [k \in 1..Len(Imports) |->
                                [path |-> Imports[k].path, kind |-> "Imported"]]
  /\ UNCHANGED <<diags, result>>

-----------------------------------------------------------------------------
Declares(k) == project.declares[Canonical[out[k].path]]

\* merge_tagged_programs: F4, an entity, test, fuzz or invariant of a library.
ForeignEntity == \E k \in 1..Len(out) : out[k].kind = "Imported" /\ Declares(k) # {}

\* merge_programs: names of a kind are unique over all files.
Duplicate == \E j, k \in 1..Len(out) : j # k /\ Declares(j) \cap Declares(k) # {}

\* file_imports of the merged program: a spec already there is left out.
FileImports ==
  LET specs == FlattenSeq([k \in 1..Len(out) |->
                 [j \in 1..Len(project.imports[out[k].path]) |-> project.imports[out[k].path][j].spec]])
  IN  FoldLeft(LAMBDA kept, spec : IF spec \in Elems(kept) THEN kept ELSE Append(kept, spec),
               << >>, specs)

\* check_file_imports, on the merged program.
W8 == \E j, k \in 1..Len(FileImports) : j # k /\ FileImports[j] = FileImports[k]

Finish ==
  /\ result = "walking" /\ queue = << >>
  /\ result' = IF diags > 0 THEN "parse"
               ELSE IF ForeignEntity THEN "F4"
               ELSE IF Duplicate THEN "duplicate" ELSE "merged"
  /\ UNCHANGED <<project, queue, seen, out, diags>>

Next == Again \/ NotThere \/ DoesNotParse \/ DoesNotResolve \/ Parses \/ Finish

Spec == Init /\ [][Next]_vars /\ WF_vars(Next)

-----------------------------------------------------------------------------
Entries == { Canonical[p] : p \in Elems(project.entries) }
Loaded == { Canonical[e.path] : e \in Elems(out) }

\* Type correctness; every file loaded has been seen, and max_errors bounds
\* the diagnostics of all files together.
TypeOK ==
  /\ IsProject(project)
  /\ queue \in Seq([path : Paths, kind : Kinds])
  /\ out \in Seq([path : Paths \ Missing, kind : Kinds])
  /\ Loaded \subseteq seen /\ seen \subseteq Files \cup Missing
  /\ diags \in 0..MaxErrors
  /\ result \in Results

\* A file is loaded once, however many spellings lead to it, cycles of imports
\* included.
LoadedOnce ==
  \A j, k \in 1..Len(out) : Canonical[out[j].path] = Canonical[out[k].path] => j = k

\* A file is an entry exactly if `sources:` lists it, whatever imports it and
\* whatever `imports:` lists: its kind does not hang on who arrives first.
EntriesWin ==
  \A e \in Elems(out) : e.kind = "Entry" <=> Canonical[e.path] \in Entries

\* What is merged is closed: the entries, the library files and all that a
\* loaded file imports, and nothing that is not reached.
Reached(S) ==
  /\ Entries \subseteq S
  /\ \A p \in Elems(project.extra) : Canonical[p] \in S
  /\ \A e \in Elems(out) : Canonical[e.path] \in S =>
       \A i \in Elems(project.imports[e.path]) : Canonical[i.path] \in S

MergedIsClosed ==
  result = "merged" =>
    Reached(Loaded) /\ \A S \in SUBSET Files : Reached(S) => Loaded \subseteq S

\* A project with an entity in a library, or the same entity in two files, is
\* never merged, and neither is one of which a part does not parse.
MergedIsSound ==
  result = "merged" =>
    /\ \A f \in Loaded : project.errors[f] = 0
    /\ \A f \in Loaded \ Entries : project.declares[f] = {}
    /\ \A f, g \in Loaded : f # g => project.declares[f] \cap project.declares[g] = {}

\* The merge holds what imports reach from the sources and nothing else, and
\* there is none when a part does not parse, an entity is declared in a
\* library, or two files declare the same one (load, merge_programs).
MergedExactly == MergedIsClosed /\ MergedIsSound

\* The load ends, import cycles or not.
LoadEnds == <>(result # "walking")

\* "F4 rejects any occurrence of an entity in a file that's reached via import
\* or listed under imports:" (LANGUAGE.md).
ImportedDeclareNothing ==
  result = "merged" => \A e \in Elems(out) : \A i \in Elems(project.imports[e.path]) :
    project.declares[Canonical[i.path]] = {}

\* "Duplicate `import` directives in the same file emit W8" (EVM_GAPS.md).
DuplicateImportsWarned ==
  result = "merged" =>
    \A e \in Elems(out) : LET specs == project.imports[e.path]
                          IN  (\E j, k \in 1..Len(specs) : j # k /\ specs[j].spec = specs[k].spec) => W8
=============================================================================
