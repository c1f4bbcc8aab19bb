------------------------- MODULE IncrementalCompile --------------------------
(***************************************************************************)
(* How the language server recompiles an edited project: which cached      *)
(* parse and type-check results sway-core reuses (compile_to_ast, the      *)
(* module and program caches of the QueryEngine), what an abandoned        *)
(* compilation leaves behind, and what the user is shown.                  *)
(*                                                                         *)
(* The project is one package: a root module and its submodules.  A text   *)
(* is the number of the edit that made it.  A request carries the version  *)
(* of the one file the client changed; the other open files are listed     *)
(* with no version, and cache entries record the version they were         *)
(* computed for.  Requests reach the compiler as CompilationSlot has it:   *)
(* one waits at a time and a newer one takes its place.                    *)
(*                                                                         *)
(* The compiler reads the session's temp directory.  write_changes_to_file *)
(* truncates the file, queues the write of the new text on the blocking    *)
(* pool and returns without a flush; resync truncates and fills the files  *)
(* one by one.  What the code that follows takes for granted is that every *)
(* file is whole then; AtomicWrites says which of the two is modelled.     *)
(***************************************************************************)
EXTENDS Naturals, FiniteSets

CONSTANTS
  Root,         \* the package's entry file
  Subs,         \* its submodules
  Uses,         \* for each submodule, the sibling submodules it imports from
  Breakable,    \* files the user may leave in a state that does not parse
  AtomicWrites, \* whether a write is seen whole and done when the handler goes on
  CleanSaves,   \* whether a file is saved only when no other has unsaved edits
  MaxEdits,     \* bound: for each file, the edits made to it in a behaviour
  MaxWrites     \* bound: no file is saved once a file was written so often

Files == {Root} \cup Subs

ASSUME FilesAssumption == Root \notin Subs
ASSUME UsesAssumption == Uses \in [Subs -> SUBSET Subs]
ASSUME WritesAssumption == AtomicWrites \in BOOLEAN /\ CleanSaves \in BOOLEAN
ASSUME BreakableAssumption == Breakable \subseteq Files
ASSUME MaxEditsAssumption == MaxEdits \in [Files -> Nat] /\ MaxWrites \in Nat

VARIABLES
  text,       \* per file: the newest text, in the Documents map
  broken,     \* the texts, <<file, number>>, that do not parse
  saved,      \* per file: the text in the user's workspace
  disk,       \* per file: the text in the temp directory, or Empty
  modified,   \* per file: its modification time
  creating,   \* did_change waits for File::create: <<file, version>>
  created,    \* did_change may go on
  queued,     \* writes the blocking pool has not done
  resync,     \* per file: what resync has to do, 2 truncate and fill, 1 fill
  slot,       \* the waiting request, or None
  session,    \* the session's engines: module cache and programs cache
  stage,      \* where the compilation thread is
  job,        \* the request it works on
  work,       \* the engines clone it works on
  todo,       \* the submodules it has not looked at
  parsed,     \* the modules read and parsed so far: file -> text
  result,     \* the program compiled or reused, and whether it was reused
  tokens,     \* whether the session's token map has tokens
  shown,      \* the session's compiled program
  done        \* observer: per file, the newest version a compilation completed for

files == <<disk, modified>>
edits == <<text, broken, saved, files, creating, created, queued, resync>>
thread == <<stage, job, work, todo, parsed, result>>
display == <<tokens, shown, done>>
vars == <<edits, slot, session, thread, display>>

None == 0     \* no version, no entry
Empty == 0    \* the file is truncated
Synced == [f \in Files |-> 0]  \* resync is not running

NoRequest == [kind |-> "none", versions |-> [f \in Files |-> None]]

\* A module's cache entry: the text and version it was parsed from, the text
\* on disk when the modification time was read, the submodules found, and the
\* type-checked module with its version.  A type-checked module is what was
\* type-checked, itself and its submodules, each with the texts it was checked
\* against (None: not there).
Nothing == [f \in Files |-> None]
NoModules == [f \in Files |-> Nothing]
NoTyped == [there |-> FALSE, version |-> None, module |-> NoModules]
NoEntry ==
  [there |-> FALSE, text |-> None, mtime |-> None, version |-> None,
   dependencies |-> {}, typed |-> NoTyped]

NoProgram == [there |-> FALSE, parsed |-> Nothing, typed |-> NoModules]

NoEngines == [modules |-> [f \in Files |-> NoEntry], programs |-> NoProgram]

Init ==
  /\ text = [f \in Files |-> 1]
  /\ broken = {}
  /\ saved = [f \in Files |-> 1]
  /\ disk = [f \in Files |-> 1]
  /\ modified = [f \in Files |-> 1]
  /\ creating = {} /\ created = {} /\ queued = {}
  /\ resync = Synced
  /\ slot = NoRequest
  /\ session = NoEngines
  /\ stage = "recv"
  /\ job = NoRequest
  /\ work = NoEngines
  /\ todo = {}
  /\ parsed = Nothing
  /\ result = [program |-> NoProgram, reused |-> FALSE]
  /\ tokens = FALSE
  /\ shown = NoProgram
  /\ done = [f \in Files |-> None]

-----------------------------------------------------------------------------
(* The client and the handlers.                                            *)

\* The file gets new contents.
SetFile(f, contents) ==
  /\ disk' = [disk EXCEPT ![f] = contents]
  /\ modified' = [modified EXCEPT ![f] = @ + 1]

\* did_change updates the document and writes the file ...
WriteChange(f) ==
  LET change == <<f, text[f] + 1>>
  IN  /\ resync = Synced
      /\ text[f] <= MaxEdits[f]
      /\ text' = [text EXCEPT ![f] = @ + 1]
      /\ broken' \in {broken} \cup (IF f \in Breakable THEN {broken \cup {change}} ELSE {})
      /\ IF AtomicWrites
         THEN /\ SetFile(f, text[f] + 1)
              /\ created' = created \cup {change} /\ creating' = creating
         ELSE /\ creating' = creating \cup {change}
              /\ UNCHANGED <<files, created>>
      /\ UNCHANGED <<saved, queued, resync, slot, session, thread, display>>

\* ... which File::create truncates ...
CreateFile(change) ==
  /\ change \in creating
  /\ creating' = creating \ {change}
  /\ created' = created \cup {change}
  /\ SetFile(change[1], Empty)
  /\ UNCHANGED <<text, broken, saved, queued, resync, slot, session, thread, display>>

\* ... write_all returns when the write is queued, and did_change asks for a
\* compilation with the new version of that file and no version for the others
\* (file_versions).
SendChange(change) ==
  /\ change \in created /\ resync = Synced
  /\ created' = created \ {change}
  /\ queued' = IF AtomicWrites THEN queued ELSE queued \cup {change}
  /\ slot' = [kind |-> "change",
              versions |-> [f \in Files |-> IF f = change[1] THEN change[2] ELSE None]]
  /\ UNCHANGED <<text, broken, saved, files, creating, resync, session, thread, display>>

\* The blocking pool does a write.
FlushWrite(change) ==
  /\ change \in queued
  /\ queued' = queued \ {change}
  /\ SetFile(change[1], change[2])
  /\ UNCHANGED <<text, broken, saved, creating, created, resync, slot, session, thread, display>>

\* did_save lists every file with no version.
SaveRequest == [kind |-> "save", versions |-> [f \in Files |-> None]]

\* The editor has saved f: did_save lets resync copy the whole workspace over
\* the temp directory and asks for a compilation.
SendSave(f) ==
  /\ resync = Synced
  /\ \A g \in Files : modified[g] < MaxWrites
  /\ CleanSaves => \A g \in Files \ {f} : saved[g] = text[g]
  /\ saved' = [saved EXCEPT ![f] = text[f]]
  /\ IF AtomicWrites
     THEN /\ disk' = saved'
          /\ modified' = [g \in Files |-> modified[g] + 1]
          /\ slot' = SaveRequest /\ resync' = resync
     ELSE /\ resync' = [g \in Files |-> 2]
          /\ UNCHANGED <<files, slot>>
  /\ UNCHANGED <<text, broken, creating, created, queued, session, thread, display>>

\* copy_dir_contents truncates a file and fills it, one file after the other;
\* the handler gives no other a chance until it has sent its request.
CopyFile(f) ==
  /\ resync[f] # 0
  /\ resync[f] = 2 => \A g \in Files : resync[g] # 1
  /\ resync' = [resync EXCEPT ![f] = @ - 1]
  /\ SetFile(f, IF resync[f] = 2 THEN Empty ELSE saved[f])
  /\ slot' = IF resync' = Synced THEN SaveRequest ELSE slot
  /\ UNCHANGED <<text, broken, saved, creating, created, queued, session, thread, display>>

\* did_open of a project whose token map is empty lists no files at all; its
\* send waits for the channel to be empty.
SendOpen ==
  /\ ~tokens
  /\ slot = NoRequest /\ resync = Synced
  /\ slot' = [kind |-> "open", versions |-> [f \in Files |-> None]]
  /\ UNCHANGED <<edits, session, thread, display>>

-----------------------------------------------------------------------------
(* The compilation thread.                                                 *)

\* The file as it is now parses.
Parses(f) == disk[f] # Empty /\ <<f, disk[f]>> \notin broken

\* Take the request and clone the session's engines.  The garbage collection
\* of the clone leaves the module and program caches alone.
Receive ==
  /\ stage = "recv" /\ slot # NoRequest
  /\ job' = slot
  /\ slot' = NoRequest
  /\ work' = session
  /\ todo' = Subs
  /\ parsed' = Nothing
  /\ result' = [program |-> NoProgram, reused |-> FALSE]
  /\ stage' = "entry"
  /\ UNCHANGED <<edits, session, display>>

\* pkg::check reads the entry file before anything else.
ReadEntry ==
  /\ stage = "entry"
  /\ parsed' = [Nothing EXCEPT ![Root] = IF Parses(Root) THEN disk[Root] ELSE None]
  /\ stage' = "start"
  /\ UNCHANGED <<edits, slot, session, job, work, todo, result, display>>

\* Mutant: a cache entry without a version counts as current.
CoversUnversioned(version, f) == job.versions[f] = None \/ version = None \/ job.versions[f] <= version

\* A cached version is good enough for the request.
Covers(version, f) ==
  \/ job.versions[f] = None
  \/ version # None /\ job.versions[f] <= version

\* Mutant: a module that is not in the cache counts as current.
ParseFreshMissing(f) ==
  LET entry == work.modules[f]
  IN  entry.there =>
        IF job.kind = "open"
        THEN entry.mtime = modified[f] \/ entry.text = disk[f]
        ELSE Covers(entry.version, f)

\* is_parse_module_cache_up_to_date, for one module.
ParseFresh(f) ==
  LET entry == work.modules[f]
  IN  /\ entry.there
      /\ IF job.kind = "open"
         THEN entry.mtime = modified[f] \/ entry.text = disk[f]
         ELSE Covers(entry.version, f)

\* is_parse_module_cache_up_to_date, for the package.
UpToDate == ParseFresh(Root) /\ \A f \in work.modules[Root].dependencies : ParseFresh(f)

\* compile_to_ast returns the cached program.
Reuse ==
  /\ stage = "start" /\ UpToDate
  /\ result' = [program |-> work.programs, reused |-> TRUE]
  /\ stage' = "publish"
  /\ UNCHANGED <<edits, slot, session, job, work, todo, parsed, display>>

\* Mutant: parse errors of the root are not returned.
ParseRootRecovers ==
  /\ stage = "start" /\ ~UpToDate
  /\ stage' = "parse"
  /\ UNCHANGED <<edits, slot, session, job, work, todo, parsed, result, display>>

\* parse_module_tree of the root.  If it does not parse there is no program.
ParseRoot ==
  /\ stage = "start" /\ ~UpToDate
  /\ stage' = IF parsed[Root] # None THEN "parse" ELSE "recv"
  /\ UNCHANGED <<edits, slot, session, job, work, todo, parsed, result, display>>

\* The module cache with f's entry primed; its type-checked module is kept.
Primed(f, source, version, dependencies) ==
  [modules |-> [work.modules EXCEPT ![f] =
     [there |-> TRUE, text |-> source, mtime |-> modified[f], version |-> version,
      dependencies |-> dependencies, typed |-> work.modules[f].typed]],
   programs |-> work.programs]

\* Mutant: the version is the document's, not the request's.
CacheParsedNewest(f, source, dependencies) == Primed(f, source, text[f], dependencies)

\* update_or_insert_parsed_module_cache_entry.
CacheParsed(f, source, dependencies) == Primed(f, source, job.versions[f], dependencies)

\* parse_submodules: a submodule that does not parse is skipped.
ParseSubmodule(f) ==
  /\ stage = "parse" /\ f \in todo
  /\ todo' = todo \ {f}
  /\ IF Parses(f)
     THEN /\ parsed' = [parsed EXCEPT ![f] = disk[f]]
          /\ work' = CacheParsed(f, disk[f], {})
     ELSE UNCHANGED <<parsed, work>>
  /\ UNCHANGED <<edits, slot, session, stage, job, result, display>>

\* The root's entry is primed last, with the submodules that were parsed.
ParseDone ==
  /\ stage = "parse" /\ todo = {}
  /\ work' = CacheParsed(Root, parsed[Root], {f \in Subs : parsed[f] # None})
  /\ stage' = "typecheck"
  /\ UNCHANGED <<edits, slot, session, job, todo, parsed, result, display>>

\* is_ty_module_cache_up_to_date, for one module.  A file the request does not
\* list counts as unchanged.
TypedFresh(f) ==
  LET typed == work.modules[f].typed
  IN  typed.there /\ (job.kind = "open" \/ Covers(typed.version, f))

RootTypedFresh ==
  TypedFresh(Root) /\ \A f \in work.modules[Root].dependencies : TypedFresh(f)

\* The text of f that the modules type-checked after it see.
TypedText(f) == IF TypedFresh(f) THEN work.modules[f].typed.module[f][f] ELSE parsed[f]

\* The modules that f is type-checked against.
Imports(f) == IF f = Root THEN Subs ELSE Uses[f]

\* Module f with the texts it is type-checked against.
Checked(f) ==
  [g \in Files |-> CASE g = f -> parsed[f]
                     [] g # f /\ g \in Imports(f) /\ parsed[g] # None -> TypedText(g)
                     [] OTHER -> None]

\* Submodule f, from the cache or checked anew.
TypedSubmodule(f) == IF TypedFresh(f) THEN work.modules[f].typed.module[f] ELSE Checked(f)

\* The type-checked root with its submodules.
TypedRoot ==
  IF RootTypedFresh
  THEN work.modules[Root].typed.module
  ELSE [f \in Files |-> CASE f = Root -> Checked(Root)
                          [] f # Root /\ parsed[f] # None -> TypedSubmodule(f)
                          [] OTHER -> Nothing]

\* The modules that are type-checked anew.
CheckedAnew == IF RootTypedFresh THEN {} ELSE {Root} \cup {f \in Subs : parsed[f] # None /\ ~TypedFresh(f)}

\* update_typed_module_cache_entry for those.
CacheTyped ==
  [f \in Files |->
     IF f \in CheckedAnew
     THEN [work.modules[f] EXCEPT !.typed =
             [there |-> TRUE, version |-> job.versions[f],
              module |-> IF f = Root THEN TypedRoot ELSE [NoModules EXCEPT ![f] = Checked(f)]]]
     ELSE work.modules[f]]

\* parsed_to_ast, and the programs cache entry.
TypeCheck ==
  /\ stage = "typecheck"
  /\ LET program == [there |-> TRUE, parsed |-> parsed, typed |-> TypedRoot]
     IN  /\ work' = [modules |-> CacheTyped, programs |-> program]
         /\ result' = [program |-> program, reused |-> FALSE]
  /\ stage' = "publish"
  /\ UNCHANGED <<edits, slot, session, job, todo, parsed, display>>

\* Type-checking ends without a root module; the program is cached all the same.
\* The modules that were cached on the way never leave the clone.
TypeCheckFails ==
  /\ stage = "typecheck"
  /\ LET program == [there |-> TRUE, parsed |-> parsed, typed |-> NoModules]
     IN  /\ work' = [modules |-> work.modules, programs |-> program]
         /\ result' = [program |-> program, reused |-> FALSE]
  /\ stage' = "publish"
  /\ UNCHANGED <<edits, slot, session, job, todo, parsed, display>>

\* The places where retrigger_compilation is looked at.  The flag may be set for
\* a request that is no longer waiting (LoadIsCompiling and StoreRetrigger of LspCompilation),
\* so a compilation may be abandoned at any of them.
Abort ==
  /\ stage \in {"start", "typecheck", "publish"}
  /\ stage' = "recv"
  /\ UNCHANGED <<edits, slot, session, job, work, todo, parsed, result, display>>

\* traverse empties the token map, or drops the tokens of the changed file, and
\* fails if the program has no root module: the clone is dropped.
Traverse ==
  /\ stage = "publish"
  /\ tokens' = (tokens /\ \E f \in Files : job.versions[f] # None)
  /\ stage' = IF result.program.typed[Root][Root] # None THEN "traverse" ELSE "recv"
  /\ UNCHANGED <<edits, slot, session, job, work, todo, parsed, result, shown, done>>

\* Mutant: the programs cache is not committed.
PublishModulesOnly ==
  /\ stage = "traverse"
  /\ tokens' = TRUE
  /\ shown' = result.program
  /\ session' = IF result.reused THEN session ELSE [modules |-> work.modules, programs |-> session.programs]
  /\ done' = [f \in Files |-> IF job.versions[f] > done[f] THEN job.versions[f] ELSE done[f]]
  /\ stage' = "recv"
  /\ UNCHANGED <<edits, slot, job, work, todo, parsed, result>>

\* The rest of traverse shows the program; unless it was reused, the caches are
\* committed and the clone becomes the session's engines.
Publish ==
  /\ stage = "traverse"
  /\ tokens' = TRUE
  /\ shown' = result.program
  /\ session' = IF result.reused THEN session ELSE work
  /\ done' = [f \in Files |-> IF job.versions[f] > done[f] THEN job.versions[f] ELSE done[f]]
  /\ stage' = "recv"
  /\ UNCHANGED <<edits, slot, job, work, todo, parsed, result>>

Next ==
  \/ \E f \in Files : WriteChange(f)
  \/ \E change \in creating : CreateFile(change)
  \/ \E change \in created : SendChange(change)
  \/ \E change \in queued : FlushWrite(change)
  \/ \E f \in Files : SendSave(f) \/ CopyFile(f)
  \/ SendOpen
  \/ Receive \/ ReadEntry \/ Reuse \/ ParseRoot \/ \E f \in Subs : ParseSubmodule(f)
  \/ ParseDone \/ TypeCheck \/ TypeCheckFails \/ Abort \/ Traverse \/ Publish

Spec == Init /\ [][Next]_vars

-----------------------------------------------------------------------------
Requests == [kind : {"none", "change", "save", "open"}, versions : [Files -> Nat]]
Texts == [Files -> Nat]
Modules == [Files -> Texts]
Typed == [there : BOOLEAN, version : Nat, module : Modules]
Entries ==
  [there : BOOLEAN, text : Nat, mtime : Nat, version : Nat,
   dependencies : SUBSET Subs, typed : Typed]
Programs == [there : BOOLEAN, parsed : Texts, typed : Modules]
Engines == [modules : [Files -> Entries], programs : Programs]

(* Type invariant of the files, the requests, the caches and the thread;   *)
(* while modules are parsed the root is among them.                        *)
TypeOK ==
  /\ text \in [Files -> Nat \ {0}]
  /\ broken \subseteq Files \X Nat
  /\ saved \in Texts /\ disk \in Texts /\ modified \in Texts
  /\ resync \in [Files -> 0..2]
  /\ (creating \cup created \cup queued) \subseteq Files \X (Nat \ {0})
  /\ slot \in Requests /\ job \in Requests
  /\ stage \in {"recv", "entry", "start", "parse", "typecheck", "publish", "traverse"}
  /\ session \in Engines /\ work \in Engines
  /\ todo \subseteq Subs
  /\ parsed \in Texts
  /\ stage \in {"parse", "typecheck"} => parsed[Root] # None
  /\ result \in [program : Programs, reused : BOOLEAN]
  /\ tokens \in BOOLEAN /\ shown \in Programs
  /\ done \in [Files -> Nat]

(* compile_to_ast unwraps the programs cache entry whenever the module     *)
(* cache is up to date: it is always there, although the two caches are    *)
(* filled at different moments, compilations are abandoned in between and  *)
(* a program that fails to type-check is cached too.                       *)
ReuseFindsProgram == stage = "start" /\ UpToDate => work.programs.there

(* The freshness test looks at the module cache and hands out the program  *)
(* of the programs cache: they are of one compilation, for the root and    *)
(* for every submodule the test looks at, and that program is the one the  *)
(* session shows, whatever was abandoned, reused or read half-written.     *)
CachesAgree ==
  /\ shown = session.programs
  /\ session.modules[Root].there =>
       \A f \in {Root} \cup session.modules[Root].dependencies :
         session.modules[f].text = session.programs.parsed[f]

(* A cache entry never claims a newer version than the text it was made    *)
(* from, whatever edits happen while files are read: comparing versions    *)
(* can only recompile too much, never too little.  (With AtomicWrites and  *)
(* CleanSaves.)                                                            *)
VersionNotAhead ==
  \A f \in Files :
    LET entry == session.modules[f]
    IN  /\ entry.version <= entry.text
        /\ entry.typed.there => entry.typed.version <= entry.typed.module[f][f]

(* Once a compilation for the current version of a file has completed, the *)
(* program shown has that version type-checked, and keeps it through every *)
(* reuse, save and compilation for another file.  (With AtomicWrites,      *)
(* CleanSaves and submodules that parse.)                                  *)
CompletedEditShown ==
  \A f \in Files :
    done[f] = text[f] /\ <<f, text[f]>> \notin broken => shown.typed[f][f] = text[f]

(* "whether the cached typed representation of a module is still valid     *)
(* based on file versions and dependencies": in the program shown, a       *)
(* module is type-checked against the same text of a sibling it imports    *)
(* from as the program contains.                                           *)
ImportsAgree ==
  \A f \in Subs : \A g \in Uses[f] :
    shown.typed[f][f] # None /\ shown.typed[g][g] # None =>
      shown.typed[f][g] = shown.typed[g][g]
=============================================================================
