---------------------- MODULE IncrementalCompile_proofs ----------------------
(***************************************************************************)
(* The module and programs caches, for every package and every sequence of *)
(* edits: the program that compile_to_ast unwraps is there, the caches and *)
(* what is shown agree, and, if writes are seen whole and nothing unsaved  *)
(* is overwritten, no cache entry claims a newer version than the text it  *)
(* was made from; and, if every submodule parses, a completed edit is the  *)
(* one that is shown.                                                      *)
(***************************************************************************)
EXTENDS IncrementalCompile, TLAPS

\* What the freshness tests take for granted of the temp directory.
Whole == AtomicWrites /\ CleanSaves

\* Under it, the file is the document.
Settled == Whole => disk = text /\ creating = {} /\ queued = {} /\ resync = Synced

\* Nothing on its way to the compiler is newer than the document.
RequestsWritten ==
  /\ \A change \in created : change[2] <= text[change[1]]
  /\ \A change \in creating : change[2] <= text[change[1]]
  /\ \A f \in Files : slot.versions[f] <= text[f] /\ job.versions[f] <= text[f]

\* A module that was read after the request came has its version.
ParsedCurrent ==
  Whole => \A f \in Files : parsed[f] # None => job.versions[f] <= parsed[f]

EntryNotAhead(f, entry) ==
  /\ entry.version <= entry.text
  /\ entry.typed.there => entry.typed.version <= entry.typed.module[f][f]

CachesNotAhead ==
  Whole =>
    \A f \in Files : /\ EntryNotAhead(f, session.modules[f])
                     /\ EntryNotAhead(f, work.modules[f])

\* The program in the programs cache is made of the entries of the module cache.
Agree(engines) ==
  engines.modules[Root].there =>
    /\ engines.programs.there
    /\ \A f \in {Root} \cup engines.modules[Root].dependencies :
         engines.modules[f].text = engines.programs.parsed[f]

\* How far the clone's caches have got, stage by stage.
CachesInStep ==
  /\ shown = session.programs /\ Agree(session)
  /\ stage \in {"entry", "start"} => work = session
  /\ stage = "start" => \A f \in Subs : parsed[f] = None
  /\ stage \in {"parse", "typecheck"} =>
       \A f \in Subs : parsed[f] # None => work.modules[f].text = parsed[f]
  /\ stage = "typecheck" =>
       /\ work.modules[Root].text = parsed[Root]
       /\ work.modules[Root].dependencies = {f \in Subs : parsed[f] # None}
  /\ stage \in {"publish", "traverse"} =>
       \/ result.reused /\ result.program = session.programs
       \/ ~result.reused /\ result.program = work.programs /\ Agree(work)

IInv ==
  /\ TypeOK /\ Settled /\ RequestsWritten /\ ParsedCurrent
  /\ CachesNotAhead /\ CachesInStep

-----------------------------------------------------------------------------
(* The constant values have their types.                                   *)
LEMMA ConstantsOK ==
  /\ Root \in Files /\ Subs \subseteq Files /\ None \in Nat
  /\ Nothing \in Texts /\ NoModules \in Modules /\ NoProgram \in Programs
  /\ NoEntry \in Entries /\ NoEngines \in Engines /\ NoRequest \in Requests
<1>1. Root \in Files /\ Subs \subseteq Files /\ None \in Nat
  BY SMTT(30) DEF Files, None
<1>2. Nothing \in Texts /\ NoModules \in Modules
  BY <1>1, SMTT(30) DEF Nothing, NoModules, Texts, Modules
<1>3. NoProgram \in Programs
  BY <1>2, SMTT(30) DEF NoProgram, Programs
<1>4. NoTyped \in Typed
  BY <1>1, <1>2, SMTT(30) DEF NoTyped, Typed
<1>5. NoEntry \in Entries
  BY <1>1, <1>4, SMTT(30) DEF NoEntry, Entries
<1>6. NoEngines \in Engines
  BY <1>3, <1>5, SMTT(30) DEF NoEngines, Engines
<1>7. NoRequest \in Requests
  BY <1>1, SMTT(30) DEF NoRequest, Requests
<1> QED BY <1>1, <1>2, <1>3, <1>5, <1>6, <1>7, SMTT(30)

(* The initial state satisfies the inductive invariant.                    *)
LEMMA InitIInv == Init => IInv
<1> SUFFICES ASSUME Init PROVE IInv
  BY SMTT(30)
<1>1. TypeOK
  <2>1. /\ text \in [Files -> Nat \ {0}] /\ broken \subseteq Files \X Nat
        /\ saved \in Texts /\ disk \in Texts /\ modified \in Texts
        /\ resync \in [Files -> 0..2]
        /\ (creating \cup created \cup queued) \subseteq Files \X (Nat \ {0})
    BY SMTT(30) DEF Init, Texts, Synced
  <2>2. slot \in Requests /\ job \in Requests /\ session \in Engines /\ work \in Engines
    BY ConstantsOK, SMTT(30) DEF Init
  <2>3. todo \subseteq Subs /\ parsed \in Texts /\ shown \in Programs /\ tokens \in BOOLEAN
    BY ConstantsOK, Zenon DEF Init
  <2>4. result \in [program : Programs, reused : BOOLEAN]
    BY ConstantsOK, SMTT(30) DEF Init
  <2>5. done \in [Files -> Nat]
    BY ConstantsOK, SMTT(30) DEF Init
  <2>6. stage = "recv"
    BY SMTT(30) DEF Init
  <2> QED BY <2>1, <2>2, <2>3, <2>4, <2>5, <2>6, SMTT(30) DEF TypeOK
<1>2. RequestsWritten /\ Settled
  BY SMTT(30) DEF Init, RequestsWritten, Settled, NoRequest, None
<1>3. ParsedCurrent
  BY SMTT(30) DEF Init, ParsedCurrent, Nothing
<1>4. CachesNotAhead
  BY SMTT(30) DEF Init, CachesNotAhead, EntryNotAhead, NoEngines, NoEntry, NoTyped, None
<1>5. CachesInStep
  BY ConstantsOK, Zenon DEF Init, CachesInStep, Agree, NoEngines, NoEntry
<1> QED BY <1>1, <1>2, <1>3, <1>4, <1>5, SMTT(30) DEF IInv

-----------------------------------------------------------------------------
(* did_change, did_save and did_open.                                      *)
LEMMA WriteChangeIInv ==
  ASSUME IInv, NEW f \in Files, WriteChange(f) PROVE IInv'
<1> USE DEF edits, files, thread, display
<1> DEFINE change == <<f, text[f] + 1>>
<1>1. text' = [text EXCEPT ![f] = @ + 1] /\ text[f] \in Nat
  BY Zenon DEF IInv, TypeOK, WriteChange
<1>2. text' \in [Files -> Nat \ {0}] /\ \A g \in Files : text[g] <= text'[g]
  BY <1>1, SMTT(30) DEF IInv, TypeOK
<1>3. change \in Files \X (Nat \ {0}) /\ change[2] <= text'[change[1]]
  BY <1>1, SMTT(30) DEF IInv, TypeOK
<1>4. \/ /\ AtomicWrites /\ SetFile(f, text[f] + 1)
         /\ created' = created \cup {change} /\ creating' = creating
      \/ /\ ~AtomicWrites /\ disk' = disk /\ modified' = modified
         /\ creating' = creating \cup {change} /\ created' = created
  BY Zenon DEF WriteChange
<1>5. /\ broken' \in {broken, broken \cup {change}}
      /\ UNCHANGED <<saved, queued, resync, slot, session, thread, display>>
  BY Zenon DEF WriteChange
<1> HIDE DEF change
<1>6. TypeOK'
  <2>1. disk' \in Texts /\ modified' \in Texts
    BY <1>1, <1>4, SMTT(30) DEF IInv, TypeOK, SetFile, Texts
  <2>2. (creating' \cup created' \cup queued') \subseteq Files \X (Nat \ {0})
    BY <1>3, <1>4, <1>5, SMTT(30) DEF IInv, TypeOK
  <2>3. broken' \subseteq Files \X Nat
    BY <1>3, <1>5, SMTT(30) DEF IInv, TypeOK
  <2> QED BY <1>2, <1>5, <2>1, <2>2, <2>3, SMTT(30) DEF IInv, TypeOK
<1>7. Settled'
  BY <1>1, <1>4, <1>5, Zenon DEF IInv, Settled, Whole, SetFile
<1>8. RequestsWritten'
  <2>1. ASSUME NEW c \in created \cup creating PROVE c[2] <= text'[c[1]]
    <3>1. c[1] \in Files /\ c[2] \in Nat /\ c[2] <= text[c[1]]
      BY SMTT(30) DEF IInv, TypeOK, RequestsWritten
    <3>2. text[c[1]] \in Nat /\ text'[c[1]] \in Nat
      BY <1>2, <3>1, Zenon DEF IInv, TypeOK
    <3> QED BY <1>2, <3>1, <3>2, SMTT(30)
  <2>2. ASSUME NEW g \in Files
        PROVE slot'.versions[g] <= text'[g] /\ job'.versions[g] <= text'[g]
    <3>1. slot.versions[g] \in Nat /\ job.versions[g] \in Nat
      BY SMTT(30) DEF IInv, TypeOK, Requests
    <3>2. text[g] \in Nat /\ text'[g] \in Nat /\ text[g] <= text'[g]
      BY <1>2, SMTT(30) DEF IInv, TypeOK
    <3>3. slot.versions[g] <= text[g] /\ job.versions[g] <= text[g]
      BY SMTT(30) DEF IInv, RequestsWritten
    <3> QED BY <1>5, <3>1, <3>2, <3>3, SMTT(30)
  <2> QED BY <1>3, <1>4, <2>1, <2>2, SMTT(30) DEF RequestsWritten
<1>9. ParsedCurrent' /\ CachesNotAhead' /\ CachesInStep'
  BY <1>5, SMTT(30) DEF IInv, ParsedCurrent, CachesNotAhead, EntryNotAhead, CachesInStep, Agree
<1> QED BY <1>6, <1>7, <1>8, <1>9, SMTT(30) DEF IInv

\* File::create empties the file before the text is in it.
LEMMA CreateFileIInv ==
  ASSUME IInv, NEW change \in creating, CreateFile(change) PROVE IInv'
<1> USE DEF edits, files, thread, display
<1>1. ~Whole
  BY SMTT(30) DEF IInv, Settled
<1>2. TypeOK'
  <2>1. disk' \in Texts /\ modified' \in Texts
    <3>1. disk \in [Files -> Nat] /\ modified \in [Files -> Nat] /\ change[1] \in Files
      BY SMTT(30) DEF IInv, TypeOK, Texts
    <3>2. SetFile(change[1], Empty)
      BY SMTT(30) DEF CreateFile
    <3> QED BY <3>1, <3>2, SMTT(30) DEF SetFile, Texts, Empty
  <2>2. (creating' \cup created' \cup queued') \subseteq Files \X (Nat \ {0})
    <3>1. (creating \cup created \cup queued) \subseteq Files \X (Nat \ {0})
      BY SMTT(30) DEF IInv, TypeOK
    <3>2. creating' \cup created' \cup queued' = creating \cup created \cup queued
      BY SMTT(30) DEF CreateFile
    <3> QED BY <3>1, <3>2, SMTT(30)
  <2> QED BY <2>1, <2>2, Zenon DEF IInv, TypeOK, CreateFile
<1>3. RequestsWritten'
  BY Zenon DEF IInv, RequestsWritten, CreateFile
<1>4. Settled' /\ ParsedCurrent' /\ CachesNotAhead'
  BY <1>1, SMTT(30) DEF Settled, ParsedCurrent, CachesNotAhead
<1>5. CachesInStep'
  BY SMTT(30) DEF IInv, CachesInStep, Agree, CreateFile
<1> QED BY <1>2, <1>3, <1>4, <1>5, SMTT(30) DEF IInv

\* The blocking pool carries out a queued write.
LEMMA FlushWriteIInv ==
  ASSUME IInv, NEW change \in queued, FlushWrite(change) PROVE IInv'
<1> USE DEF edits, files, thread, display
<1>1. ~Whole
  BY SMTT(30) DEF IInv, Settled
<1>2. TypeOK'
  <2>1. change[1] \in Files /\ change[2] \in Nat
    BY SMTT(30) DEF IInv, TypeOK
  <2>2. disk' \in Texts /\ modified' \in Texts
    BY <2>1, SMTT(30) DEF IInv, TypeOK, FlushWrite, SetFile, Texts
  <2> QED BY <2>2, SMTT(30) DEF IInv, TypeOK, FlushWrite
<1>3. RequestsWritten'
  BY Zenon DEF IInv, RequestsWritten, FlushWrite
<1>4. Settled' /\ ParsedCurrent' /\ CachesNotAhead'
  BY <1>1, Zenon DEF Settled, ParsedCurrent, CachesNotAhead
<1>5. CachesInStep'
  BY Zenon DEF IInv, CachesInStep, Agree, FlushWrite
<1> QED BY <1>2, <1>3, <1>4, <1>5, SMTT(30) DEF IInv

\* The request of did_save is well formed and asks for no version.
LEMMA SaveRequestFacts ==
  SaveRequest \in Requests /\ \A f \in Files : SaveRequest.versions[f] = 0
BY SMTT(30) DEF SaveRequest, Requests, None

\* did_save: what resync copies is the document, if nothing else is unsaved.
LEMMA SendSaveIInv ==
  ASSUME IInv, NEW f \in Files, SendSave(f) PROVE IInv'
<1> USE DEF edits, files, thread, display
<1>1. /\ saved' = [saved EXCEPT ![f] = text[f]] /\ saved' \in Texts
      /\ UNCHANGED <<text, broken, creating, created, queued, session, thread, display>>
  BY Zenon DEF IInv, TypeOK, Texts, SendSave
<1>2. \/ /\ AtomicWrites /\ disk' = saved'
         /\ modified' = [g \in Files |-> modified[g] + 1]
         /\ slot' = SaveRequest /\ resync' = resync
      \/ /\ ~AtomicWrites /\ resync' = [g \in Files |-> 2]
         /\ disk' = disk /\ modified' = modified /\ slot' = slot
  BY SMTT(30) DEF SendSave
<1>3. TypeOK'
  <2>1. disk' \in Texts /\ modified' \in Texts /\ resync' \in [Files -> 0..2]
    BY <1>1, <1>2, SMTT(30) DEF IInv, TypeOK, Texts
  <2>2. slot' \in Requests
    BY <1>2, SaveRequestFacts, Zenon DEF IInv, TypeOK
  <2> QED BY <1>1, <2>1, <2>2, SMTT(30) DEF IInv, TypeOK
<1>4. Settled'
  <2>1. CleanSaves => saved' = text
    <3>1. saved \in [Files -> Nat] /\ text \in [Files -> Nat \ {0}]
      BY SMTT(30) DEF IInv, TypeOK, Texts
    <3>2. CleanSaves => \A g \in Files \ {f} : saved[g] = text[g]
      BY Zenon DEF SendSave
    <3>3. saved' = [saved EXCEPT ![f] = text[f]]
      BY <1>1, SMTT(30)
    <3> QED BY <3>1, <3>2, <3>3, SMTT(30)
  <2> QED BY <1>1, <1>2, <2>1, Zenon DEF IInv, Settled, Whole
<1>5. RequestsWritten'
  <2>1. \A g \in Files : text[g] \in Nat
    BY SMTT(30) DEF IInv, TypeOK
  <2>2. \A g \in Files : slot'.versions[g] <= text[g]
    <3>1. slot' = SaveRequest \/ slot' = slot
      BY <1>2, SMTT(30)
    <3>2. \A g \in Files : slot.versions[g] <= text[g]
      BY SMTT(30) DEF IInv, RequestsWritten
    <3> QED BY <2>1, <3>1, <3>2, SaveRequestFacts, SMTT(30)
  <2> QED BY <1>1, <2>2, Zenon DEF IInv, RequestsWritten
<1>6. ParsedCurrent' /\ CachesNotAhead' /\ CachesInStep'
  BY <1>1, Zenon DEF IInv, ParsedCurrent, CachesNotAhead, EntryNotAhead, CachesInStep, Agree
<1> QED BY <1>3, <1>4, <1>5, <1>6, SMTT(30) DEF IInv

\* resync truncates a file, or fills it.
LEMMA CopyFileIInv ==
  ASSUME IInv, NEW f \in Files, CopyFile(f) PROVE IInv'
<1> USE DEF edits, files, thread, display
<1>1. ~Whole
  BY Zenon DEF IInv, Settled, Synced, CopyFile
<1>2. /\ resync' = [resync EXCEPT ![f] = @ - 1] /\ resync[f] # 0
      /\ modified' = [modified EXCEPT ![f] = @ + 1]
      /\ slot' \in {SaveRequest, slot}
      /\ UNCHANGED <<text, broken, saved, creating, created, queued, session, thread, display>>
  BY Zenon DEF CopyFile, SetFile
<1>3. PICK contents \in {Empty, saved[f]} : disk' = [disk EXCEPT ![f] = contents]
  BY Zenon DEF CopyFile, SetFile
<1>4. TypeOK'
  <2>1. disk' \in Texts
    BY <1>3, SMTT(30) DEF IInv, TypeOK, Texts, Empty
  <2>2. modified' \in Texts /\ resync' \in [Files -> 0..2]
    BY <1>2, SMTT(30) DEF IInv, TypeOK, Texts
  <2>3. slot' \in Requests
    BY <1>2, SaveRequestFacts, Zenon DEF IInv, TypeOK
  <2> QED BY <1>2, <2>1, <2>2, <2>3, SMTT(30) DEF IInv, TypeOK
<1>5. RequestsWritten'
  <2>1. \A g \in Files : text[g] \in Nat
    BY Zenon DEF IInv, TypeOK
  <2>2. \A g \in Files : slot'.versions[g] <= text[g]
    <3>1. slot' = SaveRequest \/ slot' = slot
      BY <1>2, Zenon
    <3>2. \A g \in Files : slot.versions[g] <= text[g]
      BY Zenon DEF IInv, RequestsWritten
    <3> QED BY <2>1, <3>1, <3>2, SaveRequestFacts, SMTT(30)
  <2> QED BY <1>2, <2>2, Zenon DEF IInv, RequestsWritten
<1>6. Settled' /\ ParsedCurrent' /\ CachesNotAhead'
  BY <1>1, Zenon DEF Settled, ParsedCurrent, CachesNotAhead
<1>7. CachesInStep'
  BY <1>2, Zenon DEF IInv, CachesInStep, Agree
<1> QED BY <1>4, <1>5, <1>6, <1>7, SMTT(30) DEF IInv

\* Sending a request that the file has been written for.
LEMMA SendIInv ==
  ASSUME IInv, SendOpen \/ \E change \in created : SendChange(change)
  PROVE  IInv'
<1> USE DEF edits, files, thread, display
<1>1. /\ slot' \in Requests
      /\ \A f \in Files : slot'.versions[f] <= text[f]
      /\ created' \subseteq created
      /\ queued' \subseteq queued \cup created /\ (Whole => queued' = queued)
      /\ UNCHANGED <<text, broken, saved, files, creating, resync, session, thread, display>>
  <2>1. CASE SendOpen
    <3>1. slot'.versions = [f \in Files |-> None] /\ slot' \in Requests
      BY <2>1, Zenon DEF SendOpen, Requests, None
    <3>2. \A f \in Files : text[f] \in Nat
      BY SMTT(30) DEF IInv, TypeOK
    <3>3. \A f \in Files : slot'.versions[f] <= text[f]
      BY <3>1, <3>2, SMTT(30) DEF None
    <3> QED BY <2>1, <3>1, <3>3, Zenon DEF SendOpen
  <2>2. CASE \E change \in created : SendChange(change)
    <3>1. PICK change \in created : SendChange(change)
      BY <2>2, SMTT(30)
    <3>2. change[1] \in Files /\ change[2] \in Nat /\ change[2] <= text[change[1]]
      BY Zenon DEF IInv, TypeOK, RequestsWritten
    <3>3. slot'.versions = [f \in Files |-> IF f = change[1] THEN change[2] ELSE None]
          /\ slot' \in Requests
      BY <3>1, <3>2, Zenon DEF SendChange, Requests, None
    <3>4. \A f \in Files : text[f] \in Nat
      BY Zenon DEF IInv, TypeOK
    <3>5. \A f \in Files : slot'.versions[f] <= text[f]
      BY <3>2, <3>3, <3>4, SMTT(30) DEF None
    <3> QED BY <3>1, <3>3, <3>5, SMTT(30) DEF SendChange, Whole
  <2> QED BY <2>1, <2>2, Zenon
<1>2. TypeOK'
  BY <1>1, SMTT(30) DEF IInv, TypeOK
<1>3. RequestsWritten' /\ Settled'
  BY <1>1, Zenon DEF IInv, RequestsWritten, Settled
<1>4. ParsedCurrent' /\ CachesNotAhead' /\ CachesInStep'
  BY <1>1, Zenon DEF IInv, ParsedCurrent, CachesNotAhead, EntryNotAhead, CachesInStep, Agree
<1> QED BY <1>2, <1>3, <1>4, SMTT(30) DEF IInv

-----------------------------------------------------------------------------
(* The steps of the compilation thread.                                    *)
\* The thread takes a request and clones the session's engines.
LEMMA ReceiveIInv ==
  ASSUME IInv, Receive PROVE IInv'
<1> USE DEF edits, files, thread, display
<1>1. TypeOK'
  <2>1. parsed' \in Texts /\ result' \in [program : Programs, reused : BOOLEAN]
    BY ConstantsOK, Zenon DEF Receive
  <2>2. slot' \in Requests /\ job' \in Requests /\ work' \in Engines
    BY ConstantsOK, Zenon DEF IInv, TypeOK, Receive
  <2> QED BY <2>1, <2>2, Zenon DEF IInv, TypeOK, Receive
<1>2. RequestsWritten' /\ Settled'
  <2>1. \A f \in Files : text[f] \in Nat /\ NoRequest.versions[f] = 0
    BY Zenon DEF IInv, TypeOK, NoRequest, None
  <2>2. Settled'
    BY Zenon DEF IInv, Settled, Receive
  <2>3. \A f \in Files : slot'.versions[f] <= text'[f] /\ job'.versions[f] <= text'[f]
    <3>1. slot' = NoRequest /\ job' = slot /\ text' = text
      BY Zenon DEF Receive
    <3>2. \A f \in Files : slot.versions[f] <= text[f]
      BY Zenon DEF IInv, RequestsWritten
    <3> QED BY <2>1, <3>1, <3>2, SMTT(30)
  <2>4. UNCHANGED <<created, creating, text>>
    BY Zenon DEF Receive
  <2> QED BY <2>2, <2>3, <2>4, Zenon DEF IInv, RequestsWritten
<1>3. ParsedCurrent'
  BY Zenon DEF Receive, ParsedCurrent, Nothing
<1>4. CachesNotAhead'
  BY Zenon DEF IInv, Receive, CachesNotAhead, EntryNotAhead
<1>5. CachesInStep'
  BY Zenon DEF IInv, Receive, CachesInStep, Agree
<1> QED BY <1>1, <1>2, <1>3, <1>4, <1>5, SMTT(30) DEF IInv

\* pkg::check reads the entry file.
LEMMA ReadEntryIInv ==
  ASSUME IInv, ReadEntry PROVE IInv'
<1> USE DEF edits, files, thread, display
<1>1. /\ parsed' \in Texts
      /\ \A f \in Files : parsed'[f] # None => parsed'[f] = disk[f]
      /\ \A f \in Subs : parsed'[f] = None
  <2>1. disk[Root] \in Nat
    BY ConstantsOK, SMTT(30) DEF IInv, TypeOK, Texts
  <2>2. PICK contents \in {disk[Root], None} : parsed' = [Nothing EXCEPT ![Root] = contents]
    BY Zenon DEF ReadEntry
  <2> QED BY <2>1, <2>2, ConstantsOK, FilesAssumption, SMTT(30) DEF Nothing, Texts
<1>2. TypeOK'
  BY <1>1, Zenon DEF IInv, TypeOK, ReadEntry
<1>3. RequestsWritten' /\ Settled' /\ ParsedCurrent'
  BY <1>1, Zenon DEF IInv, ReadEntry, RequestsWritten, Settled, ParsedCurrent
<1>4. CachesNotAhead'
  BY Zenon DEF IInv, ReadEntry, CachesNotAhead, EntryNotAhead
<1>5. CachesInStep'
  BY <1>1, Zenon DEF IInv, ReadEntry, CachesInStep, Agree
<1> QED BY <1>2, <1>3, <1>4, <1>5, SMTT(30) DEF IInv

\* A check that reuses the cached program changes no cache.
LEMMA ReuseIInv ==
  ASSUME IInv, Reuse PROVE IInv'
<1> USE DEF edits, files, thread, display
<1>1. TypeOK'
  <2>1. work.programs \in Programs
    BY Zenon DEF IInv, TypeOK, Engines
  <2> QED BY <2>1, Zenon DEF IInv, TypeOK, Reuse
<1>2. RequestsWritten' /\ Settled' /\ ParsedCurrent' /\ CachesNotAhead'
  BY Zenon DEF IInv, Reuse, RequestsWritten, Settled, ParsedCurrent, CachesNotAhead, EntryNotAhead
<1>3. CachesInStep'
  BY Zenon DEF IInv, Reuse, CachesInStep, Agree
<1> QED BY <1>1, <1>2, <1>3, SMTT(30) DEF IInv

\* Parsing the root, or failing to.
LEMMA ParseRootIInv ==
  ASSUME IInv, ParseRoot PROVE IInv'
<1> USE DEF edits, files, thread, display
<1>1. TypeOK'
  BY Zenon DEF IInv, TypeOK, ParseRoot
<1>2. RequestsWritten' /\ Settled' /\ ParsedCurrent' /\ CachesNotAhead'
  BY Zenon DEF IInv, ParseRoot, RequestsWritten, Settled, ParsedCurrent, CachesNotAhead, EntryNotAhead
<1>3. CachesInStep'
  BY Zenon DEF IInv, ParseRoot, CachesInStep, Agree
<1> QED BY <1>1, <1>2, <1>3, SMTT(30) DEF IInv

\* The clone's caches with f's entry primed, and not ahead.
PrimedWith(engines, f, source, dependencies) ==
  /\ engines \in Engines /\ engines.programs = work.programs
  /\ engines.modules[f].text = source
  /\ engines.modules[f].dependencies = dependencies
  /\ \A g \in Files \ {f} : engines.modules[g] = work.modules[g]
  /\ Whole => \A g \in Files : EntryNotAhead(g, engines.modules[g])

(* Priming a module's entry keeps the caches well formed; with a text that *)
(* has the request's version it keeps them from claiming too much.         *)
LEMMA CacheParsedFacts ==
  ASSUME TypeOK, CachesNotAhead, NEW f \in Files, NEW source \in Nat,
         NEW dependencies \in SUBSET Subs, Whole => job.versions[f] <= source
  PROVE  PrimedWith(CacheParsed(f, source, dependencies), f, source, dependencies)
<1> DEFINE engines == CacheParsed(f, source, dependencies)
           entry == [there |-> TRUE, text |-> source, mtime |-> modified[f],
                     version |-> job.versions[f], dependencies |-> dependencies,
                     typed |-> work.modules[f].typed]
           modules == [work.modules EXCEPT ![f] = entry]
<1>1. work.modules \in [Files -> Entries] /\ work.programs \in Programs
  BY Zenon DEF TypeOK, Engines
<1>2. work.modules[f].typed \in Typed /\ modified[f] \in Nat /\ job.versions[f] \in Nat
  BY <1>1, Zenon DEF TypeOK, Entries, Requests, Texts
<1>3. entry \in Entries /\ entry.text = source /\ entry.dependencies = dependencies
  BY <1>2, Zenon DEF Entries
<1>4. engines = [modules |-> modules, programs |-> work.programs]
  BY Zenon DEF CacheParsed, Primed
<1>5. Whole => EntryNotAhead(f, entry)
  <2>1. Whole => EntryNotAhead(f, work.modules[f])
    BY Zenon DEF CachesNotAhead
  <2> QED BY <2>1, Zenon DEF EntryNotAhead
<1> HIDE DEF entry, engines
<1>6. /\ modules \in [Files -> Entries] /\ modules[f] = entry
      /\ \A g \in Files \ {f} : modules[g] = work.modules[g]
  BY <1>1, <1>3, Zenon
<1> HIDE DEF modules
<1>7. engines.modules = modules /\ engines.programs = work.programs
  BY <1>4, Zenon
<1>8. engines \in Engines
  BY <1>1, <1>4, <1>6, Zenon DEF Engines
<1>9. Whole => \A g \in Files : EntryNotAhead(g, modules[g])
  BY <1>5, <1>6, Zenon DEF CachesNotAhead
<1>10. PrimedWith(engines, f, source, dependencies)
  BY <1>3, <1>6, <1>7, <1>8, <1>9, Zenon DEF PrimedWith
<1> QED BY <1>10, SMTT(30) DEF engines

\* Parsing a submodule, and caching it, or failing to.
LEMMA ParseSubmoduleIInv ==
  ASSUME IInv, NEW f \in Subs, ParseSubmodule(f) PROVE IInv'
<1> USE DEF edits, files, thread, display
<1>1. CASE ~Parses(f)
  <2>1. TypeOK'
    BY <1>1, Zenon DEF IInv, TypeOK, ParseSubmodule
  <2>2. RequestsWritten' /\ Settled' /\ ParsedCurrent' /\ CachesNotAhead'
    BY <1>1, Zenon DEF IInv, ParseSubmodule, RequestsWritten, Settled, ParsedCurrent, CachesNotAhead, EntryNotAhead
  <2>3. CachesInStep'
    <3>1. UNCHANGED <<work, parsed, session, stage, job, result, shown>>
      BY <1>1, Zenon DEF ParseSubmodule
    <3> QED BY <3>1, Zenon DEF IInv, CachesInStep, Agree
  <2> QED BY <2>1, <2>2, <2>3, SMTT(30) DEF IInv
<1>2. CASE Parses(f)
  <2>1. f \in Files /\ f # Root /\ disk[f] \in Nat
    BY FilesAssumption, ConstantsOK, Zenon DEF IInv, TypeOK, Texts
  <2>2. Whole => job.versions[f] <= disk[f]
    BY <2>1, Zenon DEF IInv, RequestsWritten, Settled
  <2>3. parsed' = [parsed EXCEPT ![f] = disk[f]] /\ work' = CacheParsed(f, disk[f], {})
    BY <1>2, Zenon DEF ParseSubmodule
  <2>4. /\ work' \in Engines /\ work'.modules[f].text = disk[f]
        /\ \A g \in Files \ {f} : work'.modules[g] = work.modules[g]
        /\ Whole => \A g \in Files : EntryNotAhead(g, work'.modules[g])
    <3>1. TypeOK /\ CachesNotAhead /\ {} \in SUBSET Subs
      BY SMTT(30) DEF IInv
    <3>2. PrimedWith(CacheParsed(f, disk[f], {}), f, disk[f], {})
      BY <2>1, <2>2, <3>1, CacheParsedFacts, Zenon
    <3>3. PrimedWith(work', f, disk[f], {})
      BY <2>3, <3>2, Zenon
    <3> QED BY <3>3, Zenon DEF PrimedWith
  <2>5. /\ parsed' \in Texts /\ parsed'[f] = disk[f]
        /\ \A g \in Files \ {f} : parsed'[g] = parsed[g]
    BY <2>1, <2>3, Zenon DEF IInv, TypeOK, Texts
  <2>6. stage = "parse" /\ UNCHANGED <<edits, slot, session, stage, job, result, display>>
    BY Zenon DEF ParseSubmodule
  <2>7. TypeOK'
    <3>1. parsed'[Root] = parsed[Root]
      BY <2>1, <2>5, ConstantsOK, Zenon
    <3> QED BY <2>4, <2>5, <3>1, Zenon DEF IInv, TypeOK, ParseSubmodule
  <2>8. RequestsWritten' /\ Settled'
    BY <2>6, Zenon DEF IInv, RequestsWritten, Settled
  <2>9. ParsedCurrent'
    BY <2>2, <2>5, <2>6, Zenon DEF IInv, ParsedCurrent
  <2>10. CachesNotAhead'
    BY <2>4, <2>6, Zenon DEF IInv, CachesNotAhead, EntryNotAhead
  <2>11. CachesInStep'
    <3>1. shown' = session'.programs /\ Agree(session)'
      BY <2>6, Zenon DEF IInv, CachesInStep, Agree
    <3>2. \A g \in Subs : parsed[g] # None => work.modules[g].text = parsed[g]
      BY <2>6, Zenon DEF IInv, CachesInStep
    <3>3. \A g \in Subs : parsed'[g] # None => work'.modules[g].text = parsed'[g]
      BY <2>4, <2>5, <3>2, ConstantsOK, Zenon
    <3> QED BY <2>6, <3>1, <3>3, Zenon DEF CachesInStep
  <2> QED BY <2>7, <2>8, <2>9, <2>10, <2>11, SMTT(30) DEF IInv
<1> QED BY <1>1, <1>2, SMTT(30)

\* The root is cached after all of its submodules.
LEMMA ParseDoneIInv ==
  ASSUME IInv, ParseDone PROVE IInv'
<1> USE DEF edits, files, thread, display
<1> DEFINE found == {f \in Subs : parsed[f] # None}
<1>1. parsed[Root] \in Nat /\ (Whole => job.versions[Root] <= parsed[Root])
  BY ConstantsOK, Zenon DEF IInv, TypeOK, Texts, ParsedCurrent, ParseDone
<1>2. /\ work' \in Engines /\ work'.modules[Root].text = parsed[Root]
      /\ work'.modules[Root].dependencies = found
      /\ \A g \in Files \ {Root} : work'.modules[g] = work.modules[g]
      /\ Whole => \A g \in Files : EntryNotAhead(g, work'.modules[g])
  <2>1. found \in SUBSET Subs
    BY SMTT(30)
  <2>2. work' = CacheParsed(Root, parsed[Root], found)
    BY Zenon DEF ParseDone
  <2>3. TypeOK /\ CachesNotAhead /\ Root \in Files
    BY ConstantsOK, SMTT(30) DEF IInv
  <2> HIDE DEF found
  <2>4. PrimedWith(CacheParsed(Root, parsed[Root], found), Root, parsed[Root], found)
    BY <1>1, <2>1, <2>3, CacheParsedFacts, Zenon
  <2>5. PrimedWith(work', Root, parsed[Root], found)
    BY <2>2, <2>4, SMTT(30)
  <2> QED BY <2>5, Zenon DEF PrimedWith
<1>3. TypeOK'
  BY <1>2, Zenon DEF IInv, TypeOK, ParseDone
<1>4. RequestsWritten' /\ Settled' /\ ParsedCurrent'
  BY Zenon DEF IInv, ParseDone, RequestsWritten, Settled, ParsedCurrent
<1>5. CachesNotAhead'
  BY <1>2, Zenon DEF IInv, ParseDone, CachesNotAhead, EntryNotAhead
<1>6. CachesInStep'
  <2>1. /\ stage = "parse" /\ stage' = "typecheck"
        /\ UNCHANGED <<session, shown, parsed>>
    BY Zenon DEF ParseDone
  <2>2. shown' = session'.programs /\ Agree(session)'
    BY <2>1, Zenon DEF IInv, CachesInStep, Agree
  <2>3. \A f \in Subs : parsed[f] # None => work.modules[f].text = parsed[f]
    BY <2>1, Zenon DEF IInv, CachesInStep
  <2>4. \A f \in Subs : f \in Files \ {Root}
    BY ConstantsOK, FilesAssumption, SMTT(30)
  <2>5. \A f \in Subs : parsed'[f] # None => work'.modules[f].text = parsed'[f]
    BY <1>2, <2>1, <2>3, <2>4, Zenon
  <2>6. /\ work'.modules[Root].text = parsed'[Root]
        /\ work'.modules[Root].dependencies = {f \in Subs : parsed'[f] # None}
    BY <1>2, <2>1, Zenon
  <2> QED BY <2>1, <2>2, <2>5, <2>6, Zenon DEF CachesInStep
<1> QED BY <1>3, <1>4, <1>5, <1>6, SMTT(30) DEF IInv

(* The type-checked modules of the clone are well formed.                  *)
LEMMA TypedModuleOK ==
  ASSUME TypeOK, NEW f \in Files PROVE work.modules[f].typed.module \in Modules
<1>1. work.modules[f] \in Entries
  BY Zenon DEF TypeOK, Engines
<1>2. work.modules[f].typed \in Typed
  BY <1>1, Zenon DEF Entries
<1> QED BY <1>2, Zenon DEF Typed

(* A module that is checked anew is well formed and has the parsed text.   *)
LEMMA CheckedFacts ==
  ASSUME TypeOK, NEW f \in Files
  PROVE  Checked(f) \in Texts /\ Checked(f)[f] = parsed[f]
<1>1. \A g \in Files : TypedText(g) \in Nat
  <2> SUFFICES ASSUME NEW g \in Files PROVE TypedText(g) \in Nat
    BY SMTT(30)
  <2>1. work.modules[g].typed.module \in Modules /\ parsed[g] \in Nat
    BY TypedModuleOK, Zenon DEF TypeOK, Texts
  <2>2. work.modules[g].typed.module[g][g] \in Nat
    BY <2>1, Zenon DEF Modules, Texts
  <2> HIDE DEF TypedFresh
  <2> QED BY <2>1, <2>2, Zenon DEF TypedText
<1>2. \A g \in Files : parsed[g] \in Nat
  BY Zenon DEF TypeOK, Texts
<1> HIDE DEF TypedText
<1> QED BY <1>1, <1>2, SMTT(30) DEF Checked, Texts, None

(* The type-checked root is well formed; when it is checked anew it has    *)
(* the parsed text.                                                        *)
LEMMA TypedRootFacts ==
  ASSUME TypeOK
  PROVE  TypedRoot \in Modules /\ (~RootTypedFresh => TypedRoot[Root][Root] = parsed[Root])
<1>1. work.modules[Root].typed.module \in Modules
  BY ConstantsOK, TypedModuleOK, Zenon
<1>2. \A f \in Files : TypedSubmodule(f) \in Texts
  <2> SUFFICES ASSUME NEW f \in Files PROVE TypedSubmodule(f) \in Texts
    BY SMTT(30)
  <2>1. work.modules[f].typed.module[f] \in Texts
    BY TypedModuleOK, Zenon DEF Modules
  <2> QED BY <2>1, CheckedFacts, Zenon DEF TypedSubmodule
<1>3. Checked(Root) \in Texts /\ Checked(Root)[Root] = parsed[Root] /\ Nothing \in Texts
  BY CheckedFacts, ConstantsOK, Zenon
<1>4. TypedRoot \in Modules
  BY <1>1, <1>2, <1>3, Zenon DEF TypedRoot, Modules
<1>5. ~RootTypedFresh => TypedRoot[Root] = Checked(Root)
  BY ConstantsOK, SMTT(30) DEF TypedRoot
<1> QED BY <1>3, <1>4, <1>5, Zenon

(* Type-checking keeps the module cache well formed and not ahead, and     *)
(* only touches what is type-checked.                                      *)
LEMMA CacheTypedFacts ==
  ASSUME IInv, stage = "typecheck", NEW f \in Files
  PROVE  /\ CacheTyped[f] \in Entries
         /\ CacheTyped[f].text = work.modules[f].text
         /\ CacheTyped[f].dependencies = work.modules[f].dependencies
         /\ Whole => EntryNotAhead(f, CacheTyped[f])
<1>1. work.modules[f] \in Entries /\ (Whole => EntryNotAhead(f, work.modules[f]))
  BY Zenon DEF IInv, TypeOK, Engines, CachesNotAhead
<1>2. CASE f \notin CheckedAnew
  <2>1. CacheTyped[f] = work.modules[f]
    BY <1>2, SMTT(30) DEF CacheTyped
  <2> QED BY <1>1, <2>1, Zenon
<1>3. CASE f \in CheckedAnew
  <2> DEFINE module == IF f = Root THEN TypedRoot ELSE [NoModules EXCEPT ![f] = Checked(f)]
             typed == [there |-> TRUE, version |-> job.versions[f], module |-> module]
  <2>1. parsed[f] # None /\ ~RootTypedFresh
    BY <1>3, Zenon DEF IInv, TypeOK, CheckedAnew
  <2>2. job.versions[f] \in Nat /\ (Whole => job.versions[f] <= parsed[f])
    BY <2>1, Zenon DEF IInv, TypeOK, Requests, ParsedCurrent
  <2>3. module \in Modules /\ module[f][f] = parsed[f]
    <3>1. CASE f = Root
      BY <2>1, <3>1, TypedRootFacts, Zenon DEF IInv
    <3>2. CASE f # Root
      BY <3>2, CheckedFacts, ConstantsOK, Zenon DEF IInv, Modules
    <3> QED BY <3>1, <3>2, Zenon
  <2>4. CacheTyped[f] = [work.modules[f] EXCEPT !.typed = typed]
    BY <1>3, SMTT(30) DEF CacheTyped
  <2> HIDE DEF module
  <2>5. typed \in Typed /\ typed.version = job.versions[f] /\ typed.module = module
    BY <2>2, <2>3, Zenon DEF Typed
  <2> HIDE DEF typed
  <2>6. CacheTyped[f] \in Entries
    BY <1>1, <2>4, <2>5, SMTT(30) DEF Entries
  <2>7. /\ CacheTyped[f].typed = typed
        /\ CacheTyped[f].version = work.modules[f].version
        /\ CacheTyped[f].text = work.modules[f].text
        /\ CacheTyped[f].dependencies = work.modules[f].dependencies
    BY <1>1, <2>4, SMTT(30) DEF Entries
  <2> QED BY <1>1, <2>2, <2>3, <2>5, <2>6, <2>7, Zenon DEF EntryNotAhead
<1> QED BY <1>2, <1>3, Zenon

(* A program made of what was parsed agrees with a module cache that has   *)
(* the texts and dependencies that were parsed.                            *)
LEMMA ProgramAgrees ==
  ASSUME IInv, stage = "typecheck", NEW typed, NEW modules,
         \A f \in Files : /\ modules[f].text = work.modules[f].text
                          /\ modules[f].dependencies = work.modules[f].dependencies,
         NEW engines,
         engines = [modules |-> modules,
                    programs |-> [there |-> TRUE, parsed |-> parsed, typed |-> typed]]
  PROVE  Agree(engines)
<1>1. /\ engines.modules = modules /\ engines.programs.there
      /\ engines.programs.parsed = parsed
  BY Zenon
<1>2. /\ work.modules[Root].text = parsed[Root]
      /\ work.modules[Root].dependencies = {f \in Subs : parsed[f] # None}
      /\ \A f \in Subs : parsed[f] # None => work.modules[f].text = parsed[f]
  BY Zenon DEF IInv, CachesInStep
<1>3. /\ modules[Root].text = parsed[Root]
      /\ modules[Root].dependencies = {f \in Subs : parsed[f] # None}
      /\ \A f \in Subs : parsed[f] # None => modules[f].text = parsed[f]
  BY <1>2, ConstantsOK, Zenon
<1>4. \A f \in {Root} \cup modules[Root].dependencies : modules[f].text = parsed[f]
  BY <1>3, Zenon
<1> QED BY <1>1, <1>4, Zenon DEF Agree

\* Type checking caches the typed modules and the program.
LEMMA TypeCheckIInv ==
  ASSUME IInv, TypeCheck PROVE IInv'
<1> USE DEF edits, files, thread, display
<1> DEFINE program == [there |-> TRUE, parsed |-> parsed, typed |-> TypedRoot]
<1>1. program \in Programs
  BY TypedRootFacts, Zenon DEF IInv, TypeOK, Programs
<1>2. /\ stage = "typecheck" /\ stage' = "publish"
      /\ work' = [modules |-> CacheTyped, programs |-> program]
      /\ result' = [program |-> program, reused |-> FALSE]
      /\ UNCHANGED <<edits, slot, session, job, todo, parsed, display>>
  BY Zenon DEF TypeCheck
<1>3. Agree(work')
  BY <1>2, CacheTypedFacts, ProgramAgrees, Zenon
<1> HIDE DEF program
<1>4. CacheTyped \in [Files -> Entries]
  <2>1. \A f \in Files : CacheTyped[f] \in Entries
    BY <1>2, CacheTypedFacts, Zenon
  <2>2. CacheTyped = [f \in Files |-> CacheTyped[f]]
    BY SMTT(30) DEF CacheTyped
  <2> QED BY <2>1, <2>2, SMTT(30)
<1>5. work' \in Engines /\ result' \in [program : Programs, reused : BOOLEAN]
  BY <1>1, <1>2, <1>4, Zenon DEF Engines
<1>6. TypeOK'
  BY <1>2, <1>5, Zenon DEF IInv, TypeOK
<1>7. RequestsWritten' /\ Settled' /\ ParsedCurrent'
  BY <1>2, Zenon DEF IInv, RequestsWritten, Settled, ParsedCurrent
<1>8. CachesNotAhead'
  <2>1. work'.modules = CacheTyped /\ session' = session
    BY <1>2, Zenon
  <2>2. Whole => \A f \in Files : EntryNotAhead(f, work'.modules[f])
    BY <1>2, <2>1, CacheTypedFacts, Zenon
  <2> QED BY <2>1, <2>2, Zenon DEF IInv, CachesNotAhead, EntryNotAhead
<1>9. CachesInStep'
  <2>1. result'.program = work'.programs /\ ~result'.reused
    BY <1>2, Zenon
  <2> QED BY <1>2, <1>3, <2>1, Zenon DEF IInv, CachesInStep, Agree
<1> QED BY <1>6, <1>7, <1>8, <1>9, SMTT(30) DEF IInv

\* A type check that ends without a root module caches its program all the same.
LEMMA TypeCheckFailsIInv ==
  ASSUME IInv, TypeCheckFails PROVE IInv'
<1> USE DEF edits, files, thread, display
<1> DEFINE program == [there |-> TRUE, parsed |-> parsed, typed |-> NoModules]
<1>1. program \in Programs
  BY ConstantsOK, Zenon DEF IInv, TypeOK, Programs
<1>2. /\ stage = "typecheck" /\ stage' = "publish"
      /\ work' = [modules |-> work.modules, programs |-> program]
      /\ result' = [program |-> program, reused |-> FALSE]
      /\ UNCHANGED <<edits, slot, session, job, todo, parsed, display>>
  BY Zenon DEF TypeCheckFails
<1>3. Agree(work')
  BY <1>2, ProgramAgrees, Zenon
<1> HIDE DEF program
<1>4. work' \in Engines /\ result' \in [program : Programs, reused : BOOLEAN]
  BY <1>1, <1>2, Zenon DEF IInv, TypeOK, Engines
<1>5. TypeOK'
  BY <1>2, <1>4, Zenon DEF IInv, TypeOK
<1>6. RequestsWritten' /\ Settled' /\ ParsedCurrent'
  BY <1>2, Zenon DEF IInv, RequestsWritten, Settled, ParsedCurrent
<1>7. CachesNotAhead'
  <2>1. work'.modules = work.modules /\ session' = session
    BY <1>2, Zenon
  <2> QED BY <2>1, Zenon DEF IInv, CachesNotAhead, EntryNotAhead
<1>8. CachesInStep'
  <2>1. result'.program = work'.programs /\ ~result'.reused
    BY <1>2, Zenon
  <2> QED BY <1>2, <1>3, <2>1, Zenon DEF IInv, CachesInStep, Agree
<1> QED BY <1>5, <1>6, <1>7, <1>8, SMTT(30) DEF IInv

\* An aborted compilation publishes nothing.
LEMMA AbortIInv ==
  ASSUME IInv, Abort PROVE IInv'
<1> USE DEF edits, files, thread, display
<1>1. TypeOK'
  BY Zenon DEF IInv, TypeOK, Abort
<1>2. RequestsWritten' /\ Settled' /\ ParsedCurrent' /\ CachesNotAhead'
  BY Zenon DEF IInv, Abort, RequestsWritten, Settled, ParsedCurrent, CachesNotAhead, EntryNotAhead
<1>3. CachesInStep'
  BY Zenon DEF IInv, Abort, CachesInStep, Agree
<1> QED BY <1>1, <1>2, <1>3, SMTT(30) DEF IInv

\* The traversal fills the tokens.
LEMMA TraverseIInv ==
  ASSUME IInv, Traverse PROVE IInv'
<1> USE DEF edits, files, thread, display
<1>0. stage = "publish" /\ stage' \in {"traverse", "recv"}
  BY Zenon DEF Traverse
<1>1. TypeOK'
  <2>1. tokens' \in BOOLEAN
    BY Zenon DEF Traverse
  <2> QED BY <1>0, <2>1, Zenon DEF IInv, TypeOK, Traverse
<1>2. RequestsWritten' /\ Settled' /\ ParsedCurrent' /\ CachesNotAhead'
  BY Zenon DEF IInv, Traverse, RequestsWritten, Settled, ParsedCurrent, CachesNotAhead, EntryNotAhead
<1>3. CachesInStep'
  BY <1>0, Zenon DEF IInv, Traverse, CachesInStep, Agree
<1> QED BY <1>1, <1>2, <1>3, SMTT(30) DEF IInv

\* The session takes over the engines of the compilation.
LEMMA PublishIInv ==
  ASSUME IInv, Publish PROVE IInv'
<1> USE DEF edits, files, thread, display
<1>1. session' = session \/ (session' = work /\ ~result.reused)
  BY Zenon DEF Publish
<1>2. TypeOK'
  <2>1. done' \in [Files -> Nat]
    BY Zenon DEF IInv, TypeOK, Requests, Publish
  <2>2. session' \in Engines /\ shown' \in Programs
    BY <1>1, Zenon DEF IInv, TypeOK, Publish
  <2> QED BY <2>1, <2>2, Zenon DEF IInv, TypeOK, Publish
<1>3. RequestsWritten' /\ Settled' /\ ParsedCurrent'
  BY Zenon DEF IInv, Publish, RequestsWritten, Settled, ParsedCurrent
<1>4. CachesNotAhead'
  BY <1>1, Zenon DEF IInv, Publish, CachesNotAhead, EntryNotAhead
<1>5. CachesInStep'
  BY <1>1, Zenon DEF IInv, Publish, CachesInStep, Agree
<1> QED BY <1>2, <1>3, <1>4, <1>5, SMTT(30) DEF IInv

-----------------------------------------------------------------------------
(* Every step of the client and of the compilation thread keeps the        *)
(* inductive invariant.                                                    *)
LEMMA NextIInv == IInv /\ [Next]_vars => IInv'
<1> SUFFICES ASSUME IInv, [Next]_vars PROVE IInv'
  BY SMTT(30)
<1>1. CASE \E f \in Files : WriteChange(f)
  BY <1>1, WriteChangeIInv, SMTT(30)
<1>2. CASE SendOpen \/ \E change \in created : SendChange(change)
  BY <1>2, SendIInv, SMTT(30)
<1>8. CASE (\E change \in creating : CreateFile(change)) \/ \E change \in queued : FlushWrite(change)
  BY <1>8, CreateFileIInv, FlushWriteIInv, Zenon
<1>9. CASE \E f \in Files : SendSave(f) \/ CopyFile(f)
  BY <1>9, SendSaveIInv, CopyFileIInv, Zenon
<1>3. CASE Receive \/ ReadEntry \/ Reuse \/ ParseRoot
  BY <1>3, ReceiveIInv, ReadEntryIInv, ReuseIInv, ParseRootIInv, SMTT(30)
<1>4. CASE (\E f \in Subs : ParseSubmodule(f)) \/ ParseDone
  BY <1>4, ParseSubmoduleIInv, ParseDoneIInv, SMTT(30)
<1>5. CASE TypeCheck \/ TypeCheckFails
  BY <1>5, TypeCheckIInv, TypeCheckFailsIInv, SMTT(30)
<1>6. CASE Abort \/ Traverse \/ Publish
  BY <1>6, AbortIInv, TraverseIInv, PublishIInv, SMTT(30)
<1>7. CASE UNCHANGED vars
  <2> USE <1>7 DEF vars, edits, files, thread, display
  <2>1. TypeOK'
    BY Zenon DEF IInv, TypeOK
  <2>2. RequestsWritten' /\ Settled' /\ ParsedCurrent' /\ CachesNotAhead' /\ CachesInStep'
    BY Zenon DEF IInv, RequestsWritten, Settled, ParsedCurrent, CachesNotAhead, EntryNotAhead, CachesInStep, Agree
  <2> QED BY <2>1, <2>2, Zenon DEF IInv
<1> QED BY <1>1, <1>2, <1>3, <1>4, <1>5, <1>6, <1>7, <1>8, <1>9, Zenon DEF Next

(* The inductive invariant holds in every reachable state, for every       *)
(* package and every number of edits.                                      *)
THEOREM Invariance == Spec => []IInv
BY InitIInv, NextIInv, PTL DEF Spec

(* The caches, requests and files always have their types.                 *)
THEOREM TypeCorrect == Spec => []TypeOK
<1>1. IInv => TypeOK
  BY SMTT(30) DEF IInv
<1> QED BY <1>1, Invariance, PTL

(* The program that compile_to_ast unwraps after the module cache check is *)
(* in the programs cache.                                                  *)
THEOREM ReuseAlwaysFindsProgram == Spec => []ReuseFindsProgram
<1>1. IInv => ReuseFindsProgram
  BY Zenon DEF IInv, CachesInStep, Agree, ReuseFindsProgram, UpToDate, ParseFresh
<1> QED BY <1>1, Invariance, PTL

(* The module cache, the programs cache and what the session shows are of  *)
(* one compilation, even if files are read half-written.                   *)
THEOREM CachesAlwaysAgree == Spec => []CachesAgree
<1>1. IInv => CachesAgree
  BY SMTT(30) DEF IInv, CachesInStep, Agree, CachesAgree
<1> QED BY <1>1, Invariance, PTL

(* If writes are seen whole and no unsaved edit is overwritten, no parsed  *)
(* or type-checked cache entry of the session claims a newer version than  *)
(* the text it was made from.                                              *)
THEOREM VersionNeverAhead == ASSUME AtomicWrites, CleanSaves PROVE Spec => []VersionNotAhead
<1>1. IInv => VersionNotAhead
  BY SMTT(30) DEF IInv, Whole, CachesNotAhead, EntryNotAhead, VersionNotAhead
<1> QED BY <1>1, Invariance, PTL

-----------------------------------------------------------------------------
(* What is shown of an edit whose compilation has completed.               *)

\* The text of f in its type-checked module.
TypedOf(engines, f) == engines.modules[f].typed.module[f][f]

\* The caches of a compilation that went through: the program is the root's
\* type-checked module, made of those of the submodules, and every module has
\* a text between the versions it answers for and the document's.
Through(engines, newest, completed) ==
  /\ engines.programs.typed = engines.modules[Root].typed.module
  /\ engines.modules[Root].there => engines.modules[Root].dependencies = Subs
  /\ \A f \in Subs : engines.modules[Root].typed.module[f] = engines.modules[f].typed.module[f]
  /\ \A f \in Files : /\ engines.modules[f].version <= TypedOf(engines, f)
                      /\ completed[f] <= TypedOf(engines, f)
                      /\ TypedOf(engines, f) <= newest[f]

\* The request's versions are in the type-checked modules.
Answered(engines, request) == \A f \in Files : request.versions[f] <= TypedOf(engines, f)

\* A request that lists no files has no versions.
OpenUnversioned(request) ==
  request.kind = "open" => \A f \in Files : request.versions[f] = None

ShownInv ==
  /\ \A x \in broken : x[1] = Root
  /\ OpenUnversioned(slot) /\ OpenUnversioned(job)
  /\ \A f \in Files : parsed[f] # None /\ stage \notin {"recv", "publish", "traverse"} =>
       done[f] <= parsed[f] /\ parsed[f] <= text[f]
  /\ Through(session, text, done)
  /\ stage \in {"entry", "start"} => todo = Subs
  /\ stage \in {"parse", "typecheck"} =>
       /\ \A f \in Files : work.modules[f].typed = session.modules[f].typed
       /\ \A f \in Subs \ todo : parsed[f] # None /\ work.modules[f].version = job.versions[f]
  /\ stage = "typecheck" => todo = {} /\ work.modules[Root].version = job.versions[Root]
  /\ stage = "publish" =>
       \/ result.reused /\ Answered(session, job)
       \/ ~result.reused /\ result.program.typed[Root][Root] = None
       \/ ~result.reused /\ Through(work, text, done) /\ Answered(work, job)
  /\ stage = "traverse" =>
       \/ result.reused /\ Answered(session, job)
       \/ ~result.reused /\ Through(work, text, done) /\ Answered(work, job)

LEMMA TypedOfOK ==
  ASSUME NEW engines \in Engines, NEW f \in Files
  PROVE  /\ TypedOf(engines, f) \in Nat /\ engines.modules[f].version \in Nat
         /\ engines.modules[f].typed.version \in Nat
<1>1. engines.modules[f] \in Entries
  BY SMTT(30) DEF Engines
<1>2. engines.modules[f].typed \in Typed
  BY <1>1, Zenon DEF Entries
<1>3. engines.modules[f].typed.module \in [Files -> [Files -> Nat]]
  BY <1>2, Zenon DEF Typed, Modules, Texts
<1>4. engines.modules[f].version \in Nat /\ engines.modules[f].typed.version \in Nat
  BY <1>1, <1>2, Zenon DEF Entries, Typed
<1> QED BY <1>3, <1>4, Zenon DEF TypedOf

LEMMA FirstShown == Init => ShownInv
<1> SUFFICES ASSUME Init PROVE ShownInv
  BY SMTT(30)
<1>1. \A f \in Files : /\ session.modules[f] = NoEntry /\ NoEntry.typed.module = NoModules
                       /\ NoModules[f] = Nothing /\ Nothing[f] = 0 /\ NoEntry.version = 0
                       /\ ~NoEntry.there /\ done[f] = 0 /\ text[f] = 1
  BY Zenon DEF Init, NoEngines, NoEntry, NoTyped, NoModules, Nothing, None
<1>2. session.programs.typed = NoModules
  BY Zenon DEF Init, NoEngines, NoProgram
<1>3. Through(session, text, done)
  <2>1. Root \in Files /\ \A f \in Subs : f \in Files
    BY Zenon DEF Files
  <2>2. \A f \in Files : TypedOf(session, f) = 0
    BY <1>1, Zenon DEF TypedOf
  <2>3. \A f \in Files : 0 <= 0 /\ 0 <= text[f]
    BY <1>1, SMTT(30)
  <2>4. ~session.modules[Root].there /\ session.programs.typed = session.modules[Root].typed.module
    BY <1>1, <1>2, <2>1, Zenon
  <2>5. \A f \in Subs : session.modules[Root].typed.module[f] = session.modules[f].typed.module[f]
    BY <1>1, <2>1, Zenon
  <2> QED BY <1>1, <2>2, <2>3, <2>4, <2>5, Zenon DEF Through
<1>4. /\ broken = {} /\ stage = "recv" /\ slot.kind = "none" /\ job.kind = "none"
  BY Zenon DEF Init, NoRequest
<1> QED BY <1>3, <1>4, Zenon DEF ShownInv, OpenUnversioned

\* A document that grows takes nothing back.
LEMMA ThroughGrows ==
  ASSUME NEW e \in Engines, NEW completed, NEW old \in [Files -> Nat], NEW new \in [Files -> Nat],
         Through(e, old, completed), \A f \in Files : old[f] <= new[f]
  PROVE  Through(e, new, completed)
<1> SUFFICES ASSUME NEW f \in Files PROVE TypedOf(e, f) <= new[f]
  BY Zenon DEF Through
<1>1. TypedOf(e, f) \in Nat /\ old[f] \in Nat /\ new[f] \in Nat /\ old[f] <= new[f]
  BY TypedOfOK, Zenon
<1>2. TypedOf(e, f) <= old[f]
  BY Zenon DEF Through
<1> QED BY <1>1, <1>2, SMTT(30)

\* What the client and the handlers do leaves the thread alone.
LEMMA ClientShown ==
  ASSUME IInv, IInv', ShownInv, UNCHANGED <<session, thread, display>>,
         \A f \in Files : text[f] <= text'[f],
         \A x \in broken' : x[1] = Root,
         OpenUnversioned(slot')
  PROVE  ShownInv'
<1>1. /\ session \in Engines /\ work \in Engines
      /\ text \in [Files -> Nat] /\ text' \in [Files -> Nat]
  BY Zenon DEF IInv, TypeOK
<1>2. /\ Through(session, text, done) => Through(session, text', done)
      /\ Through(work, text, done) => Through(work, text', done)
  BY <1>1, ThroughGrows, Zenon
<1>3. \A f \in Files : parsed[f] <= text[f] => parsed[f] <= text'[f]
  BY <1>1, SMTT(30) DEF IInv, TypeOK, Texts
<1> QED BY <1>2, <1>3, Zenon DEF ShownInv, thread, display

LEMMA ClientStepShown ==
  ASSUME Whole, Breakable \subseteq {Root}, IInv, IInv', ShownInv,
         \/ \E f \in Files : WriteChange(f) \/ SendSave(f) \/ CopyFile(f)
         \/ \E change \in creating : CreateFile(change)
         \/ \E change \in created : SendChange(change)
         \/ \E change \in queued : FlushWrite(change)
         \/ SendOpen
  PROVE  ShownInv'
<1> USE DEF edits, files, thread, display
<1>1. ASSUME NEW f \in Files, WriteChange(f) PROVE ShownInv'
  <2>1. text' = [text EXCEPT ![f] = @ + 1] /\ text \in [Files -> Nat \ {0}]
    BY <1>1, Zenon DEF WriteChange, IInv, TypeOK
  <2>2. \A g \in Files : text[g] <= text'[g]
    BY <2>1, SMTT(30)
  <2>3. \A x \in broken' : x[1] = Root
    <3>1. broken' = broken \/ (f \in Breakable /\ broken' = broken \cup {<<f, text[f] + 1>>})
      BY <1>1, Zenon DEF WriteChange
    <3>2. \A x \in broken : x[1] = Root
      BY Zenon DEF ShownInv
    <3> QED BY <3>1, <3>2, SMTT(30)
  <2>4. UNCHANGED <<session, thread, display>> /\ OpenUnversioned(slot')
    BY <1>1, Zenon DEF WriteChange, ShownInv, OpenUnversioned
  <2> QED BY <2>2, <2>3, <2>4, ClientShown, Zenon
<1>2. ASSUME text' = text, broken' = broken, UNCHANGED <<session, thread, display>>,
             OpenUnversioned(slot')
      PROVE  ShownInv'
  <2>1. \A g \in Files : text[g] <= text'[g]
    <3>1. text \in [Files -> Nat \ {0}]
      BY Zenon DEF IInv, TypeOK
    <3> QED BY <1>2, <3>1, SMTT(30)
  <2> QED BY <1>2, <2>1, ClientShown, Zenon DEF ShownInv
<1>3. ASSUME NEW f \in Files, SendSave(f) PROVE ShownInv'
  <2>1. slot' = SaveRequest
    BY <1>3, Zenon DEF SendSave, Whole
  <2>2. OpenUnversioned(slot')
    BY <2>1, SMTT(30) DEF SaveRequest, OpenUnversioned
  <2> QED BY <1>2, <1>3, <2>2, Zenon DEF SendSave
<1>4. ASSUME NEW change \in created, SendChange(change) PROVE ShownInv'
  BY <1>2, <1>4, Zenon DEF SendChange, OpenUnversioned
<1>5. ASSUME SendOpen PROVE ShownInv'
  BY <1>2, <1>5, Zenon DEF SendOpen, OpenUnversioned
<1>6. creating = {} /\ queued = {} /\ \A f \in Files : ~CopyFile(f)
  BY Zenon DEF IInv, Settled, Synced, CopyFile
<1> QED BY <1>1, <1>3, <1>4, <1>5, <1>6, Zenon
\* The document is on disk, and what a compilation completed for is in it.
LEMMA DiskCurrent ==
  ASSUME Whole, IInv, ShownInv, NEW f \in Files
  PROVE  disk[f] = text[f] /\ text[f] \in Nat \ {0} /\ done[f] \in Nat /\ done[f] <= text[f]
<1>1. /\ disk[f] = text[f] /\ text[f] \in Nat \ {0} /\ done[f] \in Nat
      /\ session \in Engines
  BY Zenon DEF IInv, Settled, TypeOK
<1>2. TypedOf(session, f) \in Nat
  BY <1>1, TypedOfOK, Zenon
<1>3. done[f] <= TypedOf(session, f) /\ TypedOf(session, f) <= text[f]
  BY Zenon DEF ShownInv, Through
<1> QED BY <1>1, <1>2, <1>3, SMTT(30)

LEMMA ReceiveShown ==
  ASSUME ShownInv, Receive PROVE ShownInv'
<1>1. \A f \in Files : parsed'[f] = None
  BY Zenon DEF Receive, Nothing
<1>2. OpenUnversioned(slot') /\ OpenUnversioned(job')
  BY Zenon DEF Receive, ShownInv, OpenUnversioned, NoRequest
<1>3. /\ stage' = "entry" /\ todo' = Subs
      /\ UNCHANGED <<broken, session, text, done>>
  BY Zenon DEF Receive, edits, display
<1> QED BY <1>1, <1>2, <1>3, Zenon DEF ShownInv

LEMMA ReadEntryShown ==
  ASSUME Whole, IInv, ShownInv, ReadEntry PROVE ShownInv'
<1>1. /\ stage = "entry" /\ stage' = "start"
      /\ UNCHANGED <<broken, session, text, done, slot, job, todo>>
  BY Zenon DEF ReadEntry, edits, display
<1>2. parsed' = [Nothing EXCEPT ![Root] = IF Parses(Root) THEN disk[Root] ELSE None]
  BY Zenon DEF ReadEntry
<1>3. \A f \in Files : parsed'[f] # None => f = Root /\ parsed'[f] = disk[f]
  BY <1>2, Zenon DEF Nothing
<1>4. \A f \in Files : parsed'[f] # None => done[f] <= parsed'[f] /\ parsed'[f] <= text[f]
  BY <1>3, DiskCurrent, SMTT(30)
<1> QED BY <1>1, <1>4, Zenon DEF ShownInv

LEMMA ReuseShown ==
  ASSUME IInv, ShownInv, Reuse PROVE ShownInv'
<1>1. /\ stage = "start" /\ stage' = "publish" /\ UpToDate /\ result'.reused
      /\ UNCHANGED <<broken, session, text, done, slot, job, todo, parsed, work>>
  BY Zenon DEF Reuse, edits, display
<1>2. Answered(session, job)
  <2> SUFFICES ASSUME NEW f \in Files PROVE job.versions[f] <= TypedOf(session, f)
    BY Zenon DEF Answered
  <2>1. work = session /\ session \in Engines /\ job.versions[f] \in Nat
    BY <1>1, Zenon DEF IInv, CachesInStep, TypeOK, Requests
  <2>2. session.modules[f].version <= TypedOf(session, f)
    BY Zenon DEF ShownInv, Through
  <2>3. ParseFresh(f)
    <3>1. ParseFresh(Root) /\ session.modules[Root].there
      BY <1>1, <2>1, Zenon DEF UpToDate, ParseFresh
    <3>2. session.modules[Root].dependencies = Subs
      BY <3>1, Zenon DEF ShownInv, Through
    <3> QED BY <1>1, <2>1, <3>1, <3>2, Zenon DEF UpToDate, Files
  <2>4. job.versions[f] = None \/ job.versions[f] <= session.modules[f].version
    <3>1. job.kind = "open" => job.versions[f] = None
      BY Zenon DEF ShownInv, OpenUnversioned
    <3>2. job.kind # "open" => Covers(session.modules[f].version, f)
      BY <2>1, <2>3, Zenon DEF ParseFresh
    <3> QED BY <3>1, <3>2, Zenon DEF Covers
  <2>5. TypedOf(session, f) \in Nat /\ session.modules[f].version \in Nat
    BY <2>1, TypedOfOK, Zenon
  <2> QED BY <2>1, <2>2, <2>4, <2>5, SMTT(30) DEF None
<1> QED BY <1>1, <1>2, Zenon DEF ShownInv

LEMMA ParseRootShown ==
  ASSUME IInv, ShownInv, ParseRoot PROVE ShownInv'
<1>1. /\ stage = "start" /\ stage' \in {"parse", "recv"}
      /\ UNCHANGED <<broken, session, text, done, slot, job, todo, parsed, work>>
  BY Zenon DEF ParseRoot, edits, display
<1>2. work = session /\ todo = Subs
  BY <1>1, Zenon DEF IInv, CachesInStep, ShownInv
<1> QED BY <1>1, <1>2, Zenon DEF ShownInv

\* These engines are those of the compilation with f's entry primed.
PrimedOnly(engines, f) ==
  /\ engines.modules[f].version = job.versions[f]
  /\ \A g \in Files : engines.modules[g].typed = work.modules[g].typed
  /\ \A g \in Files \ {f} : engines.modules[g] = work.modules[g]

\* An entry that is primed has the request's version and the typed module it had.
LEMMA CacheParsedKeeps ==
  ASSUME TypeOK, NEW f \in Files, NEW source, NEW dependencies
  PROVE  PrimedOnly(CacheParsed(f, source, dependencies), f)
<1> DEFINE entry == [there |-> TRUE, text |-> source, mtime |-> modified[f],
                     version |-> job.versions[f], dependencies |-> dependencies,
                     typed |-> work.modules[f].typed]
           engines == CacheParsed(f, source, dependencies)
<1>1. engines.modules = [work.modules EXCEPT ![f] = entry]
  BY Zenon DEF CacheParsed, Primed
<1>2. entry.version = job.versions[f] /\ entry.typed = work.modules[f].typed
  BY Zenon
<1>3. DOMAIN work.modules = Files
  BY Zenon DEF TypeOK, Engines
<1> HIDE DEF entry, engines
<1> QED BY <1>1, <1>2, <1>3, Zenon DEF engines, PrimedOnly

LEMMA ParseSubmoduleShown ==
  ASSUME Whole, IInv, ShownInv, NEW f \in Subs, ParseSubmodule(f) PROVE ShownInv'
<1>1. f \in Files /\ f # Root /\ disk[f] = text[f] /\ text[f] \in Nat \ {0} /\ done[f] <= text[f]
  BY DiskCurrent, FilesAssumption, Zenon DEF Files
<1>2. Parses(f)
  BY <1>1, Zenon DEF Parses, ShownInv, Empty
<1>3. /\ stage = "parse" /\ stage' = "parse" /\ todo' = todo \ {f}
      /\ parsed' = [parsed EXCEPT ![f] = disk[f]] /\ work' = CacheParsed(f, disk[f], {})
      /\ UNCHANGED <<broken, session, text, done, slot, job>>
  BY <1>2, Zenon DEF ParseSubmodule, edits, display
<1>4. /\ work'.modules[f].version = job.versions[f]
      /\ \A g \in Files : work'.modules[g].typed = work.modules[g].typed
      /\ \A g \in Files \ {f} : work'.modules[g] = work.modules[g]
  <2>1. PrimedOnly(CacheParsed(f, disk[f], {}), f)
    BY <1>1, CacheParsedKeeps, Zenon DEF IInv
  <2> QED BY <1>3, <2>1, Zenon DEF PrimedOnly
<1>5. parsed'[f] = text[f] /\ \A g \in Files \ {f} : parsed'[g] = parsed[g]
  BY <1>1, <1>3, Zenon DEF IInv, TypeOK, Texts
<1>a. /\ \A g \in Files : parsed[g] # None => done[g] <= parsed[g] /\ parsed[g] <= text[g]
      /\ \A g \in Subs \ todo : parsed[g] # None /\ work.modules[g].version = job.versions[g]
  BY <1>3, Zenon DEF ShownInv
<1>6. \A g \in Files : parsed'[g] # None => done[g] <= parsed'[g] /\ parsed'[g] <= text[g]
  BY <1>1, <1>5, <1>a, SMTT(30)
<1>7. \A g \in Subs \ todo' : parsed'[g] # None /\ work'.modules[g].version = job.versions[g]
  <2>1. parsed'[f] # None
    BY <1>1, <1>5, SMTT(30) DEF None
  <2>2. \A g \in Subs \ todo' : g = f \/ (g \in Subs \ todo /\ g \in Files \ {f})
    BY <1>3, Zenon DEF Files
  <2> QED BY <1>4, <1>5, <1>a, <2>1, <2>2, Zenon
<1>8. \A g \in Files : work'.modules[g].typed = session.modules[g].typed
  BY <1>3, <1>4, Zenon DEF ShownInv
<1> QED BY <1>3, <1>6, <1>7, <1>8, Zenon DEF ShownInv

LEMMA ParseDoneShown ==
  ASSUME IInv, ShownInv, ParseDone PROVE ShownInv'
<1> DEFINE found == {f \in Subs : parsed[f] # None}
<1>1. /\ stage = "parse" /\ stage' = "typecheck" /\ todo = {}
      /\ work' = CacheParsed(Root, parsed[Root], found)
      /\ UNCHANGED <<broken, session, text, done, slot, job, todo, parsed>>
  BY Zenon DEF ParseDone, edits, display
<1> HIDE DEF found
<1>2. /\ work'.modules[Root].version = job.versions[Root]
      /\ \A g \in Files : work'.modules[g].typed = work.modules[g].typed
      /\ \A g \in Files \ {Root} : work'.modules[g] = work.modules[g]
  <2>1. PrimedOnly(CacheParsed(Root, parsed[Root], found), Root)
    BY CacheParsedKeeps, Zenon DEF IInv, Files
  <2> QED BY <1>1, <2>1, Zenon DEF PrimedOnly
<1>3. \A g \in Subs : parsed'[g] # None /\ work'.modules[g].version = job.versions[g]
  BY <1>1, <1>2, FilesAssumption, Zenon DEF ShownInv, Files
<1>4. \A g \in Files : work'.modules[g].typed = session.modules[g].typed
  BY <1>1, <1>2, Zenon DEF ShownInv
<1> QED BY <1>1, <1>2, <1>3, <1>4, Zenon DEF ShownInv

\* A compilation that ends without a root module, or is abandoned, changes nothing.
LEMMA DroppedShown ==
  ASSUME ShownInv, TypeCheckFails \/ Abort PROVE ShownInv'
<1>1. UNCHANGED <<broken, session, text, done, slot, job, todo, parsed>>
  BY Zenon DEF TypeCheckFails, Abort, edits, display
<1>2. CASE Abort
  BY <1>1, <1>2, Zenon DEF Abort, ShownInv
<1>3. CASE TypeCheckFails
  <2>1. stage' = "publish" /\ ~result'.reused /\ result'.program.typed = NoModules
    BY <1>3, Zenon DEF TypeCheckFails
  <2>2. NoModules[Root][Root] = None
    BY ConstantsOK, Zenon DEF NoModules, Nothing
  <2> QED BY <1>1, <2>1, <2>2, Zenon DEF ShownInv
<1> QED BY <1>2, <1>3, SMTT(30)

LEMMA TraverseShown ==
  ASSUME ShownInv, Traverse PROVE ShownInv'
<1>1. /\ stage = "publish"
      /\ stage' = IF result.program.typed[Root][Root] # None THEN "traverse" ELSE "recv"
      /\ UNCHANGED <<broken, session, text, done, slot, job, todo, parsed, work, result>>
  BY Zenon DEF Traverse, edits
<1> QED BY <1>1, Zenon DEF ShownInv

\* What a compilation completes for is type-checked in the caches it leaves.
LEMMA CompletedThrough ==
  ASSUME NEW e \in Engines, NEW newest, NEW old \in [Files -> Nat], NEW request,
         Through(e, newest, old), Answered(e, request), NEW new,
         new = [f \in Files |-> IF request.versions[f] > old[f] THEN request.versions[f] ELSE old[f]]
  PROVE  Through(e, newest, new)
<1>1. \A f \in Files : new[f] = request.versions[f] \/ new[f] = old[f]
  BY Zenon
<1>2. \A f \in Files : new[f] <= TypedOf(e, f)
  BY <1>1, Zenon DEF Through, Answered
<1> QED BY <1>2, Zenon DEF Through

LEMMA PublishShown ==
  ASSUME IInv, ShownInv, Publish PROVE ShownInv'
<1>1. /\ stage = "traverse" /\ stage' = "recv"
      /\ session' = IF result.reused THEN session ELSE work
      /\ done' = [f \in Files |-> IF job.versions[f] > done[f] THEN job.versions[f] ELSE done[f]]
      /\ UNCHANGED <<broken, text, slot, job>>
  BY Zenon DEF Publish, edits
<1>2. session' \in Engines /\ done \in [Files -> Nat]
  BY <1>1, Zenon DEF IInv, TypeOK
<1>3. Through(session', text, done) /\ Answered(session', job)
  BY <1>1, Zenon DEF ShownInv
<1>4. Through(session', text, done')
  BY <1>1, <1>2, <1>3, CompletedThrough, Zenon
<1> QED BY <1>1, <1>4, Zenon DEF ShownInv
\* A module type-checked for the request, or kept from an earlier one, has its version.
LEMMA TypedTextsGood ==
  ASSUME Whole, IInv, ShownInv, stage = "typecheck", NEW f \in Files, NEW t,
         \/ t = parsed[f] /\ parsed[f] # None
         \/ t = TypedOf(work, f) /\ TypedFresh(f)
  PROVE  job.versions[f] <= t /\ done[f] <= t /\ t <= text[f]
<1>1. CASE t = parsed[f] /\ parsed[f] # None
  BY <1>1, Zenon DEF ShownInv, IInv, ParsedCurrent
<1>2. CASE t = TypedOf(work, f) /\ TypedFresh(f)
  <2>1. TypedOf(work, f) = TypedOf(session, f)
    BY Zenon DEF ShownInv, TypedOf
  <2>2. done[f] <= TypedOf(session, f) /\ TypedOf(session, f) <= text[f]
    BY Zenon DEF ShownInv, Through
  <2>3. job.versions[f] = None \/ job.versions[f] <= work.modules[f].typed.version
    BY <1>2, Zenon DEF TypedFresh, Covers, ShownInv, OpenUnversioned
  <2>4. work.modules[f].typed.version <= TypedOf(work, f)
    BY <1>2, Zenon DEF TypedFresh, IInv, CachesNotAhead, EntryNotAhead, TypedOf
  <2>5. work \in Engines /\ job.versions[f] \in Nat
    BY Zenon DEF IInv, TypeOK, Requests
  <2>6. TypedOf(work, f) \in Nat /\ work.modules[f].typed.version \in Nat
    BY <2>5, TypedOfOK, Zenon
  <2>7. job.versions[f] <= TypedOf(work, f)
    BY <2>3, <2>4, <2>5, <2>6, SMTT(30) DEF None
  <2> QED BY <1>2, <2>1, <2>2, <2>7, Zenon
<1> QED BY <1>1, <1>2, Zenon

\* The caches after type-checking, module by module.
LEMMA CacheTypedThrough ==
  ASSUME Whole, IInv, ShownInv, stage = "typecheck", NEW f \in Files
  PROVE  LET entry == CacheTyped[f]
             t == entry.typed.module[f][f] IN
         /\ entry.version = job.versions[f]
         /\ f = Root => entry.typed.module = TypedRoot /\ entry.dependencies = Subs
         /\ f # Root => TypedRoot[f] = entry.typed.module[f]
         /\ job.versions[f] <= t /\ done[f] <= t /\ t <= text[f]
<1> DEFINE entry == CacheTyped[f]
           module == IF f = Root THEN TypedRoot ELSE [NoModules EXCEPT ![f] = Checked(f)]
<1>1. /\ \A g \in Files : parsed[g] # None
      /\ work.modules[f].version = job.versions[f]
      /\ work.modules[Root].dependencies = Subs
  <2>1. /\ todo = {} /\ work.modules[Root].version = job.versions[Root]
        /\ \A g \in Subs \ todo : parsed[g] # None /\ work.modules[g].version = job.versions[g]
    BY Zenon DEF ShownInv
  <2>2. /\ parsed[Root] # None
        /\ work.modules[Root].dependencies = {g \in Subs : parsed[g] # None}
    BY Zenon DEF IInv, TypeOK, CachesInStep
  <2> QED BY <2>1, <2>2, SMTT(30) DEF Files
<1>2. work.modules[f] \in Entries
  BY Zenon DEF IInv, TypeOK, Engines
<1>3. CASE f \in CheckedAnew
  <2> DEFINE typed == [there |-> TRUE, version |-> job.versions[f], module |-> module]
  <2>1. entry = [work.modules[f] EXCEPT !.typed = typed]
    BY <1>3, SMTT(30) DEF CacheTyped
  <2>2. typed.module = module
    BY Zenon
  <2> HIDE DEF typed, module
  <2>3. /\ entry.version = job.versions[f] /\ entry.typed.module = module
        /\ entry.dependencies = work.modules[f].dependencies
    BY <1>1, <1>2, <2>1, <2>2, SMTT(30) DEF Entries
  <2>4. ~RootTypedFresh /\ (f # Root => ~TypedFresh(f) /\ f \in Subs)
    BY <1>3, Zenon DEF CheckedAnew
  <2>5. Checked(f)[f] = parsed[f]
    BY CheckedFacts, Zenon DEF IInv
  <2>6. CASE f = Root
    <3>1. module = TypedRoot /\ TypedRoot[Root] = Checked(Root)
      BY <2>4, <2>6, SMTT(30) DEF module, TypedRoot
    <3> QED BY <1>1, <2>3, <2>5, <2>6, <3>1, TypedTextsGood, Zenon
  <2>7. CASE f # Root
    <3>1. module[f] = Checked(f)
      BY <2>7, Zenon DEF module, NoModules
    <3>2. TypedRoot[f] = Checked(f)
      BY <1>1, <2>4, <2>7, SMTT(30) DEF TypedRoot, TypedSubmodule
    <3> QED BY <1>1, <2>3, <2>5, <2>7, <3>1, <3>2, TypedTextsGood, Zenon
  <2> QED BY <2>6, <2>7, Zenon
<1>4. CASE f \notin CheckedAnew
  <2>1. entry = work.modules[f]
    BY <1>4, SMTT(30) DEF CacheTyped
  <2>2. TypedFresh(f) /\ (f = Root => RootTypedFresh)
    BY <1>1, <1>4, Zenon DEF CheckedAnew, RootTypedFresh, Files
  <2>3. f = Root => TypedRoot = work.modules[Root].typed.module
    BY <2>2, SMTT(30) DEF TypedRoot
  <2>4. f # Root => TypedRoot[f] = work.modules[f].typed.module[f]
    <3>1. ASSUME f # Root PROVE /\ f \in Subs
                                /\ work.modules[Root].typed.module[f] = work.modules[f].typed.module[f]
      BY <3>1, ConstantsOK, Zenon DEF ShownInv, Through, Files
    <3>2. CASE RootTypedFresh
      BY <3>1, <3>2, Zenon DEF TypedRoot
    <3>3. CASE ~RootTypedFresh
      BY <1>1, <2>2, <3>3, Zenon DEF TypedRoot, TypedSubmodule
    <3> QED BY <3>2, <3>3, Zenon
  <2>5. LET t == TypedOf(work, f) IN job.versions[f] <= t /\ done[f] <= t /\ t <= text[f]
    BY <2>2, TypedTextsGood, Zenon
  <2> QED BY <1>1, <2>1, <2>3, <2>4, <2>5, Zenon DEF TypedOf
<1> QED BY <1>3, <1>4, Zenon

LEMMA TypeCheckShown ==
  ASSUME Whole, IInv, ShownInv, TypeCheck PROVE ShownInv'
<1>1. /\ stage = "typecheck" /\ stage' = "publish" /\ ~result'.reused
      /\ work'.modules = CacheTyped /\ work'.programs.typed = TypedRoot
      /\ UNCHANGED <<broken, session, text, done, slot, job, todo, parsed>>
  BY Zenon DEF TypeCheck, edits, display
<1>2. Through(work', text, done)
  BY <1>1, CacheTypedThrough, ConstantsOK, FilesAssumption, Zenon DEF Through, TypedOf
<1>3. Answered(work', job)
  BY <1>1, CacheTypedThrough, Zenon DEF Answered, TypedOf
<1> QED BY <1>1, <1>2, <1>3, Zenon DEF ShownInv
LEMMA NextShown ==
  ASSUME Whole, Breakable \subseteq {Root}, IInv, IInv', ShownInv, [Next]_vars
  PROVE  ShownInv'
<1>1. CASE \/ \E f \in Files : WriteChange(f) \/ SendSave(f) \/ CopyFile(f)
           \/ \E change \in creating : CreateFile(change)
           \/ \E change \in created : SendChange(change)
           \/ \E change \in queued : FlushWrite(change)
           \/ SendOpen
  BY <1>1, ClientStepShown, Zenon
<1>2. CASE Receive \/ ReadEntry \/ Reuse \/ ParseRoot
  BY <1>2, ReceiveShown, ReadEntryShown, ReuseShown, ParseRootShown, Zenon
<1>3. CASE (\E f \in Subs : ParseSubmodule(f)) \/ ParseDone \/ TypeCheck
  BY <1>3, ParseSubmoduleShown, ParseDoneShown, TypeCheckShown, Zenon
<1>4. CASE TypeCheckFails \/ Abort \/ Traverse \/ Publish
  BY <1>4, DroppedShown, TraverseShown, PublishShown, Zenon
<1>5. CASE UNCHANGED vars
  BY <1>5, Zenon DEF vars, edits, thread, display, ShownInv
<1> QED BY <1>1, <1>2, <1>3, <1>4, <1>5, Zenon DEF Next

(* Once a compilation for the newest version of a file has completed, the  *)
(* program the session shows has that version type-checked, through every  *)
(* later reuse, save, abandoned compilation and compilation for another    *)
(* file.  The freshness tests of sway-core compare versions only; this is  *)
(* what makes that enough, if writes are seen whole, no unsaved edit is    *)
(* overwritten and every submodule parses.                                 *)
THEOREM CompletedEditsShown ==
  ASSUME AtomicWrites, CleanSaves, Breakable \subseteq {Root}
  PROVE  Spec => []CompletedEditShown
<1>1. Init => ShownInv
  BY FirstShown, SMTT(30)
<1>2. IInv /\ IInv' /\ ShownInv /\ [Next]_vars => ShownInv'
  BY NextShown, Zenon DEF Whole
<1>3. IInv /\ ShownInv => CompletedEditShown
  <2> SUFFICES ASSUME IInv, ShownInv, NEW f \in Files, done[f] = text[f]
               PROVE  shown.typed[f][f] = text[f]
    BY Zenon DEF CompletedEditShown
  <2>1. /\ TypedOf(session, f) \in Nat /\ text[f] \in Nat
        /\ done[f] <= TypedOf(session, f) /\ TypedOf(session, f) <= text[f]
    BY TypedOfOK, Zenon DEF IInv, TypeOK, ShownInv, Through
  <2>2. shown.typed[f] = session.modules[f].typed.module[f]
    BY Zenon DEF IInv, CachesInStep, ShownInv, Through, Files
  <2>3. shown.typed[f][f] = TypedOf(session, f)
    BY <2>2, Zenon DEF TypedOf
  <2> QED BY <2>1, <2>3, SMTT(30)
<1> QED BY <1>1, <1>2, <1>3, Invariance, PTL DEF Spec
=============================================================================
