---------------------------- MODULE ArchBuilder ----------------------------
(*****************************************************************************)
(* The build of the architecture exercise of lab 13 (arch-                   *)
(* builder/build.sh): validate every puzzle, extract the icons they use      *)
(* (tools/icons.py), validate again and write the site (tools/build.py), or  *)
(* the last part alone. Authors edit the puzzles at any time, and a run may  *)
(* break off anywhere.                                                       *)
(*****************************************************************************)
EXTENDS PuzzleRules

CONSTANTS
    Files,          \* puzzle files
    Base,           \* a puzzle that is accepted
    Layouts, Tilings, Texts, Flows,     \* what an author may make of its parts
    MaxEdits, MaxRuns                   \* bounds

ASSUME FilesAssumption == IsFiniteSet(Files) /\ Files # {}
ASSUME BoundsAssumption == MaxEdits \in Nat /\ MaxRuns \in Nat

VARIABLES
    puzzle,     \* puzzle[f]: the puzzle in file f
    svgs,       \* the icons in dist/icons
    manifest,   \* the icons its manifest names, None without one
    app,        \* the runs that app.css and the scripts are from
    data,       \* game-data.js: its run, its puzzles and the icons drawn in it; None without one
    index,      \* the run index.html is from, 0 without one
    run,        \* the run of the build
    before,     \* history: app, data and index as the run found them
    edits       \* counts to MaxEdits

site == <<svgs, manifest, app, data, index>>
vars == <<puzzle, site, run, before, edits>>

\* number: of the run; published: --published-only; left: files or icons to come;
\* bad: errors so far; loaded: puzzles read; sprite: icons read.
Idle == [pc |-> "idle", number |-> 0, published |-> FALSE, left |-> {}, bad |-> FALSE,
         loaded |-> {}, sprite |-> {}]

Ends == {"idle", "ok", "error", "broken"}

\* The stages of a run that read, and that write to the site.
Reading == {"validate", "extract", "unlink", "icons", "load"}
Writing == {"app", "data", "index"}

Used(puzzles) == UNION {Icons(p) : p \in puzzles}

\* used_ids: icons.py also takes the answers, in the palette or not.
Wanted(puzzles) == Used(puzzles) \cup {p.tiling.accept[s] : p \in puzzles, s \in Slots}

TypeOK ==
    /\ DOMAIN puzzle = Files
    /\ svgs \subseteq Registry /\ (manifest = None \/ manifest \subseteq Registry)
    /\ app \subseteq 0..MaxRuns /\ app # {} /\ index \in 0..MaxRuns
    /\ data = None \/ data.run \in 0..MaxRuns
    /\ run.pc \in Ends \cup Reading \cup Writing
    /\ run.number \in 0..MaxRuns
    /\ run.pc \in Writing => ~run.bad /\ run.left = {}
    /\ edits \in 0..MaxEdits

Init ==
    /\ puzzle = [f \in Files |-> Base]
    /\ svgs = {} /\ manifest = None
    /\ app = {0} /\ data = None /\ index = 0
    /\ run = Idle /\ before = <<{0}, None, 0>>
    /\ edits = 0

-----------------------------------------------------------------------------

\* An author changes one part of a puzzle, or publishes it.
Edit(f) ==
    /\ edits < MaxEdits
    /\ edits' = edits + 1
    /\ \/ \E x \in Layouts : puzzle' = [puzzle EXCEPT ![f].layout = x]
       \/ \E x \in Tilings : puzzle' = [puzzle EXCEPT ![f].tiling = x]
       \/ \E x \in Texts : puzzle' = [puzzle EXCEPT ![f].text = x]
       \/ \E x \in Flows : puzzle' = [puzzle EXCEPT ![f].flow = x]
       \/ puzzle' = [puzzle EXCEPT ![f].status = "published"]
    /\ UNCHANGED <<site, run, before>>

\* build.sh, or the last part of it alone.
Start(all, published) ==
    /\ run.pc \in Ends /\ run.number < MaxRuns
    /\ published => ~all
    /\ run' = [Idle EXCEPT !.pc = IF all THEN "validate" ELSE "load", !.number = run.number + 1,
                           !.published = published, !.left = Files]
    /\ before' = <<app, data, index>>
    /\ UNCHANGED <<puzzle, site, edits>>

\* check_file.  All files are read, and their errors collected.
ReadFile(f) ==
    /\ run.pc \in {"validate", "load"} /\ f \in run.left
    /\ run' = [run EXCEPT !.left = @ \ {f}, !.bad = @ \/ ~Accepted(puzzle[f]),
                          !.loaded = @ \cup {puzzle[f]}]
    /\ UNCHANGED <<puzzle, site, before, edits>>

End(answer) == run' = [Idle EXCEPT !.pc = answer, !.number = run.number]

\* cmd_validate: build.sh goes on if no file has an error.
Validated ==
    /\ run.pc = "validate" /\ run.left = {}
    /\ IF run.bad THEN End("error") ELSE run' = [run EXCEPT !.pc = "extract", !.left = Files, !.loaded = {}]
    /\ UNCHANGED <<puzzle, site, before, edits>>

\* used_ids reads the files once more.
ReadIcons(f) ==
    /\ run.pc = "extract" /\ f \in run.left
    /\ run' = [run EXCEPT !.left = @ \ {f}, !.loaded = @ \cup {puzzle[f]}]
    /\ UNCHANGED <<puzzle, site, before, edits>>

\* extract: a service that is not in the registry ends the run.
Extract ==
    /\ run.pc = "extract" /\ run.left = {}
    /\ IF Wanted(run.loaded) \subseteq Registry
       THEN run' = [run EXCEPT !.pc = "unlink", !.left = Wanted(run.loaded), !.loaded = {}]
       ELSE End("error")
    /\ UNCHANGED <<puzzle, site, before, edits>>

\* The old icons go first, in no order; the manifest stays until the new one is written.
Unlink ==
    /\ run.pc = "unlink"
    /\ \/ \E i \in svgs : svgs' = svgs \ {i} /\ UNCHANGED run
       \/ svgs = {} /\ run' = [run EXCEPT !.pc = "icons"] /\ UNCHANGED svgs
    /\ UNCHANGED <<puzzle, manifest, app, data, index, before, edits>>

\* One after the other.
WriteIcon ==
    /\ run.pc = "icons" /\ ~run.left \subseteq svgs
    /\ svgs' = svgs \cup {CHOOSE i \in run.left : i \notin svgs}
    /\ UNCHANGED <<puzzle, manifest, app, data, index, run, before, edits>>

WriteManifest ==
    /\ run.pc = "icons" /\ run.left \subseteq svgs
    /\ manifest' = run.left
    /\ run' = [run EXCEPT !.pc = "load", !.left = Files]
    /\ UNCHANGED <<puzzle, svgs, app, data, index, before, edits>>

Chosen == {Normalized(p) : p \in {q \in run.loaded : ~run.published \/ q.status = "published"}}

\* The icons that are there are read.
Begin == run' = [run EXCEPT !.pc = "app", !.loaded = Chosen, !.sprite = Used(Chosen) \cap svgs]

\* Faulty variant: an icon the manifest names is taken to be there.
Loaded_TrustsManifest ==
    /\ run.pc = "load" /\ run.left = {}
    /\ \/ (run.bad \/ manifest = None) /\ End("error")
       \/ /\ ~run.bad /\ manifest # None
          /\ \/ ~Used(Chosen) \subseteq manifest /\ End("error")
             \/ Used(Chosen) \subseteq manifest /\ Begin
    /\ UNCHANGED <<puzzle, site, before, edits>>

\* build: any error, no manifest, or one that does not name an icon ends the run; so does, with
\* no message of its own, an icon that it names and is not there.
Loaded ==
    /\ run.pc = "load" /\ run.left = {}
    /\ \/ (run.bad \/ manifest = None) /\ End("error")
       \/ /\ ~run.bad /\ manifest # None
          /\ \/ ~Used(Chosen) \subseteq manifest /\ End("error")
             \/ ~Used(Chosen) \cap manifest \subseteq svgs /\ End("broken")
             \/ Used(Chosen) \subseteq manifest \cap svgs /\ Begin
    /\ UNCHANGED <<puzzle, site, before, edits>>

\* APP_FILES are copied one after the other.
WriteApp ==
    /\ run.pc = "app"
    /\ \/ run.number \notin app /\ app' = app \cup {run.number} /\ UNCHANGED run
       \/ app' = {run.number} /\ run' = [run EXCEPT !.pc = "data"]
    /\ UNCHANGED <<puzzle, svgs, manifest, data, index, before, edits>>

WriteData ==
    /\ run.pc = "data"
    /\ data' = [run |-> run.number, puzzles |-> run.loaded, sprite |-> run.sprite]
    /\ run' = [run EXCEPT !.pc = "index"]
    /\ UNCHANGED <<puzzle, svgs, manifest, app, index, before, edits>>

WriteIndex ==
    /\ run.pc = "index"
    /\ index' = run.number
    /\ End("ok")
    /\ UNCHANGED <<puzzle, svgs, manifest, app, data, before, edits>>

\* A package that is not there, the disk or the machine.  A page or its data cannot be used if the
\* run breaks off while it writes them.
Break ==
    /\ run.pc \in Reading \cup Writing
    /\ End("broken")
    /\ data' \in {data} \cup (IF run.pc = "data" THEN {None} ELSE {})
    /\ index' \in {index} \cup (IF run.pc = "index" THEN {0} ELSE {})
    /\ UNCHANGED <<puzzle, svgs, manifest, app, before, edits>>

Next ==
    \/ \E f \in Files : Edit(f) \/ ReadFile(f) \/ ReadIcons(f)
    \/ \E all, published \in BOOLEAN : Start(all, published)
    \/ Validated \/ Extract \/ Unlink \/ WriteIcon \/ WriteManifest
    \/ Loaded \/ WriteApp \/ WriteData \/ WriteIndex \/ Break

Spec == Init /\ [][Next]_vars

-----------------------------------------------------------------------------
(* Properties *)

Published == IF data = None THEN {} ELSE data.puzzles

\* A diagram of the site can be read, whatever was edited during the build.
DrawingsNest == \A p \in Published : Nested(p.layout)

\* An exercise of the site can be solved, and asks for each slot once, in both languages:
\* what ArchCore takes for granted of its palette.
ExercisesWork == \A p \in Published : Solvable(p.tiling) /\ AskedOnce(p.text)

\* "Cualquier error detiene el build y no se escribe nada" (build.py:8): until a run has
\* found that there is none, and when it ends with one, the site is as the run found it.
ErrorsWriteNothing == run.pc \in Reading \cup {"error"} => before = <<app, data, index>>

\* A run that succeeds leaves a site that is all its own.  One that breaks off while it writes
\* leaves parts of two, or none, and later errors keep them, but only one way round: no script
\* is older than the data it reads, and no data is older than the page.
NewestFirst ==
    /\ run.pc = "ok" => app = {run.number} /\ data.run = run.number /\ index = run.number
    /\ \A n \in app : n >= index /\ (data # None => n >= data.run)
    /\ data # None => data.run >= index

\* What is published shows every icon, though the icons of an extraction that broke off are
\* gone while its manifest still names them.
IconsAreDrawn == data # None => Used(data.puzzles) \subseteq data.sprite

\* The site is that of a run that found no error, or where one broke off of two of them.
SiteIsWhole == TypeOK /\ ErrorsWriteNothing /\ NewestFirst /\ IconsAreDrawn
=============================================================================
