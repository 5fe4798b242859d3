---------------------------- MODULE ArchSession ----------------------------
(***************************************************************************)
(* The page around the rules (app/app.js): one browser tab with one puzzle   *)
(* of interest, its keys, buttons and dialogs, the clock of a challenge, the *)
(* undo of Clear, navigation, reloads, and the one attempt kept in           *)
(* localStorage next to the record of the puzzle.                            *)
(*                                                                          *)
(* Every handler runs to its end before another starts and saves what it     *)
(* changed, so what is stored is current between handlers; only the clock    *)
(* runs ahead of what is saved.                                              *)
(***************************************************************************)
EXTENDS ArchCore

CONSTANTS
    MaxAttempts,    \* bound: submits of one attempt
    MaxRecords      \* bound: finished attempts counted in the record

ASSUME BoundsAssumption == MaxAttempts \in Nat \ {0} /\ MaxRecords \in Nat

VARIABLES
    view,       \* what is shown: the start page, the puzzle (V.p), or another puzzle
    att,        \* V.att
    mode,       \* V.mode, the mode of the attempt
    review,     \* V.review
    undo,       \* V.undo: the attempt Clear can be undone to, or nothing
    dialog,     \* the confirmation that is open
    unbanked,   \* steps of the clock since TM.since
    setting,    \* S.settings.mode
    open,       \* S.open: the attempt in localStorage
    rec,        \* S.puzzles[id]: the record of the puzzle
    helped      \* history: a hint or the answers were shown in the attempt of the puzzle

vars == <<view, att, mode, review, undo, dialog, unbanked, setting, open, rec, helped>>

Modes == {"practice", "challenge"}
Stored == [of : {"none", "this", "other"}, att : Attempts, mode : Modes, review : BOOLEAN]
Records == [attempts : Nat, best : Nat, perfects : Nat]

Nowhere == [of |-> "none", att |-> NewAttempt, mode |-> "practice", review |-> FALSE]
Elsewhere == [Nowhere EXCEPT !.of = "other"]

TypeOK ==
    /\ view \in {"start", "puzzle", "elsewhere"}
    /\ att \in Attempts
    /\ mode \in Modes
    /\ review \in BOOLEAN
    /\ undo \in SUBSET Attempts
    /\ dialog \in {"none", "submit", "clear"}
    /\ unbanked \in Nat
    /\ setting \in Modes
    /\ open \in Stored
    /\ rec \in Records
    /\ helped \in BOOLEAN

Init ==
    /\ view = "start" /\ att = NewAttempt /\ mode = "practice" /\ review = FALSE
    /\ undo = {} /\ dialog = "none" /\ unbanked = 0
    /\ setting = "practice" /\ open = Nowhere
    /\ rec = [attempts |-> 0, best |-> 0, perfects |-> 0]
    /\ helped = FALSE

-----------------------------------------------------------------------------
(* Storing the attempt *)

\* The attempt with the time on the clock.
Banked == AddElapsed(att, unbanked)

\* persistAttempt: the attempt becomes a, with its clock brought up to date, and is stored.
Save(a) ==
    /\ att' = AddElapsed(a, unbanked)
    /\ unbanked' = 0
    /\ open' = [of |-> "this", att |-> att', mode |-> mode, review |-> review']

\* finish: an attempt that is done is counted once.
Counted(a) ==
    [attempts |-> rec.attempts + 1,
     best |-> IF Score(a, mode) > rec.best THEN Score(a, mode) ELSE rec.best,
     perfects |-> rec.perfects + IF Perfect(a) THEN 1 ELSE 0]

\* A submit, a look at the answers or the end of the time: counted if done, stored.
Settle(a) ==
    /\ rec' = IF a.done /\ ~a.recorded THEN Counted(a) ELSE rec
    /\ review' = review
    /\ Save([a EXCEPT !.recorded = a.recorded \/ a.done])

-----------------------------------------------------------------------------
(* Working on the puzzle *)

Playing == view = "puzzle" /\ dialog = "none"

\* A verdict of this submit stands until another try is asked for.
JudgedNow(s) == att.result[s] # NoResult /\ att.result[s].attempt = att.attempt

\* update: the attempt and nothing else changes.
Update(a) == UNCHANGED <<view, mode, review, dialog, setting, rec, helped>> /\ Save(a)

Place(s, service) ==
    /\ Playing /\ ~JudgedNow(s) /\ CanPlace(att, s, service)
    /\ Update(Placed(att, s, service))
    /\ undo' = {}

Move(from, to) ==
    /\ Playing /\ ~JudgedNow(from) /\ ~JudgedNow(to) /\ CanMove(att, from, to)
    /\ Update(Moved(att, from, to))
    /\ undo' = {}

Remove(s) ==
    /\ Playing
    /\ att.put[s] # None /\ s \notin att.locked /\ ~JudgedNow(s)
    /\ Update(Removed(att, s))
    /\ UNCHANGED undo

\* Faulty variant: the attempt is not stored.
TakeHint_Unsaved(s) ==
    /\ Playing /\ mode = "practice"
    /\ ~att.done /\ s \notin att.locked /\ att.hints[s] < 3
    /\ helped' = TRUE
    /\ att' = Hinted(att, s)
    /\ UNCHANGED <<view, mode, review, undo, dialog, unbanked, setting, open, rec>>

TakeHint(s) ==
    /\ Playing /\ mode = "practice"
    /\ ~att.done /\ s \notin att.locked /\ att.hints[s] < 3
    /\ helped' = TRUE
    /\ UNCHANGED <<view, mode, review, undo, dialog, setting, rec>>
    /\ Save(Hinted(att, s))

\* The submit itself, when some slot that is not locked is filled.
Submission ==
    /\ CanSubmit(att)
    /\ Settle(IF mode = "challenge" THEN ChallengeSubmitted(Banked) ELSE Submitted(Banked))
    /\ undo' = {}
    /\ UNCHANGED <<view, mode, setting, helped>>

\* S, or the button: with empty slots a dialog asks first.
Submit ==
    /\ Playing /\ ~review
    /\ \A s \in Open(att) : att.put[s] # None
    /\ Submission
    /\ UNCHANGED dialog

AskSubmit ==
    /\ Playing /\ ~review /\ CanSubmit(att)
    /\ \E s \in Open(att) : att.put[s] = None
    /\ dialog' = "submit"
    /\ UNCHANGED <<view, att, mode, review, undo, unbanked, setting, open, rec, helped>>

\* Another try, or the answers, are offered after a submit that left something open.
Pending ==
    /\ ~att.done /\ ~review
    /\ \E s \in Slots : JudgedNow(s) /\ att.result[s].status # "correct"

Retry ==
    /\ Playing /\ Pending /\ att.attempt < MaxAttempts
    /\ Update(Retried(att))
    /\ UNCHANGED undo

Reveal ==
    /\ Playing /\ Pending
    /\ helped' = TRUE
    /\ Settle(Revealed(Banked))
    /\ UNCHANGED <<view, mode, undo, dialog, setting>>

-----------------------------------------------------------------------------
(* Clear, and its undo *)

AskClear ==
    /\ Playing /\ ~att.done /\ ~review
    /\ \E s \in Open(att) : att.put[s] # None
    /\ dialog' = "clear"
    /\ UNCHANGED <<view, att, mode, review, undo, unbanked, setting, open, rec, helped>>

Cancel ==
    /\ dialog # "none"
    /\ dialog' = "none"
    /\ UNCHANGED <<view, att, mode, review, undo, unbanked, setting, open, rec, helped>>

\* Yes; doSubmit and doReset look at the attempt again, which may have ended meanwhile.
ConfirmSubmit ==
    /\ dialog = "submit" /\ view = "puzzle"
    /\ dialog' = "none"
    /\ Submission

ConfirmClear ==
    /\ dialog = "clear" /\ view = "puzzle"
    /\ \E s \in Open(att) : att.put[s] # None
    /\ dialog' = "none"
    /\ undo' = {att}
    /\ UNCHANGED <<view, mode, review, setting, rec, helped>>
    /\ Save(Cleared(att))

\* The button or Ctrl+Z, which works under a dialog as well.
Undo ==
    /\ view = "puzzle" /\ rec.attempts < MaxRecords
    /\ \E a \in undo : Update(a)
    /\ undo' = {}

\* The 5 seconds of the undo are over.
UndoExpires ==
    /\ undo # {}
    /\ undo' = {}
    /\ UNCHANGED <<view, att, mode, review, dialog, unbanked, setting, open, rec, helped>>

-----------------------------------------------------------------------------
(* The clock *)

\* timerRunning, for a challenge; the timer of the practice mode only displays.
Running == view = "puzzle" /\ mode = "challenge" /\ ~att.done /\ ~review

Expired == att.elapsed + unbanked >= Budget

\* Time the page is visible; beyond the budget the exact time does not matter.
TimePasses ==
    /\ Running /\ ~Expired
    /\ unbanked' = unbanked + 1
    /\ UNCHANGED <<view, att, mode, review, undo, dialog, setting, open, rec, helped>>

\* Every twentieth tick, a tab that is hidden, a page that is left.
SaveTime ==
    /\ Running /\ unbanked > 0
    /\ Update(att)
    /\ UNCHANGED undo

\* The tick that finds the time used up, whatever dialog is open.
TimeUp ==
    /\ Running /\ Expired
    /\ Settle(TimedUp(Banked))
    /\ undo' = {}
    /\ UNCHANGED <<view, mode, dialog, setting, helped>>

-----------------------------------------------------------------------------
(* After the end, and between puzzles *)

Review(on) ==
    /\ Playing
    /\ review = ~on /\ (on => att.done)
    /\ review' = on
    /\ Save(att)
    /\ UNCHANGED <<view, mode, undo, dialog, setting, rec, helped>>

Untouched(a) == \A s \in Slots : a.put[s] = None /\ a.result[s] = NoResult

NewGame ==
    /\ rec.attempts < MaxRecords
    /\ att' = NewAttempt /\ mode' = setting /\ review' = FALSE
    /\ open' = [of |-> "this", att |-> NewAttempt, mode |-> setting, review |-> FALSE]
    /\ helped' = FALSE

Resume(wanted) ==
    /\ att' = open.att /\ mode' = wanted /\ review' = open.review
    /\ UNCHANGED <<open, helped>>

\* Faulty variant: the stored attempt goes on in the mode of the settings.
OpenPuzzle_AnyMode ==
    /\ view' = "puzzle" /\ undo' = {} /\ unbanked' = 0
    /\ IF open.of = "this" THEN Resume(setting) ELSE NewGame

\* openPuzzle: the stored attempt goes on in its own mode, unless another mode is wanted
\* and nothing would be lost.
OpenPuzzle ==
    /\ view' = "puzzle" /\ undo' = {} /\ unbanked' = 0
    /\ IF open.of = "this" /\ (open.mode = setting \/ ~(open.att.done \/ Untouched(open.att)))
       THEN Resume(open.mode)
       ELSE NewGame

\* The start page sets the mode, or a link to the page shown names it: that link reopens
\* nothing, but stores the clock as any route does.
SetMode(m) ==
    /\ dialog = "none" \/ view # "start"
    /\ setting' = m
    /\ att' = Banked /\ unbanked' = 0
    /\ open' = IF view = "puzzle" THEN [open EXCEPT !.att = Banked] ELSE open
    /\ UNCHANGED <<view, mode, review, undo, dialog, rec, helped>>

\* The page is left for another one; the attempt that stays behind is not shown.
Leave(to, stored) ==
    /\ view' = to
    /\ att' = NewAttempt /\ mode' = "practice" /\ review' = FALSE
    /\ undo' = {} /\ unbanked' = 0
    /\ open' = stored

\* By its link or the back button; the clock is stored first.
GoStart ==
    /\ view # "start"
    /\ Leave("start", IF view = "puzzle" THEN [open EXCEPT !.att = Banked] ELSE open)
    /\ UNCHANGED <<dialog, setting, rec, helped>>

\* Another puzzle takes the only place for an attempt.
GoElsewhere ==
    /\ view # "elsewhere"
    /\ Leave("elsewhere", Elsewhere)
    /\ UNCHANGED <<dialog, setting, rec, helped>>

\* Next after the last puzzle of a cloud.
EndSession ==
    /\ view # "start" /\ dialog = "none"
    /\ Leave("start", Nowhere)
    /\ UNCHANGED <<dialog, setting, rec, helped>>

GoPuzzle ==
    /\ view # "puzzle"
    /\ OpenPuzzle
    /\ UNCHANGED <<dialog, setting, rec>>

PlayAgain ==
    /\ Playing /\ att.done /\ ~review
    /\ NewGame
    /\ undo' = {} /\ unbanked' = 0
    /\ UNCHANGED <<view, dialog, setting, rec>>

\* A reload or a crash of the tab: what is stored is all that is left.  A reload stores the
\* clock first (SaveTime), a crash does not.
Restart ==
    /\ dialog' = "none"
    /\ IF view = "puzzle" THEN OpenPuzzle
       ELSE Leave(view, open) /\ UNCHANGED helped
    /\ UNCHANGED <<setting, rec>>

Next ==
    \/ \E s \in Slots :
          \/ Remove(s) \/ TakeHint(s)
          \/ \E service \in Services : Place(s, service)
          \/ \E to \in Slots : Move(s, to)
    \/ Submit \/ AskSubmit \/ ConfirmSubmit \/ Retry \/ Reveal
    \/ AskClear \/ ConfirmClear \/ Cancel \/ Undo \/ UndoExpires
    \/ TimePasses \/ SaveTime \/ TimeUp
    \/ \E on \in BOOLEAN : Review(on)
    \/ \E m \in Modes : SetMode(m)
    \/ GoStart \/ GoElsewhere \/ EndSession \/ GoPuzzle \/ PlayAgain \/ Restart

Spec == Init /\ [][Next]_vars

-----------------------------------------------------------------------------
(* Properties *)

\* No service is used more often than it has tiles, the answers shown included
\* (core.test.mjs: tiles in the palette and tiles placed make up all uses).
TilesFit == \A v \in Services : Cardinality(SlotsWith(att, v)) <= Uses(v)

\* Locks, verdicts, points and tiles agree in the attempt shown, in the one a Clear can
\* be undone to and in the one stored: a locked slot holds its answer, a judged one what
\* was judged or nothing, and an attempt is done when all is locked, and counted then.
AttemptAgrees(a) ==
    /\ \A s \in Slots :
          /\ s \in a.locked <=> a.result[s].status \in {"correct", "revealed"}
          /\ s \in a.locked => a.put[s] = Answer[s]
          /\ a.result[s].status = "correct"
                => a.result[s].points = SlotPoints(a.result[s].attempt, a.hints[s])
          /\ a.result[s].status \in {"wrong", "empty"} => a.put[s] \in {None, a.result[s].got}
          /\ a.result[s].status # "correct" => a.result[s].points = 0
          /\ a.result[s] # NoResult => a.result[s].attempt <= a.attempt
    /\ a.done <=> a.locked = Slots
    /\ a.recorded = a.done

SlotsAgree == \A a \in {att, open.att} \cup undo : AttemptAgrees(a)

\* Whatever handlers run in whatever order, every attempt kept is one the rules allow.
AttemptsAreSound == TypeOK /\ TilesFit /\ SlotsAgree

\* Every change is saved (app.js:6): what is stored is the attempt on the page.
StoredIsCurrent ==
    view = "puzzle" =>
        open = [of |-> "this", att |-> att, mode |-> mode, review |-> review]

\* A challenge has no hints and a single submit (core.js, LAB.md:293), whatever the page
\* is reloaded, left or the mode switched for.
ChallengeIsStrict ==
    mode = "challenge" =>
        /\ att.attempt = 1 /\ (Judged(att) # {} => att.done)
        /\ \A s \in Slots : att.hints[s] = 0

\* Hints rule out the perfect bonus (LAB.md:29, LAB.md:181).
PerfectIsEarned == [][rec'.perfects > rec.perfects => ~helped]_vars
=============================================================================
