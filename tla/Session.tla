-------------------------------- MODULE Session --------------------------------
(***************************************************************************)
(* The terminal session, src/userinterfaces/tui/: the event loop, the      *)
(* screens and modals it moves between, the worker threads it starts for   *)
(* locking, unlocking and verifying, and the thread that measures the      *)
(* speed of this machine in the background.                                *)
(*                                                                         *)
(* A worker is seen from the session only: it works, it may ask for a      *)
(* passphrase, and it ends with a result.  The channel from a worker holds *)
(* its requests and its result; progress messages, which never change what *)
(* the loop does next, are left out, as are focus and text fields.         *)
(***************************************************************************)
EXTENDS Naturals, Sequences

CONSTANTS Workers,    \* the worker threads there may be
          NoWorker,   \* no worker
          CanPanic    \* the kinds of worker that may panic

MAX_PASSWORD_ATTEMPTS == 3

Kinds    == {"lock", "unlock", "verify"}
Progress == {"lockProgress", "unlockProgress"}
LockForms == {"lockFileForm", "lockTextForm"}
Forms    == LockForms \cup {"unlockForm", "inspectForm", "verifyForm"}
Results  == {"lockComplete", "unlockComplete", "inspectDetails", "verifyDetails"}
Screens  == {"menu"} \cup Forms \cup Progress \cup Results
Showing  == [lock |-> "lockProgress", unlock |-> "unlockProgress", verify |-> "verifyForm"]
Outcomes == {"ok", "cancelled", "error"}

ASSUME SessionAssumption == NoWorker \notin Workers /\ CanPanic \subseteq Kinds

VARIABLES
    phase,            \* where the event loop is, "quit" once it has been left
    screen,           \* the screen it shows
    modal,            \* the dialog over the screen
    attached,         \* the worker whose channel the progress screen owns
    cancelRequested,  \* that screen's cancel_requested
    verifier,         \* app.verify_worker
    status,           \* the verification form's VerifyRunState
    job,              \* job[w]: the state of worker thread w and its channels
    prewarm,          \* the calibration thread
    held,             \* app.session_calibration_worker is Some
    rate              \* where the session's calibration rate comes from

ui      == <<screen, modal, attached, cancelRequested, verifier, status>>
calib   == <<prewarm, held, rate>>
vars    == <<phase, ui, job, calib>>

NoModal    == [kind |-> "none", worker |-> NoWorker, attempt |-> 0]
Notice     == [NoModal EXCEPT !.kind = "notice"]    \* Modal::Info, Modal::Error
Browser    == [NoModal EXCEPT !.kind = "browser"]
Prompt(w, n) == [kind |-> "prompt", worker |-> w, attempt |-> n]

NoJob == [kind |-> "none", at |-> "ended", token |-> FALSE, attempt |-> 0,
          queue |-> << >>, reply |-> "none"]

\* A message of a worker: PasswordRequired for an attempt, or Finished.
Ask(n)      == [what |-> "ask", attempt |-> n]
Finished(x) == [what |-> x, attempt |-> 0]

Init ==
    /\ phase = "calibration"
    /\ screen = "menu" /\ modal = NoModal
    /\ attached = NoWorker /\ cancelRequested = FALSE
    /\ verifier = NoWorker /\ status = "idle"
    /\ job = [w \in Workers |-> NoJob]
    /\ prewarm = "none" /\ held = FALSE /\ rate = "unknown"

-------------------------------------------------------------------------------
(* The worker threads.                                                       *)

Running(w) == phase # "quit" /\ job[w].at \in {"working", "asking"}

\* The unlock worker's password provider puts its request in the channel.
\* Mutant: nothing bounds the attempts.
AsksForEver(w) ==
    /\ Running(w) /\ job[w].at = "working" /\ job[w].kind = "unlock"
    /\ job[w].attempt <= MAX_PASSWORD_ATTEMPTS
    /\ job' = [job EXCEPT ![w].at = "asking", ![w].attempt = @ + 1,
                          ![w].queue = Append(@, Ask(job[w].attempt + 1)),
                          ![w].reply = "none"]
    /\ UNCHANGED <<phase, ui, calib>>

AskForPassword(w) ==
    /\ Running(w) /\ job[w].at = "working" /\ job[w].kind = "unlock"
    /\ job[w].attempt < MAX_PASSWORD_ATTEMPTS
    /\ job' = [job EXCEPT ![w].at = "asking", ![w].attempt = @ + 1,
                          ![w].queue = Append(@, Ask(job[w].attempt + 1)),
                          ![w].reply = "none"]
    /\ UNCHANGED <<phase, ui, calib>>

ReceivePassword(w) ==
    /\ Running(w) /\ job[w].at = "asking" /\ job[w].reply = "ok"
    /\ job' = [job EXCEPT ![w].at = "working", ![w].reply = "none"]
    /\ UNCHANGED <<phase, ui, calib>>

\* The other end of the reply channel is in the request, then in the prompt.
SenderIsAlive(w) ==
    \/ modal = Prompt(w, job[w].attempt)
    \/ w = attached /\ \E i \in DOMAIN job[w].queue :
                          job[w].queue[i] = Ask(job[w].attempt)

End(w, x) ==
    job' = [job EXCEPT ![w].at = "ended", ![w].reply = "none",
                       ![w].queue = Append(@, Finished(x))]

GiveUpAsking(w) ==
    /\ Running(w) /\ job[w].at = "asking"
    /\ \/ job[w].token
       \/ job[w].reply = "cancelled"
       \/ job[w].reply = "none" /\ ~SenderIsAlive(w)
    /\ End(w, "cancelled")
    /\ UNCHANGED <<phase, ui, calib>>

\* The use case returns; it may be past its last look at the token.
EndWork(w) ==
    /\ Running(w) /\ job[w].at = "working"
    /\ \E x \in Outcomes : (x = "cancelled" => job[w].token) /\ End(w, x)
    /\ UNCHANGED <<phase, ui, calib>>

\* The thread unwinds: its end of the channel is dropped, nothing is sent.
Panic(w) ==
    /\ Running(w) /\ job[w].at = "working" /\ job[w].kind \in CanPanic
    /\ job' = [job EXCEPT ![w].at = "panicked"]
    /\ UNCHANGED <<phase, ui, calib>>

\* The background calibration returns a rate or fails.
PrewarmEnds ==
    /\ phase # "quit" /\ prewarm = "running"
    /\ prewarm' \in {"ok", "err"}
    /\ UNCHANGED <<phase, ui, job, held, rate>>

-------------------------------------------------------------------------------
(* The event loop: poll_workers, draw, on_frame_rendered, one key.           *)

\* try_complete_session_calibration
TryComplete ==
    /\ held' = (held /\ prewarm = "running")
    /\ rate' = IF held /\ prewarm = "ok" THEN "prewarm" ELSE rate
    /\ UNCHANGED prewarm

PollCalibration ==
    /\ phase = "calibration" /\ phase' = "workers"
    /\ TryComplete
    /\ UNCHANGED <<ui, job>>

\* The worker's result takes the progress screen away.
Conclude(w, complete) ==
    LET x == Head(job[w].queue).what IN
    /\ screen' = IF x = "ok" THEN complete ELSE "menu"
    /\ modal' = IF x = "ok" THEN modal ELSE Notice
    /\ attached' = NoWorker /\ cancelRequested' = FALSE
    /\ job' = [job EXCEPT ![w] = NoJob]
    /\ UNCHANGED <<verifier, status>>

\* An empty channel is left alone, and so is one that is disconnected.
PollLock ==
    /\ phase = "workers" /\ phase' = "draw" /\ screen = "lockProgress"
    /\ IF job[attached].queue = << >>
          THEN UNCHANGED <<ui, job>>
          ELSE Conclude(attached, "lockComplete")
    /\ UNCHANGED calib

\* The answer reaches the worker if it still waits for that attempt.
Reply(w, n, answer) ==
    [job EXCEPT ![w].reply = IF job[w].at = "asking" /\ job[w].attempt = n THEN answer ELSE @]

\* Mutant: a request that arrives after a cancellation is shown all the same.
PollUnlockShows ==
    /\ phase = "workers" /\ phase' = "draw" /\ screen = "unlockProgress"
    /\ LET q == job[attached].queue IN
       IF q = << >> THEN UNCHANGED <<ui, job>>
       ELSE IF Head(q).what # "ask" THEN Conclude(attached, "unlockComplete")
       ELSE /\ modal' = Prompt(attached, Head(q).attempt)
            /\ job' = [job EXCEPT ![attached].queue = Tail(@)]
            /\ UNCHANGED <<screen, attached, cancelRequested, verifier, status>>
    /\ UNCHANGED calib

\* A request for a passphrase opens the prompt or, once the user has cancelled,
\* is refused on the spot.
PollUnlock ==
    /\ phase = "workers" /\ phase' = "draw" /\ screen = "unlockProgress"
    /\ LET w == attached
           q == job[w].queue
       IN  \/ q = << >> /\ UNCHANGED <<ui, job>>
           \/ q # << >> /\ Head(q).what # "ask" /\ Conclude(w, "unlockComplete")
           \/ /\ q # << >> /\ Head(q).what = "ask"
              /\ IF cancelRequested \/ job[w].token
                    THEN /\ job' = [Reply(w, Head(q).attempt, "cancelled")
                                       EXCEPT ![w].queue = Tail(@)]
                         /\ UNCHANGED modal
                    ELSE /\ job' = [job EXCEPT ![w].queue = Tail(@)]
                         /\ modal' = Prompt(w, Head(q).attempt)
              /\ UNCHANGED <<screen, attached, cancelRequested, verifier, status>>
    /\ UNCHANGED calib

\* Mutant: a disconnected channel is ignored here as it is for the other workers.
PollVerifyIgnores ==
    /\ phase = "workers" /\ phase' = "draw" /\ screen = "verifyForm"
    /\ IF verifier = NoWorker \/ job[verifier].queue = << >>
          THEN UNCHANGED <<ui, job>>
          ELSE LET x == Head(job[verifier].queue).what IN
               /\ status' = "idle" /\ verifier' = NoWorker
               /\ job' = [job EXCEPT ![verifier] = NoJob]
               /\ screen' = IF x = "ok" THEN "verifyDetails" ELSE screen
               /\ modal' = IF x = "ok" THEN modal ELSE Notice
               /\ UNCHANGED <<attached, cancelRequested>>
    /\ UNCHANGED calib

PollVerify ==
    /\ phase = "workers" /\ phase' = "draw" /\ screen = "verifyForm"
    /\ IF verifier = NoWorker
          THEN status' = "idle" /\ UNCHANGED <<screen, modal, verifier, job>>
       ELSE IF job[verifier].queue = << >> /\ job[verifier].at # "panicked"
          THEN UNCHANGED <<screen, modal, verifier, status, job>>
       ELSE LET ok == job[verifier].queue = << Finished("ok") >> IN
            /\ status' = "idle" /\ verifier' = NoWorker
            /\ job' = [job EXCEPT ![verifier] = NoJob]
            /\ screen' = IF ok THEN "verifyDetails" ELSE screen
            /\ modal' = IF ok THEN modal ELSE Notice
    /\ UNCHANGED <<attached, cancelRequested, calib>>

PollNothing ==
    /\ phase = "workers" /\ phase' = "draw"
    /\ screen \notin Progress \cup {"verifyForm"}
    /\ UNCHANGED <<ui, job, calib>>

\* The first frame of the main menu starts the background calibration.
Draw ==
    /\ phase = "draw" /\ phase' = "key"
    /\ IF screen = "menu" /\ prewarm = "none" /\ rate = "unknown" /\ ~held
          THEN prewarm' = "running" /\ held' = TRUE
          ELSE UNCHANGED <<prewarm, held>>
    /\ UNCHANGED <<ui, job, rate>>

\* No key within 50 ms, or one that only moves the focus or edits a field.
NoKey == phase = "key" /\ phase' = "calibration" /\ UNCHANGED <<ui, job, calib>>

\* Ctrl-C anywhere, or Esc in the menu: the loop is left and the process ends.
Quit == phase = "key" /\ phase' = "quit" /\ UNCHANGED <<ui, job, calib>>

-------------------------------------------------------------------------------
(* Keys that move between screens and open and close dialogs.                *)

Key        == phase = "key" /\ phase' = "calibration"
ScreenKey  == Key /\ modal.kind = "none"

Select ==
    /\ ScreenKey /\ screen = "menu"
    /\ screen' \in Forms
    /\ UNCHANGED <<modal, attached, cancelRequested, verifier, status, job, calib>>

\* Mutant: Esc leaves the verification form whatever its worker is doing.
LeaveAnyway ==
    /\ ScreenKey /\ screen \in Forms \cup Results
    /\ screen' = "menu" /\ status' = "idle"
    /\ UNCHANGED <<modal, attached, cancelRequested, verifier, job, calib>>

LeaveScreen ==
    /\ ScreenKey /\ screen \in Forms \cup Results
    /\ screen = "verifyForm" => status = "idle"
    /\ screen' = "menu"
    /\ UNCHANGED <<modal, attached, cancelRequested, verifier, status, job, calib>>

\* Mutant: the browser opens while a verification is running.
OpenBrowserAnyway ==
    /\ ScreenKey /\ screen \in Forms \ {"lockTextForm"}
    /\ modal' = Browser
    /\ UNCHANGED <<screen, attached, cancelRequested, verifier, status, job, calib>>

OpenBrowser ==
    /\ ScreenKey /\ screen \in Forms \ {"lockTextForm"}
    /\ screen = "verifyForm" => status = "idle"
    /\ modal' = Browser
    /\ UNCHANGED <<screen, attached, cancelRequested, verifier, status, job, calib>>

\* A form refuses to start, a folder is opened, the new file is verified at once.
ShowNotice ==
    /\ ScreenKey
    /\ screen \in Forms \cup {"lockComplete", "unlockComplete", "inspectDetails"}
    /\ screen = "verifyForm" => status = "idle"
    /\ modal' = Notice
    /\ UNCHANGED <<screen, attached, cancelRequested, verifier, status, job, calib>>

\* Enter or Esc closes a notice or the browser; an input file chosen for
\* unlocking has its estimate refreshed.
CloseModal ==
    /\ Key /\ modal.kind \in {"notice", "browser"}
    /\ modal' = NoModal
    /\ \/ UNCHANGED calib
       \/ modal.kind = "browser" /\ screen = "unlockForm" /\ TryComplete
    /\ UNCHANGED <<screen, attached, cancelRequested, verifier, status, job>>

\* Typing the name of an input file refreshes the estimate too.
EditUnlockInput ==
    /\ ScreenKey /\ screen = "unlockForm"
    /\ TryComplete
    /\ UNCHANGED <<ui, job>>

Inspect ==
    /\ ScreenKey /\ screen \in {"inspectForm", "lockComplete"}
    /\ TryComplete
    /\ \/ screen' = "inspectDetails" /\ UNCHANGED modal
       \/ modal' = Notice /\ UNCHANGED screen
    /\ UNCHANGED <<attached, cancelRequested, verifier, status, job>>

-------------------------------------------------------------------------------
(* Keys that start workers.                                                  *)

\* A thread that has ended, or never began, and whose channel nobody owns.
Spawn(w, kind) ==
    /\ job[w].at \in {"ended", "panicked"} /\ w \notin {attached, verifier}
    /\ job' = [job EXCEPT ![w] = [NoJob EXCEPT !.kind = kind, !.at = "working"]]

ShowProgress(kind, progress) ==
    /\ \E w \in Workers : Spawn(w, kind) /\ attached' = w
    /\ screen' = progress /\ cancelRequested' = FALSE
    /\ UNCHANGED <<modal, verifier, status>>

SpawnLock == ShowProgress("lock", "lockProgress")

StartLock ==
    /\ ScreenKey /\ screen \in LockForms
    /\ SpawnLock
    /\ UNCHANGED calib

StartUnlock ==
    /\ ScreenKey /\ screen \in {"unlockForm", "inspectDetails"}
    /\ ShowProgress("unlock", "unlockProgress")
    /\ UNCHANGED calib

StartVerify ==
    /\ ScreenKey /\ screen = "verifyForm" /\ status = "idle"
    /\ \E w \in Workers : Spawn(w, "verify") /\ verifier' = w
    /\ status' = "running"
    /\ UNCHANGED <<screen, modal, attached, cancelRequested, calib>>

\* Mutant: a measurement is made although the background one has not ended.
MeasureNow ==
    /\ phase = "key" /\ modal.kind = "none" /\ screen \in LockForms
    /\ TryComplete
    /\ IF rate' # "unknown"
          THEN phase' = "calibration" /\ SpawnLock
          ELSE phase' = "measuring" /\ UNCHANGED <<ui, job>>

\* Locking for this machine: ensure_session_calibration takes the rate it has,
\* or waits for the background calibration, or measures; keys are not read.
StartLockCalibrated ==
    /\ phase = "key" /\ modal.kind = "none" /\ screen \in LockForms
    /\ IF rate # "unknown" THEN UNCHANGED calib ELSE TryComplete
    /\ IF rate' # "unknown"
          THEN phase' = "calibration" /\ SpawnLock
          ELSE /\ phase' = IF held' THEN "waiting" ELSE "measuring"
               /\ UNCHANGED <<ui, job>>

\* Mutant: waits until there is a rate.
WaitForRate ==
    /\ phase = "waiting" /\ prewarm = "ok"
    /\ held' = FALSE /\ rate' = "prewarm" /\ phase' = "calibration"
    /\ SpawnLock /\ UNCHANGED prewarm

PrewarmArrives ==
    /\ phase = "waiting" /\ prewarm # "running"
    /\ held' = FALSE
    /\ IF prewarm = "ok"
          THEN rate' = "prewarm" /\ phase' = "calibration" /\ SpawnLock
          ELSE phase' = "measuring" /\ UNCHANGED <<rate, ui, job>>
    /\ UNCHANGED prewarm

Measured ==
    /\ phase = "measuring" /\ phase' = "calibration"
    /\ \/ rate' = "measured" /\ SpawnLock
       \/ modal' = Notice
          /\ UNCHANGED <<rate, screen, attached, cancelRequested, verifier, status, job>>
    /\ UNCHANGED <<prewarm, held>>

-------------------------------------------------------------------------------
(* Keys that reach workers.                                                  *)

RequestCancel ==
    /\ ScreenKey /\ screen \in Progress /\ ~cancelRequested
    /\ cancelRequested' = TRUE
    /\ job' = [job EXCEPT ![attached].token = TRUE]
    /\ UNCHANGED <<screen, modal, attached, verifier, status, calib>>

\* Mutant: the form says it is cancelling, the worker is not told.
CancelInName ==
    /\ ScreenKey /\ screen = "verifyForm" /\ status = "running" /\ verifier # NoWorker
    /\ status' = "cancelling"
    /\ UNCHANGED <<screen, modal, attached, cancelRequested, verifier, job, calib>>

RequestVerifyCancel ==
    /\ ScreenKey /\ screen = "verifyForm" /\ status = "running" /\ verifier # NoWorker
    /\ job' = [job EXCEPT ![verifier].token = TRUE]
    /\ status' = "cancelling"
    /\ UNCHANGED <<screen, modal, attached, cancelRequested, verifier, calib>>

SubmitPassword ==
    /\ Key /\ modal.kind = "prompt"
    /\ job' = Reply(modal.worker, modal.attempt, "ok")
    /\ modal' = NoModal
    /\ UNCHANGED <<screen, attached, cancelRequested, verifier, status, calib>>

CancelPassword ==
    /\ Key /\ modal.kind = "prompt"
    /\ LET answered == Reply(modal.worker, modal.attempt, "cancelled") IN
       IF screen = "unlockProgress"
          THEN /\ cancelRequested' = TRUE
               /\ job' = [answered EXCEPT ![attached].token = TRUE]
          ELSE job' = answered /\ UNCHANGED cancelRequested
    /\ modal' = NoModal
    /\ UNCHANGED <<screen, attached, verifier, status, calib>>

-------------------------------------------------------------------------------

Loop == \/ PollCalibration \/ PollLock \/ PollUnlock \/ PollVerify \/ PollNothing
        \/ Draw \/ NoKey \/ PrewarmArrives \/ Measured

User == \/ Quit \/ Select \/ LeaveScreen \/ OpenBrowser \/ ShowNotice \/ CloseModal
        \/ EditUnlockInput \/ Inspect
        \/ StartLock \/ StartLockCalibrated \/ StartUnlock \/ StartVerify
        \/ RequestCancel \/ RequestVerifyCancel \/ SubmitPassword \/ CancelPassword

Work(w) == AskForPassword(w) \/ ReceivePassword(w) \/ GiveUpAsking(w) \/ EndWork(w)

Next == \/ Loop \/ User \/ PrewarmEnds
        \/ \E w \in Workers : Work(w) \/ Panic(w)

Spec == Init /\ [][Next]_vars

\* The loop never stops for long (it waits 50 ms for a key), and a worker that
\* is not waiting for an answer computes something finite.
FairSpec == /\ Spec
            /\ WF_vars(Loop) /\ WF_vars(PrewarmEnds)
            /\ \A w \in Workers : WF_vars(Work(w))

-------------------------------------------------------------------------------
(* Properties.                                                               *)

Messages == [what : Outcomes \cup {"ask"}, attempt : 0..MAX_PASSWORD_ATTEMPTS]

\* The type of every variable; a channel never holds more than a request that
\* nobody will answer and a result.
TypeOK ==
    /\ phase \in {"calibration", "workers", "draw", "key", "waiting", "measuring", "quit"}
    /\ screen \in Screens
    /\ modal \in [kind : {"none", "notice", "browser", "prompt"},
                  worker : Workers \cup {NoWorker}, attempt : 0..MAX_PASSWORD_ATTEMPTS]
    /\ attached \in Workers \cup {NoWorker}
    /\ cancelRequested \in BOOLEAN
    /\ verifier \in Workers \cup {NoWorker}
    /\ status \in {"idle", "running", "cancelling"}
    /\ job \in [Workers -> [kind : Kinds \cup {"none"},
                            at : {"working", "asking", "ended", "panicked"},
                            token : BOOLEAN, attempt : 0..MAX_PASSWORD_ATTEMPTS,
                            queue : {<< >>} \cup {<<m>> : m \in Messages}
                                    \cup {<<m, n>> : m, n \in Messages},
                            reply : {"none", "ok", "cancelled"}]]
    /\ prewarm \in {"none", "running", "ok", "err"}
    /\ held \in BOOLEAN
    /\ rate \in {"unknown", "prewarm", "measured"}

\* Whenever the passphrase prompt is on the screen, the unlock worker the screen
\* is attached to is waiting for the answer to exactly that attempt, and has
\* neither been cancelled nor been answered: what is typed is never lost and
\* never taken for the answer to another attempt.
PromptIsLive ==
    modal.kind = "prompt" =>
       /\ screen = "unlockProgress" /\ ~cancelRequested
       /\ modal.worker = attached /\ attached # NoWorker
       /\ job[attached].kind = "unlock" /\ job[attached].at = "asking"
       /\ job[attached].attempt = modal.attempt
       /\ ~job[attached].token /\ job[attached].reply = "none"

\* A worker that has not ended is the one the current screen is about, so that
\* there is never more than one and every one can be watched and cancelled.
NoDetachedWorker ==
    /\ \A w \in Workers : job[w].at \in {"working", "asking"} =>
          /\ w = IF job[w].kind = "verify" THEN verifier ELSE attached
          /\ screen = Showing[job[w].kind]
    /\ attached # NoWorker <=> screen \in Progress
    /\ verifier # NoWorker => screen = "verifyForm"

\* What the screen says about a worker is so: the verification form is idle
\* exactly when there is no worker, and "cancelling" is shown exactly when the
\* worker has been told.
StatusIsTrue ==
    /\ status = "idle" <=> verifier = NoWorker
    /\ verifier # NoWorker => (status = "cancelling" <=> job[verifier].token)
    /\ attached # NoWorker => (cancelRequested <=> job[attached].token)

\* Two measurements of this machine's speed never run at the same time, which
\* would make both too low.
MeasuresAlone == phase = "measuring" => prewarm # "running"

\* Polling the workers never replaces a dialog the user has not closed.
PollKeepsModal ==
    [][phase = "workers" /\ modal.kind # "none" => modal' = modal]_vars

\* A cancelled operation is over in the end and its screen is left (the lock
\* screen's help: "Cancelling may take a moment between chunk boundaries.").
CancelLeavesProgress ==
    /\ (screen \in Progress /\ cancelRequested)
          ~> (screen \notin Progress \/ phase = "quit")
    /\ status = "cancelling" ~> (status # "cancelling" \/ phase = "quit")

\* The session always comes back to reading keys.
StaysResponsive == []<>(phase \in {"key", "quit"})
===============================================================================
