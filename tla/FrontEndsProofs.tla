---------------------------- MODULE FrontEndsProofs ----------------------------
(***************************************************************************)
(* Theorems about the front ends, for any disk, any names and characters,  *)
(* and any number of keys: what a screen shows is true, and a key edits    *)
(* one character of a text.                                                *)
(***************************************************************************)
EXTENDS FrontEnds, ArithmeticProofs, SequenceTheorems, TLAPS

-------------------------------------------------------------------------------
(* The inductive invariant.                                                  *)

TextParts == {"value", "cursor", "armed"}

\* The screens with a button that opens the browser.
Browsing == {"lockFileForm", "unlockForm", "inspectForm", "verifyForm"}

FocusOK ==
    /\ screen \in Screens /\ focus \in DOMAIN Foci[screen]
    /\ selected \in 0..(Len(MAIN_MENU_ITEMS) - 1)

FieldsOK ==
    /\ DOMAIN field = FieldNames
    /\ \A n \in FieldNames : DOMAIN field[n] = TextParts

\* A browser is over a form that is at rest, and picks for a field of this form.
IsFor(b, s) ==
    /\ {"kind", "target"} \subseteq DOMAIN b
    /\ b.kind = "browser" /\ s \in Browsing
    /\ b.target.field = "input" \/ (b.target.field = "output" /\ s = "unlockForm")

BrowserOK ==
    /\ modal.kind = "browser" => IsFor(modal, screen) /\ status = "idle"
    /\ status # "idle" => screen = "verifyForm"

FormsInv == FocusOK /\ FieldsOK /\ BrowserOK /\ OutputFollowsInput /\ EstimateIsOfInput

\* Attempts, answers and what the prompt has said count the same thing.
CliInv ==
    /\ answers \in Nat /\ attempt \in Nat
    /\ stage \in {"parse", "handler", "working", "prompt", "tui"} =>
          attempt = answers + 1 /\ (again <=> answers > 0) /\ outcome # "wrong"
    /\ stage = "prompt" /\ again => said = remaining_attempts
    /\ outcome = "wrong" => said = 1

-------------------------------------------------------------------------------
(* The command line.                                                         *)

LEMMA CliStep ==
    ASSUME CliInv, CliNext
    PROVE  CliInv'
<1>1. ASSUME NEW o, NEW code, End(o, code), o # "wrong" PROVE CliInv'
  BY <1>1 DEF CliInv, End, remaining_attempts
<1>2. CASE Parse
  BY <1>1, <1>2 DEF Parse, CliInv, remaining_attempts
<1>3. CASE RunTui
  BY <1>3 DEF RunTui, CliInv, remaining_attempts
<1>4. CASE RunCommand
  BY <1>1, <1>4 DEF RunCommand, CliInv, remaining_attempts
<1>5. CASE UseCaseEnds
  BY <1>1, <1>5 DEF UseCaseEnds
<1>6. CASE Prompt
  BY <1>6 DEF Prompt, CliInv, remaining_attempts
<1>7. CASE PromptIsUnavailable
  BY <1>1, <1>7 DEF PromptIsUnavailable
<1>8. CASE RightAnswer
  BY <1>8 DEF RightAnswer, CliInv, remaining_attempts
<1>9. CASE WrongAnswer
  BY <1>9 DEF WrongAnswer, CliInv, remaining_attempts, MAX_PASSWORD_ATTEMPTS
<1> QED
  BY <1>2, <1>3, <1>4, <1>5, <1>6, <1>7, <1>8, <1>9 DEF CliNext

LEMMA CliStays ==
    ASSUME CliInv, UNCHANGED cli
    PROVE  CliInv'
BY DEF CliInv, cli, remaining_attempts

-------------------------------------------------------------------------------
(* Fields and what is derived from them.                                     *)

LEMMA TextsAre ==
    ASSUME NEW v
    PROVE  Text(v).value = v /\ DOMAIN Text(v) = TextParts
BY DEF Text, TextParts

LEMMA ArmsAre ==
    ASSUME NEW f, DOMAIN f = TextParts
    PROVE  Arm(f).value = f.value /\ DOMAIN Arm(f) = TextParts
BY DEF Arm, TextParts

LEMMA KeysKeepParts ==
    ASSUME NEW f, DOMAIN f = TextParts, NEW key
    PROVE  DOMAIN apply_key(f, key) = TextParts
<1>1. DOMAIN Consume(f) = TextParts
  BY TextsAre DEF Consume, Empty
<1>2. ASSUME NEW g, DOMAIN g = TextParts
      PROVE  /\ DOMAIN Backspace(g) = TextParts /\ DOMAIN Delete(g) = TextParts
             /\ \A i : DOMAIN MoveTo(g, i) = TextParts
             /\ \A c : DOMAIN Type(g, c) = TextParts
  BY <1>2 DEF Backspace, Delete, Erase, MoveTo, Type, TextParts
<1> QED
  BY <1>1, <1>2, Zenon DEF apply_key

\* Nothing is derived from an empty text.
LEMMA NothingTyped ==
    /\ Trim(<< >>) = << >> /\ derive_default_output(<< >>) = << >>
    /\ \A known : refresh_unlock_estimate(<< >>, known) = NoEstimate
<1>1. {i \in DOMAIN << >> : << >>[i] # Blank} = {}
  OBVIOUS
<1>2. Trim(<< >>) = << >>
  BY <1>1 DEF Trim
<1> QED
  BY <1>2 DEF derive_default_output, refresh_unlock_estimate

\* An estimate is of the text that it is made from, and says what is known of it.
LEMMA EstimatesAre ==
    ASSUME NEW s, NEW known
    PROVE  /\ refresh_unlock_estimate(s, known).of = Trim(s)
           /\ refresh_unlock_estimate(s, known).says = "nothing" <=> Trim(s) = << >>
           /\ known => refresh_unlock_estimate(s, known).says \notin {"profile", "unavailable"}
BY DEF refresh_unlock_estimate, inspect_timelock_estimate, NoEstimate

\* A screen that is shown is at its beginning, where all there is to say of it holds.
LEMMA ShowStep ==
    ASSUME NEW s \in Screens, Show(s)
    PROVE  /\ FocusOK' /\ FieldsOK' /\ OutputFollowsInput' /\ EstimateIsOfInput'
           /\ screen' = s /\ status' = "idle"
<1>1. /\ screen' = s /\ focus' = 1 /\ selected' = 0 /\ status' = "idle"
      /\ field' \in {LockFields, NoFields} /\ touched' = FALSE /\ estimate' = NoEstimate
      /\ s = "unlockForm" => field' = NoFields
  BY DEF Show, Fresh, LockForms
<1>2. 1 \in DOMAIN Foci[s]
  BY DEF Screens, Foci, LockFileFoci, LockTextFoci, LockFoci, UnlockFoci, InspectFoci, VerifyFoci,
         LockProgressFoci, UnlockProgressFoci, LockCompleteFoci, UnlockCompleteFoci,
         InspectDetailsFoci, VerifyDetailsFoci
<1>3. FocusOK'
  BY <1>1, <1>2 DEF FocusOK, MAIN_MENU_ITEMS, Screens
<1>4. FieldsOK'
  BY <1>1, TextsAre DEF FieldsOK, LockFields, NoFields, Empty, FieldNames
<1>5. /\ field'["input"].value = << >> /\ field'["output"].value = << >>
  BY <1>1, TextsAre DEF LockFields, NoFields, Empty, FieldNames
<1>6. OutputFollowsInput'
  BY <1>5, NothingTyped DEF OutputFollowsInput
<1>7. EstimateIsOfInput'
  BY <1>1, <1>5, NothingTyped DEF EstimateIsOfInput, Typed, NoEstimate
<1> QED
  BY <1>1, <1>3, <1>4, <1>6, <1>7

\* What Derive derives is what the screen should show.
LEMMA DeriveStep ==
    ASSUME FormsInv, NEW n \in FieldNames, NEW f, DOMAIN f = TextParts, Derive(n, f),
           screen' = screen, rate' = rate,
           touched => touched', n = "output" /\ screen = "lockFileForm" => touched'
    PROVE  FieldsOK' /\ OutputFollowsInput' /\ EstimateIsOfInput'
<1>1. DOMAIN field = FieldNames /\ \A m \in FieldNames : DOMAIN field[m] = TextParts
  BY DEF FormsInv, FieldsOK
<1>2. {"input", "output"} \subseteq FieldNames
  BY DEF FieldNames
<1> DEFINE out == IF n = "input" /\ screen = "lockFileForm" /\ ~touched
                  THEN Text(derive_default_output(f.value))
                  ELSE IF n = "output" THEN f ELSE field["output"]
<1>3. /\ DOMAIN field' = FieldNames /\ field'["output"] = out
      /\ n # "output" => field'[n] = f
      /\ \A m \in FieldNames \ {"output", n} : field'[m] = field[m]
  BY <1>1, <1>2 DEF Derive
<1>4. DOMAIN out = TextParts
  BY <1>1, <1>2, TextsAre
<1>5. FieldsOK'
  BY <1>1, <1>3, <1>4 DEF FieldsOK
<1>6. OutputFollowsInput'
  <2>1. SUFFICES ASSUME screen = "lockFileForm", ~touched'
                 PROVE  field'["output"].value = derive_default_output(field'["input"].value)
    BY DEF OutputFollowsInput
  <2>2. ~touched /\ n # "output"
    BY <2>1
  <2>3. CASE n = "input"
    BY <1>3, <2>1, <2>2, <2>3, TextsAre
  <2>4. CASE n # "input"
    <3>1. field'["output"] = field["output"] /\ field'["input"] = field["input"]
      BY <1>2, <1>3, <2>2, <2>4
    <3> QED
      BY <2>1, <2>2, <3>1 DEF FormsInv, OutputFollowsInput
  <2> QED
    BY <2>3, <2>4
<1>7. EstimateIsOfInput'
  <2>1. SUFFICES ASSUME screen = "unlockForm" PROVE EstimateIsOfInput'
    BY DEF EstimateIsOfInput
  <2>2. CASE n = "input"
    <3>1. field'["input"] = f /\ estimate' = refresh_unlock_estimate(f.value, rate)
      BY <1>3, <2>1, <2>2 DEF Derive
    <3> QED
      BY <3>1, EstimatesAre DEF EstimateIsOfInput, Typed
  <2>3. CASE n # "input"
    <3>1. field'["input"] = field["input"] /\ estimate' = estimate
      BY <1>2, <1>3, <2>3 DEF Derive
    <3> QED
      BY <2>1, <3>1 DEF FormsInv, EstimateIsOfInput, Typed
  <2> QED
    BY <2>2, <2>3
<1> QED
  BY <1>5, <1>6, <1>7

-------------------------------------------------------------------------------
(* The browser.                                                              *)

\* Where the buttons are that open it.
LEMMA Buttons ==
    ASSUME FocusOK
    PROVE  /\ HasFocus("browse") => screen \in Browsing
           /\ HasFocus("browseOutput") => screen = "unlockForm"
           /\ HasFocus("start") => screen \in Browsing \cup {"lockTextForm", "inspectDetails"}
<1>1. focus \in DOMAIN Foci[screen] /\ screen \in Screens
  BY DEF FocusOK
<1> USE DEF HasFocus, Foci, LockFileFoci, LockTextFoci, LockFoci, UnlockFoci, InspectFoci,
            VerifyFoci, LockProgressFoci, UnlockProgressFoci, LockCompleteFoci,
            UnlockCompleteFoci, InspectDetailsFoci, VerifyDetailsFoci, Browsing
<1>2. CASE screen \in Browsing
  <2>1. CASE screen = "lockFileForm"
    BY <1>1, <2>1
  <2>2. CASE screen = "unlockForm"
    BY <2>2
  <2>3. CASE screen \in {"inspectForm", "verifyForm"}
    BY <1>1, <2>3
  <2> QED
    BY <1>2, <2>1, <2>2, <2>3
<1>3. CASE screen \notin Browsing
  BY <1>1, <1>3 DEF Screens
<1> QED
  BY <1>2, <1>3

\* Reading a directory changes neither what the browser is for nor where it is.
LEMMA ReloadIs ==
    ASSUME NEW b, NEW s, IsFor(b, s)
    PROVE  IsFor(Reload(b), s)
BY DEF IsFor, Reload

LEMMA MovesAre ==
    ASSUME NEW b, NEW s, IsFor(b, s), NEW c \in BrowserMoves(b)
    PROVE  IsFor(c, s)
<1>1. \A d : IsFor([b EXCEPT !.dir = d], s) /\ IsFor([b EXCEPT !.selected = d], s)
  BY DEF IsFor
<1>2. IsFor([b EXCEPT !.hidden = ~@], s) /\ IsFor([b EXCEPT !.filter = ~@], s)
  BY DEF IsFor
<1>3. \/ \E d : c = [b EXCEPT !.selected = d]
      \/ c \in {NavigateParent(b), NavigateSelected(b),
                Reload([b EXCEPT !.hidden = ~@]), Reload([b EXCEPT !.filter = ~@])}
  BY DEF BrowserMoves
<1>4. IsFor(NavigateParent(b), s) /\ IsFor(NavigateSelected(b), s)
  BY <1>1, ReloadIs DEF NavigateParent, NavigateSelected
<1> QED
  BY <1>1, <1>2, <1>3, <1>4, ReloadIs

LEMMA OpensFor ==
    ASSUME NEW mode, NEW target, NEW p, NEW s \in Browsing,
           target.field = "input" \/ (target.field = "output" /\ s = "unlockForm")
    PROVE  IsFor(NewBrowser(mode, target, p), s)
<1>1. IsFor([kind |-> "browser", mode |-> mode, target |-> target,
             filter |-> FilterAvailable(mode, target), hidden |-> FALSE,
             dir |-> StartDir(p), entries |-> << >>, selected |-> 0, error |-> FALSE], s)
  BY DEF IsFor
<1> QED
  BY <1>1, ReloadIs DEF NewBrowser

-------------------------------------------------------------------------------
(* The forms.                                                                *)

\* Only a browser is bound to what is under it.
LEMMA DialogsAre ==
    /\ NoModal.kind # "browser" /\ Notice.kind # "browser"
    /\ Key => modal.kind # "browser"
BY DEF NoModal, Notice, Key

\* What is shown stays true of a form whose fields stay.
LEMMA FormStays ==
    ASSUME FormsInv, UNCHANGED <<screen, focus, selected, field, touched, estimate, rate>>
    PROVE  FocusOK' /\ FieldsOK' /\ OutputFollowsInput' /\ EstimateIsOfInput'
BY DEF FormsInv, FocusOK, FieldsOK, OutputFollowsInput, EstimateIsOfInput, Typed

\* Nor does another dialog over it change that.
LEMMA ModalStep ==
    ASSUME FormsInv, NEW m, ShowModal(m), UNCHANGED rate,
           m.kind = "browser" => IsFor(m, screen) /\ status = "idle"
    PROVE  FormsInv'
<1>1. /\ UNCHANGED <<screen, focus, selected, field, touched, estimate, rate, status>>
      /\ modal' = m
  BY DEF ShowModal, form
<1>2. BrowserOK'
  BY <1>1 DEF FormsInv, BrowserOK
<1> QED
  BY <1>1, <1>2, FormStays DEF FormsInv

LEMMA RefuseStep ==
    ASSUME FormsInv, Refuse
    PROVE  FormsInv'
BY ModalStep, DialogsAre DEF Refuse

\* No browser stays open over a screen that is shown.
LEMMA ShownAlone ==
    ASSUME FormsInv, NEW s \in Screens, Show(s),
           modal'.kind # "browser"
    PROVE  FormsInv'
<1>1. BrowserOK'
  BY ShowStep DEF BrowserOK
<1> QED
  BY <1>1, ShowStep DEF FormsInv

LEMMA InspectStep ==
    ASSUME FormsInv, modal.kind # "browser", NEW p, RunInspect(p), status = "idle"
    PROVE  FormsInv'
<1>1. CASE At(p) \notin {"profiled", "unprofiled"}
  BY <1>1, RefuseStep DEF RunInspect
<1>2. CASE At(p) \in {"profiled", "unprofiled"}
  <2>1. /\ screen' = "inspectDetails" /\ focus' = 1 /\ field' = NoFields
        /\ UNCHANGED <<selected, modal, status>>
    BY <1>2 DEF RunInspect
  <2>2. FocusOK'
    BY <2>1 DEF FormsInv, FocusOK, Screens, Foci, InspectDetailsFoci
  <2>3. FieldsOK'
    BY <2>1, TextsAre DEF FieldsOK, NoFields, Empty
  <2>4. OutputFollowsInput' /\ EstimateIsOfInput' /\ BrowserOK'
    BY <1>2, <2>1 DEF OutputFollowsInput, EstimateIsOfInput, BrowserOK
  <2> QED
    BY <2>2, <2>3, <2>4 DEF FormsInv
<1> QED
  BY <1>1, <1>2

\* The elements of a screen are in an order that the focus goes round.
Round(s) == \E n \in Nat : Len(s) = n /\ DOMAIN s = 1..n

LEMMA FociAre ==
    \A s \in Screens : Round(Foci[s])
<1>1. Len(LockFileFoci) = 9 /\ DOMAIN LockFileFoci = 1..9
  BY DEF LockFoci, LockFileFoci
<1>2. Len(LockTextFoci) = 8 /\ DOMAIN LockTextFoci = 1..8
  BY DEF LockFoci, LockTextFoci
<1>3. Round(LockFileFoci) /\ Round(LockTextFoci)
  BY <1>1, <1>2 DEF Round
<1>4. Round(UnlockFoci) /\ Round(InspectFoci) /\ Round(VerifyFoci)
  <2>1. Len(UnlockFoci) = 6 /\ DOMAIN UnlockFoci = 1..6
    BY DEF UnlockFoci
  <2>2. Len(InspectFoci) = 4 /\ DOMAIN InspectFoci = 1..4
    BY DEF InspectFoci
  <2>3. Len(VerifyFoci) = 4 /\ DOMAIN VerifyFoci = 1..4
    BY DEF VerifyFoci
  <2> QED
    BY <2>1, <2>2, <2>3 DEF Round
<1>5. \A s : Len(<<s>>) = 1 /\ DOMAIN <<s>> = 1..1
  OBVIOUS
<1>6. \A s, t : Len(<<s, t>>) = 2 /\ DOMAIN <<s, t>> = 1..2
  OBVIOUS
<1>7. \A s, t, u : Len(<<s, t, u>>) = 3 /\ DOMAIN <<s, t, u>> = 1..3
  OBVIOUS
<1>8. /\ \A s : Round(<<s>>)
      /\ \A s, t : Round(<<s, t>>)
      /\ \A s, t, u : Round(<<s, t, u>>)
  BY <1>5, <1>6, <1>7 DEF Round
<1>9. /\ Round(LockProgressFoci) /\ Round(UnlockProgressFoci) /\ Round(LockCompleteFoci)
      /\ Round(UnlockCompleteFoci) /\ Round(InspectDetailsFoci) /\ Round(VerifyDetailsFoci)
  BY <1>8 DEF LockProgressFoci, UnlockProgressFoci, LockCompleteFoci, UnlockCompleteFoci,
              InspectDetailsFoci, VerifyDetailsFoci
<1> QED
  BY <1>3, <1>4, <1>8, <1>9 DEF Foci, Screens

LEMMA MoveFocusStep ==
    ASSUME FormsInv, MoveFocus
    PROVE  FormsInv'
<1>1. /\ modal.kind # "browser"
      /\ UNCHANGED <<screen, touched, estimate, status, selected, modal, rate>>
  BY DialogsAre DEF MoveFocus
<1>2. PICK step \in {1, Len(Foci[screen]) - 1} :
         /\ Len(Foci[screen]) > 1
         /\ focus' = ((focus - 1 + step) % Len(Foci[screen])) + 1
         /\ field' = ArmFocused(Foci[screen][focus'])
  BY DEF MoveFocus
<1>3. focus' \in DOMAIN Foci[screen]
  <2>1. PICK n \in Nat : Len(Foci[screen]) = n /\ DOMAIN Foci[screen] = 1..n
    BY FociAre DEF FormsInv, FocusOK, Round
  <2>2. focus \in 1..n /\ n > 1 /\ step \in {1, n - 1}
    BY <1>2, <2>1 DEF FormsInv, FocusOK
  <2>3. ((focus - 1 + step) % n) + 1 \in 1..n
    BY <2>2
  <2> QED
    BY <1>2, <2>1, <2>3
<1>4. /\ DOMAIN field' = FieldNames
      /\ \A n \in FieldNames : DOMAIN field'[n] = TextParts /\ field'[n].value = field[n].value
  BY <1>2, ArmsAre DEF FormsInv, FieldsOK, ArmFocused
<1>5. FocusOK' /\ FieldsOK' /\ BrowserOK'
  BY <1>1, <1>3, <1>4 DEF FormsInv, FocusOK, FieldsOK, BrowserOK
<1>6. field'["input"].value = field["input"].value /\ field'["output"].value = field["output"].value
  BY <1>4 DEF FieldNames
<1>7. OutputFollowsInput' /\ EstimateIsOfInput'
  BY <1>1, <1>6 DEF FormsInv, OutputFollowsInput, EstimateIsOfInput, Typed
<1> QED
  BY <1>5, <1>7 DEF FormsInv

LEMMA EditFieldStep ==
    ASSUME FormsInv, EditField
    PROVE  FormsInv'
<1>1. PICK n \in FieldNames, key \in FieldKeys :
         /\ HasFocus(n) /\ Derive(n, apply_key(field[n], key))
         /\ touched' = (touched \/ (n = "output" /\ screen = "lockFileForm"))
  BY DEF EditField
<1>2. /\ modal.kind # "browser" /\ status = "idle"
      /\ UNCHANGED <<screen, focus, status, selected, modal, rate>>
  BY DialogsAre DEF EditField
<1>3. DOMAIN apply_key(field[n], key) = TextParts
  BY KeysKeepParts DEF FormsInv, FieldsOK
<1>4. FieldsOK' /\ OutputFollowsInput' /\ EstimateIsOfInput'
  BY <1>1, <1>2, <1>3, DeriveStep
<1>5. FocusOK' /\ BrowserOK'
  BY <1>2 DEF FormsInv, FocusOK, BrowserOK
<1> QED
  BY <1>4, <1>5 DEF FormsInv

LEMMA OpenBrowserStep ==
    ASSUME FormsInv, OpenBrowser
    PROVE  FormsInv'
<1>1. FocusOK /\ status = "idle" /\ UNCHANGED rate
  BY DEF FormsInv, OpenBrowser
<1>2. CASE HasFocus("browse") /\ ShowModal(NewBrowser("file",
             [screen |-> screen, field |-> "input"], Trim(field["input"].value)))
  BY <1>1, <1>2, Buttons, OpensFor, ModalStep
<1>3. CASE HasFocus("browseOutput") /\ ShowModal(NewBrowser("directory",
             [screen |-> screen, field |-> "output"], Trim(field["output"].value)))
  BY <1>1, <1>3, Buttons, OpensFor, ModalStep DEF Browsing
<1> QED
  BY <1>2, <1>3 DEF OpenBrowser

LEMMA MoveInBrowserStep ==
    ASSUME FormsInv, MoveInBrowser
    PROVE  FormsInv'
<1>1. PICK b \in BrowserMoves(modal) : ShowModal(b)
  BY DEF MoveInBrowser
<1>2. IsFor(modal, screen) /\ status = "idle" /\ UNCHANGED rate
  BY DEF FormsInv, BrowserOK, MoveInBrowser
<1>3. IsFor(b, screen)
  BY <1>2, MovesAre
<1> QED
  BY <1>1, <1>2, <1>3, ModalStep

\* What is picked is a text like any typed: what is derived from it is derived again.
LEMMA PickStep ==
    ASSUME FormsInv, Pick
    PROVE  FormsInv'
<1>1. PICK v : Derive(modal.target.field, Text(v))
  BY DEF Pick
<1>2. IsFor(modal, screen) /\ status = "idle"
  BY DEF FormsInv, BrowserOK, Pick
<1>3. modal' = NoModal /\ UNCHANGED <<screen, focus, status, selected, rate, touched>>
  BY DEF Pick
<1>4. /\ modal.target.field \in FieldNames
      /\ ~(modal.target.field = "output" /\ screen = "lockFileForm")
  BY <1>2 DEF IsFor, FieldNames
<1>5. FieldsOK' /\ OutputFollowsInput' /\ EstimateIsOfInput'
  BY <1>1, <1>3, <1>4, TextsAre, DeriveStep
<1>6. FocusOK' /\ BrowserOK'
  BY <1>3, DialogsAre DEF FormsInv, FocusOK, BrowserOK
<1> QED
  BY <1>5, <1>6 DEF FormsInv

\* Enter on the buttons and Esc: another screen, or a dialog over the same one.
LEMMA ButtonStep ==
    ASSUME FormsInv,
           \/ Leave \/ Choose \/ StartLock \/ StartUnlock \/ StartInspect
           \/ FollowUp \/ UnlockInspected
    PROVE  FormsInv'
<1>1. modal.kind # "browser" /\ FocusOK
  BY DialogsAre DEF FormsInv, Leave, StartLock, StartUnlock, StartInspect, FollowUp,
                    UnlockInspected, Choose
<1>2. {"menu", "lockProgress", "unlockProgress"} \subseteq Screens
  BY DEF Screens, Foci
<1>3. status = "idle" \/ screen = "verifyForm"
  BY DEF FormsInv, BrowserOK
<1>4. CASE Leave
  BY <1>1, <1>2, <1>4, ShownAlone DEF Leave, ToMenu
<1>5. CASE StartLock
  BY <1>1, <1>2, <1>5, ShownAlone, RefuseStep DEF StartLock, RunLock
<1>6. CASE StartUnlock
  BY <1>1, <1>2, <1>6, ShownAlone, RefuseStep DEF StartUnlock, RunUnlock
<1>7. CASE StartInspect
  BY <1>1, <1>3, <1>7, InspectStep, RefuseStep DEF StartInspect
<1>8. CASE FollowUp
  <2>1. CASE HasFocus("inspect") /\ RunInspect(result)
    <3>1. screen # "verifyForm"
      BY <1>1, <2>1 DEF FocusOK, HasFocus, Foci, VerifyFoci
    <3> QED
      BY <1>1, <1>3, <2>1, <3>1, InspectStep
  <2>2. CASE /\ modal' = Notice
             /\ UNCHANGED <<screen, focus, form, status, selected, result, rate, disk, fresh>>
    <3>1. BrowserOK'
      BY <2>2, DialogsAre DEF FormsInv, BrowserOK
    <3> QED
      BY <2>2, <3>1, FormStays DEF FormsInv, form
  <2> QED
    BY <1>8, <2>1, <2>2, RefuseStep DEF FollowUp
<1>9. CASE UnlockInspected
  BY <1>1, <1>2, <1>9, ShownAlone DEF UnlockInspected, RunUnlock
<1>10. CASE Choose
  <2>1. MAIN_MENU_ITEMS[selected + 1] \in Screens
    BY <1>1 DEF FocusOK, MAIN_MENU_ITEMS, Screens, Foci
  <2> QED
    BY <1>1, <1>10, <2>1, ShownAlone DEF Choose
<1> QED
  BY <1>4, <1>5, <1>6, <1>7, <1>8, <1>9, <1>10

\* Workers end and fail, the rate arrives, other programs write the disk.
LEMMA EventStep ==
    ASSUME FormsInv, WorkerEnds \/ WorkerFails \/ RateArrives \/ DiskChanges \/ Quit
    PROVE  FormsInv'
<1>1. /\ {"lockComplete", "unlockComplete", "unlockedText", "verifyDetails", "menu", "quit"}
            \subseteq Screens
      /\ status # "idle" => modal.kind # "browser"
  BY DEF FormsInv, BrowserOK, Screens, Foci
<1>2. CASE WorkerEnds
  BY <1>1, <1>2, ShownAlone, DialogsAre DEF WorkerEnds
<1>3. CASE WorkerFails
  <2>1. CASE Show("menu") /\ modal' = Notice
    BY <1>1, <2>1, ShownAlone, DialogsAre
  <2>2. CASE /\ status' = "idle" /\ modal' = Notice
             /\ UNCHANGED <<screen, focus, form, selected, result, rate, disk, fresh>>
    <3>1. BrowserOK'
      BY <2>2, DialogsAre DEF FormsInv, BrowserOK
    <3> QED
      BY <2>2, <3>1, FormStays DEF FormsInv, form
  <2> QED
    BY <1>3, <2>1, <2>2 DEF WorkerFails
<1>4. CASE RateArrives
  <2>1. /\ UNCHANGED <<screen, focus, field, touched, status, selected, modal>> /\ rate' = TRUE
        /\ screen = "unlockForm" => estimate' = refresh_unlock_estimate(field["input"].value, TRUE)
    BY <1>4 DEF RateArrives
  <2>2. FocusOK' /\ FieldsOK' /\ BrowserOK' /\ OutputFollowsInput'
    BY <2>1 DEF FormsInv, FocusOK, FieldsOK, BrowserOK, OutputFollowsInput
  <2>3. EstimateIsOfInput'
    <3>1. SUFFICES ASSUME screen = "unlockForm" PROVE EstimateIsOfInput'
      BY <2>1 DEF EstimateIsOfInput
    <3>2. Typed("input")' = Trim(field["input"].value)
      BY <2>1 DEF Typed
    <3>3. estimate' = refresh_unlock_estimate(field["input"].value, TRUE)
      BY <2>1, <3>1
    <3> QED
      BY <3>2, <3>3, EstimatesAre DEF EstimateIsOfInput
  <2> QED
    BY <2>2, <2>3 DEF FormsInv
<1>5. CASE DiskChanges
  <2>1. BrowserOK'
    BY <1>5 DEF DiskChanges, FormsInv, BrowserOK
  <2> QED
    BY <1>5, <2>1, FormStays DEF DiskChanges, FormsInv, form
<1>6. CASE Quit
  BY <1>1, <1>6, ShownAlone, DialogsAre DEF Quit
<1> QED
  BY <1>2, <1>3, <1>4, <1>5, <1>6

LEMMA FormsStep ==
    ASSUME FormsInv, FormsNext
    PROVE  FormsInv'
<1>1. CASE ChangeProfile
  <2>1. BrowserOK'
    BY <1>1 DEF ChangeProfile, FormsInv, BrowserOK
  <2> QED
    BY <1>1, <2>1, FormStays DEF ChangeProfile, FormsInv
<1>2. CASE CloseModal
  BY <1>2, ModalStep, DialogsAre DEF CloseModal
<1>3. CASE StartVerify
  <2>1. CASE Refuse
    BY <2>1, RefuseStep
  <2>2. CASE UNCHANGED <<screen, focus, form, selected, result, modal, rate, disk, fresh>>
    <3>1. BrowserOK'
      BY <1>3, <2>2, DialogsAre DEF StartVerify, BrowserOK
    <3> QED
      BY <2>2, <3>1, FormStays DEF FormsInv, form
  <2> QED
    BY <1>3, <2>1, <2>2 DEF StartVerify
<1>4. CASE CancelVerify
  <2>1. BrowserOK'
    BY <1>4, DialogsAre DEF CancelVerify, FormsInv, BrowserOK
  <2> QED
    BY <1>4, <2>1, FormStays DEF CancelVerify, FormsInv, form
<1>5. CASE MoveInMenu
  <2>1. UNCHANGED <<screen, focus, field, touched, estimate, status, modal, rate>>
    BY <1>5 DEF MoveInMenu, form
  <2>2. selected' \in 0..(Len(MAIN_MENU_ITEMS) - 1)
    BY <1>5 DEF MoveInMenu, FormsInv, FocusOK, MAIN_MENU_ITEMS
  <2> QED
    BY <2>1, <2>2 DEF FormsInv, FocusOK, FieldsOK, BrowserOK, OutputFollowsInput,
                      EstimateIsOfInput, Typed
<1> QED
  BY <1>1, <1>2, <1>3, <1>4, <1>5, MoveFocusStep, EditFieldStep, OpenBrowserStep,
     MoveInBrowserStep, PickStep, ButtonStep, EventStep DEF FormsNext

-------------------------------------------------------------------------------
(* Both front ends.                                                          *)

\* The invariants hold at first and are kept by every step.
LEMMA ShownInvariant ==
    /\ Init => FormsInv /\ CliInv
    /\ FormsInv /\ CliInv /\ [Next]_vars => (FormsInv /\ CliInv)'
<1>1. Init => FormsInv /\ CliInv
  <2>1. SUFFICES ASSUME Init PROVE FormsInv /\ CliInv
    OBVIOUS
  <2>2. CliInv
    BY <2>1 DEF Init, CliInit, CliInv
  <2>3. "menu" \in Screens /\ DOMAIN Foci["menu"] = {1}
    BY DEF Screens, Foci
  <2>4. FocusOK
    BY <2>1, <2>3 DEF Init, FormsInit, FocusOK, MAIN_MENU_ITEMS
  <2>5. FieldsOK
    BY <2>1, TextsAre DEF Init, FormsInit, FieldsOK, NoFields, Empty
  <2>6. BrowserOK /\ OutputFollowsInput /\ EstimateIsOfInput
    BY <2>1, DialogsAre DEF Init, FormsInit, BrowserOK, OutputFollowsInput, EstimateIsOfInput
  <2> QED
    BY <2>2, <2>4, <2>5, <2>6 DEF FormsInv
<1>2. FormsInv /\ UNCHANGED forms => FormsInv'
  <2>1. SUFFICES ASSUME FormsInv, UNCHANGED forms PROVE FormsInv'
    OBVIOUS
  <2>2. BrowserOK'
    BY <2>1 DEF forms, FormsInv, BrowserOK
  <2> QED
    BY <2>1, <2>2, FormStays DEF forms, form, FormsInv
<1>3. FormsInv /\ CliInv /\ [Next]_vars => (FormsInv /\ CliInv)'
  <2>1. SUFFICES ASSUME FormsInv, CliInv, [Next]_vars PROVE (FormsInv /\ CliInv)'
    OBVIOUS
  <2>2. CASE CliNext /\ UNCHANGED forms
    BY <1>2, <2>1, <2>2, CliStep
  <2>3. CASE FormsNext /\ UNCHANGED cli
    BY <2>1, <2>3, FormsStep, CliStays
  <2>4. CASE TuiEnds
    <3>1. FormsInv'
      BY <1>2, <2>1, <2>4, EventStep DEF TuiEnds
    <3>2. CliInv'
      BY <2>1, <2>4 DEF TuiEnds, End, CliInv, remaining_attempts
    <3> QED
      BY <3>1, <3>2
  <2>5. CASE UNCHANGED vars
    BY <1>2, <2>1, <2>5, CliStays DEF vars
  <2> QED
    BY <2>1, <2>2, <2>3, <2>4, <2>5 DEF Next
<1> QED
  BY <1>1, <1>3

\* What the user reads is so, whatever is typed, picked and answered, however the disk
\* changes meanwhile and whenever the machine's speed becomes known: the output path and
\* the estimate are those of the file on the form, and a prompt counts attempts down right.
THEOREM WhatIsShownIsTrue == Spec => []ShownIsTrue
<1>1. FormsInv /\ CliInv => ShownIsTrue
  BY DEF FormsInv, CliInv, ShownIsTrue, AttemptsLeft, remaining_attempts, MAX_PASSWORD_ATTEMPTS
<1> QED
  BY <1>1, ShownInvariant, PTL DEF Spec

-------------------------------------------------------------------------------
(* What a key does to a text, of any length.                                 *)

\* A text field holds characters, and its cursor stands before one or at the end.
Stands(v, c) == v \in Seq(Characters) /\ c \in 0..Len(v)

IsText(f) == DOMAIN f = TextParts /\ f.armed \in BOOLEAN /\ Stands(f.value, f.cursor)

\* What Max and Min choose of two numbers.
LEMMA Bigger ==
    ASSUME NEW m \in Int, NEW n \in Int
    PROVE  /\ Max({m, n}) = IF m >= n THEN m ELSE n
           /\ Min({m, n}) = IF m <= n THEN m ELSE n
<1>1. \E k \in {m, n} : \A y \in {m, n} : k >= y
  OBVIOUS
<1>2. \E k \in {m, n} : \A y \in {m, n} : k <= y
  OBVIOUS
<1> QED
  BY <1>1, <1>2 DEF Max, Min

\* What is left without one character.
LEMMA Erased ==
    ASSUME NEW s \in Seq(Characters), NEW i \in DOMAIN s
    PROVE  RemoveAt(s, i) \in Seq(Characters) /\ Len(RemoveAt(s, i)) = Len(s) - 1
<1> DEFINE before == SubSeq(s, 1, i - 1)
           after  == SubSeq(s, i + 1, Len(s))
<1>1. i \in 1..Len(s) /\ Len(s) \in Nat /\ \A j \in 1..Len(s) : s[j] \in Characters
  OBVIOUS
<1>2. before \in Seq(Characters) /\ Len(before) = i - 1
  <2>1. \A j \in 1..(i - 1) : s[j] \in Characters
    BY <1>1
  <2>2. before \in Seq(Characters) /\ Len(before) = IF 1 <= i - 1 THEN i - 1 - 1 + 1 ELSE 0
    BY <1>1, <2>1, SubSeqProperties
  <2> QED
    BY <1>1, <2>2
<1>3. after \in Seq(Characters) /\ Len(after) = Len(s) - i
  <2>1. \A j \in (i + 1)..Len(s) : s[j] \in Characters
    BY <1>1
  <2>2. after \in Seq(Characters)
        /\ Len(after) = IF i + 1 <= Len(s) THEN Len(s) - (i + 1) + 1 ELSE 0
    BY <1>1, <2>1, SubSeqProperties
  <2> QED
    BY <1>1, <2>2
<1>4. RemoveAt(s, i) = before \o after
  BY DEF RemoveAt
<1> HIDE DEF before, after
<1>5. before \o after \in Seq(Characters) /\ Len(before \o after) = Len(before) + Len(after)
  BY <1>2, <1>3, ConcatProperties
<1> QED
  BY <1>1, <1>2, <1>3, <1>4, <1>5

\* What is typed can be taken away again.
LEMMA Inserted ==
    ASSUME NEW s \in Seq(Characters), NEW c \in Characters, NEW k \in 0..Len(s)
    PROVE  /\ InsertAt(s, k + 1, c) \in Seq(Characters)
           /\ Len(InsertAt(s, k + 1, c)) = Len(s) + 1
           /\ RemoveAt(InsertAt(s, k + 1, c), k + 1) = s
<1> DEFINE before == SubSeq(s, 1, k)
           after  == SubSeq(s, k + 1, Len(s))
           t      == InsertAt(s, k + 1, c)
<1>1. Len(s) \in Nat /\ k \in Int /\ \A j \in 1..Len(s) : s[j] \in Characters
  OBVIOUS
<1>2. /\ before \in Seq(Characters) /\ Len(before) = k /\ \A j \in 1..k : before[j] = s[j]
  <2>1. \A j \in 1..k : s[j] \in Characters
    BY <1>1
  <2>2. /\ before \in Seq(Characters) /\ Len(before) = IF 1 <= k THEN k - 1 + 1 ELSE 0
        /\ \A j \in 1..(k - 1 + 1) : before[j] = s[1 + j - 1]
    BY <1>1, <2>1, SubSeqProperties
  <2> QED
    BY <1>1, <2>2
<1>3. /\ after \in Seq(Characters) /\ Len(after) = Len(s) - k
      /\ \A j \in 1..(Len(s) - k) : after[j] = s[k + j]
  <2>1. \A j \in (k + 1)..Len(s) : s[j] \in Characters
    BY <1>1
  <2>2. /\ after \in Seq(Characters)
        /\ Len(after) = IF k + 1 <= Len(s) THEN Len(s) - (k + 1) + 1 ELSE 0
        /\ \A j \in 1..(Len(s) - (k + 1) + 1) : after[j] = s[(k + 1) + j - 1]
    BY <1>1, <2>1, SubSeqProperties
  <2> QED
    BY <1>1, <2>2
<1>4. t = before \o <<c>> \o after
  <2>1. (k + 1) - 1 = k
    BY <1>1
  <2>2. t = SubSeq(s, 1, (k + 1) - 1) \o <<c>> \o SubSeq(s, k + 1, Len(s))
    BY DEF InsertAt
  <2> QED
    BY <2>1, <2>2
<1>5. <<c>> \in Seq(Characters) /\ Len(<<c>>) = 1
  OBVIOUS
<1>6. /\ before \o <<c>> \in Seq(Characters) /\ Len(before \o <<c>>) = k + 1
      /\ \A j \in 1..k : (before \o <<c>>)[j] = s[j]
  <2>1. /\ before \o <<c>> \in Seq(Characters)
        /\ Len(before \o <<c>>) = Len(before) + Len(<<c>>)
        /\ \A j \in 1..(Len(before) + Len(<<c>>)) :
              (before \o <<c>>)[j] = IF j <= Len(before) THEN before[j] ELSE <<c>>[j - Len(before)]
    BY <1>2, <1>5, ConcatProperties
  <2> QED
    BY <1>1, <1>2, <1>5, <2>1
<1> DEFINE upto == before \o <<c>>
<1> HIDE DEF before, after, upto, t
<1>7. /\ t \in Seq(Characters) /\ Len(t) = Len(s) + 1
      /\ \A j \in 1..k : t[j] = s[j]
      /\ \A j \in (k + 2)..(Len(s) + 1) : t[j] = s[j - 1]
  <2>1. t = upto \o after /\ upto \in Seq(Characters) /\ Len(upto) = k + 1
        /\ \A j \in 1..k : upto[j] = s[j]
    BY <1>4, <1>6 DEF upto
  <2>2. /\ t \in Seq(Characters) /\ Len(t) = Len(upto) + Len(after)
        /\ \A j \in 1..(Len(upto) + Len(after)) :
              t[j] = IF j <= Len(upto) THEN upto[j] ELSE after[j - Len(upto)]
    BY <1>3, <2>1, ConcatProperties
  <2>3. Len(t) = Len(s) + 1 /\ Len(upto) + Len(after) = Len(s) + 1
    BY <1>1, <1>3, <2>1, <2>2
  <2>4. ASSUME NEW j \in 1..k PROVE t[j] = s[j]
    <3>1. j \in 1..(Len(upto) + Len(after)) /\ j <= Len(upto)
      BY <1>1, <2>1, <2>3
    <3> QED
      BY <2>1, <2>2, <3>1
  <2>5. ASSUME NEW j \in (k + 2)..(Len(s) + 1) PROVE t[j] = s[j - 1]
    <3>1. /\ j \in 1..(Len(upto) + Len(after)) /\ ~(j <= Len(upto))
          /\ j - Len(upto) \in 1..(Len(s) - k) /\ k + (j - Len(upto)) = j - 1
      BY <1>1, <2>1, <2>3
    <3>2. t[j] = after[j - Len(upto)]
      BY <2>2, <3>1
    <3>3. after[j - Len(upto)] = s[k + (j - Len(upto))]
      BY <1>3, <3>1
    <3> QED
      BY <3>1, <3>2, <3>3
  <2> QED
    BY <2>2, <2>3, <2>4, <2>5
<1> DEFINE left == SubSeq(t, 1, k)
           right == SubSeq(t, k + 2, Len(s) + 1)
<1>8. /\ left \in Seq(Characters) /\ Len(left) = k /\ \A j \in 1..k : left[j] = s[j]
  <2>1. \A j \in 1..k : t[j] \in Characters
    BY <1>1, <1>7
  <2>2. /\ left \in Seq(Characters) /\ Len(left) = IF 1 <= k THEN k - 1 + 1 ELSE 0
        /\ \A j \in 1..(k - 1 + 1) : left[j] = t[1 + j - 1]
    BY <1>1, <2>1, SubSeqProperties
  <2> QED
    BY <1>1, <1>7, <2>2
<1>9. /\ right \in Seq(Characters) /\ Len(right) = Len(s) - k
      /\ \A j \in 1..(Len(s) - k) : right[j] = s[k + j]
  <2>1. \A j \in (k + 2)..(Len(s) + 1) : t[j] \in Characters
    BY <1>1, <1>7
  <2>2. /\ right \in Seq(Characters)
        /\ Len(right) = IF k + 2 <= Len(s) + 1 THEN Len(s) + 1 - (k + 2) + 1 ELSE 0
        /\ \A j \in 1..(Len(s) + 1 - (k + 2) + 1) : right[j] = t[(k + 2) + j - 1]
    BY <1>1, <2>1, SubSeqProperties
  <2>3. Len(right) = Len(s) - k
    BY <1>1, <2>2
  <2>4. ASSUME NEW j \in 1..(Len(s) - k) PROVE right[j] = s[k + j]
    <3>1. /\ j \in 1..(Len(s) + 1 - (k + 2) + 1) /\ (k + 2) + j - 1 \in (k + 2)..(Len(s) + 1)
          /\ (k + 2) + j - 1 - 1 = k + j
      BY <1>1
    <3>2. right[j] = t[(k + 2) + j - 1] /\ t[(k + 2) + j - 1] = s[(k + 2) + j - 1 - 1]
      BY <1>7, <2>2, <3>1
    <3> QED
      BY <3>1, <3>2
  <2> QED
    BY <2>2, <2>3, <2>4
<1>10. RemoveAt(t, k + 1) = left \o right
  <2>1. (k + 1) - 1 = k /\ (k + 1) + 1 = k + 2 /\ Len(t) = Len(s) + 1
    BY <1>1, <1>7
  <2>2. RemoveAt(t, k + 1) = SubSeq(t, 1, (k + 1) - 1) \o SubSeq(t, (k + 1) + 1, Len(t))
    BY DEF RemoveAt
  <2> QED
    BY <2>1, <2>2
<1> HIDE DEF left, right
<1>11. /\ left \o right \in Seq(Characters) /\ Len(left \o right) = Len(s)
       /\ \A j \in 1..Len(s) : (left \o right)[j] = s[j]
  <2>1. /\ left \o right \in Seq(Characters) /\ Len(left \o right) = Len(left) + Len(right)
        /\ \A j \in 1..(Len(left) + Len(right)) :
              (left \o right)[j] = IF j <= Len(left) THEN left[j] ELSE right[j - Len(left)]
    BY <1>8, <1>9, ConcatProperties
  <2>2. Len(left) + Len(right) = Len(s)
    BY <1>1, <1>8, <1>9
  <2>3. ASSUME NEW j \in 1..k PROVE (left \o right)[j] = s[j]
    <3>1. j \in 1..(Len(left) + Len(right)) /\ j <= Len(left)
      BY <1>1, <1>8, <2>2
    <3> QED
      BY <1>8, <2>1, <3>1
  <2>4. ASSUME NEW j \in (k + 1)..Len(s) PROVE (left \o right)[j] = s[j]
    <3>1. /\ j \in 1..(Len(left) + Len(right)) /\ ~(j <= Len(left))
          /\ j - Len(left) \in 1..(Len(s) - k) /\ k + (j - Len(left)) = j
      BY <1>1, <1>8, <2>2
    <3>2. (left \o right)[j] = right[j - Len(left)] /\ right[j - Len(left)] = s[k + (j - Len(left))]
      BY <1>9, <2>1, <3>1
    <3> QED
      BY <3>1, <3>2
  <2>5. \A j \in 1..Len(s) : j \in 1..k \/ j \in (k + 1)..Len(s)
    BY <1>1
  <2> QED
    BY <2>1, <2>2, <2>3, <2>4, <2>5
<1>12. left \o right = s
  BY <1>11, SeqEqual
<1> QED
  BY <1>7, <1>10, <1>12 DEF t

\* What the keys are made of does to the parts of a text.
LEMMA EraseDoes ==
    ASSUME NEW f, DOMAIN f = TextParts, NEW i
    PROVE  /\ DOMAIN Erase(f, i) = TextParts /\ Erase(f, i).armed = f.armed
           /\ Erase(f, i).value = RemoveAt(f.value, i) /\ Erase(f, i).cursor = i - 1
BY DEF Erase, TextParts

LEMMA MoveDoes ==
    ASSUME NEW f, DOMAIN f = TextParts, NEW i
    PROVE  /\ DOMAIN MoveTo(f, i) = TextParts /\ MoveTo(f, i).armed = FALSE
           /\ MoveTo(f, i).value = f.value /\ MoveTo(f, i).cursor = i
BY DEF MoveTo, TextParts

LEMMA TypeDoes ==
    ASSUME NEW f, DOMAIN f = TextParts, NEW x
    PROVE  /\ DOMAIN Type(f, x) = TextParts /\ Type(f, x).armed = f.armed
           /\ Type(f, x).value = InsertAt(f.value, f.cursor + 1, x)
           /\ Type(f, x).cursor = f.cursor + 1
BY DEF Type, TextParts

\* A text stays one, and loses or gains one character at most.
Edits(f, g) == IsText(g) /\ OneEdit(f.value, g.value)

LEMMA PartsEdit ==
    ASSUME NEW f, IsText(f)
    PROVE  /\ IsText(Consume(f)) /\ (~f.armed => Consume(f) = f)
           /\ Edits(f, Backspace(f)) /\ Edits(f, Delete(f))
           /\ \A i \in 0..Len(f.value) : Edits(f, MoveTo(f, i))
           /\ \A x \in Characters : Edits(f, Type(f, x))
<1> HIDE DEF Characters
<1>1. /\ DOMAIN f = TextParts /\ f.armed \in BOOLEAN
      /\ f.value \in Seq(Characters) /\ f.cursor \in 0..Len(f.value)
      /\ Len(f.value) \in Nat /\ DOMAIN f.value = 1..Len(f.value)
  BY DEF IsText, Stands
<1>2. IsText(Consume(f)) /\ (~f.armed => Consume(f) = f)
  <2>1. IsText(Empty)
    BY DEF Empty, Text, IsText, Stands, TextParts
  <2> QED
    BY <2>1 DEF Consume
<1>3. ASSUME NEW i \in 1..Len(f.value) PROVE Edits(f, Erase(f, i))
  <2>1. RemoveAt(f.value, i) \in Seq(Characters) /\ Len(RemoveAt(f.value, i)) = Len(f.value) - 1
    BY <1>1, Erased
  <2>2. Stands(RemoveAt(f.value, i), i - 1)
    BY <1>1, <2>1 DEF Stands
  <2>3. /\ DOMAIN Erase(f, i) = TextParts /\ Erase(f, i).armed = f.armed
        /\ Erase(f, i).value = RemoveAt(f.value, i) /\ Erase(f, i).cursor = i - 1
    BY <1>1, EraseDoes
  <2>4. OneEdit(f.value, Erase(f, i).value)
    BY <1>1, <2>3 DEF OneEdit
  <2>5. IsText(Erase(f, i))
    BY <1>1, <2>2, <2>3 DEF IsText
  <2> QED
    BY <2>4, <2>5 DEF Edits
<1>4. Edits(f, f)
  BY DEF Edits, OneEdit
<1>5. Edits(f, Backspace(f))
  <2>1. f.cursor # 0 => f.cursor \in 1..Len(f.value)
    BY <1>1
  <2> QED
    BY <1>3, <1>4, <2>1 DEF Backspace
<1>6. Edits(f, Delete(f))
  <2>1. f.cursor # Len(f.value) => f.cursor + 1 \in 1..Len(f.value)
    BY <1>1
  <2>2. Delete(f) = f \/ (f.cursor # Len(f.value) /\ Delete(f) = Erase(f, f.cursor + 1))
    BY DEF Delete
  <2> QED
    BY <1>3, <1>4, <2>1, <2>2
<1>7. ASSUME NEW i \in 0..Len(f.value) PROVE Edits(f, MoveTo(f, i))
  <2>1. /\ DOMAIN MoveTo(f, i) = TextParts /\ MoveTo(f, i).armed = FALSE
        /\ MoveTo(f, i).value = f.value /\ MoveTo(f, i).cursor = i
    BY <1>1, MoveDoes
  <2>2. Stands(f.value, i)
    BY <1>1 DEF Stands
  <2>3. IsText(MoveTo(f, i))
    BY <2>1, <2>2 DEF IsText
  <2>4. OneEdit(f.value, f.value)
    BY DEF OneEdit
  <2> QED
    BY <2>1, <2>3, <2>4 DEF Edits
<1>8. ASSUME NEW x \in Characters PROVE Edits(f, Type(f, x))
  <2> DEFINE t == InsertAt(f.value, f.cursor + 1, x)
  <2>1. t \in Seq(Characters) /\ Len(t) = Len(f.value) + 1 /\ RemoveAt(t, f.cursor + 1) = f.value
    BY <1>1, Inserted
  <2>2. /\ DOMAIN Type(f, x) = TextParts /\ Type(f, x).armed = f.armed
        /\ Type(f, x).value = t /\ Type(f, x).cursor = f.cursor + 1
    BY <1>1, TypeDoes
  <2> HIDE DEF t
  <2>3. f.cursor + 1 \in DOMAIN t /\ Stands(t, f.cursor + 1)
    BY <1>1, <2>1 DEF Stands
  <2>4. OneEdit(f.value, t)
    BY <2>1, <2>3 DEF OneEdit
  <2>5. IsText(Type(f, x))
    BY <1>1, <2>2, <2>3 DEF IsText
  <2> QED
    BY <2>2, <2>4, <2>5 DEF Edits
<1> QED
  BY <1>2, <1>5, <1>6, <1>7, <1>8

\* Whatever the key, the cursor stays in the text; and unless the text was to be replaced,
\* as it is by the first character after the focus came to it, a key changes one character.
THEOREM KeysEditOneCharacter ==
    ASSUME NEW f, IsText(f), NEW key \in FieldKeys
    PROVE  /\ IsText(apply_key(f, key))
           /\ ~f.armed => OneEdit(f.value, apply_key(f, key).value)
<1>1. Len(f.value) \in Nat /\ f.cursor \in 0..Len(f.value)
  BY DEF IsText, Stands
<1>2. /\ Max({0, f.cursor - 1}) \in 0..Len(f.value)
      /\ Min({Len(f.value), f.cursor + 1}) \in 0..Len(f.value)
  <2>1. 0 \in Int /\ f.cursor - 1 \in Int /\ Len(f.value) \in Int /\ f.cursor + 1 \in Int
    BY <1>1
  <2>2. /\ Max({0, f.cursor - 1}) = IF 0 >= f.cursor - 1 THEN 0 ELSE f.cursor - 1
        /\ Min({Len(f.value), f.cursor + 1})
              = IF Len(f.value) <= f.cursor + 1 THEN Len(f.value) ELSE f.cursor + 1
    BY <2>1, Bigger
  <2> QED
    BY <1>1, <2>2
<1>3. CASE key \in {"left", "right", "home", "end"}
  <2>1. 0 \in 0..Len(f.value) /\ Len(f.value) \in 0..Len(f.value)
    BY <1>1
  <2>2. \E i \in 0..Len(f.value) : apply_key(f, key) = MoveTo(f, i)
    <3>1. CASE key = "left"
      BY <1>2, <3>1 DEF apply_key
    <3>2. CASE key = "right"
      BY <1>2, <3>2 DEF apply_key
    <3>3. CASE key = "home"
      BY <2>1, <3>3 DEF apply_key
    <3>4. CASE key = "end"
      BY <2>1, <3>4 DEF apply_key
    <3> QED
      BY <1>3, <3>1, <3>2, <3>3, <3>4
  <2> QED
    BY <2>2, PartsEdit DEF Edits
<1>4. ASSUME NEW g, IsText(g) PROVE Edits(g, Backspace(g)) /\ Edits(g, Delete(g))
  BY <1>4, PartsEdit
<1>5. CASE key \in {"backspace", "delete"}
  <2>1. apply_key(f, key) \in {Backspace(Consume(f)), Delete(Consume(f))}
    BY <1>5 DEF apply_key
  <2> QED
    BY <1>4, <2>1, PartsEdit DEF Edits
<1>6. CASE key \notin {"left", "right", "home", "end", "backspace", "delete"}
  <2>1. key \in Letters \cup {Blank}
    BY <1>6 DEF FieldKeys
  <2>2. key # NotText
    BY <2>1, FormsAssumption DEF Blank, NotText
  <2>3. key \in Characters
    BY <2>1, <2>2 DEF Characters
  <2>4. apply_key(f, key) = Type(Consume(f), key)
    BY <1>6 DEF apply_key
  <2>5. Edits(Consume(f), Type(Consume(f), key))
    BY <2>3, PartsEdit
  <2> QED
    BY <2>4, <2>5, PartsEdit DEF Edits
<1> QED
  BY <1>3, <1>5, <1>6

-------------------------------------------------------------------------------
(* What is left of a text without its blanks, and the parts of a path.       *)

\* Texts, and the paths a disk may have, which need not be texts.
Texts == Seq(Characters)
Paths == Seq(PathCharacters)

LEMMA PartIs ==
    ASSUME NEW Words \in {Texts, Paths}, NEW s \in Words, NEW i \in Nat \ {0}, NEW j \in Int, j <= Len(s)
    PROVE  /\ SubSeq(s, i, j) \in Words
           /\ Len(SubSeq(s, i, j)) = IF i <= j THEN j - i + 1 ELSE 0
           /\ \A k \in 1..(j - i + 1) : SubSeq(s, i, j)[k] = s[i + k - 1]
<1>1. PICK C : Words = Seq(C)
  BY DEF Texts, Paths
<1>2. Len(s) \in Nat /\ \A k \in 1..Len(s) : s[k] \in C
  BY <1>1
<1>3. \A k \in i..j : s[k] \in C
  BY <1>2
<1> QED
  BY <1>1, <1>3, SubSeqProperties

\* What every text has.
LEMMA TextIs ==
    ASSUME NEW Words \in {Texts, Paths}, NEW s \in Words
    PROVE  /\ Len(s) \in Nat /\ DOMAIN s = 1..Len(s)
           /\ Len(s) = 0 <=> s = << >>
<1>1. PICK C : Words = Seq(C)
  BY DEF Texts, Paths
<1> QED
  BY <1>1, EmptySeq, LenProperties

LEMMA JoinedIs ==
    ASSUME NEW Words \in {Texts, Paths}, NEW s \in Words, NEW t \in Words
    PROVE  /\ s \o t \in Words /\ Len(s \o t) = Len(s) + Len(t)
           /\ s # << >> => s \o t # << >> /\ (s \o t)[1] = s[1]
           /\ s = << >> => s \o t = t
           /\ t # << >> => s \o t # << >> /\ (s \o t)[Len(s \o t)] = t[Len(t)]
<1>1. /\ s \o t \in Words /\ Len(s \o t) = Len(s) + Len(t)
      /\ \A i \in 1..(Len(s) + Len(t)) :
            (s \o t)[i] = IF i <= Len(s) THEN s[i] ELSE t[i - Len(s)]
  <2>1. PICK C : Words = Seq(C)
    BY DEF Texts, Paths
  <2> QED
    BY <2>1, ConcatProperties
<1>2. Len(s) \in Nat /\ Len(t) \in Nat
  BY TextIs
<1>3. s # << >> => s \o t # << >> /\ (s \o t)[1] = s[1]
  <2>1. SUFFICES ASSUME s # << >> PROVE s \o t # << >> /\ (s \o t)[1] = s[1]
    OBVIOUS
  <2>2. Len(s) > 0
    BY <1>2, <2>1, TextIs
  <2>3. 1 \in 1..(Len(s) + Len(t)) /\ 1 <= Len(s) /\ Len(s \o t) # 0
    BY <1>1, <1>2, <2>2
  <2> QED
    BY <1>1, <2>3, TextIs
<1>4. t # << >> => s \o t # << >> /\ (s \o t)[Len(s \o t)] = t[Len(t)]
  <2>1. SUFFICES ASSUME t # << >> PROVE s \o t # << >> /\ (s \o t)[Len(s \o t)] = t[Len(t)]
    OBVIOUS
  <2>2. Len(t) > 0
    BY <1>2, <2>1, TextIs
  <2>3. PICK n \in Nat : n = Len(s) + Len(t)
    BY <1>2
  <2>4. n \in 1..(Len(s) + Len(t)) /\ ~(n <= Len(s)) /\ n - Len(s) = Len(t) /\ Len(s \o t) = n
        /\ n # 0
    BY <1>1, <1>2, <2>2, <2>3
  <2> QED
    BY <1>1, <2>4, TextIs
<1>5. s = << >> => s \o t = t
  <2>1. PICK C : Words = Seq(C)
    BY DEF Texts, Paths
  <2> QED
    BY <2>1, ConcatEmptySeq
<1> QED
  BY <1>1, <1>3, <1>4, <1>5

LEMMA AppendedIs ==
    ASSUME NEW s \in Texts, NEW c \in Characters
    PROVE  /\ Append(s, c) \in Texts /\ Append(s, c) # << >>
           /\ Append(s, c)[Len(Append(s, c))] = c
           /\ s # << >> => Append(s, c)[1] = s[1]
<1>1. /\ Append(s, c) \in Texts /\ Append(s, c) # << >> /\ Len(Append(s, c)) = Len(s) + 1
      /\ Append(s, c)[Len(s) + 1] = c /\ \A i \in 1..Len(s) : Append(s, c)[i] = s[i]
  BY AppendProperties DEF Texts
<1>2. s # << >> => 1 \in 1..Len(s)
  BY TextIs
<1> QED
  BY <1>1, <1>2

\* The least and the greatest of some places in a text.
LEMMA EndsOf ==
    ASSUME NEW n \in Nat, NEW T, T \subseteq 1..n, T # {}
    PROVE  /\ Min(T) \in T /\ \A k \in T : Min(T) <= k
           /\ Max(T) \in T /\ \A k \in T : k <= Max(T)
<1>1. T \subseteq Nat
  OBVIOUS
<1>2. \E x \in T : \A y \in T : x <= y
  BY <1>1, Least
<1>3. Min(T) \in T /\ \A y \in T : Min(T) <= y
  BY <1>2 DEF Min
<1> QED
  BY <1>3, MaxIs

\* A text that begins and ends with something else than a blank.
IsTrimmed(s) == s \in Texts /\ (s # << >> => s[1] # Blank /\ s[Len(s)] # Blank)

LEMMA TrimIs ==
    ASSUME NEW s \in Texts
    PROVE  IsTrimmed(Trim(s))
<1> DEFINE kept == {i \in DOMAIN s : s[i] # Blank}
<1>1. << >> \in Texts
  BY EmptySeq DEF Texts
<1>2. CASE kept = {}
  BY <1>1, <1>2 DEF Trim, IsTrimmed
<1>3. CASE kept # {}
  <2>1. Len(s) \in Nat /\ kept \subseteq 1..Len(s)
    BY TextIs
  <2>2. PICK a \in kept, b \in kept : a = Min(kept) /\ b = Max(kept) /\ a <= b
    BY <1>3, <2>1, EndsOf
  <2>3. Trim(s) = SubSeq(s, a, b)
    BY <1>3, <2>2 DEF Trim
  <2>4. a \in Nat \ {0} /\ b \in Int /\ b <= Len(s)
    BY <2>1, <2>2
  <2>5. /\ SubSeq(s, a, b) \in Texts /\ Len(SubSeq(s, a, b)) = b - a + 1
        /\ \A k \in 1..(b - a + 1) : SubSeq(s, a, b)[k] = s[a + k - 1]
    <3>1. Len(SubSeq(s, a, b)) = IF a <= b THEN b - a + 1 ELSE 0
      BY <2>4, PartIs
    <3>2. SubSeq(s, a, b) \in Texts
      BY <2>4, PartIs
    <3>3. \A k \in 1..(b - a + 1) : SubSeq(s, a, b)[k] = s[a + k - 1]
      BY <2>4, PartIs
    <3> QED
      BY <2>2, <3>1, <3>2, <3>3
  <2>6. /\ 1 \in 1..(b - a + 1) /\ a + 1 - 1 = a
        /\ b - a + 1 \in 1..(b - a + 1) /\ a + (b - a + 1) - 1 = b
    BY <2>2, <2>4
  <2>7. s[a] # Blank /\ s[b] # Blank
    BY <2>2
  <2> QED
    BY <2>3, <2>5, <2>6, <2>7 DEF IsTrimmed
<1> QED
  BY <1>2, <1>3

LEMMA TrimStays ==
    ASSUME NEW s, IsTrimmed(s)
    PROVE  Trim(s) = s
<1>1. s \in Texts
  BY DEF IsTrimmed
<1>2. CASE s = << >>
  BY <1>2, NothingTyped
<1>3. CASE s # << >>
  <2> DEFINE kept == {i \in DOMAIN s : s[i] # Blank}
  <2>1. Len(s) \in Nat /\ Len(s) # 0 /\ DOMAIN s = 1..Len(s)
    BY <1>1, <1>3, TextIs
  <2>2. 1 \in kept /\ Len(s) \in kept /\ kept \subseteq 1..Len(s) /\ kept # {}
    BY <1>3, <2>1 DEF IsTrimmed
  <2>3. Min(kept) = 1 /\ Max(kept) = Len(s)
    <3>1. /\ Min(kept) \in 1..Len(s) /\ Min(kept) <= 1
          /\ Max(kept) \in 1..Len(s) /\ Len(s) <= Max(kept)
      BY <2>1, <2>2, EndsOf
    <3> QED
      BY <2>1, <3>1
  <2>4. Trim(s) = SubSeq(s, 1, Len(s))
    BY <2>2, <2>3 DEF Trim
  <2> QED
    BY <1>1, <2>4, SubSeqFull DEF Texts
<1> QED
  BY <1>2, <1>3

LEMMA SeparatorsAre ==
    /\ {"/", Ext, Blank, Replacement} \subseteq Characters
    /\ \A Words \in {Texts, Paths} : << >> \in Words /\ <<"/">> \in Words
<1>1. {"/", Ext, Blank, Replacement} \subseteq Characters
  BY DEF Characters, NotText, Ext, Blank, Replacement
<1>2. \A C : Characters \subseteq C => <<"/">> \in Seq(C)
  BY <1>1
<1>3. Characters \subseteq PathCharacters
  BY DEF PathCharacters
<1> QED
  BY <1>1, <1>2, <1>3, EmptySeq DEF Texts, Paths

\* Without its last separators a path still begins where it did.
LEMMA BareIs ==
    ASSUME NEW Words \in {Texts, Paths}, NEW p \in Words
    PROVE  /\ Bare(p) \in Words /\ Len(Bare(p)) <= Len(p)
           /\ Bare(p) = << >> <=> p = << >>
           /\ p # << >> => Bare(p)[1] = p[1]
<1> DEFINE names == {i \in DOMAIN p : p[i] # "/"}
           n     == IF names = {} THEN Min({1, Len(p)}) ELSE Max(names)
<1>1. Len(p) \in Nat /\ names \subseteq 1..Len(p) /\ (Len(p) = 0 <=> p = << >>)
  BY TextIs
<1>2. n \in 0..Len(p) /\ (p # << >> => n >= 1)
  <2>1. CASE names = {}
    <3>1. 1 \in Int /\ Len(p) \in Int
      BY <1>1
    <3>2. Min({1, Len(p)}) = IF 1 <= Len(p) THEN 1 ELSE Len(p)
      BY <3>1, Bigger
    <3> QED
      BY <1>1, <2>1, <3>2
  <2>2. CASE names # {}
    <3>1. Max(names) \in 1..Len(p)
      BY <1>1, <2>2, EndsOf
    <3> QED
      BY <2>2, <3>1
  <2> QED
    BY <2>1, <2>2
<1>3. Bare(p) = SubSeq(p, 1, n)
  BY DEF Bare
<1> HIDE DEF n, names
<1>4. /\ Bare(p) \in Words /\ Len(Bare(p)) = n
      /\ \A k \in 1..n : Bare(p)[k] = p[k]
  <2>1. /\ 1 \in Nat \ {0} /\ n \in Int /\ n <= Len(p) /\ n - 1 + 1 = n
        /\ \A k \in 1..n : 1 + k - 1 = k
    BY <1>1, <1>2
  <2>2. /\ Bare(p) \in Words /\ Len(Bare(p)) = IF 1 <= n THEN n - 1 + 1 ELSE 0
        /\ \A k \in 1..(n - 1 + 1) : Bare(p)[k] = p[1 + k - 1]
    BY <1>3, <2>1, PartIs
  <2> QED
    BY <1>1, <1>2, <2>1, <2>2
<1>5. p # << >> => n >= 1 /\ 1 \in 1..n /\ Len(Bare(p)) # 0
  BY <1>2, <1>4
<1>6. p = << >> => Len(Bare(p)) = 0
  BY <1>1, <1>2, <1>4
<1> QED
  BY <1>1, <1>2, <1>4, <1>5, <1>6, TextIs

LEMMA NameAtIs ==
    ASSUME NEW Words \in {Texts, Paths}, NEW p \in Words
    PROVE  /\ NameAt(p) \in 1..(Len(p) + 1)
           /\ p = <<"/">> => NameAt(p) = 2
<1> DEFINE T == {0} \cup {i \in DOMAIN p : p[i] = "/"}
<1>1. Len(p) \in Nat /\ T \subseteq 0..Len(p) /\ T # {}
  BY TextIs
<1>2. PICK x \in T : \A y \in T : y <= x
  BY <1>1, Greatest
<1>3. Max(T) \in T /\ \A y \in T : y <= Max(T)
  <2>1. \E z \in T : \A y \in T : z >= y
    BY <1>1, <1>2
  <2>2. Max(T) \in T /\ \A y \in T : Max(T) >= y
    BY <2>1 DEF Max
  <2> QED
    BY <1>1, <2>2
<1>4. NameAt(p) = Max(T) + 1
  BY DEF NameAt
<1>5. p = <<"/">> => 1 \in T /\ Len(p) = 1
  OBVIOUS
<1>6. p = <<"/">> => NameAt(p) = 2
  BY <1>1, <1>3, <1>4, <1>5
<1> QED
  BY <1>1, <1>3, <1>4, <1>6

\* A path with a name has a directory, and begins with one or the other.
LEMMA NameIs ==
    ASSUME NEW Words \in {Texts, Paths}, NEW p \in Words
    PROVE  /\ NameOf(p) \in Words
           /\ NameOf(p) # << >> =>
                 /\ p # << >> /\ Parent(p) \in Words
                 /\ Parent(p) # << >> => Parent(p)[1] = p[1]
                 /\ Parent(p) = << >> => NameOf(p)[1] = p[1]
           /\ Parent(p) # NoPath => Parent(p) \in Words
<1>1. PICK b \in Words : /\ b = Bare(p) /\ Len(b) <= Len(p)
                         /\ b = << >> <=> p = << >>
                         /\ p # << >> => b[1] = p[1]
  <2>1. PICK b : b = Bare(p)
    OBVIOUS
  <2>2. /\ b \in Words /\ Len(b) <= Len(p) /\ (b = << >> <=> p = << >>)
        /\ p # << >> => b[1] = p[1]
    BY <2>1, BareIs
  <2> QED
    BY <2>1, <2>2
<1>2. PICK at \in 1..(Len(b) + 1) : at = NameAt(b)
  BY NameAtIs
<1>3. NameOf(p) = SubSeq(b, at, Len(b))
  BY <1>1, <1>2 DEF NameOf
<1>4. Len(b) \in Nat /\ (Len(b) = 0 <=> b = << >>) /\ at \in Nat \ {0}
  BY TextIs
<1>5. /\ NameOf(p) \in Words
      /\ Len(NameOf(p)) = IF at <= Len(b) THEN Len(b) - at + 1 ELSE 0
      /\ \A k \in 1..(Len(b) - at + 1) : NameOf(p)[k] = b[at + k - 1]
  BY <1>3, <1>4, PartIs
<1>6. b \in {<< >>, <<"/">>} => NameOf(p) = << >>
  <2>1. b = << >> => at > Len(b)
    BY <1>2, <1>4
  <2>2. b = <<"/">> => at = 2 /\ Len(b) = 1
    BY <1>2, NameAtIs
  <2>3. b \in {<< >>, <<"/">>} => Len(NameOf(p)) = 0
    BY <1>4, <1>5, <2>1, <2>2
  <2> QED
    BY <1>5, <2>3, TextIs
<1>7. ASSUME b \notin {<< >>, <<"/">>}
      PROVE  /\ Parent(p) \in Words
             /\ Parent(p) # << >> => Parent(p)[1] = p[1]
             /\ Parent(p) = << >> => at = 1
  <2>1. PICK d \in Words : /\ d = SubSeq(p, 1, at - 1)
                           /\ Len(d) = IF 1 <= at - 1 THEN at - 1 ELSE 0
                           /\ \A k \in 1..(at - 1) : d[k] = p[k]
    <3>1. /\ 1 \in Nat \ {0} /\ at - 1 \in Int /\ at - 1 <= Len(p) /\ at - 1 - 1 + 1 = at - 1
          /\ \A k \in 1..(at - 1) : 1 + k - 1 = k
      BY <1>1, <1>4, TextIs
    <3>2. PICK d : d = SubSeq(p, 1, at - 1)
      OBVIOUS
    <3>3. /\ d \in Words /\ Len(d) = IF 1 <= at - 1 THEN at - 1 - 1 + 1 ELSE 0
          /\ \A k \in 1..(at - 1 - 1 + 1) : d[k] = p[1 + k - 1]
      BY <3>1, <3>2, PartIs
    <3> QED
      BY <3>1, <3>2, <3>3
  <2>2. Parent(p) = Bare(d)
    BY <1>1, <1>2, <1>7, <2>1 DEF Parent
  <2>3. /\ Parent(p) \in Words /\ (Parent(p) = << >> <=> d = << >>)
        /\ d # << >> => Parent(p)[1] = d[1]
    <3>1. PICK e : e = Bare(d)
      OBVIOUS
    <3>2. e \in Words /\ (e = << >> <=> d = << >>) /\ (d # << >> => e[1] = d[1])
      BY <3>1, BareIs
    <3> QED
      BY <2>2, <3>1, <3>2
  <2>4. d # << >> => at > 1 /\ d[1] = p[1]
    BY <1>4, <2>1, TextIs
  <2>5. d = << >> => at = 1
    <3>1. d = << >> => Len(d) = 0
      BY TextIs
    <3> QED
      BY <1>4, <2>1, <3>1
  <2> QED
    BY <1>1, <1>7, <2>3, <2>4, <2>5
<1>8. NameOf(p) # << >> /\ at = 1 => NameOf(p)[1] = b[1]
  <2>1. NameOf(p) # << >> => Len(NameOf(p)) # 0
    BY <1>5, TextIs
  <2>2. Len(NameOf(p)) # 0 => 1 \in 1..(Len(b) - at + 1)
    BY <1>4, <1>5
  <2>3. at = 1 => at + 1 - 1 = 1
    OBVIOUS
  <2> QED
    BY <1>5, <2>1, <2>2, <2>3
<1>9. Parent(p) # NoPath => b \notin {<< >>, <<"/">>}
  BY <1>1 DEF Parent
<1> QED
  BY <1>1, <1>5, <1>6, <1>7, <1>8, <1>9

LEMMA JoinIs ==
    ASSUME NEW Words \in {Texts, Paths}, NEW d \in Words, NEW n \in Words
    PROVE  /\ Join(d, n) \in Words
           /\ n # << >> => Join(d, n) # << >> /\ Join(d, n)[Len(Join(d, n))] = n[Len(n)]
           /\ d # << >> => Join(d, n)[1] = d[1]
           /\ d = << >> => Join(d, n) = n
<1>1. CASE d = << >> \/ Last(d) = "/"
  <2>1. PICK j : j = d \o n
    OBVIOUS
  <2>2. Join(d, n) = j
    BY <1>1, <2>1 DEF Join
  <2>3. /\ j \in Words
        /\ n # << >> => j # << >> /\ j[Len(j)] = n[Len(n)]
        /\ d # << >> => j[1] = d[1]
        /\ d = << >> => j = n
    <3>1. j \in Words /\ (d = << >> => j = n)
      BY <2>1, JoinedIs
    <3>2. n # << >> => j # << >> /\ j[Len(j)] = n[Len(n)]
      BY <2>1, JoinedIs
    <3>3. d # << >> => j[1] = d[1]
      BY <2>1, JoinedIs
    <3> QED
      BY <3>1, <3>2, <3>3
  <2> QED
    BY <2>2, <2>3
<1>2. CASE ~(d = << >> \/ Last(d) = "/")
  <2>1. PICK e \in Words : e = d \o <<"/">> /\ (d # << >> => e # << >> /\ e[1] = d[1])
    BY SeparatorsAre, JoinedIs
  <2>2. PICK j : j = e \o n
    OBVIOUS
  <2>3. Join(d, n) = j
    BY <1>2, <2>1, <2>2 DEF Join
  <2>4. /\ j \in Words
        /\ n # << >> => j # << >> /\ j[Len(j)] = n[Len(n)]
        /\ e # << >> => j[1] = e[1]
    BY <2>2, JoinedIs
  <2> QED
    BY <1>2, <2>1, <2>3, <2>4
<1> QED
  BY <1>1, <1>2

\* The name of an artifact begins with what it is made from, and ends with the extension.
LEMMA ExtensionIs ==
    ASSUME NEW p \in Texts
    PROVE  /\ ensure_timelocked_extension(p) \in Texts
           /\ p # << >> => ensure_timelocked_extension(p) # << >>
           /\ IsTrimmed(p) /\ p # << >> => IsTrimmed(ensure_timelocked_extension(p))
<1>1. Ext \in Characters /\ Ext # Blank
  BY SeparatorsAre DEF Ext, Blank
<1>2. CASE HasExt(p)
  BY <1>2 DEF ensure_timelocked_extension
<1>3. CASE ~HasExt(p) /\ NameOf(p) = << >>
  <2>1. ensure_timelocked_extension(p) = Append(p, Ext)
    BY <1>3 DEF ensure_timelocked_extension, append_suffix_to_path
  <2> QED
    BY <1>1, <2>1, AppendedIs DEF IsTrimmed
<1>4. CASE ~HasExt(p) /\ NameOf(p) # << >>
  <2>1. PICK n \in Texts : /\ n = Append(NameOf(p), Ext) /\ n # << >> /\ n[Len(n)] = Ext
                           /\ n[1] = NameOf(p)[1]
    <3>1. NameOf(p) \in Texts
      BY NameIs
    <3> QED
      BY <1>1, <1>4, <3>1, AppendedIs
  <2>2. PICK d \in Texts : d = Parent(p) /\ (d # << >> => d[1] = p[1])
                                         /\ (d = << >> => NameOf(p)[1] = p[1])
    BY <1>4, NameIs
  <2>3. PICK q : q = Join(d, n)
    OBVIOUS
  <2>4. ensure_timelocked_extension(p) = q
    BY <1>4, <2>1, <2>2, <2>3 DEF ensure_timelocked_extension, append_suffix_to_path
  <2>5. q \in Texts /\ q # << >> /\ q[Len(q)] = Ext
    BY <2>1, <2>3, JoinIs
  <2>6. q[1] = p[1]
    BY <2>1, <2>2, <2>3, JoinIs
  <2> QED
    BY <1>1, <2>4, <2>5, <2>6 DEF IsTrimmed
<1> QED
  BY <1>2, <1>3, <1>4

\* What is derived from a text is derived from what is left of it without blanks, and
\* has none at its own ends.
LEMMA DerivedIs ==
    ASSUME NEW s \in Texts
    PROVE  /\ derive_default_output(s) \in Texts
           /\ Trim(derive_default_output(s)) = derive_default_output(s)
           /\ derive_default_output(Trim(s)) = derive_default_output(s)
<1>1. IsTrimmed(Trim(s)) /\ Trim(s) \in Texts
  BY TrimIs DEF IsTrimmed
<1>2. Trim(Trim(s)) = Trim(s)
  BY <1>1, TrimStays
<1>3. derive_default_output(Trim(s)) = derive_default_output(s)
  BY <1>2 DEF derive_default_output
<1>4. IsTrimmed(derive_default_output(s))
  <2>1. CASE Trim(s) = << >>
    BY <2>1, SeparatorsAre DEF derive_default_output, IsTrimmed
  <2>2. CASE Trim(s) # << >>
    BY <1>1, <2>2, ExtensionIs DEF derive_default_output
  <2> QED
    BY <2>1, <2>2
<1>5. derive_default_output(s) \in Texts
  BY <1>4 DEF IsTrimmed
<1> QED
  BY <1>3, <1>4, <1>5, TrimStays

\* The text of a path is the path itself when a field can hold it.
LEMMA LossyIs ==
    ASSUME NEW p \in Paths
    PROVE  /\ to_string_lossy(p) \in Texts
           /\ IsPlain(p) => Trim(to_string_lossy(p)) = p
<1>1. Len(p) \in Nat /\ DOMAIN p = 1..Len(p) /\ \A i \in 1..Len(p) : p[i] \in PathCharacters
  BY DEF Paths
<1>2. \A i \in 1..Len(p) : (IF p[i] = NotText THEN Replacement ELSE p[i]) \in Characters
  BY <1>1, SeparatorsAre DEF PathCharacters
<1>3. to_string_lossy(p) = [i \in 1..Len(p) |-> IF p[i] = NotText THEN Replacement ELSE p[i]]
  BY <1>1 DEF to_string_lossy
<1>4. to_string_lossy(p) \in Texts
  BY <1>1, <1>2, <1>3 DEF Texts
<1>5. ASSUME IsPlain(p) PROVE Trim(to_string_lossy(p)) = p
  <2>1. \A i \in 1..Len(p) : p[i] # NotText
    BY <1>1, <1>5 DEF IsPlain, Range
  <2>2. p = [i \in 1..Len(p) |-> p[i]]
    BY <1>1 DEF Paths
  <2>3. to_string_lossy(p) = p
    BY <1>3, <2>1, <2>2
  <2>4. IsTrimmed(p)
    BY <1>4, <1>5, <2>3 DEF IsPlain, IsTrimmed, Last
  <2> QED
    BY <2>3, <2>4, TrimStays
<1> QED
  BY <1>4, <1>5

-------------------------------------------------------------------------------
(* What the browser lists.                                                   *)

\* The functions on sets of indices that Sorted(S) may follow: FoldLeft takes one.
SortFold(S, it) ==
    it = [T \in SUBSET (DOMAIN Names) |->
             IF T = {} THEN << >>
             ELSE IF Names[Max(T)] \in S THEN Append(it[T \ {Max(T)}], Names[Max(T)])
             ELSE it[T \ {Max(T)}]]

LEMMA SortFoldExists ==
    ASSUME NEW S
    PROVE  \E it : SortFold(S, it) /\ it \in [SUBSET (DOMAIN Names) -> Seq(Paths)]
<1>1. Names \in Seq(Paths)
  BY FormsAssumption DEF Paths
<1>2. PICK m \in Nat : m = Len(Names) /\ DOMAIN Names = 1..m
  BY <1>1, LenProperties
<1>3. \A i \in 1..m : Names[i] \in Paths
  BY <1>1, <1>2, ElementOfSeq
<1>4. PICK V : V = Seq(Paths)
  OBVIOUS
<1>5. \A v \in V, t \in Paths : Append(v, t) \in V
  BY <1>4, AppendProperties
<1>6. << >> \in V
  BY <1>4, EmptySeq
<1>7. PICK h : h = [i \in Nat |-> [v \in V |->
                       IF i \in 1..m /\ Names[i] \in S THEN Append(v, Names[i]) ELSE v]]
  OBVIOUS
<1>8. h \in [Nat -> [V -> V]]
  <2>1. \A i \in Nat, v \in V :
           (IF i \in 1..m /\ Names[i] \in S THEN Append(v, Names[i]) ELSE v) \in V
    BY <1>3, <1>5
  <2> QED
    BY <1>7, <2>1
<1>9. \A i \in 1..m, v \in V : h[i][v] = IF Names[i] \in S THEN Append(v, Names[i]) ELSE v
  BY <1>7
<1>10. PICK it : FoldsUp(V, << >>, h, m, it)
  BY <1>6, <1>8, FoldExists
<1>11. it \in [SUBSET (1..m) -> V]
  BY <1>10 DEF FoldsUp
<1>12. ASSUME NEW T \in SUBSET (1..m)
       PROVE  it[T] = IF T = {} THEN << >>
                      ELSE IF Names[Max(T)] \in S THEN Append(it[T \ {Max(T)}], Names[Max(T)])
                      ELSE it[T \ {Max(T)}]
  <2>1. it[T] = IF T = {} THEN << >> ELSE h[Max(T)][it[T \ {Max(T)}]]
    BY <1>10 DEF FoldsUp
  <2>2. CASE T # {}
    <3>1. Max(T) \in 1..m
      BY <2>2, MaxIs
    <3>2. it[T \ {Max(T)}] \in V
      BY <1>11
    <3> QED
      BY <1>9, <2>1, <2>2, <3>1, <3>2
  <2> QED
    BY <2>1, <2>2
<1>13. it = [T \in SUBSET (1..m) |-> it[T]]
  BY <1>11
<1>14. SortFold(S, it)
  BY <1>2, <1>12, <1>13, ZenonT(30) DEF SortFold
<1> QED
  BY <1>2, <1>4, <1>11, <1>14

LEMMA SortedIs ==
    ASSUME NEW S
    PROVE  Sorted(S) \in Seq(Paths)
<1>1. PICK it : SortFold(S, it) /\ Sorted(S) = it[DOMAIN Names]
  <2>1. Sorted(S) = (CHOOSE it : SortFold(S, it))[DOMAIN Names]
    BY Zenon DEF Sorted, FoldLeft, MapThenFoldSet, SortFold
  <2>2. SortFold(S, CHOOSE it : SortFold(S, it))
    BY SortFoldExists, Zenon
  <2> QED
    BY <2>1, <2>2
<1>2. Names \in Seq(Paths)
  BY FormsAssumption DEF Paths
<1>3. PICK m \in Nat : m = Len(Names) /\ DOMAIN Names = 1..m
  BY <1>2, LenProperties
<1>4. \A i \in 1..m : Names[i] \in Paths
  BY <1>2, <1>3, ElementOfSeq
<1>5. \A T \in SUBSET (1..m) :
         it[T] = IF T = {} THEN << >>
                 ELSE IF Names[Max(T)] \in S THEN Append(it[T \ {Max(T)}], Names[Max(T)])
                 ELSE it[T \ {Max(T)}]
  BY <1>1, <1>3 DEF SortFold
<1> DEFINE D == {k \in Nat : k <= m => it[1..k] \in Seq(Paths)}
<1>6. 0 \in D
  <2>1. 1..0 = {} /\ 1..0 \in SUBSET (1..m)
    OBVIOUS
  <2>2. it[1..0] = << >>
    BY <1>5, <2>1
  <2> QED
    BY <2>2, EmptySeq
<1>7. ASSUME NEW k \in Nat, k \in D PROVE k + 1 \in D
  <2> SUFFICES ASSUME k + 1 <= m PROVE it[1..(k + 1)] \in Seq(Paths)
    OBVIOUS
  <2>1. 1..(k + 1) \in SUBSET (1..m) /\ 1..(k + 1) # {} /\ k + 1 \in 1..m
    <3>1. 1 \in 1..(k + 1)
      OBVIOUS
    <3>2. k + 1 \in 1..m /\ \A i \in 1..(k + 1) : i \in 1..m
      OBVIOUS
    <3> QED
      BY <3>1, <3>2
  <2>2. Max(1..(k + 1)) = k + 1 /\ (1..(k + 1)) \ {k + 1} = 1..k
    BY MaxOfInterval
  <2>3. it[1..(k + 1)] = IF Names[k + 1] \in S THEN Append(it[1..k], Names[k + 1]) ELSE it[1..k]
    BY <1>5, <2>1, <2>2
  <2>4. it[1..k] \in Seq(Paths) /\ Names[k + 1] \in Paths
    BY <1>4, <1>7, <2>1
  <2> QED
    BY <2>3, <2>4, AppendProperties
<1>8. Nat \subseteq D
  <2> HIDE DEF D
  <2> QED
    BY <1>6, <1>7, SetInduction
<1>9. it[1..m] \in Seq(Paths)
  BY <1>8
<1> QED
  BY <1>1, <1>3, <1>9

\* A list of paths with one of them selected, if there is one.
IsList(entries, at) ==
    \E n \in Nat : /\ DOMAIN entries = 1..n /\ Len(entries) = n
                   /\ \A i \in 1..n : entries[i].path \in Paths
                   /\ at \in 0..(IF n = 0 THEN 0 ELSE n - 1)

\* A browser in a directory, with what it lists there.
Listed == {"kind", "mode", "target", "filter", "hidden", "dir", "entries", "selected", "error"}

Lists(b) ==
    /\ DOMAIN b = Listed /\ b.dir \in Paths
    /\ IsList(b.entries, b.selected)
    /\ b.error => b.entries = << >>

LEMMA ListingIs ==
    ASSUME NEW b, b.dir \in Paths
    PROVE  \E n \in Nat : /\ DOMAIN Listing(b) = 1..n /\ Len(Listing(b)) = n
                          /\ \A i \in 1..n : Listing(b)[i].path \in Paths
<1>1. PICK dirs \in Seq(Paths), files \in Seq(Paths) :
         Listing(b) = [i \in 1..Len(dirs \o files) |-> [path |-> Join(b.dir, (dirs \o files)[i]),
                                                        dir  |-> i <= Len(dirs)]]
  BY SortedIs DEF Listing
<1>2. PICK all \in Seq(Paths) : all = dirs \o files
  BY ConcatProperties
<1>3. PICK n \in Nat : n = Len(all) /\ \A i \in 1..n : all[i] \in Paths
  BY LenProperties, ElementOfSeq
<1>4. Listing(b) = [i \in 1..n |-> [path |-> Join(b.dir, all[i]), dir |-> i <= Len(dirs)]]
  BY <1>1, <1>2, <1>3
<1>5. \A i \in 1..n : Join(b.dir, all[i]) \in Paths
  BY <1>3, JoinIs
<1>6. PICK l : l = Listing(b)
  OBVIOUS
<1>7. DOMAIN l = 1..n /\ \A i \in 1..n : l[i].path \in Paths
  BY <1>4, <1>5, <1>6
<1>8. Len(l) = n
  BY <1>4, <1>6
<1> QED
  BY <1>6, <1>7, <1>8

LEMMA EmptyListIs == IsList(<< >>, 0)
<1>1. DOMAIN << >> = 1..0 /\ Len(<< >>) = 0 /\ 0 \in 0..0
  OBVIOUS
<1>2. \A i \in 1..0 : << >>[i].path \in Paths
  OBVIOUS
<1> QED
  BY <1>1, <1>2 DEF IsList

LEMMA SelectionIs ==
    ASSUME NEW b, NEW n \in Nat, NEW entries, DOMAIN entries = 1..n
    PROVE  DefaultSelection(b, entries) \in 0..(IF n = 0 THEN 0 ELSE n - 1)
<1> DEFINE files == {i \in DOMAIN entries : ~entries[i].dir}
<1>1. CASE b.filter /\ files # {}
  <2>1. files \subseteq 1..n
    OBVIOUS
  <2>2. Min(files) \in 1..n
    BY <1>1, <2>1, EndsOf
  <2>3. DefaultSelection(b, entries) = Min(files) - 1
    BY <1>1 DEF DefaultSelection
  <2> QED
    BY <2>2, <2>3
<1>2. CASE ~(b.filter /\ files # {})
  <2>1. DefaultSelection(b, entries) = 0
    BY <1>2 DEF DefaultSelection
  <2> QED
    BY <2>1
<1> QED
  BY <1>1, <1>2

LEMMA ReloadLists ==
    ASSUME NEW b, DOMAIN b = Listed, b.dir \in Paths
    PROVE  Lists(Reload(b))
<1>1. CASE At(b.dir) = "dir"
  <2>1. PICK l : l = Listing(b)
    OBVIOUS
  <2>2. PICK n \in Nat : DOMAIN l = 1..n /\ Len(l) = n /\ \A i \in 1..n : l[i].path \in Paths
    BY <2>1, ListingIs
  <2>3. PICK k : k = DefaultSelection(b, l)
    OBVIOUS
  <2>4. IsList(l, k)
    BY <2>2, <2>3, SelectionIs DEF IsList
  <2>5. PICK c : c = [b EXCEPT !.entries = l, !.error = FALSE, !.selected = k]
    OBVIOUS
  <2>6. Reload(b) = c
    BY <1>1, <2>1, <2>3, <2>5 DEF Reload
  <2>7. DOMAIN c = Listed /\ c.dir = b.dir /\ c.entries = l /\ c.selected = k /\ c.error = FALSE
    BY <2>5 DEF Listed
  <2> QED
    BY <2>4, <2>6, <2>7 DEF Lists
<1>2. CASE At(b.dir) # "dir"
  <2>1. PICK c : c = [b EXCEPT !.entries = << >>, !.selected = 0, !.error = TRUE]
    OBVIOUS
  <2>2. Reload(b) = c
    BY <1>2, <2>1 DEF Reload
  <2>3. DOMAIN c = Listed /\ c.dir = b.dir /\ c.entries = << >> /\ c.selected = 0
    BY <2>1 DEF Listed
  <2> QED
    BY <2>2, <2>3, EmptyListIs DEF Lists
<1> QED
  BY <1>1, <1>2

\* A browser opens where there is a path to, and goes from there along others.
LEMMA OpensLists ==
    ASSUME NEW mode, NEW target, NEW p \in Texts
    PROVE  Lists(NewBrowser(mode, target, p))
<1>1. Cwd \in Paths
  BY SeparatorsAre DEF Cwd
<1>2. StartDir(p) \in Paths
  <2>1. p \in Paths
    BY DEF Texts, Paths, PathCharacters
  <2> QED
    BY <1>1, <2>1, NameIs DEF StartDir
<1>3. PICK b : b = [kind |-> "browser", mode |-> mode, target |-> target,
            filter |-> FilterAvailable(mode, target), hidden |-> FALSE,
            dir |-> StartDir(p), entries |-> << >>, selected |-> 0, error |-> FALSE]
  OBVIOUS
<1>4. DOMAIN b = Listed /\ b.dir \in Paths
  BY <1>2, <1>3 DEF Listed
<1>5. NewBrowser(mode, target, p) = Reload(b)
  BY <1>3 DEF NewBrowser
<1> QED
  BY <1>4, <1>5, ReloadLists

LEMMA ListedPath ==
    ASSUME NEW b, Lists(b), IsSelected(b)
    PROVE  Selected(b).path \in Paths
<1>1. PICK n \in Nat : DOMAIN b.entries = 1..n /\ \A i \in 1..n : b.entries[i].path \in Paths
  BY DEF Lists, IsList
<1> QED
  BY <1>1 DEF IsSelected, Selected

LEMMA MovesList ==
    ASSUME NEW b, Lists(b), NEW c \in BrowserMoves(b)
    PROVE  Lists(c)
<1>1. DOMAIN b = Listed /\ b.dir \in Paths
  BY DEF Lists
<1>2. ASSUME NEW d \in Paths PROVE Lists(Reload([b EXCEPT !.dir = d]))
  <2>1. PICK e : e = [b EXCEPT !.dir = d]
    OBVIOUS
  <2>2. DOMAIN e = Listed /\ e.dir \in Paths
    BY <1>1, <2>1 DEF Listed
  <2> QED
    BY <2>1, <2>2, ReloadLists
<1>3. Lists(NavigateParent(b))
  BY <1>1, <1>2, NameIs DEF NavigateParent
<1>4. Lists(NavigateSelected(b))
  BY <1>2, ListedPath DEF NavigateSelected
<1>5. Lists(Reload([b EXCEPT !.hidden = ~@]))
  <2>1. PICK e : e = [b EXCEPT !.hidden = ~@]
    OBVIOUS
  <2>2. DOMAIN e = Listed /\ e.dir \in Paths
    BY <1>1, <2>1 DEF Listed
  <2> QED
    BY <2>1, <2>2, ReloadLists
<1>6. Lists(Reload([b EXCEPT !.filter = ~@]))
  <2>1. PICK e : e = [b EXCEPT !.filter = ~@]
    OBVIOUS
  <2>2. DOMAIN e = Listed /\ e.dir \in Paths
    BY <1>1, <2>1 DEF Listed
  <2> QED
    BY <2>1, <2>2, ReloadLists
<1>7. ASSUME NEW step \in {1, Max({1, Len(b.entries)}) - 1}
      PROVE  Lists([b EXCEPT !.selected = (@ + step) % Max({1, Len(b.entries)})])
  <2>1. PICK n \in Nat : /\ DOMAIN b.entries = 1..n /\ Len(b.entries) = n
                         /\ \A i \in 1..n : b.entries[i].path \in Paths
                         /\ b.selected \in 0..(IF n = 0 THEN 0 ELSE n - 1)
    BY DEF Lists, IsList
  <2>2. PICK m \in Nat : m = Max({1, Len(b.entries)}) /\ m = IF n = 0 THEN 1 ELSE n
    <3>1. 1 \in Int /\ n \in Int
      OBVIOUS
    <3>2. Max({1, n}) = IF 1 >= n THEN 1 ELSE n
      BY <3>1, Bigger
    <3> QED
      BY <2>1, <3>2
  <2>3. PICK k : k = (b.selected + step) % m
    OBVIOUS
  <2>4. k \in 0..(IF n = 0 THEN 0 ELSE n - 1)
    <3>1. m > 0 /\ b.selected + step \in Int
      BY <2>1, <2>2
    <3>2. k \in 0..(m - 1)
      BY <2>3, <3>1
    <3> QED
      BY <2>2, <3>2
  <2>5. PICK e : e = [b EXCEPT !.selected = k]
    OBVIOUS
  <2>6. /\ DOMAIN e = Listed /\ e.dir = b.dir /\ e.entries = b.entries /\ e.selected = k
        /\ e.error = b.error
    BY <1>1, <2>5 DEF Listed
  <2>7. IsList(e.entries, e.selected)
    BY <2>1, <2>4, <2>6 DEF IsList
  <2>8. Lists(e)
    BY <1>1, <2>6, <2>7 DEF Lists
  <2> QED
    BY <2>2, <2>3, <2>5, <2>8
<1> QED
  BY <1>3, <1>4, <1>5, <1>6, <1>7 DEF BrowserMoves

LEMMA PicksAre ==
    ASSUME NEW b, Lists(b), NEW p \in BrowserPicks(b)
    PROVE  p \in Paths
BY ListedPath DEF BrowserPicks, Lists

-------------------------------------------------------------------------------
(* What the forms hold, and how they came to it.                             *)

\* A field that is about to be replaced has a text to replace.
ReplacesText(f) == IsText(f) /\ (f.armed => f.value # << >>)

TextsOK == \A n \in FieldNames : ReplacesText(field[n])

FlagsOK ==
    /\ touched \in BOOLEAN /\ rate \in BOOLEAN /\ fresh \in BOOLEAN
    /\ profile \in 0..PROFILES /\ edits \in Nat
    /\ status \in {"idle", "running", "cancelling"}

DiskOK == DOMAIN disk = DiskPaths /\ \A p \in DiskPaths : disk[p] \in Contents[p]

ListOK == modal.kind = "browser" => Lists(modal)

\* No field is about to be replaced once a key has reached it.
KeptOK == ~fresh => \A n \in FieldNames : HasFocus(n) => ~field[n].armed

\* The field holds the text of the path that was picked, of an output only for an unlock.
PickedOK == /\ DOMAIN picked = FieldNames
            /\ \A n \in {"input", "output"} : picked[n] # NoPath =>
                  picked[n] \in Paths /\ field[n].value = to_string_lossy(picked[n])
            /\ picked["output"] # NoPath => screen = "unlockForm"

\* The screens that follow a use case are about a file, and nothing is picked on them.
Following == {"lockComplete", "inspectDetails"}

ResultOK ==
    /\ screen = "lockProgress" =>
          request.use = "lock" /\ request.output \in Texts /\ request.output # << >>
    /\ screen \in Following => result # << >> /\ picked["input"] = NoPath
    /\ screen = "inspectDetails" => estimate.of = result

ChoiceInv == TextsOK /\ FlagsOK /\ DiskOK /\ ListOK /\ KeptOK /\ PickedOK /\ ResultOK

LEMMA NewTextsAre ==
    /\ \A v \in Texts : ReplacesText(Text(v)) /\ Text(v).armed = FALSE
    /\ ReplacesText(Empty)
<1>1. ASSUME NEW v \in Texts PROVE ReplacesText(Text(v)) /\ Text(v).armed = FALSE
  <2>1. DOMAIN Text(v) = TextParts /\ Text(v).armed = FALSE /\ Text(v).value = v
        /\ Text(v).cursor = Len(v)
    BY DEF Text, TextParts
  <2>2. Len(v) \in 0..Len(v) /\ v \in Seq(Characters)
    BY TextIs DEF Texts
  <2>3. IsText(Text(v))
    BY <2>1, <2>2 DEF IsText, Stands
  <2> QED
    BY <2>1, <2>3 DEF ReplacesText
<1> QED
  BY <1>1, SeparatorsAre DEF Empty

\* After a key, no text is about to be replaced.
LEMMA KeysDisarm ==
    ASSUME NEW f, IsText(f), NEW key \in FieldKeys
    PROVE  ReplacesText(apply_key(f, key)) /\ apply_key(f, key).armed = FALSE
<1>1. IsText(apply_key(f, key))
  BY KeysEditOneCharacter
<1>2. DOMAIN f = TextParts
  BY DEF IsText
<1>3. DOMAIN Consume(f) = TextParts /\ Consume(f).armed = FALSE
  <2>1. DOMAIN Empty = TextParts /\ Empty.armed = FALSE
    BY DEF Empty, Text, TextParts
  <2>2. f.armed \in BOOLEAN
    BY DEF IsText
  <2> QED
    BY <1>2, <2>1, <2>2 DEF Consume
<1>4. ASSUME NEW g, DOMAIN g = TextParts, g.armed = FALSE
      PROVE  /\ Backspace(g).armed = FALSE /\ Delete(g).armed = FALSE
             /\ \A x : Type(g, x).armed = FALSE
  BY <1>4, EraseDoes, TypeDoes DEF Backspace, Delete
<1>5. \A i : MoveTo(f, i).armed = FALSE
  BY <1>2, MoveDoes
<1>6. apply_key(f, key).armed = FALSE
  <2>1. \/ apply_key(f, key) \in {Backspace(Consume(f)), Delete(Consume(f))}
        \/ \E i : apply_key(f, key) = MoveTo(f, i)
        \/ \E x : apply_key(f, key) = Type(Consume(f), x)
    BY Zenon DEF apply_key
  <2> QED
    BY <1>3, <1>4, <1>5, <2>1
<1> QED
  BY <1>1, <1>6 DEF ReplacesText

\* A screen that is shown is at its beginning.
LEMMA ShowHolds ==
    ASSUME NEW s \in Screens, Show(s)
    PROVE  /\ TextsOK' /\ KeptOK' /\ PickedOK'
           /\ screen' = s /\ picked'["input"] = NoPath
           /\ touched' = FALSE /\ fresh' = TRUE /\ profile' = DefaultProfile /\ edits' = 0
           /\ status' = "idle"
<1>1. /\ screen' = s /\ fresh' = TRUE /\ status' = "idle"
      /\ field' \in {LockFields, NoFields} /\ touched' = FALSE /\ profile' = DefaultProfile
      /\ edits' = 0 /\ picked' = NotPicked
  BY DEF Show, Fresh
<1>2. DefaultTarget \in Texts
  BY FormsAssumption DEF Texts
<1>3. \A n \in FieldNames : /\ NoFields[n] = Empty
                            /\ LockFields[n] = IF n = "target" THEN Text(DefaultTarget) ELSE Empty
  BY DEF NoFields, LockFields, FieldNames
<1>4. TextsOK'
  <2>1. \A n \in FieldNames : field'[n] \in {Empty, Text(DefaultTarget)}
    BY <1>1, <1>3
  <2> QED
    BY <1>2, <2>1, NewTextsAre DEF TextsOK
<1>5. DOMAIN picked' = FieldNames /\ picked'["input"] = NoPath /\ picked'["output"] = NoPath
  BY <1>1 DEF NotPicked, FieldNames
<1> QED
  BY <1>1, <1>4, <1>5 DEF KeptOK, PickedOK

LEMMA ShownHolds ==
    ASSUME ChoiceInv, NEW s \in Screens, Show(s), modal'.kind # "browser", rate' \in BOOLEAN,
           UNCHANGED disk, ResultOK'
    PROVE  ChoiceInv'
<1>1. FlagsOK'
  <2>1. touched' = FALSE /\ fresh' = TRUE /\ profile' = 1 /\ edits' = 0 /\ status' = "idle"
    BY ShowHolds DEF DefaultProfile
  <2>2. touched' \in BOOLEAN /\ fresh' \in BOOLEAN /\ rate' \in BOOLEAN
    BY <2>1, Zenon
  <2>3. profile' \in 0..PROFILES /\ edits' \in Nat
    BY <2>1 DEF PROFILES
  <2> QED
    BY <2>1, <2>2, <2>3 DEF FlagsOK
<1>2. DiskOK' /\ ListOK'
  BY DEF ChoiceInv, DiskOK, ListOK
<1> QED
  BY <1>1, <1>2, ShowHolds DEF ChoiceInv

\* Nothing is to be said of most screens.
LEMMA OtherScreens ==
    screen' \notin Following \cup {"lockProgress"} => ResultOK'
BY DEF ResultOK, Following

\* What a step leaves alone it leaves true.
LEMMA FieldsStay ==
    ASSUME ChoiceInv, UNCHANGED <<screen, focus, field, picked, fresh>>
    PROVE  TextsOK' /\ KeptOK' /\ PickedOK'
BY DEF ChoiceInv, TextsOK, KeptOK, PickedOK, HasFocus

LEMMA ResultStays ==
    ASSUME ChoiceInv, UNCHANGED <<screen, picked, request, result, estimate>>
    PROVE  ResultOK'
BY DEF ChoiceInv, ResultOK

LEMMA ModalHolds ==
    ASSUME ChoiceInv, NEW m, ShowModal(m), UNCHANGED rate, m.kind = "browser" => Lists(m)
    PROVE  ChoiceInv'
<1>1. /\ UNCHANGED <<screen, focus, field, touched, profile, estimate, edits, picked, status,
                     selected, result, disk, request, fresh, rate>>
      /\ modal' = m
  BY DEF ShowModal, form
<1>2. FlagsOK' /\ DiskOK' /\ ListOK'
  BY <1>1 DEF ChoiceInv, FlagsOK, DiskOK, ListOK
<1> QED
  BY <1>1, <1>2, FieldsStay, ResultStays DEF ChoiceInv

LEMMA RefuseHolds ==
    ASSUME ChoiceInv, Refuse
    PROVE  ChoiceInv'
BY ModalHolds, DialogsAre DEF Refuse

\* The fields that keys reach are on forms.
LEMMA FieldsAreOnForms ==
    ASSUME FocusOK, NEW n \in FieldNames, HasFocus(n)
    PROVE  screen \in Browsing \cup {"lockTextForm"}
<1>1. focus \in DOMAIN Foci[screen] /\ screen \in Screens /\ Foci[screen][focus] = n
  BY DEF FocusOK, HasFocus
<1> SUFFICES ASSUME screen \notin Browsing \cup {"lockTextForm"} PROVE FALSE
  OBVIOUS
<1> QED
  BY <1>1 DEF Screens, Foci, FieldNames, Browsing, LockProgressFoci, UnlockProgressFoci,
              LockCompleteFoci, UnlockCompleteFoci, InspectDetailsFoci, VerifyDetailsFoci

\* What Derive does to the fields: the one is replaced, and the output with it or alone.
LEMMA DeriveHolds ==
    ASSUME TextsOK, FieldsOK, NEW n \in FieldNames, NEW f, ReplacesText(f), ~f.armed, Derive(n, f)
    PROVE  /\ TextsOK' /\ field'[n] = f
           /\ n # "input" => field'["input"] = field["input"]
           /\ n # "output" /\ screen # "lockFileForm" => field'["output"] = field["output"]
           /\ \A m \in FieldNames : field'[m].armed => field[m].armed
<1>1. DOMAIN field = FieldNames /\ {"input", "output"} \subseteq FieldNames
  BY DEF FieldsOK, FieldNames
<1>2. PICK out : out = IF n = "input" /\ screen = "lockFileForm" /\ ~touched
                       THEN Text(derive_default_output(f.value))
                       ELSE IF n = "output" THEN f ELSE field["output"]
  OBVIOUS
<1>3. /\ field'["output"] = out
      /\ n # "output" => field'[n] = f
      /\ \A m \in FieldNames \ {"output", n} : field'[m] = field[m]
  BY <1>1, <1>2 DEF Derive
<1>4. f.value \in Texts
  BY DEF ReplacesText, IsText, Stands, Texts
<1>5. ReplacesText(Text(derive_default_output(f.value)))
      /\ ~Text(derive_default_output(f.value)).armed
  BY <1>4, DerivedIs, NewTextsAre
<1>6. ReplacesText(out) /\ (out.armed => field["output"].armed)
  <2>1. ReplacesText(field["output"])
    BY <1>1 DEF TextsOK
  <2> QED
    BY <1>2, <1>5, <2>1
<1>7. ASSUME NEW m \in FieldNames
      PROVE  ReplacesText(field'[m]) /\ (field'[m].armed => field[m].armed)
  <2>1. CASE m = "output"
    BY <1>3, <1>6, <2>1
  <2>2. CASE m # "output" /\ m = n
    BY <1>3, <2>2
  <2>3. CASE m \notin {"output", n}
    BY <1>3, <2>3 DEF TextsOK
  <2> QED
    BY <2>1, <2>2, <2>3
<1>8. TextsOK'
  BY <1>7 DEF TextsOK
<1>9. field'[n] = f
  BY <1>2, <1>3
<1>10. n # "input" => field'["input"] = field["input"]
  BY <1>1, <1>3
<1>11. n # "output" /\ screen # "lockFileForm" => field'["output"] = field["output"]
  BY <1>2, <1>3
<1> QED
  BY <1>7, <1>8, <1>9, <1>10, <1>11

LEMMA MoveFocusHolds ==
    ASSUME FormsInv, ChoiceInv, MoveFocus
    PROVE  ChoiceInv'
<1>1. /\ UNCHANGED <<screen, touched, profile, estimate, edits, picked, status, selected,
                     result, modal, rate, disk, request>>
      /\ fresh' = TRUE
  BY DEF MoveFocus
<1>2. PICK to : field' = ArmFocused(Foci[screen][to])
  BY DEF MoveFocus
<1>3. ASSUME NEW n \in FieldNames
      PROVE  ReplacesText(field'[n]) /\ field'[n].value = field[n].value
  <2>1. DOMAIN field = FieldNames
    BY DEF FormsInv, FieldsOK
  <2>2. PICK f : f = field[n] /\ ReplacesText(f)
    BY DEF ChoiceInv, TextsOK
  <2>3. /\ DOMAIN f = TextParts /\ f.armed \in BOOLEAN
        /\ Stands(f.value, f.cursor)
    BY <2>2 DEF ReplacesText, IsText
  <2>4. PICK g : g = Arm(f)
    OBVIOUS
  <2>5. /\ DOMAIN g = TextParts /\ g.value = f.value /\ g.cursor = f.cursor
        /\ g.armed = (f.armed \/ f.value # << >>)
    BY <2>3, <2>4 DEF Arm, TextParts
  <2>6. g.armed \in BOOLEAN /\ (g.armed => g.value # << >>)
    BY <2>2, <2>3, <2>5 DEF ReplacesText
  <2>7. ReplacesText(g)
    BY <2>3, <2>5, <2>6 DEF ReplacesText, IsText
  <2>8. field'[n] \in {f, g}
    BY <1>2, <2>1, <2>2, <2>4 DEF ArmFocused
  <2> QED
    BY <2>2, <2>5, <2>7, <2>8
<1>4. TextsOK'
  BY <1>3 DEF TextsOK
<1>5. {"input", "output"} \subseteq FieldNames
  BY DEF FieldNames
<1>6. PickedOK' /\ KeptOK'
  BY <1>1, <1>3, <1>5 DEF ChoiceInv, PickedOK, KeptOK
<1>7. FlagsOK' /\ DiskOK' /\ ListOK'
  BY <1>1 DEF ChoiceInv, FlagsOK, DiskOK, ListOK
<1> QED
  BY <1>1, <1>4, <1>6, <1>7, ResultStays DEF ChoiceInv

\* A key for a field: the field has the focus, and is not about to be replaced after it.
LEMMA EditFieldHolds ==
    ASSUME FormsInv, ChoiceInv, EditField
    PROVE  ChoiceInv' /\ OneCharacter
<1>1. PICK n \in FieldNames, key \in FieldKeys :
         /\ HasFocus(n) /\ Derive(n, apply_key(field[n], key))
         /\ touched' = (touched \/ (n = "output" /\ screen = "lockFileForm"))
         /\ picked' = [picked EXCEPT ![n] = NoPath]
  BY DEF EditField
<1>2. /\ UNCHANGED <<screen, focus, profile, status, selected, result, modal, rate, disk, request>>
      /\ edits' = edits + 1 /\ fresh' = FALSE
  BY DEF EditField
<1>3. PICK f : f = apply_key(field[n], key)
  OBVIOUS
<1>4. IsText(field[n])
  BY DEF ChoiceInv, TextsOK, ReplacesText
<1>5. ReplacesText(f) /\ ~f.armed
  BY <1>3, <1>4, KeysDisarm
<1>6. FocusOK /\ FieldsOK /\ TextsOK
  BY DEF FormsInv, ChoiceInv
<1>7. /\ TextsOK' /\ field'[n] = f
      /\ n # "input" => field'["input"] = field["input"]
      /\ n # "output" /\ screen # "lockFileForm" => field'["output"] = field["output"]
  BY <1>1, <1>3, <1>5, <1>6, DeriveHolds
<1>8. \A m \in FieldNames : HasFocus(m) => m = n
  BY <1>1 DEF HasFocus
<1>9. KeptOK'
  BY <1>2, <1>5, <1>7, <1>8 DEF KeptOK, HasFocus
<1>10. PickedOK'
  <2>1. DOMAIN picked' = FieldNames /\ picked'[n] = NoPath
        /\ \A m \in FieldNames \ {n} : picked'[m] = picked[m]
    BY <1>1 DEF ChoiceInv, PickedOK
  <2>2. {"input", "output"} \subseteq FieldNames
    BY DEF FieldNames
  <2>3. ASSUME NEW m \in {"input", "output"}, picked'[m] # NoPath
        PROVE  /\ picked[m] # NoPath /\ picked'[m] = picked[m] /\ field'[m] = field[m]
               /\ m = "output" => screen = "unlockForm"
    <3>1. m # n /\ picked'[m] = picked[m]
      BY <2>1, <2>2, <2>3
    <3>2. m = "output" => screen = "unlockForm"
      BY <2>3, <3>1 DEF ChoiceInv, PickedOK
    <3> QED
      BY <1>7, <2>3, <3>1, <3>2
  <2> QED
    BY <1>2, <2>1, <2>3 DEF ChoiceInv, PickedOK
<1>11. ResultOK'
  <2>1. screen \in Browsing \cup {"lockTextForm"}
    BY <1>1, <1>6, FieldsAreOnForms
  <2>2. screen' \notin Following \cup {"lockProgress"}
    BY <1>2, <2>1 DEF Browsing, Following
  <2> QED
    BY <2>2, OtherScreens
<1>12. FlagsOK'
  <2>1. touched' \in BOOLEAN
    BY <1>1
  <2>2. edits' \in Nat
    BY <1>2 DEF ChoiceInv, FlagsOK
  <2> QED
    BY <1>2, <2>1, <2>2 DEF ChoiceInv, FlagsOK
<1>13. DiskOK' /\ ListOK'
  BY <1>2 DEF ChoiceInv, DiskOK, ListOK
<1>14. OneCharacter
  <2>1. SUFFICES ASSUME ~fresh PROVE OneEdit(field[n].value, field'[n].value)
    BY <1>8 DEF OneCharacter
  <2>2. ~field[n].armed
    BY <1>1, <2>1 DEF ChoiceInv, KeptOK
  <2>3. OneEdit(field[n].value, f.value)
    BY <1>3, <1>4, <2>2, KeysEditOneCharacter
  <2> QED
    BY <1>7, <2>3
<1> QED
  BY <1>7, <1>9, <1>10, <1>11, <1>12, <1>13, <1>14 DEF ChoiceInv

LEMMA BrowserHolds ==
    ASSUME FormsInv, ChoiceInv, OpenBrowser \/ MoveInBrowser \/ CloseModal
    PROVE  ChoiceInv'
<1>1. CASE OpenBrowser
  <2>1. \A n \in {"input", "output"} : Trim(field[n].value) \in Texts
    <3>1. ASSUME NEW n \in {"input", "output"} PROVE Trim(field[n].value) \in Texts
      <4>1. field[n].value \in Texts
        BY DEF ChoiceInv, TextsOK, FieldNames, ReplacesText, IsText, Stands, Texts
      <4> QED
        BY <4>1, TrimIs DEF IsTrimmed
    <3> QED
      BY <3>1
  <2>2. \E mode, target : \E n \in {"input", "output"} :
           ShowModal(NewBrowser(mode, target, Trim(field[n].value)))
    BY <1>1 DEF OpenBrowser
  <2>3. PICK b : ShowModal(b) /\ Lists(b)
    BY <2>1, <2>2, OpensLists
  <2>4. UNCHANGED rate
    BY <1>1 DEF OpenBrowser
  <2> QED
    BY <2>3, <2>4, ModalHolds
<1>2. CASE MoveInBrowser
  <2>1. PICK b \in BrowserMoves(modal) : ShowModal(b)
    BY <1>2 DEF MoveInBrowser
  <2>2. Lists(modal) /\ UNCHANGED rate
    BY <1>2 DEF ChoiceInv, ListOK, MoveInBrowser
  <2>3. Lists(b)
    BY <2>2, MovesList
  <2> QED
    BY <2>1, <2>2, <2>3, ModalHolds
<1>3. CASE CloseModal
  BY <1>3, ModalHolds, DialogsAre DEF CloseModal
<1> QED
  BY <1>1, <1>2, <1>3

LEMMA PickHolds ==
    ASSUME FormsInv, ChoiceInv, Pick
    PROVE  ChoiceInv'
<1>1. PICK n : \E p \in BrowserPicks(modal) :
         /\ n = modal.target.field /\ Derive(n, Text(to_string_lossy(p)))
         /\ picked' = [picked EXCEPT ![n] = p]
  BY DEF Pick
<1>2. /\ modal' = NoModal
      /\ UNCHANGED <<screen, focus, touched, profile, edits, status, selected,
                     result, rate, disk, request, fresh>>
  BY DEF Pick
<1>3. IsFor(modal, screen) /\ Lists(modal)
  BY DEF Pick, FormsInv, BrowserOK, ChoiceInv, ListOK
<1>4. n \in FieldNames /\ screen \in Browsing /\ (n = "output" => screen = "unlockForm")
  BY <1>1, <1>3 DEF IsFor, FieldNames
<1>5. PICK p \in Paths : Derive(n, Text(to_string_lossy(p))) /\ picked' = [picked EXCEPT ![n] = p]
  BY <1>1, <1>3, PicksAre
<1>6. PICK f : /\ f = Text(to_string_lossy(p)) /\ ReplacesText(f) /\ ~f.armed
               /\ f.value = to_string_lossy(p)
  BY <1>5, LossyIs, NewTextsAre, TextsAre
<1>7. FieldsOK /\ TextsOK
  BY DEF FormsInv, ChoiceInv
<1>8. /\ TextsOK' /\ field'[n] = f
      /\ n # "input" => field'["input"] = field["input"]
      /\ n # "output" /\ screen # "lockFileForm" => field'["output"] = field["output"]
      /\ \A m \in FieldNames : field'[m].armed => field[m].armed
  BY <1>4, <1>5, <1>6, <1>7, DeriveHolds
<1>9. KeptOK'
  BY <1>2, <1>8 DEF ChoiceInv, KeptOK, HasFocus
<1>10. PickedOK'
  <2>1. DOMAIN picked' = FieldNames /\ picked'[n] = p
        /\ \A m \in FieldNames \ {n} : picked'[m] = picked[m]
    BY <1>4, <1>5 DEF ChoiceInv, PickedOK
  <2>2. {"input", "output"} \subseteq FieldNames
    BY DEF FieldNames
  <2>3. ASSUME NEW m \in {"input", "output"}, picked'[m] # NoPath
        PROVE  /\ picked'[m] \in Paths /\ field'[m].value = to_string_lossy(picked'[m])
               /\ m = "output" => screen = "unlockForm"
    <3>1. CASE m = n
      BY <1>4, <1>6, <1>8, <2>1, <3>1
    <3>2. CASE m # n
      <4>1. picked'[m] = picked[m]
        BY <2>1, <2>2, <3>2
      <4>2. m = "output" => screen = "unlockForm"
        BY <2>3, <4>1 DEF ChoiceInv, PickedOK
      <4>3. field'[m] = field[m]
        BY <1>8, <3>2, <4>2
      <4> QED
        BY <2>3, <4>1, <4>2, <4>3 DEF ChoiceInv, PickedOK
    <3> QED
      BY <3>1, <3>2
  <2> QED
    BY <1>2, <2>1, <2>3 DEF PickedOK
<1>11. ResultOK'
  <2>1. screen' \notin Following \cup {"lockProgress"}
    BY <1>2, <1>4 DEF Browsing, Following
  <2> QED
    BY <2>1, OtherScreens
<1>12. FlagsOK' /\ DiskOK' /\ ListOK'
  BY <1>2, DialogsAre DEF ChoiceInv, FlagsOK, DiskOK, ListOK
<1> QED
  BY <1>8, <1>9, <1>10, <1>11, <1>12 DEF ChoiceInv

-------------------------------------------------------------------------------
(* What the use cases are run on.                                            *)

LEMMA Unasked ==
    UNCHANGED request \/ request' = NoRequest => RunIsAsChosen
BY DEF RunIsAsChosen, NoRequest

LEMMA TypedIs ==
    ASSUME TextsOK, NEW n \in FieldNames
    PROVE  field[n].value \in Texts /\ Typed(n) \in Texts
<1>1. field[n].value \in Texts
  BY DEF TextsOK, ReplacesText, IsText, Stands, Texts
<1> QED
  BY <1>1, TrimIs DEF Typed, IsTrimmed

\* What a field has of the path picked is what is run on.
LEMMA PickedIsTyped ==
    ASSUME PickedOK, NEW n \in {"input", "output"}
    PROVE  IsPlain(picked[n]) => Typed(n) = picked[n]
<1>1. IsPlain(picked[n]) => picked[n] \in Paths /\ field[n].value = to_string_lossy(picked[n])
  BY DEF PickedOK, IsPlain
<1> QED
  BY <1>1, LossyIs DEF Typed

LEMMA RunLockHolds ==
    ASSUME FormsInv, ChoiceInv, Key, screen \in LockForms, LockIsComplete, RunLock,
           rate' = (rate \/ profile = CurrentMachine)
    PROVE  ChoiceInv' /\ RunIsAsChosen
<1>1. PICK r : r = request'
  OBVIOUS
<1>2. /\ r.use = "lock" /\ r.input = Typed("input") /\ r.output = Typed("output")
      /\ r.target = Typed("target") /\ r.profile = profile
      /\ r.rate = (profile = CurrentMachine)
      /\ r.passphrase = field["password"].value /\ r.estimate = NoEstimate
  BY <1>1 DEF RunLock, NoRequest
<1>3. /\ Typed("input") # << >> /\ Typed("output") # << >>
      /\ field["password"].value = field["confirm"].value
  BY DEF LockIsComplete
<1>4. TextsOK /\ PickedOK /\ {"input", "output"} \subseteq FieldNames
  BY DEF ChoiceInv, FieldNames
<1>5. Show("lockProgress") /\ UNCHANGED <<result, modal, disk>> /\ "lockProgress" \in Screens
  BY DEF RunLock, Screens, Foci
<1>6. screen' = "lockProgress"
  BY <1>5, ShowHolds
<1>7. ResultOK'
  <2>1. r.output \in Texts
    BY <1>2, <1>4, TypedIs
  <2> QED
    BY <1>1, <1>2, <1>3, <1>6, <2>1 DEF ResultOK, Following
<1>8. rate' \in BOOLEAN
  BY Zenon
<1>9. ChoiceInv'
  BY <1>5, <1>7, <1>8, ShownHolds, DialogsAre
<1>10. ~touched /\ screen = "lockFileForm" => r.output = derive_default_output(r.input)
  <2>1. SUFFICES ASSUME ~touched, screen = "lockFileForm"
                 PROVE  r.output = derive_default_output(r.input)
    OBVIOUS
  <2>2. PICK v \in Texts : v = field["input"].value
    BY <1>4, TypedIs
  <2>3. field["output"].value = derive_default_output(v)
    BY <2>1, <2>2 DEF FormsInv, OutputFollowsInput
  <2>4. r.output = Trim(derive_default_output(v)) /\ r.input = Trim(v)
    BY <1>2, <2>2, <2>3 DEF Typed
  <2> QED
    BY <2>4, DerivedIs
<1>11. screen \notin {"lockComplete", "inspectDetails"}
  BY DEF LockForms
<1>12. IsPlain(picked["input"]) => r.input = picked["input"]
  BY <1>2, <1>4, PickedIsTyped
<1>13. r.estimate.of = << >>
  BY <1>2 DEF NoEstimate
<1>14. r.profile = profile /\ (r.rate <=> profile = CurrentMachine)
  BY <1>2
<1>15. RunIsAsChosen
  BY <1>1, <1>2, <1>3, <1>10, <1>11, <1>12, <1>13, <1>14 DEF RunIsAsChosen
<1> QED
  BY <1>9, <1>15

\* An unlock of the file p, which e is about.
LEMMA RunUnlockHolds ==
    ASSUME FormsInv, ChoiceInv, Key, NEW p, NEW outDir, NEW e, RunUnlock(p, outDir, e), e.of = p,
           p # << >>,
           p = IF screen \in Following THEN result ELSE Typed("input"),
           outDir = IF screen = "inspectDetails" THEN << >> ELSE Typed("output"),
           IsPlain(picked["input"]) => p = picked["input"],
           IsPlain(picked["output"]) => outDir = picked["output"]
    PROVE  ChoiceInv' /\ RunIsAsChosen
<1>1. PICK r : r = request'
  OBVIOUS
<1>2. r.use = "unlock" /\ r.input = p /\ r.output = outDir /\ r.estimate = Seconds(e)
  BY <1>1 DEF RunUnlock, NoRequest
<1>3. Show("unlockProgress") /\ UNCHANGED <<result, modal, rate, disk>>
      /\ "unlockProgress" \in Screens
  BY DEF RunUnlock, Screens, Foci
<1>4. screen' = "unlockProgress"
  BY <1>3, ShowHolds
<1>5. ResultOK'
  BY <1>4, OtherScreens DEF Following
<1>6. rate' \in BOOLEAN
  BY <1>3 DEF ChoiceInv, FlagsOK
<1>7. ChoiceInv'
  BY <1>3, <1>5, <1>6, ShownHolds, DialogsAre
<1>8. r.estimate.of \in {p, << >>}
  BY <1>2 DEF Seconds, NoEstimate
<1>9. RunIsAsChosen
  BY <1>1, <1>2, <1>8 DEF RunIsAsChosen, Following
<1> QED
  BY <1>7, <1>9

LEMMA RunInspectHolds ==
    ASSUME FormsInv, ChoiceInv, Key, NEW p, RunInspect(p),
           p = IF screen \in Following THEN result ELSE Typed("input"),
           IsPlain(picked["input"]) => p = picked["input"]
    PROVE  ChoiceInv' /\ RunIsAsChosen
<1>1. CASE At(p) \notin {"profiled", "unprofiled"}
  <2>1. Refuse /\ UNCHANGED request
    BY <1>1 DEF RunInspect, Refuse, ShowModal
  <2> QED
    BY <2>1, RefuseHolds, Unasked
<1>2. CASE At(p) \in {"profiled", "unprofiled"}
  <2>1. /\ screen' = "inspectDetails" /\ fresh' = TRUE /\ result' = p
        /\ estimate' = inspect_timelock_estimate(p, rate)
        /\ field' = NoFields /\ picked' = NotPicked
        /\ UNCHANGED <<touched, profile, edits, status, selected, modal, rate, disk>>
    BY <1>2 DEF RunInspect
  <2>2. PICK r : r = request'
    OBVIOUS
  <2>3. r.use = "inspect" /\ r.input = p /\ r.estimate = NoEstimate
    BY <1>2, <2>2 DEF RunInspect, NoRequest
  <2>4. p # << >>
    BY <1>2 DEF At
  <2>5. TextsOK' /\ KeptOK'
    <3>1. \A n \in FieldNames : field'[n] = Empty
      BY <2>1 DEF NoFields
    <3> QED
      BY <2>1, <3>1, NewTextsAre DEF TextsOK, KeptOK
  <2>6. PickedOK' /\ picked'["input"] = NoPath
    BY <2>1 DEF PickedOK, NotPicked, FieldNames
  <2>7. estimate'.of = p
    BY <2>1 DEF inspect_timelock_estimate
  <2>8. ResultOK'
    BY <2>1, <2>4, <2>6, <2>7 DEF ResultOK
  <2>9. FlagsOK' /\ DiskOK' /\ ListOK'
    <3>1. fresh' \in BOOLEAN
      BY <2>1, Zenon
    <3> QED
      BY <2>1, <3>1 DEF ChoiceInv, FlagsOK, DiskOK, ListOK
  <2>10. RunIsAsChosen
    BY <2>2, <2>3, <2>4 DEF RunIsAsChosen, Following, NoEstimate
  <2> QED
    BY <2>5, <2>6, <2>8, <2>9, <2>10 DEF ChoiceInv
<1> QED
  BY <1>1, <1>2

\* A verification asked for on the screen that stays.
LEMMA RunVerifyHolds ==
    ASSUME FormsInv, ChoiceInv, NEW p,
           request' = [NoRequest EXCEPT !.use = "verify", !.input = p],
           UNCHANGED <<screen, focus, form, selected, result, rate, disk, fresh>>,
           status' \in {status, "running"}, modal' \in {modal, Notice},
           screen # "lockProgress",
           p = IF screen \in Following THEN result ELSE Typed("input"), p # << >>,
           IsPlain(picked["input"]) => p = picked["input"]
    PROVE  ChoiceInv' /\ RunIsAsChosen
<1>1. PICK r : r = request'
  OBVIOUS
<1>2. r.use = "verify" /\ r.input = p /\ r.estimate = NoEstimate
  BY <1>1 DEF NoRequest
<1>3. UNCHANGED <<field, touched, profile, estimate, edits, picked>>
  BY DEF form
<1>4. FlagsOK' /\ DiskOK' /\ ListOK'
  <2>1. status' \in {"idle", "running", "cancelling"}
    BY DEF ChoiceInv, FlagsOK
  <2> QED
    BY <1>3, <2>1, DialogsAre DEF ChoiceInv, FlagsOK, DiskOK, ListOK
<1>5. ResultOK'
  BY <1>3 DEF ChoiceInv, ResultOK
<1>6. RunIsAsChosen
  BY <1>1, <1>2 DEF RunIsAsChosen, Following, NoEstimate
<1> QED
  BY <1>3, <1>4, <1>5, <1>6, FieldsStay DEF ChoiceInv

\* The buttons that run a use case, each on the screen it is on.
LEMMA RunButtonHolds ==
    ASSUME FormsInv, ChoiceInv,
           StartLock \/ StartUnlock \/ StartInspect \/ StartVerify \/ FollowUp \/ UnlockInspected
    PROVE  ChoiceInv' /\ RunIsAsChosen
<1>1. FocusOK /\ TextsOK /\ PickedOK /\ "input" \in FieldNames
  BY DEF FormsInv, ChoiceInv, FieldNames
<1>2. ASSUME Refuse PROVE ChoiceInv' /\ RunIsAsChosen
  <2>1. UNCHANGED request
    BY <1>2 DEF Refuse, ShowModal
  <2> QED
    BY <1>2, <2>1, RefuseHolds, Unasked
<1>3. /\ \A n \in {"input", "output"} : IsPlain(picked[n]) => Typed(n) = picked[n]
      /\ ~IsPlain(NoPath)
  BY <1>1, PickedIsTyped DEF IsPlain
<1>4. CASE StartLock
  <2>1. CASE LockIsComplete /\ rate' = (rate \/ profile = CurrentMachine) /\ RunLock
    BY <1>4, <2>1, RunLockHolds DEF StartLock
  <2> QED
    BY <1>2, <1>4, <2>1 DEF StartLock
<1>5. CASE StartUnlock
  <2>1. CASE Typed("input") # << >>
    <3>1. RunUnlock(Typed("input"), Typed("output"), estimate) /\ Key /\ screen = "unlockForm"
      BY <1>5, <2>1 DEF StartUnlock
    <3>2. estimate.of = Typed("input")
      BY <3>1 DEF FormsInv, EstimateIsOfInput
    <3>3. screen \notin Following /\ screen # "inspectDetails"
      BY <3>1 DEF Following
    <3> QED
      BY <1>3, <2>1, <3>1, <3>2, <3>3, RunUnlockHolds
  <2> QED
    BY <1>2, <1>5, <2>1 DEF StartUnlock
<1>6. CASE StartInspect
  <2>1. CASE Typed("input") # << >>
    <3>1. RunInspect(Typed("input")) /\ Key /\ screen \notin Following
      BY <1>6, <2>1 DEF StartInspect, Following
    <3> QED
      BY <1>3, <3>1, RunInspectHolds
  <2> QED
    BY <1>2, <1>6, <2>1 DEF StartInspect
<1>7. CASE StartVerify
  <2>1. CASE Typed("input") # << >>
    <3>1. /\ request' = [NoRequest EXCEPT !.use = "verify", !.input = Typed("input")]
          /\ UNCHANGED <<screen, focus, form, selected, result, rate, disk, fresh>>
          /\ status' \in {status, "running"} /\ modal' \in {modal, Notice}
          /\ screen # "lockProgress" /\ screen \notin Following
      BY <1>7, <2>1 DEF StartVerify, Following
    <3> QED
      BY <1>3, <2>1, <3>1, RunVerifyHolds
  <2> QED
    BY <1>2, <1>7, <2>1 DEF StartVerify
<1>8. ASSUME HasFocus("inspect") \/ HasFocus("verify") PROVE screen = "lockComplete"
  <2>1. /\ focus \in DOMAIN Foci[screen] /\ screen \in Screens
        /\ Foci[screen][focus] \in {"inspect", "verify"}
    BY <1>1, <1>8 DEF FocusOK, HasFocus
  <2>2. CASE screen \in Browsing \cup {"lockTextForm"}
    <3>1. CASE screen = "lockFileForm"
      BY <2>1, <3>1 DEF Foci, LockFileFoci, LockFoci
    <3>2. CASE screen = "lockTextForm"
      BY <2>1, <3>2 DEF Foci, LockTextFoci, LockFoci
    <3>3. CASE screen = "unlockForm"
      BY <2>1, <3>3 DEF Foci, UnlockFoci
    <3>4. CASE screen \in {"inspectForm", "verifyForm"}
      BY <2>1, <3>4 DEF Foci, InspectFoci, VerifyFoci
    <3> QED
      BY <2>2, <3>1, <3>2, <3>3, <3>4 DEF Browsing
  <2>3. CASE screen \notin Browsing \cup {"lockTextForm"}
    BY <2>1, <2>3 DEF Screens, Foci, Browsing, LockProgressFoci, UnlockProgressFoci,
              LockCompleteFoci, UnlockCompleteFoci, InspectDetailsFoci, VerifyDetailsFoci
  <2> QED
    BY <2>2, <2>3
<1>9. screen \in Following => result # << >> /\ picked["input"] = NoPath
  BY DEF ChoiceInv, ResultOK
<1>10. CASE FollowUp
  <2>1. CASE Key /\ HasFocus("inspect") /\ RunInspect(result)
    <3>1. screen \in Following
      BY <1>8, <2>1 DEF Following
    <3> QED
      BY <1>3, <1>9, <2>1, <3>1, RunInspectHolds
  <2>2. CASE /\ Key /\ HasFocus("verify")
             /\ request' = [NoRequest EXCEPT !.use = "verify", !.input = result]
             /\ modal' = Notice
             /\ UNCHANGED <<screen, focus, form, status, selected, result, rate, disk, fresh>>
    <3>1. screen = "lockComplete" /\ screen \in Following
      BY <1>8, <2>2 DEF Following
    <3>2. status' \in {status, "running"} /\ modal' \in {modal, Notice} /\ screen # "lockProgress"
          /\ UNCHANGED <<screen, focus, form, selected, result, rate, disk, fresh>>
      BY <2>2, <3>1
    <3> QED
      BY <1>3, <1>9, <2>2, <3>1, <3>2, RunVerifyHolds
  <2> QED
    BY <1>2, <1>10, <2>1, <2>2 DEF FollowUp
<1>11. CASE UnlockInspected
  <2>1. /\ Key /\ screen = "inspectDetails" /\ screen \in Following
        /\ RunUnlock(result, << >>, estimate)
    BY <1>11 DEF UnlockInspected, Following
  <2>2. estimate.of = result
    BY <2>1 DEF ChoiceInv, ResultOK
  <2>3. picked["output"] = NoPath
    BY <1>1, <2>1 DEF PickedOK
  <2> QED
    BY <1>3, <1>9, <2>1, <2>2, <2>3, RunUnlockHolds
<1> QED
  BY <1>4, <1>5, <1>6, <1>7, <1>10, <1>11

\* The screens that are left, and those that follow a worker.
LEMMA LeavingHolds ==
    ASSUME FormsInv, ChoiceInv, Leave \/ Choose \/ Quit \/ WorkerEnds \/ WorkerFails
    PROVE  ChoiceInv' /\ RunIsAsChosen
<1>1. /\ {"lockComplete", "unlockComplete", "unlockedText", "verifyDetails", "menu", "quit"}
            \subseteq Screens
      /\ status # "idle" => modal.kind # "browser" /\ screen = "verifyForm"
      /\ rate \in BOOLEAN /\ FocusOK
  BY DEF FormsInv, BrowserOK, Screens, Foci, ChoiceInv, FlagsOK
<1>2. ASSUME NEW s \in Screens \ (Following \cup {"lockProgress"}), Show(s),
             modal'.kind # "browser", UNCHANGED <<rate, disk>>
      PROVE  ChoiceInv'
  <2>1. screen' = s
    BY <1>2, ShowHolds
  <2>2. ResultOK'
    BY <1>2, <2>1, OtherScreens
  <2> QED
    BY <1>1, <1>2, <2>2, ShownHolds
<1>3. {"unlockComplete", "unlockedText", "verifyDetails", "menu", "quit"}
         \subseteq Screens \ (Following \cup {"lockProgress"})
  BY <1>1 DEF Following
<1>4. CASE Leave
  BY <1>2, <1>3, <1>4, DialogsAre, Unasked DEF Leave, ToMenu
<1>5. CASE Choose
  <2>1. MAIN_MENU_ITEMS[selected + 1] \in Screens \ (Following \cup {"lockProgress"})
    BY <1>1 DEF FocusOK, MAIN_MENU_ITEMS, Screens, Foci, Following
  <2> QED
    BY <1>2, <1>5, <2>1, DialogsAre, Unasked DEF Choose
<1>6. CASE Quit
  BY <1>2, <1>3, <1>6, DialogsAre, Unasked DEF Quit
<1>7. CASE WorkerEnds
  <2>1. CASE /\ screen = "lockProgress" /\ modal = NoModal
             /\ Show("lockComplete") /\ result' = ensure_timelocked_extension(request.output)
             /\ UNCHANGED <<modal, rate, disk, request>>
    <3>1. screen' = "lockComplete" /\ picked'["input"] = NoPath
      BY <1>1, <2>1, ShowHolds
    <3>2. request.output \in Texts /\ request.output # << >>
      BY <2>1 DEF ChoiceInv, ResultOK
    <3>3. result' # << >>
      BY <2>1, <3>2, ExtensionIs
    <3>4. ResultOK'
      BY <3>1, <3>3 DEF ResultOK, Following
    <3> QED
      BY <1>1, <2>1, <3>4, ShownHolds, DialogsAre, Unasked
  <2>2. CASE /\ screen = "unlockProgress" /\ modal = NoModal
             /\ \E s \in {"unlockComplete", "unlockedText"} : Show(s)
             /\ UNCHANGED <<result, modal, rate, disk, request>>
    <3>1. PICK s \in {"unlockComplete", "unlockedText"} : Show(s)
      BY <2>2
    <3> QED
      BY <1>2, <1>3, <2>2, <3>1, DialogsAre, Unasked
  <2>3. CASE /\ status # "idle"
             /\ Show("verifyDetails") /\ UNCHANGED <<result, modal, rate, disk, request>>
    BY <1>1, <1>2, <1>3, <2>3, Unasked
  <2> QED
    BY <1>7, <2>1, <2>2, <2>3 DEF WorkerEnds
<1>8. CASE WorkerFails
  <2>1. CASE /\ Show("menu") /\ modal' = Notice /\ request' = NoRequest
             /\ UNCHANGED <<rate, disk>>
    BY <1>2, <1>3, <2>1, DialogsAre, Unasked
  <2>2. CASE /\ status # "idle" /\ status' = "idle" /\ modal' = Notice /\ request' = NoRequest
             /\ UNCHANGED <<screen, focus, form, selected, result, rate, disk, fresh>>
    <3>1. UNCHANGED <<field, touched, profile, estimate, edits, picked>>
      BY <2>2 DEF form
    <3>2. FlagsOK' /\ DiskOK' /\ ListOK'
      BY <2>2, <3>1, DialogsAre DEF ChoiceInv, FlagsOK, DiskOK, ListOK
    <3>3. ResultOK'
      BY <1>1, <2>2, OtherScreens DEF Following
    <3>4. TextsOK' /\ KeptOK' /\ PickedOK'
      BY <2>2, <3>1, FieldsStay
    <3> QED
      BY <2>2, <3>2, <3>3, <3>4, Unasked DEF ChoiceInv
  <2> QED
    BY <1>8, <2>1, <2>2 DEF WorkerFails
<1> QED
  BY <1>4, <1>5, <1>6, <1>7, <1>8

\* The keys and events that leave the fields alone, and no use case is run.
LEMMA QuietHolds ==
    ASSUME FormsInv, ChoiceInv,
           ChangeProfile \/ MoveInMenu \/ CancelVerify \/ RateArrives \/ DiskChanges
    PROVE  ChoiceInv'
<1>1. CASE ChangeProfile
  <2>1. UNCHANGED <<screen, focus, field, touched, estimate, picked, status, selected,
                    result, modal, rate, disk, request, fresh>>
        /\ edits' = edits + 1
    BY <1>1 DEF ChangeProfile
  <2>2. profile' \in 0..PROFILES
    BY <1>1 DEF ChangeProfile, ChoiceInv, FlagsOK, PROFILES
  <2>3. FlagsOK' /\ DiskOK' /\ ListOK'
    BY <2>1, <2>2 DEF ChoiceInv, FlagsOK, DiskOK, ListOK
  <2> QED
    BY <2>1, <2>3, FieldsStay, ResultStays DEF ChoiceInv
<1>2. CASE MoveInMenu \/ CancelVerify
  <2>1. /\ UNCHANGED <<screen, focus, field, touched, profile, estimate, edits, picked,
                       result, modal, rate, disk, request, fresh>>
        /\ status' \in {status, "cancelling"}
    BY <1>2 DEF MoveInMenu, CancelVerify, form
  <2>2. FlagsOK' /\ DiskOK' /\ ListOK'
    BY <2>1 DEF ChoiceInv, FlagsOK, DiskOK, ListOK
  <2> QED
    BY <2>1, <2>2, FieldsStay, ResultStays DEF ChoiceInv
<1>3. CASE RateArrives
  <2>1. /\ UNCHANGED <<screen, focus, field, touched, profile, edits, picked, status, selected,
                       result, modal, disk, request, fresh>>
        /\ rate' = TRUE /\ (screen # "unlockForm" => estimate' = estimate)
    BY <1>3 DEF RateArrives
  <2>2. rate' \in BOOLEAN
    BY <2>1, Zenon
  <2>3. FlagsOK' /\ DiskOK' /\ ListOK'
    BY <2>1, <2>2 DEF ChoiceInv, FlagsOK, DiskOK, ListOK
  <2>4. ResultOK'
    BY <2>1 DEF ChoiceInv, ResultOK, Following
  <2> QED
    BY <2>1, <2>3, <2>4, FieldsStay DEF ChoiceInv
<1>4. CASE DiskChanges
  <2>1. UNCHANGED <<screen, focus, field, touched, profile, estimate, edits, picked, status,
                    selected, result, modal, rate, request, fresh>>
    BY <1>4 DEF DiskChanges, form
  <2>2. DiskOK'
    BY <1>4 DEF DiskChanges, ChoiceInv, DiskOK
  <2>3. FlagsOK' /\ ListOK'
    BY <2>1 DEF ChoiceInv, FlagsOK, ListOK
  <2> QED
    BY <2>1, <2>2, <2>3, FieldsStay, ResultStays DEF ChoiceInv
<1> QED
  BY <1>1, <1>2, <1>3, <1>4

LEMMA ChoiceStep ==
    ASSUME FormsInv, ChoiceInv, FormsNext
    PROVE  ChoiceInv' /\ RunIsAsChosen
<1>1. CASE \/ MoveFocus \/ EditField \/ OpenBrowser \/ MoveInBrowser \/ CloseModal \/ Pick
           \/ ChangeProfile \/ MoveInMenu \/ CancelVerify \/ RateArrives \/ DiskChanges
  <2>1. UNCHANGED request
    BY <1>1 DEF MoveFocus, EditField, OpenBrowser, MoveInBrowser, CloseModal, Pick, ShowModal,
                ChangeProfile, MoveInMenu, CancelVerify, RateArrives, DiskChanges
  <2> QED
    BY <1>1, <2>1, Unasked, MoveFocusHolds, EditFieldHolds, BrowserHolds, PickHolds, QuietHolds
<1> QED
  BY <1>1, RunButtonHolds, LeavingHolds DEF FormsNext

\* Only the keys that reach the fields and the profile count as edits.
LEMMA OneCharacterStep ==
    ASSUME FormsInv, ChoiceInv, FormsNext
    PROVE  OneCharacter
<1>1. edits \in Nat
  BY DEF ChoiceInv, FlagsOK
<1>2. ASSUME edits' \in {edits, 0} PROVE OneCharacter
  BY <1>1, <1>2 DEF OneCharacter
<1>3. \A s : Show(s) => edits' = 0
  BY DEF Show, Fresh
<1>4. CASE EditField
  BY <1>4, EditFieldHolds
<1>5. CASE ChangeProfile
  BY <1>5 DEF ChangeProfile, OneCharacter, OneEdit
<1>6. CASE OpenBrowser \/ MoveInBrowser \/ CloseModal \/ MoveFocus \/ Pick
  BY <1>2, <1>6 DEF OpenBrowser, MoveInBrowser, CloseModal, MoveFocus, Pick, ShowModal, form
<1>7. CASE Leave \/ Choose \/ Quit \/ WorkerEnds \/ WorkerFails
  BY <1>2, <1>3, <1>7 DEF Leave, ToMenu, Choose, Quit, WorkerEnds, WorkerFails, form
<1>8. ASSUME NEW p, RunInspect(p) PROVE OneCharacter
  BY <1>2, <1>8 DEF RunInspect, Refuse, ShowModal, form
<1>9. CASE StartLock \/ StartUnlock \/ StartVerify \/ UnlockInspected
  BY <1>2, <1>3, <1>9 DEF StartLock, StartUnlock, StartVerify, UnlockInspected, RunLock, RunUnlock,
                          Refuse, ShowModal, form
<1>10. CASE StartInspect \/ FollowUp
  BY <1>2, <1>8, <1>10 DEF StartInspect, FollowUp, Refuse, ShowModal, form
<1>11. CASE CancelVerify \/ MoveInMenu \/ RateArrives \/ DiskChanges
  BY <1>2, <1>11 DEF CancelVerify, MoveInMenu, RateArrives, DiskChanges, form
<1> QED
  BY <1>4, <1>5, <1>6, <1>7, <1>9, <1>10, <1>11 DEF FormsNext

LEMMA ChoiceStays ==
    ASSUME ChoiceInv, UNCHANGED forms
    PROVE  ChoiceInv'
<1>1. UNCHANGED <<screen, focus, field, touched, profile, estimate, edits, picked, status,
                  selected, result, modal, rate, disk, request, fresh>>
  BY DEF forms, form
<1>2. FlagsOK' /\ DiskOK' /\ ListOK'
  BY <1>1 DEF ChoiceInv, FlagsOK, DiskOK, ListOK
<1> QED
  BY <1>1, <1>2, FieldsStay, ResultStays DEF ChoiceInv

LEMMA ChoiceBegins == FormsInit => ChoiceInv
<1> SUFFICES ASSUME FormsInit PROVE ChoiceInv
  OBVIOUS
<1>1. TextsOK
  <2>1. \A n \in FieldNames : field[n] = Empty
    BY DEF FormsInit, NoFields
  <2> QED
    BY <2>1, NewTextsAre DEF TextsOK
<1>2. FlagsOK
  <2>1. touched = FALSE /\ rate = FALSE /\ fresh = TRUE
    BY DEF FormsInit
  <2>2. touched \in BOOLEAN /\ rate \in BOOLEAN /\ fresh \in BOOLEAN
    BY <2>1, Zenon
  <2>3. profile \in 0..PROFILES /\ edits \in Nat /\ status \in {"idle", "running", "cancelling"}
    BY DEF FormsInit, DefaultProfile, PROFILES
  <2> QED
    BY <2>2, <2>3 DEF FlagsOK
<1>3. DiskOK
  BY DEF FormsInit, DiskOK
<1>4. ListOK
  BY DialogsAre DEF FormsInit, ListOK
<1>5. KeptOK /\ PickedOK
  BY DEF FormsInit, KeptOK, PickedOK, NotPicked, FieldNames
<1>6. ResultOK
  BY DEF FormsInit, ResultOK, Following
<1> QED
  BY <1>1, <1>2, <1>3, <1>4, <1>5, <1>6 DEF ChoiceInv

LEMMA FormsTypes ==
    ASSUME FormsInv, ChoiceInv
    PROVE  FormsTypeOK
<1>1. FocusOK /\ FlagsOK /\ DiskOK
  BY DEF FormsInv, ChoiceInv
<1>2. ASSUME NEW n \in FieldNames
      PROVE  /\ field[n].value \in Seq(Characters) /\ field[n].cursor \in 0..Len(field[n].value)
             /\ field[n].armed => field[n].value # << >>
  BY DEF ChoiceInv, TextsOK, ReplacesText, IsText, Stands
<1>3. ASSUME modal.kind = "browser"
      PROVE  /\ modal.selected \in 0..Max({0, Len(modal.entries) - 1})
             /\ modal.error => modal.entries = << >>
  <2>1. Lists(modal)
    BY <1>3 DEF ChoiceInv, ListOK
  <2>2. PICK n \in Nat : /\ Len(modal.entries) = n
                         /\ modal.selected \in 0..(IF n = 0 THEN 0 ELSE n - 1)
    BY <2>1 DEF Lists, IsList
  <2>3. 0 \in Int /\ n - 1 \in Int
    OBVIOUS
  <2>4. Max({0, n - 1}) = IF 0 >= n - 1 THEN 0 ELSE n - 1
    BY <2>3, Bigger
  <2>5. Max({0, Len(modal.entries) - 1}) = IF n = 0 THEN 0 ELSE n - 1
    BY <2>2, <2>4
  <2> QED
    BY <2>1, <2>2, <2>5 DEF Lists
<1> QED
  BY <1>1, <1>2, <1>3 DEF FormsTypeOK, FocusOK, FlagsOK, DiskOK

-------------------------------------------------------------------------------
(* The command line: what was accepted, and where a run is.                   *)

CliChoice == CliInv /\ CliTypeOK /\ (stage = "handler" => Accepted(args))

\* The command lines of lock and of unlock, those with an input only, and those with nothing.
LockLines ==
    [command : {"lock"}, input : Inputs, input_arg : Inputs, target : {Absent, "delay"},
     iterations : {Absent, "count"}, creator_message : {Absent, "message"},
     creator_message_file : {Absent, "file", "missing"}, password : {Absent, "", "passphrase"},
     out : {Absent, "path"}, hardware_profile : {Absent, "profile"},
     creator_name : {Absent, "name"}, verify : BOOLEAN, out_dir : {Absent}]

NamesOutput(a) ==
    \E i \in Inputs, j \in Inputs, o \in {Absent, "path"}, d \in {Absent, "folder"} :
       a = [NoArgs EXCEPT !.command = "unlock", !.input = i, !.input_arg = j,
                          !.out = o, !.out_dir = d]

NamesInput(a) ==
    \E c \in {"inspect", "verify"}, i \in Inputs, j \in Inputs :
       a = [NoArgs EXCEPT !.command = c, !.input = i, !.input_arg = j]

NamesNothing(a) ==
    \E c \in {Absent, "tui", "calibrate"} : a = [NoArgs EXCEPT !.command = c]

LEMMA LinesAre ==
    ASSUME NEW a
    PROVE  a \in CommandLines <=> a \in LockLines \/ NamesOutput(a) \/ NamesInput(a) \/ NamesNothing(a)
<1> DEFINE outputs == {[NoArgs EXCEPT !.command = "unlock", !.input = i, !.input_arg = j,
                                      !.out = o, !.out_dir = d] :
                         i \in Inputs, j \in Inputs,
                         o \in {Absent, "path"}, d \in {Absent, "folder"}}
           inputs == {[NoArgs EXCEPT !.command = c, !.input = i, !.input_arg = j] :
                         c \in {"inspect", "verify"}, i \in Inputs, j \in Inputs}
           bare   == {[NoArgs EXCEPT !.command = c] : c \in {Absent, "tui", "calibrate"}}
<1>1. CommandLines = LockLines \cup outputs \cup inputs \cup bare
  BY DEF CommandLines, LockLines
<1>2. a \in inputs <=> NamesInput(a)
  BY DEF NamesInput
<1>3. a \in bare <=> NamesNothing(a)
  BY DEF NamesNothing
<1>4. a \in outputs <=> NamesOutput(a)
  BY DEF NamesOutput
<1> HIDE DEF outputs, inputs, bare
<1> QED
  BY <1>1, <1>2, <1>3, <1>4

LEMMA NoArgsAre == NoArgs \in CommandLines
<1>1. NoArgs = [NoArgs EXCEPT !.command = Absent]
  <2>1. \A f : f = [x \in DOMAIN f |-> f[x]] => f = [f EXCEPT !.command = f.command]
    OBVIOUS
  <2>2. NoArgs = [x \in DOMAIN NoArgs |-> NoArgs[x]] /\ NoArgs.command = Absent
    BY DEF NoArgs
  <2> QED
    BY <2>1, <2>2
<1>2. NamesNothing(NoArgs)
  BY <1>1 DEF NamesNothing
<1> QED
  BY <1>2, LinesAre

NothingElse(a) ==
    /\ a.target = Absent /\ a.iterations = Absent /\ a.creator_message = Absent
    /\ a.creator_message_file = Absent /\ a.password = Absent

LEMMA LineIs ==
    ASSUME NEW a \in CommandLines
    PROVE  /\ a.command = "lock" => a \in LockLines
           /\ a.command # "lock" => NothingElse(a)
           /\ a.command \notin {"lock", "unlock", "inspect", "verify"} =>
                 a.input = Absent /\ a.input_arg = Absent
<1>1. CASE a \in LockLines
  BY <1>1 DEF LockLines
<1>2. CASE NamesInput(a)
  <2>1. PICK c \in {"inspect", "verify"}, i \in Inputs, j \in Inputs :
           a = [NoArgs EXCEPT !.command = c, !.input = i, !.input_arg = j]
    BY <1>2 DEF NamesInput
  <2>2. a.command = c /\ NothingElse(a)
    BY <2>1 DEF NoArgs, NothingElse
  <2> QED
    BY <2>2
<1>3. CASE NamesNothing(a)
  <2>1. PICK c \in {Absent, "tui", "calibrate"} : a = [NoArgs EXCEPT !.command = c]
    BY <1>3 DEF NamesNothing
  <2>2. a.command = c /\ NothingElse(a) /\ a.input = Absent /\ a.input_arg = Absent
    BY <2>1 DEF NoArgs, NothingElse
  <2> QED
    BY <2>2 DEF Absent
<1>4. CASE NamesOutput(a)
  <2>1. PICK i \in Inputs, j \in Inputs, o \in {Absent, "path"}, d \in {Absent, "folder"} :
           a = [NoArgs EXCEPT !.command = "unlock", !.input = i, !.input_arg = j,
                              !.out = o, !.out_dir = d]
    BY <1>4 DEF NamesOutput
  <2>2. a.command = "unlock" /\ NothingElse(a)
    BY <2>1 DEF NoArgs, NothingElse
  <2> QED
    BY <2>2
<1> QED
  BY <1>1, <1>2, <1>3, <1>4, LinesAre

LEMMA CliChoiceStep ==
    ASSUME CliChoice, CliNext
    PROVE  CliChoice' /\ RequestIsAsTyped
<1>1. CliInv'
  BY CliStep DEF CliChoice
<1>2. CliTypeOK /\ CliInv
  BY DEF CliChoice
<1>3. ASSUME NEW o \in {"ok", "refused", "failed"}, NEW code \in 0..2, End(o, code)
      PROVE  CliTypeOK' /\ (stage' = "handler" => Accepted(args)') /\ RequestIsAsTyped
  <2>1. stage' = "exited" /\ outcome' = o /\ exit' = code /\ exit' >= 0 /\ exit' \in -1..2
    BY <1>3 DEF End
  <2> QED
    BY <1>2, <1>3, <2>1 DEF End, CliTypeOK, RequestIsAsTyped
<1>4. CASE Parse
  <2>1. CASE Accepted(args) /\ stage' = "handler"
             /\ UNCHANGED <<args, asked, attempt, again, answers, said, outcome, exit>>
    <3>1. CliTypeOK'
      BY <1>2, <1>4, <2>1 DEF CliTypeOK, Parse
    <3>2. Accepted(args)'
      BY <2>1 DEF Accepted, OneInput, OneDifficulty, OneMessage, parse_non_empty_password
    <3> QED
      BY <1>1, <2>1, <3>1, <3>2 DEF CliChoice, RequestIsAsTyped
  <2> QED
    BY <1>1, <1>3, <1>4, <2>1 DEF Parse, CliChoice
<1>5. CASE RunTui
  <2>1. /\ stage = "handler" /\ stage' = "tui" /\ args' = NoArgs
        /\ UNCHANGED <<asked, attempt, again, answers, said, outcome, exit>>
    BY <1>5 DEF RunTui
  <2>2. CliTypeOK'
    BY <1>2, <2>1, NoArgsAre DEF CliTypeOK
  <2> QED
    BY <1>1, <2>1, <2>2 DEF CliChoice, RequestIsAsTyped
<1>6. CASE RunCommand
  <2>1. CASE /\ InputMayBe(args) /\ MessageIsRead(args)
             /\ asked' = Request(args) /\ stage' = "working"
             /\ UNCHANGED <<args, attempt, again, answers, said, outcome, exit>>
    <3>1. Accepted(args) /\ args \in CommandLines /\ args.command \notin {Absent, "tui"}
      BY <1>2, <1>6 DEF CliChoice, CliTypeOK, RunCommand
    <3>2. RequestIsAsTyped
      <4>1. PICK a : a = args
        OBVIOUS
      <4>2. PICK r : r = asked' /\ r = Request(a)
        BY <2>1, <4>1
      <4>3. /\ r.input = Either(a.input, a.input_arg) /\ r.target = a.target
            /\ r.iterations = a.iterations /\ r.creator_message = resolve_creator_message(a)
            /\ r.password = a.password /\ r.use = a.command /\ r.out = a.out
            /\ r.hardware_profile = a.hardware_profile /\ r.creator_name = a.creator_name
            /\ r.verify = a.verify /\ r.out_dir = a.out_dir
        BY <4>2 DEF Request
      <4>4. CASE a.command = "lock"
        <5>1. /\ a.input \in Inputs /\ a.input_arg \in Inputs
              /\ a.creator_message \in {Absent, "message"}
              /\ a.creator_message_file \in {Absent, "file", "missing"}
          BY <3>1, <4>1, <4>4, LineIs DEF LockLines
        <5>2. OneInput(a) /\ OneDifficulty(a) /\ OneMessage(a) /\ a.password # ""
          BY <3>1, <4>1, <4>4 DEF Accepted, parse_non_empty_password
        <5>3. /\ Given(a.input) => r.input = a.input
              /\ Given(a.input_arg) => r.input = a.input_arg
          BY <4>3, <5>2 DEF OneInput, Either, Given
        <5>4. MessageIsRead(a)
          BY <2>1, <4>1
        <5>5. /\ Given(a.creator_message) => r.creator_message = a.creator_message
              /\ Given(a.creator_message_file) <=> r.creator_message = "text of the file"
              /\ r.creator_message # Absent <=>
                    Given(a.creator_message) \/ Given(a.creator_message_file)
          BY <4>3, <5>1, <5>2, <5>4
             DEF OneMessage, MessageIsRead, resolve_creator_message, Given, Absent
        <5> QED
          BY <4>1, <4>2, <4>3, <5>2, <5>3, <5>5 DEF RequestIsAsTyped, OneDifficulty
      <4>5. CASE a.command # "lock"
        <5>1. /\ a.target = Absent /\ a.iterations = Absent /\ a.creator_message = Absent
              /\ a.creator_message_file = Absent /\ a.password = Absent
          BY <3>1, <4>1, <4>5, LineIs DEF NothingElse
        <5>2. /\ Given(a.input) => r.input = a.input
              /\ Given(a.input_arg) => r.input = a.input_arg
          <6>1. CASE a.command \in {"unlock", "inspect", "verify"}
            BY <3>1, <4>1, <4>3, <6>1 DEF Accepted, OneInput, Either, Given
          <6>2. CASE a.command \notin {"unlock", "inspect", "verify"}
            BY <3>1, <4>1, <4>5, <6>2, LineIs DEF Given
          <6> QED
            BY <6>1, <6>2
        <5>3. r.creator_message = Absent
          BY <4>3, <5>1 DEF resolve_creator_message, Given, Absent
        <5> QED
          BY <4>1, <4>2, <4>3, <4>5, <5>1, <5>2, <5>3 DEF RequestIsAsTyped, Given, Absent
      <4> QED
        BY <4>4, <4>5
    <3>3. CliTypeOK'
      BY <1>2, <1>6, <2>1 DEF CliTypeOK, RunCommand
    <3> QED
      BY <1>1, <2>1, <3>2, <3>3 DEF CliChoice
  <2> QED
    BY <1>1, <1>3, <1>6, <2>1 DEF RunCommand, CliChoice
<1>7. CASE UseCaseEnds
  BY <1>1, <1>3, <1>7 DEF UseCaseEnds, CliChoice
<1>8. CASE Prompt
  <2>1. CliTypeOK'
    BY <1>2, <1>8 DEF Prompt, CliTypeOK
  <2> QED
    BY <1>1, <1>8, <2>1 DEF Prompt, CliChoice, RequestIsAsTyped
<1>9. CASE PromptIsUnavailable
  BY <1>1, <1>3, <1>9 DEF PromptIsUnavailable, CliChoice
<1>10. CASE RightAnswer \/ WrongAnswer
  <2>1. answers + 1 \in 0..MAX_PASSWORD_ATTEMPTS
    BY <1>2, <1>10 DEF CliInv, CliTypeOK, RightAnswer, WrongAnswer, MAX_PASSWORD_ATTEMPTS
  <2>2. CASE RightAnswer
    BY <1>1, <1>2, <2>1, <2>2 DEF RightAnswer, CliTypeOK, CliChoice, RequestIsAsTyped
  <2>3. CASE WrongAnswer
    <3>1. CASE attempt < MAX_PASSWORD_ATTEMPTS /\ stage' = "working" /\ attempt' = attempt + 1
               /\ again' = TRUE /\ UNCHANGED <<outcome, exit>>
      BY <1>1, <1>2, <2>1, <2>3, <3>1
         DEF WrongAnswer, CliTypeOK, CliChoice, RequestIsAsTyped, MAX_PASSWORD_ATTEMPTS
    <3>2. CASE stage' = "exited" /\ outcome' = "wrong" /\ exit' = 1 /\ UNCHANGED <<attempt, again>>
      BY <1>1, <1>2, <2>1, <2>3, <3>2 DEF WrongAnswer, CliTypeOK, CliChoice, RequestIsAsTyped
    <3> QED
      BY <2>3, <3>1, <3>2 DEF WrongAnswer
  <2> QED
    BY <1>10, <2>2, <2>3
<1> QED
  BY <1>4, <1>5, <1>6, <1>7, <1>8, <1>9, <1>10 DEF CliNext

LEMMA CliChoiceStays ==
    ASSUME CliChoice, UNCHANGED cli
    PROVE  CliChoice'
<1>1. CliInv'
  BY CliStays DEF CliChoice
<1>2. CliTypeOK'
  BY DEF cli, CliChoice, CliTypeOK
<1> QED
  BY <1>1, <1>2 DEF cli, CliChoice, Accepted, OneInput, OneDifficulty, OneMessage,
                    parse_non_empty_password

-------------------------------------------------------------------------------
(* Both front ends: what they hold and what they run.                        *)

ProgramInv == FormsInv /\ ChoiceInv /\ CliChoice

LEMMA ProgramBegins == Init => ProgramInv
<1> SUFFICES ASSUME Init PROVE ProgramInv
  OBVIOUS
<1>1. FormsInv /\ CliInv /\ ChoiceInv
  BY ShownInvariant, ChoiceBegins DEF Init
<1>2. CliTypeOK
  <2>1. args \in CommandLines /\ stage = "parse" /\ attempt = 1 /\ answers = 0 /\ again = FALSE
        /\ outcome = "none" /\ exit = -1
    BY DEF Init, CliInit
  <2>2. again \in BOOLEAN
    BY <2>1, Zenon
  <2> QED
    BY <2>1, <2>2 DEF CliTypeOK, MAX_PASSWORD_ATTEMPTS
<1>3. stage # "handler"
  BY DEF Init, CliInit
<1> QED
  BY <1>1, <1>2, <1>3 DEF ProgramInv, CliChoice

\* Each front end takes its own steps, and leaves the other alone or starts it.
LEMMA ProgramStep ==
    ASSUME ProgramInv, [Next]_vars
    PROVE  /\ ProgramInv'
           /\ [RunIsAsChosen]_<<forms>> /\ [RequestIsAsTyped]_<<cli>> /\ [OneCharacter]_<<forms>>
<1>1. FormsInv /\ ChoiceInv /\ CliChoice /\ CliInv
  BY DEF ProgramInv, CliChoice
<1>2. FormsInv'
  BY <1>1, ShownInvariant
<1>3. CASE CliNext /\ UNCHANGED forms
  <2>1. CliChoice' /\ RequestIsAsTyped
    BY <1>1, <1>3, CliChoiceStep
  <2>2. ChoiceInv'
    BY <1>1, <1>3, ChoiceStays
  <2> QED
    BY <1>2, <1>3, <2>1, <2>2 DEF ProgramInv
<1>4. CASE FormsNext /\ UNCHANGED cli
  <2>1. ChoiceInv' /\ RunIsAsChosen /\ OneCharacter
    BY <1>1, <1>4, ChoiceStep, OneCharacterStep
  <2>2. CliChoice'
    BY <1>1, <1>4, CliChoiceStays
  <2> QED
    BY <1>2, <1>4, <2>1, <2>2 DEF ProgramInv
<1>5. CASE TuiEnds
  <2>1. CliChoice' /\ RequestIsAsTyped
    <3>1. PICK o \in {"ok", "failed"}, code \in 0..1 : End(o, code)
      BY <1>5 DEF TuiEnds
    <3>2. stage' = "exited" /\ outcome' = o /\ exit' = code /\ exit' >= 0 /\ exit' \in -1..2
          /\ UNCHANGED <<args, asked, attempt, again, answers, said>>
      BY <3>1 DEF End
    <3>3. CliTypeOK'
      BY <1>1, <3>2 DEF CliChoice, CliTypeOK
    <3>4. CliInv'
      BY <1>1, ShownInvariant
    <3> QED
      BY <3>2, <3>3, <3>4 DEF CliChoice, RequestIsAsTyped
  <2>2. CASE UNCHANGED forms
    BY <1>1, <1>2, <2>1, <2>2, ChoiceStays DEF ProgramInv
  <2>3. CASE Quit
    <3>1. ChoiceInv' /\ RunIsAsChosen
      BY <1>1, <2>3, LeavingHolds
    <3>2. OneCharacter
      BY <1>1, <2>3, OneCharacterStep DEF FormsNext
    <3> QED
      BY <1>2, <2>1, <3>1, <3>2 DEF ProgramInv
  <2> QED
    BY <1>5, <2>2, <2>3 DEF TuiEnds
<1>6. CASE UNCHANGED vars
  <2>1. UNCHANGED forms /\ UNCHANGED cli
    BY <1>6 DEF vars
  <2> QED
    BY <1>1, <1>2, <2>1, ChoiceStays, CliChoiceStays DEF ProgramInv
<1> QED
  BY <1>3, <1>4, <1>5, <1>6 DEF Next

\* Both front ends are where they can be: fields hold characters that can be typed or
\* picked, with the cursor in them; the focus is on an element of the screen; and the browser
\* selects an entry whenever it lists one, though the disk is read anew at every key.
THEOREM FrontEndTypes == Spec => []TypeOK
<1>1. ProgramInv => TypeOK
  BY FormsTypes DEF ProgramInv, CliChoice, TypeOK
<1> QED
  BY <1>1, ProgramBegins, ProgramStep, PTL DEF Spec

\* A use case is run on what the user sees and chose, and on what was typed on the command
\* line: the file that was picked unless its name was edited since, the artifact beside it
\* unless the output was edited, the folder that was picked to unlock into, the passphrase
\* that was typed twice, and the estimate of that same file.  Of a path that was picked
\* this is so if a field can hold it, as a text without blanks at its ends; a disk may
\* have others, and of those nothing is said.
THEOREM ChosenIsRun == Spec => RunsWhatWasChosen
<1>1. Spec => [][RunIsAsChosen]_<<forms>>
  BY ProgramBegins, ProgramStep, PTL DEF Spec
<1>2. Spec => [][RequestIsAsTyped]_<<cli>>
  BY ProgramBegins, ProgramStep, PTL DEF Spec
<1> QED
  BY <1>1, <1>2 DEF RunsWhatWasChosen, FormsRunWhatWasChosen, CommandRunsWhatWasTyped

\* As soon as a key has reached a field, what is typed there is lost one character at a
\* time, wherever the cursor is and however the focus, the browser and the screens move.
THEOREM TextStays == Spec => TextIsKept
BY ProgramBegins, ProgramStep, PTL DEF Spec, TextIsKept

================================================================================
