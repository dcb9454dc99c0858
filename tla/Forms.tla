--------------------------------- MODULE Forms ---------------------------------
(***************************************************************************)
(* The forms of the terminal session, src/userinterfaces/tui/features/ and *)
(* state/: text fields, focus, the file browser, what a form derives from  *)
(* what is typed (the output path, the estimate), and the request it hands *)
(* to a use case.  Session has the workers and the event loop; here a      *)
(* worker only ends, and one key is one step.                              *)
(*                                                                         *)
(* A text is a sequence of characters; ".timelocked" counts as one, and so *)
(* does a dot a name begins with.  A path on the disk need not be a text:  *)
(* some of its bytes may encode no character.  The disk may change between *)
(* two keys.                                                               *)
(***************************************************************************)
EXTENDS Integers, SequencesExt

CONSTANTS Letters,        \* the characters typed, besides blanks
          DiskPaths,      \* the absolute paths something may be at
          Contents,       \* Contents[p]: what may be at path p
          Names,          \* the names of DiskPaths in the browser's order
          DefaultTarget,  \* the delay a lock form starts with
          MaxEdits        \* bound: keys that reach the fields and the profile of one form

Blank  == " "
Ext    == ".timelocked"
Hidden == ".h"
Cwd    == <<"/">>         \* the session's working directory

NotText     == "not text"       \* bytes of a name that are no UTF-8
Replacement == "replacement"    \* U+FFFD, what a text has instead of them

\* What texts are made of, typed or picked.
Characters ==
    (Letters \cup {Blank, "/", Ext, Hidden, Replacement} \cup Range(DefaultTarget)
     \cup UNION {Range(Names[i]) : i \in DOMAIN Names}) \ {NotText}

PathCharacters == Characters \cup {NotText}

ASSUME FormsAssumption ==
    /\ Names \in Seq(Seq(PathCharacters)) /\ DefaultTarget \in Seq(Characters)
    /\ NotText \notin Letters

VARIABLES
    screen, focus,     \* the screen and which of its Foci has the focus
    field,             \* field[n]: the text field n of the form
    touched,           \* output_touched
    profile,           \* profile_index
    estimate,          \* what the unlock form or the details show of a file
    status,            \* the verification form's VerifyRunState
    selected,          \* the main menu's selection
    result,            \* the file lockComplete and inspectDetails are about
    modal,             \* the dialog over the screen
    rate,              \* the session has a calibration rate
    disk,              \* disk[p]: what is at path p
    edits,             \* keys that reached the fields of this form
    request,           \* history: the last request to a use case
    fresh,             \* history: no key reached the field since it got the focus
    picked             \* history: picked[n], the path chosen for field n, not edited since

form  == <<field, touched, profile, estimate, edits, picked>>
forms == <<screen, focus, form, status, selected, result, modal, rate, disk, request, fresh>>

-------------------------------------------------------------------------------
(* Text fields.                                                              *)

Text(v) == [value |-> v, cursor |-> Len(v), armed |-> FALSE]     \* TextField::new
Empty   == Text(<< >>)

Arm(f) == [f EXCEPT !.armed = @ \/ f.value # << >>]

Consume(f) == IF f.armed THEN Empty ELSE f

Type(f, c) == [f EXCEPT !.value = InsertAt(@, f.cursor + 1, c), !.cursor = @ + 1]

Erase(f, i) == [f EXCEPT !.value = RemoveAt(@, i), !.cursor = i - 1]

Backspace(f) == IF f.cursor = 0 THEN f ELSE Erase(f, f.cursor)

Delete(f) == IF f.cursor = Len(f.value) THEN f ELSE Erase(f, f.cursor + 1)

\* Mutant: a field that was about to be replaced still is once the cursor moved.
MoveArmed(f, i) == [f EXCEPT !.cursor = i]

MoveTo(f, i) == [f EXCEPT !.armed = FALSE, !.cursor = i]

FieldKeys == Letters \cup {Blank, "backspace", "delete", "left", "right", "home", "end"}

apply_key(f, key) ==
    CASE key = "backspace" -> Backspace(Consume(f))
      [] key = "delete"    -> Delete(Consume(f))
      [] key = "left"      -> MoveTo(f, Max({0, f.cursor - 1}))
      [] key = "right"     -> MoveTo(f, Min({Len(f.value), f.cursor + 1}))
      [] key = "home"      -> MoveTo(f, 0)
      [] key = "end"       -> MoveTo(f, Len(f.value))
      [] OTHER             -> Type(Consume(f), key)

Trim(s) ==
    LET kept == {i \in DOMAIN s : s[i] # Blank} IN
    IF kept = {} THEN << >> ELSE SubSeq(s, Min(kept), Max(kept))

-------------------------------------------------------------------------------
(* Paths.                                                                    *)

NoPath == <<"no path">>

\* Path::to_string_lossy: the text a field gets for a path.
to_string_lossy(p) == [i \in DOMAIN p |-> IF p[i] = NotText THEN Replacement ELSE p[i]]

\* A path without repeated or trailing separators, as Path compares it.
Clean(p) ==
    LET Kept(i) == \/ p[i] # "/" \/ i = 1
                   \/ p[i - 1] # "/" /\ \E j \in i..Len(p) : p[j] # "/"
        kept == SelectSeq([i \in DOMAIN p |-> i], Kept)
    IN  [n \in DOMAIN kept |-> p[kept[n]]]

\* A path without trailing separators, which name nothing.
Bare(p) ==
    LET names == {i \in DOMAIN p : p[i] # "/"} IN
    SubSeq(p, 1, IF names = {} THEN Min({1, Len(p)}) ELSE Max(names))

\* Where the last name of a path begins.
NameAt(p) == Max({0} \cup {i \in DOMAIN p : p[i] = "/"}) + 1

NameOf(p) == SubSeq(Bare(p), NameAt(Bare(p)), Len(Bare(p)))

Parent(p) ==
    IF Bare(p) \in {<< >>, <<"/">>} THEN NoPath
    ELSE Bare(SubSeq(p, 1, NameAt(Bare(p)) - 1))

Join(d, name) == IF d = << >> \/ Last(d) = "/" THEN d \o name ELSE d \o <<"/">> \o name

HasExt(p) == Len(NameOf(p)) > 1 /\ Last(NameOf(p)) = Ext

\* The suffix goes to the name, not behind a separator.
append_suffix_to_path(p) ==
    IF NameOf(p) = << >> THEN Append(p, Ext) ELSE Join(Parent(p), Append(NameOf(p), Ext))

ensure_timelocked_extension(p) == IF HasExt(p) THEN p ELSE append_suffix_to_path(p)

derive_default_output(s) ==
    IF Trim(s) = << >> THEN << >> ELSE ensure_timelocked_extension(Trim(s))

Absolute(p) == Clean(IF Head(p) = "/" THEN p ELSE Join(Cwd, p))

\* What is at a path; nothing is at the empty one.
At(p) ==
    IF p = << >> \/ Absolute(p) \notin DiskPaths THEN "none"
    ELSE IF Absolute(p) # Cwd /\ disk[Parent(Absolute(p))] # "dir" THEN "none"
    ELSE disk[Absolute(p)]

-------------------------------------------------------------------------------
(* What a screen shows of an artifact: inspect::execute with the session's   *)
(* rate, if there is one.                                                    *)

NoEstimate == [of |-> << >>, says |-> "nothing"]

inspect_timelock_estimate(p, known) ==
    [of   |-> p,
     says |-> IF At(p) \notin {"profiled", "unprofiled"} THEN "error"
              ELSE IF known THEN "machine"
              ELSE IF At(p) = "profiled" THEN "profile" ELSE "unavailable"]

refresh_unlock_estimate(s, known) ==
    IF Trim(s) = << >> THEN NoEstimate ELSE inspect_timelock_estimate(Trim(s), known)

\* Only an estimate that succeeded has any seconds.
Seconds(e) == IF e.says \in {"machine", "profile"} THEN e ELSE NoEstimate

-------------------------------------------------------------------------------
(* The file browser.                                                         *)

NoModal == [kind |-> "none"]
Notice  == [kind |-> "notice"]        \* Modal::Error, Modal::Info

\* A target is a field of a form.
FilterAvailable(mode, target) ==
    mode = "file" /\ target.screen \in {"unlockForm", "inspectForm", "verifyForm"}

is_hidden_entry_name(n) == Head(n) \in {Hidden, Ext}

\* The names in S, in the browser's order.
Sorted(S) ==
    FoldLeft(LAMBDA sorted, n : IF n \in S THEN Append(sorted, n) ELSE sorted, << >>, Names)

\* read_browser_entries: directories first, then by name.
Listing(b) ==
    LET Is(n) == At(Join(Absolute(b.dir), n))
        shown == {n \in Range(Names) : b.hidden \/ ~is_hidden_entry_name(n)}
        dirs  == Sorted({n \in shown : Is(n) = "dir"})
        files == Sorted({n \in shown : /\ b.mode = "file" /\ Is(n) \notin {"dir", "none"}
                                       /\ b.filter => HasExt(n)})
    IN  [i \in 1..Len(dirs \o files) |-> [path |-> Join(b.dir, (dirs \o files)[i]),
                                          dir  |-> i <= Len(dirs)]]

\* Among timelocked files the first of them is selected, not a directory.
DefaultSelection(b, entries) ==
    LET files == {i \in DOMAIN entries : ~entries[i].dir} IN
    IF b.filter /\ files # {} THEN Min(files) - 1 ELSE 0

\* Mutant: a listing that got shorter leaves the selection where it was.
ReloadKeeps(b) ==
    IF At(b.dir) = "dir" THEN [b EXCEPT !.entries = Listing(b), !.error = FALSE]
    ELSE [b EXCEPT !.entries = << >>, !.selected = 0, !.error = TRUE]

Reload(b) ==
    IF At(b.dir) = "dir"
       THEN LET entries == Listing(b) IN
            [b EXCEPT !.entries = entries, !.error = FALSE,
                      !.selected = DefaultSelection(b, entries)]
       ELSE [b EXCEPT !.entries = << >>, !.selected = 0, !.error = TRUE]

\* resolve_browse_start_dir.  The parent of a bare name is the empty path.
StartDir(p) ==
    IF p = << >> THEN Cwd
    ELSE IF At(p) = "dir" THEN p
    ELSE IF Parent(p) = NoPath THEN Cwd ELSE Parent(p)

NewBrowser(mode, target, p) ==
    Reload([kind |-> "browser", mode |-> mode, target |-> target,
            filter |-> FilterAvailable(mode, target), hidden |-> FALSE,
            dir |-> StartDir(p), entries |-> << >>, selected |-> 0, error |-> FALSE])

IsSelected(b) == b.selected + 1 \in DOMAIN b.entries
Selected(b)   == b.entries[b.selected + 1]

NavigateSelected(b) ==
    IF IsSelected(b) /\ Selected(b).dir
       THEN Reload([b EXCEPT !.dir = Selected(b).path]) ELSE b

NavigateParent(b) ==
    IF Parent(b.dir) = NoPath THEN b ELSE Reload([b EXCEPT !.dir = Parent(@)])

\* Up, Down, Left, Right, h and f; the dialog stays open.
BrowserMoves(b) ==
    {[b EXCEPT !.selected = (@ + step) % Max({1, Len(b.entries)})] :
        step \in {1, Max({1, Len(b.entries)}) - 1}}
    \cup {NavigateParent(b), NavigateSelected(b), Reload([b EXCEPT !.hidden = ~@])}
    \cup (IF FilterAvailable(b.mode, b.target) THEN {Reload([b EXCEPT !.filter = ~@])} ELSE {})

\* Enter on an entry, s on the directory itself.
BrowserPicks(b) ==
    (IF IsSelected(b) /\ (b.mode = "directory") = Selected(b).dir
        THEN {Selected(b).path} ELSE {})
    \cup (IF b.mode = "directory" THEN {b.dir} ELSE {})

-------------------------------------------------------------------------------
(* Screens.                                                                  *)

MAIN_MENU_ITEMS == <<"lockFileForm", "lockTextForm", "unlockForm", "inspectForm", "verifyForm">>

LockForms == {"lockFileForm", "lockTextForm"}
Progress  == {"lockProgress", "unlockProgress"}

LockFoci           == <<"output", "target", "password", "confirm", "profile", "start", "cancel">>
LockFileFoci       == <<"input", "browse">> \o LockFoci
LockTextFoci       == <<"input">> \o LockFoci
UnlockFoci         == <<"input", "browse", "output", "browseOutput", "start", "cancel">>
InspectFoci        == <<"input", "browse", "start", "cancel">>
VerifyFoci         == <<"input", "browse", "start", "cancel">>
LockProgressFoci   == <<"progress", "cancel">>
UnlockProgressFoci == <<"progress", "cancel">>
LockCompleteFoci   == <<"inspect", "verify", "cancel">>
UnlockCompleteFoci == <<"openFolder", "cancel">>
InspectDetailsFoci == <<"start", "cancel">>
VerifyDetailsFoci  == <<"cancel">>

\* A menu has a selection instead, and a recovered text only one button.
Foci == [menu           |-> <<"items">>,
         lockFileForm   |-> LockFileFoci,
         lockTextForm   |-> LockTextFoci,
         unlockForm     |-> UnlockFoci,
         inspectForm    |-> InspectFoci,
         verifyForm     |-> VerifyFoci,
         lockProgress   |-> LockProgressFoci,
         unlockProgress |-> UnlockProgressFoci,
         lockComplete   |-> LockCompleteFoci,
         unlockComplete |-> UnlockCompleteFoci,
         unlockedText   |-> <<"cancel">>,
         inspectDetails |-> InspectDetailsFoci,
         verifyDetails  |-> VerifyDetailsFoci,
         quit           |-> <<"none">>]

Screens == DOMAIN Foci
HasFocus(f) == Foci[screen][focus] = f

FieldNames == {"input", "output", "target", "password", "confirm"}

PROFILES       == 3          \* all_profiles; the index after them is this machine
CurrentMachine == PROFILES
DefaultProfile == 1          \* "desktop-2026"

NoRequest == [use |-> "none", input |-> << >>, output |-> << >>, target |-> << >>,
              profile |-> 0, rate |-> FALSE, passphrase |-> << >>, estimate |-> NoEstimate]

NoFields   == [n \in FieldNames |-> Empty]
LockFields == [NoFields EXCEPT !["target"] = Text(DefaultTarget)]
NotPicked  == [n \in FieldNames |-> NoPath]

\* The fields of a screen as its state's default has them.
Fresh(s) ==
    /\ field' = IF s \in LockForms THEN LockFields ELSE NoFields
    /\ touched' = FALSE /\ profile' = DefaultProfile
    /\ estimate' = NoEstimate /\ edits' = 0
    /\ picked' = NotPicked

\* A screen replaces another, whose state is dropped.
Show(s) ==
    /\ screen' = s /\ Fresh(s)
    /\ focus' = 1 /\ fresh' = TRUE /\ status' = "idle" /\ selected' = 0

ToMenu ==
    /\ Show("menu") /\ request' = NoRequest /\ result' = << >>
    /\ UNCHANGED <<modal, rate, disk>>

FormsInit ==
    /\ screen = "menu" /\ focus = 1
    /\ field = NoFields
    /\ touched = FALSE /\ profile = DefaultProfile /\ estimate = NoEstimate /\ edits = 0
    /\ picked = NotPicked
    /\ status = "idle" /\ selected = 0 /\ result = << >> /\ modal = NoModal /\ rate = FALSE
    /\ disk \in {d \in [DiskPaths -> UNION {Contents[p] : p \in DiskPaths}] :
                    \A p \in DiskPaths : d[p] \in Contents[p]}
    /\ request = NoRequest /\ fresh = TRUE

\* Nobody reads keys after the last screen, and a dialog takes them all.
Key == modal = NoModal /\ screen # "quit"

-------------------------------------------------------------------------------
(* Keys of a form.                                                           *)

\* The text field the focus comes to is replaced by the first character typed.
ArmFocused(f) == IF f \in FieldNames THEN [field EXCEPT ![f] = Arm(@)] ELSE field

MoveFocus ==
    /\ Key /\ Len(Foci[screen]) > 1
    /\ \E step \in {1, Len(Foci[screen]) - 1} :
          LET to == ((focus - 1 + step) % Len(Foci[screen])) + 1 IN
          /\ focus' = to
          /\ field' = ArmFocused(Foci[screen][to])
    /\ fresh' = TRUE
    /\ UNCHANGED <<screen, touched, profile, estimate, edits, picked, status, selected,
                   result, modal, rate, disk, request>>

\* What follows from a new text in the field n.
Derive(n, f) ==
    /\ field' = [field EXCEPT ![n] = f,
                              !["output"] = IF n = "input" /\ screen = "lockFileForm" /\ ~touched
                                               THEN Text(derive_default_output(f.value))
                                               ELSE IF n = "output" THEN f ELSE @]
    /\ estimate' = IF n = "input" /\ screen = "unlockForm"
                      THEN refresh_unlock_estimate(f.value, rate) ELSE estimate

\* apply_key is true for every key that is meant for a field, whatever it does.
EditField ==
    /\ Key /\ status = "idle" /\ edits < MaxEdits
    /\ \E n \in FieldNames, key \in FieldKeys :
          /\ HasFocus(n)
          /\ Derive(n, apply_key(field[n], key))
          /\ touched' = (touched \/ (n = "output" /\ screen = "lockFileForm"))
          /\ picked' = [picked EXCEPT ![n] = NoPath]
    /\ edits' = edits + 1 /\ fresh' = FALSE
    /\ UNCHANGED <<screen, focus, profile, status, selected, result, modal, rate, disk, request>>

ChangeProfile ==
    /\ Key /\ HasFocus("profile") /\ edits < MaxEdits /\ edits' = edits + 1
    /\ \E step \in {1, PROFILES} : profile' = (profile + step) % (PROFILES + 1)
    /\ UNCHANGED <<screen, focus, field, touched, estimate, picked, status, selected,
                   result, modal, rate, disk, request, fresh>>

ShowModal(m) ==
    /\ modal' = m
    /\ UNCHANGED <<screen, focus, form, status, selected, result, disk, request, fresh>>

OpenBrowser ==
    /\ Key /\ status = "idle" /\ edits < MaxEdits /\ UNCHANGED rate
    /\ \/ HasFocus("browse") /\ ShowModal(NewBrowser("file",
             [screen |-> screen, field |-> "input"], Trim(field["input"].value)))
       \/ HasFocus("browseOutput") /\ ShowModal(NewBrowser("directory",
             [screen |-> screen, field |-> "output"], Trim(field["output"].value)))

MoveInBrowser ==
    /\ modal.kind = "browser" /\ UNCHANGED rate
    /\ \E b \in BrowserMoves(modal) : ShowModal(b)

\* Esc in any dialog, Enter in a message.
CloseModal ==
    /\ modal # NoModal /\ UNCHANGED rate
    /\ ShowModal(NoModal)

\* Mutant: what was derived from the text the path replaces is left as it is.
PickAlone ==
    /\ modal.kind = "browser"
    /\ \E p \in BrowserPicks(modal) :
          /\ field' = [field EXCEPT ![modal.target.field] = Text(to_string_lossy(p))]
          /\ picked' = [picked EXCEPT ![modal.target.field] = p]
    /\ modal' = NoModal
    /\ UNCHANGED <<screen, focus, touched, profile, estimate, edits, status, selected,
                   result, rate, disk, request, fresh>>

\* apply_browser_selection
Pick ==
    /\ modal.kind = "browser"
    /\ \E p \in BrowserPicks(modal) :
          /\ Derive(modal.target.field, Text(to_string_lossy(p)))
          /\ picked' = [picked EXCEPT ![modal.target.field] = p]
    /\ modal' = NoModal
    /\ UNCHANGED <<screen, focus, touched, profile, edits, status, selected,
                   result, rate, disk, request, fresh>>

\* Esc, or Enter on the last button.  A running verification is cancelled instead.
Leave ==
    /\ Key /\ screen \notin Progress \cup {"menu"} /\ status = "idle"
    /\ ToMenu

-------------------------------------------------------------------------------
(* Enter on a form's button.                                                 *)

Refuse == ShowModal(Notice) /\ UNCHANGED rate

Typed(n) == Trim(field[n].value)

\* Mutant: the two passphrases are not compared.
CompleteUnconfirmed == \A n \in {"input", "output", "target"} : Typed(n) # << >>

\* The trimmed texts a lock form requires, and the passphrase typed twice.
LockIsComplete ==
    /\ \A n \in {"input", "output", "target"} : Typed(n) # << >>
    /\ field["password"].value = field["confirm"].value

RunLock ==
    /\ request' = [NoRequest EXCEPT
           !.use = "lock", !.input = Typed("input"), !.output = Typed("output"),
           !.target = Typed("target"), !.profile = profile, !.rate = (profile = CurrentMachine),
           !.passphrase = field["password"].value]
    /\ Show("lockProgress") /\ UNCHANGED <<result, modal, disk>>

\* For this machine's profile the session measures it first, which may fail.
StartLock ==
    /\ Key /\ screen \in LockForms /\ HasFocus("start")
    /\ \/ ~LockIsComplete /\ Refuse
       \/ profile = CurrentMachine /\ LockIsComplete /\ ~rate /\ Refuse
       \/ LockIsComplete /\ rate' = (rate \/ profile = CurrentMachine) /\ RunLock

RunUnlock(p, outDir, e) ==
    /\ request' = [NoRequest EXCEPT !.use = "unlock", !.input = p, !.output = outDir,
                                    !.estimate = Seconds(e)]
    /\ Show("unlockProgress") /\ UNCHANGED <<result, modal, rate, disk>>

StartUnlock ==
    /\ Key /\ screen = "unlockForm" /\ HasFocus("start")
    /\ IF Typed("input") = << >> THEN Refuse
       ELSE RunUnlock(Typed("input"), Typed("output"), estimate)

\* Details are shown of what could be inspected, a message of what could not.
RunInspect(p) ==
    IF At(p) \notin {"profiled", "unprofiled"} THEN Refuse
    ELSE /\ screen' = "inspectDetails" /\ focus' = 1 /\ fresh' = TRUE
         /\ result' = p /\ estimate' = inspect_timelock_estimate(p, rate)
         /\ request' = [NoRequest EXCEPT !.use = "inspect", !.input = p]
         /\ field' = NoFields /\ picked' = NotPicked
         /\ UNCHANGED <<touched, profile, edits, status, selected, modal, rate, disk>>

StartInspect ==
    /\ Key /\ screen = "inspectForm" /\ HasFocus("start")
    /\ IF Typed("input") = << >> THEN Refuse ELSE RunInspect(Typed("input"))

StartVerify ==
    /\ Key /\ screen = "verifyForm" /\ HasFocus("start") /\ status = "idle"
    /\ IF Typed("input") = << >> THEN Refuse
       ELSE /\ request' = [NoRequest EXCEPT !.use = "verify", !.input = Typed("input")]
            /\ status' = "running"
            /\ UNCHANGED <<screen, focus, form, selected, result, modal, rate, disk, fresh>>

CancelVerify ==
    /\ Key /\ status = "running" /\ status' = "cancelling"
    /\ UNCHANGED <<screen, focus, form, selected, result, modal, rate, disk, request, fresh>>

-------------------------------------------------------------------------------
(* Enter on the other screens.                                               *)

MoveInMenu ==
    /\ Key /\ screen = "menu"
    /\ \E step \in {1, Len(MAIN_MENU_ITEMS) - 1} :
          selected' = (selected + step) % Len(MAIN_MENU_ITEMS)
    /\ UNCHANGED <<screen, focus, form, status, result, modal, rate, disk, request, fresh>>

Choose ==
    /\ Key /\ screen = "menu"
    /\ Show(MAIN_MENU_ITEMS[selected + 1])
    /\ UNCHANGED <<result, modal, rate, disk, request>>

\* What was locked can be inspected and verified, what was unlocked shown in its folder.
\* Either way but to the details, a message says how it went.
FollowUp ==
    \/ Key /\ HasFocus("inspect") /\ RunInspect(result)
    \/ /\ Key /\ HasFocus("verify")
       /\ request' = [NoRequest EXCEPT !.use = "verify", !.input = result] /\ modal' = Notice
       /\ UNCHANGED <<screen, focus, form, status, selected, result, rate, disk, fresh>>
    \/ Key /\ HasFocus("openFolder") /\ Refuse

UnlockInspected ==
    /\ Key /\ screen = "inspectDetails" /\ HasFocus("start")
    /\ RunUnlock(result, << >>, estimate)

Quit ==
    /\ screen # "quit"
    /\ Show("quit") /\ modal' = NoModal /\ request' = NoRequest /\ result' = << >>
    /\ UNCHANGED <<rate, disk>>

-------------------------------------------------------------------------------
(* What happens by itself.                                                   *)

\* The worker of a progress screen or of the verification form ends.
WorkerEnds ==
    \/ /\ screen = "lockProgress" /\ modal = NoModal
       /\ Show("lockComplete") /\ result' = ensure_timelocked_extension(request.output)
       /\ UNCHANGED <<modal, rate, disk, request>>
    \/ /\ screen = "unlockProgress" /\ modal = NoModal
       /\ \E s \in {"unlockComplete", "unlockedText"} : Show(s)
       /\ UNCHANGED <<result, modal, rate, disk, request>>
    \/ /\ status # "idle"
       /\ Show("verifyDetails") /\ UNCHANGED <<result, modal, rate, disk, request>>

WorkerFails ==
    \/ /\ screen \in Progress
       /\ Show("menu") /\ modal' = Notice /\ request' = NoRequest /\ result' = << >>
       /\ UNCHANGED <<rate, disk>>
    \/ /\ status # "idle" /\ status' = "idle" /\ modal' = Notice /\ request' = NoRequest
       /\ UNCHANGED <<screen, focus, form, selected, result, rate, disk, fresh>>

\* The background measurement is there; the unlock form's estimate is made again.
RateArrives ==
    /\ screen # "quit" /\ ~rate /\ rate' = TRUE
    /\ estimate' = IF screen = "unlockForm" THEN refresh_unlock_estimate(field["input"].value, TRUE)
                   ELSE estimate
    /\ UNCHANGED <<screen, focus, field, touched, profile, edits, picked, status, selected,
                   result, modal, disk, request, fresh>>

DiskChanges ==
    /\ screen # "quit"
    /\ \E p \in DiskPaths : \E c \in Contents[p] \ {disk[p]} : disk' = [disk EXCEPT ![p] = c]
    /\ UNCHANGED <<screen, focus, form, status, selected, result, modal, rate, request, fresh>>

FormsNext ==
    \/ MoveFocus \/ EditField \/ ChangeProfile \/ OpenBrowser \/ MoveInBrowser \/ CloseModal
    \/ Pick \/ Leave \/ StartLock \/ StartUnlock \/ StartInspect \/ StartVerify \/ CancelVerify
    \/ MoveInMenu \/ Choose \/ FollowUp \/ UnlockInspected \/ Quit
    \/ WorkerEnds \/ WorkerFails \/ RateArrives \/ DiskChanges

-------------------------------------------------------------------------------
(* Properties.                                                               *)

\* A screen stands where it can: the focus on one of its elements, the cursor
\* in its text, and the browser's selection on an entry whenever there is one.
FormsTypeOK ==
    /\ screen \in Screens /\ focus \in DOMAIN Foci[screen]
    /\ \A n \in FieldNames : /\ field[n].value \in Seq(Characters)
                             /\ field[n].cursor \in 0..Len(field[n].value)
                             /\ field[n].armed => field[n].value # << >>
    /\ touched \in BOOLEAN /\ rate \in BOOLEAN /\ fresh \in BOOLEAN
    /\ profile \in 0..PROFILES
    /\ status \in {"idle", "running", "cancelling"}
    /\ selected \in 0..(Len(MAIN_MENU_ITEMS) - 1)
    /\ \A p \in DiskPaths : disk[p] \in Contents[p]
    /\ modal.kind = "browser" => /\ modal.selected \in 0..Max({0, Len(modal.entries) - 1})
                                 /\ modal.error => modal.entries = << >>

\* Until a key reaches the output field it holds the name of the artifact of the
\* input that is shown.
OutputFollowsInput ==
    screen = "lockFileForm" /\ ~touched =>
       field["output"].value = derive_default_output(field["input"].value)

\* The unlock form shows the estimate of the file whose name it shows, and of this
\* machine's speed from when that is known.
EstimateIsOfInput ==
    screen = "unlockForm" => /\ estimate.of = Typed("input")
                             /\ estimate.says = "nothing" <=> Typed("input") = << >>
                             /\ rate => estimate.says \notin {"profile", "unavailable"}

\* A path that a field can hold: a text, with no blank at its ends to be trimmed.
IsPlain(p) ==
    /\ p # NoPath /\ NotText \notin Range(p)
    /\ p # << >> => Blank \notin {Head(p), Last(p)}

\* What a step that runs a use case runs it on.
RunIsAsChosen ==
    request' # request /\ request'.use # "none" =>
       LET r == request' IN
       /\ r.input = IF screen \in {"lockComplete", "inspectDetails"} THEN result ELSE Typed("input")
       /\ r.input # << >>
       /\ IsPlain(picked["input"]) => r.input = picked["input"]
       /\ r.use = "lock" =>
             /\ r.output = Typed("output") /\ r.target = Typed("target")
             /\ ~touched /\ screen = "lockFileForm" => r.output = derive_default_output(r.input)
             /\ r.passphrase = field["password"].value
             /\ r.passphrase = field["confirm"].value
             /\ r.profile = profile /\ (r.rate <=> profile = CurrentMachine)
       /\ r.use = "unlock" =>
             /\ r.output = IF screen = "inspectDetails" THEN << >> ELSE Typed("output")
             /\ IsPlain(picked["output"]) => r.output = picked["output"]
       /\ r.estimate.of \in {r.input, << >>}

\* A use case is run on what the user sees and chose: on the file picked in the
\* browser unless its name was edited, for an artifact beside it unless the output was
\* edited, into the folder picked for it, under a passphrase only if it was typed the
\* same way twice, with the profile shown and an estimate of that same file.  Of what
\* is picked this is so only when a field can hold its path: one that is no UTF-8, or
\* has blanks at its ends, becomes the text of another path, and that is run.
FormsRunWhatWasChosen == [][RunIsAsChosen]_<<forms>>

\* One text is the other but for one character.
OneEdit(s, t) ==
    \/ s = t
    \/ \E i \in DOMAIN s : t = RemoveAt(s, i)
    \/ \E i \in DOMAIN t : s = RemoveAt(t, i)

\* What is typed is lost one character at a time.
OneCharacter ==
    edits' > edits /\ ~fresh =>
       \A n \in FieldNames : HasFocus(n) => OneEdit(field[n].value, field'[n].value)

\* A key replaces a whole text only when it is the first since the focus came to the field:
\* as soon as one has reached it, what is typed is lost one character at a time.
TextIsKept == [][OneCharacter]_<<forms>>
================================================================================
