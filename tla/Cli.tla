---------------------------------- MODULE Cli ----------------------------------
(***************************************************************************)
(* The command line, src/userinterfaces/cli/: what clap accepts            *)
(* (models.rs), the request each handler makes of the arguments            *)
(* (handlers.rs), the passphrase prompts of unlock and the exit code.  The *)
(* use cases have modules of their own; here one only ends.                *)
(***************************************************************************)
EXTENDS Integers

VARIABLES
    args,       \* what was typed on the command line
    stage,      \* parse, handler, working, prompt, tui or exited
    asked,      \* the request the use case was called with
    attempt,    \* the use case's passphrase attempt
    again,      \* previous_attempt_failed
    answers,    \* history: passphrases read from the terminal
    said,       \* the attempts the last prompt says are left; 0 if it says none
    outcome,    \* how the use case ended
    exit        \* the exit code of the process

cli == <<args, stage, asked, attempt, again, answers, said, outcome, exit>>

MAX_PASSWORD_ATTEMPTS == 3

-------------------------------------------------------------------------------
(* Arguments.                                                                *)

Absent == "absent"

\* "-" is the standard input, "file" exists, "missing" does not.
Inputs == {Absent, "-", "file", "missing"}

NoArgs == [command |-> Absent, input |-> Absent, input_arg |-> Absent, target |-> Absent,
           iterations |-> Absent, creator_message |-> Absent,
           creator_message_file |-> Absent, password |-> Absent, out |-> Absent,
           hardware_profile |-> Absent, creator_name |-> Absent, verify |-> FALSE,
           out_dir |-> Absent]

CommandLines ==
    [command : {"lock"}, input : Inputs, input_arg : Inputs, target : {Absent, "delay"},
     iterations : {Absent, "count"}, creator_message : {Absent, "message"},
     creator_message_file : {Absent, "file", "missing"}, password : {Absent, "", "passphrase"},
     out : {Absent, "path"}, hardware_profile : {Absent, "profile"},
     creator_name : {Absent, "name"}, verify : BOOLEAN, out_dir : {Absent}]
    \cup {[NoArgs EXCEPT !.command = "unlock", !.input = i, !.input_arg = j,
                        !.out = o, !.out_dir = d] :
             i \in Inputs, j \in Inputs, o \in {Absent, "path"}, d \in {Absent, "folder"}}
    \cup {[NoArgs EXCEPT !.command = c, !.input = i, !.input_arg = j] :
             c \in {"inspect", "verify"}, i \in Inputs, j \in Inputs}
    \cup {[NoArgs EXCEPT !.command = c] : c \in {Absent, "tui", "calibrate"}}

Given(v) == v # Absent

\* required_unless_present and conflicts_with of the two ways to name the input.
OneInput(a) == Given(a.input) # Given(a.input_arg)

\* The group "difficulty": required, and of one member.
OneDifficulty(a) == Given(a.target) # Given(a.iterations)

OneMessage(a) == ~(Given(a.creator_message) /\ Given(a.creator_message_file))

parse_non_empty_password(a) == a.password # ""

Accepted(a) ==
    /\ a.command \in {"lock", "unlock", "inspect", "verify"} => OneInput(a)
    /\ a.command = "lock" => /\ OneDifficulty(a) /\ OneMessage(a)
                             /\ parse_non_empty_password(a)

-------------------------------------------------------------------------------
(* Handlers.                                                                 *)

Either(v, w) == IF Given(v) THEN v ELSE w

\* Only an input named by --in has to exist: another may be the message itself.
InputMayBe(a) == a.command = "lock" => a.input # "missing"

\* The text of a message file, or nothing when both are given.
resolve_creator_message(a) ==
    CASE Given(a.creator_message) /\ ~Given(a.creator_message_file) -> a.creator_message
      [] ~Given(a.creator_message) /\ a.creator_message_file = "file" -> "text of the file"
      [] OTHER -> Absent

MessageIsRead(a) == Given(a.creator_message) \/ a.creator_message_file # "missing"

Request(a) ==
    [use |-> a.command, input |-> Either(a.input, a.input_arg), target |-> a.target,
     iterations |-> a.iterations, creator_message |-> resolve_creator_message(a),
     password |-> a.password, out |-> a.out, hardware_profile |-> a.hardware_profile,
     creator_name |-> a.creator_name, verify |-> a.verify, out_dir |-> a.out_dir]

CliInit ==
    /\ args \in CommandLines
    /\ stage = "parse" /\ asked = Request(NoArgs)
    /\ attempt = 1 /\ again = FALSE /\ answers = 0 /\ said = 0
    /\ outcome = "none" /\ exit = -1

\* The process ends; clap's own code for a command line it refuses is 2.
End(o, code) ==
    /\ stage' = "exited" /\ outcome' = o /\ exit' = code
    /\ UNCHANGED <<args, asked, attempt, again, answers, said>>

Parse ==
    /\ stage = "parse"
    /\ \/ ~Accepted(args) /\ End("refused", 2)
       \/ /\ Accepted(args) /\ stage' = "handler"
          /\ UNCHANGED <<args, asked, attempt, again, answers, said, outcome, exit>>

\* No command is the terminal session.
RunTui ==
    /\ stage = "handler" /\ args.command \in {Absent, "tui"}
    /\ stage' = "tui" /\ args' = NoArgs
    /\ UNCHANGED <<asked, attempt, again, answers, said, outcome, exit>>

\* run_lock, run_unlock, run_inspect, run_verify, run_calibrate
RunCommand ==
    /\ stage = "handler" /\ args.command \notin {Absent, "tui"}
    /\ \/ ~(InputMayBe(args) /\ MessageIsRead(args)) /\ End("failed", 1)
       \/ /\ InputMayBe(args) /\ MessageIsRead(args)
          /\ asked' = Request(args) /\ stage' = "working"
          /\ UNCHANGED <<args, attempt, again, answers, said, outcome, exit>>

-------------------------------------------------------------------------------
(* The use case, and the prompts it asks for.                                *)

\* The result is printed only of a use case that succeeded.
UseCaseEnds ==
    /\ stage = "working"
    /\ \/ ~again /\ answers = 0 /\ End("ok", 0)
       \/ End("failed", 1)

remaining_attempts == MAX_PASSWORD_ATTEMPTS - (attempt - 1)

\* A protected artifact: the first prompt has no number in it.
Prompt ==
    /\ stage = "working" /\ asked.use = "unlock"
    /\ stage' = "prompt" /\ said' = IF again THEN remaining_attempts ELSE 0
    /\ UNCHANGED <<args, asked, attempt, again, answers, outcome, exit>>

\* The terminal cannot be read: the unlock fails.
PromptIsUnavailable == stage = "prompt" /\ End("failed", 1)

RightAnswer ==
    /\ stage = "prompt" /\ answers' = answers + 1
    /\ \/ stage' = "exited" /\ outcome' = "ok" /\ exit' = 0
       \/ stage' = "exited" /\ outcome' = "failed" /\ exit' = 1
    /\ UNCHANGED <<args, asked, attempt, again, said>>

\* A payload that does not authenticate is tried again with another passphrase.
WrongAnswer ==
    /\ stage = "prompt" /\ answers' = answers + 1
    /\ \/ /\ attempt < MAX_PASSWORD_ATTEMPTS
          /\ stage' = "working" /\ attempt' = attempt + 1 /\ again' = TRUE
          /\ UNCHANGED <<outcome, exit>>
       \/ /\ attempt = MAX_PASSWORD_ATTEMPTS
          /\ stage' = "exited" /\ outcome' = "wrong" /\ exit' = 1
          /\ UNCHANGED <<attempt, again>>
    /\ UNCHANGED <<args, asked, said>>

CliNext ==
    \/ Parse \/ RunTui \/ RunCommand \/ UseCaseEnds
    \/ Prompt \/ PromptIsUnavailable \/ RightAnswer \/ WrongAnswer

-------------------------------------------------------------------------------
(* Properties.                                                               *)

\* The process is at one place of a run, and has an exit code once it has ended.
CliTypeOK ==
    /\ args \in CommandLines
    /\ stage \in {"parse", "handler", "working", "prompt", "tui", "exited"}
    /\ attempt \in 1..MAX_PASSWORD_ATTEMPTS /\ again \in BOOLEAN
    /\ answers \in 0..MAX_PASSWORD_ATTEMPTS
    /\ outcome \in {"none", "ok", "refused", "failed", "wrong"}
    /\ exit \in -1..2 /\ (exit >= 0 <=> stage = "exited")

\* A prompt that says how many attempts are left is followed by that many, and no
\* more, however the unlock use case counts them.
AttemptsLeft ==
    /\ stage = "prompt" /\ answers > 0 => said = MAX_PASSWORD_ATTEMPTS - answers
    /\ outcome = "wrong" => said = 1

\* What a step that calls a use case calls it with.
RequestIsAsTyped ==
    asked' # asked =>
       LET Carried(v, w) == Given(v) => w = v IN
       /\ Carried(args.input, asked'.input) /\ Carried(args.input_arg, asked'.input)
       /\ asked'.use = args.command
       /\ asked'.target = args.target /\ asked'.iterations = args.iterations
       /\ Carried(args.creator_message, asked'.creator_message)
       /\ asked'.creator_message # Absent <=>
             Given(args.creator_message) \/ Given(args.creator_message_file)
       /\ Given(args.creator_message_file) <=> asked'.creator_message = "text of the file"
       /\ args.command = "lock" => Given(asked'.target) # Given(asked'.iterations)
       /\ asked'.password # "" /\ asked'.password = args.password
       /\ asked'.out = args.out /\ asked'.out_dir = args.out_dir
       /\ asked'.hardware_profile = args.hardware_profile
       /\ asked'.creator_name = args.creator_name /\ asked'.verify = args.verify

\* A use case is called with everything the command line gives, and with nothing else:
\* one input, one difficulty, the passphrase, the text of a message if there is one, the
\* output paths, the profile, the creator's name and whether to verify.
CommandRunsWhatWasTyped == [][RequestIsAsTyped]_<<cli>>
================================================================================
