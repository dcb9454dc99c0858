----------------------------- MODULE SessionProofs -----------------------------
(***************************************************************************)
(* Theorems about Session for any number of threads and any kinds of       *)
(* worker that may panic.  TLC checks the same properties on MCSession.    *)
(***************************************************************************)
EXTENDS Session, TLAPS

\* What a channel may hold, and the state of a thread.
Queues == {<< >>} \cup {<<m>> : m \in Messages} \cup {<<m, n>> : m, n \in Messages}

Job == [kind : Kinds \cup {"none"}, at : {"working", "asking", "ended", "panicked"},
        token : BOOLEAN, attempt : 0..MAX_PASSWORD_ATTEMPTS, queue : Queues,
        reply : {"none", "ok", "cancelled"}]

-------------------------------------------------------------------------------
(* The inductive invariant.                                                  *)

\* What a worker has put in its channel, at each place where it may be.  One that
\* works has been answered, one that has returned leaves at most a request that
\* its cancellation has overtaken, before its result.
ChannelOK(w) ==
    /\ job[w].at \in {"working", "panicked"} => job[w].queue = << >>
    /\ job[w].at = "asking" =>
          /\ job[w].kind = "unlock"
          /\ \/ /\ job[w].queue = << Ask(job[w].attempt) >> /\ job[w].reply = "none"
                /\ modal.kind # "prompt"
             \/ job[w].queue = << >> /\ job[w].reply # "none"
             \/ job[w].queue = << >> /\ modal = Prompt(w, job[w].attempt)
    /\ job[w].at = "ended" =>
          \/ job[w].queue = << >>
          \/ \E x \in Outcomes : job[w].queue = << Finished(x) >>
          \/ /\ job[w].kind = "unlock" /\ job[w].token
             /\ \E x \in Outcomes : job[w].queue = << Ask(job[w].attempt), Finished(x) >>

\* A thread nobody owns is not there.
OwnerOK(w) == w \in {attached, verifier} \/ job[w] = NoJob

\* Whose channel each screen owns, and what may be over it.
ScreenOK ==
    /\ attached # NoWorker <=> screen \in Progress
    /\ attached # NoWorker => \/ job[attached].kind = "lock" /\ screen = "lockProgress"
                              \/ job[attached].kind = "unlock" /\ screen = "unlockProgress"
    /\ verifier # NoWorker => screen = "verifyForm" /\ job[verifier].kind = "verify"
    /\ screen \in Progress => modal.kind \in {"none", "prompt"}
    /\ status # "idle" => modal.kind = "none"

\* The loop waits or measures between a lock form and its progress screen, and
\* the session holds the calibration thread for as long as it runs.
CalibrationOK ==
    /\ phase \in {"waiting", "measuring"} => screen \in LockForms /\ modal.kind = "none"
    /\ prewarm = "running" => held
    /\ MeasuresAlone

IInv == /\ TypeOK
        /\ \A w \in Workers : ChannelOK(w) /\ OwnerOK(w)
        /\ ScreenOK /\ StatusIsTrue /\ PromptIsLive /\ CalibrationOK

-------------------------------------------------------------------------------
(* Channels.                                                                 *)

\* A channel of at most two messages, and what sending and receiving make of it.
LEMMA Channel ==
    ASSUME NEW m \in Messages, NEW n \in Messages
    PROVE  /\ << m >> # << >> /\ << m, n >> # << >> /\ << m, n >> # << m >>
           /\ Append(<< >>, m) = << m >> /\ Append(<< m >>, n) = << m, n >>
           /\ Head(<< m >>) = m /\ Tail(<< m >>) = << >>
           /\ Head(<< m, n >>) = m /\ Tail(<< m, n >>) = << n >>
<1>1. << >> \in Seq(Messages) /\ << m >> \in Seq(Messages) /\ << m, n >> \in Seq(Messages)
  OBVIOUS
<1>2. Len(<< >>) = 0 /\ Len(<< m >>) = 1 /\ Len(<< m, n >>) = 2
  OBVIOUS
<1>3. << m >> # << >> /\ << m, n >> # << >> /\ << m, n >> # << m >>
  BY <1>2
<1>4. Append(<< >>, m) = << m >>
  OBVIOUS
<1>5. Append(<< m >>, n) = << m, n >>
  <2>1. Append(<< m >>, n) \in Seq(Messages) /\ Len(Append(<< m >>, n)) = 2
    BY <1>1, <1>2
  <2>2. Append(<< m >>, n)[1] = m /\ Append(<< m >>, n)[2] = n
    BY <1>1, <1>2
  <2>3. \A s, t \in Seq(Messages) :
           Len(s) = 2 /\ Len(t) = 2 /\ s[1] = t[1] /\ s[2] = t[2] => s = t
    OBVIOUS
  <2>4. << m, n >>[1] = m /\ << m, n >>[2] = n
    OBVIOUS
  <2> QED
    BY <2>1, <2>2, <2>3, <2>4, <1>1, <1>2
<1>6. Head(<< m >>) = m /\ Head(<< m, n >>) = m
  OBVIOUS
<1>7. Tail(<< m >>) = << >>
  OBVIOUS
<1>8. Tail(<< m, n >>) = << n >>
  OBVIOUS
<1> QED
  BY <1>3, <1>4, <1>5, <1>6, <1>7, <1>8

\* Requests and results are messages, and never each other.
LEMMA MessageKinds ==
    /\ \A n \in 0..MAX_PASSWORD_ATTEMPTS : Ask(n) \in Messages /\ Ask(n).what = "ask"
                                           /\ Ask(n).attempt = n
    /\ \A x \in Outcomes : Finished(x) \in Messages /\ Finished(x).what = x /\ x # "ask"
BY DEF Ask, Finished, Messages, Outcomes, MAX_PASSWORD_ATTEMPTS

\* A request and what may follow it fit a channel.
LEMMA ChannelFits ==
    /\ << >> \in Queues
    /\ \A m \in Messages : << m >> \in Queues
    /\ \A m, n \in Messages : << m, n >> \in Queues
BY DEF Queues

-------------------------------------------------------------------------------
(* The steps of the threads.                                                 *)

\* A step of one thread leaves everything but its own state and channel alone;
\* what it does there is all that has to be looked at.
LEMMA ThreadFrame ==
    ASSUME IInv, NEW w \in Workers, UNCHANGED <<phase, ui, calib>>,
           NEW j \in Job, job' = [job EXCEPT ![w] = j],
           j.kind = job[w].kind, j.token = job[w].token,
           ChannelOK(w)', w \in {attached, verifier} \/ j = NoJob,
           modal.kind = "prompt" /\ w = attached =>
               j.at = "asking" /\ j.attempt = job[w].attempt /\ j.reply = job[w].reply
    PROVE  IInv'
<1>1. /\ job'[w] = j /\ \A v \in Workers \ {w} : job'[v] = job[v]
      /\ job' \in [Workers -> Job]
  BY DEF IInv, TypeOK, Job, Queues
<1>2. TypeOK'
  BY <1>1 DEF IInv, TypeOK, ui, calib, Job, Queues
<1>3. \A v \in Workers : job'[v].kind = job[v].kind /\ job'[v].token = job[v].token
  BY <1>1
<1>4. \A v \in Workers : ChannelOK(v)' /\ OwnerOK(v)'
  BY <1>1 DEF IInv, ChannelOK, OwnerOK, ui
<1>5. attached \in Workers \cup {NoWorker} /\ verifier \in Workers \cup {NoWorker}
  BY DEF IInv, TypeOK
<1>6. ScreenOK' /\ StatusIsTrue'
  BY <1>3, <1>5 DEF IInv, ScreenOK, StatusIsTrue, ui
<1>7. PromptIsLive'
  BY <1>1, <1>3, <1>5 DEF IInv, PromptIsLive, ui
<1>8. CalibrationOK'
  BY DEF IInv, CalibrationOK, MeasuresAlone, ui, calib
<1> QED
  BY <1>2, <1>4, <1>6, <1>7, <1>8 DEF IInv

\* A thread that has not ended is owned, and no prompt is up for it unless it asks.
LEMMA Busy ==
    ASSUME IInv, NEW w \in Workers, job[w].at # "ended"
    PROVE  /\ w \in {attached, verifier}
           /\ modal.kind = "prompt" /\ w = attached =>
                 job[w].at = "asking" /\ ~job[w].token /\ job[w].reply = "none"
BY DEF IInv, OwnerOK, NoJob, PromptIsLive

\* The invariant is kept by everything a worker does.
LEMMA WorkStep ==
    ASSUME IInv, NEW w \in Workers, Work(w) \/ Panic(w)
    PROVE  IInv'
<1>1. job \in [Workers -> Job] /\ job[w] \in Job /\ ChannelOK(w)
  BY DEF IInv, TypeOK, Job, Queues
<1>2. CASE AskForPassword(w)
  <2> DEFINE n == job[w].attempt + 1
             j == [job[w] EXCEPT !.at = "asking", !.attempt = n, !.queue = << Ask(n) >>,
                                 !.reply = "none"]
  <2>1. job[w].queue = << >> /\ job[w].at = "working" /\ job[w].kind = "unlock"
    BY <1>1, <1>2 DEF AskForPassword, ChannelOK
  <2>2. n \in 0..MAX_PASSWORD_ATTEMPTS
    BY <1>1, <1>2 DEF AskForPassword, MAX_PASSWORD_ATTEMPTS, Job
  <2>3. Ask(n) \in Messages /\ Append(<< >>, Ask(n)) = << Ask(n) >>
    BY <2>2, MessageKinds, Channel
  <2>4. j \in Job
    BY <1>1, <2>2, <2>3, ChannelFits DEF Job
  <2>5. job' = [job EXCEPT ![w] = j]
    BY <1>1, <1>2, <2>1, <2>3 DEF AskForPassword
  <2>6. /\ j.at = "asking" /\ j.kind = "unlock" /\ j.queue = << Ask(j.attempt) >>
        /\ j.reply = "none" /\ j.token = job[w].token
    BY <1>1, <2>1 DEF Job
  <2> HIDE DEF n, j
  <2>7. job'[w] = j /\ modal' = modal
    BY <1>1, <1>2, <2>5 DEF AskForPassword, ui
  <2>8. ChannelOK(w)'
    <3>1. w = attached
      BY <2>1, Busy, SessionAssumption DEF IInv, ScreenOK
    <3>2. modal.kind # "prompt"
      BY <2>1, <3>1, Busy
    <3> QED
      BY <2>6, <2>7, <3>2 DEF ChannelOK
  <2> QED
    BY <1>2, <2>1, <2>4, <2>5, <2>6, <2>8, Busy, ThreadFrame DEF AskForPassword
<1>3. CASE ReceivePassword(w)
  <2> DEFINE j == [job[w] EXCEPT !.at = "working", !.reply = "none"]
  <2>1. job[w].at = "asking" /\ job[w].reply = "ok" /\ job' = [job EXCEPT ![w] = j]
    BY <1>1, <1>3 DEF ReceivePassword
  <2>2. j \in Job /\ j.at = "working" /\ j.queue = job[w].queue /\ j.kind = job[w].kind
        /\ j.token = job[w].token
    BY <1>1 DEF Job
  <2>3. job[w].queue = << >>
    BY <1>1, <2>1 DEF ChannelOK
  <2> HIDE DEF j
  <2>4. ChannelOK(w)'
    BY <1>1, <2>1, <2>2, <2>3 DEF ChannelOK
  <2> QED
    BY <1>3, <2>1, <2>2, <2>4, Busy, ThreadFrame DEF ReceivePassword
<1>4. CASE GiveUpAsking(w)
  <2> DEFINE q == Append(job[w].queue, Finished("cancelled"))
             j == [job[w] EXCEPT !.at = "ended", !.reply = "none", !.queue = q]
  <2>1. job[w].at = "asking" /\ job' = [job EXCEPT ![w] = j] /\ UNCHANGED <<phase, ui, calib>>
    BY <1>1, <1>4 DEF GiveUpAsking, End
  <2>2. job[w].attempt \in 0..MAX_PASSWORD_ATTEMPTS
    BY <1>1 DEF Job
  <2>3. w \in {attached, verifier} /\ (w = verifier => job[w].kind = "verify")
    BY <2>1, Busy, SessionAssumption DEF IInv, ScreenOK
  <2>4. w = attached /\ job[w].kind = "unlock"
    BY <1>1, <2>1, <2>3 DEF ChannelOK
  <2>5. ~(modal.kind = "prompt")
    <3>1. SUFFICES ASSUME modal.kind = "prompt" PROVE FALSE
      OBVIOUS
    <3>2. modal = Prompt(w, job[w].attempt)
      <4>1. modal.worker = w /\ modal.attempt = job[w].attempt
        BY <2>4, <3>1 DEF IInv, PromptIsLive
      <4> QED
        BY <3>1, <4>1 DEF Prompt, IInv, TypeOK
    <3>3. ~job[w].token /\ job[w].reply = "none"
      BY <2>1, <2>4, <3>1, Busy
    <3> QED
      BY <1>4, <3>2, <3>3 DEF GiveUpAsking, SenderIsAlive
  <2>6. \/ job[w].queue = << >>
        \/ job[w].queue = << Ask(job[w].attempt) >> /\ job[w].token
    <3>1. ASSUME job[w].queue = << Ask(job[w].attempt) >>, job[w].reply = "none", ~job[w].token
          PROVE  FALSE
      <4>1. 1 \in DOMAIN job[w].queue /\ job[w].queue[1] = Ask(job[w].attempt)
        BY <3>1
      <4>2. SenderIsAlive(w)
        BY <2>4, <4>1 DEF SenderIsAlive
      <4> QED
        BY <1>4, <3>1, <4>2 DEF GiveUpAsking
    <3> QED
      BY <1>1, <2>1, <3>1 DEF ChannelOK, Job
  <2>7. /\ Finished("cancelled") \in Messages /\ Ask(job[w].attempt) \in Messages
        /\ "cancelled" \in Outcomes
    BY <2>2, MessageKinds DEF Outcomes
  <2>8. \/ q = << Finished("cancelled") >>
        \/ q = << Ask(job[w].attempt), Finished("cancelled") >> /\ job[w].token
    <3>1. /\ Append(<< >>, Finished("cancelled")) = << Finished("cancelled") >>
          /\ Append(<< Ask(job[w].attempt) >>, Finished("cancelled"))
                = << Ask(job[w].attempt), Finished("cancelled") >>
      BY <2>7, Channel
    <3> QED
      BY <2>6, <3>1
  <2> HIDE DEF q
  <2>9. q \in Queues
    BY <2>7, <2>8, ChannelFits
  <2>10. j \in Job
    BY <1>1, <2>9 DEF Job
  <2>11. /\ j.at = "ended" /\ j.queue = q /\ j.kind = job[w].kind /\ j.token = job[w].token
         /\ j.attempt = job[w].attempt
    BY <1>1 DEF Job
  <2> HIDE DEF j
  <2>12. ChannelOK(w)'
    BY <1>1, <2>1, <2>4, <2>7, <2>8, <2>11 DEF ChannelOK
  <2> QED
    BY <2>1, <2>3, <2>5, <2>10, <2>11, <2>12, ThreadFrame
<1>5. CASE EndWork(w)
  <2>1. PICK x \in Outcomes : End(w, x)
    BY <1>5 DEF EndWork
  <2> DEFINE j == [job[w] EXCEPT !.at = "ended", !.reply = "none", !.queue = << Finished(x) >>]
  <2>2. job[w].at = "working" /\ job[w].queue = << >> /\ UNCHANGED <<phase, ui, calib>>
    BY <1>1, <1>5 DEF EndWork, ChannelOK
  <2>3. Finished(x) \in Messages /\ Append(<< >>, Finished(x)) = << Finished(x) >>
    BY MessageKinds, Channel
  <2>4. job' = [job EXCEPT ![w] = j]
    BY <1>1, <2>1, <2>2, <2>3 DEF End
  <2>5. j \in Job
    BY <1>1, <2>3, ChannelFits DEF Job
  <2>6. /\ j.at = "ended" /\ j.queue = << Finished(x) >> /\ j.kind = job[w].kind
        /\ j.token = job[w].token
    BY <1>1 DEF Job
  <2> HIDE DEF j
  <2>7. ChannelOK(w)'
    BY <1>1, <2>4, <2>6 DEF ChannelOK
  <2> QED
    BY <2>2, <2>4, <2>5, <2>6, <2>7, Busy, ThreadFrame
<1>6. CASE Panic(w)
  <2> DEFINE j == [job[w] EXCEPT !.at = "panicked"]
  <2>1. /\ job[w].at = "working" /\ job[w].queue = << >> /\ job' = [job EXCEPT ![w] = j]
        /\ UNCHANGED <<phase, ui, calib>>
    BY <1>1, <1>6 DEF Panic, ChannelOK
  <2>2. /\ j \in Job /\ j.at = "panicked" /\ j.queue = job[w].queue /\ j.kind = job[w].kind
        /\ j.token = job[w].token
    BY <1>1 DEF Job
  <2> HIDE DEF j
  <2>3. ChannelOK(w)'
    BY <1>1, <2>1, <2>2 DEF ChannelOK
  <2> QED
    BY <2>1, <2>2, <2>3, Busy, ThreadFrame
<1> QED
  BY <1>2, <1>3, <1>4, <1>5, <1>6 DEF Work

-------------------------------------------------------------------------------
(* The steps of the loop and of the user that touch no worker.               *)

\* A step that touches no worker may change the screen only where there is none,
\* and open a dialog only where none is to be answered.
LEMMA QuietFrame ==
    ASSUME IInv, UNCHANGED <<job, attached, cancelRequested, verifier, status>>,
           TypeOK', CalibrationOK',
           \/ screen' = screen
           \/ screen \notin Progress \cup {"verifyForm"} /\ screen' \notin Progress
           \/ verifier = NoWorker /\ screen \notin Progress /\ screen' \notin Progress,
           \/ modal' = modal
           \/ /\ modal.kind # "prompt" /\ modal'.kind # "prompt"
              /\ modal'.kind = "none" \/ (screen' \notin Progress /\ status = "idle")
    PROVE  IInv'
<1>1. \A w \in Workers : ChannelOK(w)' /\ OwnerOK(w)'
  BY DEF IInv, ChannelOK, OwnerOK, Prompt
<1>2. ScreenOK'
  BY DEF IInv, ScreenOK
<1>3. StatusIsTrue' /\ PromptIsLive'
  BY DEF IInv, StatusIsTrue, PromptIsLive, ScreenOK, Progress
<1> QED
  BY <1>1, <1>2, <1>3 DEF IInv

\* try_complete_session_calibration takes the rate once, after the thread's end.
LEMMA Completes ==
    ASSUME IInv, TryComplete
    PROVE  /\ held' \in BOOLEAN /\ rate' \in {"unknown", "prewarm", "measured"}
           /\ prewarm' = prewarm /\ (prewarm = "running" => held')
           /\ ~held' => prewarm # "running"
BY DEF IInv, TypeOK, TryComplete, CalibrationOK

Modals == [kind : {"none", "notice", "browser", "prompt"},
           worker : Workers \cup {NoWorker}, attempt : 0..MAX_PASSWORD_ATTEMPTS]

\* The dialogs are dialogs.
LEMMA ModalKinds ==
    /\ NoModal \in Modals /\ NoModal.kind = "none"
    /\ Notice \in Modals /\ Notice.kind = "notice"
    /\ Browser \in Modals /\ Browser.kind = "browser"
    /\ \A w \in Workers, n \in 0..MAX_PASSWORD_ATTEMPTS :
          Prompt(w, n) \in Modals /\ Prompt(w, n).kind = "prompt"
          /\ Prompt(w, n).worker = w /\ Prompt(w, n).attempt = n
BY DEF NoModal, Notice, Browser, Prompt, Modals, MAX_PASSWORD_ATTEMPTS

\* The invariant is kept by every key and every turn of the loop without a worker.
LEMMA QuietStep ==
    ASSUME IInv,
           \/ PollCalibration \/ PollNothing \/ Draw \/ NoKey \/ Quit \/ Select \/ LeaveScreen
           \/ OpenBrowser \/ ShowNotice \/ CloseModal \/ EditUnlockInput \/ Inspect \/ PrewarmEnds
           \/ UNCHANGED vars
    PROVE  IInv'
<1> USE DEF ui, calib, vars
<1>1. TypeOK /\ ScreenOK /\ StatusIsTrue /\ CalibrationOK
  BY DEF IInv
<1> USE ModalKinds DEF CalibrationOK, MeasuresAlone
<1>2. CASE PollCalibration
  <2>1. TypeOK' /\ CalibrationOK'
    BY <1>1, <1>2, Completes DEF PollCalibration, TypeOK
  <2> QED
    BY <1>2, <2>1, QuietFrame DEF PollCalibration
<1>3. CASE PollNothing \/ NoKey \/ Quit
  <2>1. TypeOK' /\ CalibrationOK'
    BY <1>1, <1>3 DEF PollNothing, NoKey, Quit, TypeOK
  <2> QED
    BY <1>3, <2>1, QuietFrame DEF PollNothing, NoKey, Quit
<1>4. CASE Draw
  <2>1. UNCHANGED <<screen, modal, rate>> /\ phase' = "key"
    BY <1>4 DEF Draw
  <2>2. \/ prewarm' = "running" /\ held' = TRUE
        \/ prewarm' = prewarm /\ held' = held
    BY <1>4 DEF Draw
  <2>3. CalibrationOK'
    BY <1>1, <2>1, <2>2
  <2>4. TypeOK'
    <3>0. prewarm \in {"none", "running", "ok", "err"} /\ held \in BOOLEAN
      BY <1>1 DEF TypeOK
    <3>1. prewarm' \in {"none", "running", "ok", "err"} /\ held' \in BOOLEAN
      <4>1. CASE prewarm' = "running" /\ held' = TRUE
        BY <4>1
      <4>2. CASE prewarm' = prewarm /\ held' = held
        BY <3>0, <4>2
      <4> QED
        BY <2>2, <4>1, <4>2
    <3>2. UNCHANGED <<job, attached, cancelRequested, verifier, status>>
      BY <1>4 DEF Draw
    <3> HIDE DEF CalibrationOK, ui, calib, vars
    <3> QED
      BY <1>1, <2>1, <3>1, <3>2 DEF TypeOK
  <2> QED
    BY <1>4, <2>3, <2>4, QuietFrame DEF Draw
<1>5. CASE Select
  <2>1. TypeOK' /\ CalibrationOK'
    BY <1>1, <1>5 DEF Select, ScreenKey, Key, TypeOK, Screens
  <2>2. screen = "menu" /\ screen' \notin Progress
    BY <1>5 DEF Select, Progress, Forms, LockForms
  <2> QED
    BY <1>5, <2>1, <2>2, QuietFrame DEF Select, ScreenKey, Progress
<1>6. CASE LeaveScreen
  <2>1. TypeOK' /\ CalibrationOK'
    BY <1>1, <1>6 DEF LeaveScreen, ScreenKey, Key, TypeOK, Screens
  <2>2. screen \notin Progress /\ screen' \notin Progress
    BY <1>6 DEF LeaveScreen, Progress, Forms, LockForms, Results
  <2>3. verifier = NoWorker
    BY <1>1, <1>6 DEF LeaveScreen, ScreenOK, StatusIsTrue
  <2> QED
    BY <1>6, <2>1, <2>2, <2>3, QuietFrame DEF LeaveScreen, ScreenKey
<1>7. CASE OpenBrowser
  <2>1. TypeOK' /\ CalibrationOK'
    BY <1>1, <1>7 DEF OpenBrowser, ScreenKey, Key, TypeOK, Modals
  <2>2. screen' \notin Progress /\ status = "idle"
    BY <1>1, <1>7 DEF OpenBrowser, ScreenOK, StatusIsTrue, Progress, Forms, LockForms
  <2> QED
    BY <1>7, <2>1, <2>2, QuietFrame DEF OpenBrowser, ScreenKey
<1>8. CASE ShowNotice
  <2>1. TypeOK' /\ CalibrationOK'
    BY <1>1, <1>8 DEF ShowNotice, ScreenKey, Key, TypeOK, Modals
  <2>2. screen' \notin Progress /\ status = "idle"
    BY <1>1, <1>8 DEF ShowNotice, ScreenOK, StatusIsTrue, Progress, Forms, LockForms
  <2> QED
    BY <1>8, <2>1, <2>2, QuietFrame DEF ShowNotice, ScreenKey
<1>9. CASE CloseModal
  <2>1. TypeOK' /\ CalibrationOK'
    BY <1>1, <1>9, Completes DEF CloseModal, Key, TypeOK, Modals
  <2> QED
    BY <1>9, <2>1, QuietFrame DEF CloseModal
<1>10. CASE EditUnlockInput
  <2>1. TypeOK' /\ CalibrationOK'
    BY <1>1, <1>10, Completes DEF EditUnlockInput, ScreenKey, Key, TypeOK
  <2> QED
    BY <1>10, <2>1, QuietFrame DEF EditUnlockInput
<1>11. CASE Inspect
  <2>1. TypeOK' /\ CalibrationOK'
    BY <1>1, <1>11, Completes DEF Inspect, ScreenKey, Key, TypeOK, Modals, Screens, Results
  <2>2. /\ screen \notin Progress \cup {"verifyForm"} /\ screen' \notin Progress
        /\ status = "idle"
    BY <1>1, <1>11 DEF Inspect, ScreenOK, StatusIsTrue, Progress
  <2> QED
    BY <1>11, <2>1, <2>2, QuietFrame DEF Inspect, ScreenKey
<1>12. CASE PrewarmEnds
  <2>1. TypeOK' /\ CalibrationOK'
    BY <1>1, <1>12 DEF PrewarmEnds, TypeOK
  <2> QED
    BY <1>12, <2>1, QuietFrame DEF PrewarmEnds
<1>13. CASE UNCHANGED vars
  <2>1. TypeOK' /\ CalibrationOK'
    BY <1>1, <1>13 DEF TypeOK
  <2> QED
    BY <1>13, <2>1, QuietFrame
<1> QED
  BY <1>2, <1>3, <1>4, <1>5, <1>6, <1>7, <1>8, <1>9, <1>10, <1>11, <1>12, <1>13

-------------------------------------------------------------------------------
(* The steps that start workers, hear from them and reach them.              *)

\* Only the worker of the unlock screen ever waits for an answer.
LEMMA OnlyAttachedAsks ==
    ASSUME IInv, NEW w \in Workers, w # attached
    PROVE  job[w].at # "asking"
<1>1. OwnerOK(w) /\ ChannelOK(w) /\ ScreenOK
  BY DEF IInv
<1>2. CASE w = verifier
  <2>1. job[w].kind = "verify"
    BY <1>1, <1>2, SessionAssumption DEF ScreenOK
  <2> QED
    BY <1>1, <2>1 DEF ChannelOK
<1>3. CASE job[w] = NoJob
  BY <1>3 DEF NoJob
<1> QED
  BY <1>1, <1>2, <1>3 DEF OwnerOK

\* A step may replace the state of one thread, as long as it comes out right with
\* what becomes of the screen; the others are none of its business.
LEMMA OwnFrame ==
    ASSUME IInv, NEW w \in Workers, NEW j \in Job, job' = [job EXCEPT ![w] = j],
           TypeOK', ScreenOK', StatusIsTrue', PromptIsLive', CalibrationOK',
           ChannelOK(w)', OwnerOK(w)',
           attached \in {w, NoWorker}, verifier \in {w, verifier', NoWorker}
    PROVE  IInv'
<1>1. /\ job'[w] = j /\ \A v \in Workers \ {w} : job'[v] = job[v]
  BY DEF IInv, TypeOK, Job, Queues
<1>2. ASSUME NEW v \in Workers \ {w} PROVE ChannelOK(v)' /\ OwnerOK(v)'
  <2>1. job[v].at # "asking"
    BY OnlyAttachedAsks, SessionAssumption
  <2>2. ChannelOK(v) /\ OwnerOK(v)
    BY DEF IInv
  <2>3. ChannelOK(v)'
    BY <1>1, <2>1, <2>2 DEF ChannelOK
  <2>4. OwnerOK(v)'
    BY <1>1, <2>2, SessionAssumption DEF OwnerOK
  <2> QED
    BY <2>3, <2>4
<1> QED
  BY <1>2 DEF IInv

\* A thread without a past is typed, silent and not told to stop.
LEMMA NewJob ==
    /\ NoJob \in Job /\ NoJob.at = "ended" /\ NoJob.queue = << >>
    /\ \A kind \in Kinds :
          LET j == [NoJob EXCEPT !.kind = kind, !.at = "working"]
          IN  /\ j \in Job /\ j.kind = kind /\ j.at = "working" /\ j.queue = << >>
              /\ ~j.token
<1>1. NoJob \in Job /\ NoJob.at = "ended" /\ NoJob.queue = << >> /\ NoJob.token = FALSE
  <2>1. << >> \in Queues /\ 0 \in 0..MAX_PASSWORD_ATTEMPTS
    BY ChannelFits DEF MAX_PASSWORD_ATTEMPTS
  <2> QED
    BY <2>1 DEF NoJob, Job
<1>2. ASSUME NEW kind \in Kinds
      PROVE  LET j == [NoJob EXCEPT !.kind = kind, !.at = "working"]
             IN  /\ j \in Job /\ j.kind = kind /\ j.at = "working" /\ j.queue = << >>
                 /\ ~j.token
  <2> HIDE DEF NoJob
  <2> QED
    BY <1>1 DEF Job
<1> QED
  BY <1>1, <1>2

\* The state of every thread is typed after any of them has got a typed one.
LEMMA JobTyped ==
    ASSUME TypeOK, NEW w \in Workers, NEW j \in Job, job' = [job EXCEPT ![w] = j]
    PROVE  /\ job'[w] = j /\ job' \in [Workers -> Job]
           /\ \A v \in Workers \ {w} : job'[v] = job[v]
BY DEF TypeOK, Job, Queues

\* Starting a worker gives it a screen, and it is the only one there is.
LEMMA SpawnStep ==
    ASSUME IInv, NEW kind, NEW progress, ShowProgress(kind, progress),
           \/ kind = "lock" /\ progress = "lockProgress"
           \/ kind = "unlock" /\ progress = "unlockProgress",
           modal.kind = "none", screen \notin Progress \cup {"verifyForm"},
           phase' = "calibration", prewarm' \in {"none", "running", "ok", "err"},
           held' \in BOOLEAN, rate' \in {"unknown", "prewarm", "measured"},
           prewarm' = "running" => held'
    PROVE  IInv'
<1>1. PICK w \in Workers : Spawn(w, kind) /\ attached' = w
  BY DEF ShowProgress
<1> DEFINE j == [NoJob EXCEPT !.kind = kind, !.at = "working"]
<1>2. kind \in Kinds /\ progress \in Screens /\ progress \in Progress /\ progress # "verifyForm"
  BY DEF Kinds, Screens, Progress
<1>3. j \in Job /\ j.kind = kind /\ j.at = "working" /\ j.queue = << >> /\ ~j.token
  BY <1>2, NewJob
<1>4. job' = [job EXCEPT ![w] = j]
  BY <1>1 DEF Spawn
<1> HIDE DEF j
<1>5. TypeOK /\ ScreenOK /\ StatusIsTrue
  BY DEF IInv
<1>6. job'[w] = j /\ job' \in [Workers -> Job]
  BY <1>3, <1>4, <1>5, JobTyped
<1>7. attached = NoWorker /\ verifier = NoWorker /\ status = "idle"
  BY <1>5 DEF ScreenOK, StatusIsTrue
<1>8. /\ UNCHANGED <<modal, verifier, status>>
      /\ screen' = progress /\ cancelRequested' = FALSE
  BY DEF ShowProgress
<1>9. TypeOK'
  <2>1. /\ phase' \in {"calibration", "workers"} /\ screen' \in Screens
        /\ attached' \in Workers \cup {NoWorker} /\ cancelRequested' \in BOOLEAN
    BY <1>1, <1>2, <1>8
  <2>2. UNCHANGED <<modal, verifier, status>>
    BY <1>8
  <2> QED
    BY <1>5, <1>6, <2>1, <2>2 DEF TypeOK, Job, Queues
<1>10. ScreenOK' /\ StatusIsTrue' /\ PromptIsLive' /\ CalibrationOK'
  <2>1. attached' = w /\ w # NoWorker /\ verifier' = NoWorker /\ status' = "idle"
    BY <1>1, <1>7, <1>8, SessionAssumption
  <2>2. ScreenOK'
    BY <1>2, <1>3, <1>6, <1>8, <2>1 DEF ScreenOK
  <2>3. StatusIsTrue'
    BY <1>3, <1>6, <1>8, <2>1 DEF StatusIsTrue
  <2>4. PromptIsLive' /\ CalibrationOK'
    BY <1>8 DEF PromptIsLive, CalibrationOK, MeasuresAlone
  <2> QED
    BY <2>2, <2>3, <2>4
<1>11. ChannelOK(w)' /\ OwnerOK(w)'
  BY <1>1, <1>3, <1>6 DEF ChannelOK, OwnerOK
<1> QED
  BY <1>1, <1>3, <1>4, <1>7, <1>8, <1>9, <1>10, <1>11, OwnFrame

\* The keys that start a lock or an unlock, with or without a measurement first.
LEMMA StartStep ==
    ASSUME IInv, StartLock \/ StartLockCalibrated \/ StartUnlock \/ PrewarmArrives \/ Measured
    PROVE  IInv'
<1>1. TypeOK /\ ScreenOK /\ StatusIsTrue /\ CalibrationOK
  BY DEF IInv
<1>2. \A s \in LockForms \cup {"unlockForm", "inspectDetails"} :
          s \notin Progress \cup {"verifyForm"}
  BY DEF LockForms, Progress
<1>3. /\ prewarm \in {"none", "running", "ok", "err"} /\ held \in BOOLEAN
      /\ rate \in {"unknown", "prewarm", "measured"} /\ (prewarm = "running" => held)
  BY <1>1 DEF TypeOK, CalibrationOK
<1>4. CASE StartLock
  BY <1>2, <1>3, <1>4, SpawnStep DEF StartLock, SpawnLock, ScreenKey, Key, calib
<1>5. CASE StartUnlock
  BY <1>2, <1>3, <1>5, SpawnStep DEF StartUnlock, ScreenKey, Key, calib
<1>6. CASE StartLockCalibrated
  <2>1. modal.kind = "none" /\ screen \in LockForms
    BY <1>6 DEF StartLockCalibrated
  <2>2. /\ prewarm' \in {"none", "running", "ok", "err"} /\ held' \in BOOLEAN
        /\ rate' \in {"unknown", "prewarm", "measured"} /\ (prewarm' = "running" => held')
        /\ rate' = "unknown" /\ ~held' => prewarm' # "running"
    <3>1. CASE rate # "unknown"
      <4>1. UNCHANGED calib
        BY <1>6, <3>1 DEF StartLockCalibrated
      <4> QED
        BY <1>3, <3>1, <4>1 DEF calib
    <3>2. CASE rate = "unknown"
      <4>1. TryComplete
        BY <1>6, <3>2 DEF StartLockCalibrated
      <4> QED
        BY <1>3, <4>1, Completes
    <3> QED
      BY <3>1, <3>2
  <2>3. CASE rate' # "unknown"
    <3>1. phase' = "calibration" /\ SpawnLock
      BY <1>6, <2>3 DEF StartLockCalibrated
    <3> QED
      BY <1>2, <2>1, <2>2, <3>1, SpawnStep DEF SpawnLock
  <2>4. CASE rate' = "unknown"
    <3>1. UNCHANGED <<ui, job>> /\ phase' = IF held' THEN "waiting" ELSE "measuring"
      BY <1>6, <2>4 DEF StartLockCalibrated
    <3>2. phase' \in {"waiting", "measuring"} /\ (phase' = "measuring" => ~held')
      BY <2>2, <3>1
    <3>3. TypeOK'
      <4>1. UNCHANGED <<screen, modal, attached, cancelRequested, verifier, status, job>>
        BY <3>1 DEF ui
      <4>2. /\ prewarm' \in {"none", "running", "ok", "err"} /\ held' \in BOOLEAN
            /\ rate' \in {"unknown", "prewarm", "measured"}
        BY <2>2
      <4>3. phase' \in {"waiting", "measuring"}
        BY <3>2
      <4> QED
        BY <1>1, <4>1, <4>2, <4>3 DEF TypeOK
    <3>4. CalibrationOK'
      BY <2>1, <2>2, <2>4, <3>1, <3>2 DEF CalibrationOK, MeasuresAlone, ui
    <3> QED
      BY <3>1, <3>3, <3>4, QuietFrame DEF ui
  <2> QED
    BY <2>3, <2>4
<1>7. CASE PrewarmArrives
  <2>1. /\ phase = "waiting" /\ prewarm # "running" /\ held' = FALSE /\ prewarm' = prewarm
        /\ modal.kind = "none" /\ screen \in LockForms
    BY <1>1, <1>7 DEF PrewarmArrives, CalibrationOK
  <2>2. CASE prewarm = "ok"
    <3>1. rate' = "prewarm" /\ phase' = "calibration" /\ SpawnLock
      BY <1>7, <2>2 DEF PrewarmArrives
    <3> QED
      BY <1>2, <1>3, <2>1, <3>1, SpawnStep DEF SpawnLock
  <2>3. CASE prewarm # "ok"
    <3>1. phase' = "measuring" /\ UNCHANGED <<rate, ui, job>>
      BY <1>7, <2>3 DEF PrewarmArrives
    <3>2. TypeOK'
      <4>1. UNCHANGED <<screen, modal, attached, cancelRequested, verifier, status, job, rate>>
        BY <3>1 DEF ui
      <4>2. prewarm' = prewarm /\ held' \in BOOLEAN
        BY <2>1
      <4>3. phase' = "measuring"
        BY <3>1
      <4> QED
        BY <1>1, <4>1, <4>2, <4>3 DEF TypeOK
    <3>3. CalibrationOK'
      BY <2>1, <3>1 DEF CalibrationOK, MeasuresAlone, ui
    <3> QED
      BY <3>1, <3>2, <3>3, QuietFrame DEF ui
  <2> QED
    BY <2>2, <2>3
<1>8. CASE Measured
  <2>1. /\ phase = "measuring" /\ phase' = "calibration" /\ UNCHANGED <<prewarm, held>>
        /\ modal.kind = "none" /\ screen \in LockForms
    BY <1>1, <1>8 DEF Measured, CalibrationOK
  <2>2. CASE rate' = "measured" /\ SpawnLock
    BY <1>2, <1>3, <2>1, <2>2, SpawnStep DEF SpawnLock
  <2>3. CASE modal' = Notice
             /\ UNCHANGED <<rate, screen, attached, cancelRequested, verifier, status, job>>
    <3>1. TypeOK'
      BY <1>1, <2>1, <2>3, ModalKinds DEF TypeOK, Modals
    <3>2. CalibrationOK'
      BY <1>1, <2>1, <2>3 DEF CalibrationOK, MeasuresAlone
    <3>3. status = "idle" /\ screen' \notin Progress
      BY <1>1, <1>2, <2>1, <2>3 DEF ScreenOK, StatusIsTrue
    <3> QED
      BY <2>1, <2>3, <3>1, <3>2, <3>3, ModalKinds, QuietFrame
  <2> QED
    BY <1>8, <2>2, <2>3 DEF Measured
<1> QED
  BY <1>4, <1>5, <1>6, <1>7, <1>8

\* The key that starts a verification; nothing else is running.
LEMMA StartVerifyStep ==
    ASSUME IInv, StartVerify
    PROVE  IInv'
<1>1. TypeOK /\ ScreenOK /\ StatusIsTrue /\ CalibrationOK
  BY DEF IInv
<1>2. /\ screen = "verifyForm" /\ status = "idle" /\ modal.kind = "none"
      /\ phase = "key" /\ phase' = "calibration" /\ status' = "running"
      /\ UNCHANGED <<screen, modal, attached, cancelRequested>>
  BY DEF StartVerify, ScreenKey, Key
<1>3. UNCHANGED <<prewarm, held, rate>>
  BY DEF StartVerify, calib
<1>4. PICK w \in Workers : Spawn(w, "verify") /\ verifier' = w
  BY DEF StartVerify
<1> DEFINE j == [NoJob EXCEPT !.kind = "verify", !.at = "working"]
<1>5. j \in Job /\ j.kind = "verify" /\ j.at = "working" /\ j.queue = << >> /\ ~j.token
  <2>1. "verify" \in Kinds
    BY DEF Kinds
  <2> QED
    BY <2>1, NewJob
<1>6. job' = [job EXCEPT ![w] = j]
  BY <1>4 DEF Spawn
<1> HIDE DEF j
<1>7. job'[w] = j /\ job' \in [Workers -> Job]
  BY <1>1, <1>5, <1>6, JobTyped
<1>8. attached = NoWorker /\ verifier = NoWorker
  BY <1>1, <1>2 DEF ScreenOK, StatusIsTrue, Progress
<1>9. TypeOK'
  BY <1>1, <1>2, <1>3, <1>4, <1>7 DEF TypeOK, Job, Queues
<1>10. ScreenOK'
  BY <1>1, <1>2, <1>4, <1>5, <1>7, <1>8 DEF ScreenOK, Progress
<1>11. StatusIsTrue'
  BY <1>2, <1>4, <1>5, <1>7, <1>8, SessionAssumption DEF StatusIsTrue
<1>12. PromptIsLive' /\ CalibrationOK'
  BY <1>1, <1>2, <1>3 DEF PromptIsLive, CalibrationOK, MeasuresAlone
<1>13. ChannelOK(w)' /\ OwnerOK(w)'
  BY <1>4, <1>5, <1>7 DEF ChannelOK, OwnerOK
<1> QED
  BY <1>4, <1>5, <1>6, <1>8, <1>9, <1>10, <1>11, <1>12, <1>13, OwnFrame

\* What the loop finds in the channel of the worker the screen is about: a result
\* and the worker has ended, or a request, which is answered or out of date; in
\* no case is there still a prompt.
LEMMA Received ==
    ASSUME IInv, screen \in Progress, job[attached].queue # << >>
    PROVE  /\ attached \in Workers /\ modal.kind = "none"
           /\ \/ \E x \in Outcomes : /\ job[attached].at = "ended"
                                     /\ job[attached].queue = << Finished(x) >>
              \/ /\ job[attached].kind = "unlock"
                 /\ \/ /\ job[attached].at = "asking"
                       /\ job[attached].queue = << Ask(job[attached].attempt) >>
                    \/ \E x \in Outcomes :
                          /\ job[attached].at = "ended" /\ job[attached].token
                          /\ job[attached].queue =
                                << Ask(job[attached].attempt), Finished(x) >>
<1>1. attached \in Workers
  BY DEF IInv, ScreenOK, TypeOK
<1>2. ChannelOK(attached) /\ job[attached] \in Job
  BY <1>1 DEF IInv, TypeOK, Job, Queues
<1>3. modal.kind # "prompt"
  BY <1>2 DEF IInv, PromptIsLive, ChannelOK
<1>4. modal.kind = "none"
  BY <1>3 DEF IInv, ScreenOK
<1>5. \/ \E x \in Outcomes : /\ job[attached].at = "ended"
                             /\ job[attached].queue = << Finished(x) >>
      \/ /\ job[attached].kind = "unlock"
         /\ \/ /\ job[attached].at = "asking"
               /\ job[attached].queue = << Ask(job[attached].attempt) >>
            \/ \E x \in Outcomes :
                  /\ job[attached].at = "ended" /\ job[attached].token
                  /\ job[attached].queue = << Ask(job[attached].attempt), Finished(x) >>
  BY <1>2 DEF ChannelOK, Job
<1> QED
  BY <1>1, <1>4, <1>5

\* A worker whose result has been taken is gone, and so is its screen.
LEMMA ConcludeStep ==
    ASSUME IInv, screen \in Progress, job[attached].queue # << >>,
           NEW complete \in Results, Conclude(attached, complete),
           phase' = "draw", UNCHANGED calib
    PROVE  IInv'
<1>1. TypeOK /\ ScreenOK /\ StatusIsTrue /\ CalibrationOK
  BY DEF IInv
<1>2. PICK w \in Workers : w = attached /\ modal.kind = "none"
  BY Received
<1>3. verifier = NoWorker /\ status = "idle"
  BY <1>1 DEF ScreenOK, StatusIsTrue, Progress
<1>4. /\ screen' \in {complete, "menu"} /\ modal' \in {modal, Notice}
      /\ attached' = NoWorker /\ cancelRequested' = FALSE
      /\ job' = [job EXCEPT ![w] = NoJob]
      /\ UNCHANGED <<verifier, status, prewarm, held, rate>>
  BY <1>2 DEF Conclude, calib
<1>5. NoJob \in Job
  BY NewJob
<1>6. job'[w] = NoJob /\ job' \in [Workers -> Job]
  BY <1>1, <1>2, <1>4, <1>5, JobTyped
<1>7. screen' \notin Progress \cup {"verifyForm"} /\ screen' \in Screens
  BY <1>4 DEF Results, Progress, Screens
<1>8. modal' \in Modals /\ modal'.kind # "prompt"
  BY <1>1, <1>2, <1>4, ModalKinds DEF TypeOK, Modals
<1>9. TypeOK'
  <2>1. attached' \in Workers \cup {NoWorker} /\ cancelRequested' \in BOOLEAN
    BY <1>4
  <2>2. UNCHANGED <<verifier, status, prewarm, held, rate>>
    BY <1>4
  <2> QED
    BY <1>1, <1>6, <1>7, <1>8, <2>1, <2>2 DEF TypeOK, Job, Queues, Modals
<1>10. ScreenOK' /\ StatusIsTrue' /\ PromptIsLive'
  BY <1>3, <1>4, <1>7, <1>8 DEF ScreenOK, StatusIsTrue, PromptIsLive
<1>11. CalibrationOK'
  BY <1>1, <1>4 DEF CalibrationOK, MeasuresAlone
<1>12. ChannelOK(w)' /\ OwnerOK(w)'
  BY <1>6, NewJob DEF ChannelOK, OwnerOK
<1> QED
  BY <1>2, <1>3, <1>4, <1>5, <1>9, <1>10, <1>11, <1>12, OwnFrame

\* A request that comes after the cancellation is refused, and its worker told so
\* if it is still there; any other one opens the prompt its worker waits for.
LEMMA AskedStep ==
    ASSUME IInv, PollUnlock, job[attached].queue # << >>,
           Head(job[attached].queue).what = "ask"
    PROVE  IInv'
<1>1. TypeOK /\ ScreenOK /\ StatusIsTrue /\ CalibrationOK
  BY DEF IInv
<1>2. screen = "unlockProgress" /\ phase' = "draw" /\ UNCHANGED <<prewarm, held, rate>>
  BY DEF PollUnlock, calib
<1>3. PICK w \in Workers : w = attached /\ modal.kind = "none"
  BY <1>2, Received DEF Progress
<1>4. job[w] \in Job /\ job[w].attempt \in 0..MAX_PASSWORD_ATTEMPTS
      /\ Ask(job[w].attempt) \in Messages
  BY <1>1, MessageKinds DEF TypeOK, Job, Queues
<1>5. \/ /\ job[w].at = "asking" /\ Tail(job[w].queue) = << >>
      \/ \E x \in Outcomes : /\ job[w].at = "ended" /\ job[w].token
                             /\ Tail(job[w].queue) = << Finished(x) >>
  <2>1. ASSUME NEW x \in Outcomes PROVE job[w].queue # << Finished(x) >>
    BY <1>3, <2>1, MessageKinds, Channel
  <2>2. ASSUME NEW x \in Outcomes, job[w].queue = << Ask(job[w].attempt), Finished(x) >>
        PROVE  Tail(job[w].queue) = << Finished(x) >>
    BY <1>4, <2>2, MessageKinds, Channel
  <2>3. job[w].queue = << Ask(job[w].attempt) >> => Tail(job[w].queue) = << >>
    BY <1>4, Channel
  <2> QED
    BY <1>2, <1>3, <2>1, <2>2, <2>3, Received DEF Progress
<1>6. /\ job[w].kind = "unlock" /\ Head(job[w].queue) = Ask(job[w].attempt)
      /\ Head(job[w].queue).attempt = job[w].attempt
  <2>1. ASSUME NEW x \in Outcomes PROVE job[w].queue # << Finished(x) >>
    BY <1>3, <2>1, MessageKinds, Channel
  <2>2. job[w].kind = "unlock" /\ Head(job[w].queue) = Ask(job[w].attempt)
    <3>1. ASSUME NEW x \in Outcomes, job[w].queue = << Ask(job[w].attempt), Finished(x) >>
          PROVE  Head(job[w].queue) = Ask(job[w].attempt)
      BY <1>4, <3>1, MessageKinds, Channel
    <3>2. job[w].queue = << Ask(job[w].attempt) >> => Head(job[w].queue) = Ask(job[w].attempt)
      BY <1>4, Channel
    <3> QED
      BY <1>2, <1>3, <2>1, <3>1, <3>2, Received DEF Progress
  <2> QED
    BY <1>4, <2>2, MessageKinds
<1>7. Tail(job[w].queue) \in Queues
  BY <1>5, MessageKinds, ChannelFits
<1>8. verifier = NoWorker /\ status = "idle"
  BY <1>1, <1>2 DEF ScreenOK, StatusIsTrue
<1>9. /\ UNCHANGED <<screen, attached, cancelRequested, verifier, status>>
      /\ IF cancelRequested \/ job[w].token
            THEN /\ job' = [Reply(w, job[w].attempt, "cancelled")
                               EXCEPT ![w].queue = Tail(@)]
                 /\ modal' = modal
            ELSE /\ job' = [job EXCEPT ![w].queue = Tail(@)]
                 /\ modal' = Prompt(w, job[w].attempt)
  BY <1>3, <1>6 DEF PollUnlock
<1>10. CalibrationOK'
  BY <1>1, <1>2, <1>9 DEF CalibrationOK, MeasuresAlone, LockForms
<1>11. CASE cancelRequested \/ job[w].token
  <2> DEFINE j == [job[w] EXCEPT !.reply = IF job[w].at = "asking" THEN "cancelled" ELSE @,
                                 !.queue = Tail(job[w].queue)]
  <2>1. job' = [job EXCEPT ![w] = j]
    BY <1>1, <1>3, <1>4, <1>9, <1>11 DEF Reply, TypeOK
  <2>2. /\ j \in Job /\ j.at = job[w].at /\ j.kind = job[w].kind /\ j.token = job[w].token
        /\ j.attempt = job[w].attempt /\ j.queue = Tail(job[w].queue)
        /\ j.at = "asking" => j.reply = "cancelled"
    BY <1>4, <1>7 DEF Job
  <2> HIDE DEF j
  <2>3. job'[w] = j /\ job' \in [Workers -> Job]
    BY <1>1, <2>1, <2>2, JobTyped
  <2>4. TypeOK'
    BY <1>1, <1>2, <1>9, <1>11, <2>3 DEF TypeOK, Job, Queues
  <2>5. ScreenOK' /\ StatusIsTrue' /\ PromptIsLive'
    BY <1>1, <1>3, <1>8, <1>9, <1>11, <2>2, <2>3 DEF ScreenOK, StatusIsTrue, PromptIsLive
  <2>6. ChannelOK(w)' /\ OwnerOK(w)'
    <3>1. CASE job[w].at = "asking" /\ Tail(job[w].queue) = << >>
      <4>1. j.reply = "cancelled" /\ j.at = "asking" /\ j.queue = << >> /\ j.kind = "unlock"
        BY <1>6, <2>2, <3>1
      <4> QED
        BY <1>3, <1>9, <2>3, <4>1 DEF ChannelOK, OwnerOK
    <3>2. ASSUME NEW x \in Outcomes, job[w].at = "ended", Tail(job[w].queue) = << Finished(x) >>
          PROVE  ChannelOK(w)' /\ OwnerOK(w)'
      <4>1. j.at = "ended" /\ j.queue = << Finished(x) >>
        BY <2>2, <3>2
      <4> QED
        BY <1>3, <1>9, <2>3, <4>1 DEF ChannelOK, OwnerOK
    <3> QED
      BY <1>5, <3>1, <3>2
  <2> QED
    BY <1>3, <1>8, <1>10, <2>1, <2>2, <2>4, <2>5, <2>6, OwnFrame
<1>12. CASE ~(cancelRequested \/ job[w].token)
  <2> DEFINE j == [job[w] EXCEPT !.queue = Tail(job[w].queue)]
  <2>1. job' = [job EXCEPT ![w] = j] /\ modal' = Prompt(w, job[w].attempt)
    BY <1>1, <1>4, <1>9, <1>12 DEF TypeOK
  <2>2. /\ j \in Job /\ j.at = job[w].at /\ j.kind = job[w].kind /\ j.token = job[w].token
        /\ j.attempt = job[w].attempt /\ j.queue = Tail(job[w].queue) /\ j.reply = job[w].reply
    BY <1>4, <1>7 DEF Job
  <2>3. j.at = "asking" /\ j.queue = << >> /\ j.reply = "none"
    <3>1. job[w].at = "asking" /\ Tail(job[w].queue) = << >> /\ job[w].queue # << >>
      BY <1>3, <1>5, <1>12
    <3>2. job[w].reply = "none"
      BY <1>3, <3>1 DEF IInv, ChannelOK
    <3> QED
      BY <2>2, <3>1, <3>2
  <2> HIDE DEF j
  <2>4. job'[w] = j /\ job' \in [Workers -> Job]
    BY <1>1, <2>1, <2>2, JobTyped
  <2>5. /\ modal' \in Modals /\ modal'.kind = "prompt"
        /\ modal'.worker = w /\ modal'.attempt = job[w].attempt
    BY <1>4, <2>1, ModalKinds
  <2>6. TypeOK'
    BY <1>1, <1>2, <1>9, <2>4, <2>5 DEF TypeOK, Job, Queues, Modals
  <2>7. ScreenOK' /\ StatusIsTrue'
    BY <1>1, <1>3, <1>8, <1>9, <2>2, <2>4, <2>5 DEF ScreenOK, StatusIsTrue
  <2>8. PromptIsLive'
    BY <1>2, <1>3, <1>6, <1>9, <1>12, <2>2, <2>3, <2>4, <2>5, SessionAssumption DEF PromptIsLive
  <2>9. ChannelOK(w)' /\ OwnerOK(w)'
    BY <1>3, <1>6, <1>9, <2>1, <2>2, <2>3, <2>4 DEF ChannelOK, OwnerOK
  <2> QED
    BY <1>3, <1>8, <1>10, <2>1, <2>2, <2>6, <2>7, <2>8, <2>9, OwnFrame
<1> QED
  BY <1>11, <1>12

\* The loop's look into the channel of a lock or an unlock.
LEMMA PollStep ==
    ASSUME IInv, PollLock \/ PollUnlock
    PROVE  IInv'
<1>1. /\ screen \in Progress /\ phase' = "draw" /\ UNCHANGED calib
      /\ "lockComplete" \in Results /\ "unlockComplete" \in Results
  BY DEF PollLock, PollUnlock, Progress, Results
<1>2. CASE UNCHANGED <<ui, job>>
  <2>1. TypeOK' /\ CalibrationOK'
    BY <1>1, <1>2 DEF IInv, TypeOK, CalibrationOK, MeasuresAlone, ui, calib
  <2> QED
    BY <1>2, <2>1, QuietFrame DEF ui
<1>3. CASE job[attached].queue # << >> /\ \E complete \in Results : Conclude(attached, complete)
  BY <1>1, <1>3, ConcludeStep
<1>4. CASE /\ PollUnlock /\ job[attached].queue # << >>
           /\ Head(job[attached].queue).what = "ask"
  BY <1>4, AskedStep
<1> QED
  BY <1>1, <1>2, <1>3, <1>4 DEF PollLock, PollUnlock

\* The loop's look into the channel of a verification.
LEMMA PollVerifyStep ==
    ASSUME IInv, PollVerify
    PROVE  IInv'
<1>1. TypeOK /\ ScreenOK /\ StatusIsTrue /\ CalibrationOK
  BY DEF IInv
<1>2. /\ screen = "verifyForm" /\ phase' = "draw" /\ attached = NoWorker
      /\ UNCHANGED <<attached, cancelRequested, prewarm, held, rate>>
  BY <1>1 DEF PollVerify, calib, ScreenOK, Progress
<1>3. CASE verifier = NoWorker \/ UNCHANGED <<screen, modal, verifier, status, job>>
  <2>1. UNCHANGED <<screen, modal, verifier, status, job>>
    BY <1>1, <1>3 DEF PollVerify, StatusIsTrue
  <2>2. TypeOK' /\ CalibrationOK'
    BY <1>1, <1>2, <2>1 DEF TypeOK, CalibrationOK, MeasuresAlone
  <2> QED
    BY <1>2, <2>1, <2>2, QuietFrame
<1>4. CASE /\ verifier # NoWorker /\ status' = "idle" /\ verifier' = NoWorker
           /\ job' = [job EXCEPT ![verifier] = NoJob]
           /\ screen' \in {"verifyDetails", screen} /\ modal' \in {modal, Notice}
  <2>1. PICK w \in Workers : w = verifier
    BY <1>1, <1>4 DEF TypeOK
  <2>2. job' = [job EXCEPT ![w] = NoJob] /\ NoJob \in Job
    BY <1>4, <2>1, NewJob
  <2>3. job'[w] = NoJob /\ job' \in [Workers -> Job]
    BY <1>1, <2>2, JobTyped
  <2>4. /\ screen' \notin Progress /\ screen' \in Screens
        /\ modal' \in Modals /\ modal'.kind # "prompt"
    <3>1. modal.kind = "none"
      BY <1>1, <1>4 DEF ScreenOK, StatusIsTrue
    <3> QED
      BY <1>1, <1>2, <1>4, <3>1, ModalKinds DEF Progress, Screens, Results, TypeOK, Modals
  <2>5. TypeOK'
    BY <1>1, <1>2, <1>4, <2>3, <2>4 DEF TypeOK, Job, Queues, Modals
  <2>6. ScreenOK' /\ StatusIsTrue' /\ PromptIsLive'
    BY <1>2, <1>4, <2>4 DEF ScreenOK, StatusIsTrue, PromptIsLive
  <2>7. CalibrationOK'
    BY <1>1, <1>2 DEF CalibrationOK, MeasuresAlone
  <2>8. ChannelOK(w)' /\ OwnerOK(w)'
    BY <2>3, NewJob DEF ChannelOK, OwnerOK
  <2> QED
    BY <1>2, <2>1, <2>2, <2>5, <2>6, <2>7, <2>8, OwnFrame
<1> QED
  BY <1>3, <1>4 DEF PollVerify

\* The keys that cancel what the screen is about.
LEMMA CancelStep ==
    ASSUME IInv, RequestCancel \/ RequestVerifyCancel
    PROVE  IInv'
<1>1. TypeOK /\ ScreenOK /\ StatusIsTrue /\ CalibrationOK
  BY DEF IInv
<1>2. /\ modal.kind = "none" /\ phase' = "calibration"
      /\ UNCHANGED <<screen, modal, attached, verifier, prewarm, held, rate>>
  BY DEF RequestCancel, RequestVerifyCancel, ScreenKey, Key, calib
<1>3. \E w \in Workers : /\ job' = [job EXCEPT ![w].token = TRUE]
                         /\ \/ /\ w = attached /\ w # verifier /\ screen \in Progress
                               /\ cancelRequested' = TRUE /\ status' = status
                            \/ /\ w = verifier /\ attached = NoWorker /\ screen = "verifyForm"
                               /\ cancelRequested' = cancelRequested
                               /\ status' = "cancelling"
  <2>1. CASE RequestCancel
    <3>1. screen \in Progress /\ cancelRequested' = TRUE /\ status' = status
          /\ job' = [job EXCEPT ![attached].token = TRUE]
      BY <2>1 DEF RequestCancel
    <3>2. attached \in Workers /\ attached # verifier
      BY <1>1, <3>1, SessionAssumption DEF ScreenOK, TypeOK, Progress
    <3> QED
      BY <3>1, <3>2
  <2>2. CASE RequestVerifyCancel
    <3>1. screen = "verifyForm" /\ cancelRequested' = cancelRequested /\ status' = "cancelling"
          /\ job' = [job EXCEPT ![verifier].token = TRUE] /\ verifier # NoWorker
      BY <2>2 DEF RequestVerifyCancel
    <3>2. verifier \in Workers /\ attached = NoWorker
      BY <1>1, <3>1 DEF ScreenOK, TypeOK, Progress
    <3> QED
      BY <3>1, <3>2
  <2> QED
    BY <2>1, <2>2
<1>4. PICK w \in Workers : /\ job' = [job EXCEPT ![w].token = TRUE]
                           /\ \/ /\ w = attached /\ w # verifier /\ screen \in Progress
                                 /\ cancelRequested' = TRUE /\ status' = status
                              \/ /\ w = verifier /\ attached = NoWorker /\ screen = "verifyForm"
                                 /\ cancelRequested' = cancelRequested
                                 /\ status' = "cancelling"
  BY <1>3
<1> DEFINE j == [job[w] EXCEPT !.token = TRUE]
<1>5. job' = [job EXCEPT ![w] = j]
  BY <1>1, <1>4 DEF TypeOK
<1>6. job[w] \in Job
  BY <1>1 DEF TypeOK, Job, Queues
<1>7. /\ j \in Job /\ j.at = job[w].at /\ j.kind = job[w].kind /\ j.token = TRUE
      /\ j.attempt = job[w].attempt /\ j.queue = job[w].queue /\ j.reply = job[w].reply
  BY <1>6 DEF Job
<1> HIDE DEF j
<1>8. job'[w] = j /\ job' \in [Workers -> Job]
  BY <1>1, <1>5, <1>7, JobTyped
<1>9. cancelRequested' \in BOOLEAN /\ status' \in {"idle", "running", "cancelling"}
  <2>1. cancelRequested \in BOOLEAN /\ status \in {"idle", "running", "cancelling"}
    BY <1>1 DEF TypeOK
  <2>2. cancelRequested' = TRUE \/ cancelRequested' = cancelRequested
    BY <1>4
  <2>3. cancelRequested' \in BOOLEAN
    BY <2>1, <2>2
  <2>4. status' = status \/ status' = "cancelling"
    BY <1>4
  <2> QED
    BY <2>1, <2>3, <2>4
<1>10. TypeOK'
  BY <1>1, <1>2, <1>8, <1>9 DEF TypeOK, Job, Queues
<1>11. ScreenOK' /\ PromptIsLive' /\ CalibrationOK'
  BY <1>1, <1>2, <1>4, <1>7, <1>8, SessionAssumption
     DEF ScreenOK, PromptIsLive, CalibrationOK, MeasuresAlone
<1>12. StatusIsTrue'
  <2>1. CASE w = attached /\ w # verifier
    <3>1. verifier = NoWorker
      BY <1>1, <1>4, <2>1 DEF ScreenOK, Progress
    <3> QED
      BY <1>1, <1>2, <1>4, <1>7, <1>8, <2>1, <3>1 DEF StatusIsTrue
  <2>2. CASE w = verifier
    <3>1. verifier # NoWorker /\ attached = NoWorker
      BY <1>4, <2>2, SessionAssumption
    <3> QED
      BY <1>1, <1>2, <1>4, <1>7, <1>8, <2>2, <3>1 DEF StatusIsTrue
  <2> QED
    BY <1>4, <2>1, <2>2
<1>13. ChannelOK(w)' /\ OwnerOK(w)'
  <2>1. ChannelOK(w)
    BY DEF IInv
  <2>2. ChannelOK(w)'
    BY <1>2, <1>7, <1>8, <2>1 DEF ChannelOK
  <2>3. OwnerOK(w)'
    BY <1>2, <1>4 DEF OwnerOK
  <2> QED
    BY <2>2, <2>3
<1> QED
  BY <1>2, <1>4, <1>5, <1>7, <1>10, <1>11, <1>12, <1>13, OwnFrame

\* The keys that answer the prompt; the answer reaches the worker that waits.
LEMMA AnswerStep ==
    ASSUME IInv, SubmitPassword \/ CancelPassword
    PROVE  IInv'
<1>1. TypeOK /\ ScreenOK /\ StatusIsTrue /\ CalibrationOK /\ PromptIsLive
  BY DEF IInv
<1>2. /\ modal.kind = "prompt" /\ modal' = NoModal /\ phase' = "calibration"
      /\ UNCHANGED <<screen, attached, verifier, status, prewarm, held, rate>>
  BY DEF SubmitPassword, CancelPassword, Key, calib
<1>3. PICK w \in Workers : w = attached
  BY <1>1, <1>2 DEF PromptIsLive, TypeOK
<1>4. /\ screen = "unlockProgress" /\ modal.worker = w /\ modal.attempt = job[w].attempt
      /\ job[w].kind = "unlock" /\ job[w].at = "asking" /\ ~job[w].token /\ ~cancelRequested
      /\ job[w].reply = "none"
  BY <1>1, <1>2, <1>3 DEF PromptIsLive
<1>5. job[w] \in Job
  BY <1>1 DEF TypeOK, Job, Queues
<1>6. job[w].queue = << >>
  BY <1>2, <1>4 DEF IInv, ChannelOK
<1>7. verifier = NoWorker /\ status = "idle"
  BY <1>1, <1>4 DEF ScreenOK, StatusIsTrue
<1>8. \E j \in Job : /\ job' = [job EXCEPT ![w] = j]
                     /\ j.at = "asking" /\ j.kind = "unlock" /\ j.queue = << >>
                     /\ j.reply # "none" /\ cancelRequested' = j.token
  <2>1. CASE SubmitPassword
    <3> DEFINE j == [job[w] EXCEPT !.reply = "ok"]
    <3>1. job' = [job EXCEPT ![w] = j]
      BY <1>1, <1>4, <2>1 DEF SubmitPassword, Reply, TypeOK
    <3>2. /\ j \in Job /\ j.at = "asking" /\ j.kind = "unlock" /\ j.queue = << >>
          /\ j.reply # "none" /\ j.token = job[w].token
      BY <1>4, <1>5, <1>6 DEF Job
    <3>3. cancelRequested' = job[w].token
      <4>1. cancelRequested' = cancelRequested
        BY <2>1 DEF SubmitPassword
      <4>2. cancelRequested \in BOOLEAN /\ job[w].token \in BOOLEAN
        BY <1>1, <1>5 DEF TypeOK, Job
      <4> QED
        BY <1>4, <4>1, <4>2
    <3> HIDE DEF j
    <3> QED
      BY <3>1, <3>2, <3>3
  <2>2. CASE CancelPassword
    <3> DEFINE j == [job[w] EXCEPT !.reply = "cancelled", !.token = TRUE]
    <3>1. cancelRequested' = TRUE /\ job' = [job EXCEPT ![w] = j]
      BY <1>1, <1>3, <1>4, <2>2 DEF CancelPassword, Reply, TypeOK
    <3>2. /\ j \in Job /\ j.at = "asking" /\ j.kind = "unlock" /\ j.queue = << >>
          /\ j.reply # "none" /\ j.token = TRUE
      BY <1>4, <1>5, <1>6 DEF Job
    <3> HIDE DEF j
    <3> QED
      BY <3>1, <3>2
  <2> QED
    BY <2>1, <2>2
<1>9. PICK j \in Job : /\ job' = [job EXCEPT ![w] = j]
                       /\ j.at = "asking" /\ j.kind = "unlock" /\ j.queue = << >>
                       /\ j.reply # "none" /\ cancelRequested' = j.token
  BY <1>8
<1>10. job'[w] = j /\ job' \in [Workers -> Job]
  BY <1>1, <1>9, JobTyped
<1>11. cancelRequested' \in BOOLEAN /\ modal' \in Modals /\ modal'.kind = "none"
  BY <1>2, <1>9, ModalKinds DEF Job
<1>12. TypeOK'
  BY <1>1, <1>2, <1>10, <1>11 DEF TypeOK, Job, Queues, Modals
<1>13. ScreenOK' /\ PromptIsLive' /\ CalibrationOK'
  BY <1>1, <1>2, <1>3, <1>4, <1>7, <1>9, <1>10, <1>11
     DEF ScreenOK, PromptIsLive, CalibrationOK, MeasuresAlone
<1>14. StatusIsTrue'
  BY <1>2, <1>3, <1>7, <1>9, <1>10 DEF StatusIsTrue
<1>15. ChannelOK(w)' /\ OwnerOK(w)'
  BY <1>2, <1>3, <1>9, <1>10 DEF ChannelOK, OwnerOK
<1> QED
  BY <1>3, <1>7, <1>9, <1>12, <1>13, <1>14, <1>15, OwnFrame

-------------------------------------------------------------------------------
(* The invariant, and what follows from it.                                  *)

\* A session begins with no worker, no dialog and no measurement.
LEMMA InvInit == Init => IInv
<1> SUFFICES ASSUME Init PROVE IInv
  OBVIOUS
<1>1. /\ modal \in Modals /\ modal.kind = "none" /\ screen \in Screens /\ screen \notin Progress
      /\ \A w \in Workers : job[w] = NoJob
  BY ModalKinds DEF Init, Screens, Progress
<1>2. job \in [Workers -> Job]
  BY NewJob DEF Init
<1>3. TypeOK
  <2>1. cancelRequested \in BOOLEAN /\ held \in BOOLEAN
    BY DEF Init
  <2>2. phase = "calibration" /\ status = "idle" /\ prewarm = "none" /\ rate = "unknown"
        /\ attached = NoWorker /\ verifier = NoWorker
    BY DEF Init
  <2> QED
    BY <1>1, <1>2, <2>1, <2>2 DEF TypeOK, Job, Queues, Modals
<1>4. \A w \in Workers : ChannelOK(w) /\ OwnerOK(w)
  BY <1>1, NewJob DEF ChannelOK, OwnerOK
<1>5. ScreenOK /\ StatusIsTrue /\ PromptIsLive /\ CalibrationOK
  BY <1>1 DEF Init, ScreenOK, StatusIsTrue, PromptIsLive, CalibrationOK, MeasuresAlone
<1> QED
  BY <1>3, <1>4, <1>5 DEF IInv

\* The invariant is inductive: the loop, the keys, the threads, the measurement.
LEMMA InvStep == IInv /\ [Next]_vars => IInv'
BY QuietStep, StartStep, StartVerifyStep, PollStep, PollVerifyStep, CancelStep, AnswerStep,
   WorkStep DEF Next, Loop, User

\* The inductive invariant holds in every reachable state of a session.
THEOREM Invariance == Spec => []IInv
BY InvInit, InvStep, PTL DEF Spec

\* Every variable keeps its type; no channel holds more than two messages.
THEOREM TypeCorrect == Spec => []TypeOK
<1>1. IInv => TypeOK
  BY DEF IInv
<1> QED
  BY <1>1, Invariance, PTL

\* A prompt on the screen always belongs to a worker that waits for exactly this
\* answer; nothing that is typed is lost.
THEOREM PromptsAreLive == Spec => []PromptIsLive
<1>1. IInv => PromptIsLive
  BY DEF IInv
<1> QED
  BY <1>1, Invariance, PTL

\* A worker that has not ended is the one the screen is about.
THEOREM NobodyDetached == Spec => []NoDetachedWorker
<1>1. ASSUME IInv PROVE NoDetachedWorker
  <2>1. ScreenOK /\ \A w \in Workers : OwnerOK(w)
    BY <1>1 DEF IInv
  <2>2. ASSUME NEW w \in Workers, job[w].at \in {"working", "asking"}
        PROVE  /\ w = IF job[w].kind = "verify" THEN verifier ELSE attached
               /\ screen = Showing[job[w].kind]
    <3>1. w = attached \/ w = verifier
      BY <2>1, <2>2 DEF OwnerOK, NoJob
    <3> QED
      BY <2>1, <3>1, SessionAssumption DEF ScreenOK, Showing
  <2> QED
    BY <2>1, <2>2 DEF NoDetachedWorker, ScreenOK
<1> QED
  BY <1>1, Invariance, PTL

\* The verification form and the progress screens say what their workers do.
THEOREM StatusTrue == Spec => []StatusIsTrue
<1>1. IInv => StatusIsTrue
  BY DEF IInv
<1> QED
  BY <1>1, Invariance, PTL

\* No two measurements of this machine at once.
THEOREM MeasuredAlone == Spec => []MeasuresAlone
<1>1. IInv => MeasuresAlone
  BY DEF IInv, CalibrationOK
<1> QED
  BY <1>1, Invariance, PTL

\* Hearing from a worker never takes a dialog away from the user.
THEOREM PollsKeepModal == Spec => PollKeepsModal
<1>1. IInv /\ [Next]_vars => [phase = "workers" /\ modal.kind # "none" => modal' = modal]_vars
  <2> SUFFICES ASSUME IInv, Next, phase = "workers", modal.kind # "none" PROVE modal' = modal
    BY DEF vars
  <2>1. CASE PollLock \/ PollUnlock
    <3>1. screen \in Progress
      BY <2>1 DEF PollLock, PollUnlock, Progress
    <3>2. job[attached].queue = << >>
      BY <3>1, Received
    <3> QED
      BY <2>1, <3>2 DEF PollLock, PollUnlock, ui
  <2>2. CASE PollVerify
    <3>1. status = "idle"
      BY DEF IInv, ScreenOK
    <3>2. verifier = NoWorker
      BY <3>1 DEF IInv, StatusIsTrue
    <3> QED
      BY <2>2, <3>2 DEF PollVerify
  <2>3. CASE PollNothing
    BY <2>3 DEF PollNothing, ui
  <2>4. CASE PrewarmEnds \/ \E w \in Workers : Work(w) \/ Panic(w)
    BY <2>4 DEF PrewarmEnds, Work, Panic, AskForPassword, ReceivePassword, GiveUpAsking, EndWork,
       ui
  <2>5. CASE ~(PollLock \/ PollUnlock \/ PollVerify \/ PollNothing) /\ (Loop \/ User)
    BY <2>5 DEF Loop, User, PollCalibration, Draw, NoKey, PrewarmArrives, Measured, Quit, Select,
       LeaveScreen, OpenBrowser, ShowNotice, CloseModal, EditUnlockInput, Inspect, StartLock,
       StartLockCalibrated, StartUnlock, StartVerify, RequestCancel, RequestVerifyCancel,
       SubmitPassword, CancelPassword, ScreenKey, Key
  <2> QED
    BY <2>1, <2>2, <2>3, <2>4, <2>5 DEF Next
<1> QED
  BY <1>1, Invariance, PTL DEF Spec, PollKeepsModal
===============================================================================
