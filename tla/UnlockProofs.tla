----------------------------- MODULE UnlockProofs -----------------------------
(***************************************************************************)
(* Theorems about Unlock for any number of runs, artifacts, chunks and     *)
(* suffixes.  TLC checks the same properties on MCUnlock's instances.      *)
(***************************************************************************)
EXTENDS Unlock, TLAPS

-------------------------------------------------------------------------------
(* The inductive invariant.                                                  *)

\* The chunks written so far are the first chunks of the right payload.
Genuine(r) == /\ key[r] = "right"
              /\ stream[r].body = head[r]
              /\ \/ stream[r].bad = 0
                 \/ stream[r].bad > written[r]

\* Once solved the puzzle stays solved, and a key is held from "payload" on.
KeyOK(r) == /\ pc[r] \in {"prompt", "payload", "decrypt", "deliver", "persist"} => mask[r]
            /\ pc[r] \in {"payload", "decrypt", "deliver", "persist"} => key[r] # "none"
            /\ key[r] # "none" => mask[r]

WrittenOK(r) == /\ pc[r] = "decrypt" => /\ written[r] < Chunks
                                       /\ (written[r] = 0 \/ Genuine(r))
                /\ (pc[r] \in {"deliver", "persist"} \/ result[r] = "ok") =>
                      (written[r] = Chunks /\ Genuine(r))

TempOK(r) == IF pc[r] = "done"
                THEN temp[r] = "none" \/ (result[r] = "crashed" /\ temp[r] = "orphan")
                ELSE temp[r] # "orphan"

ResultOK(r) == /\ pc[r] # "done" => result[r] = "none"
               /\ pc[r] = "done" => result[r] # "none"
               /\ result[r] = "auth" =>
                     /\ head[r] \in Protected => attempt[r] = MAX_PASSWORD_ATTEMPTS
                     /\ key[r] = "wrong" \/ stream[r].body # head[r] \/ stream[r].bad # 0

\* Past parsing a run has a superblock.
HeadOK(r) == pc[r] \notin {"start", "parse", "done"} => head[r] \in Artifacts

RunOK(r) == HeadOK(r) /\ KeyOK(r) /\ WrittenOK(r) /\ TempOK(r) /\ ResultOK(r)

FilesOK == \A p \in Paths : files[p].by \in Runs =>
              /\ result[files[p].by] = "ok"
              /\ files[p].chunks = Chunks
              /\ files[p].of = head[files[p].by]

IInv == TypeOK /\ (\A r \in Runs : RunOK(r)) /\ FilesOK

-------------------------------------------------------------------------------
(* The steps of a run, flattened: with whom the choice lies does not matter. *)

Act(r) == \/ Start(r) \/ Parse(r) \/ Resolve(r) \/ Open(r) \/ Solve(r)
          \/ UseCachedMask(r) \/ NoPassphrase(r) \/ Answer(r) \/ Dismiss(r)
          \/ ReadPayload(r) \/ DecryptChunk(r) \/ AuthenticationFails(r)
          \/ FrameIsMalformed(r) \/ DecryptSeesCancel(r) \/ DeliverText(r)
          \/ LastCheck(r) \/ Persist(r) \/ RequestCancel(r) \/ Crash(r)

Same(s) == /\ pc'[s] = pc[s] /\ token'[s] = token[s] /\ head'[s] = head[s]
           /\ target'[s] = target[s] /\ attempt'[s] = attempt[s] /\ mask'[s] = mask[s]
           /\ key'[s] = key[s] /\ stream'[s] = stream[s] /\ written'[s] = written[s]
           /\ temp'[s] = temp[s] /\ result'[s] = result[s]

\* Every step is a step of one run, of the owner of the input, or of another
\* program.
LEMMA StepCases ==
    ASSUME [Next]_vars
    PROVE  \/ \E r \in Runs : Act(r)
           \/ ReplaceInput
           \/ \E p \in Paths : OtherCreates(p)
           \/ UNCHANGED vars
BY DEF Next, Step, User, Act, PromptSeesCancel

\* A run touches only its own variables, and it acts only before it is done.
LEMMA Locality ==
    ASSUME TypeOK, NEW r \in Runs, Act(r)
    PROVE  pc[r] # "done" /\ (\A s \in Runs \ {r} : Same(s))
<1> USE DEF TypeOK, Goto, Finish, Same
<1>1. CASE Start(r)
  BY <1>1 DEF Start
<1>2. CASE Parse(r)
  BY <1>2 DEF Parse
<1>3. CASE Resolve(r)
  BY <1>3 DEF Resolve
<1>4. CASE Open(r)
  BY <1>4 DEF Open
<1>5. CASE Solve(r)
  BY <1>5 DEF Solve
<1>6. CASE UseCachedMask(r)
  BY <1>6 DEF UseCachedMask
<1>7. CASE NoPassphrase(r)
  BY <1>7 DEF NoPassphrase
<1>8. CASE Answer(r)
  BY <1>8 DEF Answer
<1>9. CASE Dismiss(r)
  BY <1>9 DEF Dismiss
<1>10. CASE ReadPayload(r)
  BY <1>10 DEF ReadPayload
<1>11. CASE DecryptChunk(r)
  BY <1>11 DEF DecryptChunk
<1>12. CASE AuthenticationFails(r)
  BY <1>12 DEF AuthenticationFails
<1>13. CASE FrameIsMalformed(r)
  BY <1>13 DEF FrameIsMalformed
<1>14. CASE DecryptSeesCancel(r)
  BY <1>14 DEF DecryptSeesCancel
<1>15. CASE DeliverText(r)
  BY <1>15 DEF DeliverText
<1>16. CASE LastCheck(r)
  BY <1>16 DEF LastCheck
<1>17. CASE Persist(r)
  BY <1>17 DEF Persist
<1>18. CASE RequestCancel(r)
  BY <1>18 DEF RequestCancel
<1>19. CASE Crash(r)
  BY <1>19 DEF Crash
<1> QED
  BY <1>1, <1>2, <1>3, <1>4, <1>5, <1>6, <1>7, <1>8, <1>9, <1>10, <1>11, <1>12, <1>13, <1>14,
     <1>15, <1>16, <1>17, <1>18, <1>19 DEF Act

-------------------------------------------------------------------------------
(* Type correctness needs one fact more: decryption has not run past the end. *)

Inside == \A r \in Runs : pc[r] = "decrypt" => written[r] < Chunks

\* A step of a run keeps the types, given that decryption stops at the last chunk.
LEMMA TypeOfAct ==
    ASSUME TypeOK, Inside, NEW r \in Runs, Act(r)
    PROVE  TypeOK'
<1> USE UnlockAssumption DEF TypeOK, PCs, Results, Goto, Finish
<1>1. CASE Start(r)
  BY <1>1 DEF Start
<1>2. CASE Parse(r)
  BY <1>2 DEF Parse, InputStates
<1>3. CASE Resolve(r)
  <2>1. target[r] \in Paths /\ (target[r] # MaxSuffix => target[r] + 1 \in Paths)
    <3>1. target[r] \in 0..MaxSuffix
      BY DEF Paths
    <3> QED
      BY <3>1 DEF Paths
  <2>2. target' \in [Runs -> Paths]
    BY <1>3, <2>1 DEF Resolve
  <2> QED
    BY <1>3, <2>2 DEF Resolve
<1>4. CASE Open(r)
  BY <1>4 DEF Open
<1>5. CASE Solve(r)
  <2>1. mask' \in [Runs -> BOOLEAN] /\ key' \in [Runs -> {"none", "right", "wrong"}]
    BY <1>5 DEF Solve
  <2>2. /\ pc' \in [Runs -> PCs] /\ result' \in [Runs -> Results]
        /\ temp' \in [Runs -> {"none", "live", "orphan"}]
    BY <1>5 DEF Solve
  <2> HIDE DEF PCs, Results, Goto, Finish
  <2> QED
    BY <1>5, <2>1, <2>2 DEF Solve
<1>6. CASE UseCachedMask(r)
  BY <1>6 DEF UseCachedMask
<1>7. CASE NoPassphrase(r)
  BY <1>7 DEF NoPassphrase
<1>8. CASE Answer(r)
  BY <1>8 DEF Answer
<1>9. CASE Dismiss(r)
  BY <1>9 DEF Dismiss
<1>10. CASE ReadPayload(r)
  <2>1. stream' \in [Runs -> Inputs] /\ written' \in [Runs -> 0..Chunks]
    <3>1. 0 \in 0..Chunks
      OBVIOUS
    <3>2. CASE stream' = [stream EXCEPT ![r] = input] /\ written' = [written EXCEPT ![r] = 0]
      BY <3>1, <3>2
    <3>3. CASE UNCHANGED <<stream, written>>
      BY <3>3
    <3> QED
      BY <1>10, <3>2, <3>3 DEF ReadPayload
  <2>2. pc' \in [Runs -> PCs] /\ temp' \in [Runs -> {"none", "live", "orphan"}]
                            /\ result' \in [Runs -> Results]
    BY <1>10 DEF ReadPayload
  <2> QED
    BY <1>10, <2>1, <2>2 DEF ReadPayload
<1>11. CASE DecryptChunk(r)
  <2>1. written[r] + 1 \in 0..Chunks
    BY <1>11 DEF DecryptChunk, Inside
  <2>2. written' \in [Runs -> 0..Chunks]
    BY <1>11, <2>1 DEF DecryptChunk
  <2> QED
    BY <1>11, <2>2 DEF DecryptChunk
<1>12. CASE AuthenticationFails(r)
  <2>1. MayRetry(r) => attempt[r] + 1 \in 1..MAX_PASSWORD_ATTEMPTS
    BY DEF MayRetry, MAX_PASSWORD_ATTEMPTS
  <2>2. attempt' \in [Runs -> 1..MAX_PASSWORD_ATTEMPTS]
    BY <1>12, <2>1 DEF AuthenticationFails
  <2> QED
    BY <1>12, <2>2 DEF AuthenticationFails
<1>13. CASE FrameIsMalformed(r)
  BY <1>13 DEF FrameIsMalformed
<1>14. CASE DecryptSeesCancel(r)
  BY <1>14 DEF DecryptSeesCancel
<1>15. CASE DeliverText(r)
  BY <1>15 DEF DeliverText
<1>16. CASE LastCheck(r)
  BY <1>16 DEF LastCheck
<1>17. CASE Persist(r)
  <2> DEFINE F == [by : Runs \cup {Nobody, Other}, of : Artifacts \cup {NoArtifact},
                   chunks : 0..Chunks]
             file == [by |-> r, of |-> head[r], chunks |-> written[r]]
  <2>1. file \in F
    OBVIOUS
  <2>2. files' = [files EXCEPT ![target[r]] = file] \/ files' = files
    BY <1>17 DEF Persist
  <2>3. files \in [Paths -> F] => files' \in [Paths -> F]
    <3> HIDE DEF F, file, TypeOK
    <3> QED
      BY <2>1, <2>2
  <2> QED
    BY <1>17, <2>3 DEF Persist
<1>18. CASE RequestCancel(r)
  BY <1>18 DEF RequestCancel
<1>19. CASE Crash(r)
  BY <1>19 DEF Crash
<1> QED
  BY <1>1, <1>2, <1>3, <1>4, <1>5, <1>6, <1>7, <1>8, <1>9, <1>10, <1>11, <1>12, <1>13, <1>14,
     <1>15, <1>16, <1>17, <1>18, <1>19 DEF Act

-------------------------------------------------------------------------------
(* What a run knows about itself is preserved by its own steps.              *)

\* Every conjunct about one run survives that run's own steps.
LEMMA OwnStep ==
    ASSUME TypeOK, NEW r \in Runs, RunOK(r), Act(r)
    PROVE  RunOK(r)'
<1> USE UnlockAssumption DEF TypeOK, RunOK, HeadOK, KeyOK, WrittenOK, TempOK, ResultOK, Genuine,
        Goto, Finish
<1>1. CASE Start(r)
  BY <1>1 DEF Start
<1>2. CASE Parse(r)
  BY <1>2 DEF Parse, InputStates
<1>3. CASE Resolve(r)
  BY <1>3 DEF Resolve
<1>4. CASE Open(r)
  BY <1>4 DEF Open
<1>5. CASE Solve(r)
  BY <1>5 DEF Solve
<1>6. CASE UseCachedMask(r)
  BY <1>6 DEF UseCachedMask
<1>7. CASE NoPassphrase(r)
  BY <1>7 DEF NoPassphrase
<1>8. CASE Answer(r)
  BY <1>8 DEF Answer
<1>9. CASE Dismiss(r)
  BY <1>9 DEF Dismiss
<1>10. CASE ReadPayload(r)
  BY <1>10 DEF ReadPayload
<1>11. CASE DecryptChunk(r)
  <2>1. stream[r].bad \in 0..Chunks
    BY DEF InputStates
  <2>2. /\ written'[r] = written[r] + 1 /\ written[r] \in 0..Chunks
        /\ key'[r] = key[r] /\ stream'[r] = stream[r] /\ head'[r] = head[r]
        /\ result'[r] = result[r] /\ pc[r] = "decrypt" /\ result[r] = "none"
        /\ key[r] = "right" /\ stream[r].body = head[r] /\ stream[r].bad # written[r] + 1
        /\ pc'[r] = IF written[r] + 1 = Chunks THEN "deliver" ELSE "decrypt"
    BY <1>11 DEF DecryptChunk, Authentic
  <2>3. stream[r].bad = 0 \/ stream[r].bad > written[r] + 1
    <3>1. \A b, w \in Nat : (b = 0 \/ b > w \/ w = 0) /\ b # w + 1 => (b = 0 \/ b > w + 1)
      OBVIOUS
    <3>2. stream[r].bad = 0 \/ stream[r].bad > written[r] \/ written[r] = 0
      BY <2>2
    <3>3. stream[r].bad \in Nat /\ written[r] \in Nat
      BY <2>1, <2>2
    <3> HIDE DEF TypeOK, RunOK
    <3> QED
      BY <3>1, <3>2, <3>3, <2>2
  <2>4. WrittenOK(r)'
    <3>1. written[r] + 1 = Chunks \/ written[r] + 1 < Chunks
      BY <2>2
    <3> HIDE DEF TypeOK, RunOK, HeadOK, KeyOK, TempOK, ResultOK, Goto, Finish
    <3>2. Genuine(r)'
      BY <2>2, <2>3
    <3> QED
      BY <2>2, <3>1, <3>2
  <2>5. HeadOK(r)' /\ KeyOK(r)' /\ TempOK(r)' /\ ResultOK(r)'
    BY <1>11, <2>2 DEF DecryptChunk
  <2> QED
    BY <2>4, <2>5
<1>12. CASE AuthenticationFails(r)
  BY <1>12 DEF AuthenticationFails, Authentic, MayRetry, MAX_PASSWORD_ATTEMPTS
<1>13. CASE FrameIsMalformed(r)
  BY <1>13 DEF FrameIsMalformed
<1>14. CASE DecryptSeesCancel(r)
  BY <1>14 DEF DecryptSeesCancel
<1>15. CASE DeliverText(r)
  BY <1>15 DEF DeliverText
<1>16. CASE LastCheck(r)
  BY <1>16 DEF LastCheck
<1>17. CASE Persist(r)
  BY <1>17 DEF Persist
<1>18. CASE RequestCancel(r)
  BY <1>18 DEF RequestCancel
<1>19. CASE Crash(r)
  BY <1>19 DEF Crash
<1> QED
  BY <1>1, <1>2, <1>3, <1>4, <1>5, <1>6, <1>7, <1>8, <1>9, <1>10, <1>11, <1>12, <1>13, <1>14,
     <1>15, <1>16, <1>17, <1>18, <1>19 DEF Act

-------------------------------------------------------------------------------
(* The invariant.                                                            *)

\* The invariant holds before any run has started.
LEMMA InvInit == Init => IInv
<1> SUFFICES ASSUME Init PROVE IInv
  OBVIOUS
<1>1. TypeOK
  BY UnlockAssumption DEF Init, TypeOK, PCs, Results, Paths, Absent, Foreign,
     MAX_PASSWORD_ATTEMPTS
<1>2. ASSUME NEW r \in Runs PROVE RunOK(r)
  BY <1>2 DEF Init, RunOK, HeadOK, KeyOK, WrittenOK, TempOK, ResultOK
<1>3. FilesOK
  BY UnlockAssumption DEF Init, FilesOK, Absent, Foreign
<1> QED
  BY <1>1, <1>2, <1>3 DEF IInv

\* Only the final rename of a run that returns "ok" changes the output paths.
LEMMA FilesOfAct ==
    ASSUME TypeOK, NEW r \in Runs, Act(r)
    PROVE  \/ files' = files
           \/ /\ Persist(r) /\ result'[r] = "ok" /\ pc[r] = "persist"
              /\ files' = [files EXCEPT ![target[r]] =
                              [by |-> r, of |-> head[r], chunks |-> written[r]]]
BY DEF Act, TypeOK, Goto, Finish, Start, Parse, Resolve, Open, Solve, UseCachedMask,
   NoPassphrase, Answer, Dismiss, ReadPayload, DecryptChunk, AuthenticationFails,
   FrameIsMalformed, DecryptSeesCancel, DeliverText, LastCheck, Persist, RequestCancel, Crash

\* A file some run has written belongs to a run that has returned, which no step
\* of another run disturbs.
LEMMA FilesStep ==
    ASSUME IInv, NEW r \in Runs, Act(r)
    PROVE  FilesOK'
<1>1. pc[r] # "done" /\ \A s \in Runs \ {r} : Same(s)
  BY Locality DEF IInv
<1>2. \A s \in Runs : result[s] = "ok" => s # r
  BY <1>1 DEF IInv, RunOK, ResultOK
<1>3. \A s \in Runs : result[s] = "ok" => result'[s] = "ok" /\ head'[s] = head[s]
  BY <1>1, <1>2 DEF Same
<1>4. CASE files' = files
  BY <1>3, <1>4 DEF IInv, FilesOK
<1>5. CASE /\ Persist(r) /\ result'[r] = "ok" /\ pc[r] = "persist"
           /\ files' = [files EXCEPT ![target[r]] =
                           [by |-> r, of |-> head[r], chunks |-> written[r]]]
  <2>1. head'[r] = head[r] /\ written[r] = Chunks
    BY <1>5 DEF Persist, IInv, RunOK, WrittenOK
  <2>2. ASSUME NEW p \in Paths, p # target[r], files'[p].by \in Runs
        PROVE  /\ result'[files'[p].by] = "ok"
               /\ files'[p].chunks = Chunks /\ files'[p].of = head'[files'[p].by]
    <3>1. files'[p] = files[p]
      BY <1>5, <2>2 DEF IInv, TypeOK
    <3> QED
      BY <2>2, <3>1, <1>3 DEF IInv, FilesOK
  <2>3. files'[target[r]] = [by |-> r, of |-> head[r], chunks |-> written[r]]
    BY <1>5 DEF IInv, TypeOK
  <2> QED
    BY <1>5, <2>1, <2>2, <2>3 DEF FilesOK
<1> QED
  BY <1>4, <1>5, FilesOfAct DEF IInv

\* The invariant is inductive: steps of a run, of the input's owner, of others.
LEMMA InvStep == IInv /\ [Next]_vars => IInv'
<1> SUFFICES ASSUME IInv, [Next]_vars PROVE IInv'
  OBVIOUS
<1>1. ASSUME NEW r \in Runs, Act(r) PROVE IInv'
  <2>1. TypeOK'
    BY <1>1, TypeOfAct DEF IInv, Inside, RunOK, WrittenOK
  <2>2. RunOK(r)'
    BY <1>1, OwnStep DEF IInv
  <2>3. ASSUME NEW s \in Runs, s # r PROVE RunOK(s)'
    <3>1. Same(s)
      BY <1>1, <2>3, Locality DEF IInv
    <3>2. RunOK(s)
      BY DEF IInv
    <3> QED
      BY <3>1, <3>2 DEF Same, RunOK, HeadOK, KeyOK, WrittenOK, TempOK, ResultOK, Genuine
  <2> QED
    BY <1>1, <2>1, <2>2, <2>3, FilesStep DEF IInv
<1>2. CASE ReplaceInput
  BY <1>2 DEF ReplaceInput, IInv, TypeOK, FilesOK, RunOK, HeadOK, KeyOK, WrittenOK, TempOK,
     ResultOK, Genuine
<1>3. ASSUME NEW p \in Paths, OtherCreates(p) PROVE IInv'
  <2>1. TypeOK'
    BY <1>3, UnlockAssumption DEF OtherCreates, IInv, TypeOK, Foreign
  <2>2. \A r \in Runs : RunOK(r)'
    BY <1>3 DEF OtherCreates, IInv, RunOK, HeadOK, KeyOK, WrittenOK, TempOK, ResultOK, Genuine
  <2>3. FilesOK'
    BY <1>3, UnlockAssumption DEF OtherCreates, IInv, TypeOK, FilesOK, Foreign
  <2> QED
    BY <2>1, <2>2, <2>3 DEF IInv
<1>4. CASE UNCHANGED vars
  BY <1>4 DEF vars, IInv, TypeOK, FilesOK, RunOK, HeadOK, KeyOK, WrittenOK, TempOK, ResultOK, Genuine
<1> QED
  BY <1>1, <1>2, <1>3, <1>4, StepCases

\* The inductive invariant holds in every reachable state; the rest follows.
THEOREM Invariance == Spec => []IInv
BY InvInit, InvStep, PTL DEF Spec

\* Every variable keeps its type; in particular no run ever asks a fourth time.
THEOREM TypeCorrect == Spec => []TypeOK
<1>1. IInv => TypeOK
  BY DEF IInv
<1> QED
  BY <1>1, Invariance, PTL

\* A run that succeeds has decrypted every chunk of the payload its superblock
\* vouches for, and every recovered file is such a payload, complete.
THEOREM OnlyAuthentic == Spec => []OnlyAuthenticPayloads
<1>1. IInv => OnlyAuthenticPayloads
  <2> SUFFICES ASSUME IInv PROVE OnlyAuthenticPayloads
    OBVIOUS
  <2>1. ASSUME NEW r \in Runs, result[r] = "ok"
        PROVE  /\ key[r] = "right" /\ written[r] = Chunks
               /\ stream[r].body = head[r] /\ stream[r].bad = 0
    <3>1. written[r] = Chunks /\ Genuine(r)
      BY <2>1 DEF IInv, RunOK, WrittenOK
    <3>2. stream[r].bad \in 0..Chunks
      BY UnlockAssumption DEF IInv, TypeOK, InputStates
    <3>3. \A b \in 0..Chunks : ~(b > Chunks)
      BY UnlockAssumption
    <3> QED
      BY <3>1, <3>2, <3>3 DEF Genuine
  <2>2. FilesOK
    BY DEF IInv
  <2> QED
    BY <2>1, <2>2 DEF OnlyAuthenticPayloads, FilesOK
<1> QED
  BY <1>1, Invariance, PTL

\* A run that does not succeed leaves no output, and no temporary file either
\* unless it is killed.
THEOREM LeavesNothingBehind == Spec => []NothingLeftBehind
<1>1. IInv => NothingLeftBehind
  BY DEF IInv, RunOK, TempOK, FilesOK, NothingLeftBehind
<1> QED
  BY <1>1, Invariance, PTL

\* No passphrase is asked for before the puzzle is solved, and no key is held.
THEOREM TimelockFirst == Spec => []PassphraseAfterTimelock
<1>1. IInv => PassphraseAfterTimelock
  BY DEF IInv, RunOK, KeyOK, PassphraseAfterTimelock
<1> QED
  BY <1>1, Invariance, PTL

\* An authentication error means a wrong key or payload and all attempts used.
THEOREM AuthErrorsJustified == Spec => []AuthErrorIsJustified
<1>1. IInv => AuthErrorIsJustified
  BY DEF IInv, RunOK, ResultOK, AuthErrorIsJustified
<1> QED
  BY <1>1, Invariance, PTL

-------------------------------------------------------------------------------
(* Cancellation.  Doomed is stable: a run cancelled in time either is still  *)
(* where it will look at its token, or has returned without success.         *)

Doomed(r) == \/ token[r] /\ Cancellable(r)
             \/ pc[r] = "done" /\ result[r] # "ok"

\* A run that is doomed stays so: no step of anyone takes it to success.
LEMMA DoomedStep ==
    ASSUME IInv, NEW r \in Runs, Doomed(r), [Next]_vars
    PROVE  Doomed(r)'
<1>1. ASSUME NEW s \in Runs, s # r, Act(s) PROVE Doomed(r)'
  BY <1>1, Locality DEF IInv, Same, Doomed, Cancellable
<1>2. ASSUME Act(r) PROVE Doomed(r)'
  BY <1>2 DEF IInv, TypeOK, PCs, Doomed, Cancellable, Goto, Finish, Act, Start, Parse,
     Resolve, Open, Solve, UseCachedMask, NoPassphrase, Answer, Dismiss, ReadPayload,
     DecryptChunk, AuthenticationFails, FrameIsMalformed, DecryptSeesCancel, DeliverText,
     LastCheck, Persist, RequestCancel, Crash
<1>3. CASE ReplaceInput
  BY <1>3 DEF ReplaceInput, Doomed, Cancellable
<1>4. ASSUME NEW p \in Paths, OtherCreates(p) PROVE Doomed(r)'
  BY <1>4 DEF OtherCreates, Doomed, Cancellable
<1>5. CASE UNCHANGED vars
  BY <1>5 DEF vars, Doomed, Cancellable
<1> QED
  BY <1>1, <1>2, <1>3, <1>4, <1>5, StepCases

\* A run cancelled in time never returns the recovered payload.
THEOREM CancelHonoured == Spec => CancelIsHonoured
<1>1. ASSUME NEW r \in Runs
      PROVE  Spec => [](token[r] /\ Cancellable(r) => [](result[r] # "ok"))
  <2>1. IInv /\ Doomed(r) /\ [Next]_vars => Doomed(r)'
    BY DoomedStep
  <2>2. token[r] /\ Cancellable(r) => Doomed(r)
    BY DEF Doomed
  <2>3. IInv /\ Doomed(r) => result[r] # "ok"
    BY DEF IInv, RunOK, ResultOK, Doomed, Cancellable
  <2> QED
    BY <2>1, <2>2, <2>3, Invariance, PTL DEF Spec
<1> QED
  BY <1>1 DEF CancelIsHonoured

-------------------------------------------------------------------------------
(* Unlock implements Delivery.                                               *)

\* Unlocking publishes one whole payload in one step, or nothing.
THEOREM UnlockDelivers == Spec => ImplementsDelivery
<1>1. Init => Promise!Init
  BY UnlockAssumption DEF Init, Promise!Init, Promise!Foreign, Absent, Foreign
<1>2. IInv /\ IInv' /\ [Next]_vars => [Promise!Next]_(Promise!vars)
  <2> SUFFICES ASSUME IInv, IInv', [Next]_vars PROVE [Promise!Next]_(Promise!vars)
    OBVIOUS
  <2> DEFINE Store == [p \in Paths |-> [by |-> files[p].by,
                         what |-> [of |-> files[p].of, chunks |-> files[p].chunks]]]
             Outcome == [r \in Runs |-> IF pc[r] # "done" THEN "pending"
                                        ELSE IF result[r] = "ok" THEN "delivered" ELSE "failed"]
  <2>1. ASSUME NEW r \in Runs, Act(r) PROVE [Promise!Next]_(Promise!vars)
    <3>1. pc[r] # "done" /\ \A s \in Runs \ {r} : Same(s)
      BY <2>1, Locality DEF IInv
    <3>2. Outcome[r] = "pending" /\ \A s \in Runs \ {r} : Outcome'[s] = Outcome[s]
      BY <3>1 DEF Same
    <3>3. Outcome'[r] \in {"pending", "delivered", "failed"}
      OBVIOUS
    <3>4. Outcome' = [Outcome EXCEPT ![r] = Outcome'[r]]
      <4>1. /\ Outcome \in [Runs -> {"pending", "delivered", "failed"}]
            /\ Outcome' \in [Runs -> {"pending", "delivered", "failed"}]
        OBVIOUS
      <4> HIDE DEF Outcome
      <4> QED
        BY <3>2, <4>1
    <3>5. CASE files' = files
      <4>1. Store' = Store
        BY <3>5
      <4>2. Outcome'[r] = "pending" => Outcome' = Outcome
        BY <3>2, <3>4
      <4> HIDE DEF Store, Outcome
      <4>3. \/ Outcome' = Outcome
            \/ Outcome' = [Outcome EXCEPT ![r] = "delivered"]
            \/ Outcome' = [Outcome EXCEPT ![r] = "failed"]
        BY <3>3, <3>4, <4>2
      <4> QED
        BY <3>2, <4>1, <4>3 DEF Promise!Next, Promise!Show, Promise!Fail, Promise!vars,
           Store, Outcome
    <3>6. CASE /\ Persist(r) /\ result'[r] = "ok" /\ pc[r] = "persist"
               /\ files' = [files EXCEPT ![target[r]] =
                               [by |-> r, of |-> head[r], chunks |-> written[r]]]
      <4> DEFINE payload == [of |-> head[r], chunks |-> written[r]]
      <4>1. target[r] \in Paths /\ payload \in [of : Artifacts, chunks : {Chunks}]
        BY <3>6 DEF IInv, TypeOK, RunOK, HeadOK, WrittenOK
      <4>2. Outcome'[r] = "delivered"
        BY <3>6 DEF Persist, Goto, Finish, IInv, TypeOK, RunOK, ResultOK
      <4>3. Store' = [Store EXCEPT ![target[r]] = [by |-> r, what |-> payload]]
        BY <3>6, <4>1 DEF IInv, TypeOK
      <4> HIDE DEF payload, Store, Outcome
      <4>4. \E p \in Paths, x \in [of : Artifacts, chunks : {Chunks}] :
               /\ Outcome[r] = "pending"
               /\ Outcome' = [Outcome EXCEPT ![r] = "delivered"]
               /\ Store' = [Store EXCEPT ![p] = [by |-> r, what |-> x]]
        BY <3>2, <3>4, <4>1, <4>2, <4>3
      <4> QED
        BY <4>4 DEF Promise!Next, Promise!Publish, Store, Outcome
    <3> QED
      BY <2>1, <3>5, <3>6, FilesOfAct DEF IInv
  <2>2. CASE ReplaceInput
    BY <2>2 DEF ReplaceInput, Promise!vars
  <2>3. ASSUME NEW p \in Paths, OtherCreates(p) PROVE [Promise!Next]_(Promise!vars)
    <3>1. Store[p].by = Nobody /\ Outcome' = Outcome
      BY <2>3 DEF OtherCreates
    <3>2. Store' = [Store EXCEPT ![p] = [by |-> Other,
                       what |-> [of |-> NoArtifact, chunks |-> 0]]]
      BY <2>3 DEF OtherCreates, Foreign, IInv, TypeOK
    <3> QED
      BY <3>1, <3>2 DEF Promise!Next, Promise!Interfere
  <2>4. CASE UNCHANGED vars
    BY <2>4 DEF vars, Promise!vars
  <2> QED
    BY <2>1, <2>2, <2>3, <2>4, StepCases
<1> QED
  BY <1>1, <1>2, Invariance, PTL DEF Spec, ImplementsDelivery, Promise!Spec
===============================================================================
