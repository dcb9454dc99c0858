------------------------------ MODULE LockProofs ------------------------------
(***************************************************************************)
(* Theorems about Lock for any number of runs, paths, versions of the      *)
(* source and chunks.  TLC checks the same properties on MCLock.           *)
(***************************************************************************)
EXTENDS Lock, TLAPS

-------------------------------------------------------------------------------
(* Payloads on their way.                                                    *)

\* A partial payload is a sequence of at most Chunks chunks.
LEMMA PartialIsSeq ==
    ASSUME NEW s
    PROVE  s \in Partial <=> s \in Seq(Bytes) /\ Len(s) \in 0..Chunks
<1>1. ASSUME s \in Partial PROVE s \in Seq(Bytes) /\ Len(s) \in 0..Chunks
  <2>1. PICK n \in 0..Chunks : s \in [1..n -> Bytes]
    BY <1>1 DEF Partial
  <2>2. s \in Seq(Bytes) /\ Len(s) = n
    BY <2>1, LockAssumption
  <2> QED
    BY <2>2
<1>2. ASSUME s \in Seq(Bytes), Len(s) \in 0..Chunks PROVE s \in Partial
  <2>1. s \in [1..Len(s) -> Bytes]
    BY <1>2
  <2> QED
    BY <1>2, <2>1 DEF Partial
<1> QED
  BY <1>1, <1>2

\* Nothing is a partial payload.
LEMMA PartialEmpty == << >> \in Partial
<1>1. << >> \in [1..0 -> Bytes]
  OBVIOUS
<1>2. 0 \in 0..Chunks
  BY LockAssumption
<1> QED
  BY <1>1, <1>2 DEF Partial

\* One more chunk, behind those that are there.
LEMMA PartialAppend ==
    ASSUME NEW s \in Partial, Len(s) < Chunks, NEW b \in Bytes
    PROVE  /\ Append(s, b) \in Partial
           /\ Len(Append(s, b)) = Len(s) + 1
           /\ \A i \in 1..Len(s) : Append(s, b)[i] = s[i]
           /\ Append(s, b)[Len(s) + 1] = b
<1>1. s \in Seq(Bytes) /\ Len(s) \in Nat
  BY PartialIsSeq, LockAssumption
<1>2. /\ Append(s, b) \in Seq(Bytes) /\ Len(Append(s, b)) = Len(s) + 1
      /\ \A i \in 1..Len(s) : Append(s, b)[i] = s[i]
      /\ Append(s, b)[Len(s) + 1] = b
  BY <1>1
<1>3. Len(s) + 1 \in 0..Chunks
  BY <1>1, LockAssumption
<1> QED
  BY <1>2, <1>3, PartialIsSeq

\* The chunks of a partial payload are bytes.
LEMMA PartialChunk ==
    ASSUME NEW s \in Partial, NEW i \in 1..Len(s)
    PROVE  s[i] \in Bytes
BY PartialIsSeq

\* Two of one length with the same chunks are one.
LEMMA PartialEqual ==
    ASSUME NEW s \in Partial, NEW t \in Partial, Len(s) = Len(t),
           \A i \in 1..Len(s) : s[i] = t[i]
    PROVE  s = t
BY PartialIsSeq

\* A partial payload of Chunks chunks is a payload.
LEMMA PartialWhole ==
    ASSUME NEW s \in Partial, Len(s) = Chunks
    PROVE  s \in Payloads
<1>1. s \in Seq(Bytes)
  BY PartialIsSeq
<1> QED
  BY <1>1 DEF Payloads

-------------------------------------------------------------------------------
(* The inductive invariant.                                                  *)

\* Staging is over once the difficulty is resolved.
StagedOK(r) ==
    pc[r] \in {"difficulty", "puzzle", "encrypt", "write", "persist", "verify"} =>
        Len(staged[r]) = Chunks

\* What is encrypted is the staged copy, from its first chunk on.
StreamOK(r) ==
    /\ pc[r] \in {"start", "resolve", "check", "stage", "copy", "difficulty", "puzzle"} =>
          stream[r] = << >>
    /\ pc[r] = "encrypt" => /\ Len(stream[r]) < Chunks
                            /\ \A i \in 1..Len(stream[r]) : stream[r][i] = staged[r][i]
    /\ pc[r] \in {"write", "persist"} => stream[r] = staged[r]

\* A run has returned when it is done; only a killed one has temporary files then.
ResultOK(r) ==
    /\ pc[r] = "done" <=> result[r] # "none"
    /\ pc[r] = "verify" \/ result[r] \in {"unverified", "killed verifying"} => r \in Verify
    /\ result[r] \in {"ok", "unverified", "cancelled", "error"} => temps[r] = {}

RunOK(r) == StagedOK(r) /\ StreamOK(r) /\ ResultOK(r)

\* The rename is behind the run.
Published(r) == pc[r] = "verify" \/ result[r] \in Succeeded

FilesOK == \A p \in Paths : files[p].by \in Runs =>
              /\ Published(files[p].by)
              /\ files[p].what = staged[files[p].by]
              /\ Len(files[p].what) = Chunks

IInv == TypeOK /\ (\A r \in Runs : RunOK(r)) /\ FilesOK

-------------------------------------------------------------------------------
(* The steps.                                                                *)

Act(r) == Step(r) \/ Around(r)

Same(s) == /\ pc'[s] = pc[s] /\ token'[s] = token[s] /\ kind'[s] = kind[s]
           /\ staged'[s] = staged[s] /\ stream'[s] = stream[s]
           /\ temps'[s] = temps[s] /\ result'[s] = result[s]

\* Copying from a file, a text or stdin appends a chunk of bytes.
LEMMA CopyCases ==
    ASSUME TypeOK, NEW r \in Runs, CopyFile(r) \/ CopyText(r) \/ CopyStdin(r)
    PROVE  \E b \in Bytes : CopyChunk(r, b)
<1>1. CASE CopyText(r) \/ CopyStdin(r)
  BY <1>1 DEF CopyText, CopyStdin, Bytes
<1>2. CASE CopyFile(r)
  <2>1. CASE source # NoFile /\ CopyChunk(r, source)
    BY <2>1 DEF TypeOK, Bytes
  <2>2. CASE staged[r] # << >> /\ CopyChunk(r, staged[r][Len(staged[r])])
    <3>1. staged[r] \in Partial
      BY DEF TypeOK
    <3>2. staged[r] \in Seq(Bytes)
      BY <3>1, PartialIsSeq
    <3>3. Len(staged[r]) \in 1..Len(staged[r])
      BY <2>2, <3>2
    <3>4. staged[r][Len(staged[r])] \in Bytes
      BY <3>1, <3>3, PartialChunk
    <3> QED
      BY <2>2, <3>4
  <2> QED
    BY <1>2, <2>1, <2>2 DEF CopyFile
<1> QED
  BY <1>1, <1>2

Copy(r) == CopyFile(r) \/ CopyText(r) \/ CopyStdin(r)

\* Every step is a step of one run, an edit of the source or of another program.
LEMMA StepCases ==
    ASSUME [Next]_vars
    PROVE  \/ \E r \in Runs : Act(r)
           \/ EditSource
           \/ \E p \in Paths : OtherCreates(p)
           \/ UNCHANGED vars
BY DEF Next, Act

\* A run touches only its own variables, and it acts only before it is done.
LEMMA Locality ==
    ASSUME TypeOK, NEW r \in Runs, Act(r)
    PROVE  pc[r] # "done" /\ (\A s \in Runs \ {r} : Same(s))
<1> USE DEF TypeOK, Goto, Finish, UnlessCancelled, Same
<1>1. CASE Start(r)
  BY <1>1 DEF Start
<1>2. CASE ResolveSource(r)
  BY <1>2 DEF ResolveSource
<1>3. CASE CheckOutput(r)
  BY <1>3 DEF CheckOutput
<1>4. CASE Stage(r)
  BY <1>4 DEF Stage
<1>5. CASE Copy(r)
  <2>1. PICK b \in Bytes : CopyChunk(r, b)
    BY <1>5, CopyCases DEF Copy
  <2> QED
    BY <2>1 DEF CopyChunk
<1>6. CASE SourceIsGone(r)
  BY <1>6 DEF SourceIsGone
<1>7. CASE Staged(r)
  BY <1>7 DEF Staged
<1>8. CASE ResolveDifficulty(r)
  BY <1>8 DEF ResolveDifficulty
<1>9. CASE CreatePuzzle(r)
  BY <1>9 DEF CreatePuzzle
<1>10. CASE EncryptChunk(r)
  BY <1>10 DEF EncryptChunk
<1>11. CASE EncryptSeesCancel(r)
  BY <1>11 DEF EncryptSeesCancel
<1>12. CASE WriteArtifact(r)
  BY <1>12 DEF WriteArtifact
<1>13. CASE Persist(r)
  BY <1>13 DEF Persist
<1>14. CASE VerifyOutput(r)
  BY <1>14 DEF VerifyOutput
<1>15. CASE Fails(r)
  BY <1>15 DEF Fails
<1>16. CASE RequestCancel(r)
  BY <1>16 DEF RequestCancel
<1>17. CASE Crash(r)
  BY <1>17 DEF Crash
<1> QED
  BY <1>1, <1>2, <1>3, <1>4, <1>5, <1>6, <1>7, <1>8, <1>9, <1>10, <1>11, <1>12, <1>13, <1>14,
     <1>15, <1>16, <1>17 DEF Act, Step, Around, Copy

-------------------------------------------------------------------------------
(* What a run knows about itself is preserved by its own steps.              *)

\* What one turn of the encryption adds is the next chunk of the staged copy.
LEMMA EncryptNext ==
    ASSUME TypeOK, NEW r \in Runs, RunOK(r), EncryptChunk(r)
    PROVE  /\ stream'[r] \in Partial
           /\ Len(stream'[r]) = Len(stream[r]) + 1
           /\ \A i \in 1..Len(stream'[r]) : stream'[r][i] = staged[r][i]
<1>1. pc[r] = "encrypt" /\ stream[r] \in Partial /\ staged[r] \in Partial
  BY DEF EncryptChunk, TypeOK
<1>2. /\ Len(stream[r]) < Chunks /\ Len(staged[r]) = Chunks
      /\ \A i \in 1..Len(stream[r]) : stream[r][i] = staged[r][i]
  BY <1>1 DEF RunOK, StreamOK, StagedOK
<1>3. Len(stream[r]) \in Nat /\ Chunks \in Nat
  BY <1>1, PartialIsSeq, LockAssumption
<1>4. stream'[r] = Append(stream[r], staged[r][Len(stream[r]) + 1])
  BY DEF EncryptChunk, TypeOK
<1>5. staged[r][Len(stream[r]) + 1] \in Bytes
  <2>1. Len(stream[r]) + 1 \in 1..Len(staged[r])
    BY <1>2, <1>3
  <2> QED
    BY <1>1, <2>1, PartialChunk
<1>6. /\ stream'[r] \in Partial
      /\ Len(stream'[r]) = Len(stream[r]) + 1
      /\ \A i \in 1..Len(stream[r]) : stream'[r][i] = stream[r][i]
      /\ stream'[r][Len(stream[r]) + 1] = staged[r][Len(stream[r]) + 1]
  BY <1>1, <1>2, <1>4, <1>5, PartialAppend
<1> QED
  BY <1>2, <1>3, <1>6

\* A step of a run keeps the types, given what it knows about itself.
LEMMA TypeOfAct ==
    ASSUME TypeOK, NEW r \in Runs, RunOK(r), Act(r)
    PROVE  TypeOK'
<1> USE LockAssumption DEF TypeOK, PCs, Results, Goto, Finish, UnlessCancelled
<1>1. CASE Start(r)
  BY <1>1 DEF Start
<1>2. CASE ResolveSource(r)
  BY <1>2 DEF ResolveSource
<1>3. CASE CheckOutput(r)
  BY <1>3 DEF CheckOutput
<1>4. CASE Stage(r)
  <2>1. temps' \in [Runs -> SUBSET {"staging", "artifact"}]
    <3>1. temps[r] \cup {"staging"} \in SUBSET {"staging", "artifact"}
      OBVIOUS
    <3>2. \/ temps' = [temps EXCEPT ![r] = temps[r] \cup {"staging"}]
          \/ temps' = [temps EXCEPT ![r] = {}]
      BY <1>4 DEF Stage
    <3>3. temps \in [Runs -> SUBSET {"staging", "artifact"}]
      OBVIOUS
    <3> HIDE DEF TypeOK, PCs, Results, Goto, Finish, UnlessCancelled
    <3> QED
      BY <3>1, <3>2, <3>3
  <2>2. pc' \in [Runs -> PCs] /\ result' \in [Runs -> Results]
    BY <1>4 DEF Stage
  <2> QED
    BY <1>4, <2>1, <2>2 DEF Stage
<1>5. CASE Copy(r)
  <2>1. PICK b \in Bytes : CopyChunk(r, b)
    BY <1>5, CopyCases DEF Copy
  <2>2. Append(staged[r], b) \in Partial
    BY <2>1, PartialAppend DEF CopyChunk
  <2> QED
    BY <2>1, <2>2 DEF CopyChunk
<1>6. CASE SourceIsGone(r)
  BY <1>6 DEF SourceIsGone
<1>7. CASE Staged(r)
  BY <1>7 DEF Staged
<1>8. CASE ResolveDifficulty(r)
  BY <1>8 DEF ResolveDifficulty
<1>9. CASE CreatePuzzle(r)
  BY <1>9 DEF CreatePuzzle
<1>10. CASE EncryptChunk(r)
  <2>1. stream'[r] \in Partial
    BY <1>10, EncryptNext
  <2> QED
    BY <1>10, <2>1 DEF EncryptChunk
<1>11. CASE EncryptSeesCancel(r)
  BY <1>11 DEF EncryptSeesCancel
<1>12. CASE WriteArtifact(r)
  BY <1>12 DEF WriteArtifact
<1>13. CASE Persist(r)
  <2>1. files' \in [Paths -> [by : Runs \cup {Nobody, Other}, what : Partial]]
    BY <1>13 DEF Persist
  <2>2. temps' \in [Runs -> SUBSET {"staging", "artifact"}]
    <3>1. temps[r] \ {"artifact"} \in SUBSET {"staging", "artifact"}
      OBVIOUS
    <3>2. \/ temps' = [temps EXCEPT ![r] = temps[r] \ {"artifact"}]
          \/ temps' = [temps EXCEPT ![r] = {}]
      BY <1>13 DEF Persist
    <3>3. temps \in [Runs -> SUBSET {"staging", "artifact"}]
      OBVIOUS
    <3> HIDE DEF TypeOK, PCs, Results, Goto, Finish, UnlessCancelled
    <3> QED
      BY <3>1, <3>2, <3>3
  <2>3. pc' \in [Runs -> PCs] /\ result' \in [Runs -> Results]
    BY <1>13 DEF Persist
  <2> QED
    BY <1>13, <2>1, <2>2, <2>3 DEF Persist
<1>14. CASE VerifyOutput(r)
  BY <1>14 DEF VerifyOutput
<1>15. CASE Fails(r)
  BY <1>15 DEF Fails
<1>16. CASE RequestCancel(r)
  BY <1>16 DEF RequestCancel
<1>17. CASE Crash(r)
  BY <1>17 DEF Crash
<1> QED
  BY <1>1, <1>2, <1>3, <1>4, <1>5, <1>6, <1>7, <1>8, <1>9, <1>10, <1>11, <1>12, <1>13, <1>14,
     <1>15, <1>16, <1>17 DEF Act, Step, Around, Copy

\* Every conjunct about one run survives that run's own steps.
LEMMA OwnStep ==
    ASSUME TypeOK, NEW r \in Runs, RunOK(r), Act(r)
    PROVE  RunOK(r)'
<1> USE LockAssumption DEF TypeOK, RunOK, StagedOK, StreamOK, ResultOK, Goto, Finish,
                           UnlessCancelled
<1>1. CASE Start(r)
  <2>1. /\ pc[r] = "start" /\ staged'[r] = staged[r] /\ stream'[r] = stream[r]
        /\ \/ pc'[r] = "done" /\ result'[r] = "cancelled" /\ temps'[r] = {}
           \/ pc'[r] = "resolve" /\ result'[r] = result[r] /\ temps'[r] = temps[r]
    BY <1>1 DEF Start
  <2> HIDE DEF TypeOK
  <2> QED
    BY <2>1
<1>2. CASE ResolveSource(r)
  <2>1. /\ pc[r] = "resolve" /\ staged'[r] = staged[r] /\ stream'[r] = stream[r]
        /\ \/ pc'[r] = "done" /\ result'[r] = "error" /\ temps'[r] = {}
           \/ pc'[r] = "check" /\ result'[r] = result[r] /\ temps'[r] = temps[r]
    BY <1>2 DEF ResolveSource
  <2> HIDE DEF TypeOK
  <2> QED
    BY <2>1
<1>3. CASE CheckOutput(r)
  <2>1. /\ pc[r] = "check" /\ staged'[r] = staged[r] /\ stream'[r] = stream[r]
        /\ \/ pc'[r] = "done" /\ result'[r] = "error" /\ temps'[r] = {}
           \/ pc'[r] = "stage" /\ result'[r] = result[r] /\ temps'[r] = temps[r]
    BY <1>3 DEF CheckOutput
  <2> HIDE DEF TypeOK
  <2> QED
    BY <2>1
<1>4. CASE Stage(r)
  <2>1. /\ pc[r] = "stage" /\ staged'[r] = staged[r] /\ stream'[r] = stream[r]
        /\ \/ pc'[r] = "done" /\ result'[r] = "cancelled" /\ temps'[r] = {}
           \/ pc'[r] = "copy" /\ result'[r] = result[r]
    BY <1>4 DEF Stage
  <2> HIDE DEF TypeOK
  <2> QED
    BY <2>1
<1>5. CASE Copy(r)
  <2>1. PICK b \in Bytes : CopyChunk(r, b)
    BY <1>5, CopyCases DEF Copy
  <2> QED
    BY <2>1 DEF CopyChunk
<1>6. CASE SourceIsGone(r)
  BY <1>6 DEF SourceIsGone
<1>7. CASE Staged(r)
  <2>1. /\ pc[r] = "copy" /\ staged'[r] = staged[r] /\ stream'[r] = stream[r]
        /\ \/ pc'[r] = "done" /\ result'[r] = "cancelled" /\ temps'[r] = {}
           \/ pc'[r] = "difficulty" /\ result'[r] = result[r] /\ temps'[r] = temps[r]
    BY <1>7 DEF Staged
  <2> HIDE DEF TypeOK
  <2> QED
    BY <2>1, <1>7 DEF Staged
<1>8. CASE ResolveDifficulty(r)
  <2>1. /\ pc[r] = "difficulty" /\ staged'[r] = staged[r] /\ stream'[r] = stream[r]
        /\ \/ pc'[r] = "done" /\ result'[r] = "cancelled" /\ temps'[r] = {}
           \/ pc'[r] = "puzzle" /\ result'[r] = result[r] /\ temps'[r] = temps[r]
    BY <1>8 DEF ResolveDifficulty
  <2> HIDE DEF TypeOK
  <2> QED
    BY <2>1
<1>9. CASE CreatePuzzle(r)
  <2>1. /\ pc[r] = "puzzle" /\ pc'[r] = "encrypt" /\ stream'[r] = << >>
        /\ staged'[r] = staged[r] /\ Len(staged[r]) = Chunks /\ result'[r] = result[r]
    BY <1>9 DEF CreatePuzzle
  <2>2. Len(<< >>) = 0
    OBVIOUS
  <2>3. StreamOK(r)'
    BY <2>1, <2>2
  <2> QED
    BY <2>1, <2>3
<1>10. CASE EncryptChunk(r)
  <2>1. /\ pc[r] = "encrypt" /\ staged' = staged /\ result' = result /\ temps' = temps
        /\ pc'[r] = IF Len(stream'[r]) = Chunks THEN "write" ELSE "encrypt"
        /\ Len(staged[r]) = Chunks /\ Len(stream[r]) < Chunks /\ result[r] = "none"
    BY <1>10 DEF EncryptChunk
  <2>2. /\ stream'[r] \in Partial /\ staged[r] \in Partial
        /\ Len(stream'[r]) = Len(stream[r]) + 1
        /\ \A i \in 1..Len(stream'[r]) : stream'[r][i] = staged[r][i]
    BY <1>10, EncryptNext
  <2>3. Len(stream'[r]) = Chunks \/ Len(stream'[r]) < Chunks
    <3>1. Len(stream'[r]) \in 0..Chunks
      BY <2>2, PartialIsSeq
    <3> HIDE DEF TypeOK, RunOK, StagedOK, StreamOK, ResultOK
    <3> QED
      BY <3>1
  <2>4. Len(stream'[r]) = Chunks => stream'[r] = staged[r]
    BY <2>1, <2>2, PartialEqual
  <2> QED
    BY <2>1, <2>2, <2>3, <2>4
<1>11. CASE EncryptSeesCancel(r)
  BY <1>11 DEF EncryptSeesCancel
<1>12. CASE WriteArtifact(r)
  BY <1>12 DEF WriteArtifact
<1>13. CASE Persist(r)
  <2>1. /\ pc[r] = "persist" /\ staged'[r] = staged[r] /\ stream'[r] = stream[r]
        /\ \/ r \in Verify /\ pc'[r] = "verify" /\ result'[r] = result[r]
           \/ pc'[r] = "done" /\ result'[r] = "ok" /\ temps'[r] = {}
    BY <1>13 DEF Persist
  <2> HIDE DEF TypeOK
  <2> QED
    BY <2>1
<1>14. CASE VerifyOutput(r)
  BY <1>14 DEF VerifyOutput
<1>15. CASE Fails(r)
  BY <1>15 DEF Fails
<1>16. CASE RequestCancel(r)
  BY <1>16 DEF RequestCancel
<1>17. CASE Crash(r)
  BY <1>17 DEF Crash
<1> QED
  BY <1>1, <1>2, <1>3, <1>4, <1>5, <1>6, <1>7, <1>8, <1>9, <1>10, <1>11, <1>12, <1>13, <1>14,
     <1>15, <1>16, <1>17 DEF Act, Step, Around, Copy

-------------------------------------------------------------------------------
(* The invariant.                                                            *)

\* The invariant holds before any run has started.
LEMMA InvInit == Init => IInv
<1> SUFFICES ASSUME Init PROVE IInv
  OBVIOUS
<1>1. TypeOK
  <2>1. files \in [Paths -> [by : Runs \cup {Nobody, Other}, what : Partial]]
    BY PartialEmpty DEF Init, Absent, Foreign
  <2> QED
    BY PartialEmpty, <2>1 DEF Init, TypeOK, PCs, Results
<1>2. ASSUME NEW r \in Runs PROVE RunOK(r)
  BY <1>2 DEF Init, RunOK, StagedOK, StreamOK, ResultOK
<1>3. FilesOK
  BY LockAssumption DEF Init, FilesOK, Absent, Foreign
<1> QED
  BY <1>1, <1>2, <1>3 DEF IInv

\* Only the final rename changes the output paths, and it publishes.
LEMMA FilesOfAct ==
    ASSUME TypeOK, NEW r \in Runs, Act(r)
    PROVE  \/ files' = files
           \/ /\ Persist(r) /\ pc[r] = "persist"
              /\ files' = [files EXCEPT ![Output[r]] = [by |-> r, what |-> stream[r]]]
<1>1. CASE Copy(r)
  <2>1. PICK b \in Bytes : CopyChunk(r, b)
    BY <1>1, CopyCases DEF Copy
  <2> QED
    BY <2>1 DEF CopyChunk
<1>2. CASE ~Copy(r)
  BY <1>2 DEF Act, Step, Around, Copy, Start, ResolveSource, CheckOutput, Stage, SourceIsGone,
     Staged, ResolveDifficulty, CreatePuzzle, EncryptChunk, EncryptSeesCancel, WriteArtifact,
     Persist, VerifyOutput, Fails, RequestCancel, Crash
<1> QED
  BY <1>1, <1>2

\* A run that has published stays published and keeps its staged copy; one that
\* has not does so by its rename only.
LEMMA PublishedOfAct ==
    ASSUME TypeOK, NEW r \in Runs, RunOK(r), Act(r)
    PROVE  /\ Published(r) => pc[r] = "verify" /\ Published(r)' /\ staged'[r] = staged[r]
           /\ Persist(r) => Published(r)' /\ staged'[r] = staged[r]
           /\ Published(r)' => Published(r) \/ Persist(r)
<1>1. pc[r] # "done" /\ result[r] = "none"
  BY Locality DEF RunOK, ResultOK
<1>2. Published(r) <=> pc[r] = "verify"
  BY <1>1 DEF Published, Succeeded
<1>3. CASE Persist(r)
  BY <1>2, <1>3 DEF Persist, Published, Succeeded, TypeOK, Goto, Finish
<1>4. CASE VerifyOutput(r) \/ RequestCancel(r) \/ Crash(r)
  BY <1>1, <1>2, <1>4 DEF VerifyOutput, RequestCancel, Crash, Persist, Published, Succeeded,
     TypeOK, Goto, Finish
<1>5. CASE Copy(r)
  <2>1. PICK b \in Bytes : CopyChunk(r, b)
    BY <1>5, CopyCases DEF Copy
  <2> QED
    BY <1>1, <1>2, <2>1 DEF CopyChunk, Published, Persist
<1>6. CASE /\ ~Copy(r) /\ ~Persist(r)
           /\ ~(VerifyOutput(r) \/ RequestCancel(r) \/ Crash(r))
  BY <1>1, <1>2, <1>6 DEF Act, Step, Around, Copy, Start, ResolveSource, CheckOutput, Stage,
     SourceIsGone, Staged, ResolveDifficulty, CreatePuzzle, EncryptChunk, EncryptSeesCancel,
     WriteArtifact, Fails, Published, Succeeded, TypeOK, Goto, Finish, UnlessCancelled
<1> QED
  BY <1>3, <1>4, <1>5, <1>6

\* A file some run has written holds that run's staged copy, which no step
\* changes any more.
LEMMA FilesStep ==
    ASSUME IInv, NEW r \in Runs, Act(r)
    PROVE  FilesOK'
<1>1. TypeOK /\ RunOK(r) /\ FilesOK
  BY DEF IInv
<1>2. pc[r] # "done" /\ \A s \in Runs \ {r} : Same(s)
  BY <1>1, Locality
<1>3. \A s \in Runs : Published(s) => Published(s)' /\ staged'[s] = staged[s]
  BY <1>1, <1>2, PublishedOfAct DEF Same, Published
<1>4. CASE files' = files
  BY <1>1, <1>3, <1>4 DEF FilesOK
<1>5. CASE /\ Persist(r) /\ pc[r] = "persist"
           /\ files' = [files EXCEPT ![Output[r]] = [by |-> r, what |-> stream[r]]]
  <2>1. stream[r] = staged[r] /\ Len(staged[r]) = Chunks
    BY <1>1, <1>5 DEF RunOK, StagedOK, StreamOK
  <2>2. Published(r)' /\ staged'[r] = staged[r]
    BY <1>1, <1>5, PublishedOfAct
  <2>3. ASSUME NEW p \in Paths, NEW s \in Runs, files'[p].by = s
        PROVE  Published(s)' /\ files'[p].what = staged'[s] /\ Len(files'[p].what) = Chunks
    <3>1. CASE p = Output[r]
      <4>1. files'[p] = [by |-> r, what |-> stream[r]]
        BY <1>1, <1>5, <3>1 DEF TypeOK
      <4>2. s = r /\ files'[p].what = stream[r]
        BY <4>1, <2>3
      <4> QED
        BY <4>2, <2>1, <2>2
    <3>2. CASE p # Output[r]
      <4>1. files'[p] = files[p]
        BY <1>1, <1>5, <3>2 DEF TypeOK
      <4>2. Published(s) /\ files[p].what = staged[s] /\ Len(files[p].what) = Chunks
        BY <4>1, <2>3, <1>1 DEF FilesOK
      <4> QED
        BY <4>1, <4>2, <1>3
    <3> QED
      BY <3>1, <3>2
  <2> QED
    BY <2>3 DEF FilesOK
<1> QED
  BY <1>1, <1>4, <1>5, FilesOfAct

\* The invariant is inductive: steps of a run, edits of the source, other programs.
LEMMA InvStep == IInv /\ [Next]_vars => IInv'
<1> SUFFICES ASSUME IInv, [Next]_vars PROVE IInv'
  OBVIOUS
<1>1. ASSUME NEW r \in Runs, Act(r) PROVE IInv'
  <2>1. TypeOK' /\ RunOK(r)'
    BY <1>1, TypeOfAct, OwnStep DEF IInv
  <2>2. ASSUME NEW s \in Runs, s # r PROVE RunOK(s)'
    <3>1. Same(s)
      BY <1>1, <2>2, Locality DEF IInv
    <3>2. RunOK(s)
      BY DEF IInv
    <3> QED
      BY <3>1, <3>2 DEF Same, RunOK, StagedOK, StreamOK, ResultOK
  <2> QED
    BY <1>1, <2>1, <2>2, FilesStep DEF IInv
<1>2. CASE EditSource
  <2>1. /\ UNCHANGED <<files, pc, token, kind, staged, stream, temps, result>>
        /\ source' \in Versions \cup {NoFile}
    BY <1>2 DEF EditSource
  <2>2. TypeOK'
    BY <2>1 DEF IInv, TypeOK
  <2>3. FilesOK'
    BY <2>1 DEF IInv, FilesOK, Published
  <2>4. \A r \in Runs : RunOK(r)'
    BY <2>1 DEF IInv, RunOK, StagedOK, StreamOK, ResultOK
  <2> QED
    BY <2>2, <2>3, <2>4 DEF IInv
<1>3. ASSUME NEW p \in Paths, OtherCreates(p) PROVE IInv'
  <2>1. TypeOK'
    <3>1. Foreign \in [by : Runs \cup {Nobody, Other}, what : Partial]
      BY PartialEmpty DEF Foreign
    <3> QED
      BY <1>3, <3>1 DEF OtherCreates, IInv, TypeOK
  <2>2. \A r \in Runs : RunOK(r)'
    BY <1>3 DEF OtherCreates, IInv, RunOK, StagedOK, StreamOK, ResultOK
  <2>3. FilesOK'
    BY <1>3, LockAssumption DEF OtherCreates, IInv, TypeOK, FilesOK, Published, Foreign
  <2> QED
    BY <2>1, <2>2, <2>3 DEF IInv
<1>4. CASE UNCHANGED vars
  BY <1>4 DEF vars, IInv, TypeOK, FilesOK, Published, RunOK, StagedOK, StreamOK, ResultOK
<1> QED
  BY <1>1, <1>2, <1>3, <1>4, StepCases

\* The inductive invariant holds in every reachable state; the rest follows.
THEOREM Invariance == Spec => []IInv
BY InvInit, InvStep, PTL DEF Spec

\* Every variable keeps its type; no copy is longer than the source.
THEOREM TypeCorrect == Spec => []TypeOK
<1>1. IInv => TypeOK
  BY DEF IInv
<1> QED
  BY <1>1, Invariance, PTL

\* Every artifact a lock writes holds the whole copy it staged, whatever became
\* of the source, of other runs and of other programs' files meanwhile.
THEOREM PublishesTheStagedCopy == Spec => []OutputIsTheStagedCopy
<1>1. IInv => OutputIsTheStagedCopy
  BY DEF IInv, FilesOK, OutputIsTheStagedCopy
<1> QED
  BY <1>1, Invariance, PTL

\* A lock that fails leaves no output, but for a failed verification, and no
\* plaintext behind unless it is killed.
THEOREM LeavesNothingBehind == Spec => []NothingLeftBehind
<1>1. IInv => NothingLeftBehind
  BY DEF IInv, RunOK, ResultOK, FilesOK, Published, NothingLeftBehind
<1> QED
  BY <1>1, Invariance, PTL

-------------------------------------------------------------------------------
(* Cancellation.  Doomed is stable: a run cancelled in time either has its   *)
(* last look at the token before it, or has returned without an output.      *)

Doomed(r) == \/ token[r] /\ Cancellable(r)
             \/ pc[r] = "done" /\ result[r] \notin Succeeded

\* A run that is doomed stays so: no step of anyone takes it to its rename.
LEMMA DoomedStep ==
    ASSUME IInv, NEW r \in Runs, Doomed(r), [Next]_vars
    PROVE  Doomed(r)'
<1>1. ASSUME NEW s \in Runs, s # r, Act(s) PROVE Doomed(r)'
  BY <1>1, Locality DEF IInv, Same, Doomed, Cancellable
<1>2. ASSUME Act(r) PROVE Doomed(r)'
  <2>1. TypeOK /\ pc[r] # "done" /\ token[r] /\ Cancellable(r)
    BY <1>2, Locality DEF IInv, Doomed
  <2>2. CASE Copy(r)
    <3>1. PICK b \in Bytes : CopyChunk(r, b)
      BY <2>1, <2>2, CopyCases DEF Copy
    <3> QED
      BY <2>1, <3>1 DEF CopyChunk, Doomed, Cancellable
  <2>3. CASE ~Copy(r)
    BY <1>2, <2>1, <2>3 DEF TypeOK, PCs, Doomed, Cancellable, Succeeded, Goto, Finish,
       UnlessCancelled, Act, Step, Around, Copy, Start, ResolveSource, CheckOutput, Stage,
       SourceIsGone, Staged, ResolveDifficulty, CreatePuzzle, EncryptChunk, EncryptSeesCancel,
       WriteArtifact, Persist, VerifyOutput, Fails, RequestCancel, Crash
  <2> QED
    BY <2>2, <2>3
<1>3. CASE EditSource
  BY <1>3 DEF EditSource, Doomed, Cancellable
<1>4. ASSUME NEW p \in Paths, OtherCreates(p) PROVE Doomed(r)'
  BY <1>4 DEF OtherCreates, Doomed, Cancellable
<1>5. CASE UNCHANGED vars
  BY <1>5 DEF vars, Doomed, Cancellable
<1> QED
  BY <1>1, <1>2, <1>3, <1>4, <1>5, StepCases

\* A lock cancelled before its last chunk is encrypted never has an output.
THEOREM CancelHonoured == Spec => CancelIsHonoured
<1>1. ASSUME NEW r \in Runs
      PROVE  Spec => [](token[r] /\ Cancellable(r) => [](\A p \in Paths : files[p].by # r))
  <2>1. IInv /\ Doomed(r) /\ [Next]_vars => Doomed(r)'
    BY DoomedStep
  <2>2. token[r] /\ Cancellable(r) => Doomed(r)
    BY DEF Doomed
  <2>3. IInv /\ Doomed(r) => \A p \in Paths : files[p].by # r
    BY DEF IInv, RunOK, ResultOK, FilesOK, Published, Succeeded, Doomed, Cancellable
  <2> QED
    BY <2>1, <2>2, <2>3, Invariance, PTL DEF Spec
<1> QED
  BY <1>1 DEF CancelIsHonoured

-------------------------------------------------------------------------------
(* Delivery.                                                                 *)

\* Locking refines Delivery, verification included: a run publishes its whole
\* payload by its rename, in one step, or ends without a trace.
THEOREM LockDelivers == Spec => ImplementsDelivery
<1>1. Init => Promise!Init
  BY LockAssumption DEF Init, Promise!Init, Promise!Foreign, Absent, Foreign, Succeeded
<1>2. IInv /\ [Next]_vars => [Promise!Next]_(Promise!vars)
  <2> SUFFICES ASSUME IInv, [Next]_vars PROVE [Promise!Next]_(Promise!vars)
    OBVIOUS
  <2> DEFINE Outcome == [r \in Runs |->
                           IF result[r] \in Succeeded \/ pc[r] = "verify" THEN "delivered"
                           ELSE IF pc[r] = "done" THEN "failed" ELSE "pending"]
  <2>1. ASSUME NEW r \in Runs, Act(r) PROVE [Promise!Next]_(Promise!vars)
    <3>1. TypeOK /\ RunOK(r) /\ pc[r] # "done" /\ \A s \in Runs \ {r} : Same(s)
      BY <2>1, Locality DEF IInv
    <3>2. /\ \A s \in Runs \ {r} : Outcome'[s] = Outcome[s]
          /\ Outcome'[r] \in {"pending", "delivered", "failed"}
      BY <3>1 DEF Same
    <3>3. Outcome' = [Outcome EXCEPT ![r] = Outcome'[r]]
      BY <3>2
    <3>4. result[r] = "none" /\ (Published(r) <=> pc[r] = "verify")
      BY <3>1 DEF RunOK, ResultOK, Published, Succeeded
    <3>5. CASE pc[r] = "verify"
      <4>1. files' = files /\ Published(r)'
        BY <2>1, <3>1, <3>4, <3>5, FilesOfAct, PublishedOfAct
      <4>2. Outcome[r] = "delivered" /\ Outcome'[r] = "delivered"
        BY <3>5, <4>1 DEF Published
      <4>3. Outcome' = Outcome
        BY <3>3, <4>2
      <4> QED
        BY <4>1, <4>3 DEF Promise!vars
    <3>6. CASE pc[r] # "verify" /\ files' = files
      <4>1. Outcome[r] = "pending"
        BY <3>1, <3>4, <3>6 DEF Succeeded
      <4>2. Outcome'[r] = "pending" => Outcome' = Outcome
        BY <3>3, <4>1
      <4> HIDE DEF Outcome
      <4>3. \/ Outcome' = Outcome
            \/ Outcome' = [Outcome EXCEPT ![r] = "delivered"]
            \/ Outcome' = [Outcome EXCEPT ![r] = "failed"]
        BY <3>2, <3>3, <4>2
      <4> QED
        BY <3>6, <4>1, <4>3 DEF Promise!Next, Promise!Show, Promise!Fail, Promise!vars, Outcome
    <3>7. CASE /\ Persist(r) /\ pc[r] = "persist"
               /\ files' = [files EXCEPT ![Output[r]] = [by |-> r, what |-> stream[r]]]
      <4>1. Outcome[r] = "pending"
        BY <3>4, <3>7 DEF Succeeded
      <4>2. Published(r)'
        BY <2>1, <3>1, <3>7, PublishedOfAct
      <4>3. Outcome'[r] = "delivered"
        BY <4>2 DEF Published
      <4>4. stream[r] = staged[r] /\ Len(staged[r]) = Chunks /\ staged[r] \in Partial
        BY <3>1, <3>7 DEF RunOK, StagedOK, StreamOK, TypeOK
      <4>5. stream[r] \in Payloads /\ Output[r] \in Paths
        BY <4>4, PartialWhole, LockAssumption
      <4> HIDE DEF Outcome
      <4>6. \E p \in Paths, x \in Payloads :
               /\ Outcome[r] = "pending"
               /\ Outcome' = [Outcome EXCEPT ![r] = "delivered"]
               /\ files' = [files EXCEPT ![p] = [by |-> r, what |-> x]]
        BY <3>3, <3>7, <4>1, <4>3, <4>5
      <4> QED
        BY <4>6 DEF Promise!Next, Promise!Publish, Outcome
    <3> QED
      BY <2>1, <3>1, <3>5, <3>6, <3>7, FilesOfAct
  <2>2. CASE EditSource
    BY <2>2 DEF EditSource, Promise!vars
  <2>3. ASSUME NEW p \in Paths, OtherCreates(p) PROVE [Promise!Next]_(Promise!vars)
    BY <2>3 DEF OtherCreates, Foreign, Promise!Next, Promise!Interfere
  <2>4. CASE UNCHANGED vars
    BY <2>4 DEF vars, Promise!vars
  <2> QED
    BY <2>1, <2>2, <2>3, <2>4, StepCases
<1> QED
  BY <1>1, <1>2, Invariance, PTL DEF Spec, ImplementsDelivery, Promise!Spec
===============================================================================
