------------------------------- MODULE Artifact -------------------------------
(***************************************************************************)
(* The file format around the protected stream: notice, two superblock     *)
(* copies and the Reed-Solomon region between them, as writer.rs lays them *)
(* out and reader.rs, superblock.rs and payload_region.rs find them again  *)
(* after the file has decayed.                                             *)
(*                                                                         *)
(* A file is a sequence of cells and every part of it is two cells long:   *)
(* enough to cut a part in half, and to find it at a wrong offset.  A cell *)
(* is the artifact that wrote it and its place in that artifact.           *)
(***************************************************************************)
EXTENDS Integers, Sequences, FiniteSets, SequencesExt

CONSTANTS
    Artifacts,   \* the artifacts whose parts may be in the file
    Subject,     \* the one the file was written as
    Data,        \* rs_data_shards
    Parity,      \* rs_parity_shards
    Shards,      \* Shards[a]: data shards that the protected stream of a fills
    ScanWindow,  \* NOTICE_SCAN_WINDOW_BYTES, in cells
    MaxEdits,    \* bound on the edits of the file
    None         \* no artifact

ASSUME ArtifactAssumption ==
    /\ Subject \in Artifacts /\ None \notin Artifacts
    /\ Data \in Nat \ {0} /\ Parity \in Nat \ {0}     \* PayloadRegionLayout::validate
    /\ Shards \in [Artifacts -> Nat \ {0}]
    /\ ScanWindow \in Nat \ {0, 1} /\ MaxEdits \in Nat

VARIABLES
    file,    \* the file now
    edits,   \* edits so far
    pc,      \* where the reader is
    parsed,  \* the artifact whose superblock it uses, and the region's offset
    region,  \* the payload region it has read
    result,  \* "none", "ok", or what it reports
    stream,  \* the protected stream it has recovered, as data shards
    seen     \* the file as it was parsed and as it was read (used by properties)

vars == <<file, edits, pc, parsed, region, result, stream, seen>>

-------------------------------------------------------------------------------
(* What write_timelocked_artifact writes.                                    *)

PartLen == 2
Stripe == Data + Parity
Stripes(a) == (Shards[a] + Data - 1) \div Data

\* encoded_payload_region_len, in shard records
Records(a) == Stripes(a) * Stripe
RegionLen(a) == Records(a) * PartLen

\* Places of the parts: notice, start copy, shard records, end copy.
StartPlace == 1 + PartLen
RecordPlace(n) == StartPlace + n * PartLen
EndPlace(a) == RecordPlace(Records(a) + 1)

Cell(a, i) == [of |-> a, place |-> i]
Damaged == Cell(None, 0)

Written(a) == [i \in 1..(EndPlace(a) + PartLen - 1) |-> Cell(a, i)]

\* The record that holds data shard n, counted from 1 over all stripes.
DataRecord(n) == ((n - 1) \div Data) * Stripe + ((n - 1) % Data) + 1

\* The data shards of a's protected stream, before the padding is cut off.
Payload(a) == [n \in 1..Shards[a] |-> Cell(a, RecordPlace(DataRecord(n)))]

Init ==
    /\ file = Written(Subject) /\ edits = 0
    /\ pc = "parse" /\ parsed = [of |-> None, at |-> 0]
    /\ region = <<>> /\ result = "none" /\ stream = <<>>
    /\ seen = [parsed |-> <<>>, read |-> <<>>]

-------------------------------------------------------------------------------
(* Parsing: read_timelocked_artifact_bytes.                                  *)

\* The part of a that was written at place p is at offset o, undamaged.
Whole(f, o, a, p) ==
    /\ o \in 1..(Len(f) - PartLen + 1)
    /\ \A i \in 0..(PartLen - 1) : f[o + i] = Cell(a, p + i)

\* FILE_MAGIC, in the first cell of the file.
HasMagic(f) == f # <<>> /\ \E a \in Artifacts : f[1] = Cell(a, 1)

\* Where find_start_superblock_offset finds a start copy that decodes: at the
\* end of the notice or, when its length is damaged, anywhere in the window.
Starts(f) ==
    IF HasMagic(f)
    THEN {s \in [of : Artifacts, at : 2..(ScanWindow + 1)] : Whole(f, s.at, s.of, StartPlace)}
    ELSE {}

First(S) == CHOOSE s \in S : \A t \in S : s.at <= t.at

\* decode_end_copy_from_file: the end copy has to end the file.
Ends(f) ==
    {e \in [of : Artifacts, at : {Len(f) - PartLen + 1}] : Whole(f, e.at, e.of, EndPlace(e.of))}

Fails(what) == pc' = "done" /\ result' = what

\* payload_region_offset, and end_superblock_offset, from the copies there are
RegionAt(a, starts, ends) ==
    IF starts # {} THEN First(starts).at + PartLen ELSE First(ends).at - RegionLen(a)
EndAt(a, starts, ends) ==
    IF ends # {} THEN First(ends).at ELSE RegionAt(a, starts, ends) + RegionLen(a)

\* Mutant: contradictory copies are resolved in favour of the start copy.
PreferStart(starts, ends) ==
    {a \in Artifacts : IF starts # {} THEN First(starts).of = a
                                      ELSE ends # {} /\ First(ends).of = a}

\* choose_superblock_copy
Chosen(starts, ends) ==
    {a \in Artifacts : /\ starts # {} => First(starts).of = a
                       /\ ends # {} => First(ends).of = a
                       /\ starts \cup ends # {}}

\* Mutant: the start offset is computed modulo 2^64 and never used.
AnyOffset(a, starts, ends) == TRUE

\* The start offset is computed from the end copy when there is no other, and
\* must not be negative, although nothing of the start copy is needed.
StartFits(a, starts, ends) == starts # {} \/ RegionAt(a, starts, ends) - PartLen >= 1

Parse ==
    /\ pc = "parse" /\ seen' = [parsed |-> file, read |-> file]
    /\ LET starts == Starts(file)
           ends == Ends(file)
           chosen == Chosen(starts, ends) IN
       \/ chosen = {} /\ Fails("no superblock") /\ UNCHANGED parsed
       \/ \E a \in chosen :
            LET at == RegionAt(a, starts, ends) IN
            IF /\ StartFits(a, starts, ends)
               /\ at + RegionLen(a) - 1 <= Len(file)
               /\ EndAt(a, starts, ends) >= at + RegionLen(a)
            THEN parsed' = [of |-> a, at |-> at] /\ pc' = "read" /\ UNCHANGED result
            ELSE Fails("region mismatch") /\ UNCHANGED parsed
    /\ UNCHANGED <<file, edits, region, stream>>

-------------------------------------------------------------------------------
(* Recovery: read_payload_region_bytes reads the file a second time, at the  *)
(* offset found in the first, and reconstruct_payload_region repairs it.     *)

ReadRegion ==
    /\ pc = "read" /\ seen' = [seen EXCEPT !.read = file]
    /\ LET end == parsed.at + RegionLen(parsed.of) - 1 IN
       IF end > Len(file)
       THEN Fails("region mismatch") /\ UNCHANGED region
       ELSE region' = SubSeq(file, parsed.at, end) /\ pc' = "repair" /\ UNCHANGED result
    /\ UNCHANGED <<file, edits, parsed, stream>>

\* Record n of the region as decode_shard_record sees it: a shard when the
\* checksum is right, else an erasure.  It does not say whose record it is.
RecordAt(n) == 1 + (n - 1) * PartLen

\* Mutant: the checksum is read and not compared.
IsShardUnchecked(n) == TRUE

IsShard(n) ==
    \E a \in Artifacts : \E r \in 1..Records(a) : Whole(region, RecordAt(n), a, RecordPlace(r))

\* What a shard record of a holds, and what the one found at record n holds.
Held(n) == region[RecordAt(n)]
Original(a, s, j) == Cell(a, RecordPlace((s - 1) * Stripe + j))

Present(s) == {j \in 1..Stripe : IsShard((s - 1) * Stripe + j)}

\* Mutant: a stripe that has lost as many shards as it has parity is given up.
RepairableWithOneLess(s) == Cardinality(Present(s)) > Data

\* TooFewShardsPresent otherwise
Repairable(s) == Cardinality(Present(s)) >= Data

\* The shards that a missing one is computed from, the stripes all of them may
\* be from, and what comes out of it: the right one only when there is such a stripe.
Used(s) == {j \in Present(s) : Cardinality({k \in Present(s) : k < j}) < Data}
Origins(s) ==
    {o \in UNION {[of : {a}, stripe : 1..Stripes(a)] : a \in Artifacts} :
        \A k \in Used(s) : Held((s - 1) * Stripe + k) = Original(o.of, o.stripe, k)}
Computed(s, j) ==
    IF Origins(s) = {} THEN Damaged
    ELSE LET o == CHOOSE o \in Origins(s) : TRUE IN Original(o.of, o.stripe, j)

\* Data shard n of the stream, after its stripe has been repaired.
Recovered(n) ==
    LET s == ((n - 1) \div Data) + 1
        j == ((n - 1) % Data) + 1
    IN  IF j \in Present(s) THEN Held((s - 1) * Stripe + j) ELSE Computed(s, j)

\* reconstruct_payload_region; the padding of the last stripe is cut off.
Repair ==
    /\ pc = "repair"
    /\ IF \A s \in 1..Stripes(parsed.of) : Repairable(s)
       THEN /\ stream' = [n \in 1..Shards[parsed.of] |-> Recovered(n)]
            /\ pc' = "done" /\ result' = "ok"
       ELSE Fails("too damaged") /\ UNCHANGED stream
    /\ UNCHANGED <<file, edits, parsed, region, seen>>

-------------------------------------------------------------------------------
(* What happens to a file over the years, while it is being read included;   *)
(* nobody looks at it once the reader has its result.                        *)

Edit(f) ==
    /\ pc # "done" /\ edits < MaxEdits /\ edits' = edits + 1 /\ file' = f
    /\ UNCHANGED <<pc, parsed, region, result, stream, seen>>

Damage(i) == Edit([file EXCEPT ![i] = Damaged])

\* The notice is text at the head of the file, and somebody adds to it.
EditNotice == file # <<>> /\ Edit(InsertAt(file, 2, Damaged))

LoseHead(n) == Edit(SubSeq(file, n + 1, Len(file)))
LoseTail(n) == Edit(SubSeq(file, 1, Len(file) - n))
Grow == Edit(Append(file, Damaged))

\* Another artifact is copied over the file and the copy stops after n cells.
CopyOver(f, a, n) == SubSeq(Written(a), 1, n) \o SubSeq(f, n + 1, Len(f))
Tear(a, n) == Edit(CopyOver(file, a, n))

Decay ==
    \/ EditNotice \/ Grow
    \/ \E i \in DOMAIN file : Damage(i) \/ LoseHead(i) \/ LoseTail(i)
    \/ \E a \in Artifacts \ {Subject} : \E n \in DOMAIN Written(a) : Tear(a, n)

Read == Parse \/ ReadRegion \/ Repair
Next == Read \/ Decay

Spec == Init /\ [][Next]_vars

-------------------------------------------------------------------------------

Cells == [of : Artifacts, place : Nat \ {0}] \cup {Damaged}

\* Every variable has its type; the region is where a file can have one.
TypeOK ==
    /\ file \in Seq(Cells) /\ region \in Seq(Cells) /\ stream \in Seq(Cells)
    /\ seen \in [parsed : Seq(Cells), read : Seq(Cells)]
    /\ edits \in 0..MaxEdits
    /\ pc \in {"parse", "read", "repair", "done"}
    /\ parsed \in [of : Artifacts \cup {None}, at : Nat]
    /\ result \in {"none", "ok", "no superblock", "region mismatch", "too damaged"}

\* From offset h on, f holds the file as written, from the start copy to the
\* end copy, though some of its cells may be damaged.
BodyLen == Len(Written(Subject)) - PartLen
Holds(f, h) ==
    /\ h + BodyLen <= Len(f)
    /\ \A i \in 1..BodyLen : f[h + i] \in {Cell(Subject, PartLen + i), Damaged}

CopyUsable(f, h) ==
    \/ HasMagic(f) /\ h \in 1..ScanWindow /\ Whole(f, h + 1, Subject, StartPlace)
    \/ h + BodyLen = Len(f) /\ Whole(f, h + BodyLen - PartLen + 1, Subject, EndPlace(Subject))

Lost(f, h, s) ==
    {j \in 1..Stripe :
        LET p == RecordPlace((s - 1) * Stripe + j) IN ~Whole(f, h + p - PartLen, Subject, p)}
WithinBudget(f, h) == \A s \in 1..Stripes(Subject) : Cardinality(Lost(f, h, s)) <= Parity

\* Copies that contradict each other are refused on purpose (superblock.rs:116).
CopiesAgree(f) == \A c \in Starts(f) \cup Ends(f) : c.of = Subject

\* README.md:133-139, the promise in full: as long as one superblock copy is
\* usable, no copy of another artifact has come into the notice or to the end,
\* and no stripe has lost more records than it has parity, the stream is
\* recovered exactly.  The notice may be edited, bytes may follow the end,
\* and the damage may grow between the two times the file is read.
BudgetSuffices ==
    pc = "done" /\ CopiesAgree(seen.parsed) =>
        \A h \in 0..Len(seen.parsed) :
            /\ Holds(seen.parsed, h) /\ CopyUsable(seen.parsed, h)
            /\ Holds(seen.read, h) /\ WithinBudget(seen.read, h)
            => result = "ok" /\ stream = Payload(Subject)

NothingForeign(f) == \A i \in DOMAIN f : f[i].of \in {Subject, None}
OnlyDecayed(f, g) == Len(f) = Len(g) /\ \A i \in DOMAIN g : g[i] \in {f[i], Damaged}

\* README.md:140: beyond the budget the failure is explicit.  Whatever is
\* damaged, lost or added, what recovery returns is the stream as written, even
\* before AEAD looks at it; the exception is a file that moves under the reader.
DecayNeverLies ==
    /\ result = "ok" /\ NothingForeign(seen.parsed)
    /\ OnlyDecayed(seen.parsed, seen.read)
    => stream = Payload(Subject)

Torn(f) ==
    \E a \in Artifacts : \E n \in 0..Len(Written(a)) : f = CopyOver(Written(Subject), a, n)

\* A copy of another artifact over the file, stopped anywhere, never mixes the
\* two: the superblock copies contradict each other (superblock.rs:116), or the
\* one that is left belongs to a region that is all there.
TornNeverMixes ==
    /\ result = "ok" /\ seen.read = seen.parsed /\ Torn(seen.read)
    => stream = Payload(parsed.of)

\* docs/binary-file-format.md:93: "if only one copy is valid, use it".  The end
\* copy is, and the whole payload region lies before it.
ValidCopySuffices ==
    /\ pc = "done" /\ seen.read = seen.parsed
    /\ Starts(seen.parsed) = {}
    /\ \E e \in Ends(seen.parsed) : e.at > RegionLen(e.of)
    => result # "region mismatch"

===============================================================================
