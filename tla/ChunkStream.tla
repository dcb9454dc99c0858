----------------------------- MODULE ChunkStream -----------------------------
(***************************************************************************)
(* The protected stream of an artifact, protected_stream.rs and            *)
(* chunk_frame.rs: a payload is encrypted into frames, whatever reaches    *)
(* the reader instead of them is scanned without a key (verify) and then   *)
(* decrypted (unlock).                                                     *)
(*                                                                         *)
(* The payload is the sequence of bytes 1, 2, ..., total, so that a byte   *)
(* that turns up in the wrong place can be told from the right one.        *)
(***************************************************************************)
EXTENDS Integers, Sequences, SequencesExt

CONSTANTS
    ChunkSize,  \* plaintext bytes per chunk, DEFAULT_LOCK_CHUNK_SIZE_BYTES
    Totals,     \* lengths the payload may have
    MaxEdits    \* bound on the edits of the stored stream

ASSUME ChunkStreamAssumption ==
    ChunkSize \in Nat \ {0} /\ Totals \subseteq Nat /\ MaxEdits \in Nat

VARIABLES
    total,   \* payload_plaintext_bytes, as staged and as in the superblock
    right,   \* the reader has the key and the superblock of the writer
    token,   \* the CancellationToken has been set
    pc,      \* where the writer, and after it the reader, is
    offset,  \* bytes the writer has read
    held,    \* bytes it has read ahead, current_chunk
    short,   \* a read returned fewer bytes than it could have
    stream,  \* the frames of the protected stream
    tail,    \* bytes that are not a whole frame follow them
    edits,   \* edits of the stored stream so far
    at,      \* number of the next frame to read
    scan,    \* what the structural scan has found
    dec,     \* how the decryption stands: "busy", "ok" or its error
    out      \* the plaintext bytes it has written

vars == <<total, right, token, pc, offset, held, short, stream, tail, edits, at, scan, dec, out>>
writer == <<offset, held, short>>
reader == <<at, scan, dec, out>>

Init ==
    /\ total \in Totals /\ right \in BOOLEAN
    /\ token = FALSE /\ pc = "read"
    /\ offset = 0 /\ held = 0 /\ short = FALSE
    /\ stream = <<>> /\ tail = FALSE /\ edits = 0
    /\ at = 1 /\ scan = [status |-> "busy", bytes |-> 0]
    /\ dec = "busy" /\ out = <<>>

-------------------------------------------------------------------------------
(* A frame is a header and a sealed chunk.  The seal stands for ciphertext   *)
(* and tag: it opens for the header fields it was made with and no others.   *)

Bytes(from, len) == [i \in 1..len |-> from + i]

\* What is left of a ciphertext that was damaged, or is another artifact's.
Broken == [ours |-> FALSE, index |-> 0, last |-> FALSE, bytes |-> <<>>]

Frame(index, last, len, from) ==
    [index |-> index, last |-> IF last THEN 1 ELSE 0, len |-> len, fits |-> TRUE,
     seal |-> [ours |-> TRUE, index |-> index, last |-> last, bytes |-> Bytes(from, len)]]

\* is_last is a byte on disk and TRUE for all but 0.
IsLast(f) == f.last # 0

\* Mutant: build_chunk_aad without the chunk index.
OpensAnywhere(f) ==
    right /\ f.seal.ours /\ f.seal.last = IsLast(f) /\ Len(f.seal.bytes) = f.len

\* The AEAD assumption for build_chunk_aad.
Opens(f) ==
    /\ right /\ f.seal.ours
    /\ f.seal.index = f.index /\ f.seal.last = IsLast(f) /\ Len(f.seal.bytes) = f.len

\* Mutant: the configured chunk size is not a bound.
ValidOfAnyLength(f, n) == f.index = n - 1 /\ f.fits /\ (IsLast(f) \/ f.len > 0)

\* validate_protected_stream_frame with validate_chunk_frame; frame n is the
\* one with expected_index n - 1.
Valid(f, n) ==
    /\ f.index = n - 1
    /\ f.len <= ChunkSize
    /\ f.fits
    /\ IsLast(f) \/ f.len > 0

FrameOverhead == 57    \* a header of 41 bytes and a tag of 16

\* predicted_protected_stream_len
Predicted ==
    LET chunks == IF total = 0 THEN 1 ELSE (total + ChunkSize - 1) \div ChunkSize
    IN  total + chunks * FrameOverhead

StreamLen == FoldLeft(LAMBDA n, f : n + FrameOverhead + f.len, 0, stream)

-------------------------------------------------------------------------------
(* Writing: encrypt_protected_stream_with_cancel reads one chunk ahead, so   *)
(* that it knows which one is the last.  A read may return less than asked.  *)

Reads == LET left == total - offset IN
         IF left = 0 THEN {0} ELSE 1..(IF left < ChunkSize THEN left ELSE ChunkSize)

ReadAhead(n) ==
    /\ held' = n /\ offset' = offset + n
    /\ short' = (short \/ \E m \in Reads : m > n)

FirstRead ==
    /\ pc = "read"
    /\ \/ token /\ pc' = "cancelled" /\ UNCHANGED <<writer, stream>>
       \/ /\ ~token
          /\ \E n \in Reads :
                /\ ReadAhead(n)
                /\ IF n = 0 THEN stream' = <<Frame(0, TRUE, 0, 0)>> /\ pc' = "check"
                            ELSE pc' = "encrypt" /\ UNCHANGED stream
    /\ UNCHANGED <<total, right, token, tail, edits, reader>>

\* Mutant: the associated data is built after the index has been advanced.
EncryptChunkLate ==
    /\ pc = "encrypt" /\ ~token
    /\ \E n \in Reads :
          /\ ReadAhead(n)
          /\ stream' = Append(stream, [Frame(Len(stream), n = 0, held, offset - held)
                                          EXCEPT !.seal.index = Len(stream) + 1])
          /\ pc' = IF n = 0 THEN "check" ELSE "encrypt"
    /\ UNCHANGED <<total, right, token, tail, edits, reader>>

EncryptChunk ==
    /\ pc = "encrypt" /\ ~token
    /\ \E n \in Reads :
          /\ ReadAhead(n)
          /\ stream' = Append(stream, Frame(Len(stream), n = 0, held, offset - held))
          /\ pc' = IF n = 0 THEN "check" ELSE "encrypt"
    /\ UNCHANGED <<total, right, token, tail, edits, reader>>

EncryptSeesCancel ==
    /\ pc = "encrypt" /\ token /\ pc' = "cancelled"
    /\ UNCHANGED <<total, right, token, writer, stream, tail, edits, reader>>

\* write_timelocked_artifact: nothing is stored unless the lengths are those
\* that the superblock, already hashed into every chunk, announces.
CheckLengths ==
    /\ pc = "check"
    /\ pc' = IF offset = total /\ StreamLen = Predicted THEN "stored" ELSE "failed"
    /\ UNCHANGED <<total, right, token, writer, stream, tail, edits, reader>>

-------------------------------------------------------------------------------
(* The stored stream may be damaged or put together anew before it is read.  *)

Edit ==
    /\ pc = "stored" /\ edits < MaxEdits /\ edits' = edits + 1
    /\ UNCHANGED <<total, right, token, pc, writer, reader>>

Drop(i) == Edit /\ stream' = RemoveAt(stream, i) /\ UNCHANGED tail

Repeat(i) == Edit /\ stream' = InsertAt(stream, i, stream[i]) /\ UNCHANGED tail

Exchange(i, j) ==
    /\ Edit /\ UNCHANGED tail
    /\ i < j
    /\ stream' = [stream EXCEPT ![i].seal = stream[j].seal, ![j].seal = stream[i].seal]

Relabel(i) ==
    /\ Edit /\ UNCHANGED tail
    /\ \/ \E n \in 0..Len(stream) : stream' = [stream EXCEPT ![i].index = n]
       \/ \E b \in 0..2 : stream' = [stream EXCEPT ![i].last = b]
       \/ \E n \in 0..(ChunkSize + 1) :
             n # stream[i].len /\ stream' = [stream EXCEPT ![i].len = n, ![i].fits = FALSE]

Damage(i) == Edit /\ stream' = [stream EXCEPT ![i].seal = Broken] /\ UNCHANGED tail

\* Both lengths of frame i change: what follows is no frame any more.
Resize(i) ==
    /\ Edit /\ tail' = TRUE
    /\ \E n \in 0..(ChunkSize + 1) :
          stream' = [SubSeq(stream, 1, i) EXCEPT ![i].len = n, ![i].seal = Broken]

\* The last frame loses its end, or bytes are appended to it.
CutLast == stream # <<>> /\ Edit /\ stream' = Front(stream) /\ tail' = TRUE
AddBytes == Edit /\ tail' = TRUE /\ UNCHANGED stream

Tamper ==
    \/ CutLast \/ AddBytes
    \/ \E i \in DOMAIN stream : Drop(i) \/ Repeat(i) \/ Relabel(i) \/ Damage(i) \/ Resize(i)
    \/ \E i, j \in DOMAIN stream : Exchange(i, j)

-------------------------------------------------------------------------------
(* Reading: read_chunk_frame returns a frame, nothing at the clean end of    *)
(* the stream, or an error when it ends within a frame.                      *)

HasFrame == at <= Len(stream)

\* What is left after the terminal chunk, once more read_chunk_frame.
NothingFollows(n) == n > Len(stream) /\ ~tail

\* ensure_not_cancelled, the only look at the token that verification takes.
StartScan ==
    /\ pc = "stored"
    /\ IF token THEN pc' = "decrypt" /\ scan' = [scan EXCEPT !.status = "cancelled"]
                ELSE pc' = "scan" /\ UNCHANGED scan
    /\ UNCHANGED <<total, right, token, writer, stream, tail, edits, at, dec, out>>

ScanEnds(status, n) ==
    /\ scan' = [status |-> status, bytes |-> n]
    /\ at' = 1 /\ pc' = "decrypt"

\* Mutant: no chunk may be empty, not even the only one of an empty payload.
ScanFrameWithBytes ==
    /\ pc = "scan" /\ HasFrame
    /\ LET f == stream[at]
           n == scan.bytes + f.len IN
       IF ~Valid(f, at) \/ f.len = 0 THEN ScanEnds("malformed", scan.bytes)
       ELSE IF ~IsLast(f) THEN at' = at + 1 /\ scan' = [scan EXCEPT !.bytes = n] /\ UNCHANGED pc
       ELSE ScanEnds(IF ~NothingFollows(at + 1) THEN "malformed"
                     ELSE IF n # total THEN "mismatch" ELSE "ok", n)
    /\ UNCHANGED <<total, right, token, writer, stream, tail, edits, dec, out>>

\* One turn of scan_protected_stream_structural, and after the terminal chunk
\* the comparison with the superblock that every caller makes.
ScanFrame ==
    /\ pc = "scan" /\ HasFrame
    /\ LET f == stream[at]
           n == scan.bytes + f.len IN
       \/ ~Valid(f, at) /\ ScanEnds("malformed", scan.bytes)
       \/ /\ Valid(f, at) /\ ~IsLast(f)
          /\ at' = at + 1 /\ scan' = [scan EXCEPT !.bytes = n] /\ UNCHANGED pc
       \/ /\ Valid(f, at) /\ IsLast(f)
          /\ ScanEnds(IF ~NothingFollows(at + 1) THEN "malformed"
                      ELSE IF n # total THEN "mismatch" ELSE "ok", n)
    /\ UNCHANGED <<total, right, token, writer, stream, tail, edits, dec, out>>

\* No frame, no terminal chunk, or the end within a frame.
ScanFindsNoFrame ==
    /\ pc = "scan" /\ ~HasFrame /\ ScanEnds("malformed", scan.bytes)
    /\ UNCHANGED <<total, right, token, writer, stream, tail, edits, dec, out>>

DecryptEnds(status) == dec' = status /\ pc' = "end"

\* One turn of decrypt_protected_stream_to_writer_with_cancel; the checks
\* after its loop belong to the turn of the terminal chunk.
DecryptFrame ==
    /\ pc = "decrypt" /\ ~token /\ HasFrame
    /\ LET f == stream[at]
           written == out \o f.seal.bytes IN
       \/ ~Valid(f, at) /\ DecryptEnds("malformed") /\ UNCHANGED <<at, out>>
       \/ Valid(f, at) /\ ~Opens(f) /\ DecryptEnds("auth") /\ UNCHANGED <<at, out>>
       \/ /\ Valid(f, at) /\ Opens(f)
          /\ out' = written /\ at' = at + 1
          /\ \/ ~IsLast(f) /\ UNCHANGED <<dec, pc>>
             \/ /\ IsLast(f)
                /\ DecryptEnds(IF NothingFollows(at + 1) /\ Len(written) = total
                                  THEN "ok" ELSE "malformed")
    /\ UNCHANGED <<total, right, token, writer, stream, tail, edits, scan>>

DecryptFindsNoFrame ==
    /\ pc = "decrypt" /\ ~token /\ ~HasFrame /\ DecryptEnds("malformed")
    /\ UNCHANGED <<total, right, token, writer, stream, tail, edits, at, scan, out>>

DecryptSeesCancel ==
    /\ pc = "decrypt" /\ token /\ DecryptEnds("cancelled")
    /\ UNCHANGED <<total, right, token, writer, stream, tail, edits, at, scan, out>>

-------------------------------------------------------------------------------

RequestCancel ==
    /\ ~token /\ token' = TRUE
    /\ UNCHANGED <<total, right, pc, writer, stream, tail, edits, reader>>

Write == FirstRead \/ EncryptChunk \/ EncryptSeesCancel \/ CheckLengths
Read ==
    \/ StartScan \/ ScanFrame \/ ScanFindsNoFrame
    \/ DecryptFrame \/ DecryptFindsNoFrame \/ DecryptSeesCancel
Next == Write \/ Tamper \/ Read \/ RequestCancel

Spec == Init /\ [][Next]_vars

-------------------------------------------------------------------------------

Statuses == {"busy", "ok", "malformed", "cancelled"}

\* Every variable has its type; the reader never runs past the stream, nor
\* counts more than a chunk per frame.
TypeOK ==
    /\ total \in Totals /\ right \in BOOLEAN /\ token \in BOOLEAN
    /\ short \in BOOLEAN /\ tail \in BOOLEAN
    /\ pc \in {"read", "encrypt", "check", "stored", "failed", "cancelled",
               "scan", "decrypt", "end"}
    /\ offset \in 0..total /\ held \in 0..ChunkSize /\ edits \in 0..MaxEdits
    /\ at \in 1..(Len(stream) + 1)
    /\ scan \in [status : Statuses \cup {"mismatch"}, bytes : 0..(ChunkSize * Len(stream))]
    /\ dec \in Statuses \cup {"auth"}
    /\ out \in Seq(1..total)

\* Whatever is read in place of the stream, the bytes decryption has written
\* are a prefix of the payload at every moment, all of it when it succeeds,
\* and none without the right key: no chunk is cut off, repeated, reordered or
\* taken from elsewhere unnoticed (protected_stream.rs:198-299).
NeverWrongBytes ==
    /\ out = Bytes(0, Len(out))
    /\ dec = "ok" => Len(out) = total
    /\ ~right => out = <<>>

\* What was stored, and not touched, is scanned and decrypted, however the
\* plaintext arrived when it was encrypted: any error but a cancellation has
\* an edit or a wrong key behind it (protected_stream.rs:53-174 and 198-343).
\* And it is stored: the length that the superblock announces (writer.rs:136) is
\* that of the stream unless a read came back short, so that a lock of an empty
\* payload, or of a multiple of the chunk size, does not fail after the work.
RoundTrip ==
    edits = 0 =>
        /\ scan.status \notin {"malformed", "mismatch"}
        /\ right => dec \notin {"malformed", "auth"}
        /\ pc = "failed" => short

\* What can be unlocked passes verification: the scan without the key accepts
\* every stream that decrypts, and counts the same bytes (verification.rs:73
\* asserts it of the two loops, in debug builds and for one caller only).
ScanAcceptsWhatDecrypts ==
    dec = "ok" => scan = [status |-> "ok", bytes |-> Len(out)]

===============================================================================
