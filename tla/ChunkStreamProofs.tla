--------------------------- MODULE ChunkStreamProofs ---------------------------
(***************************************************************************)
(* Theorems about ChunkStream for payloads and chunks of any length and    *)
(* any number of edits.  TLC checks the same properties on MCChunkStream.  *)
(***************************************************************************)
EXTENDS ChunkStream, ArithmeticProofs

-------------------------------------------------------------------------------
(* Runs of bytes.                                                            *)

\* Bytes(from, len) is the sequence from + 1, ..., from + len.
LEMMA BytesAreSeq ==
    ASSUME NEW from \in Nat, NEW len \in Nat, NEW n \in Nat, from + len <= n
    PROVE  /\ Bytes(from, len) \in Seq(1..n) /\ Len(Bytes(from, len)) = len
           /\ \A i \in 1..len : Bytes(from, len)[i] = from + i
BY DEF Bytes

\* Two runs, the second where the first has ended, are one.
LEMMA BytesJoin ==
    ASSUME NEW a \in Nat, NEW b \in Nat, NEW n \in Nat, a <= b, b <= n
    PROVE  Bytes(0, a) \o Bytes(a, b - a) = Bytes(0, b)
<1>1. /\ Bytes(0, a) \in Seq(1..n) /\ Len(Bytes(0, a)) = a
      /\ \A i \in 1..a : Bytes(0, a)[i] = i
  BY DEF Bytes
<1>2. /\ Bytes(a, b - a) \in Seq(1..n) /\ Len(Bytes(a, b - a)) = b - a
      /\ \A i \in 1..(b - a) : Bytes(a, b - a)[i] = a + i
  BY DEF Bytes
<1>3. /\ Bytes(0, b) \in Seq(1..n) /\ Len(Bytes(0, b)) = b
      /\ \A i \in 1..b : Bytes(0, b)[i] = i
  BY DEF Bytes
<1> DEFINE s == Bytes(0, a) \o Bytes(a, b - a)
<1>4. s \in Seq(1..n) /\ Len(s) = b
  BY <1>1, <1>2
<1>5. ASSUME NEW i \in 1..b PROVE s[i] = i
  BY <1>1, <1>2
<1> HIDE DEF s
<1>6. \A t \in Seq(1..n) : Len(t) = b /\ (\A i \in 1..b : s[i] = t[i]) => s = t
  BY <1>4
<1>7. s = Bytes(0, b)
  BY <1>3, <1>5, <1>6
<1> QED
  BY <1>7 DEF s

-------------------------------------------------------------------------------
(* The inductive invariant.                                                  *)

\* Frames, however they have been edited.
Seals  == [ours : BOOLEAN, index : Nat, last : BOOLEAN, bytes : Seq(1..total)]
Frames == [index : Nat, last : Nat, len : Nat, fits : BOOLEAN, seal : Seals]

Writing == {"read", "encrypt", "check", "failed", "cancelled", "stored"}

\* Where everybody is: the writer has read ahead no more than it has read, the
\* reader starts at the first frame, and counts no more than a chunk per frame.
PlaceOK ==
    /\ stream \in Seq(Frames)
    /\ held <= offset
    /\ pc = "read" => stream = <<>> /\ offset = 0 /\ held = 0
    /\ pc \in Writing => at = 1 /\ out = <<>> /\ dec = "busy"
                         /\ scan.status = "busy" /\ scan.bytes = 0
    /\ pc = "scan" => out = <<>> /\ scan.status = "busy" /\ scan.bytes <= ChunkSize * (at - 1)
    /\ pc = "decrypt" /\ at = 1 => out = <<>>
    /\ pc \in {"scan", "decrypt"} => dec = "busy"

\* A seal of ours holds the bytes of its chunk, from one cut to the next.
Authentic(seal, cuts) ==
    seal.ours => seal.bytes = Bytes(cuts[seal.index], cuts[seal.index + 1] - cuts[seal.index])

\* The cuts at which the writer happened to divide the payload: its reads may be
\* short, but every chunk is encrypted once, under its own number.  The reader
\* has written the payload up to the cut it has come to.
CutsOK(cuts) ==
    /\ cuts \in [Nat -> 0..total] /\ cuts[0] = 0
    /\ \A i \in Nat : cuts[i] <= cuts[i + 1]
    /\ \A k \in 1..Len(stream) : Authentic(stream[k].seal, cuts)
    /\ pc = "encrypt" => /\ cuts[Len(stream)] = offset - held
                         /\ \A k \in 1..Len(stream) : stream[k].seal.index = k - 1
    /\ pc = "decrypt" => out = Bytes(0, cuts[at - 1])
    /\ \E i \in Nat : out = Bytes(0, cuts[i])

\* What decryption has found, apart from the bytes.
OutcomeOK == /\ dec = "ok" => Len(out) = total
             /\ ~right => out = <<>>

IInv == TypeOK /\ PlaceOK /\ OutcomeOK /\ \E cuts : CutsOK(cuts)

\* A chunk more per frame, and never less than nothing.
LEMMA Counting ==
    /\ \A n \in Nat : ChunkSize * n \in Nat
    /\ \A n \in Nat : ChunkSize * (n + 1) = ChunkSize * n + ChunkSize
    /\ \A m, n \in Nat : m <= n => ChunkSize * m <= ChunkSize * n
BY ChunkStreamAssumption

-------------------------------------------------------------------------------
(* Editing.                                                                  *)

\* An edit may do what it likes with headers and order, as long as it makes no
\* new seal.
LEMMA EditFrame ==
    ASSUME IInv, Edit, stream' \in Seq(Frames), tail' \in BOOLEAN,
           \A k \in 1..Len(stream') :
              \/ ~stream'[k].seal.ours
              \/ \E i \in 1..Len(stream) : stream'[k].seal = stream[i].seal
    PROVE  IInv'
<1>1. PICK cuts : CutsOK(cuts)
  BY DEF IInv
<1>2. TypeOK /\ PlaceOK /\ OutcomeOK
  BY DEF IInv
<1>3. /\ pc = "stored" /\ pc' = "stored" /\ edits' = edits + 1 /\ edits < MaxEdits
      /\ UNCHANGED <<total, right, token, offset, held, short, at, scan, dec, out>>
  BY DEF Edit, writer, reader
<1>4. /\ at = 1 /\ out = <<>> /\ dec = "busy" /\ scan.bytes = 0 /\ scan.status = "busy"
  BY <1>2, <1>3 DEF PlaceOK, Writing
<1>5. TypeOK'
  <2>1. Len(stream') \in Nat /\ ChunkSize * Len(stream') \in Nat
    BY Counting
  <2>2. at' \in 1..(Len(stream') + 1) /\ scan'.bytes \in 0..(ChunkSize * Len(stream'))
    BY <1>3, <1>4, <2>1
  <2>3. edits' \in 0..MaxEdits
    BY <1>2, <1>3, ChunkStreamAssumption DEF TypeOK
  <2> QED
    BY <1>2, <1>3, <2>2, <2>3 DEF TypeOK
<1>6. PlaceOK'
  <2>1. Frames' = Frames
    BY <1>3 DEF Frames, Seals
  <2> QED
    BY <1>2, <1>3, <1>4, <2>1 DEF PlaceOK, Writing
<1>7. OutcomeOK'
  BY <1>2, <1>3 DEF OutcomeOK
<1>8. CutsOK(cuts)'
  <2>1. ASSUME NEW k \in 1..Len(stream') PROVE Authentic(stream'[k].seal, cuts)
    <3>1. CASE ~stream'[k].seal.ours
      BY <3>1 DEF Authentic
    <3>2. ASSUME NEW i \in 1..Len(stream), stream'[k].seal = stream[i].seal
          PROVE  Authentic(stream'[k].seal, cuts)
      <4>1. Authentic(stream[i].seal, cuts)
        BY <1>1 DEF CutsOK
      <4> QED
        BY <3>2, <4>1
    <3> QED
      BY <3>1, <3>2
  <2>2. /\ pc' # "encrypt" /\ pc' # "decrypt"
        /\ cuts \in [Nat -> 0..total'] /\ \E i \in Nat : out' = Bytes(0, cuts[i])
    BY <1>1, <1>3 DEF CutsOK
  <2> QED
    BY <1>1, <2>1, <2>2 DEF CutsOK
<1> QED
  BY <1>5, <1>6, <1>7, <1>8 DEF IInv

\* t is put together from elements of s.
From(t, s, S) == t \in Seq(S) /\ \A k \in 1..Len(t) : \E n \in 1..Len(s) : t[k] = s[n]

\* Parts of a sequence, and parts joined.
LEMMA Part ==
    ASSUME NEW S, NEW s \in Seq(S), NEW i \in 1..(Len(s) + 1), NEW j \in 0..Len(s)
    PROVE  From(SubSeq(s, i, j), s, S)
<1>1. SubSeq(s, i, j) \in Seq(S)
  OBVIOUS
<1>2. ASSUME NEW k \in 1..Len(SubSeq(s, i, j)) PROVE \E n \in 1..Len(s) : SubSeq(s, i, j)[k] = s[n]
  <2>1. SubSeq(s, i, j)[k] = s[i + k - 1] /\ i + k - 1 \in 1..Len(s)
    OBVIOUS
  <2> QED
    BY <2>1
<1> QED
  BY <1>1, <1>2 DEF From

LEMMA Joined ==
    ASSUME NEW S, NEW s \in Seq(S), NEW a, NEW b, From(a, s, S), From(b, s, S)
    PROVE  From(a \o b, s, S)
<1>1. a \in Seq(S) /\ b \in Seq(S)
  BY DEF From
<1>2. a \o b \in Seq(S) /\ Len(a \o b) = Len(a) + Len(b)
  BY <1>1
<1>3. ASSUME NEW k \in 1..Len(a \o b) PROVE \E n \in 1..Len(s) : (a \o b)[k] = s[n]
  <2>1. CASE k <= Len(a)
    <3>1. (a \o b)[k] = a[k] /\ k \in 1..Len(a)
      BY <1>1, <1>2, <2>1
    <3> QED
      BY <3>1 DEF From
  <2>2. CASE k > Len(a)
    <3>1. (a \o b)[k] = b[k - Len(a)] /\ k - Len(a) \in 1..Len(b)
      BY <1>1, <1>2, <2>2
    <3> QED
      BY <3>1 DEF From
  <2> QED
    BY <1>1, <2>1, <2>2
<1> QED
  BY <1>2, <1>3 DEF From

\* What the edits make of a sequence of frames.
LEMMA Edited ==
    ASSUME NEW S, NEW s \in Seq(S), NEW i \in 1..Len(s)
    PROVE  /\ From(RemoveAt(s, i), s, S) /\ From(InsertAt(s, i, s[i]), s, S)
           /\ From(Front(s), s, S)
<1>1. From(SubSeq(s, 1, i - 1), s, S)
  BY Part
<1>2. From(SubSeq(s, i + 1, Len(s)), s, S)
  BY Part
<1>3. From(SubSeq(s, i, Len(s)), s, S)
  BY Part
<1>4. From(<< s[i] >>, s, S)
  BY DEF From
<1>5. From(SubSeq(s, 1, Len(s) - 1), s, S)
  BY Part
<1>6. From(SubSeq(s, 1, i - 1) \o << s[i] >>, s, S)
  BY <1>1, <1>4, Joined
<1>7. /\ From(SubSeq(s, 1, i - 1) \o SubSeq(s, i + 1, Len(s)), s, S)
      /\ From((SubSeq(s, 1, i - 1) \o << s[i] >>) \o SubSeq(s, i, Len(s)), s, S)
  BY <1>1, <1>2, <1>3, <1>6, Joined
<1> QED
  BY <1>5, <1>7 DEF RemoveAt, InsertAt, Front

\* One frame of a stream replaced by another.
LEMMA Replaced ==
    ASSUME NEW S, NEW s \in Seq(S), NEW i \in 1..Len(s), NEW f \in S
    PROVE  /\ [s EXCEPT ![i] = f] \in Seq(S) /\ Len([s EXCEPT ![i] = f]) = Len(s)
           /\ [s EXCEPT ![i] = f][i] = f
           /\ \A k \in 1..Len(s) : k # i => [s EXCEPT ![i] = f][k] = s[k]
OBVIOUS

\* A frame keeps its seal when its header is edited, or gets one that is broken.
LEMMA Header ==
    ASSUME NEW f \in Frames, NEW n \in Nat
    PROVE  /\ [f EXCEPT !.index = n] \in Frames /\ [f EXCEPT !.index = n].seal = f.seal
           /\ [f EXCEPT !.last = n] \in Frames /\ [f EXCEPT !.last = n].seal = f.seal
           /\ [f EXCEPT !.len = n, !.fits = FALSE] \in Frames
           /\ [f EXCEPT !.len = n, !.fits = FALSE].seal = f.seal
           /\ \A g \in Frames : /\ [f EXCEPT !.seal = g.seal] \in Frames
                                /\ [f EXCEPT !.seal = g.seal].seal = g.seal
           /\ [f EXCEPT !.seal = Broken] \in Frames
           /\ [f EXCEPT !.len = n, !.seal = Broken] \in Frames
           /\ ~[f EXCEPT !.seal = Broken].seal.ours
           /\ ~[f EXCEPT !.len = n, !.seal = Broken].seal.ours
<1>1. Broken \in Seals /\ Broken.ours = FALSE
  BY DEF Broken, Seals
<1> HIDE DEF Broken
<1> QED
  BY <1>1 DEF Frames

\* A frame taken from elsewhere in the stream, headers changed, seals exchanged,
\* damaged or cut off: no edit makes a seal.
LEMMA TamperStep ==
    ASSUME IInv, Tamper
    PROVE  IInv'
<1>1. stream \in Seq(Frames) /\ tail \in BOOLEAN /\ Len(stream) \in Nat
  BY DEF IInv, PlaceOK, TypeOK
<1>2. CASE CutLast \/ AddBytes
  <2>1. CASE AddBytes
    BY <1>1, <2>1, EditFrame DEF AddBytes
  <2>2. CASE CutLast
    <3>1. Edit /\ stream' = Front(stream) /\ tail' = TRUE
      BY <2>2 DEF CutLast
    <3>2. 1 \in 1..Len(stream)
      BY <1>1, <2>2 DEF CutLast
    <3>3. From(stream', stream, Frames)
      BY <1>1, <3>1, <3>2, Edited
    <3> QED
      BY <3>1, <3>3, EditFrame DEF From
  <2> QED
    BY <1>2, <2>1, <2>2
<1>3. ASSUME NEW i \in DOMAIN stream,
             Drop(i) \/ Repeat(i) \/ Relabel(i) \/ Damage(i) \/ Resize(i)
      PROVE  IInv'
  <2>0. i \in 1..Len(stream) /\ stream[i] \in Frames
    BY <1>1, <1>3
  <2>1. CASE Drop(i) \/ Repeat(i)
    <3>1. /\ Edit /\ tail' \in BOOLEAN
          /\ stream' = RemoveAt(stream, i) \/ stream' = InsertAt(stream, i, stream[i])
      BY <1>1, <2>1 DEF Drop, Repeat
    <3>2. From(stream', stream, Frames)
      BY <1>1, <2>0, <3>1, Edited
    <3> QED
      BY <3>1, <3>2, EditFrame DEF From
  <2>2. ASSUME NEW f \in Frames, Edit, tail' \in BOOLEAN, stream' = [stream EXCEPT ![i] = f],
               ~f.seal.ours \/ \E k \in 1..Len(stream) : f.seal = stream[k].seal
        PROVE  IInv'
    <3>1. /\ stream' \in Seq(Frames) /\ Len(stream') = Len(stream) /\ stream'[i] = f
          /\ \A k \in 1..Len(stream) : k # i => stream'[k] = stream[k]
      BY <1>1, <2>0, <2>2, Replaced
    <3> QED
      BY <2>0, <2>2, <3>1, EditFrame
  <2>3. CASE Relabel(i)
    <3>1. Edit /\ tail' \in BOOLEAN
      BY <1>1, <2>3, ZenonT(40) DEF Relabel
    <3>2. ASSUME NEW n \in 0..Len(stream), stream' = [stream EXCEPT ![i].index = n]
          PROVE  IInv'
      <4>1. stream' = [stream EXCEPT ![i] = [stream[i] EXCEPT !.index = n]] /\ n \in Nat
        BY <1>1, <2>0, <3>2
      <4> QED
        BY <2>0, <2>2, <3>1, <4>1, Header, ZenonT(40)
    <3>3. ASSUME NEW n \in 0..2, stream' = [stream EXCEPT ![i].last = n]
          PROVE  IInv'
      <4>1. stream' = [stream EXCEPT ![i] = [stream[i] EXCEPT !.last = n]] /\ n \in Nat
        BY <1>1, <2>0, <3>3
      <4> QED
        BY <2>0, <2>2, <3>1, <4>1, Header, ZenonT(40)
    <3>4. ASSUME NEW n \in 0..(ChunkSize + 1),
                 stream' = [stream EXCEPT ![i].len = n, ![i].fits = FALSE]
          PROVE  IInv'
      <4>1. stream' = [stream EXCEPT ![i] = [stream[i] EXCEPT !.len = n, !.fits = FALSE]]
        BY <1>1, <2>0, <3>4
      <4>2. n \in Nat
        BY ChunkStreamAssumption
      <4> QED
        BY <2>0, <2>2, <3>1, <4>1, <4>2, Header
    <3> QED
      BY <2>3, <3>2, <3>3, <3>4 DEF Relabel
  <2>4. CASE Damage(i)
    <3>1. Edit /\ tail' \in BOOLEAN
      BY <1>1, <2>4 DEF Damage
    <3>2. stream' = [stream EXCEPT ![i] = [stream[i] EXCEPT !.seal = Broken]]
      BY <1>1, <2>4 DEF Damage
    <3>3. 0 \in Nat
      OBVIOUS
    <3> QED
      BY <2>0, <2>2, <3>1, <3>2, <3>3, Header
  <2>5. CASE Resize(i)
    <3> DEFINE head == SubSeq(stream, 1, i)
    <3>1. PICK n \in 0..(ChunkSize + 1) : stream' = [head EXCEPT ![i].len = n, ![i].seal = Broken]
      BY <2>5 DEF Resize
    <3>2. /\ head \in Seq(Frames) /\ Len(head) = i
          /\ \A k \in 1..i : head[k] = stream[k]
      BY <1>1, <2>0
    <3> HIDE DEF head
    <3> DEFINE f == [head[i] EXCEPT !.len = n, !.seal = Broken]
    <3>3. stream' = [head EXCEPT ![i] = f] /\ head[i] \in Frames
      <4>1. head \in Seq(Frames) /\ i \in 1..Len(head)
        BY <2>0, <3>2
      <4>2. \A t \in Seq(Frames) : \A b : i \in 1..Len(t) =>
               [t EXCEPT ![i].len = n, ![i].seal = b] =
                  [t EXCEPT ![i] = [t[i] EXCEPT !.len = n, !.seal = b]]
        OBVIOUS
      <4>3. [head EXCEPT ![i].len = n, ![i].seal = Broken] = [head EXCEPT ![i] = f]
        BY <4>1, <4>2
      <4>4. head[i] \in Frames
        BY <4>1, SMTT(30)
      <4> HIDE DEF f
      <4> QED
        BY <3>1, <4>3, <4>4
    <3>4. f \in Frames /\ ~f.seal.ours
      <4>1. n \in Nat
        BY ChunkStreamAssumption
      <4> QED
        BY <3>3, <4>1, Header
    <3> HIDE DEF f
    <3>5. i \in 1..Len(head)
      BY <2>0, <3>2
    <3>6. /\ stream' \in Seq(Frames) /\ Len(stream') = i /\ stream'[i] = f
          /\ \A k \in 1..i : k # i => stream'[k] = stream[k]
      BY <3>2, <3>3, <3>4, <3>5, Replaced
    <3>7. Edit /\ tail' \in BOOLEAN
      BY <2>5 DEF Resize
    <3> QED
      BY <2>0, <3>4, <3>6, <3>7, EditFrame
  <2> QED
    BY <1>3, <2>1, <2>3, <2>4, <2>5
<1>4. ASSUME NEW i \in DOMAIN stream, NEW j \in DOMAIN stream, Exchange(i, j) PROVE IInv'
  <2>1. /\ i \in 1..Len(stream) /\ j \in 1..Len(stream) /\ i # j
        /\ stream[i] \in Frames /\ stream[j] \in Frames
    BY <1>1, <1>4 DEF Exchange
  <2> DEFINE f == [stream[i] EXCEPT !.seal = stream[j].seal]
             g == [stream[j] EXCEPT !.seal = stream[i].seal]
             s == [stream EXCEPT ![i] = f]
  <2>2. stream' = [s EXCEPT ![j] = g]
    BY <1>1, <1>4, <2>1 DEF Exchange
  <2>3. 0 \in Nat
    OBVIOUS
  <2>4. f \in Frames /\ g \in Frames /\ f.seal = stream[j].seal /\ g.seal = stream[i].seal
    BY <2>1, <2>3, Header
  <2> HIDE DEF f, g
  <2>5. /\ s \in Seq(Frames) /\ Len(s) = Len(stream) /\ s[i] = f
        /\ \A k \in 1..Len(stream) : k # i => s[k] = stream[k]
    BY <1>1, <2>1, <2>4, Replaced
  <2> HIDE DEF s
  <2>6. /\ stream' \in Seq(Frames) /\ Len(stream') = Len(stream) /\ stream'[j] = g
        /\ \A k \in 1..Len(stream) : k # j => stream'[k] = s[k]
    BY <2>1, <2>2, <2>4, <2>5, Replaced
  <2>7. Edit /\ tail' \in BOOLEAN
    BY <1>1, <1>4 DEF Exchange
  <2> QED
    BY <2>1, <2>4, <2>5, <2>6, <2>7, EditFrame
<1> QED
  BY <1>2, <1>3, <1>4 DEF Tamper

-------------------------------------------------------------------------------
(* Writing.                                                                  *)

\* A read returns nothing at the end only, else a chunk at most.
LEMMA ReadsOK ==
    ASSUME TypeOK, NEW n \in Reads
    PROVE  /\ n \in 0..ChunkSize /\ offset + n \in 0..total
           /\ n = 0 => offset = total
<1>1. total \in Nat /\ offset \in 0..total /\ ChunkSize \in Nat
  BY ChunkStreamAssumption DEF TypeOK
<1> QED
  BY <1>1 DEF Reads

\* A new frame and its seal are of the right kind.
LEMMA FrameOK ==
    ASSUME TypeOK, NEW k \in Nat, NEW last \in BOOLEAN, NEW len \in Nat, NEW from \in Nat,
           from + len <= total
    PROVE  /\ Frame(k, last, len, from) \in Frames
           /\ Frame(k, last, len, from).seal.index = k
           /\ Frame(k, last, len, from).seal.bytes = Bytes(from, len)
<1>1. total \in Nat
  BY ChunkStreamAssumption DEF TypeOK
<1>2. Bytes(from, len) \in Seq(1..total)
  BY <1>1, BytesAreSeq
<1> QED
  BY <1>2 DEF Frame, Frames, Seals

\* The writer's turn: the bytes that it holds become the next chunk, from the
\* cut it had come to, to the one where it has stopped reading.
LEMMA EncryptStep ==
    ASSUME IInv, EncryptChunk
    PROVE  IInv'
<1>1. TypeOK /\ PlaceOK /\ OutcomeOK
  BY DEF IInv
<1>2. PICK cuts : CutsOK(cuts)
  BY DEF IInv
<1> DEFINE m == Len(stream)
<1>3. PICK n \in Reads :
          /\ held' = n /\ offset' = offset + n /\ short' \in BOOLEAN
          /\ stream' = Append(stream, Frame(m, n = 0, held, offset - held))
          /\ pc' = IF n = 0 THEN "check" ELSE "encrypt"
  BY DEF EncryptChunk, ReadAhead
<1>4. /\ pc = "encrypt"
      /\ UNCHANGED <<total, right, token, tail, edits, at, scan, dec, out>>
  BY DEF EncryptChunk, reader
<1>5. /\ at = 1 /\ out = <<>> /\ dec = "busy" /\ scan.bytes = 0 /\ scan.status = "busy"
  BY <1>1, <1>4 DEF PlaceOK, Writing
<1>6. /\ stream \in Seq(Frames) /\ m \in Nat /\ held <= offset
      /\ total \in Nat /\ offset \in 0..total /\ held \in 0..ChunkSize /\ ChunkSize \in Nat
  BY <1>1, ChunkStreamAssumption DEF TypeOK, PlaceOK
<1>7. n \in 0..ChunkSize /\ offset + n \in 0..total
  BY <1>1, ReadsOK
<1> DEFINE f == Frame(m, n = 0, held, offset - held)
<1>8. f \in Frames /\ f.seal.index = m /\ f.seal.bytes = Bytes(offset - held, held)
  <2>1. offset - held \in Nat /\ held \in Nat /\ (offset - held) + held <= total
    BY <1>6
  <2>2. \A last \in BOOLEAN :
           /\ Frame(m, last, held, offset - held) \in Frames
           /\ Frame(m, last, held, offset - held).seal.index = m
           /\ Frame(m, last, held, offset - held).seal.bytes = Bytes(offset - held, held)
    BY <1>1, <1>6, <2>1, FrameOK
  <2>3. (n = 0) \in BOOLEAN
    OBVIOUS
  <2> QED
    BY <2>2, <2>3
<1> HIDE DEF f
<1>9. /\ stream' \in Seq(Frames) /\ Len(stream') = m + 1 /\ stream'[m + 1] = f
      /\ \A k \in 1..m : stream'[k] = stream[k]
  BY <1>3, <1>6, <1>8 DEF f
<1>10. TypeOK'
  <2>1. ChunkSize * (m + 1) \in Nat
    BY <1>6, Counting
  <2>2. at' \in 1..(Len(stream') + 1) /\ scan'.bytes \in 0..(ChunkSize * Len(stream'))
    BY <1>4, <1>5, <1>6, <1>9, <2>1
  <2>3. offset' \in 0..total /\ held' \in 0..ChunkSize /\ short' \in BOOLEAN
        /\ pc' \in {"check", "encrypt"}
    BY <1>3, <1>7
  <2> QED
    BY <1>1, <1>4, <2>2, <2>3 DEF TypeOK
<1>11. PlaceOK'
  <2>1. Frames' = Frames
    BY <1>4 DEF Frames, Seals
  <2>2. held' <= offset' /\ pc' \in {"check", "encrypt"}
    BY <1>3, <1>6, <1>7
  <2> QED
    BY <1>4, <1>5, <1>9, <2>1, <2>2 DEF PlaceOK, Writing
<1>12. OutcomeOK'
  BY <1>1, <1>4 DEF OutcomeOK
<1>13. PICK next : next = [k \in Nat |-> IF k <= m THEN cuts[k] ELSE offset]
  OBVIOUS
<1>14. CutsOK(next)'
  <2>1. /\ cuts \in [Nat -> 0..total] /\ cuts[0] = 0 /\ \A k \in Nat : cuts[k] <= cuts[k + 1]
        /\ cuts[m] = offset - held
        /\ \A k \in 1..m : stream[k].seal.index = k - 1 /\ Authentic(stream[k].seal, cuts)
    BY <1>2, <1>4 DEF CutsOK
  <2>2. next \in [Nat -> 0..total] /\ next[0] = 0 /\ \A k \in 0..m : next[k] = cuts[k]
    BY <1>6, <1>13, <2>1
  <2>3. next[m + 1] = offset
    BY <1>6, <1>13
  <2>4. ASSUME NEW k \in Nat PROVE next[k] <= next[k + 1]
    <3>1. CASE k < m
      BY <1>6, <1>13, <2>1, <3>1
    <3>2. CASE k = m
      BY <1>6, <1>13, <2>1, <3>2
    <3>3. CASE k > m
      BY <1>6, <1>13, <3>3
    <3> QED
      BY <1>6, <3>1, <3>2, <3>3
  <2>5. Authentic(f.seal, next)
    <3>1. next[m] = offset - held
      BY <1>6, <2>1, <2>2
    <3>2. next[m + 1] - next[m] = held
      BY <1>6, <2>3, <3>1
    <3> QED
      BY <1>8, <3>1, <3>2 DEF Authentic
  <2>6. ASSUME NEW k \in 1..m PROVE Authentic(stream[k].seal, next)
    <3>1. k \in Int /\ k - 1 \in 0..m /\ k \in 0..m /\ (k - 1) + 1 = k
      BY <1>6
    <3>2. stream[k].seal.index = k - 1 /\ Authentic(stream[k].seal, cuts)
      BY <2>1
    <3>3. next[k - 1] = cuts[k - 1] /\ next[k] = cuts[k]
      BY <2>2, <3>1
    <3> QED
      BY <3>1, <3>2, <3>3 DEF Authentic
  <2>7. \A k \in 1..Len(stream') : Authentic(stream'[k].seal, next)
    <3>1. \A k \in 1..(m + 1) : k \in 1..m \/ k = m + 1
      BY <1>6
    <3> QED
      BY <1>9, <2>5, <2>6, <3>1
  <2>8. pc' = "encrypt" => /\ next[Len(stream')] = offset' - held'
                           /\ \A k \in 1..Len(stream') : stream'[k].seal.index = k - 1
    <3>1. next[Len(stream')] = offset' - held'
      BY <1>3, <1>6, <1>7, <1>9, <2>3
    <3>2. \A k \in 1..(m + 1) : stream'[k].seal.index = k - 1
      <4>1. ASSUME NEW k \in 1..(m + 1) PROVE stream'[k].seal.index = k - 1
        <5>1. CASE k \in 1..m
          BY <1>9, <2>1, <5>1
        <5>2. CASE k = m + 1
          BY <1>6, <1>8, <1>9, <5>2
        <5> QED
          BY <1>6, <5>1, <5>2
      <4> QED
        BY <4>1
    <3> QED
      BY <1>9, <3>1, <3>2
  <2>9. \E k \in Nat : out' = Bytes(0, next[k])
    BY <1>4, <1>5, <2>2 DEF Bytes
  <2>10. pc' # "decrypt"
    BY <1>3
  <2> QED
    BY <1>4, <2>2, <2>4, <2>7, <2>8, <2>9, <2>10 DEF CutsOK
<1> QED
  BY <1>10, <1>11, <1>12, <1>14 DEF IInv

\* An empty payload has one chunk, any other is read ahead.
LEMMA FirstReadStep ==
    ASSUME IInv, FirstRead
    PROVE  IInv'
<1>1. TypeOK /\ PlaceOK /\ OutcomeOK
  BY DEF IInv
<1>2. PICK cuts : CutsOK(cuts)
  BY DEF IInv
<1>3. /\ pc = "read"
      /\ UNCHANGED <<total, right, token, tail, edits, at, scan, dec, out>>
  BY DEF FirstRead, reader
<1>4. /\ at = 1 /\ out = <<>> /\ dec = "busy" /\ scan.bytes = 0 /\ scan.status = "busy"
      /\ stream = <<>> /\ offset = 0 /\ held = 0 /\ total \in Nat /\ ChunkSize \in Nat
  BY <1>1, <1>3, ChunkStreamAssumption DEF PlaceOK, Writing, TypeOK
<1>5. OutcomeOK' /\ Frames' = Frames
  BY <1>1, <1>3 DEF OutcomeOK, Frames, Seals
<1>6. CASE token /\ pc' = "cancelled" /\ UNCHANGED <<writer, stream>>
  <2>1. UNCHANGED <<offset, held, short, stream>>
    BY <1>6 DEF writer
  <2>2. TypeOK' /\ PlaceOK'
    BY <1>1, <1>3, <1>4, <1>5, <1>6, <2>1 DEF TypeOK, PlaceOK, Writing
  <2>3. CutsOK(cuts)'
    BY <1>2, <1>3, <1>6, <2>1 DEF CutsOK
  <2> QED
    BY <1>5, <2>2, <2>3 DEF IInv
<1>7. ASSUME NEW n \in Reads, ReadAhead(n),
             IF n = 0 THEN stream' = <<Frame(0, TRUE, 0, 0)>> /\ pc' = "check"
                      ELSE pc' = "encrypt" /\ UNCHANGED stream
      PROVE  IInv'
  <2>1. /\ held' = n /\ offset' = n /\ short' \in BOOLEAN
        /\ n \in 0..ChunkSize /\ n \in 0..total /\ (n = 0 => total = 0)
    BY <1>1, <1>4, <1>7, ReadsOK DEF ReadAhead
  <2>2. CASE n = 0
    <3> DEFINE f == Frame(0, TRUE, 0, 0)
    <3>1. f \in Frames /\ f.seal.index = 0 /\ f.seal.bytes = Bytes(0, 0)
      <4>1. 0 \in Nat /\ TRUE \in BOOLEAN /\ 0 + 0 <= total
        BY <1>4
      <4> QED
        BY <1>1, <4>1, FrameOK
    <3> HIDE DEF f
    <3>2. stream' = << f >> /\ pc' = "check"
      BY <1>7, <2>2 DEF f
    <3>3. stream' \in Seq(Frames) /\ Len(stream') = 1 /\ stream'[1] = f
      BY <3>1, <3>2
    <3>4. TypeOK'
      <4>1. ChunkSize * Len(stream') \in Nat
        BY <3>3, Counting
      <4>2. at' \in 1..(Len(stream') + 1) /\ scan'.bytes \in 0..(ChunkSize * Len(stream'))
        BY <1>3, <1>4, <3>3, <4>1
      <4> QED
        BY <1>1, <1>3, <2>1, <3>2, <4>2 DEF TypeOK
    <3>5. PlaceOK'
      BY <1>3, <1>4, <1>5, <2>1, <3>2, <3>3 DEF PlaceOK, Writing
    <3>6. CutsOK(cuts)'
      <4>1. cuts[0] = 0 /\ cuts[0 + 1] = 0
        BY <1>2, <2>1, <2>2 DEF CutsOK
      <4>2. Authentic(f.seal, cuts)
        BY <3>1, <4>1 DEF Authentic
      <4>3. \A k \in 1..Len(stream') : Authentic(stream'[k].seal, cuts)
        BY <3>3, <4>2
      <4> QED
        BY <1>2, <1>3, <3>2, <4>3 DEF CutsOK
    <3> QED
      BY <1>5, <3>4, <3>5, <3>6 DEF IInv
  <2>3. CASE n # 0
    <3>1. pc' = "encrypt" /\ stream' = stream
      BY <1>7, <2>3
    <3>2. TypeOK' /\ PlaceOK'
      BY <1>1, <1>3, <1>4, <1>5, <2>1, <3>1 DEF TypeOK, PlaceOK, Writing
    <3>3. CutsOK(cuts)'
      <4>1. Len(stream') = 0 /\ cuts[0] = offset' - held'
        BY <1>2, <1>4, <2>1, <3>1 DEF CutsOK
      <4>2. ASSUME NEW k \in 1..Len(stream') PROVE FALSE
        BY <4>1
      <4> QED
        BY <1>2, <1>3, <3>1, <4>1, <4>2 DEF CutsOK
    <3> QED
      BY <1>5, <3>2, <3>3 DEF IInv
  <2> QED
    BY <2>2, <2>3
<1> QED
  BY <1>6, <1>7 DEF FirstRead

\* What the writer does besides: it ends, and nothing else changes.
LEMMA WriterEnds ==
    ASSUME IInv, EncryptSeesCancel \/ CheckLengths
    PROVE  IInv'
<1>1. TypeOK /\ PlaceOK /\ OutcomeOK
  BY DEF IInv
<1>2. PICK cuts : CutsOK(cuts)
  BY DEF IInv
<1>3. /\ pc \in {"encrypt", "check"} /\ pc' \in {"cancelled", "stored", "failed"}
      /\ UNCHANGED <<total, right, token, offset, held, short, stream, tail, edits,
                     at, scan, dec, out>>
  <2>1. CASE EncryptSeesCancel
    BY <2>1 DEF EncryptSeesCancel, writer, reader
  <2>2. CASE CheckLengths
    <3>1. \A c \in BOOLEAN : (IF c THEN "stored" ELSE "failed") \in {"stored", "failed"}
      OBVIOUS
    <3>2. pc' \in {"stored", "failed"}
      BY <2>2, <3>1 DEF CheckLengths
    <3> QED
      BY <2>2, <3>2 DEF CheckLengths, writer, reader
  <2> QED
    BY <2>1, <2>2
<1>4. Frames' = Frames
  BY <1>3 DEF Frames, Seals
<1>5. TypeOK' /\ PlaceOK' /\ OutcomeOK'
  BY <1>1, <1>3, <1>4 DEF TypeOK, PlaceOK, OutcomeOK, Writing
<1>6. CutsOK(cuts)'
  BY <1>2, <1>3 DEF CutsOK
<1> QED
  BY <1>5, <1>6 DEF IInv

-------------------------------------------------------------------------------
(* Reading.                                                                  *)

\* What no read changes.
LEMMA ReadFrame ==
    ASSUME Read
    PROVE  /\ UNCHANGED <<total, right, token, offset, held, short, stream, tail, edits>>
           /\ pc \in {"stored", "scan", "decrypt"} /\ pc' \in {"scan", "decrypt", "end"}
BY DEF Read, StartScan, ScanFrame, ScanFindsNoFrame, DecryptFrame, DecryptFindsNoFrame,
       DecryptSeesCancel, ScanEnds, DecryptEnds, writer

\* A read step keeps the invariant when it keeps its own variables in order.
LEMMA ReadKeeps ==
    ASSUME IInv, Read, OutcomeOK', NEW cuts, CutsOK(cuts),
           at' \in 1..(Len(stream) + 1),
           scan' \in [status : Statuses \cup {"mismatch"}, bytes : 0..(ChunkSize * Len(stream))],
           dec' \in Statuses \cup {"auth"},
           pc' = "scan" => /\ out' = <<>> /\ scan'.status = "busy"
                           /\ scan'.bytes <= ChunkSize * (at' - 1),
           pc' = "decrypt" => out' = Bytes(0, cuts[at' - 1]),
           pc' \in {"scan", "decrypt"} => dec' = "busy",
           \E i \in Nat : out' = Bytes(0, cuts[i])
    PROVE  IInv'
<1>1. TypeOK /\ PlaceOK
  BY DEF IInv
<1>2. /\ UNCHANGED <<total, right, token, offset, held, short, stream, tail, edits>>
      /\ pc' \in {"scan", "decrypt", "end"}
  BY ReadFrame
<1>3. Frames' = Frames
  BY <1>2 DEF Frames, Seals
<1>4. /\ cuts \in [Nat -> 0..total] /\ cuts[0] = 0 /\ total \in Nat
      /\ \A i \in Nat : Bytes(0, cuts[i]) \in Seq(1..total)
  <2>1. cuts \in [Nat -> 0..total] /\ cuts[0] = 0 /\ total \in Nat
    BY <1>1, ChunkStreamAssumption DEF CutsOK, TypeOK
  <2>2. ASSUME NEW i \in Nat PROVE Bytes(0, cuts[i]) \in Seq(1..total)
    <3>1. cuts[i] \in 0..total
      BY <2>1
    <3>2. \A n \in 0..total : n \in Nat /\ 0 \in Nat /\ 0 + n <= total
      BY <2>1
    <3> QED
      BY <2>1, <3>1, <3>2, BytesAreSeq
  <2> QED
    BY <2>1, <2>2
<1>5. TypeOK'
  <2>1. out' \in Seq(1..total)
    BY <1>4
  <2> QED
    BY <1>1, <1>2, <2>1 DEF TypeOK
<1>6. pc' = "decrypt" /\ at' = 1 => out' = <<>>
  <2>1. Bytes(0, 0) = <<>>
    BY DEF Bytes
  <2> QED
    BY <1>4, <2>1
<1>7. PlaceOK'
  BY <1>1, <1>2, <1>3, <1>6 DEF PlaceOK, Writing
<1>8. CutsOK(cuts)'
  BY <1>2 DEF CutsOK
<1> QED
  BY <1>5, <1>7, <1>8 DEF IInv

\* The scan: a chunk more per frame, and no plaintext.
LEMMA ScanStep ==
    ASSUME IInv, StartScan \/ ScanFrame \/ ScanFindsNoFrame
    PROVE  IInv'
<1>1. TypeOK /\ PlaceOK /\ OutcomeOK
  BY DEF IInv
<1>2. PICK cuts : CutsOK(cuts)
  BY DEF IInv
<1>3. Read /\ pc \in {"stored", "scan"} /\ UNCHANGED <<right, total, dec, out>>
  BY DEF Read, StartScan, ScanFrame, ScanFindsNoFrame, ScanEnds
<1>4. /\ out = <<>> /\ dec = "busy" /\ scan.status = "busy" /\ scan.bytes \in Nat
      /\ scan.bytes <= ChunkSize * (at - 1) /\ scan = [status |-> "busy", bytes |-> scan.bytes]
      /\ pc = "stored" => at = 1 /\ scan.bytes = 0
  <2>1. Len(stream) \in Nat /\ at \in 1..(Len(stream) + 1)
    BY <1>1 DEF PlaceOK, TypeOK
  <2>2. ChunkSize * (at - 1) \in Nat /\ ChunkSize * Len(stream) \in Nat
    <3>1. at - 1 \in Nat
      BY <2>1
    <3> QED
      BY <2>1, <3>1, Counting
  <2>3. scan.bytes \in Nat
    BY <1>1, <2>2 DEF TypeOK
  <2>4. CASE pc = "stored"
    BY <1>1, <2>2, <2>3, <2>4 DEF PlaceOK, Writing, TypeOK
  <2>5. CASE pc = "scan"
    BY <1>1, <2>2, <2>3, <2>5 DEF PlaceOK, TypeOK
  <2> QED
    BY <1>3, <2>4, <2>5
<1>5. OutcomeOK'
  BY <1>1, <1>3 DEF OutcomeOK
<1>6. out' = Bytes(0, cuts[0]) /\ cuts[0] = 0
  BY <1>2, <1>3, <1>4 DEF CutsOK, Bytes
<1>7. /\ stream \in Seq(Frames) /\ Len(stream) \in Nat /\ at \in 1..(Len(stream) + 1)
      /\ ChunkSize * Len(stream) \in Nat
  BY <1>1, Counting DEF PlaceOK, TypeOK
<1>8. \/ /\ pc' = "decrypt" /\ at' = 1
         /\ scan' \in [status : Statuses \cup {"mismatch"}, bytes : 0..(ChunkSize * Len(stream))]
      \/ /\ pc' = "scan" /\ at' \in 1..(Len(stream) + 1)
         /\ scan' \in [status : {"busy"}, bytes : 0..(ChunkSize * Len(stream))]
         /\ scan'.bytes <= ChunkSize * (at' - 1)
  <2>1. /\ scan \in [status : {"busy"}, bytes : 0..(ChunkSize * Len(stream))]
        /\ scan.bytes \in 0..(ChunkSize * Len(stream))
    BY <1>1, <1>4 DEF TypeOK
  <2>2. CASE StartScan
    <3>1. CASE token
      BY <1>1, <1>4, <2>1, <2>2, <3>1 DEF StartScan, Statuses
    <3>2. CASE ~token
      <4>1. ChunkSize * 0 = 0
        BY ChunkStreamAssumption
      <4> QED
        BY <1>1, <1>4, <1>7, <2>1, <2>2, <3>2, <4>1 DEF StartScan
    <3> QED
      BY <3>1, <3>2
  <2>3. CASE ScanFindsNoFrame
    BY <2>1, <2>3 DEF ScanFindsNoFrame, ScanEnds, Statuses
  <2>4. CASE ScanFrame
    <3> DEFINE f == stream[at]
               n == scan.bytes + f.len
    <3>1. at \in 1..Len(stream) /\ f \in Frames
      <4>1. at <= Len(stream)
        BY <2>4 DEF ScanFrame, HasFrame
      <4>2. at \in 1..Len(stream)
        BY <1>7, <4>1
      <4> QED
        BY <1>7, <4>2
    <3>2. CASE ~Valid(f, at) /\ ScanEnds("malformed", scan.bytes)
      BY <2>1, <3>2 DEF ScanEnds, Statuses
    <3>3. ASSUME Valid(f, at)
          PROVE  n \in 0..(ChunkSize * Len(stream)) /\ n <= ChunkSize * at
      <4>1. f.len \in Nat /\ f.len <= ChunkSize /\ ChunkSize \in Nat
        BY <3>1, <3>3, ChunkStreamAssumption DEF Valid, Frames
      <4>2. ChunkSize * (at - 1) \in Nat /\ ChunkSize * at = ChunkSize * (at - 1) + ChunkSize
        <5>1. at - 1 \in Nat /\ (at - 1) + 1 = at
          BY <1>7
        <5> QED
          BY <5>1, Counting
      <4>3. ChunkSize * at <= ChunkSize * Len(stream)
        BY <1>7, <3>1, Counting
      <4>4. \A a, b, c, d, e, l \in Nat :
               a <= b /\ l <= c /\ d = b + c /\ d <= e => a + l \in 0..e /\ a + l <= d
        OBVIOUS
      <4>5. scan.bytes \in Nat /\ scan.bytes <= ChunkSize * (at - 1)
        BY <1>4
      <4>6. ChunkSize * at \in Nat
        BY <4>1, <4>2
      <4> HIDE DEF f
      <4> QED
        BY <1>7, <4>1, <4>2, <4>3, <4>4, <4>5, <4>6
    <3> HIDE DEF n
    <3>4. CASE /\ Valid(f, at) /\ at' = at + 1
               /\ scan' = [scan EXCEPT !.bytes = n] /\ UNCHANGED pc
      <4>1. scan' \in [status : {"busy"}, bytes : 0..(ChunkSize * Len(stream))] /\ scan'.bytes = n
        <5>1. scan' = [status |-> "busy", bytes |-> n]
          BY <1>4, <3>4
        <5>2. n \in 0..(ChunkSize * Len(stream))
          BY <3>3, <3>4
        <5>3. \A S : n \in S => [status |-> "busy", bytes |-> n] \in [status : {"busy"}, bytes : S]
          OBVIOUS
        <5> QED
          BY <5>1, <5>2, <5>3
      <4>2. at' \in 1..(Len(stream) + 1) /\ at' - 1 = at
        BY <1>7, <3>1, <3>4
      <4>3. pc' = "scan"
        BY <2>4, <3>4 DEF ScanFrame
      <4> QED
        BY <3>3, <3>4, <4>1, <4>2, <4>3
    <3>5. ASSUME NEW v \in {"malformed", "mismatch", "ok"}, Valid(f, at), ScanEnds(v, n)
          PROVE  /\ pc' = "decrypt" /\ at' = 1
                 /\ scan' \in [status : Statuses \cup {"mismatch"},
                              bytes : 0..(ChunkSize * Len(stream))]
      BY <3>3, <3>5 DEF ScanEnds, Statuses
    <3>6. \A a, b \in BOOLEAN : (IF a THEN "malformed" ELSE IF b THEN "mismatch" ELSE "ok")
                                   \in {"malformed", "mismatch", "ok"}
      OBVIOUS
    <3>7. \/ ~Valid(f, at) /\ ScanEnds("malformed", scan.bytes)
          \/ /\ Valid(f, at) /\ at' = at + 1
             /\ scan' = [scan EXCEPT !.bytes = n] /\ UNCHANGED pc
          \/ Valid(f, at) /\ \E v \in {"malformed", "mismatch", "ok"} : ScanEnds(v, n)
      BY <2>4, <3>6 DEF ScanFrame, n
    <3> QED
      BY <3>2, <3>4, <3>5, <3>7
  <2> QED
    BY <2>2, <2>3, <2>4
<1>9. dec' \in Statuses \cup {"auth"}
  BY <1>3, <1>4 DEF Statuses
<1>10. pc' = "decrypt" => out' = Bytes(0, cuts[at' - 1])
  BY <1>6, <1>8
<1> QED
  BY <1>2, <1>3, <1>4, <1>5, <1>6, <1>7, <1>8, <1>9, <1>10, ReadKeeps, SMTT(30) DEF Statuses

\* A frame that opens carries the bytes from the cut the reader has come to, to
\* the next, whichever frame of the stored stream it is.
LEMMA Opened ==
    ASSUME IInv, NEW cuts, CutsOK(cuts), pc = "decrypt", at \in 1..Len(stream),
           Valid(stream[at], at), Opens(stream[at])
    PROVE  out \o stream[at].seal.bytes = Bytes(0, cuts[at])
<1>1. TypeOK /\ PlaceOK
  BY DEF IInv
<1> DEFINE seal == stream[at].seal
<1>2. seal.ours /\ seal.index = at - 1 /\ Authentic(seal, cuts)
  BY DEF Valid, Opens, CutsOK
<1>3. at \in Nat /\ at - 1 \in Nat /\ (at - 1) + 1 = at
  BY <1>1 DEF PlaceOK
<1>4. seal.bytes = Bytes(cuts[at - 1], cuts[at] - cuts[at - 1])
  <2> HIDE DEF seal
  <2> QED
    BY <1>2, <1>3 DEF Authentic
<1>5. /\ cuts[at - 1] \in Nat /\ cuts[at] \in Nat /\ total \in Nat
      /\ cuts[at - 1] <= cuts[at] /\ cuts[at] <= total
  <2>1. total \in Nat
    BY <1>1, ChunkStreamAssumption DEF TypeOK
  <2>2. cuts \in [Nat -> 0..total] /\ \A i \in Nat : cuts[i] <= cuts[i + 1]
    BY DEF CutsOK
  <2>3. cuts[at - 1] \in 0..total /\ cuts[at] \in 0..total
    BY <1>3, <2>2
  <2>4. cuts[at - 1] <= cuts[at]
    BY <1>3, <2>2
  <2> QED
    BY <2>1, <2>3, <2>4
<1>6. out = Bytes(0, cuts[at - 1])
  BY DEF CutsOK
<1>7. Bytes(0, cuts[at - 1]) \o Bytes(cuts[at - 1], cuts[at] - cuts[at - 1]) = Bytes(0, cuts[at])
  BY <1>5, BytesJoin
<1> QED
  BY <1>4, <1>6, <1>7

\* The decryption, one chunk at a time.
LEMMA DecryptStep ==
    ASSUME IInv, DecryptFrame \/ DecryptFindsNoFrame \/ DecryptSeesCancel
    PROVE  IInv'
<1>1. TypeOK /\ PlaceOK /\ OutcomeOK
  BY DEF IInv
<1>2. PICK cuts : CutsOK(cuts)
  BY DEF IInv
<1>3. Read /\ pc = "decrypt" /\ dec = "busy" /\ UNCHANGED <<right, total, stream, scan>>
  BY <1>1 DEF Read, DecryptFrame, DecryptFindsNoFrame, DecryptSeesCancel, PlaceOK
<1>4. /\ scan' \in [status : Statuses \cup {"mismatch"}, bytes : 0..(ChunkSize * Len(stream))]
      /\ at \in 1..(Len(stream) + 1) /\ Len(stream) \in Nat
      /\ out = Bytes(0, cuts[at - 1]) /\ at - 1 \in Nat
  <2>1. at \in 1..(Len(stream) + 1) /\ Len(stream) \in Nat
    BY <1>1 DEF TypeOK, PlaceOK
  <2> QED
    BY <1>1, <1>2, <1>3, <2>1 DEF TypeOK, CutsOK
<1>5. ASSUME NEW v \in {"malformed", "auth", "cancelled"}, DecryptEnds(v), UNCHANGED <<at, out>>
      PROVE  IInv'
  <2>1. pc' = "end" /\ dec' = v
    BY <1>5 DEF DecryptEnds
  <2>2. OutcomeOK'
    BY <1>1, <1>3, <1>5, <2>1 DEF OutcomeOK
  <2>3. \E i \in Nat : out' = Bytes(0, cuts[i])
    BY <1>4, <1>5
  <2>4. dec' \in Statuses \cup {"auth"}
    BY <2>1 DEF Statuses
  <2>5. at' \in 1..(Len(stream) + 1)
    BY <1>4, <1>5
  <2> QED
    BY <1>2, <1>3, <1>4, <2>1, <2>2, <2>3, <2>4, <2>5, ReadKeeps
<1>6. CASE DecryptFindsNoFrame \/ DecryptSeesCancel
  BY <1>5, <1>6 DEF DecryptFindsNoFrame, DecryptSeesCancel
<1>7. CASE DecryptFrame
  <2> DEFINE f == stream[at]
             written == out \o f.seal.bytes
  <2>1. CASE (DecryptEnds("malformed") \/ DecryptEnds("auth")) /\ UNCHANGED <<at, out>>
    BY <1>5, <2>1
  <2>2. CASE /\ Valid(f, at) /\ Opens(f)
             /\ out' = written /\ at' = at + 1
             /\ \/ ~IsLast(f) /\ UNCHANGED <<dec, pc>>
                \/ /\ IsLast(f)
                   /\ DecryptEnds(IF NothingFollows(at + 1) /\ Len(written) = total
                                     THEN "ok" ELSE "malformed")
    <3>1. at \in 1..Len(stream)
      <4>1. at <= Len(stream)
        BY <1>7 DEF DecryptFrame, HasFrame
      <4> QED
        BY <1>4, <4>1
    <3>2. out' = Bytes(0, cuts[at]) /\ at \in Nat
      <4>1. written = Bytes(0, cuts[at])
        BY <1>2, <1>3, <2>2, <3>1, Opened
      <4> HIDE DEF written
      <4> QED
        BY <1>4, <2>2, <4>1
    <3>3. at' \in 1..(Len(stream) + 1) /\ at' - 1 = at
      BY <1>4, <2>2, <3>1
    <3>4. right
      BY <2>2 DEF Opens
    <3> HIDE DEF written
    <3>5. \/ dec' = "busy" /\ pc' = "decrypt"
          \/ pc' = "end" /\ dec' \in {"ok", "malformed"} /\ (dec' = "ok" => Len(out') = total)
      BY <1>3, <2>2 DEF DecryptEnds
    <3>6. OutcomeOK'
      BY <1>3, <3>4, <3>5 DEF OutcomeOK
    <3>7. dec' \in Statuses \cup {"auth"}
      BY <3>5 DEF Statuses
    <3>8. \E i \in Nat : out' = Bytes(0, cuts[i])
      BY <3>2
    <3>9. /\ pc' # "scan"
          /\ pc' = "decrypt" => out' = Bytes(0, cuts[at' - 1])
          /\ pc' \in {"scan", "decrypt"} => dec' = "busy"
      BY <3>2, <3>3, <3>5
    <3> QED
      BY <1>2, <1>3, <1>4, <3>3, <3>6, <3>7, <3>8, <3>9, ReadKeeps
  <2> QED
    BY <1>7, <2>1, <2>2 DEF DecryptFrame
<1> QED
  BY <1>6, <1>7

-------------------------------------------------------------------------------
(* The theorems.                                                             *)

LEMMA InvInit == Init => IInv
<1> SUFFICES ASSUME Init PROVE IInv
  OBVIOUS
<1>1. total \in Nat /\ ChunkSize \in Nat /\ MaxEdits \in Nat /\ ChunkSize * 0 = 0
  BY ChunkStreamAssumption DEF Init
<1>2. TypeOK
  <2>1. scan \in [status : Statuses \cup {"mismatch"}, bytes : 0..(ChunkSize * Len(stream))]
    BY <1>1 DEF Init, Statuses
  <2>2. /\ out \in Seq(1..total) /\ held \in 0..ChunkSize /\ dec \in Statuses \cup {"auth"}
        /\ offset \in 0..total /\ edits \in 0..MaxEdits /\ at \in 1..(Len(stream) + 1)
    BY <1>1 DEF Init, Statuses
  <2> QED
    BY <1>1, <2>1, <2>2 DEF Init, TypeOK
<1>3. PlaceOK /\ OutcomeOK
  BY <1>1 DEF Init, PlaceOK, OutcomeOK, Writing
<1>4. CutsOK([i \in Nat |-> 0])
  BY <1>1 DEF Init, CutsOK, Bytes
<1> QED
  BY <1>2, <1>3, <1>4 DEF IInv

LEMMA InvStep == IInv /\ [Next]_vars => IInv'
<1> SUFFICES ASSUME IInv, [Next]_vars PROVE IInv'
  OBVIOUS
<1>1. CASE Write
  BY <1>1, FirstReadStep, EncryptStep, WriterEnds DEF Write
<1>2. CASE Tamper
  BY <1>2, TamperStep
<1>3. CASE Read
  BY <1>3, ScanStep, DecryptStep DEF Read
<1>4. CASE RequestCancel \/ UNCHANGED vars
  <2>1. /\ UNCHANGED <<total, right, pc, offset, held, short, stream, tail, edits,
                       at, scan, dec, out>>
        /\ token' = TRUE \/ token' = token
    BY <1>4 DEF RequestCancel, vars, writer, reader
  <2>2. Frames' = Frames
    BY <2>1 DEF Frames, Seals
  <2>3. TypeOK' /\ PlaceOK' /\ OutcomeOK'
    BY <2>1, <2>2, ZenonT(40) DEF IInv, TypeOK, PlaceOK, OutcomeOK, Writing
  <2>4. PICK cuts : CutsOK(cuts)
    BY DEF IInv
  <2>5. CutsOK(cuts)'
    BY <2>1, <2>4 DEF CutsOK
  <2> QED
    BY <2>3, <2>5 DEF IInv
<1> QED
  BY <1>1, <1>2, <1>3, <1>4 DEF Next

\* The invariant holds in every state.
THEOREM Invariance == Spec => []IInv
BY InvInit, InvStep, PTL DEF Spec

\* Every variable has its type; the reader never runs past the stream, nor
\* counts more than a chunk per frame (protected_stream.rs:198-343).
THEOREM TypeCorrect == Spec => []TypeOK
<1>1. IInv => TypeOK
  BY DEF IInv
<1> QED
  BY <1>1, Invariance, PTL

\* Whatever was stored in place of the stream, what decryption has written is a
\* prefix of the payload, all of it when it succeeds, and nothing without the
\* right key (protected_stream.rs:198-299).
THEOREM OnlyRightBytes == Spec => []NeverWrongBytes
<1>1. IInv => NeverWrongBytes
  <2> SUFFICES ASSUME IInv PROVE NeverWrongBytes
    OBVIOUS
  <2>1. PICK cuts : CutsOK(cuts)
    BY DEF IInv
  <2>2. PICK i \in Nat : out = Bytes(0, cuts[i])
    BY <2>1 DEF CutsOK
  <2>3. cuts[i] \in Nat
    <3>1. cuts[i] \in 0..total /\ total \in Nat
      BY <2>1, ChunkStreamAssumption DEF CutsOK, IInv, TypeOK
    <3> QED
      BY <3>1
  <2>4. 0 \in Nat /\ 0 + cuts[i] <= cuts[i]
    BY <2>3
  <2>5. Len(out) = cuts[i]
    BY <2>2, <2>3, <2>4, BytesAreSeq
  <2> QED
    BY <2>2, <2>5 DEF NeverWrongBytes, IInv, OutcomeOK
<1> QED
  BY <1>1, Invariance, PTL

-------------------------------------------------------------------------------
(* The two loops agree: the decryption walks over the frames that the scan    *)
(* has walked over, and ends where it ended.                                  *)

\* The first k frames are good ones, none of them terminal, and sums[i] is the
\* number of bytes that the first i of them announce.
Walked(sums, k) ==
    /\ sums \in [Nat -> Nat] /\ sums[0] = 0
    /\ \A i \in 1..k : /\ Valid(stream[i], i) /\ ~IsLast(stream[i])
                       /\ sums[i] = sums[i - 1] + stream[i].len

\* The scan has ended at the frame after these, a terminal one or none it accepts.
Ended(sums, k) ==
    \/ scan.status = "malformed" /\ ~(k < Len(stream) /\ Valid(stream[k + 1], k + 1))
    \/ /\ k < Len(stream) /\ Valid(stream[k + 1], k + 1) /\ IsLast(stream[k + 1])
       /\ NothingFollows(k + 2) /\ sums[k] + stream[k + 1].len = total =>
             scan = [status |-> "ok", bytes |-> total]

ScannedOK ==
    /\ pc = "scan" => \E sums : Walked(sums, at - 1) /\ scan.bytes = sums[at - 1]
    /\ pc = "decrypt" /\ ~token =>
          \E k \in 0..Len(stream) : \E sums : /\ Walked(sums, k) /\ Ended(sums, k)
                                              /\ at - 1 <= k /\ Len(out) = sums[at - 1]
    /\ ScanAcceptsWhatDecrypts

\* Nothing has been decrypted before the decryption has ended.
LEMMA NotYet == ASSUME IInv, pc # "end" PROVE dec = "busy"
BY DEF IInv, TypeOK, PlaceOK, Writing

\* Steps that leave the frames and the reader alone, or come before it.
LEMMA OthersAgree ==
    ASSUME IInv, ScannedOK, Write \/ Tamper \/ RequestCancel \/ UNCHANGED vars
    PROVE  ScannedOK'
<1>1. CASE Write \/ Tamper
  <2>1. pc # "end" /\ pc' \notin {"scan", "decrypt"} /\ dec' = dec
    <3>1. CASE FirstRead
      BY <3>1 DEF FirstRead, reader
    <3>2. CASE EncryptChunk \/ EncryptSeesCancel
      BY <3>2 DEF EncryptChunk, EncryptSeesCancel, reader
    <3>3. CASE CheckLengths
      <4>1. \A c \in BOOLEAN : (IF c THEN "stored" ELSE "failed") \in {"stored", "failed"}
        OBVIOUS
      <4>2. pc' \in {"stored", "failed"}
        BY <3>3, <4>1 DEF CheckLengths
      <4> QED
        BY <3>3, <4>2 DEF CheckLengths, reader
    <3>4. CASE Tamper
      <4>1. Edit
        BY <3>4 DEF Tamper, CutLast, AddBytes, Drop, Repeat, Relabel, Damage, Resize, Exchange
      <4> QED
        BY <4>1, SMTT(30) DEF Edit, reader
    <3> QED
      BY <1>1, <3>1, <3>2, <3>3, <3>4 DEF Write
  <2>2. dec' # "ok"
    BY <2>1, NotYet
  <2> QED
    BY <2>1, <2>2 DEF ScannedOK, ScanAcceptsWhatDecrypts
<1>2. CASE RequestCancel \/ UNCHANGED vars
  <2>1. /\ UNCHANGED <<total, pc, stream, tail, at, scan, dec, out>>
        /\ token' = TRUE \/ token' = token
    BY <1>2 DEF RequestCancel, vars, writer, reader
  <2>2. \A sums, k : /\ Walked(sums, k) => Walked(sums, k)'
                     /\ Ended(sums, k) => Ended(sums, k)'
    BY <2>1 DEF Walked, Ended, NothingFollows
  <2> QED
    BY <2>1, <2>2 DEF ScannedOK, ScanAcceptsWhatDecrypts
<1> QED
  BY <1>1, <1>2

\* One frame more has been walked over.
LEMMA WalkedOn ==
    ASSUME NEW k \in Nat, k < Len(stream), NEW sums, Walked(sums, k),
           stream \in Seq(Frames), Valid(stream[k + 1], k + 1), ~IsLast(stream[k + 1])
    PROVE  \E more : Walked(more, k + 1) /\ more[k + 1] = sums[k] + stream[k + 1].len
<1> DEFINE more == [sums EXCEPT ![k + 1] = sums[k] + stream[k + 1].len]
<1>1. sums \in [Nat -> Nat] /\ sums[0] = 0
  BY DEF Walked
<1>2. stream[k + 1].len \in Nat
  <2>1. k + 1 \in 1..Len(stream) /\ Len(stream) \in Nat
    OBVIOUS
  <2>2. stream[k + 1] \in Frames
    BY <2>1
  <2> QED
    BY <2>2 DEF Frames
<1>3. /\ more \in [Nat -> Nat] /\ more[0] = 0 /\ more[k + 1] = sums[k] + stream[k + 1].len
      /\ \A i \in 0..k : more[i] = sums[i]
  <2>1. sums[k] + stream[k + 1].len \in Nat
    <3>1. sums[k] \in Nat
      BY <1>1
    <3>2. \A a, b \in Nat : a + b \in Nat
      OBVIOUS
    <3> QED
      BY <1>2, <3>1, <3>2
  <2>2. k + 1 \in Nat /\ k + 1 # 0 /\ \A i \in 0..k : i \in Nat /\ i # k + 1
    OBVIOUS
  <2> QED
    BY <1>1, <2>1, <2>2
<1> HIDE DEF more
<1>4. ASSUME NEW i \in 1..(k + 1)
      PROVE  /\ Valid(stream[i], i) /\ ~IsLast(stream[i])
             /\ more[i] = more[i - 1] + stream[i].len
  <2>1. CASE i = k + 1
    <3>1. i - 1 = k /\ k \in 0..k
      BY <2>1
    <3> QED
      BY <1>3, <2>1, <3>1
  <2>2. CASE i # k + 1
    <3>1. i \in 1..k /\ i \in 0..k /\ i - 1 \in 0..k
      BY <2>2
    <3> QED
      BY <1>3, <3>1 DEF Walked
  <2> QED
    BY <2>1, <2>2
<1> QED
  BY <1>3, <1>4 DEF Walked

\* The scan walks over the frames, and ends at the first that is terminal or not
\* a good one.
LEMMA ScanAgrees ==
    ASSUME IInv, ScannedOK, StartScan \/ ScanFrame \/ ScanFindsNoFrame
    PROVE  ScannedOK'
<1>1. TypeOK /\ PlaceOK
  BY DEF IInv
<1>2. Read /\ pc \in {"stored", "scan"} /\ UNCHANGED <<total, token, stream, tail, dec, out>>
  BY DEF Read, StartScan, ScanFrame, ScanFindsNoFrame, ScanEnds, writer
<1>3. dec = "busy" /\ out = <<>> /\ (pc = "stored" => at = 1 /\ scan.bytes = 0)
  BY <1>1, <1>2 DEF PlaceOK, Writing
<1>4. stream \in Seq(Frames) /\ Len(stream) \in Nat /\ at - 1 \in Nat /\ (at - 1) + 1 = at
  BY <1>1 DEF TypeOK, PlaceOK
<1>5. ScanAcceptsWhatDecrypts'
  BY <1>2, <1>3 DEF ScanAcceptsWhatDecrypts
<1>6. \A sums, k : Walked(sums, k) => Walked(sums, k)'
  BY <1>2 DEF Walked
<1>7. CASE StartScan
  <2>1. CASE token
    BY <1>2, <1>5, <1>7, <2>1 DEF StartScan, ScannedOK
  <2>2. CASE ~token
    <3>1. PICK sums : sums = [i \in Nat |-> 0]
      OBVIOUS
    <3>2. Walked(sums, at - 1) /\ scan.bytes = sums[at - 1]
      BY <1>2, <1>3, <1>7, <3>1 DEF Walked, StartScan
    <3>3. pc' = "scan" /\ at' = at /\ scan' = scan
      BY <1>7, <2>2 DEF StartScan
    <3> QED
      BY <1>5, <1>6, <3>2, <3>3 DEF ScannedOK
  <2> QED
    BY <2>1, <2>2
<1>8. CASE ScanFrame \/ ScanFindsNoFrame
  <2>1. PICK k \in Nat : k = at - 1
    BY <1>4
  <2>2. PICK sums : Walked(sums, k) /\ scan.bytes = sums[k]
    <3>1. pc = "scan"
      BY <1>8 DEF ScanFrame, ScanFindsNoFrame
    <3> QED
      BY <2>1, <3>1 DEF ScannedOK
  <2>3. k \in 0..Len(stream) /\ at = k + 1
    BY <1>1, <1>4, <2>1 DEF TypeOK
  <2>4. ASSUME NEW v, NEW b, ScanEnds(v, b), Ended(sums, k)' PROVE ScannedOK'
    <3>1. pc' = "decrypt" /\ at' - 1 = 0 /\ 0 <= k
      BY <2>4 DEF ScanEnds
    <3>2. Walked(sums, k)' /\ Len(out') = sums[0] /\ k \in 0..Len(stream')
      BY <1>2, <1>3, <1>6, <2>2, <2>3 DEF Walked
    <3> QED
      BY <1>5, <2>4, <3>1, <3>2 DEF ScannedOK
  <2>5. CASE ScanFindsNoFrame
    <3>1. ScanEnds("malformed", scan.bytes) /\ ~(k < Len(stream))
      BY <2>3, <2>5 DEF ScanFindsNoFrame, HasFrame
    <3>2. Ended(sums, k)'
      BY <1>2, <3>1 DEF Ended, ScanEnds
    <3> QED
      BY <2>4, <3>1, <3>2
  <2>6. CASE ScanFrame
    <3>1. k < Len(stream)
      BY <1>4, <2>3, <2>6 DEF ScanFrame, HasFrame
    <3> DEFINE f == stream[k + 1]
               n == sums[k] + f.len
               v == IF ~NothingFollows(k + 2) THEN "malformed"
                    ELSE IF n # total THEN "mismatch" ELSE "ok"
    <3>2. \/ ~Valid(f, k + 1) /\ ScanEnds("malformed", scan.bytes)
          \/ /\ Valid(f, k + 1) /\ ~IsLast(f)
             /\ at' = at + 1 /\ scan' = [scan EXCEPT !.bytes = n] /\ UNCHANGED pc
          \/ Valid(f, k + 1) /\ IsLast(f) /\ ScanEnds(v, n)
      <4>1. at + 1 = k + 2
        BY <2>3
      <4> QED
        BY <2>2, <2>3, <2>6, <4>1 DEF ScanFrame
    <3>3. CASE ~Valid(f, k + 1) /\ ScanEnds("malformed", scan.bytes)
      <4>1. Ended(sums, k)'
        BY <1>2, <3>3 DEF Ended, ScanEnds, Valid, IsLast
      <4> QED
        BY <2>4, <3>3, <4>1
    <3>4. CASE Valid(f, k + 1) /\ IsLast(f) /\ ScanEnds(v, n)
      <4>1. scan' = [status |-> v, bytes |-> n]
        BY <3>4 DEF ScanEnds
      <4>2. NothingFollows(k + 2) /\ n = total => scan' = [status |-> "ok", bytes |-> total]
        BY <4>1
      <4>3. Ended(sums, k)'
        BY <1>2, <3>1, <3>4, <4>2 DEF Ended, NothingFollows, Valid, IsLast
      <4> QED
        BY <2>4, <3>4, <4>3
    <3>5. CASE /\ Valid(f, k + 1) /\ ~IsLast(f)
               /\ at' = at + 1 /\ scan' = [scan EXCEPT !.bytes = n] /\ UNCHANGED pc
      <4>1. PICK more : Walked(more, k + 1) /\ more[k + 1] = n
        BY <1>4, <2>2, <3>1, <3>5, WalkedOn
      <4>2. pc' = "scan" /\ at' - 1 = k + 1 /\ scan'.bytes = n
        BY <1>1, <2>3, <2>6, <3>5 DEF ScanFrame, TypeOK
      <4>3. Walked(more, k + 1)'
        BY <1>6, <4>1
      <4> QED
        BY <1>5, <4>1, <4>2, <4>3 DEF ScannedOK
    <3> QED
      BY <3>2, <3>3, <3>4, <3>5
  <2> QED
    BY <1>8, <2>5, <2>6
<1> QED
  BY <1>7, <1>8

\* The decryption walks over the same frames: it passes none that the scan has not
\* passed, and succeeds only at the frame where the scan has ended, with its count.
LEMMA DecryptAgrees ==
    ASSUME IInv, ScannedOK, DecryptFrame \/ DecryptFindsNoFrame \/ DecryptSeesCancel
    PROVE  ScannedOK'
<1>1. TypeOK /\ PlaceOK
  BY DEF IInv
<1>2. pc = "decrypt" /\ dec = "busy" /\ UNCHANGED <<total, token, stream, tail, scan>>
  BY <1>1 DEF DecryptFrame, DecryptFindsNoFrame, DecryptSeesCancel, PlaceOK, writer
<1>3. ASSUME NEW v, DecryptEnds(v), v # "ok" PROVE ScannedOK'
  BY <1>3 DEF DecryptEnds, ScannedOK, ScanAcceptsWhatDecrypts
<1>4. CASE DecryptFindsNoFrame \/ DecryptSeesCancel
  BY <1>3, <1>4 DEF DecryptFindsNoFrame, DecryptSeesCancel
<1>5. CASE DecryptFrame
  <2>1. /\ ~token /\ stream \in Seq(Frames) /\ Len(stream) \in Nat /\ total \in Nat
        /\ at \in 1..Len(stream) /\ out \in Seq(1..total)
    BY <1>1, <1>5, ChunkStreamAssumption DEF DecryptFrame, HasFrame, TypeOK, PlaceOK
  <2>2a. PICK k \in 0..Len(stream) : \E sums :
           /\ Walked(sums, k) /\ Ended(sums, k) /\ at - 1 <= k /\ Len(out) = sums[at - 1]
    BY <1>2, <2>1 DEF ScannedOK
  <2>2. PICK sums :
           /\ Walked(sums, k) /\ Ended(sums, k) /\ at - 1 <= k /\ Len(out) = sums[at - 1]
    BY <2>2a
  <2>3. PICK j \in Nat : at = j + 1 /\ j <= k /\ Len(out) = sums[j]
    <3>1. at - 1 \in Nat /\ at = (at - 1) + 1
      BY <2>1
    <3> QED
      BY <2>2, <3>1
  <2> DEFINE f == stream[j + 1]
             written == out \o f.seal.bytes
  <2>4. f \in Frames
    BY <2>1, <2>3
  <2>5. \/ \E v \in {"malformed", "auth"} : DecryptEnds(v)
        \/ /\ Valid(f, j + 1) /\ Opens(f) /\ out' = written /\ at' = at + 1
           /\ \/ ~IsLast(f) /\ UNCHANGED <<dec, pc>>
              \/ /\ IsLast(f)
                 /\ DecryptEnds(IF NothingFollows(j + 2) /\ Len(written) = total
                                   THEN "ok" ELSE "malformed")
    <3>1. at + 1 = j + 2
      BY <2>3
    <3> QED
      BY <1>5, <2>3, <3>1 DEF DecryptFrame
  <2>6. CASE \E v \in {"malformed", "auth"} : DecryptEnds(v)
    BY <1>3, <2>6
  <2>7. ASSUME Valid(f, j + 1), Opens(f), out' = written, at' = at + 1
        PROVE  /\ Len(out') = sums[j] + f.len
               /\ ~IsLast(f) => j + 1 <= k /\ sums[j + 1] = sums[j] + f.len
               /\ IsLast(f) => j = k
    <3>1. Len(out') = sums[j] + f.len
      <4>1. f.seal.bytes \in Seq(1..total) /\ Len(f.seal.bytes) = f.len
        BY <2>4, <2>7 DEF Opens, Frames, Seals
      <4>2. \A a, b \in Seq(1..total) : Len(a \o b) = Len(a) + Len(b)
        OBVIOUS
      <4> HIDE DEF f
      <4> QED
        BY <2>1, <2>3, <2>7, <4>1, <4>2
    <3>2. CASE j = k
      BY <2>2, <2>1, <2>3, <2>7, <3>1, <3>2 DEF Ended
    <3>3. CASE j # k
      <4>1. j + 1 \in 1..k /\ (j + 1) - 1 = j
        BY <2>3, <3>3
      <4>2. ~IsLast(f) /\ sums[j + 1] = sums[j] + f.len
        BY <2>2, <4>1 DEF Walked
      <4> QED
        BY <3>1, <4>1, <4>2
    <3> QED
      BY <3>2, <3>3
  <2>8. CASE /\ Valid(f, j + 1) /\ Opens(f) /\ out' = written /\ at' = at + 1
             /\ ~IsLast(f) /\ UNCHANGED <<dec, pc>>
    <3>1. j + 1 <= k /\ Len(out') = sums[j + 1] /\ at' - 1 = j + 1
      BY <2>3, <2>7, <2>8
    <3>2. Walked(sums, k)' /\ Ended(sums, k)'
      BY <1>2, <2>2 DEF Walked, Ended, NothingFollows
    <3> HIDE DEF f, written
    <3> QED
      BY <1>2, <2>2, <2>8, <3>1, <3>2 DEF ScannedOK, ScanAcceptsWhatDecrypts
  <2>9. CASE /\ Valid(f, j + 1) /\ Opens(f) /\ out' = written /\ at' = at + 1 /\ IsLast(f)
             /\ DecryptEnds(IF NothingFollows(j + 2) /\ Len(written) = total
                               THEN "ok" ELSE "malformed")
    <3>1. j = k /\ Len(out') = sums[k] + f.len
      BY <2>7, <2>9
    <3>2. CASE NothingFollows(j + 2) /\ Len(written) = total
      <4>1. sums[k] + stream[k + 1].len = total /\ NothingFollows(k + 2)
        BY <2>9, <3>1, <3>2
      <4>2. k < Len(stream) /\ Valid(stream[k + 1], k + 1)
        BY <2>1, <2>3, <2>9, <3>1
      <4>3. scan = [status |-> "ok", bytes |-> total]
        BY <2>2, <4>1, <4>2 DEF Ended
      <4>4. pc' = "end" /\ Len(out') = total
        BY <2>9, <3>2 DEF DecryptEnds
      <4> QED
        BY <1>2, <4>3, <4>4 DEF ScannedOK, ScanAcceptsWhatDecrypts
    <3>3. CASE ~(NothingFollows(j + 2) /\ Len(written) = total)
      <4>1. DecryptEnds("malformed")
        BY <2>9, <3>3
      <4> QED
        BY <1>3, <4>1
    <3> QED
      BY <3>2, <3>3
  <2> QED
    BY <2>5, <2>6, <2>8, <2>9
<1> QED
  BY <1>4, <1>5

\* What can be unlocked passes verification, and the scan has counted the bytes
\* that the decryption writes (protected_stream.rs:198-343, verification.rs:73).
THEOREM VerificationAcceptsWhatUnlocks == Spec => []ScanAcceptsWhatDecrypts
<1>1. Init => ScannedOK
  BY DEF Init, ScannedOK, ScanAcceptsWhatDecrypts
<1>2. IInv /\ ScannedOK /\ [Next]_vars => ScannedOK'
  BY OthersAgree, ScanAgrees, DecryptAgrees DEF Next, Read
<1>3. ScannedOK => ScanAcceptsWhatDecrypts
  BY DEF ScannedOK
<1> QED
  BY <1>1, <1>2, <1>3, Invariance, PTL DEF Spec

-------------------------------------------------------------------------------
(* A stream that nobody edits.                                                *)

\* Frame k as the writer made it.
AsWritten(f, k, last) ==
    /\ f.index = k - 1 /\ f.len <= ChunkSize /\ f.fits
    /\ IsLast(f) <=> last
    /\ last \/ f.len > 0
    /\ f.seal.ours /\ f.seal.index = k - 1 /\ f.seal.last = last
    /\ Len(f.seal.bytes) = f.len

\* ends[k] is where the k-th chunk of the stream ends.
Summed(ends) ==
    /\ ends \in [Nat -> Nat] /\ ends[0] = 0
    /\ \A k \in 1..Len(stream) : ends[k] = ends[k - 1] + stream[k].len

Finished == pc \notin {"read", "encrypt", "cancelled"}

\* No chunk but the last is empty, and the last one is marked.
FramesWritten ==
    pc \notin {"read", "cancelled"} =>
        \A k \in 1..Len(stream) : AsWritten(stream[k], k, pc # "encrypt" /\ k = Len(stream))

\* As many full chunks as there are frames.
FullSoFar == offset - held = ChunkSize * Len(stream) /\ (held = ChunkSize \/ offset = total)

\* All chunks but the last are full, an empty payload has one of no bytes.
Full ==
    /\ total <= ChunkSize * Len(stream)
    /\ \/ total = 0 /\ Len(stream) = 1
       \/ total > ChunkSize * (Len(stream) - 1)

\* The chunks end where the writer, and then the reader, has come to; as long
\* as no read was short they are as many as the superblock announces.
Progress(ends) ==
    /\ pc = "encrypt" => /\ held > 0 /\ ends[Len(stream)] = offset - held
                         /\ short \/ FullSoFar
    /\ Finished => /\ offset = total /\ stream # <<>> /\ ends[Len(stream)] = total
                   /\ short \/ Full
    /\ pc = "scan" => at <= Len(stream) /\ scan.bytes = ends[at - 1]
    /\ pc = "decrypt" => at <= Len(stream) /\ Len(out) = ends[at - 1]

Untouched == /\ ~tail /\ FramesWritten
             /\ \E ends : Summed(ends) /\ Progress(ends)

PristineOK == edits = 0 => Untouched /\ RoundTrip

\* What the fold in StreamLen is defined by.
LenFold(it) ==
    it = [T \in SUBSET (DOMAIN stream) |->
             IF T = {} THEN 0
             ELSE it[T \ {Max(T)}] + FrameOverhead + stream[Max(T)].len]

LEMMA LenFoldExists ==
    ASSUME stream \in Seq(Frames)
    PROVE  \E it : LenFold(it)
<1>1. PICK m \in Nat : m = Len(stream) /\ DOMAIN stream = 1..m
  OBVIOUS
<1>2. \A i \in 1..m : stream[i].len \in Nat
  <2>1. \A i \in 1..m : stream[i] \in Frames
    BY <1>1
  <2> QED
    BY <2>1 DEF Frames
<1>3. PICK h : h = [i \in Nat |-> [v \in Nat |->
                       IF i \in 1..m THEN v + FrameOverhead + stream[i].len ELSE v]]
  OBVIOUS
<1>4. h \in [Nat -> [Nat -> Nat]]
  <2>1. \A i, v \in Nat :
           (IF i \in 1..m THEN v + FrameOverhead + stream[i].len ELSE v) \in Nat
    BY <1>2 DEF FrameOverhead
  <2> QED
    BY <1>3, <2>1
<1>5. \A i \in 1..m, v \in Nat : h[i][v] = v + FrameOverhead + stream[i].len
  BY <1>3
<1>6. PICK it : FoldsUp(Nat, 0, h, m, it)
  BY <1>4, FoldExists
<1>7. ASSUME NEW T \in SUBSET (1..m)
      PROVE  it[T] = IF T = {} THEN 0 ELSE it[T \ {Max(T)}] + FrameOverhead + stream[Max(T)].len
  <2>1. it[T] = IF T = {} THEN 0 ELSE h[Max(T)][it[T \ {Max(T)}]]
    BY <1>6 DEF FoldsUp
  <2>2. CASE T # {}
    <3>1. Max(T) \in 1..m
      BY <2>2, MaxIs
    <3>2. it[T \ {Max(T)}] \in Nat
      BY <1>6 DEF FoldsUp
    <3> QED
      BY <1>5, <2>1, <2>2, <3>1, <3>2
  <2> QED
    BY <2>1, <2>2
<1>8. it = [T \in SUBSET (1..m) |-> it[T]]
  BY <1>6 DEF FoldsUp
<1> QED
  BY <1>1, <1>7, <1>8, ZenonT(30) DEF LenFold

\* The stream is as long as its chunks, and the overhead of each.
LEMMA StreamLenIs ==
    ASSUME stream \in Seq(Frames), NEW ends, Summed(ends)
    PROVE  StreamLen = FrameOverhead * Len(stream) + ends[Len(stream)]
<1>1. PICK it : LenFold(it) /\ StreamLen = it[DOMAIN stream]
  <2>1. StreamLen = (CHOOSE it : LenFold(it))[DOMAIN stream]
    BY Zenon DEF StreamLen, FoldLeft, MapThenFoldSet, LenFold
  <2>2. LenFold(CHOOSE it : LenFold(it))
    BY LenFoldExists, Zenon
  <2> QED
    BY <2>1, <2>2
<1>2. PICK m \in Nat : m = Len(stream) /\ DOMAIN stream = 1..m
  OBVIOUS
<1>3. \A T \in SUBSET (1..m) :
         it[T] = IF T = {} THEN 0 ELSE it[T \ {Max(T)}] + FrameOverhead + stream[Max(T)].len
  BY <1>1, <1>2 DEF LenFold
<1>4. /\ ends \in [Nat -> Nat] /\ ends[0] = 0
      /\ \A k \in 1..m : ends[k] = ends[k - 1] + stream[k].len
  BY <1>2 DEF Summed
<1>5. \A k \in 1..m : stream[k].len \in Nat
  <2>1. \A k \in 1..m : stream[k] \in Frames
    BY <1>2
  <2> QED
    BY <2>1 DEF Frames
<1> DEFINE D == {k \in Nat : k <= m => it[1..k] = FrameOverhead * k + ends[k]}
<1>6. 0 \in D
  <2>1. 1..0 = {}
    OBVIOUS
  <2>2. it[1..0] = 0
    BY <1>3, <2>1
  <2>3. FrameOverhead * 0 + ends[0] = 0
    BY <1>4 DEF FrameOverhead
  <2> QED
    BY <2>2, <2>3
<1>7. ASSUME NEW k \in Nat, k \in D PROVE k + 1 \in D
  <2> SUFFICES ASSUME k + 1 <= m PROVE it[1..(k + 1)] = FrameOverhead * (k + 1) + ends[k + 1]
    OBVIOUS
  <2>1. 1..(k + 1) \in SUBSET (1..m) /\ 1..(k + 1) # {} /\ k + 1 \in 1..m
    <3>1. 1 \in 1..(k + 1)
      OBVIOUS
    <3>2. k + 1 \in 1..m /\ \A i \in 1..(k + 1) : i \in 1..m
      OBVIOUS
    <3> QED
      BY <3>1, <3>2
  <2>2. Max(1..(k + 1)) = k + 1 /\ (1..(k + 1)) \ {k + 1} = 1..k
    BY MaxOfInterval
  <2>3. it[1..(k + 1)] = it[1..k] + FrameOverhead + stream[k + 1].len
    BY <1>3, <2>1, <2>2
  <2>4. it[1..k] = FrameOverhead * k + ends[k]
    BY <1>7
  <2>5. ends[k + 1] = ends[k] + stream[k + 1].len
    <3>1. (k + 1) - 1 = k
      OBVIOUS
    <3> QED
      BY <1>4, <2>1, <3>1
  <2>6. PICK x \in Nat, y \in Nat : x = ends[k] /\ y = stream[k + 1].len
    BY <1>4, <1>5, <2>1
  <2> HIDE DEF D
  <2> QED
    BY <2>3, <2>4, <2>5, <2>6, SMTT(30) DEF FrameOverhead
<1> HIDE DEF D
<1>8. Nat \subseteq D
  BY <1>6, <1>7, SetInduction
<1>9. it[1..m] = FrameOverhead * m + ends[m]
  BY <1>8 DEF D
<1> QED
  BY <1>1, <1>2, <1>9

\* The superblock announces as many frames as there are.
LEMMA FullIsPredicted ==
    ASSUME TypeOK, Full, Len(stream) \in Nat \ {0}
    PROVE  Predicted = FrameOverhead * Len(stream) + total
<1>1. PICK m \in Nat : m = Len(stream) - 1 /\ Len(stream) = m + 1
  OBVIOUS
<1>2. PICK c \in Nat \ {0} : c = ChunkSize
  BY ChunkStreamAssumption
<1>3. total \in Nat
  BY ChunkStreamAssumption DEF TypeOK
<1>4. PICK y \in Nat : y = c * m /\ c * (m + 1) = y + c
  <2>1. c * m \in Nat
    BY Product
  <2>2. c * (m + 1) = c * m + c
    OBVIOUS
  <2> QED
    BY <2>1, <2>2
<1>5. (IF total = 0 THEN 1 ELSE (total + ChunkSize - 1) \div ChunkSize) = m + 1
  <2>1. CASE total = 0
    <3>1. m = 0
      <4>1. CASE total > c * m
        BY <1>4, <2>1, <4>1
      <4>2. CASE Len(stream) = 1
        BY <1>1, <4>2
      <4> QED
        BY <1>1, <1>2, <4>1, <4>2 DEF Full
    <3> QED
      BY <2>1, <3>1
  <2>2. CASE total # 0
    <3>1. y < total /\ total <= y + c
      BY <1>1, <1>2, <1>4, <2>2 DEF Full
    <3>2. PICK a \in Nat : a = total + c - 1 /\ y + c <= a /\ a < y + c + c
      BY <1>3, <2>2, <3>1
    <3>3. m + 1 \in Nat /\ c * (m + 1) <= a /\ a < c * (m + 1) + c
      BY <1>4, <3>2
    <3>4. a \div c = m + 1
      BY <3>3, Quotient
    <3> QED
      BY <1>2, <2>2, <3>2, <3>4
  <2> QED
    BY <2>1, <2>2
<1>6. Predicted = total + (m + 1) * FrameOverhead
  BY <1>5, Zenon DEF Predicted
<1> QED
  BY <1>1, <1>3, <1>6 DEF FrameOverhead

\* A read that gets all it can takes a chunk, or what is left.
LEMMA ReadsAll ==
    ASSUME TypeOK, NEW n \in Reads
    PROVE  /\ n # 0 => offset < total
           /\ (\A x \in Reads : ~(x > n)) => n = ChunkSize \/ offset + n = total
<1>1. total \in Nat /\ offset \in 0..total /\ ChunkSize \in Nat \ {0}
  BY ChunkStreamAssumption DEF TypeOK
<1> QED
  BY <1>1 DEF Reads

\* The first chunk of a payload of no bytes, or one that is read ahead.
LEMMA FirstReadPristine ==
    ASSUME IInv, Untouched, FirstRead
    PROVE  Untouched'
<1>1. TypeOK /\ PlaceOK
  BY DEF IInv
<1>2. /\ pc = "read" /\ stream = <<>> /\ offset = 0 /\ held = 0 /\ total \in Nat
      /\ ChunkSize \in Nat \ {0} /\ ~tail /\ UNCHANGED <<total, tail>>
  BY <1>1, ChunkStreamAssumption DEF FirstRead, PlaceOK, TypeOK, Untouched
<1>3. PICK ends : ends = [k \in Nat |-> 0]
  OBVIOUS
<1>4. CASE token /\ pc' = "cancelled" /\ UNCHANGED <<writer, stream>>
  <2>1. FramesWritten' /\ Progress(ends)'
    BY <1>4 DEF FramesWritten, Progress, Finished
  <2>2. Summed(ends)'
    BY <1>2, <1>3, <1>4 DEF Summed
  <2> QED
    BY <1>2, <2>1, <2>2 DEF Untouched
<1>5. ASSUME NEW n \in Reads, ReadAhead(n),
             IF n = 0 THEN stream' = <<Frame(0, TRUE, 0, 0)>> /\ pc' = "check"
                      ELSE pc' = "encrypt" /\ UNCHANGED stream
      PROVE  Untouched'
  <2>1. /\ held' = n /\ offset' = n /\ n \in 0..ChunkSize /\ n \in 0..total
        /\ (n = 0 => total = 0) /\ (n # 0 /\ ~short' => n = ChunkSize \/ n = total)
    <3>1. /\ held' = n /\ offset' = offset + n
          /\ short' = (short \/ \E x \in Reads : x > n)
      BY <1>5 DEF ReadAhead
    <3>2. n \in 0..ChunkSize /\ offset + n \in 0..total /\ (n = 0 => offset = total)
      BY <1>1, ReadsOK
    <3>3. ~short' => n = ChunkSize \/ offset + n = total
      BY <1>1, <3>1, ReadsAll
    <3>4. offset + n = n
      BY <1>2, <3>2
    <3> QED
      BY <1>2, <3>1, <3>2, <3>3, <3>4
  <2>2. CASE n = 0
    <3>1. PICK f : f = Frame(0, TRUE, 0, 0)
      OBVIOUS
    <3>2. AsWritten(f, 1, TRUE) /\ f.len = 0
      BY <1>2, <3>1 DEF AsWritten, Frame, IsLast, Bytes
    <3>3. /\ stream' = <<f>> /\ pc' = "check" /\ Len(stream') = 1 /\ stream'[1] = f
          /\ stream' # <<>>
      <4>1. stream' = <<f>> /\ pc' = "check"
        BY <1>5, <2>2, <3>1
      <4>2. Len(<<f>>) = 1 /\ <<f>>[1] = f /\ <<f>> # <<>>
        OBVIOUS
      <4> QED
        BY <4>1, <4>2
    <3>4. FramesWritten'
      <4>1. \A k \in 1..1 : k = 1
        OBVIOUS
      <4>2. \A k \in 1..1 : AsWritten(stream'[k], k, pc' # "encrypt" /\ k = 1)
        BY <3>2, <3>3, <4>1
      <4> QED
        BY <3>3, <4>2 DEF FramesWritten
    <3>5. Summed(ends)'
      BY <1>3, <3>2, <3>3 DEF Summed
    <3>6. Full'
      BY <1>2, <2>1, <2>2, <3>3 DEF Full
    <3>7. Progress(ends)'
      BY <1>2, <1>3, <2>1, <2>2, <3>3, <3>6 DEF Progress, Finished
    <3> QED
      BY <1>2, <3>4, <3>5, <3>7 DEF Untouched
  <2>3. CASE n # 0
    <3>1. pc' = "encrypt" /\ stream' = <<>> /\ Len(stream') = 0
      BY <1>2, <1>5, <2>3
    <3>2. FramesWritten' /\ Summed(ends)'
      BY <1>3, <3>1 DEF FramesWritten, Summed
    <3>3. offset' - held' = 0 /\ ChunkSize * 0 = 0 /\ held' > 0
      BY <1>2, <2>1, <2>3
    <3>4. short' \/ FullSoFar'
      BY <1>2, <2>1, <2>3, <3>1, <3>3 DEF FullSoFar
    <3>5. Progress(ends)'
      BY <1>3, <3>1, <3>3, <3>4 DEF Progress, Finished
    <3> QED
      BY <1>2, <3>2, <3>5 DEF Untouched
  <2> QED
    BY <2>2, <2>3
<1> QED
  BY <1>4, <1>5 DEF FirstRead

\* The writer's turn: one full chunk more, or the last.
LEMMA EncryptPristine ==
    ASSUME IInv, Untouched, EncryptChunk
    PROVE  Untouched'
<1>1. TypeOK /\ PlaceOK
  BY DEF IInv
<1>2. PICK m \in Nat : m = Len(stream)
  BY <1>1 DEF PlaceOK
<1>3. PICK n \in Reads :
          /\ held' = n /\ offset' = offset + n
          /\ short' = (short \/ \E x \in Reads : x > n)
          /\ stream' = Append(stream, Frame(m, n = 0, held, offset - held))
          /\ pc' = IF n = 0 THEN "check" ELSE "encrypt"
  BY <1>2 DEF EncryptChunk, ReadAhead
<1>4. pc = "encrypt" /\ UNCHANGED <<total, tail>>
  BY DEF EncryptChunk
<1>5. /\ total \in Nat /\ offset \in 0..total /\ held \in 0..ChunkSize /\ held <= offset
      /\ ChunkSize \in Nat \ {0} /\ stream \in Seq(Frames)
  BY <1>1, ChunkStreamAssumption DEF TypeOK, PlaceOK
<1>6. /\ n \in 0..ChunkSize /\ offset + n \in 0..total /\ (n = 0 => offset = total)
      /\ (n # 0 => offset < total)
      /\ (~short' => ~short /\ (n = ChunkSize \/ offset + n = total))
  BY <1>1, <1>3, ReadsOK, ReadsAll
<1>7. PICK ends : Summed(ends) /\ Progress(ends)
  BY DEF Untouched
<1>8. held > 0 /\ ends[m] = offset - held /\ (short \/ FullSoFar)
  BY <1>2, <1>4, <1>7 DEF Progress
<1>9. PICK f : /\ f = Frame(m, n = 0, held, offset - held)
               /\ AsWritten(f, m + 1, n = 0) /\ f.len = held
  <2>1. PICK f : f = Frame(m, n = 0, held, offset - held)
    OBVIOUS
  <2>2. /\ f.index = m /\ f.last = (IF n = 0 THEN 1 ELSE 0) /\ f.len = held /\ f.fits = TRUE
        /\ f.seal.ours = TRUE /\ f.seal.index = m /\ f.seal.last = (n = 0)
        /\ f.seal.bytes = Bytes(offset - held, held)
    BY <2>1 DEF Frame
  <2>3. Len(Bytes(offset - held, held)) = held
    <3>1. offset - held \in Nat /\ held \in Nat /\ (offset - held) + held <= total
      BY <1>5
    <3> QED
      BY <1>5, <3>1, BytesAreSeq
  <2>4. IsLast(f) <=> n = 0
    BY <2>2 DEF IsLast
  <2> QED
    BY <1>5, <1>8, <2>1, <2>2, <2>3, <2>4 DEF AsWritten
<1>10. /\ Len(stream') = m + 1 /\ stream'[m + 1] = f /\ stream' # <<>>
       /\ \A k \in 1..m : stream'[k] = stream[k]
  BY <1>2, <1>3, <1>5, <1>9
<1>11. FramesWritten'
  <2>1. ASSUME NEW k \in 1..(m + 1)
        PROVE  AsWritten(stream'[k], k, pc' # "encrypt" /\ k = m + 1)
    <3>1. CASE k = m + 1
      BY <1>3, <1>9, <1>10, <3>1
    <3>2. CASE k # m + 1
      <4>1. k \in 1..m
        BY <3>2
      <4>2. AsWritten(stream[k], k, FALSE)
        BY <1>2, <1>4, <4>1 DEF Untouched, FramesWritten
      <4> QED
        BY <1>10, <3>2, <4>1, <4>2
    <3> QED
      BY <3>1, <3>2
  <2> QED
    BY <1>10, <2>1 DEF FramesWritten
<1>12. PICK more : more = [k \in Nat |-> IF k <= m THEN ends[k] ELSE offset]
  OBVIOUS
<1>13. Summed(more)' /\ more[m + 1] = offset
  <2>1. /\ ends \in [Nat -> Nat] /\ ends[0] = 0
        /\ \A k \in 1..m : ends[k] = ends[k - 1] + stream[k].len
    BY <1>2, <1>7 DEF Summed
  <2>2. /\ more \in [Nat -> Nat] /\ more[0] = 0 /\ more[m + 1] = offset
        /\ \A k \in 0..m : more[k] = ends[k]
    BY <1>5, <1>12, <2>1, SMTT(30)
  <2>3. ASSUME NEW k \in 1..(m + 1) PROVE more[k] = more[k - 1] + stream'[k].len
    <3>1. CASE k = m + 1
      <4>1. k - 1 = m /\ m \in 0..m
        BY <3>1
      <4>2. more[k - 1] = offset - held /\ stream'[k].len = held
        BY <1>8, <1>9, <1>10, <2>2, <3>1, <4>1
      <4>3. (offset - held) + held = offset
        BY <1>5
      <4> QED
        BY <2>2, <3>1, <4>2, <4>3
    <3>2. CASE k # m + 1
      <4>1. k \in 1..m /\ k \in 0..m /\ k - 1 \in 0..m
        BY <3>2
      <4> QED
        BY <1>10, <2>1, <2>2, <4>1
    <3> QED
      BY <3>1, <3>2
  <2> QED
    BY <1>10, <2>2, <2>3 DEF Summed
<1>14. PICK y \in Nat : y = ChunkSize * m /\ ChunkSize * (m + 1) = y + ChunkSize
  BY Counting
<1>15. CASE n = 0
  <2>1. pc' = "check" /\ offset' = total' /\ more[Len(stream')] = total'
    BY <1>3, <1>4, <1>5, <1>6, <1>10, <1>13, <1>15
  <2>2. short' \/ Full'
    <3> SUFFICES ASSUME ~short' PROVE Full'
      OBVIOUS
    <3>1. offset - held = y
      BY <1>2, <1>6, <1>8, <1>14 DEF FullSoFar
    <3>2. y < total /\ total <= y + ChunkSize
      BY <1>5, <1>6, <1>8, <1>15, <3>1
    <3>3. (m + 1) - 1 = m
      OBVIOUS
    <3> QED
      BY <1>4, <1>10, <1>14, <3>2, <3>3 DEF Full
  <2>3. Progress(more)'
    BY <1>10, <2>1, <2>2 DEF Progress, Finished
  <2> QED
    BY <1>4, <1>11, <1>13, <2>3 DEF Untouched
<1>16. CASE n # 0
  <2>1. pc' = "encrypt" /\ held' > 0 /\ offset' - held' = offset
    BY <1>3, <1>5, <1>6, <1>16
  <2>2. short' \/ FullSoFar'
    <3> SUFFICES ASSUME ~short' PROVE FullSoFar'
      OBVIOUS
    <3>1. offset - held = y /\ held = ChunkSize
      BY <1>2, <1>5, <1>6, <1>8, <1>14, <1>16 DEF FullSoFar
    <3>2. offset = y + ChunkSize
      BY <1>5, <3>1
    <3>3. held' = ChunkSize \/ offset' = total'
      BY <1>3, <1>4, <1>6
    <3> QED
      BY <1>10, <1>14, <2>1, <3>2, <3>3 DEF FullSoFar
  <2>3. Progress(more)'
    BY <1>10, <1>13, <2>1, <2>2 DEF Progress, Finished
  <2> QED
    BY <1>4, <1>11, <1>13, <2>3 DEF Untouched
<1> QED
  BY <1>15, <1>16

\* The lengths are those that the superblock announces, unless a read was short.
LEMMA CheckPristine ==
    ASSUME IInv, Untouched, CheckLengths
    PROVE  Untouched' /\ (pc' = "failed" => short')
<1>1. TypeOK /\ PlaceOK
  BY DEF IInv
<1>2. /\ pc = "check"
      /\ pc' = IF offset = total /\ StreamLen = Predicted THEN "stored" ELSE "failed"
      /\ UNCHANGED <<total, offset, held, short, stream, tail>>
  BY DEF CheckLengths, writer
<1>3. PICK ends : Summed(ends) /\ Progress(ends)
  BY DEF Untouched
<1>4. /\ offset = total /\ stream # <<>> /\ ends[Len(stream)] = total /\ (short \/ Full)
  BY <1>2, <1>3 DEF Progress, Finished
<1>5. pc' \in {"stored", "failed"}
  <2>1. \A c \in BOOLEAN : (IF c THEN "stored" ELSE "failed") \in {"stored", "failed"}
    OBVIOUS
  <2> QED
    BY <1>2, <2>1
<1>6. pc' = "failed" => short'
  <2> SUFFICES ASSUME ~short PROVE pc' = "stored"
    BY <1>2
  <2>1. StreamLen = FrameOverhead * Len(stream) + total
    BY <1>1, <1>3, <1>4, StreamLenIs DEF PlaceOK
  <2>2. Len(stream) \in Nat \ {0}
    BY <1>1, <1>4 DEF PlaceOK
  <2>3. Predicted = FrameOverhead * Len(stream) + total
    BY <1>1, <1>4, <2>2, FullIsPredicted
  <2> QED
    BY <1>2, <1>4, <2>1, <2>3
<1>7. FramesWritten' /\ Summed(ends)'
  BY <1>2, <1>3, <1>5 DEF Untouched, FramesWritten, Summed
<1>8. Progress(ends)'
  BY <1>2, <1>4, <1>5 DEF Progress, Finished, Full
<1> QED
  BY <1>2, <1>6, <1>7, <1>8 DEF Untouched

\* What the reader finds at a frame that nobody has touched: it passes the checks,
\* opens with the right key, and is the terminal one just when nothing follows.
LEMMA FrameFound ==
    ASSUME IInv, Untouched, Finished, NEW ends, Summed(ends), Progress(ends), at <= Len(stream)
    PROVE  /\ at \in 1..Len(stream) /\ stream[at] \in Frames
           /\ Valid(stream[at], at) /\ (right => Opens(stream[at]))
           /\ ends[at] = ends[at - 1] + stream[at].len
           /\ IsLast(stream[at]) => NothingFollows(at + 1) /\ ends[at] = total
           /\ ~IsLast(stream[at]) => at + 1 <= Len(stream)
<1>1. TypeOK /\ PlaceOK
  BY DEF IInv
<1>2. PICK m \in Nat : m = Len(stream)
  BY <1>1 DEF PlaceOK
<1>3. at \in 1..m
  BY <1>1, <1>2 DEF TypeOK
<1>4. stream[at] \in Frames
  BY <1>1, <1>2, <1>3 DEF PlaceOK
<1>5. AsWritten(stream[at], at, at = m)
  BY <1>2, <1>3 DEF Untouched, FramesWritten, Finished
<1>6. PICK f \in Frames : f = stream[at] /\ AsWritten(f, at, at = m)
  BY <1>4, <1>5
<1>7. Valid(f, at) /\ (right => Opens(f)) /\ (IsLast(f) <=> at = m)
  <2>1. /\ f.index = at - 1 /\ f.len <= ChunkSize /\ f.fits /\ (at = m \/ f.len > 0)
        /\ (IsLast(f) <=> at = m)
        /\ f.seal.ours /\ f.seal.index = at - 1 /\ f.seal.last = (at = m)
        /\ Len(f.seal.bytes) = f.len
    BY <1>6, Zenon DEF AsWritten
  <2>2. Valid(f, at)
    BY <2>1, Zenon DEF Valid
  <2>3. f.seal.last = IsLast(f) /\ f.seal.index = f.index
    <3>1. IsLast(f) \in BOOLEAN
      BY DEF IsLast
    <3> QED
      BY <2>1, <3>1
  <2>4. right => Opens(f)
    BY <2>1, <2>3, Zenon DEF Opens
  <2> QED
    BY <2>1, <2>2, <2>4
<1>8. ends[at] = ends[at - 1] + f.len
  BY <1>2, <1>3, <1>6 DEF Summed
<1>9. ends[m] = total
  BY <1>2 DEF Progress
<1>10. ~tail /\ (at = m => at + 1 > m)
  BY <1>3 DEF Untouched
<1>11. at # m => at + 1 <= m
  BY <1>3
<1> QED
  BY <1>2, <1>3, <1>4, <1>6, <1>7, <1>8, <1>9, <1>10, <1>11 DEF NothingFollows

\* A step that leaves the stream alone, after the writer has finished.
LEMMA ReaderPristine ==
    ASSUME Untouched, Finished, Finished', NEW ends, Summed(ends), Progress(ends),
           UNCHANGED <<total, offset, held, short, stream, tail>>,
           pc' = "scan" => at' <= Len(stream) /\ scan'.bytes = ends[at' - 1],
           pc' = "decrypt" => at' <= Len(stream) /\ Len(out') = ends[at' - 1]
    PROVE  Untouched'
<1>1. FramesWritten' /\ Summed(ends)'
  BY DEF Untouched, FramesWritten, Summed, Finished
<1>2. Progress(ends)'
  BY DEF Progress, Finished, Full
<1> QED
  BY <1>1, <1>2 DEF Untouched

\* The scan finds nothing wrong.
LEMMA ScanPristine ==
    ASSUME IInv, Untouched, StartScan \/ ScanFrame \/ ScanFindsNoFrame
    PROVE  Untouched' /\ (scan' = scan \/ scan'.status \in {"busy", "ok", "cancelled"})
<1>1. TypeOK /\ PlaceOK
  BY DEF IInv
<1>2. /\ pc \in {"stored", "scan"} /\ pc' \in {"scan", "decrypt"}
      /\ UNCHANGED <<total, offset, held, short, stream, tail, dec, out>>
  BY DEF StartScan, ScanFrame, ScanFindsNoFrame, ScanEnds, writer
<1>3. Finished /\ Finished'
  BY <1>2 DEF Finished
<1>4. PICK ends : Summed(ends) /\ Progress(ends)
  BY DEF Untouched
<1>5. /\ out' = <<>> /\ Len(out') = 0 /\ ends[0] = 0 /\ stream # <<>>
      /\ Len(stream) \in Nat /\ 1 <= Len(stream) /\ 1 - 1 = 0
  <2>1. out = <<>>
    BY <1>1, <1>2 DEF PlaceOK, Writing
  <2>2. stream # <<>> /\ stream \in Seq(Frames)
    BY <1>1, <1>3, <1>4 DEF Progress, PlaceOK
  <2>3. Len(stream) \in Nat /\ 1 <= Len(stream)
    BY <2>2
  <2> QED
    BY <1>2, <1>4, <2>1, <2>2, <2>3 DEF Summed
<1>6. ASSUME pc' = "decrypt", at' = 1 PROVE Untouched'
  BY <1>2, <1>3, <1>4, <1>5, <1>6, ReaderPristine
<1>7. CASE StartScan
  <2>1. at = 1 /\ scan.bytes = 0 /\ at' = 1
    BY <1>1, <1>7 DEF StartScan, PlaceOK, Writing
  <2>2. CASE token
    <3>1. pc' = "decrypt" /\ scan' = [scan EXCEPT !.status = "cancelled"]
      BY <1>7, <2>2 DEF StartScan
    <3>2. scan'.status = "cancelled"
      BY <1>1, <3>1 DEF TypeOK
    <3> QED
      BY <1>6, <2>1, <3>1, <3>2
  <2>3. CASE ~token
    <3>1. pc' = "scan" /\ scan' = scan
      BY <1>7, <2>3 DEF StartScan
    <3> QED
      BY <1>2, <1>3, <1>4, <1>5, <2>1, <3>1, ReaderPristine
  <2> QED
    BY <2>2, <2>3
<1>8. CASE ScanFrame \/ ScanFindsNoFrame
  <2>1. pc = "scan" /\ at <= Len(stream) /\ scan.bytes = ends[at - 1]
    BY <1>4, <1>8 DEF ScanFrame, ScanFindsNoFrame, Progress
  <2>2. PICK f \in Frames :
           /\ f = stream[at] /\ at \in 1..Len(stream) /\ Valid(f, at)
           /\ ends[at] = ends[at - 1] + f.len
           /\ IsLast(f) => NothingFollows(at + 1) /\ ends[at] = total
           /\ ~IsLast(f) => at + 1 <= Len(stream)
    BY <1>3, <1>4, <2>1, FrameFound
  <2>3. ScanFrame
    BY <1>8, <2>1 DEF ScanFindsNoFrame, HasFrame
  <2>4. CASE ~IsLast(f)
    <3>1. at' = at + 1 /\ scan' = [scan EXCEPT !.bytes = scan.bytes + f.len] /\ pc' = pc
      BY <2>2, <2>3, <2>4 DEF ScanFrame
    <3>2. scan'.bytes = ends[at] /\ scan'.status = scan.status
      BY <1>1, <2>1, <2>2, <3>1 DEF TypeOK
    <3>3. scan.status = "busy"
      BY <1>1, <2>1 DEF PlaceOK
    <3>4. at' - 1 = at
      BY <2>2, <3>1
    <3> QED
      BY <1>2, <1>3, <1>4, <2>1, <2>2, <2>4, <3>1, <3>2, <3>3, <3>4, ReaderPristine
  <2>5. CASE IsLast(f)
    <3>1. ScanEnds(IF ~NothingFollows(at + 1) THEN "malformed"
                   ELSE IF scan.bytes + f.len # total THEN "mismatch" ELSE "ok",
                   scan.bytes + f.len)
      BY <2>2, <2>3, <2>5 DEF ScanFrame
    <3>2. ScanEnds("ok", scan.bytes + f.len)
      BY <2>1, <2>2, <2>5, <3>1
    <3>3. scan'.status = "ok" /\ at' = 1 /\ pc' = "decrypt"
      BY <3>2 DEF ScanEnds
    <3> QED
      BY <1>6, <3>3
  <2> QED
    BY <2>4, <2>5
<1> QED
  BY <1>7, <1>8

\* Nor does the decryption, with the right key.
LEMMA DecryptPristine ==
    ASSUME IInv, Untouched, DecryptFrame \/ DecryptFindsNoFrame \/ DecryptSeesCancel
    PROVE  Untouched' /\ (right => dec' \in {"busy", "ok", "cancelled"})
<1>1. TypeOK /\ PlaceOK
  BY DEF IInv
<1>2. /\ pc = "decrypt" /\ dec = "busy" /\ pc' \in {"decrypt", "end"}
      /\ UNCHANGED <<total, right, offset, held, short, stream, tail, scan>>
  BY <1>1 DEF DecryptFrame, DecryptFindsNoFrame, DecryptSeesCancel, DecryptEnds, PlaceOK, writer
<1>3. Finished /\ Finished'
  BY <1>2 DEF Finished
<1>4. PICK ends : Summed(ends) /\ Progress(ends)
  BY DEF Untouched
<1>5. ASSUME pc' = "end" PROVE Untouched'
  BY <1>2, <1>3, <1>4, <1>5, ReaderPristine
<1>6. at <= Len(stream) /\ Len(out) = ends[at - 1]
  BY <1>2, <1>4 DEF Progress
<1>7. CASE DecryptSeesCancel
  <2>1. dec' = "cancelled" /\ pc' = "end"
    BY <1>7 DEF DecryptSeesCancel, DecryptEnds
  <2> QED
    BY <1>5, <2>1
<1>8. CASE DecryptFrame \/ DecryptFindsNoFrame
  <2>1. PICK f \in Frames :
           /\ f = stream[at] /\ at \in 1..Len(stream) /\ Valid(f, at) /\ (right => Opens(f))
           /\ ends[at] = ends[at - 1] + f.len
           /\ IsLast(f) => NothingFollows(at + 1) /\ ends[at] = total
           /\ ~IsLast(f) => at + 1 <= Len(stream)
    BY <1>3, <1>4, <1>6, FrameFound
  <2>2. DecryptFrame
    BY <1>6, <1>8 DEF DecryptFindsNoFrame, HasFrame
  <2>3. CASE ~Opens(f)
    <3>1. pc' = "end" /\ ~right
      BY <2>1, <2>2, <2>3 DEF DecryptFrame, DecryptEnds
    <3> QED
      BY <1>5, <3>1
  <2>4. CASE Opens(f)
    <3>1. /\ out' = out \o f.seal.bytes /\ at' = at + 1
          /\ \/ ~IsLast(f) /\ UNCHANGED <<dec, pc>>
             \/ /\ IsLast(f)
                /\ DecryptEnds(IF NothingFollows(at + 1) /\ Len(out \o f.seal.bytes) = total
                                  THEN "ok" ELSE "malformed")
      BY <2>1, <2>2, <2>4 DEF DecryptFrame
    <3>2. Len(out') = ends[at]
      <4>1. f.seal.bytes \in Seq(1..total) /\ Len(f.seal.bytes) = f.len
        BY <2>4 DEF Opens, Frames, Seals
      <4>2. \A a, b \in Seq(1..total) : Len(a \o b) = Len(a) + Len(b)
        OBVIOUS
      <4>3. out \in Seq(1..total)
        BY <1>1 DEF TypeOK
      <4> QED
        BY <1>6, <2>1, <3>1, <4>1, <4>2, <4>3
    <3>3. CASE ~IsLast(f)
      <4>1. dec' = "busy" /\ pc' = "decrypt" /\ at' <= Len(stream) /\ at' - 1 = at
        BY <1>2, <2>1, <3>1, <3>3
      <4> QED
        BY <1>2, <1>3, <1>4, <3>2, <4>1, ReaderPristine
    <3>4. CASE IsLast(f)
      <4>1. DecryptEnds("ok")
        BY <2>1, <3>1, <3>2, <3>4
      <4> QED
        BY <1>5, <4>1 DEF DecryptEnds
    <3> QED
      BY <3>3, <3>4
  <2> QED
    BY <2>3, <2>4
<1> QED
  BY <1>7, <1>8

\* Any step, as long as nobody edits the stream.
LEMMA PristineStep ==
    ASSUME IInv, PristineOK, [Next]_vars
    PROVE  PristineOK'
<1> SUFFICES ASSUME edits' = 0 PROVE Untouched' /\ RoundTrip'
  BY DEF PristineOK
<1>1. ~Tamper
  <2> SUFFICES ASSUME Tamper PROVE FALSE
    OBVIOUS
  <2>1. Edit
    <3>1. \A i \in DOMAIN stream : Drop(i) \/ Repeat(i) \/ Damage(i) => Edit
      BY Zenon DEF Drop, Repeat, Damage
    <3>2. \A i \in DOMAIN stream : Relabel(i) \/ Resize(i) => Edit
      BY Zenon DEF Relabel, Resize
    <3>3. \A i, j \in DOMAIN stream : Exchange(i, j) => Edit
      BY Zenon DEF Exchange
    <3> QED
      BY <3>1, <3>2, <3>3, Zenon DEF Tamper, CutLast, AddBytes
  <2>2. edits' = edits + 1 /\ edits \in Nat
    BY <2>1, ChunkStreamAssumption DEF Edit, IInv, TypeOK
  <2> QED
    BY <2>2
<1>2. edits = 0
  BY <1>1 DEF Next, Write, Read, FirstRead, EncryptChunk, EncryptSeesCancel, CheckLengths,
     StartScan, ScanFrame, ScanFindsNoFrame, DecryptFrame, DecryptFindsNoFrame, DecryptSeesCancel,
     RequestCancel, vars
<1>3. Untouched /\ RoundTrip
  BY <1>2 DEF PristineOK
<1>4. /\ scan.status \notin {"malformed", "mismatch"}
      /\ right => dec \notin {"malformed", "auth"}
      /\ pc = "failed" => short
  BY <1>2, <1>3 DEF RoundTrip
<1>5. CASE FirstRead \/ EncryptChunk
  <2>1. Untouched'
    BY <1>3, <1>5, FirstReadPristine, EncryptPristine
  <2>2. pc' # "failed" /\ UNCHANGED <<right, scan, dec>>
    BY <1>5 DEF FirstRead, EncryptChunk, reader
  <2> QED
    BY <1>4, <2>1, <2>2 DEF RoundTrip
<1>6. CASE CheckLengths
  <2>1. Untouched' /\ (pc' = "failed" => short')
    BY <1>3, <1>6, CheckPristine
  <2>2. UNCHANGED <<right, scan, dec>>
    BY <1>6 DEF CheckLengths, reader
  <2> QED
    BY <1>4, <2>1, <2>2 DEF RoundTrip
<1>7. CASE EncryptSeesCancel
  <2>1. pc' = "cancelled" /\ UNCHANGED <<right, stream, tail, scan, dec>>
    BY <1>7 DEF EncryptSeesCancel, reader
  <2>2. PICK ends : Summed(ends)
    BY <1>3 DEF Untouched
  <2>3. FramesWritten' /\ Summed(ends)' /\ Progress(ends)'
    BY <2>1, <2>2 DEF FramesWritten, Summed, Progress, Finished
  <2> QED
    BY <1>3, <1>4, <2>1, <2>3 DEF Untouched, RoundTrip
<1>8. CASE StartScan \/ ScanFrame \/ ScanFindsNoFrame
  <2>1. Untouched' /\ (scan' = scan \/ scan'.status \in {"busy", "ok", "cancelled"})
    BY <1>3, <1>8, ScanPristine
  <2>2. pc' # "failed" /\ UNCHANGED <<right, dec>>
    BY <1>8 DEF StartScan, ScanFrame, ScanFindsNoFrame, ScanEnds
  <2> QED
    BY <1>4, <2>1, <2>2 DEF RoundTrip
<1>9. CASE DecryptFrame \/ DecryptFindsNoFrame \/ DecryptSeesCancel
  <2>1. Untouched' /\ (right => dec' \in {"busy", "ok", "cancelled"})
    BY <1>3, <1>9, DecryptPristine
  <2>2. pc' # "failed" /\ UNCHANGED <<right, scan>>
    BY <1>9 DEF DecryptFrame, DecryptFindsNoFrame, DecryptSeesCancel, DecryptEnds
  <2> QED
    BY <1>4, <2>1, <2>2 DEF RoundTrip
<1>10. CASE RequestCancel \/ UNCHANGED vars
  <2>1. UNCHANGED <<total, right, pc, offset, held, short, stream, tail, at, scan, dec, out>>
    BY <1>10 DEF RequestCancel, vars, writer, reader
  <2>2. PICK ends : Summed(ends) /\ Progress(ends)
    BY <1>3 DEF Untouched
  <2>3. FramesWritten' /\ Summed(ends)' /\ Progress(ends)'
    BY <1>3, <2>1, <2>2 DEF Untouched, FramesWritten, Summed, Progress, Finished, FullSoFar, Full
  <2> QED
    BY <1>3, <1>4, <2>1, <2>3 DEF Untouched, RoundTrip
<1> QED
  BY <1>1, <1>5, <1>6, <1>7, <1>8, <1>9, <1>10 DEF Next, Write, Read

\* What was stored, and not touched, is scanned and decrypted, and unless a read
\* came back short it is stored: the stream has the length that the superblock
\* announces (protected_stream.rs:53-174 and 198-343, writer.rs:136).
THEOREM StoredIsReadBack == Spec => []RoundTrip
<1>1. Init => PristineOK
  <2> SUFFICES ASSUME Init PROVE PristineOK
    OBVIOUS
  <2>1. /\ pc = "read" /\ stream = <<>> /\ ~tail /\ scan.status = "busy" /\ dec = "busy"
    BY DEF Init
  <2>2. PICK ends : ends = [k \in Nat |-> 0]
    OBVIOUS
  <2>3. FramesWritten /\ Summed(ends) /\ Progress(ends)
    BY <2>1, <2>2 DEF FramesWritten, Summed, Progress, Finished
  <2> QED
    BY <2>1, <2>3 DEF PristineOK, Untouched, RoundTrip
<1>2. IInv /\ PristineOK /\ [Next]_vars => PristineOK'
  BY PristineStep
<1>3. PristineOK => RoundTrip
  BY DEF PristineOK, RoundTrip
<1> QED
  BY <1>1, <1>2, <1>3, Invariance, PTL DEF Spec

===============================================================================
