----------------------------- MODULE ArtifactProofs -----------------------------
(***************************************************************************)
(* Theorems about Artifact for shards, stripes, artifacts and edits of any *)
(* number.  TLC checks the same properties on MCArtifact.                  *)
(***************************************************************************)
EXTENDS Artifact, TLAPS, FiniteSetTheorems, WellFoundedInduction

-------------------------------------------------------------------------------
(* The inductive invariant.                                                  *)

\* Whatever has been lost before, inserted or damaged, the parts of the artifact
\* keep their distances behind the first cell, which the notice begins with.
Aligned(f) ==
    \A i, j \in 2..Len(f) :
        f[i].of = Subject /\ f[j].of = Subject => f[j].place - f[i].place = j - i

\* Where the region of a is, when f is parsed, and whether it can be there.
At(f, a) == RegionAt(a, Starts(f), Ends(f))
Fits(f, a) ==
    /\ StartFits(a, Starts(f), Ends(f)) /\ At(f, a) + RegionLen(a) - 1 <= Len(f)
    /\ EndAt(a, Starts(f), Ends(f)) >= At(f, a) + RegionLen(a)
Choice(f) == Chosen(Starts(f), Ends(f))

\* What parsing has found in f.
Found(f, p) == p.of \in Choice(f) /\ p.at = At(f, p.of) /\ Fits(f, p.of)

\* What reading has taken from f.
End(p) == p.at + RegionLen(p.of) - 1
Taken(f, p, r) == End(p) <= Len(f) /\ r = SubSeq(f, p.at, End(p))

AllRepairable == \A s \in 1..Stripes(parsed.of) : Repairable(s)

\* The reader's place and result follow from the two files that it has seen.
ReaderOK ==
    /\ pc = "parse" => result = "none"
    /\ pc \in {"read", "repair"} => result = "none" /\ Found(seen.parsed, parsed)
    /\ pc = "repair" => Taken(seen.read, parsed, region)
    /\ pc = "done" =>
          \/ result = "no superblock" /\ Choice(seen.parsed) = {}
          \/ result = "region mismatch" /\ \E a \in Choice(seen.parsed) : ~Fits(seen.parsed, a)
          \/ /\ result = "region mismatch"
             /\ Found(seen.parsed, parsed) /\ End(parsed) > Len(seen.read)
          \/ /\ result = "too damaged" /\ ~AllRepairable
             /\ Found(seen.parsed, parsed) /\ Taken(seen.read, parsed, region)
          \/ /\ result = "ok" /\ AllRepairable
             /\ stream = [n \in 1..Shards[parsed.of] |-> Recovered(n)]
             /\ Found(seen.parsed, parsed) /\ Taken(seen.read, parsed, region)

IInv == TypeOK /\ Aligned(file) /\ Aligned(seen.parsed) /\ ReaderOK

-------------------------------------------------------------------------------
(* Sizes and places.                                                         *)

\* Of a product of two numbers other than zero, none is larger.
LEMMA Product ==
    ASSUME NEW a \in Nat, NEW b \in Nat
    PROVE  /\ a * b \in Nat
           /\ a # 0 /\ b # 0 => a * b # 0 /\ a <= a * b /\ b <= a * b
OBVIOUS

\* Every part has its size.
LEMMA Sizes ==
    ASSUME NEW a \in Artifacts
    PROVE  /\ Stripe \in Nat /\ Stripe = Data + Parity
           /\ Data \in Nat \ {0} /\ Parity \in Nat \ {0} /\ Shards[a] \in Nat \ {0}
           /\ Stripes(a) \in Nat \ {0} /\ Records(a) \in Nat \ {0}
           /\ RegionLen(a) = Records(a) + Records(a) /\ EndPlace(a) = RegionLen(a) + 5
<1>1. /\ Stripe \in Nat \ {0} /\ Stripe = Data + Parity
      /\ Data \in Nat \ {0} /\ Parity \in Nat \ {0} /\ Shards[a] \in Nat \ {0}
  BY ArtifactAssumption DEF Stripe
<1>2. PICK q \in Nat : q = (Shards[a] + Data - 1) \div Data /\ q # 0
  <2>1. PICK m \in Nat, d \in Nat \ {0} : m = Shards[a] + Data - 1 /\ d = Data /\ m >= d
    BY <1>1
  <2>2. m \div d \in Nat /\ m \div d # 0
    BY <2>1
  <2> QED
    BY <2>1, <2>2
<1>3. Stripes(a) \in Nat \ {0}
  BY <1>2 DEF Stripes
<1>4. Records(a) \in Nat \ {0}
  BY <1>1, <1>3, Product DEF Records
<1> QED
  BY <1>1, <1>3, <1>4 DEF RegionLen, EndPlace, RecordPlace, StartPlace, PartLen

\* The records of a stripe follow those of the stripes before it.
LEMMA InStripe ==
    ASSUME NEW a \in Artifacts, NEW s \in 1..Stripes(a), NEW j \in 1..Stripe
    PROVE  (s - 1) * Stripe + j \in 1..Records(a)
<1>1. PICK t \in Nat : t = s - 1 /\ t + 1 <= Stripes(a)
  BY Sizes
<1>2. PICK w \in Nat : w = Stripe
  BY Sizes
<1>3. (t + 1) * w <= Stripes(a) * w
  <2>1. PICK m \in Nat : m = Stripes(a) /\ t + 1 <= m
    BY <1>1, Sizes
  <2> QED
    BY <2>1
<1>4. PICK x \in Nat : x = t * w
  OBVIOUS
<1>5. (t + 1) * w = x + w
  BY <1>4
<1>6. Records(a) = Stripes(a) * w /\ x + w <= Records(a)
  BY <1>2, <1>3, <1>5 DEF Records
<1>7. (s - 1) * Stripe = x
  BY <1>1, <1>2, <1>4
<1> QED
  BY <1>2, <1>6, <1>7, Sizes

\* A record is of one stripe.
LEMMA OneStripe ==
    ASSUME NEW s \in Nat, NEW t \in Nat, NEW k \in Nat,
           (s - 1) * Stripe + k = (t - 1) * Stripe + k
    PROVE  s = t
<1>1. PICK w \in Nat \ {0} : w = Stripe
  BY ArtifactAssumption DEF Stripe
<1>2. s * w = t * w
  BY <1>1
<1>3. CASE s < t
  <2>1. (s + 1) * w <= t * w /\ (s + 1) * w = s * w + w
    BY <1>3
  <2> QED
    BY <1>2, <2>1
<1>4. CASE t < s
  <2>1. (t + 1) * w <= s * w /\ (t + 1) * w = t * w + w
    BY <1>4
  <2> QED
    BY <1>2, <2>1
<1> QED
  BY <1>3, <1>4

\* A data shard has its stripe and its place in it.
LEMMA DataShard ==
    ASSUME NEW a \in Artifacts, NEW n \in 1..Shards[a]
    PROVE  /\ (n - 1) \div Data + 1 \in 1..Stripes(a)
           /\ ((n - 1) % Data) + 1 \in 1..Stripe
           /\ DataRecord(n) = (((n - 1) \div Data + 1) - 1) * Stripe + (((n - 1) % Data) + 1)
           /\ DataRecord(n) \in 1..Records(a)
<1>1. PICK m \in Nat, d \in Nat \ {0}, h \in Nat :
         m = n - 1 /\ d = Data /\ h = Shards[a] /\ m + 1 <= h
  <2>1. Data \in Nat \ {0} /\ Shards[a] \in Nat
    BY Sizes
  <2>2. n - 1 \in Nat /\ n - 1 + 1 <= Shards[a]
    BY <2>1
  <2> QED
    BY <2>1, <2>2
<1>2. PICK q \in Nat, r \in 0..(d - 1) : q = m \div d /\ r = m % d /\ m = d * q + r
  OBVIOUS
<1>3. PICK p \in Nat : p = (h + d - 1) \div d /\ h + d - 1 < d * p + d
  <2>1. PICK u \in Nat : u = h + d - 1
    BY <1>1
  <2>2. u \div d \in Nat /\ u % d \in 0..(d - 1) /\ u = d * (u \div d) + (u % d)
    OBVIOUS
  <2>3. d * (u \div d) \in Nat
    BY <2>2
  <2> QED
    BY <2>1, <2>2, <2>3
<1>4. q < p
  <2>1. SUFFICES ASSUME p <= q PROVE FALSE
    OBVIOUS
  <2>2. d * p <= d * q /\ d * p \in Nat /\ d * q \in Nat
    BY <2>1
  <2> QED
    BY <1>1, <1>2, <1>3, <2>2
<1>5. (n - 1) \div Data = q /\ (n - 1) % Data = r /\ Stripes(a) = p
  BY <1>1, <1>2, <1>3 DEF Stripes
<1>6. q + 1 \in 1..Stripes(a) /\ r + 1 \in 1..Stripe
  BY <1>1, <1>4, <1>5, Sizes
<1>7. DataRecord(n) = ((q + 1) - 1) * Stripe + (r + 1)
  <2>1. (q + 1) - 1 = q
    OBVIOUS
  <2>2. PICK x \in Nat : x = q * Stripe
    BY Sizes
  <2> QED
    BY <1>5, <2>1, <2>2 DEF DataRecord
<1>8. DataRecord(n) \in 1..Records(a)
  BY <1>6, <1>7, InStripe
<1> QED
  BY <1>5, <1>6, <1>7, <1>8

\* Numbers have a least one among them.
LEMMA Least ==
    ASSUME NEW T \in SUBSET Nat, T # {}
    PROVE  \E x \in T : \A y \in T : x <= y
<1>1. PICK x \in T : \A y \in T : ~ (<<y, x>> \in OpToRel(<, Nat))
  BY WFMin, NatLessThanWellFounded, Zenon
<1>2. \A y \in T : ~ (y < x)
  BY <1>1, Zenon DEF OpToRel
<1> QED
  BY <1>2

-------------------------------------------------------------------------------
(* Repair.                                                                   *)

\* Every shard record of the region that has a right checksum is a's, and in the
\* place where a has it.
RegionIs(a) == \A n \in 1..Records(a) : IsShard(n) => Held(n) = Cell(a, RecordPlace(n))

\* A stripe that can be repaired has shards to be repaired from.
LEMMA SomeUsed ==
    ASSUME NEW s, Repairable(s)
    PROVE  Used(s) # {} /\ Used(s) \subseteq Present(s) /\ Present(s) \subseteq 1..Stripe
<1>1. Present(s) \subseteq 1..Stripe /\ Used(s) \subseteq Present(s)
  BY DEF Present, Used
<1>2. Data \in Nat \ {0} /\ Cardinality({}) = 0
  BY ArtifactAssumption, FS_EmptySet
<1>3. Present(s) # {}
  <2>1. Present(s) = {} => Cardinality(Present(s)) = 0
    BY <1>2
  <2> QED
    BY <1>2, <2>1 DEF Repairable
<1>4. PICK j \in Present(s) : \A k \in Present(s) : j <= k
  <2>1. Present(s) \in SUBSET Nat
    BY <1>1
  <2> QED
    BY <1>3, <2>1, Least
<1>5. {k \in Present(s) : k < j} = {}
  BY <1>1, <1>4
<1>6. j \in Used(s)
  BY <1>2, <1>4, <1>5 DEF Used
<1> QED
  BY <1>1, <1>6

\* What is computed for a missing shard is what the artifact had there.
LEMMA ComputedIsRight ==
    ASSUME NEW a \in Artifacts, RegionIs(a), NEW s \in 1..Stripes(a), Repairable(s), NEW j
    PROVE  Computed(s, j) = Original(a, s, j)
<1>1. /\ Used(s) # {} /\ Used(s) \subseteq Present(s) /\ Present(s) \subseteq 1..Stripe
      /\ s \in Nat
  BY SomeUsed, Sizes
<1>2. ASSUME NEW k \in Used(s)
      PROVE  Held((s - 1) * Stripe + k) = Original(a, s, k)
  <2>1. k \in 1..Stripe /\ IsShard((s - 1) * Stripe + k)
    BY <1>1 DEF Present
  <2>2. (s - 1) * Stripe + k \in 1..Records(a)
    BY <2>1, InStripe
  <2> QED
    BY <2>1, <2>2 DEF RegionIs, Original
<1> DEFINE S == UNION {[of : {b}, stripe : 1..Stripes(b)] : b \in Artifacts}
<1>3. [of |-> a, stripe |-> s] \in Origins(s)
  <2>1. [of |-> a, stripe |-> s] \in S
    <3>1. [of |-> a, stripe |-> s] \in [of : {a}, stripe : 1..Stripes(a)]
      OBVIOUS
    <3> QED
      BY <3>1
  <2>2. \A k \in Used(s) : Held((s - 1) * Stripe + k) = Original(a, s, k)
    BY <1>2
  <2> QED
    BY <2>1, <2>2 DEF Origins
<1>4. ASSUME NEW o \in Origins(s) PROVE o.of = a /\ o.stripe = s
  <2>1. PICK b \in Artifacts : o \in [of : {b}, stripe : 1..Stripes(b)]
    BY DEF Origins
  <2>2. PICK k \in Used(s) : TRUE
    BY <1>1
  <2>3. Original(o.of, o.stripe, k) = Original(a, s, k)
    BY <1>2, <2>2 DEF Origins
  <2>4. o.of = a /\ RecordPlace((o.stripe - 1) * Stripe + k) = RecordPlace((s - 1) * Stripe + k)
    BY <2>3 DEF Original, Cell
  <2>5. /\ o.stripe \in Nat /\ k \in Nat /\ (o.stripe - 1) * Stripe + k \in Nat
        /\ (s - 1) * Stripe + k \in Nat
    <3>1. k \in 1..Stripe /\ o.stripe \in 1..Stripes(b)
      BY <1>1, <2>1, <2>2
    <3>2. (s - 1) * Stripe + k \in 1..Records(a) /\ (o.stripe - 1) * Stripe + k \in 1..Records(b)
      BY <3>1, InStripe
    <3> QED
      BY <3>1, <3>2, Sizes
  <2>6. (o.stripe - 1) * Stripe + k = (s - 1) * Stripe + k
    BY <2>4, <2>5 DEF RecordPlace, PartLen, StartPlace
  <2>7. o.stripe = s
    BY <1>1, <2>5, <2>6, OneStripe
  <2> QED
    BY <2>4, <2>7
<1>5. \A o \in Origins(s) : Original(o.of, o.stripe, j) = Original(a, s, j)
  BY <1>4
<1>6. Origins(s) # {} /\ (CHOOSE o \in Origins(s) : TRUE) \in Origins(s)
  BY <1>3
<1> QED
  BY <1>5, <1>6 DEF Computed

\* Repaired, a region of a's records gives a's stream.
LEMMA RepairIsRight ==
    ASSUME NEW a \in Artifacts, RegionIs(a), \A s \in 1..Stripes(a) : Repairable(s)
    PROVE  [n \in 1..Shards[a] |-> Recovered(n)] = Payload(a)
<1>1. ASSUME NEW n \in 1..Shards[a]
      PROVE  Recovered(n) = Cell(a, RecordPlace(DataRecord(n)))
  <2> DEFINE s == (n - 1) \div Data + 1
             j == ((n - 1) % Data) + 1
  <2>1. /\ s \in 1..Stripes(a) /\ DataRecord(n) = (s - 1) * Stripe + j
        /\ DataRecord(n) \in 1..Records(a)
    BY DataShard
  <2>2. Recovered(n) = IF j \in Present(s) THEN Held(DataRecord(n)) ELSE Computed(s, j)
    BY <2>1 DEF Recovered
  <2> HIDE DEF s, j
  <2>3. CASE j \in Present(s)
    <3>1. IsShard(DataRecord(n))
      BY <2>1, <2>3 DEF Present
    <3> QED
      BY <2>1, <2>2, <2>3, <3>1 DEF RegionIs
  <2>4. CASE j \notin Present(s)
    <3>1. Computed(s, j) = Original(a, s, j)
      BY <2>1, ComputedIsRight
    <3> QED
      BY <2>1, <2>2, <2>4, <3>1 DEF Original
  <2> QED
    BY <2>3, <2>4
<1> QED
  BY <1>1 DEF Payload

-------------------------------------------------------------------------------
(* Decay.                                                                    *)

\* A cell is one of an artifact or a damaged one, and says which.
LEMMA CellIs ==
    /\ Damaged \in Cells /\ Damaged.of = None /\ Damaged.of # Subject
    /\ \A a \in Artifacts, i \in Nat \ {0} :
          Cell(a, i) \in Cells /\ Cell(a, i).of = a /\ Cell(a, i).place = i
    /\ \A c \in Cells : /\ c.of \in Artifacts => c.place \in Nat \ {0} /\ c = Cell(c.of, c.place)
                        /\ c.of = None => c = Damaged
BY ArtifactAssumption DEF Cells, Damaged, Cell

\* What is left of the subject in g was in f, moved as a whole.
Shifted(f, g, d) ==
    \A i \in 2..Len(g) : g[i].of = Subject => i + d \in 2..Len(f) /\ g[i] = f[i + d]

LEMMA ShiftAligned ==
    ASSUME NEW f \in Seq(Cells), NEW g \in Seq(Cells), NEW d \in Int, Aligned(f), Shifted(f, g, d)
    PROVE  Aligned(g)
<1>1. SUFFICES ASSUME NEW i \in 2..Len(g), NEW j \in 2..Len(g),
                      g[i].of = Subject, g[j].of = Subject
               PROVE  g[j].place - g[i].place = j - i
  BY DEF Aligned
<1>2. i + d \in 2..Len(f) /\ g[i] = f[i + d] /\ j + d \in 2..Len(f) /\ g[j] = f[j + d]
  BY <1>1 DEF Shifted
<1>3. f[j + d].place - f[i + d].place = (j + d) - (i + d)
  BY <1>1, <1>2 DEF Aligned
<1>4. i \in Int /\ j \in Int /\ (j + d) - (i + d) = j - i
  BY <1>1
<1> QED
  BY <1>2, <1>3, <1>4

\* A part of a file, and two files put together.
LEMMA Part ==
    ASSUME NEW f \in Seq(Cells), NEW i \in 1..(Len(f) + 1), NEW j \in 0..Len(f)
    PROVE  /\ SubSeq(f, i, j) \in Seq(Cells)
           /\ Len(SubSeq(f, i, j)) = IF i <= j THEN j - i + 1 ELSE 0
           /\ \A k \in 1..Len(SubSeq(f, i, j)) : SubSeq(f, i, j)[k] = f[i + k - 1]
<1>1. SubSeq(f, i, j) \in Seq(Cells)
  OBVIOUS
<1>2. Len(SubSeq(f, i, j)) = IF i <= j THEN j - i + 1 ELSE 0
  OBVIOUS
<1>3. \A k \in 1..Len(SubSeq(f, i, j)) : SubSeq(f, i, j)[k] = f[i + k - 1]
  OBVIOUS
<1> QED
  BY <1>1, <1>2, <1>3

LEMMA Joined ==
    ASSUME NEW f \in Seq(Cells), NEW g \in Seq(Cells)
    PROVE  /\ f \o g \in Seq(Cells) /\ Len(f \o g) = Len(f) + Len(g)
           /\ \A k \in 1..Len(f) : (f \o g)[k] = f[k]
           /\ \A k \in 1..Len(g) : (f \o g)[Len(f) + k] = g[k]
           /\ \A k \in (Len(f) + 1)..(Len(f) + Len(g)) : (f \o g)[k] = g[k - Len(f)]
OBVIOUS

\* An artifact as it is written, and one that is copied over another.
LEMMA WrittenIs ==
    ASSUME NEW a \in Artifacts
    PROVE  /\ Written(a) \in Seq(Cells) /\ Len(Written(a)) = RegionLen(a) + 6
           /\ \A i \in 1..Len(Written(a)) : Written(a)[i] = Cell(a, i)
<1>1. PICK n \in Nat : n = RegionLen(a) + 6 /\ EndPlace(a) + PartLen - 1 = n
  BY Sizes DEF PartLen
<1>2. Written(a) = [i \in 1..n |-> Cell(a, i)]
  BY <1>1 DEF Written
<1>3. \A i \in 1..n : Cell(a, i) \in Cells
  BY CellIs
<1> QED
  BY <1>1, <1>2, <1>3

LEMMA CopiedOver ==
    ASSUME NEW f \in Seq(Cells), NEW a \in Artifacts, NEW n \in 0..Len(Written(a))
    PROVE  /\ CopyOver(f, a, n) \in Seq(Cells)
           /\ Len(CopyOver(f, a, n)) = IF n <= Len(f) THEN Len(f) ELSE n
           /\ \A i \in 1..Len(CopyOver(f, a, n)) :
                 CopyOver(f, a, n)[i] = IF i <= n THEN Cell(a, i) ELSE f[i]
<1> DEFINE g == SubSeq(Written(a), 1, n)
           h == SubSeq(f, n + 1, Len(f))
<1>1. /\ Written(a) \in Seq(Cells) /\ n \in Nat /\ n <= Len(Written(a))
      /\ \A i \in 1..Len(Written(a)) : Written(a)[i] = Cell(a, i)
  BY WrittenIs
<1>2. g \in Seq(Cells) /\ Len(g) = n /\ \A i \in 1..n : g[i] = Cell(a, i)
  BY <1>1, Part
<1>3. /\ h \in Seq(Cells) /\ Len(h) = IF n <= Len(f) THEN Len(f) - n ELSE 0
      /\ \A i \in 1..Len(h) : h[i] = f[n + i]
  <2>1. CASE n <= Len(f)
    <3>1. n + 1 \in 1..(Len(f) + 1) /\ Len(f) \in 0..Len(f)
      BY <1>1, <2>1
    <3> QED
      BY <1>1, <2>1, <3>1, Part
  <2>2. CASE n > Len(f)
    <3>1. h = <<>>
      BY <1>1, <2>2
    <3> QED
      BY <1>1, <2>2, <3>1
  <2> QED
    BY <1>1, <2>1, <2>2
<1> HIDE DEF g, h
<1>4. g \o h \in Seq(Cells) /\ Len(g \o h) = n + Len(h)
  BY <1>1, <1>2, <1>3, Joined
<1>5. ASSUME NEW i \in 1..Len(g \o h)
      PROVE  (g \o h)[i] = IF i <= n THEN Cell(a, i) ELSE f[i]
  <2>1. CASE i <= n
    BY <1>2, <1>3, <1>4, <2>1, Joined
  <2>2. CASE i > n
    <3>1. (g \o h)[i] = h[i - n] /\ i - n \in 1..Len(h)
      BY <1>1, <1>2, <1>3, <1>4, <2>2, Joined
    <3>2. n + (i - n) = i
      BY <1>1
    <3> QED
      BY <1>1, <1>3, <2>2, <3>1, <3>2
  <2> QED
    BY <1>1, <2>1, <2>2
<1>6. CopyOver(f, a, n) = g \o h
  BY DEF CopyOver, g, h
<1>7. Len(g \o h) = IF n <= Len(f) THEN Len(f) ELSE n
  BY <1>1, <1>3, <1>4
<1> QED
  BY <1>4, <1>5, <1>6, <1>7

\* Whatever happens to the file, what is left of it is moved as a whole.
LEMMA DecayShifts ==
    ASSUME file \in Seq(Cells), Decay
    PROVE  file' \in Seq(Cells) /\ \E d \in Int : Shifted(file, file', d)
<1>1. CASE EditNotice
  <2>1. file' = InsertAt(file, 2, Damaged) /\ file # <<>>
    BY <1>1 DEF EditNotice, Edit
  <2> DEFINE g == SubSeq(file, 1, 1)
             h == SubSeq(file, 2, Len(file))
             one == <<Damaged>>
  <2>2. /\ g \in Seq(Cells) /\ Len(g) = 1 /\ one \in Seq(Cells) /\ Len(one) = 1
        /\ one[1] = Damaged /\ Len(file) \in Nat \ {0}
    BY <2>1, CellIs
  <2>3. /\ h \in Seq(Cells) /\ Len(h) = Len(file) - 1
        /\ \A i \in 1..Len(h) : h[i] = file[i + 1]
    <3>1. 2 \in 1..(Len(file) + 1) /\ Len(file) \in 0..Len(file)
      BY <2>2
    <3>2. Len(h) = IF 2 <= Len(file) THEN Len(file) - 2 + 1 ELSE 0
      BY <3>1, Part
    <3>3. \A i \in 1..Len(h) : h[i] = file[2 + i - 1]
      BY <3>1, Part
    <3>4. h \in Seq(Cells)
      BY <3>1, Part
    <3>0. PICK n \in Nat \ {0} : n = Len(file)
      BY <2>2
    <3> HIDE DEF g, h, one
    <3>5. Len(h) = Len(file) - 1
      BY <3>0, <3>2
    <3>6. \A i \in 1..Len(h) : 2 + i - 1 = i + 1
      OBVIOUS
    <3> QED
      BY <3>3, <3>4, <3>5, <3>6
  <2>4. file' = g \o one \o h
    BY <2>1 DEF InsertAt
  <2> HIDE DEF g, h, one
  <2>5. /\ g \o one \in Seq(Cells) /\ Len(g \o one) = 2
        /\ (g \o one)[2] = Damaged
    <3>1. Len(g \o one) = Len(g) + Len(one)
      BY <2>2, Joined
    <3>2. \A k \in 1..Len(one) : (g \o one)[Len(g) + k] = one[k]
      BY <2>2, Joined
    <3>3. g \o one \in Seq(Cells)
      BY <2>2, Joined
    <3>4. (g \o one)[1 + 1] = one[1]
      <4> HIDE DEF g, h, one
      <4>1. 1 \in 1..Len(one)
        BY <2>2
      <4> QED
        BY <2>2, <3>2, <4>1
    <3> HIDE DEF g, h, one
    <3> QED
      BY <2>2, <3>1, <3>3, <3>4
  <2>6. /\ file' \in Seq(Cells) /\ Len(file') = 2 + Len(h)
        /\ file'[2] = Damaged /\ \A i \in 3..Len(file') : file'[i] = h[i - 2]
    <3> DEFINE e == g \o one
    <3>1. file' = e \o h /\ e \in Seq(Cells) /\ h \in Seq(Cells) /\ Len(e) = 2 /\ e[2] = Damaged
      BY <2>3, <2>4, <2>5
    <3> HIDE DEF e
    <3>2. e \o h \in Seq(Cells) /\ Len(e \o h) = Len(e) + Len(h)
      BY <3>1, Joined
    <3>3. \A k \in 1..Len(e) : (e \o h)[k] = e[k]
      BY <3>1, Joined
    <3>4. \A k \in (Len(e) + 1)..(Len(e) + Len(h)) : (e \o h)[k] = h[k - Len(e)]
      BY <3>1, Joined
    <3>5. 2 \in 1..2 /\ 2 + 1 = 3
      OBVIOUS
    <3> QED
      BY <3>1, <3>2, <3>3, <3>4, <3>5
  <2>7. Shifted(file, file', -1)
    <3>1. SUFFICES ASSUME NEW i \in 2..Len(file'), file'[i].of = Subject
                   PROVE  i + -1 \in 2..Len(file) /\ file'[i] = file[i + -1]
      BY DEF Shifted
    <3>2. i \in 3..Len(file')
      BY <2>6, <3>1, CellIs
    <3>0. PICK l \in Nat : l = Len(file) /\ Len(h) = l - 1
      BY <2>2, <2>3
    <3>9. i \in 3..(2 + (l - 1))
      BY <2>6, <3>0, <3>2
    <3>3. i - 2 \in 1..Len(h) /\ (i - 2) + 1 = i + -1 /\ i + -1 \in 2..Len(file)
      BY <3>0, <3>9
    <3> QED
      BY <2>3, <2>6, <3>2, <3>3
  <2> QED
    BY <2>6, <2>7
<1>2. CASE Grow
  <2>1. file' = Append(file, Damaged)
    BY <1>2 DEF Grow, Edit
  <2>2. /\ file' \in Seq(Cells) /\ Len(file') = Len(file) + 1 /\ file'[Len(file')] = Damaged
        /\ \A i \in 1..Len(file) : file'[i] = file[i]
    BY <2>1, CellIs
  <2>3. Shifted(file, file', 0)
    BY <2>2, CellIs DEF Shifted
  <2> QED
    BY <2>2, <2>3
<1>3. ASSUME NEW i \in DOMAIN file, Damage(i)
      PROVE  file' \in Seq(Cells) /\ \E d \in Int : Shifted(file, file', d)
  <2>1. file' = [file EXCEPT ![i] = Damaged]
    BY <1>3 DEF Damage, Edit
  <2>2. /\ file' \in Seq(Cells) /\ Len(file') = Len(file)
        /\ \A k \in 1..Len(file) : file'[k] = file[k] \/ file'[k] = Damaged
    BY <2>1, CellIs
  <2>3. Shifted(file, file', 0)
    BY <2>2, CellIs DEF Shifted
  <2> QED
    BY <2>2, <2>3
<1>4. ASSUME NEW n \in DOMAIN file, LoseHead(n)
      PROVE  file' \in Seq(Cells) /\ \E d \in Int : Shifted(file, file', d)
  <2>1. file' = SubSeq(file, n + 1, Len(file)) /\ n \in 1..Len(file)
    BY <1>4 DEF LoseHead, Edit
  <2>2. n + 1 \in 1..(Len(file) + 1) /\ Len(file) \in 0..Len(file) /\ n \in Nat
    BY <2>1
  <2>3. /\ file' \in Seq(Cells) /\ Len(file') = Len(file) - n
        /\ \A k \in 1..Len(file') : file'[k] = file[k + n]
    <3> DEFINE g == SubSeq(file, n + 1, Len(file))
    <3>1. Len(g) = IF n + 1 <= Len(file) THEN Len(file) - (n + 1) + 1 ELSE 0
      BY <2>2, Part
    <3>2. \A k \in 1..Len(g) : g[k] = file[(n + 1) + k - 1]
      BY <2>2, Part
    <3>3. g \in Seq(Cells)
      BY <2>2, Part
    <3> HIDE DEF g
    <3>4. Len(g) = Len(file) - n
      BY <2>1, <3>1
    <3>5. \A k \in 1..Len(g) : (n + 1) + k - 1 = k + n
      BY <2>2
    <3>6. file' = g
      BY <2>1 DEF g
    <3> QED
      BY <3>2, <3>3, <3>4, <3>5, <3>6
  <2>4. Shifted(file, file', n)
    <3>1. SUFFICES ASSUME NEW i \in 2..Len(file')
                   PROVE  i + n \in 2..Len(file) /\ file'[i] = file[i + n]
      BY DEF Shifted
    <3>2. PICK l \in Nat : l = Len(file) /\ Len(file') = l - n
      BY <2>3
    <3>3. i \in 2..(l - n) /\ i \in 1..Len(file')
      BY <3>1, <3>2
    <3>4. i + n \in 2..l
      BY <2>2, <3>3
    <3>5. file'[i] = file[i + n]
      BY <2>3, <3>3
    <3> QED
      BY <3>2, <3>4, <3>5
  <2> QED
    BY <2>1, <2>3, <2>4
<1>5. ASSUME NEW n \in DOMAIN file, LoseTail(n)
      PROVE  file' \in Seq(Cells) /\ \E d \in Int : Shifted(file, file', d)
  <2>1. file' = SubSeq(file, 1, Len(file) - n) /\ n \in 1..Len(file)
    BY <1>5 DEF LoseTail, Edit
  <2>2. 1 \in 1..(Len(file) + 1) /\ Len(file) - n \in 0..Len(file)
    BY <2>1
  <2>3. /\ file' \in Seq(Cells) /\ Len(file') = Len(file) - n
        /\ \A k \in 1..Len(file') : file'[k] = file[k]
    <3> DEFINE g == SubSeq(file, 1, Len(file) - n)
    <3>1. Len(g) = IF 1 <= Len(file) - n THEN Len(file) - n - 1 + 1 ELSE 0
      BY <2>2, Part
    <3>2. \A k \in 1..Len(g) : g[k] = file[1 + k - 1]
      BY <2>2, Part
    <3>3. g \in Seq(Cells)
      BY <2>2, Part
    <3> HIDE DEF g
    <3>4. Len(g) = Len(file) - n
      BY <2>2, <3>1
    <3>5. \A k \in 1..Len(g) : 1 + k - 1 = k
      OBVIOUS
    <3>6. file' = g
      BY <2>1 DEF g
    <3> QED
      BY <3>2, <3>3, <3>4, <3>5, <3>6
  <2>4. Shifted(file, file', 0)
    <3>1. SUFFICES ASSUME NEW i \in 2..Len(file')
                   PROVE  i + 0 \in 2..Len(file) /\ file'[i] = file[i + 0]
      BY DEF Shifted
    <3>2. PICK l \in Nat : l = Len(file) /\ Len(file') = l - n
      BY <2>3
    <3>3. i \in 2..(l - n) /\ i \in 1..Len(file')
      BY <3>1, <3>2
    <3>4. i + 0 \in 2..l /\ i + 0 = i
      BY <2>1, <3>3
    <3> QED
      BY <2>3, <3>2, <3>3, <3>4
  <2> QED
    BY <2>3, <2>4
<1>6. ASSUME NEW a \in Artifacts \ {Subject}, NEW n \in DOMAIN Written(a), Tear(a, n)
      PROVE  file' \in Seq(Cells) /\ \E d \in Int : Shifted(file, file', d)
  <2>1. file' = CopyOver(file, a, n)
    BY <1>6 DEF Tear, Edit
  <2>2. n \in 0..Len(Written(a)) /\ n \in Nat
    BY WrittenIs
  <2>3. /\ file' \in Seq(Cells) /\ Len(file') = IF n <= Len(file) THEN Len(file) ELSE n
        /\ \A i \in 1..Len(file') : file'[i] = IF i <= n THEN Cell(a, i) ELSE file[i]
    BY <2>1, <2>2, CopiedOver
  <2>4. \A i \in 1..n : Cell(a, i).of # Subject
    BY CellIs
  <2>5. Shifted(file, file', 0)
    BY <2>2, <2>3, <2>4 DEF Shifted
  <2> QED
    BY <2>3, <2>5
<1> QED
  BY <1>1, <1>2, <1>3, <1>4, <1>5, <1>6 DEF Decay

-------------------------------------------------------------------------------
(* Parsing.                                                                  *)

\* Of the copies found there is a first one.
LEMMA FirstIs ==
    ASSUME NEW S, S # {}, \A s \in S : s.at \in Nat
    PROVE  First(S) \in S
<1> DEFINE T == {s.at : s \in S}
<1>1. PICK x \in T : \A y \in T : x <= y
  BY Least
<1>2. PICK s \in S : s.at = x
  OBVIOUS
<1>3. \A t \in S : s.at <= t.at
  BY <1>1, <1>2
<1> QED
  BY <1>2, <1>3 DEF First

\* A part that is whole is there with both of its cells.
LEMMA WholeIs ==
    ASSUME NEW f \in Seq(Cells), NEW o \in Int, NEW a \in Artifacts, NEW p \in Nat
    PROVE  Whole(f, o, a, p) <=> /\ o \in 1..Len(f) /\ o + 1 \in 1..Len(f)
                                 /\ f[o] = Cell(a, p) /\ f[o + 1] = Cell(a, p + 1)
<1>1. 0..(PartLen - 1) = {0, 1} /\ Len(f) - PartLen + 1 = Len(f) - 1 /\ Len(f) \in Nat
  BY DEF PartLen
<1>2. o + 0 = o /\ p + 0 = p
  OBVIOUS
<1>3. Whole(f, o, a, p) <=> /\ o \in 1..(Len(f) - 1)
                            /\ f[o + 0] = Cell(a, p + 0) /\ f[o + 1] = Cell(a, p + 1)
  BY <1>1 DEF Whole
<1>4. o \in 1..(Len(f) - 1) <=> o \in 1..Len(f) /\ o + 1 \in 1..Len(f)
  BY <1>1
<1> QED
  BY <1>2, <1>3, <1>4

LEMMA StartsAre ==
    ASSUME NEW f \in Seq(Cells)
    PROVE  /\ Len(f) \in Nat
           /\ \A s \in Starts(f) :
                 /\ s.of \in Artifacts /\ s.at \in 2..Len(f) /\ s.at + 1 \in 2..Len(f)
                 /\ f[s.at] = Cell(s.of, 3) /\ f[s.at + 1] = Cell(s.of, 4)
           /\ Starts(f) # {} => First(Starts(f)) \in Starts(f)
<1>1. ASSUME NEW s \in Starts(f)
      PROVE  /\ s.of \in Artifacts /\ s.at \in 2..Len(f) /\ s.at + 1 \in 2..Len(f)
             /\ f[s.at] = Cell(s.of, 3) /\ f[s.at + 1] = Cell(s.of, 4)
  <2>1. s.of \in Artifacts /\ s.at \in 2..(ScanWindow + 1) /\ Whole(f, s.at, s.of, StartPlace)
    BY DEF Starts
  <2>2. StartPlace = 3 /\ s.at \in Int
    BY <2>1 DEF StartPlace, PartLen
  <2>3. /\ s.at \in 1..Len(f) /\ s.at + 1 \in 1..Len(f)
        /\ f[s.at] = Cell(s.of, 3) /\ f[s.at + 1] = Cell(s.of, 3 + 1)
    BY <2>1, <2>2, WholeIs
  <2> QED
    BY <2>1, <2>3
<1>2. \A s \in Starts(f) : s.at \in Nat
  BY <1>1
<1>3. Len(f) \in Nat
  OBVIOUS
<1>4. Starts(f) # {} => First(Starts(f)) \in Starts(f)
  BY <1>2, FirstIs
<1> QED
  BY <1>1, <1>3, <1>4

LEMMA EndsAre ==
    ASSUME NEW f \in Seq(Cells)
    PROVE  /\ Len(f) \in Nat
           /\ \A e \in Ends(f) :
                 /\ e.of \in Artifacts /\ e.at = Len(f) - 1 /\ e.at \in 1..Len(f)
                 /\ f[e.at] = Cell(e.of, EndPlace(e.of))
           /\ Ends(f) # {} => First(Ends(f)) \in Ends(f)
<1>1. ASSUME NEW e \in Ends(f)
      PROVE  /\ e.of \in Artifacts /\ e.at = Len(f) - 1 /\ e.at \in 1..Len(f)
             /\ f[e.at] = Cell(e.of, EndPlace(e.of))
  <2>1. /\ e.of \in Artifacts /\ e.at = Len(f) - PartLen + 1
        /\ Whole(f, e.at, e.of, EndPlace(e.of))
    BY DEF Ends
  <2>2. e.at = Len(f) - 1 /\ e.at \in Int
    BY <2>1 DEF PartLen
  <2>3. EndPlace(e.of) \in Nat
    BY <2>1, Sizes
  <2> QED
    BY <2>1, <2>2, <2>3, WholeIs
<1>2. \A e \in Ends(f) : e.at \in Nat
  BY <1>1
<1>3. Len(f) \in Nat
  OBVIOUS
<1>4. Ends(f) # {} => First(Ends(f)) \in Ends(f)
  BY <1>2, FirstIs
<1> QED
  BY <1>1, <1>3, <1>4

\* The superblock that is chosen is that of every first copy there is, and the
\* region lies in the file, between the copies.
LEMMA FoundIs ==
    ASSUME NEW f \in Seq(Cells), NEW p, Found(f, p)
    PROVE  /\ p.of \in Artifacts /\ p.at \in Nat /\ p.at >= 3
           /\ End(p) = p.at + RegionLen(p.of) - 1 /\ End(p) <= Len(f)
           /\ \/ /\ Starts(f) # {} /\ First(Starts(f)).of = p.of
                 /\ p.at = First(Starts(f)).at + 2
              \/ /\ Starts(f) = {} /\ Ends(f) # {} /\ First(Ends(f)).of = p.of
                 /\ p.at = First(Ends(f)).at - RegionLen(p.of)
           /\ Ends(f) # {} => First(Ends(f)).of = p.of
<1>1. /\ p.of \in Artifacts /\ p.at = RegionAt(p.of, Starts(f), Ends(f))
      /\ Starts(f) # {} => First(Starts(f)).of = p.of
      /\ Ends(f) # {} => First(Ends(f)).of = p.of
      /\ Starts(f) # {} \/ Ends(f) # {}
      /\ Starts(f) # {} \/ p.at - 2 >= 1
      /\ p.at + RegionLen(p.of) - 1 <= Len(f)
  BY DEF Found, Choice, Chosen, Fits, At, StartFits, PartLen
<1>2. End(p) = p.at + RegionLen(p.of) - 1 /\ RegionLen(p.of) \in Nat
  <2>1. PICK c \in Nat : RegionLen(p.of) = c + c
    BY <1>1, Sizes
  <2> QED
    BY <2>1 DEF End
<1>3. CASE Starts(f) # {}
  <2>1. p.at = First(Starts(f)).at + 2
    BY <1>1, <1>3 DEF RegionAt, PartLen
  <2>2. First(Starts(f)).at \in 2..Len(f)
    BY <1>3, StartsAre
  <2>3. p.at \in Nat /\ p.at >= 3
    BY <2>1, <2>2
  <2> QED
    BY <1>1, <1>2, <1>3, <2>1, <2>3
<1>4. CASE Starts(f) = {}
  <2>1. Ends(f) # {} /\ p.at = First(Ends(f)).at - RegionLen(p.of) /\ p.at - 2 >= 1
    BY <1>1, <1>4 DEF RegionAt
  <2>2. First(Ends(f)).at \in 1..Len(f)
    BY <2>1, EndsAre
  <2>3. p.at \in Nat /\ p.at >= 3
    BY <1>2, <2>1, <2>2
  <2> QED
    BY <1>1, <1>2, <1>4, <2>1, <2>3
<1> QED
  BY <1>3, <1>4

\* A file with the superblock copies of the subject only: the subject's region is
\* found where the file has it, whichever copies there are.
LEMMA Placed ==
    ASSUME NEW f \in Seq(Cells), Aligned(f), CopiesAgree(f), NEW p, Found(f, p)
    PROVE  /\ p.of = Subject
           /\ \A i \in 2..Len(f) : f[i].of = Subject => f[i].place = (i - p.at) + 5
<1>1. /\ p.of \in Artifacts /\ p.at \in Nat /\ p.at >= 3
      /\ \/ /\ Starts(f) # {} /\ First(Starts(f)).of = p.of
            /\ p.at = First(Starts(f)).at + 2
         \/ /\ Starts(f) = {} /\ Ends(f) # {} /\ First(Ends(f)).of = p.of
            /\ p.at = First(Ends(f)).at - RegionLen(p.of)
  BY FoundIs
<1>2. p.of = Subject /\ Subject \in Artifacts
  BY <1>1, StartsAre, EndsAre, ArtifactAssumption DEF CopiesAgree
<1>3. \E m \in 2..Len(f) : f[m].of = Subject /\ f[m].place = (m - p.at) + 5
  <2>1. CASE Starts(f) # {}
    <3>1. PICK m \in 2..Len(f) : f[m] = Cell(Subject, 3) /\ p.at = m + 2
      BY <1>1, <1>2, <2>1, StartsAre
    <3>2. f[m].of = Subject /\ f[m].place = 3
      BY <1>2, <3>1, CellIs
    <3> QED
      BY <3>1, <3>2
  <2>2. CASE Starts(f) = {}
    <3>1. PICK m \in 1..Len(f) : f[m] = Cell(Subject, EndPlace(Subject)) /\ p.at = m - RegionLen(Subject)
      BY <1>1, <1>2, <2>2, EndsAre
    <3>2. PICK R \in Nat : R = RegionLen(Subject) /\ EndPlace(Subject) = R + 5
      <4>1. PICK c \in Nat : RegionLen(Subject) = c + c
        BY <1>2, Sizes
      <4>2. EndPlace(Subject) = RegionLen(Subject) + 5
        BY <1>2, Sizes
      <4> QED
        BY <4>1, <4>2
    <3>3. f[m].of = Subject /\ f[m].place = R + 5
      BY <1>2, <3>1, <3>2, CellIs
    <3>4. PICK o \in Nat : o = p.at /\ o >= 3 /\ o = m - R
      BY <1>1, <3>1, <3>2
    <3>5. m \in 2..Len(f) /\ R + 5 = (m - o) + 5
      BY <3>4
    <3> QED
      BY <3>3, <3>4, <3>5
  <2> QED
    BY <2>1, <2>2
<1>4. PICK m \in 2..Len(f) : f[m].of = Subject /\ f[m].place = (m - p.at) + 5
  BY <1>3
<1>5. ASSUME NEW i \in 2..Len(f), f[i].of = Subject
      PROVE  f[i].place = (i - p.at) + 5
  <2>1. f[i].place - f[m].place = i - m
    BY <1>4, <1>5 DEF Aligned
  <2>0. f[i].place \in Nat /\ f[m].place \in Nat
    BY <1>2, <1>4, <1>5, CellIs
  <2>2. PICK x \in Nat, y \in Nat, o \in Nat : x = f[i].place /\ y = f[m].place /\ o = p.at
    BY <1>1, <2>0
  <2>3. x - y = i - m /\ y = (m - o) + 5
    BY <1>4, <2>1, <2>2
  <2>4. x = (i - o) + 5
    BY <2>3
  <2> QED
    BY <2>2, <2>4
<1> QED
  BY <1>2, <1>5

-------------------------------------------------------------------------------
(* The region.                                                               *)

\* What has been read is the file from the offset on.
LEMMA TakenIs ==
    ASSUME NEW f \in Seq(Cells), NEW p, p.of \in Artifacts, p.at \in Nat, p.at >= 3,
           NEW r, Taken(f, p, r)
    PROVE  /\ r \in Seq(Cells) /\ Len(r) = RegionLen(p.of) /\ End(p) <= Len(f)
           /\ End(p) = p.at + RegionLen(p.of) - 1
           /\ \A k \in 1..RegionLen(p.of) : /\ r[k] = f[p.at + (k - 1)]
                                            /\ p.at + (k - 1) \in 3..Len(f)
<1>1. PICK o \in Nat, n \in Nat \ {0} : o = p.at /\ n = RegionLen(p.of) /\ o >= 3
  <2>1. PICK c \in Nat \ {0} : c = Records(p.of) /\ RegionLen(p.of) = c + c
    BY Sizes
  <2>2. c + c \in Nat \ {0}
    BY <2>1
  <2> QED
    BY <2>1, <2>2
<1>2. PICK e \in Nat, l \in Nat : /\ e = o + n - 1 /\ e = End(p) /\ l = Len(f)
                                 /\ e <= l /\ r = SubSeq(f, o, e)
  <2>1. o + n - 1 \in Nat /\ End(p) = o + n - 1 /\ Len(f) \in Nat
    BY <1>1 DEF End
  <2> QED
    BY <1>1, <2>1 DEF Taken
<1>3. o \in 1..(Len(f) + 1) /\ e \in 0..Len(f) /\ o <= e /\ e - o + 1 = n
  <2>0. e = o + n - 1 /\ e <= l /\ o >= 3
    BY <1>1, <1>2
  <2>1. o <= e /\ e - o + 1 = n /\ o \in 1..(l + 1) /\ e \in 0..l
    BY <2>0
  <2> QED
    BY <1>2, <2>1
<1>4. r \in Seq(Cells) /\ Len(r) = n /\ \A k \in 1..n : r[k] = f[o + k - 1]
  <2>1. SubSeq(f, o, e) \in Seq(Cells)
    BY <1>3, Part
  <2>2. Len(SubSeq(f, o, e)) = IF o <= e THEN e - o + 1 ELSE 0
    BY <1>3, Part
  <2>3. \A k \in 1..Len(SubSeq(f, o, e)) : SubSeq(f, o, e)[k] = f[o + k - 1]
    BY <1>3, Part
  <2>4. Len(SubSeq(f, o, e)) = n
    BY <1>3, <2>2
  <2> QED
    BY <1>2, <2>1, <2>3, <2>4
<1>5. \A k \in 1..n : o + k - 1 = o + (k - 1) /\ o + (k - 1) \in 3..Len(f)
  <2>0. e = o + n - 1 /\ e <= l /\ o >= 3
    BY <1>1, <1>2
  <2>1. ASSUME NEW k \in 1..n PROVE o + k - 1 = o + (k - 1) /\ o + (k - 1) \in 3..l
    BY <2>0
  <2> QED
    BY <1>2, <2>1
<1> QED
  BY <1>1, <1>2, <1>4, <1>5

\* A shard record of the region is one of some artifact.
LEMMA ShardIs ==
    ASSUME region \in Seq(Cells), NEW n \in Nat, IsShard(n)
    PROVE  \E b \in Artifacts, r \in Nat \ {0} :
              /\ RecordAt(n) \in 1..Len(region) /\ Held(n) = Cell(b, RecordPlace(r))
              /\ RecordPlace(r) \in Nat \ {0}
<1>0. PICK b \in Artifacts : \E r \in 1..Records(b) : Whole(region, RecordAt(n), b, RecordPlace(r))
  BY DEF IsShard
<1>1. PICK r \in 1..Records(b) : Whole(region, RecordAt(n), b, RecordPlace(r))
  BY <1>0
<1>2. r \in Nat \ {0} /\ RecordPlace(r) \in Nat \ {0} /\ RecordAt(n) \in Int
  BY <1>1, Sizes DEF RecordPlace, StartPlace, PartLen, RecordAt
<1>3. RecordAt(n) \in 1..Len(region) /\ Held(n) = Cell(b, RecordPlace(r))
  BY <1>1, <1>2, WholeIs DEF Held
<1> QED
  BY <1>2, <1>3

\* A region whose records begin as a's do, or are damaged there.
LEMMA RegionRight ==
    ASSUME region \in Seq(Cells), NEW a \in Artifacts,
           \A n \in 1..Records(a) :
              region[2 * n - 1] = Cell(a, 2 * n + 3) \/ region[2 * n - 1] = Damaged
    PROVE  RegionIs(a)
<1>1. SUFFICES ASSUME NEW n \in 1..Records(a), IsShard(n)
               PROVE  Held(n) = Cell(a, RecordPlace(n))
  BY DEF RegionIs
<1>2. n \in Nat /\ RecordAt(n) = 2 * n - 1 /\ RecordPlace(n) = 2 * n + 3
  BY Sizes DEF RecordAt, RecordPlace, StartPlace, PartLen
<1>3. PICK b \in Artifacts, r \in Nat \ {0} :
         Held(n) = Cell(b, RecordPlace(r)) /\ RecordPlace(r) \in Nat \ {0}
  BY <1>1, <1>2, ShardIs
<1>4. Held(n).of = b /\ region[2 * n - 1] = Held(n)
  BY <1>2, <1>3, CellIs DEF Held
<1>5. b # None
  BY ArtifactAssumption
<1>6. region[2 * n - 1] = Cell(a, 2 * n + 3)
  BY <1>4, <1>5, CellIs
<1> QED
  BY <1>2, <1>4, <1>6

\* Whatever the region is, a shard that is recovered is a cell.
LEMMA RecoveredIsCell ==
    ASSUME region \in Seq(Cells), NEW a \in Artifacts, NEW n \in 1..Shards[a]
    PROVE  Recovered(n) \in Cells
<1> DEFINE s == (n - 1) \div Data + 1
           j == ((n - 1) % Data) + 1
<1>1. /\ s \in 1..Stripes(a) /\ j \in 1..Stripe /\ DataRecord(n) = (s - 1) * Stripe + j
      /\ DataRecord(n) \in 1..Records(a) /\ DataRecord(n) \in Nat
  <2>1. /\ s \in 1..Stripes(a) /\ j \in 1..Stripe /\ DataRecord(n) = (s - 1) * Stripe + j
        /\ DataRecord(n) \in 1..Records(a)
    BY DataShard
  <2> HIDE DEF s, j
  <2>2. Records(a) \in Nat
    BY Sizes
  <2>3. DataRecord(n) \in Nat
    BY <2>1, <2>2
  <2> QED
    BY <2>1, <2>3
<1>2. Recovered(n) = IF j \in Present(s) THEN Held(DataRecord(n)) ELSE Computed(s, j)
  BY <1>1 DEF Recovered
<1> HIDE DEF s, j
<1>3. CASE j \in Present(s)
  <2>1. IsShard(DataRecord(n))
    BY <1>1, <1>3 DEF Present
  <2>2. Held(DataRecord(n)) \in Cells
    BY <1>1, <2>1, ShardIs, CellIs
  <2> QED
    BY <1>2, <1>3, <2>2
<1>4. CASE j \notin Present(s)
  <2>1. CASE Origins(s) = {}
    BY <1>2, <1>4, <2>1, CellIs DEF Computed
  <2>2. CASE Origins(s) # {}
    <3>1. PICK o \in Origins(s) : Computed(s, j) = Original(o.of, o.stripe, j)
      BY <2>2 DEF Computed
    <3>2. PICK b \in Artifacts : o \in [of : {b}, stripe : 1..Stripes(b)]
      BY DEF Origins
    <3>3. o.of = b /\ o.stripe \in 1..Stripes(b)
      BY <3>2
    <3>4. PICK m \in Nat : m = (o.stripe - 1) * Stripe + j
      <4>1. (o.stripe - 1) * Stripe + j \in 1..Records(b) /\ Records(b) \in Nat
        BY <1>1, <3>3, InStripe, Sizes
      <4> QED
        BY <4>1
    <3>5. RecordPlace(m) \in Nat \ {0}
      BY DEF RecordPlace, StartPlace, PartLen
    <3> QED
      BY <1>2, <1>4, <3>1, <3>3, <3>4, <3>5, CellIs DEF Original
  <2> QED
    BY <2>1, <2>2
<1> QED
  BY <1>3, <1>4

-------------------------------------------------------------------------------
(* The invariant is inductive.                                               *)

\* What repair makes of a region depends on nothing else.
LEMMA SameRegion ==
    ASSUME region' = region
    PROVE  /\ \A s : Repairable(s)' <=> Repairable(s)
           /\ \A n : Recovered(n)' = Recovered(n)
<1>1. \A n : IsShard(n)' <=> IsShard(n)
  BY DEF IsShard, Whole
<1>2. \A n : Held(n)' = Held(n)
  BY DEF Held
<1>3. \A s : Present(s)' = Present(s)
  BY <1>1 DEF Present
<1>4. \A s : Used(s)' = Used(s)
  BY <1>3 DEF Used
<1>5. \A s : Origins(s)' = Origins(s)
  BY <1>2, <1>4 DEF Origins
<1>6. ASSUME NEW s, NEW j PROVE Computed(s, j)' = Computed(s, j)
  <2>1. Origins(s)' = Origins(s)
    BY <1>5
  <2> QED
    BY <2>1 DEF Computed, Original, Damaged, Cell
<1> QED
  BY <1>2, <1>3, <1>6 DEF Repairable, Recovered

\* An edit leaves alone what the reader has seen.
LEMMA ReaderStays ==
    ASSUME ReaderOK, UNCHANGED <<pc, parsed, region, result, stream, seen>>
    PROVE  ReaderOK'
<1>1. AllRepairable' <=> AllRepairable
  BY SameRegion DEF AllRepairable
<1>2. \A n : Recovered(n)' = Recovered(n)
  BY SameRegion
<1>3. [n \in 1..Shards[parsed.of] |-> Recovered(n)]' = [n \in 1..Shards[parsed.of] |-> Recovered(n)]
  BY <1>2
<1> QED
  BY <1>1, <1>3 DEF ReaderOK

LEMMA ParseStep ==
    ASSUME IInv, Parse
    PROVE  IInv'
<1>1. /\ TypeOK /\ Aligned(file) /\ pc = "parse" /\ result = "none" /\ file \in Seq(Cells)
      /\ seen' = [parsed |-> file, read |-> file]
      /\ UNCHANGED <<file, edits, region, stream>>
  BY DEF IInv, ReaderOK, Parse, TypeOK
<1>2. /\ file' \in Seq(Cells) /\ region' \in Seq(Cells) /\ stream' \in Seq(Cells)
      /\ seen' \in [parsed : Seq(Cells), read : Seq(Cells)] /\ edits' \in 0..MaxEdits
  BY <1>1 DEF TypeOK
<1>3. Aligned(file)' /\ Aligned(seen.parsed)' /\ seen'.parsed = file
  BY <1>1 DEF Aligned
<1>4. \/ Choice(file) = {} /\ Fails("no superblock") /\ UNCHANGED parsed
      \/ \E a \in Choice(file) :
            IF Fits(file, a)
            THEN parsed' = [of |-> a, at |-> At(file, a)] /\ pc' = "read" /\ UNCHANGED result
            ELSE Fails("region mismatch") /\ UNCHANGED parsed
  BY DEF Parse, Choice, Fits, At
<1>5. CASE Choice(file) = {} /\ Fails("no superblock") /\ UNCHANGED parsed
  <2>1. ReaderOK'
    BY <1>3, <1>5 DEF ReaderOK, Fails
  <2>2. TypeOK'
    BY <1>1, <1>2, <1>5 DEF TypeOK, Fails
  <2> QED
    BY <1>3, <2>1, <2>2 DEF IInv
<1>6. ASSUME NEW a \in Choice(file), Fits(file, a),
             parsed' = [of |-> a, at |-> At(file, a)], pc' = "read", UNCHANGED result
      PROVE  IInv'
  <2>1. Found(file, parsed')
    BY <1>6 DEF Found
  <2>2. ReaderOK'
    BY <1>1, <1>3, <1>6, <2>1 DEF ReaderOK
  <2>3. parsed' \in [of : Artifacts \cup {None}, at : Nat]
    <3>1. parsed'.of \in Artifacts /\ parsed'.at \in Nat
      BY <1>1, <2>1, FoundIs
    <3> QED
      BY <1>6, <3>1
  <2>4. TypeOK'
    BY <1>1, <1>2, <1>6, <2>3 DEF TypeOK
  <2> QED
    BY <1>3, <2>2, <2>4 DEF IInv
<1>7. ASSUME NEW a \in Choice(file), ~Fits(file, a), Fails("region mismatch"), UNCHANGED parsed
      PROVE  IInv'
  <2>1. ReaderOK'
    BY <1>3, <1>7 DEF ReaderOK, Fails
  <2>2. TypeOK'
    BY <1>1, <1>2, <1>7 DEF TypeOK, Fails
  <2> QED
    BY <1>3, <2>1, <2>2 DEF IInv
<1> QED
  BY <1>4, <1>5, <1>6, <1>7

LEMMA ReadRegionStep ==
    ASSUME IInv, ReadRegion
    PROVE  IInv'
<1>1. /\ TypeOK /\ Aligned(file) /\ Aligned(seen.parsed) /\ pc = "read" /\ result = "none"
      /\ Found(seen.parsed, parsed) /\ file \in Seq(Cells) /\ seen.parsed \in Seq(Cells)
      /\ seen' = [seen EXCEPT !.read = file]
      /\ UNCHANGED <<file, edits, parsed, stream>>
  BY DEF IInv, ReaderOK, ReadRegion, TypeOK
<1>2. seen'.parsed = seen.parsed /\ seen'.read = file /\ parsed' = parsed
      /\ seen' \in [parsed : Seq(Cells), read : Seq(Cells)]
  BY <1>1 DEF TypeOK
<1>3. Aligned(file)' /\ Aligned(seen.parsed)'
  BY <1>1, <1>2 DEF Aligned
<1>4. parsed.of \in Artifacts /\ parsed.at \in Nat /\ parsed.at >= 3
  BY <1>1, FoundIs
<1>5. CASE End(parsed) > Len(file) /\ Fails("region mismatch") /\ UNCHANGED region
  <2>1. ReaderOK'
    BY <1>1, <1>2, <1>5 DEF ReaderOK, Fails
  <2>2. TypeOK'
    BY <1>1, <1>2, <1>5 DEF TypeOK, Fails
  <2> QED
    BY <1>3, <2>1, <2>2 DEF IInv
<1>6. CASE /\ ~(End(parsed) > Len(file)) /\ region' = SubSeq(file, parsed.at, End(parsed))
           /\ pc' = "repair" /\ UNCHANGED result
  <2>1. Taken(file, parsed, region')
    <3>1. PICK o \in Nat, n \in Nat, l \in Nat : o = parsed.at /\ n = RegionLen(parsed.of) /\ l = Len(file)
      <4>1. RegionLen(parsed.of) \in Nat
        <5>1. PICK r \in Nat : r = Records(parsed.of) /\ RegionLen(parsed.of) = r + r
          BY <1>4, Sizes
        <5> QED
          BY <5>1
      <4>2. Len(file) \in Nat
        BY <1>1
      <4> QED
        BY <1>4, <4>1, <4>2
    <3>2. End(parsed) = o + n - 1
      BY <3>1 DEF End
    <3>3. End(parsed) <= Len(file)
      BY <1>6, <3>1, <3>2
    <3> QED
      BY <1>6, <3>3 DEF Taken
  <2>2. ReaderOK'
    BY <1>1, <1>2, <1>6, <2>1 DEF ReaderOK
  <2>3. region' \in Seq(Cells)
    BY <1>1, <1>4, <2>1, TakenIs
  <2>4. TypeOK'
    BY <1>1, <1>2, <1>6, <2>3 DEF TypeOK
  <2> QED
    BY <1>3, <2>2, <2>4 DEF IInv
<1> QED
  BY <1>5, <1>6 DEF ReadRegion, End

LEMMA RepairStep ==
    ASSUME IInv, Repair
    PROVE  IInv'
<1>1. /\ TypeOK /\ Aligned(file) /\ Aligned(seen.parsed) /\ pc = "repair" /\ result = "none"
      /\ Found(seen.parsed, parsed) /\ seen.parsed \in Seq(Cells) /\ region \in Seq(Cells)
      /\ Taken(seen.read, parsed, region)
      /\ UNCHANGED <<file, edits, parsed, region, seen>>
  BY DEF IInv, ReaderOK, Repair, TypeOK
<1>2. Aligned(file)' /\ Aligned(seen.parsed)'
  BY <1>1 DEF Aligned
<1>3. /\ AllRepairable' <=> AllRepairable
      /\ \A n : Recovered(n)' = Recovered(n)
  BY <1>1, SameRegion DEF AllRepairable
<1>4. parsed.of \in Artifacts /\ Shards[parsed.of] \in Nat
  BY <1>1, FoundIs, Sizes
<1>5. CASE /\ AllRepairable /\ stream' = [n \in 1..Shards[parsed.of] |-> Recovered(n)]
           /\ pc' = "done" /\ result' = "ok"
  <2>1. (stream = [n \in 1..Shards[parsed.of] |-> Recovered(n)])'
    BY <1>1, <1>3, <1>5
  <2>2. ReaderOK'
    BY <1>1, <1>3, <1>5, <2>1 DEF ReaderOK
  <2>3. stream' \in Seq(Cells)
    <3>1. \A n \in 1..Shards[parsed.of] : Recovered(n) \in Cells
      BY <1>1, <1>4, RecoveredIsCell
    <3> QED
      BY <1>4, <1>5, <3>1
  <2>4. TypeOK'
    BY <1>1, <1>5, <2>3 DEF TypeOK
  <2> QED
    BY <1>2, <2>2, <2>4 DEF IInv
<1>6. CASE ~AllRepairable /\ Fails("too damaged") /\ UNCHANGED stream
  <2>1. ReaderOK'
    BY <1>1, <1>3, <1>6 DEF ReaderOK, Fails
  <2>2. TypeOK'
    BY <1>1, <1>6 DEF TypeOK, Fails
  <2> QED
    BY <1>2, <2>1, <2>2 DEF IInv
<1> QED
  BY <1>5, <1>6 DEF Repair, AllRepairable

LEMMA DecayStep ==
    ASSUME IInv, Decay
    PROVE  IInv'
<1>1. /\ edits < MaxEdits /\ edits' = edits + 1
      /\ UNCHANGED <<pc, parsed, region, result, stream, seen>>
  BY DEF Decay, EditNotice, Grow, Damage, LoseHead, LoseTail, Tear, Edit
<1>2. /\ TypeOK /\ Aligned(file) /\ Aligned(seen.parsed) /\ ReaderOK /\ file \in Seq(Cells)
  BY DEF IInv, TypeOK
<1>3. PICK d \in Int : file' \in Seq(Cells) /\ Shifted(file, file', d)
  BY <1>2, DecayShifts
<1>4. Aligned(file')
  BY <1>2, <1>3, ShiftAligned
<1>5. Aligned(seen.parsed)'
  BY <1>1, <1>2 DEF Aligned
<1>6. TypeOK'
  <2>1. edits' \in 0..MaxEdits
    <3>1. edits \in 0..MaxEdits /\ MaxEdits \in Nat
      BY <1>2, ArtifactAssumption DEF TypeOK
    <3>2. edits < MaxEdits /\ edits' = edits + 1
      BY <1>1
    <3> QED
      BY <3>1, <3>2
  <2> QED
    BY <1>1, <1>2, <1>3, <2>1 DEF TypeOK
<1>7. ReaderOK'
  BY <1>1, <1>2, ReaderStays
<1> QED
  BY <1>4, <1>5, <1>6, <1>7 DEF IInv, Aligned

LEMMA Inductive ==
    Spec => []IInv
<1>1. Init => IInv
  <2> SUFFICES ASSUME Init PROVE IInv
    OBVIOUS
  <2>1. Subject \in Artifacts /\ 0 \in 0..MaxEdits
    BY ArtifactAssumption
  <2>2. file \in Seq(Cells) /\ \A i \in 1..Len(file) : file[i] = Cell(Subject, i)
    BY <2>1, WrittenIs DEF Init
  <2>3. Aligned(file)
    <3>1. \A i \in 2..Len(file) : file[i].place = i
      BY <2>1, <2>2, CellIs
    <3> QED
      BY <3>1 DEF Aligned
  <2>4. <<>> \in Seq(Cells) /\ Len(<<>>) = 0
    OBVIOUS
  <2>5. Aligned(seen.parsed)
    <3>1. Len(seen.parsed) = 0
      BY <2>4 DEF Init
    <3> QED
      BY <3>1 DEF Aligned
  <2>6. TypeOK
    BY <2>1, <2>2, <2>4 DEF Init, TypeOK
  <2>7. ReaderOK
    BY DEF Init, ReaderOK
  <2> QED
    BY <2>3, <2>5, <2>6, <2>7 DEF IInv
<1>2. IInv /\ [Next]_vars => IInv'
  <2> SUFFICES ASSUME IInv, [Next]_vars PROVE IInv'
    OBVIOUS
  <2>1. CASE Parse
    BY <2>1, ParseStep
  <2>2. CASE ReadRegion
    BY <2>2, ReadRegionStep
  <2>3. CASE Repair
    BY <2>3, RepairStep
  <2>4. CASE Decay
    BY <2>4, DecayStep
  <2>5. CASE UNCHANGED vars
    <3>1. ReaderOK'
      BY <2>5, ReaderStays DEF IInv, vars
    <3>2. TypeOK /\ Aligned(file) /\ Aligned(seen.parsed)
      BY DEF IInv
    <3>3. TypeOK'
      BY <2>5, <3>2 DEF vars, TypeOK
    <3>4. Aligned(file)' /\ Aligned(seen.parsed)'
      BY <2>5, <3>2 DEF vars, Aligned
    <3> QED
      BY <3>1, <3>3, <3>4 DEF IInv
  <2> QED
    BY <2>1, <2>2, <2>3, <2>4, <2>5 DEF Next, Read
<1> QED
  BY <1>1, <1>2, PTL DEF Spec

\* Every variable keeps its type: the region is never read outside the file, and
\* no place in it is negative, whatever has been lost (reader.rs:40-80).
THEOREM TypeCorrect ==
    Spec => []TypeOK
<1>1. IInv => TypeOK
  BY DEF IInv
<1> QED
  BY <1>1, Inductive, PTL

-------------------------------------------------------------------------------
(* Recovery never lies.                                                      *)

\* What a success goes back to.
LEMMA Success ==
    ASSUME IInv, result = "ok"
    PROVE  /\ seen.parsed \in Seq(Cells) /\ seen.read \in Seq(Cells) /\ region \in Seq(Cells)
           /\ Aligned(seen.parsed) /\ AllRepairable
           /\ Found(seen.parsed, parsed) /\ Taken(seen.read, parsed, region)
           /\ stream = [n \in 1..Shards[parsed.of] |-> Recovered(n)]
BY DEF IInv, TypeOK, ReaderOK

\* The records of a region, from its cells.
LEMMA RecordsRight ==
    ASSUME region \in Seq(Cells), NEW a \in Artifacts,
           \A k \in 1..RegionLen(a) : region[k] \in {Cell(a, k + 4), Damaged}
    PROVE  RegionIs(a)
<1>1. ASSUME NEW n \in 1..Records(a)
      PROVE  region[2 * n - 1] = Cell(a, 2 * n + 3) \/ region[2 * n - 1] = Damaged
  <2>1. 2 * n - 1 \in 1..RegionLen(a) /\ (2 * n - 1) + 4 = 2 * n + 3
    BY Sizes
  <2> QED
    BY <2>1
<1> QED
  BY <1>1, RegionRight

\* README.md:140: whatever is damaged, lost or added, what recovery returns is the
\* stream as written (reader.rs, payload_region.rs).
THEOREM NeverLies ==
    Spec => []DecayNeverLies
<1>1. IInv => DecayNeverLies
  <2>1. SUFFICES ASSUME IInv, result = "ok", NothingForeign(seen.parsed),
                        OnlyDecayed(seen.parsed, seen.read)
                 PROVE  stream = Payload(Subject)
    BY DEF DecayNeverLies
  <2> DEFINE f == seen.parsed
             g == seen.read
  <2>2. /\ f \in Seq(Cells) /\ g \in Seq(Cells) /\ region \in Seq(Cells)
        /\ Aligned(f) /\ AllRepairable /\ Found(f, parsed) /\ Taken(g, parsed, region)
        /\ stream = [n \in 1..Shards[parsed.of] |-> Recovered(n)]
    BY <2>1, Success
  <2>3. /\ \A i \in 1..Len(f) : f[i].of = Subject \/ f[i] = Damaged
        /\ Len(f) = Len(g) /\ \A i \in 1..Len(f) : g[i] = f[i] \/ g[i] = Damaged
    <3>1. \A i \in 1..Len(f) : f[i] \in Cells /\ f[i].of \in {Subject, None}
      BY <2>1, <2>2 DEF NothingForeign
    <3>2. \A i \in 1..Len(f) : f[i].of = Subject \/ f[i] = Damaged
      BY <3>1, CellIs
    <3>3. Len(f) = Len(g) /\ \A i \in 1..Len(f) : g[i] = f[i] \/ g[i] = Damaged
      BY <2>1, <2>2 DEF OnlyDecayed
    <3> QED
      BY <3>2, <3>3
  <2> HIDE DEF f, g
  <2>4. CopiesAgree(f)
    <3>1. ASSUME NEW s \in Starts(f) PROVE s.of = Subject
      <4>1. s.of \in Artifacts /\ s.at \in 1..Len(f) /\ f[s.at] = Cell(s.of, 3)
        BY <2>2, StartsAre
      <4>2. f[s.at].of = s.of /\ s.of # None
        BY <4>1, CellIs, ArtifactAssumption
      <4> QED
        BY <2>3, <4>1, <4>2, CellIs
    <3>2. ASSUME NEW e \in Ends(f) PROVE e.of = Subject
      <4>1. e.of \in Artifacts /\ e.at \in 1..Len(f) /\ f[e.at] = Cell(e.of, EndPlace(e.of))
        BY <2>2, EndsAre
      <4>2. EndPlace(e.of) \in Nat \ {0}
        BY <4>1, Sizes
      <4>3. f[e.at].of = e.of /\ e.of # None
        BY <4>1, <4>2, CellIs, ArtifactAssumption
      <4> QED
        BY <2>3, <4>1, <4>3, CellIs
    <3> QED
      BY <3>1, <3>2 DEF CopiesAgree
  <2>5. /\ parsed.of = Subject /\ parsed.at \in Nat /\ parsed.at >= 3
        /\ \A i \in 2..Len(f) : f[i].of = Subject => f[i].place = (i - parsed.at) + 5
    BY <2>2, <2>4, Placed, FoundIs
  <2>6. ASSUME NEW k \in 1..RegionLen(Subject)
        PROVE  region[k] \in {Cell(Subject, k + 4), Damaged}
    <3>1. /\ region[k] = g[parsed.at + (k - 1)]
          /\ parsed.at + (k - 1) \in 3..Len(g)
      BY <2>2, <2>5, TakenIs, ArtifactAssumption
    <3>2. PICK i \in 3..Len(f) : i = parsed.at + (k - 1) /\ region[k] = g[i]
      BY <2>3, <3>1
    <3>3. i \in 1..Len(f) /\ i \in 2..Len(f) /\ (i - parsed.at) + 5 = k + 4
      <4>1. PICK o \in Nat : o = parsed.at
        BY <2>5
      <4>2. i = o + (k - 1) /\ k \in Int
        BY <2>5, <3>2, <4>1, Sizes, ArtifactAssumption
      <4>3. (i - o) + 5 = k + 4
        BY <4>2
      <4>4. i \in 1..Len(f) /\ i \in 2..Len(f)
        BY <3>2
      <4> QED
        BY <4>1, <4>3, <4>4
    <3>4. f[i] \in Cells
      BY <2>2, <3>3
    <3>5. ASSUME f[i].of = Subject PROVE f[i] = Cell(Subject, k + 4)
      <4>1. f[i].place = (i - parsed.at) + 5
        BY <2>5, <3>3, <3>5
      <4>2. f[i] = Cell(f[i].of, f[i].place)
        BY <3>4, <3>5, CellIs, ArtifactAssumption
      <4> QED
        BY <3>3, <3>5, <4>1, <4>2
    <3> QED
      BY <2>3, <3>2, <3>3, <3>5
  <2>7. RegionIs(Subject)
    BY <2>2, <2>6, RecordsRight, ArtifactAssumption
  <2> QED
    BY <2>2, <2>5, <2>7, RepairIsRight, ArtifactAssumption DEF AllRepairable
<1> QED
  BY <1>1, Inductive, PTL

-------------------------------------------------------------------------------
(* Within the budget.                                                        *)

\* From offset h on, f is the file as written, or damaged.
LEMMA HeldCells ==
    ASSUME NEW f \in Seq(Cells), NEW h \in Nat, Holds(f, h)
    PROVE  /\ BodyLen = RegionLen(Subject) + 4 /\ RegionLen(Subject) \in Nat
           /\ h + RegionLen(Subject) + 4 <= Len(f)
           /\ \A i \in 1..(RegionLen(Subject) + 4) : f[h + i] \in {Cell(Subject, i + 2), Damaged}
<1>1. Len(Written(Subject)) = RegionLen(Subject) + 6 /\ RegionLen(Subject) \in Nat
  <2>1. Subject \in Artifacts
    BY ArtifactAssumption
  <2>2. Len(Written(Subject)) = RegionLen(Subject) + 6
    BY <2>1, WrittenIs
  <2>3. PICK r \in Nat : r = Records(Subject) /\ RegionLen(Subject) = r + r
    BY <2>1, Sizes
  <2>4. r + r \in Nat
    OBVIOUS
  <2> QED
    BY <2>2, <2>3, <2>4
<1>2. BodyLen = RegionLen(Subject) + 4
  BY <1>1 DEF BodyLen, PartLen
<1>3. \A i \in 1..BodyLen : PartLen + i = i + 2
  BY DEF PartLen
<1>4. h + BodyLen <= Len(f) /\ \A i \in 1..BodyLen : f[h + i] \in {Cell(Subject, PartLen + i), Damaged}
  BY DEF Holds
<1>5. PICK r \in Nat : r = RegionLen(Subject) /\ BodyLen = r + 4
  BY <1>1, <1>2
<1>6. h + (r + 4) = h + r + 4
  OBVIOUS
<1> QED
  BY <1>3, <1>4, <1>5, <1>6

\* A usable copy of the subject's superblock is one that parsing finds, and it says
\* where everything else is.
LEMMA Usable ==
    ASSUME NEW f \in Seq(Cells), NEW h \in Nat, Aligned(f), Holds(f, h), CopyUsable(f, h)
    PROVE  /\ Starts(f) # {} \/ (Ends(f) # {} /\ h + RegionLen(Subject) + 4 = Len(f))
           /\ \A i \in 2..Len(f) : f[i].of = Subject => f[i].place = (i - h) + 2
<1>1. PICK R \in Nat : /\ R = RegionLen(Subject) /\ BodyLen = R + 4 /\ h + R + 4 <= Len(f)
                       /\ EndPlace(Subject) = R + 5
  BY HeldCells, Sizes, ArtifactAssumption
<1>2. /\ Starts(f) # {} \/ (Ends(f) # {} /\ h + R + 4 = Len(f))
      /\ \E m \in 2..Len(f) : f[m].of = Subject /\ f[m].place = (m - h) + 2
  <2>1. CASE HasMagic(f) /\ h \in 1..ScanWindow /\ Whole(f, h + 1, Subject, StartPlace)
    <3>1. [of |-> Subject, at |-> h + 1] \in Starts(f)
      <4>1. h + 1 \in 2..(ScanWindow + 1)
        BY <2>1, ArtifactAssumption
      <4> QED
        BY <2>1, <4>1, ArtifactAssumption DEF Starts
    <3>2. f[h + 1] = Cell(Subject, 3) /\ h + 1 \in 2..Len(f)
      BY <3>1, StartsAre
    <3>3. f[h + 1].of = Subject /\ f[h + 1].place = ((h + 1) - h) + 2
      BY <3>2, CellIs, ArtifactAssumption
    <3> QED
      BY <3>1, <3>2, <3>3
  <2>2. CASE /\ h + BodyLen = Len(f)
             /\ Whole(f, h + BodyLen - PartLen + 1, Subject, EndPlace(Subject))
    <3>1. h + BodyLen - PartLen + 1 = Len(f) - PartLen + 1 /\ h + R + 4 = Len(f)
      <4>1. PICK b \in Nat : b = BodyLen /\ b = R + 4 /\ h + b = Len(f)
        BY <1>1, <2>2
      <4>2. h + b - 2 + 1 = (h + b) - 2 + 1 /\ h + R + 4 = h + b
        BY <4>1
      <4> QED
        BY <4>1, <4>2 DEF PartLen
    <3>2. [of |-> Subject, at |-> Len(f) - PartLen + 1] \in Ends(f)
      BY <2>2, <3>1, ArtifactAssumption DEF Ends
    <3>3. PICK m \in 1..Len(f) : m = Len(f) - 1 /\ f[m] = Cell(Subject, R + 5)
      BY <1>1, <3>2, EndsAre
    <3>4. m \in 2..Len(f) /\ R + 5 = (m - h) + 2
      BY <3>1, <3>3
    <3>5. f[m].of = Subject /\ f[m].place = R + 5
      BY <3>3, CellIs, ArtifactAssumption
    <3> QED
      BY <3>1, <3>2, <3>4, <3>5
  <2> QED
    BY <2>1, <2>2 DEF CopyUsable
<1>3. PICK m \in 2..Len(f) : f[m].of = Subject /\ f[m].place = (m - h) + 2
  BY <1>2
<1>4. ASSUME NEW i \in 2..Len(f), f[i].of = Subject
      PROVE  f[i].place = (i - h) + 2
  <2>1. f[i].place - f[m].place = i - m
    BY <1>3, <1>4 DEF Aligned
  <2>0. f[i].place \in Nat /\ f[m].place \in Nat
    <3>1. f[i] \in Cells /\ f[m] \in Cells /\ Subject \in Artifacts
      BY <1>3, <1>4, ArtifactAssumption
    <3> QED
      BY <1>3, <1>4, <3>1, CellIs
  <2>2. PICK x \in Nat, y \in Nat : x = f[i].place /\ y = f[m].place
    BY <2>0
  <2>3. x - y = i - m /\ y = (m - h) + 2
    BY <1>3, <2>1, <2>2
  <2>4. x = (i - h) + 2
    BY <2>3
  <2> QED
    BY <2>2, <2>4
<1> QED
  BY <1>1, <1>2, <1>4

\* So parsing chooses the subject, and finds its region at its place.
LEMMA BudgetFinds ==
    ASSUME NEW f \in Seq(Cells), NEW h \in Nat,
           Aligned(f), Holds(f, h), CopyUsable(f, h), CopiesAgree(f)
    PROVE  Choice(f) = {Subject} /\ At(f, Subject) = h + 3 /\ Fits(f, Subject)
<1>1. PICK R \in Nat, l \in Nat : /\ R = RegionLen(Subject) /\ l = Len(f) /\ h + R + 4 <= l
                                  /\ EndPlace(Subject) = R + 5
  <2>1. RegionLen(Subject) \in Nat /\ Len(f) \in Nat
    BY HeldCells
  <2> QED
    BY <2>1, HeldCells, Sizes, ArtifactAssumption
<1>2. /\ Starts(f) # {} \/ (Ends(f) # {} /\ h + R + 4 = l)
      /\ \A i \in 2..l : f[i].of = Subject => f[i].place = (i - h) + 2
  BY <1>1, Usable
<1>3. ASSUME Starts(f) # {}
      PROVE  First(Starts(f)).of = Subject /\ First(Starts(f)).at = h + 1
  <2>1. First(Starts(f)) \in Starts(f)
    BY <1>3, StartsAre
  <2>2. First(Starts(f)).of = Subject
    BY <2>1 DEF CopiesAgree
  <2>3. PICK m \in 2..l : m = First(Starts(f)).at /\ f[m] = Cell(Subject, 3)
    BY <1>1, <2>1, <2>2, StartsAre
  <2>4. f[m].of = Subject /\ f[m].place = 3
    <3>1. Subject \in Artifacts /\ 3 \in Nat \ {0}
      BY ArtifactAssumption
    <3> QED
      BY <2>3, <3>1, CellIs
  <2>5. 3 = (m - h) + 2
    BY <1>2, <2>4
  <2>6. m = h + 1
    BY <2>5
  <2> QED
    BY <2>2, <2>3, <2>6
<1>4. ASSUME Ends(f) # {}
      PROVE  First(Ends(f)).of = Subject /\ First(Ends(f)).at = h + R + 3
  <2>1. First(Ends(f)) \in Ends(f)
    BY <1>4, EndsAre
  <2>2. First(Ends(f)).of = Subject
    BY <2>1 DEF CopiesAgree
  <2>3. PICK m \in 1..l : /\ m = First(Ends(f)).at /\ m = l - 1
                          /\ f[m] = Cell(Subject, R + 5)
    BY <1>1, <2>1, <2>2, EndsAre
  <2>4. f[m].of = Subject /\ f[m].place = R + 5 /\ m \in 2..l
    <3>1. Subject \in Artifacts /\ R + 5 \in Nat \ {0}
      BY ArtifactAssumption
    <3>2. m \in 2..l
      BY <1>1, <2>3
    <3> QED
      BY <2>3, <3>1, <3>2, CellIs
  <2>5. R + 5 = (m - h) + 2
    BY <1>2, <2>4
  <2>6. m = h + R + 3
    BY <2>5
  <2> QED
    BY <2>2, <2>3, <2>6
<1>5. Choice(f) = {Subject}
  BY <1>2, <1>3, <1>4, ArtifactAssumption DEF Choice, Chosen
<1>6. At(f, Subject) = h + 3
  <2>1. CASE Starts(f) # {}
    BY <1>3, <2>1 DEF At, RegionAt, PartLen
  <2>2. CASE Starts(f) = {}
    <3>1. First(Ends(f)).at = h + R + 3
      BY <1>2, <1>4, <2>2
    <3>2. (h + R + 3) - R = h + 3
      OBVIOUS
    <3> QED
      BY <1>1, <2>2, <3>1, <3>2 DEF At, RegionAt
  <2> QED
    BY <2>1, <2>2
<1>7. EndAt(Subject, Starts(f), Ends(f)) = h + R + 3
  <2>1. CASE Ends(f) # {}
    BY <1>4, <2>1 DEF EndAt
  <2>2. CASE Ends(f) = {}
    <3>1. EndAt(Subject, Starts(f), Ends(f)) = (h + 3) + R
      BY <1>1, <1>6, <2>2 DEF EndAt, At
    <3> QED
      BY <3>1
  <2> QED
    BY <2>1, <2>2
<1>8. StartFits(Subject, Starts(f), Ends(f))
  <2>1. (h + 3) - 2 >= 1
    OBVIOUS
  <2> QED
    BY <1>6, <2>1 DEF StartFits, At, PartLen
<1>9. Fits(f, Subject)
  <2>1. (h + 3) + R - 1 <= l /\ h + R + 3 >= (h + 3) + R
    <3>1. h + R + 4 <= l
      BY <1>1
    <3>2. (h + 3) + R = h + R + 3
      OBVIOUS
    <3>3. h + R + 3 - 1 <= l
      BY <3>1
    <3> QED
      BY <3>2, <3>3
  <2>2. At(f, Subject) + RegionLen(Subject) - 1 <= Len(f)
    BY <1>1, <1>6, <2>1
  <2>3. EndAt(Subject, Starts(f), Ends(f)) >= At(f, Subject) + RegionLen(Subject)
    BY <1>1, <1>6, <1>7, <2>1
  <2> QED
    BY <1>8, <2>2, <2>3 DEF Fits
<1> QED
  BY <1>5, <1>6, <1>9

\* The region is what g holds between the copies, when the file as written is at h.
RegionFrom(g, h) ==
    /\ Len(region) = RegionLen(Subject)
    /\ \A k \in 1..RegionLen(Subject) : region[k] = g[h + k + 2]

\* A stripe that has lost no more than its parity can be repaired.
LEMMA BudgetRepairs ==
    ASSUME NEW g \in Seq(Cells), region \in Seq(Cells), NEW h \in Nat, WithinBudget(g, h),
           RegionFrom(g, h),
           NEW s \in 1..Stripes(Subject)
    PROVE  Repairable(s)
<1>1. ASSUME NEW j \in 1..Stripe, j \notin Lost(g, h, s)
      PROVE  j \in Present(s)
  <2>1. PICK n \in 1..Records(Subject) : n = (s - 1) * Stripe + j
    BY InStripe, ArtifactAssumption
  <2>2. /\ n \in Nat \ {0} /\ RecordPlace(n) = 2 * n + 3 /\ RecordAt(n) = 2 * n - 1
        /\ 2 * n \in 1..RegionLen(Subject) /\ 2 * n - 1 \in 1..RegionLen(Subject)
    <3>1. PICK c \in Nat \ {0} : c = Records(Subject) /\ RegionLen(Subject) = c + c
      BY Sizes, ArtifactAssumption
    <3>2. n \in 1..c
      BY <3>1
    <3>3. RecordPlace(n) = 2 * n + 3 /\ RecordAt(n) = 2 * n - 1
      BY <3>2 DEF RecordPlace, RecordAt, StartPlace, PartLen
    <3>4. n \in Nat \ {0} /\ 2 * n \in 1..(c + c) /\ 2 * n - 1 \in 1..(c + c)
      BY <3>2
    <3> QED
      BY <3>1, <3>3, <3>4
  <2>3. Whole(g, h + RecordPlace(n) - PartLen, Subject, RecordPlace(n))
    BY <1>1, <2>1 DEF Lost
  <2>4. PICK o \in Nat, q \in Nat, p \in Nat :
           o = 2 * n - 1 /\ o + 1 = 2 * n /\ p = 2 * n + 3 /\ q = h + o + 2
    <3>1. 2 * n - 1 \in Nat /\ (2 * n - 1) + 1 = 2 * n
      BY <2>2
    <3> QED
      BY <3>1
  <2>5. h + RecordPlace(n) - PartLen = q
    BY <2>2, <2>4 DEF PartLen
  <2>6. g[q] = Cell(Subject, p) /\ g[q + 1] = Cell(Subject, p + 1)
    <3>1. Whole(g, q, Subject, p)
      BY <2>2, <2>3, <2>4, <2>5
    <3> QED
      <4>1. q \in Int /\ p \in Nat /\ Subject \in Artifacts
        BY <2>4, ArtifactAssumption
      <4> QED
        BY <3>1, <4>1, WholeIs
  <2>7. Whole(region, o, Subject, p)
    <3>1. /\ o \in 1..RegionLen(Subject) /\ o + 1 \in 1..RegionLen(Subject)
      BY <2>2, <2>4
    <3>2. region[o] = g[h + o + 2] /\ region[o + 1] = g[h + (o + 1) + 2]
      BY <3>1 DEF RegionFrom
    <3>3. h + o + 2 = q /\ h + (o + 1) + 2 = q + 1
      BY <2>4
    <3>4. region[o] = Cell(Subject, p) /\ region[o + 1] = Cell(Subject, p + 1)
      BY <2>6, <3>2, <3>3
    <3>5. o \in Int /\ p \in Nat /\ o \in 1..Len(region) /\ o + 1 \in 1..Len(region)
      BY <2>4, <3>1 DEF RegionFrom
    <3> QED
      BY <3>4, <3>5, WholeIs, ArtifactAssumption
  <2>8. IsShard(n)
    <3>1. Whole(region, RecordAt(n), Subject, RecordPlace(n)) /\ Subject \in Artifacts
      BY <2>2, <2>4, <2>7, ArtifactAssumption
    <3>2. \E q0 \in 1..Records(Subject) : Whole(region, RecordAt(n), Subject, RecordPlace(q0))
      BY <3>1
    <3> QED
      BY <3>1, <3>2 DEF IsShard
  <2> QED
    BY <2>1, <2>8 DEF Present
<1> DEFINE T == 1..Stripe
           L == Lost(g, h, s)
<1>2. /\ Stripe \in Nat /\ Stripe = Data + Parity /\ Data \in Nat \ {0} /\ Parity \in Nat \ {0}
  BY Sizes, ArtifactAssumption
<1>3. IsFiniteSet(T) /\ Cardinality(T) = Stripe
  <2>1. 1 \in Int /\ Stripe \in Int /\ ~(1 > Stripe) /\ Stripe - 1 + 1 = Stripe
    BY <1>2
  <2> QED
    BY <2>1, FS_Interval
<1>4. L \subseteq T /\ T \cap L = L /\ T \ L \subseteq Present(s) /\ Present(s) \subseteq T
  BY <1>1 DEF Lost, Present
<1>5. IsFiniteSet(L) /\ Cardinality(L) \in Nat /\ Cardinality(L) <= Parity
  <2>1. Cardinality(L) <= Parity
    BY DEF WithinBudget
  <2> QED
    BY <1>3, <1>4, <2>1, FS_Subset, FS_CardinalityType
<1>6. Cardinality(T \ L) = Stripe - Cardinality(L) /\ IsFiniteSet(T \ L)
  <2>1. IsFiniteSet(T \ L) /\ Cardinality(T \ L) = Cardinality(T) - Cardinality(T \cap L)
    <3> HIDE DEF T, L
    <3> QED
      BY <1>3, FS_Difference
  <2> HIDE DEF T, L
  <2> QED
    BY <1>3, <1>4, <2>1
<1>7. IsFiniteSet(Present(s)) /\ Cardinality(Present(s)) \in Nat
  BY <1>3, <1>4, FS_Subset, FS_CardinalityType
<1>8. Cardinality(T \ L) <= Cardinality(Present(s))
  BY <1>4, <1>7, FS_Subset
<1> HIDE DEF T, L
<1>9. Cardinality(Present(s)) >= Data
  <2>1. PICK lost \in Nat, left \in Nat, d \in Nat, e \in Nat :
           /\ lost = Cardinality(L) /\ left = Cardinality(Present(s)) /\ d = Data /\ e = Parity
           /\ lost <= e /\ (d + e) - lost <= left
    BY <1>2, <1>5, <1>6, <1>7, <1>8
  <2>2. lost <= e /\ (d + e) - lost <= left
    BY <2>1
  <2>3. left >= d
    BY <2>2
  <2> QED
    BY <2>1, <2>3
<1> QED
  BY <1>9 DEF Repairable

\* README.md:133-139: as long as one superblock copy can be used and none
\* contradicts it, and no stripe has lost more records than it has parity, the
\* stream is recovered exactly, wherever the edits have left the artifact.
THEOREM BudgetIsEnough ==
    Spec => []BudgetSuffices
<1>1. IInv => BudgetSuffices
  <2> DEFINE f == seen.parsed
             g == seen.read
  <2>1. SUFFICES ASSUME IInv, pc = "done", CopiesAgree(f), NEW h \in 0..Len(f),
                        Holds(f, h), CopyUsable(f, h), Holds(g, h), WithinBudget(g, h)
                 PROVE  result = "ok" /\ stream = Payload(Subject)
    BY DEF BudgetSuffices
  <2>2. /\ f \in Seq(Cells) /\ g \in Seq(Cells) /\ region \in Seq(Cells)
        /\ Aligned(f) /\ ReaderOK /\ h \in Nat
    <3>1. TypeOK /\ Aligned(f) /\ ReaderOK
      BY <2>1 DEF IInv
    <3>2. f \in Seq(Cells) /\ g \in Seq(Cells) /\ region \in Seq(Cells)
      BY <3>1 DEF TypeOK
    <3>3. h \in Nat
      <4> HIDE DEF f
      <4>1. Len(f) \in Nat
        BY <3>2
      <4> QED
        BY <2>1, <4>1
    <3> QED
      BY <3>1, <3>2, <3>3
  <2>3. Choice(f) = {Subject} /\ At(f, Subject) = h + 3 /\ Fits(f, Subject)
    <3> HIDE DEF f
    <3> QED
      BY <2>1, <2>2, BudgetFinds
  <2>4. PICK R \in Nat, l \in Nat :
           /\ R = RegionLen(Subject) /\ l = Len(g) /\ h + R + 4 <= l
           /\ \A i \in 1..(R + 4) : g[h + i] \in {Cell(Subject, i + 2), Damaged}
    <3> HIDE DEF g
    <3>1. RegionLen(Subject) \in Nat /\ Len(g) \in Nat
      BY <2>1, <2>2, HeldCells
    <3> QED
      BY <2>1, <2>2, <3>1, HeldCells
  <2>5. ASSUME Found(f, parsed)
        PROVE  /\ parsed.of = Subject /\ parsed.at = h + 3 /\ ~(End(parsed) > Len(g))
               /\ parsed.at \in Nat /\ parsed.at >= 3
    <3>1. parsed.of = Subject /\ parsed.at = h + 3
      BY <2>3, <2>5 DEF Found
    <3>2. End(parsed) = h + 3 + R - 1
      BY <2>4, <3>1 DEF End
    <3>3. ~(h + 3 + R - 1 > l) /\ h + 3 \in Nat /\ h + 3 >= 3
      <4>1. h \in Nat /\ h + R + 4 <= l
        BY <2>2, <2>4
      <4> QED
        BY <4>1
    <3> QED
      BY <2>4, <3>1, <3>2, <3>3
  <2>6. ASSUME Found(f, parsed), Taken(g, parsed, region)
        PROVE  AllRepairable /\ RegionIs(Subject)
    <3>1. /\ parsed.of = Subject /\ parsed.at = h + 3
          /\ parsed.at \in Nat /\ parsed.at >= 3 /\ parsed.of \in Artifacts
      BY <2>5, <2>6, ArtifactAssumption
    <3>2. /\ Len(region) = RegionLen(Subject)
          /\ \A k \in 1..RegionLen(Subject) : region[k] = g[parsed.at + (k - 1)]
      <4> HIDE DEF f, g
      <4>1. Taken(g, parsed, region)
        BY <2>6
      <4>2. g \in Seq(Cells)
        BY <2>2
      <4>3. Len(region) = RegionLen(parsed.of)
        BY <3>1, <4>1, <4>2, TakenIs
      <4>4. \A k \in 1..RegionLen(parsed.of) : /\ region[k] = g[parsed.at + (k - 1)]
                                               /\ parsed.at + (k - 1) \in 3..Len(g)
        BY <3>1, <4>1, <4>2, TakenIs
      <4> QED
        BY <3>1, <4>3, <4>4
    <3>3. ASSUME NEW k \in 1..RegionLen(Subject)
          PROVE  region[k] = g[h + k + 2] /\ region[k] \in {Cell(Subject, k + 4), Damaged}
      <4>1. k \in 1..R /\ k + 2 \in 1..(R + 4) /\ (k + 2) + 2 = k + 4
        BY <2>4
      <4>2. (h + 3) + (k - 1) = h + k + 2 /\ h + (k + 2) = h + k + 2
        BY <2>2, <4>1
      <4>3. region[k] = g[h + k + 2]
        BY <3>1, <3>2, <4>2
      <4>4. g[h + (k + 2)] \in {Cell(Subject, (k + 2) + 2), Damaged}
        BY <2>4, <4>1
      <4> QED
        BY <4>1, <4>2, <4>3, <4>4
    <3> HIDE DEF g
    <3>4. RegionIs(Subject)
      BY <2>2, <3>3, RecordsRight, ArtifactAssumption
    <3>5. RegionFrom(g, h)
      BY <3>1, <3>2, <3>3 DEF RegionFrom
    <3>6. \A s \in 1..Stripes(Subject) : Repairable(s)
      BY <2>1, <2>2, <3>5, BudgetRepairs
    <3> QED
      BY <3>1, <3>4, <3>6 DEF AllRepairable
  <2>7. /\ result = "ok" /\ AllRepairable /\ Found(f, parsed) /\ Taken(g, parsed, region)
        /\ stream = [n \in 1..Shards[parsed.of] |-> Recovered(n)]
    BY <2>1, <2>2, <2>3, <2>5, <2>6 DEF ReaderOK
  <2>8. parsed.of = Subject /\ RegionIs(Subject)
    BY <2>5, <2>6, <2>7
  <2> QED
    BY <2>7, <2>8, RepairIsRight, ArtifactAssumption DEF AllRepairable
<1> QED
  BY <1>1, Inductive, PTL

-------------------------------------------------------------------------------
(* A torn copy.                                                              *)

\* In a torn file every cell is in its own place: up to n it is that of a, from
\* there on that of the subject.
LEMMA TornCells ==
    ASSUME NEW a \in Artifacts, NEW n \in 0..Len(Written(a)),
           NEW f, f = CopyOver(Written(Subject), a, n)
    PROVE  /\ f \in Seq(Cells) /\ RegionLen(Subject) \in Nat
           /\ Len(f) = IF n <= RegionLen(Subject) + 6 THEN RegionLen(Subject) + 6 ELSE n
           /\ \A i \in 1..Len(f) : /\ i <= n => f[i] = Cell(a, i)
                                   /\ i > n => f[i] = Cell(Subject, i)
<1>1. /\ Written(Subject) \in Seq(Cells) /\ Len(Written(Subject)) = RegionLen(Subject) + 6
      /\ \A i \in 1..Len(Written(Subject)) : Written(Subject)[i] = Cell(Subject, i)
      /\ RegionLen(Subject) \in Nat /\ n \in Nat
  <2>0. Subject \in Artifacts
    BY ArtifactAssumption
  <2>1. Len(Written(a)) \in Nat
    BY WrittenIs
  <2>2. PICK c \in Nat \ {0} : c = Records(Subject) /\ RegionLen(Subject) = c + c
    BY <2>0, Sizes
  <2>3. n \in Nat /\ RegionLen(Subject) \in Nat
    BY <2>1, <2>2
  <2>4. /\ Written(Subject) \in Seq(Cells) /\ Len(Written(Subject)) = RegionLen(Subject) + 6
        /\ \A i \in 1..Len(Written(Subject)) : Written(Subject)[i] = Cell(Subject, i)
    BY <2>0, WrittenIs
  <2> QED
    BY <2>3, <2>4
<1>2. /\ f \in Seq(Cells)
      /\ Len(f) = IF n <= RegionLen(Subject) + 6 THEN RegionLen(Subject) + 6 ELSE n
      /\ \A i \in 1..Len(f) : f[i] = IF i <= n THEN Cell(a, i) ELSE Written(Subject)[i]
  BY <1>1, CopiedOver
<1>3. ASSUME NEW i \in 1..Len(f), i > n PROVE f[i] = Cell(Subject, i)
  <2>1. i \in 1..Len(Written(Subject))
    BY <1>1, <1>2, <1>3
  <2>2. ~(i <= n)
    BY <1>1, <1>3
  <2> QED
    BY <1>1, <1>2, <2>1, <2>2
<1> QED
  BY <1>1, <1>2, <1>3

\* What is found in it begins where every artifact's region does.
LEMMA TornPlace ==
    ASSUME NEW a \in Artifacts, NEW n \in 0..Len(Written(a)),
           NEW f, f = CopyOver(Written(Subject), a, n), NEW p, Found(f, p)
    PROVE  p.at = 5
<1>1. f \in Seq(Cells) /\ \A i \in 1..Len(f) : f[i].place = i
  <2>1. ASSUME NEW i \in 1..Len(f) PROVE f[i].place = i
    <3>1. f[i] = Cell(a, i) \/ f[i] = Cell(Subject, i)
      BY TornCells
    <3> QED
      BY <3>1, CellIs, ArtifactAssumption
  <2> QED
    BY <2>1, TornCells
<1>2. CASE Starts(f) # {}
  <2>1. p.at = First(Starts(f)).at + 2 /\ First(Starts(f)) \in Starts(f)
    BY <1>1, <1>2, FoundIs, StartsAre
  <2>2. PICK m \in 1..Len(f), b \in Artifacts : m = First(Starts(f)).at /\ f[m] = Cell(b, 3)
    <3>1. PICK s \in Starts(f) : s = First(Starts(f))
      BY <2>1
    <3>2. s.of \in Artifacts /\ s.at \in 2..Len(f) /\ f[s.at] = Cell(s.of, 3)
      BY <1>1, <3>1, StartsAre
    <3>3. s.at \in 1..Len(f)
      BY <3>2
    <3> QED
      BY <3>1, <3>2, <3>3
  <2>3. m = 3
    BY <1>1, <2>2, CellIs
  <2> QED
    BY <2>1, <2>2, <2>3
<1>3. CASE Starts(f) = {}
  <2>1. /\ Ends(f) # {} /\ First(Ends(f)).of = p.of /\ First(Ends(f)) \in Ends(f)
        /\ p.at = First(Ends(f)).at - RegionLen(p.of) /\ p.of \in Artifacts
    BY <1>1, <1>3, FoundIs, EndsAre
  <2>2. PICK m \in 1..Len(f) : m = First(Ends(f)).at /\ f[m] = Cell(p.of, EndPlace(p.of))
    BY <1>1, <2>1, EndsAre
  <2>3. PICK R \in Nat : R = RegionLen(p.of) /\ EndPlace(p.of) = R + 5
    <3>1. PICK c \in Nat : c = Records(p.of) /\ RegionLen(p.of) = c + c
      BY <2>1, Sizes
    <3>2. EndPlace(p.of) = RegionLen(p.of) + 5
      BY <2>1, Sizes
    <3> QED
      BY <3>1, <3>2
  <2>4. m = R + 5
    <3>1. R + 5 \in Nat \ {0} /\ f[m] = Cell(p.of, R + 5)
      BY <2>2, <2>3
    <3>2. f[m].place = R + 5
      BY <2>1, <3>1, CellIs
    <3> QED
      BY <1>1, <2>2, <3>2
  <2> QED
    BY <2>1, <2>2, <2>3, <2>4
<1> QED
  BY <1>2, <1>3

\* And all records of what is found begin in one artifact.
LEMMA TornRecords ==
    ASSUME NEW a \in Artifacts, NEW n \in 0..Len(Written(a)),
           NEW f, f = CopyOver(Written(Subject), a, n), NEW p, Found(f, p)
    PROVE  \A i \in 5..(Len(f) - 1) : f[i] = Cell(p.of, i)
<1>1. PICK R \in Nat, l \in Nat :
         /\ R = RegionLen(Subject) /\ l = Len(f) /\ R >= 2
         /\ l = IF n <= R + 6 THEN R + 6 ELSE n
         /\ EndPlace(Subject) = R + 5 /\ n \in Nat
  <2>1. /\ RegionLen(Subject) \in Nat /\ RegionLen(Subject) >= 2
        /\ EndPlace(Subject) = RegionLen(Subject) + 5 /\ n \in Nat
    <3>1. Records(Subject) \in Nat \ {0} /\ RegionLen(Subject) = Records(Subject) + Records(Subject)
      BY Sizes, ArtifactAssumption
    <3>2. Len(Written(a)) \in Nat
      BY WrittenIs
    <3>3. PICK c \in Nat \ {0} : RegionLen(Subject) = c + c
      BY <3>1
    <3>4. EndPlace(Subject) = RegionLen(Subject) + 5
      BY Sizes, ArtifactAssumption
    <3>5. RegionLen(Subject) \in Nat /\ RegionLen(Subject) >= 2
      BY <3>3
    <3> QED
      BY <3>2, <3>4, <3>5
  <2>2. f \in Seq(Cells) /\ Len(f) \in Nat
    BY TornCells
  <2> QED
    BY <2>1, <2>2, TornCells
<1>2. /\ f \in Seq(Cells)
      /\ \A i \in 1..l : (i <= n => f[i] = Cell(a, i)) /\ (i > n => f[i] = Cell(Subject, i))
  <2>1. /\ f \in Seq(Cells)
        /\ \A i \in 1..Len(f) : /\ i <= n => f[i] = Cell(a, i)
                                /\ i > n => f[i] = Cell(Subject, i)
    BY TornCells
  <2> QED
    BY <1>1, <2>1
<1>3. ASSUME n <= R + 4 PROVE p.of = Subject
  <2>1. l = R + 6 /\ R + 5 \in 1..l /\ R + 6 \in 1..l /\ R + 5 > n /\ R + 6 > n
    <3>1. n \in Nat /\ R \in Nat /\ l \in Nat /\ n <= R + 4 /\ l = R + 6
      BY <1>1, <1>3
    <3> QED
      BY <3>1
  <2>2. f[R + 5] = Cell(Subject, R + 5) /\ f[R + 6] = Cell(Subject, R + 6)
    BY <1>2, <2>1
  <2>3. Whole(f, R + 5, Subject, EndPlace(Subject))
    <3>1. PICK o \in Nat : o = R + 5 /\ o + 1 = R + 6 /\ o = EndPlace(Subject)
      BY <1>1
    <3>2. o \in 1..Len(f) /\ o + 1 \in 1..Len(f)
      BY <1>1, <2>1, <3>1
    <3>3. f[o] = Cell(Subject, o) /\ f[o + 1] = Cell(Subject, o + 1)
      BY <2>2, <3>1
    <3>4. Whole(f, o, Subject, o)
      BY <1>2, <3>2, <3>3, WholeIs, ArtifactAssumption
    <3> QED
      BY <3>1, <3>4
  <2>4. [of |-> Subject, at |-> R + 5] \in Ends(f)
    <3>1. Len(f) - PartLen + 1 = R + 5
      BY <1>1, <2>1 DEF PartLen
    <3> QED
      BY <2>3, <3>1, ArtifactAssumption DEF Ends
  <2>5. /\ First(Ends(f)).of = p.of /\ p.of \in Artifacts
        /\ First(Ends(f)).at = R + 5 /\ f[R + 5] = Cell(p.of, EndPlace(p.of))
    <3>1. First(Ends(f)).of = p.of /\ First(Ends(f)) \in Ends(f)
      BY <1>2, <2>4, FoundIs, EndsAre
    <3>2. Len(f) - 1 = R + 5
      BY <1>1, <2>1
    <3>3. /\ First(Ends(f)).of \in Artifacts /\ First(Ends(f)).at = Len(f) - 1
          /\ f[First(Ends(f)).at] = Cell(First(Ends(f)).of, EndPlace(First(Ends(f)).of))
      BY <1>2, <3>1, EndsAre
    <3> QED
      BY <3>1, <3>2, <3>3
  <2>6. Cell(Subject, R + 5).of = Cell(p.of, EndPlace(p.of)).of
    BY <2>2, <2>5
  <2> QED
    BY <2>6 DEF Cell
<1>4. ASSUME n >= 4 PROVE p.of = a
  <2>1. 1 \in 1..l /\ 3 \in 1..l /\ 4 \in 1..l /\ 1 <= n /\ 3 <= n /\ 4 <= n
    BY <1>1, <1>4
  <2>2. f[1] = Cell(a, 1) /\ f[3] = Cell(a, 3) /\ f[4] = Cell(a, 4)
    BY <1>2, <2>1
  <2>3. HasMagic(f)
    <3>1. f # <<>>
      <4>1. Len(f) # 0
        BY <1>1, <2>1
      <4>2. Len(<<>>) = 0
        OBVIOUS
      <4> QED
        BY <4>1, <4>2
    <3> QED
      BY <2>2, <3>1 DEF HasMagic
  <2>4. Whole(f, 3, a, StartPlace)
    <3>1. PICK o \in Nat : o = 3 /\ o + 1 = 4 /\ o = StartPlace
      BY DEF StartPlace, PartLen
    <3>2. o \in 1..Len(f) /\ o + 1 \in 1..Len(f)
      BY <1>1, <2>1, <3>1
    <3>3. f[o] = Cell(a, o) /\ f[o + 1] = Cell(a, o + 1)
      BY <2>2, <3>1
    <3>4. Whole(f, o, a, o)
      BY <1>2, <3>2, <3>3, WholeIs
    <3> QED
      BY <3>1, <3>4
  <2>5. [of |-> a, at |-> 3] \in Starts(f)
    <3>1. 3 \in 2..(ScanWindow + 1)
      BY ArtifactAssumption
    <3> QED
      BY <2>3, <2>4, <3>1 DEF Starts
  <2>6. First(Starts(f)) \in Starts(f) /\ First(Starts(f)).of = p.of /\ p.at = First(Starts(f)).at + 2
    BY <1>2, <2>5, StartsAre, FoundIs
  <2>7. First(Starts(f)).at = 3
    <3>1. p.at = 5
      BY TornPlace
    <3>2. First(Starts(f)).at \in 2..Len(f)
      BY <1>2, <2>6, StartsAre
    <3> QED
      BY <2>6, <3>1, <3>2
  <2>8. f[3] = Cell(p.of, 3)
    BY <1>2, <2>6, <2>7, StartsAre
  <2>9. Cell(a, 3).of = Cell(p.of, 3).of
    BY <2>2, <2>8
  <2> QED
    BY <2>9 DEF Cell
<1>5. ASSUME NEW i \in 5..(l - 1)
      PROVE  f[i] = Cell(p.of, i)
  <2>1. i \in 1..l
    BY <1>1, <1>5
  <2>2. CASE n <= 3
    <3>1. n <= R + 4 /\ i > n
      <4>1. n \in Nat /\ R \in Nat /\ i \in 5..(l - 1) /\ n <= 3 /\ l \in Nat
        BY <1>1, <1>5, <2>2
      <4> QED
        BY <4>1
    <3> QED
      BY <1>2, <1>3, <2>1, <3>1
  <2>3. CASE n >= 4 /\ n <= R + 4
    <3>1. a = Subject /\ p.of = Subject
      BY <1>3, <1>4, <2>3
    <3>2. i <= n \/ i > n
      BY <1>1, <1>5
    <3> QED
      BY <1>2, <2>1, <3>1, <3>2
  <2>4. CASE n > R + 4
    <3>1. i <= n /\ n >= 4
      <4>1. n \in Nat /\ R \in Nat /\ l \in Nat /\ n > R + 4 /\ i \in 5..(l - 1)
        BY <1>1, <1>5, <2>4
      <4>2. l <= n \/ (l = R + 6 /\ n >= R + 5)
        BY <1>1, <4>1
      <4>3. n >= 4
        BY <4>1
      <4>4. CASE l <= n
        BY <4>1, <4>3, <4>4
      <4>5. CASE l = R + 6 /\ n >= R + 5
        BY <4>1, <4>3, <4>5
      <4> QED
        BY <4>2, <4>4, <4>5
    <3> QED
      BY <1>2, <1>4, <2>1, <3>1
  <2> QED
    BY <1>1, <2>2, <2>3, <2>4
<1> QED
  BY <1>1, <1>5

\* A copy of another artifact over the file, stopped anywhere, never mixes the two
\* (superblock.rs:116).
THEOREM TornApart ==
    Spec => []TornNeverMixes
<1>1. IInv => TornNeverMixes
  <2> DEFINE f == seen.read
  <2>1. SUFFICES ASSUME IInv, result = "ok", seen.read = seen.parsed, NEW a \in Artifacts,
                        NEW n \in 0..Len(Written(a)), f = CopyOver(Written(Subject), a, n)
                 PROVE  stream = Payload(parsed.of)
    BY DEF TornNeverMixes, Torn
  <2>2. /\ f \in Seq(Cells) /\ region \in Seq(Cells)
        /\ AllRepairable /\ Found(f, parsed) /\ Taken(f, parsed, region)
        /\ stream = [m \in 1..Shards[parsed.of] |-> Recovered(m)]
    BY <2>1, Success
  <2> HIDE DEF f
  <2>3. /\ parsed.of \in Artifacts /\ parsed.at = 5 /\ parsed.at \in Nat /\ parsed.at >= 3
        /\ \A i \in 5..(Len(f) - 1) : f[i] = Cell(parsed.of, i)
    BY <2>1, <2>2, FoundIs, TornPlace, TornRecords
  <2>4. ASSUME NEW m \in 1..Records(parsed.of)
        PROVE  region[2 * m - 1] = Cell(parsed.of, 2 * m + 3)
    <3>1. PICK o \in Nat : /\ o = 2 * m - 1 /\ o + 4 = 2 * m + 3 /\ o >= 1
                           /\ o \in 1..RegionLen(parsed.of) /\ o + 1 \in 1..RegionLen(parsed.of)
      <4>1. PICK r \in Nat : r = Records(parsed.of) /\ RegionLen(parsed.of) = r + r /\ m \in 1..r
        BY <2>3, Sizes
      <4>2. 2 * m - 1 \in Nat /\ 2 * m - 1 >= 1 /\ 2 * m <= r + r
        BY <4>1
      <4> QED
        BY <4>1, <4>2
    <3>2. /\ region[o] = f[parsed.at + (o - 1)]
          /\ parsed.at + ((o + 1) - 1) \in 3..Len(f)
      <4>1. \A k \in 1..RegionLen(parsed.of) : /\ region[k] = f[parsed.at + (k - 1)]
                                               /\ parsed.at + (k - 1) \in 3..Len(f)
        BY <2>2, <2>3, TakenIs
      <4> QED
        BY <3>1, <4>1
    <3>3. parsed.at + (o - 1) = o + 4 /\ parsed.at + ((o + 1) - 1) = o + 5
      BY <2>3, <3>1
    <3>4. PICK l \in Nat : l = Len(f)
      BY <2>2
    <3>5. o + 4 \in 5..(Len(f) - 1)
      <4>1. o + 5 <= l /\ o + 4 >= 5
        BY <3>1, <3>2, <3>3, <3>4
      <4>2. o + 4 \in 5..(l - 1)
        BY <4>1
      <4> QED
        BY <3>4, <4>2
    <3> QED
      BY <2>3, <3>1, <3>2, <3>3, <3>5
  <2>5. RegionIs(parsed.of)
    BY <2>2, <2>3, <2>4, RegionRight
  <2> QED
    BY <2>2, <2>3, <2>5, RepairIsRight DEF AllRepairable
<1> QED
  BY <1>1, Inductive, PTL

===============================================================================
