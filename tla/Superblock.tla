------------------------------- MODULE Superblock -------------------------------
(***************************************************************************)
(* The body of a superblock, superblock_body.rs, and what inspection shows *)
(* of it, header.rs.  Encoded, it is a sequence of cells: one per fixed    *)
(* field, one per length prefix, one per byte of a field of variable       *)
(* length.  A big number has one cell per digit, a key is one cell.        *)
(***************************************************************************)
EXTENDS Integers, Sequences, SequencesExt

CONSTANTS
    Radix,         \* of the digits of a big number (256)
    NotUtf8,       \* a byte that no UTF-8 text contains
    NoBody,        \* decode_superblock_body returns an error
    None           \* an Option that is None

BODY_VERSION_V1 == 1
BODY_VERSION_V2 == 2
KEY_PROTECTION_ALGORITHM_ID_TIMELOCK_PLUS_ARGON2ID_V1 == 2
PASSWORD_KDF_ALGORITHM_ID_ARGON2ID == 1

\* The fields, and what a cell can hold of them; the first fourteen come first.
Passwords == [memory : Nat, passes : Nat, lanes : Nat, salt : Seq(Nat)]
Bodies ==
    [version : Nat, flags : Nat, plaintext : Nat, stream : Nat, region : Nat, chunk : Nat,
     aead : Nat, rs : Nat, data : Nat, parity : Nat, shard : Nat, algorithm : Nat,
     iterations : Nat, bits : Nat, target : Nat \cup {None}, created : Nat,
     name : Seq(Nat) \cup {None}, profile : Seq(Nat), modulus : Nat, base : Nat,
     wrapped : Nat, password : Passwords \cup {None}]
PresentAt == 15
TargetAt  == 16
CreatedAt == 17
NameAt    == 18

ParamsAreValid(pw) ==
    pw.memory > 0 /\ pw.passes > 0 /\ pw.lanes > 0 /\ pw.salt # <<>>

Validates(body) ==
    /\ body.version \in {BODY_VERSION_V1, BODY_VERSION_V2}
    /\ body.version = BODY_VERSION_V1 <=> body.password = None
    /\ body.password # None => ParamsAreValid(body.password)
    /\ body.flags = 0
    /\ body.chunk > 0 /\ body.data > 0 /\ body.parity > 0 /\ body.shard > 0
    /\ body.aead = 1 /\ body.rs = 1 /\ body.algorithm = 1
    /\ body.modulus # 0 /\ body.base # 0

-------------------------------------------------------------------------------
\* to_bytes_be: no leading zeros, one zero for zero.
Digits[n \in Nat] == IF n < Radix THEN <<n>> ELSE Append(Digits[n \div Radix], n % Radix)

\* from_bytes_be: leading zeros are dropped.
Number(digits) == FoldLeft(LAMBDA n, d : n * Radix + d, 0, digits)

Prefixed(s) == <<Len(s)>> \o s

PasswordCells(pw) ==
    IF pw = None THEN <<>>
    ELSE <<KEY_PROTECTION_ALGORITHM_ID_TIMELOCK_PLUS_ARGON2ID_V1,
           PASSWORD_KDF_ALGORITHM_ID_ARGON2ID,
           pw.memory, pw.passes, pw.lanes>> \o Prefixed(pw.salt)

\* Mutant: an absent target is written as one of zero seconds.
ZeroTargetCells(t) == IF t = None THEN <<1, 0>> ELSE <<1, t>>

TargetCells(t) == IF t = None THEN <<0, 0>> ELSE <<1, t>>

encode_superblock_body(body) ==
    <<body.version, body.flags, body.plaintext, body.stream, body.region, body.chunk,
      body.aead, body.rs, body.data, body.parity, body.shard, body.algorithm,
      body.iterations, body.bits>>
      \o TargetCells(body.target) \o <<body.created>>
      \o Prefixed(IF body.name = None THEN <<>> ELSE body.name)
      \o Prefixed(body.profile)
      \o Prefixed(Digits[body.modulus]) \o Prefixed(Digits[body.base])
      \o <<body.wrapped>> \o PasswordCells(body.password)

-------------------------------------------------------------------------------
(* Decoding: a length-prefixed field is read if all of it is there.          *)

Missing(b) == [ok |-> FALSE, data |-> <<>>, next |-> Len(b) + 1]

Field(b, at) ==
    IF at <= Len(b) /\ at + b[at] <= Len(b)
    THEN [ok |-> TRUE, data |-> SubSeq(b, at + 1, at + b[at]), next |-> at + b[at] + 1]
    ELSE Missing(b)

IsUtf8(s) == NotUtf8 \notin ToSet(s)

\* read_password_protection_metadata, at the place `at`.
HasPassword(b, at) ==
    /\ at + 5 <= Len(b)
    /\ b[at] = KEY_PROTECTION_ALGORITHM_ID_TIMELOCK_PLUS_ARGON2ID_V1
    /\ b[at + 1] = PASSWORD_KDF_ALGORITHM_ID_ARGON2ID
    /\ Field(b, at + 5).ok
    /\ b[at + 2] > 0 /\ b[at + 3] > 0 /\ b[at + 4] > 0 /\ b[at + 5] > 0

PasswordAt(b, at) ==
    [memory |-> b[at + 2], passes |-> b[at + 3], lanes |-> b[at + 4],
     salt |-> Field(b, at + 5).data]

\* Mutant: cells after the last field are ignored.
EndsAnywhere(b, next) == next <= Len(b) + 1

\* The cursor has reached the end of the bytes.
EndsAt(b, next) == next = Len(b) + 1

decode_superblock_body(b) ==
    LET name == Field(b, NameAt)
        profile == Field(b, name.next)
        modulus == Field(b, profile.next)
        base == Field(b, modulus.next)
        after == base.next + 1
        protected == b[1] = BODY_VERSION_V2
        body == [version |-> b[1], flags |-> b[2], plaintext |-> b[3], stream |-> b[4],
                 region |-> b[5], chunk |-> b[6], aead |-> b[7], rs |-> b[8], data |-> b[9],
                 parity |-> b[10], shard |-> b[11], algorithm |-> b[12],
                 iterations |-> b[13], bits |-> b[14],
                 target |-> IF b[PresentAt] = 1 THEN b[TargetAt] ELSE None,
                 created |-> b[CreatedAt],
                 name |-> IF name.data = <<>> THEN None ELSE name.data,
                 profile |-> profile.data,
                 modulus |-> Number(modulus.data), base |-> Number(base.data),
                 wrapped |-> b[base.next],
                 password |-> IF protected THEN PasswordAt(b, after) ELSE None]
    IN  IF /\ name.ok /\ profile.ok /\ modulus.ok /\ base.ok /\ base.next <= Len(b)
           /\ b[PresentAt] \in {0, 1}
           /\ IsUtf8(name.data) /\ IsUtf8(profile.data)
           /\ modulus.data # <<>> /\ base.data # <<>>
           /\ protected => HasPassword(b, after)
           /\ EndsAt(b, IF protected THEN Field(b, after + 5).next ELSE after)
           /\ Validates(body)
        THEN body ELSE NoBody

\* superblock_digest: of the body, encoded again, not of the bytes that were read.
superblock_digest(body) == encode_superblock_body(body)

-------------------------------------------------------------------------------
\* TimelockedHeader::from_superblock, what inspection shows.
Header(body) ==
    [iterations |-> body.iterations, bits |-> body.bits, profile |-> body.profile,
     target |-> body.target, name |-> body.name, plaintext |-> body.plaintext,
     protected |-> body.password # None,
     keyWrap |-> IF body.password # None THEN "timelock-plus-argon2id-v1" ELSE "blake3-xor-v1"]

================================================================================
