------------------------------- MODULE BRCode -------------------------------
(* The Pix BR Code (src/internal/brcode/brcode.go): fields of a two-digit id,  *)
(* a two-digit length and a value, two of them templates of such fields, and a *)
(* CRC16 over everything up to and including the last field's id and length.   *)
(* A text is the sequence of its bytes, as the length and the CRC need it.     *)
EXTENDS Integers, Sequences

CONSTANTS
  Payloads,     \* payloads to encode
  Corruptions,  \* bytes that may replace one of a code
  Failed        \* what a function returns with an error

Byte == 0..255
Tlv == [id: Seq(Byte), val: Seq(Byte)]

ASSUME PayloadsAssumption ==
  Payloads \subseteq [key: Seq(Byte), url: Seq(Byte), description: Seq(Byte), name: Seq(Byte),
                      city: Seq(Byte), amount: Seq(Byte), txid: Seq(Byte),
                      dynamic: BOOLEAN, omit: BOOLEAN]
ASSUME CorruptionsAssumption == Corruptions \subseteq Byte
ASSUME FailedAssumption ==
  Failed \notin Seq(Byte) \cup Seq(Tlv) \cup [at: Nat, fields: Seq(Tlv)]

VARIABLES
  payload,      \* the payload encoded
  code,         \* its code, or one with a byte replaced
  corrupted     \* whether a byte was replaced

brVars == <<payload, code, corrupted>>

----------------------------------------------------------------------------
(* Digits, as bytes.                                                          *)

Digit(n) == 48 + n
TwoDigits(n) == <<Digit(n \div 10), Digit(n % 10)>>
allDigits(s) == s # <<>> /\ \A i \in 1..Len(s) : s[i] \in 48..57
Hex(n) == IF n < 10 THEN 48 + n ELSE 55 + n
FourHex(n) ==
  <<Hex(n \div 4096), Hex((n \div 256) % 16), Hex((n \div 16) % 16), Hex(n % 16)>>
ToUpper(s) == [i \in 1..Len(s) |-> IF s[i] \in 97..122 THEN s[i] - 32 ELSE s[i]]

Blank == {9, 10, 11, 12, 13, 32}
TrimSpace(s) ==
  LET kept == {i \in 1..Len(s) : s[i] \notin Blank}
  IN  IF kept = {} THEN <<>>
      ELSE SubSeq(s, CHOOSE i \in kept : \A j \in kept : i <= j,
                     CHOOSE i \in kept : \A j \in kept : j <= i)

id(n) == TwoDigits(n)
CRCTag == id(63) \o TwoDigits(4)
pixGUI == <<98, 114, 46, 103, 111, 118, 46, 98, 99, 98, 46, 112, 105, 120>>
NoTxID == <<42, 42, 42>>

----------------------------------------------------------------------------
(* CRC16, over words of 16 bits; the polynomial 0x1021 has bits 12, 5 and 0. *)

MaxWord == 65535
Word16 == 0..MaxWord

\* Exclusive or of two bytes, and of a word with its bit of weight w.
Xor(a, b) ==
  LET bit(w) == ((a \div w) + (b \div w)) % 2
  IN  bit(1) + 2 * bit(2) + 4 * bit(4) + 8 * bit(8)
      + 16 * bit(16) + 32 * bit(32) + 64 * bit(64) + 128 * bit(128)
Flip(n, w) == IF (n \div w) % 2 = 1 THEN n - w ELSE n + w
Round(crc) ==
  IF crc < 32768 THEN 2 * crc ELSE Flip(Flip(2 * crc - 65536, 4096), 32) + 1
EightRounds(crc) == Round(Round(Round(Round(Round(Round(Round(Round(crc))))))))

\* What a byte does to the CRC.
Step(byte) ==
  [crc \in Word16 |-> EightRounds(256 * Xor(crc \div 256, byte) + (crc % 256))]

CRC16(s) ==
  LET crc[n \in 0..Len(s)] == IF n = 0 THEN MaxWord ELSE Step(s[n])[crc[n - 1]]
  IN  crc[Len(s)]

----------------------------------------------------------------------------
(* Fields.                                                                    *)

TLV(n, val) == [id |-> id(n), val |-> val]

Block(field) == field.id \o TwoDigits(Len(field.val)) \o field.val
Rendered(fields) ==
  LET text[n \in 0..Len(fields)] ==
        IF n = 0 THEN <<>> ELSE text[n - 1] \o Block(fields[n])
  IN  text[Len(fields)]

\* Mutant: a value that is too long is cut to what two digits can say.
encodeTLVsLoose(fields) ==
  Rendered([i \in 1..Len(fields) |->
             [fields[i] EXCEPT !.val = SubSeq(@, 1, IF Len(@) > 99 THEN 99 ELSE Len(@))]])

encodeTLVs(fields) ==
  IF \E i \in 1..Len(fields) : Len(fields[i].val) > 99 THEN Failed ELSE Rendered(fields)

\* The field whose header is at a position of s: where the next one begins, and
\* what it holds.
HasHeader(s, at) == at + 3 <= Len(s) /\ allDigits(SubSeq(s, at + 2, at + 3))
FieldEnd(s, at) == at + 4 + (s[at + 2] - 48) * 10 + (s[at + 3] - 48)
FieldOf(s, at) == [id |-> SubSeq(s, at, at + 1), val |-> SubSeq(s, at + 4, FieldEnd(s, at) - 1)]

\* One turn of the loop of parseTLVs, with the fields before position r.at read.
ReadField(s, r) ==
  IF r = Failed THEN Failed
  ELSE IF r.at > Len(s) THEN r
  ELSE IF ~HasHeader(s, r.at) \/ FieldEnd(s, r.at) > Len(s) + 1 THEN Failed
  ELSE [at |-> FieldEnd(s, r.at), fields |-> Append(r.fields, FieldOf(s, r.at))]

\* A field takes at least four bytes; the last turn reads what is left of them.
parseTLVs(s) ==
  LET turns == Len(s) \div 4 + 1
      read[k \in 0..turns] ==
        IF k = 0 THEN [at |-> 1, fields |-> <<>>] ELSE ReadField(s, read[k - 1])
      last == read[turns]
  IN  IF last = Failed THEN Failed ELSE last.fields

find(fields, n) ==
  LET at == {i \in 1..Len(fields) : fields[i].id = id(n)}
  IN  IF at = {} THEN <<>> ELSE fields[CHOOSE i \in at : \A j \in at : i <= j].val

----------------------------------------------------------------------------
(* Payloads.                                                                  *)

isPrintableASCII(s) == \A i \in 1..Len(s) : s[i] \in 32..126

validAmount(a) ==
  LET dot == {i \in 1..Len(a) : a[i] = 46}
      cut == IF dot = {} THEN Len(a) + 1 ELSE CHOOSE i \in dot : \A j \in dot : i <= j
      frac == SubSeq(a, cut + 1, Len(a))
  IN  /\ allDigits(SubSeq(a, 1, cut - 1))
      /\ dot # {} => allDigits(frac) /\ Len(frac) <= 2

Validate(p) ==
  /\ TrimSpace(p.key) # <<>> \/ TrimSpace(p.url) # <<>>
  /\ p.key = <<>> \/ p.url = <<>>
  /\ TrimSpace(p.name) # <<>> /\ Len(p.name) <= 25
  /\ TrimSpace(p.city) # <<>> /\ Len(p.city) <= 15
  /\ p.amount = <<>> \/ validAmount(p.amount)
  /\ \A s \in {p.key, p.url, p.description, p.name, p.city, p.txid} : isPrintableASCII(s)

If(condition, fields) == IF condition THEN fields ELSE <<>>

MerchantFields(p) ==
  <<TLV(0, pixGUI)>>
  \o If(p.url # <<>>, <<TLV(25, p.url)>>)
  \o If(p.url = <<>>, <<TLV(1, p.key)>>)
  \o If(p.url = <<>> /\ p.description # <<>>, <<TLV(2, p.description)>>)
MerchantAccount(p) == encodeTLVs(MerchantFields(p))

AdditionalFields(p) == <<TLV(5, IF p.txid = <<>> THEN NoTxID ELSE p.txid)>>
AdditionalData(p) == encodeTLVs(AdditionalFields(p))

Dynamic(p) == p.dynamic \/ p.url # <<>>
BodyFields(p) ==
  <<TLV(0, id(1))>>
  \o If(Dynamic(p) \/ ~p.omit, <<TLV(1, IF Dynamic(p) THEN id(12) ELSE id(11))>>)
  \o <<TLV(26, MerchantAccount(p)), TLV(52, id(0) \o id(0)), TLV(53, <<57, 56, 54>>)>>
  \o If(p.amount # <<>>, <<TLV(54, p.amount)>>)
  \o <<TLV(58, <<66, 82>>), TLV(59, p.name), TLV(60, p.city), TLV(62, AdditionalData(p))>>
Body(p) == encodeTLVs(BodyFields(p))

Encode(p) ==
  IF ~Validate(p) \/ MerchantAccount(p) = Failed \/ AdditionalData(p) = Failed \/ Body(p) = Failed
  THEN Failed
  ELSE LET tagged == Body(p) \o CRCTag IN tagged \o FourHex(CRC16(tagged))

\* Where the last "6304" of a text starts, or 0.
LastTag(s) ==
  LET at == {i \in 1..Len(s) - 3 : SubSeq(s, i, i + 3) = CRCTag}
  IN  IF at = {} THEN 0 ELSE CHOOSE i \in at : \A j \in at : j <= i

\* Mutant: a code without the tag counts as checked.
CRCValidUntagged(s, crc) ==
  LET tag == LastTag(s)
  IN  tag > 0 => crc = FourHex(CRC16(SubSeq(s, 1, tag + 3)))

CRCValid(s, crc) ==
  LET tag == LastTag(s)
  IN  tag > 0 /\ crc = FourHex(CRC16(SubSeq(s, 1, tag + 3)))

Parsing(given) ==
  LET s == TrimSpace(given)
      fields == parseTLVs(s)
      account == parseTLVs(find(fields, 26))
      additional == parseTLVs(find(fields, 62))
      crc == ToUpper(find(fields, 63))
  IN  IF fields = Failed THEN [ok |-> FALSE]
      ELSE IF account = Failed \/ additional = Failed THEN [ok |-> FALSE]
      ELSE [ok |-> TRUE, dynamic |-> find(fields, 1) = id(12),
            name |-> find(fields, 59), city |-> find(fields, 60),
            amount |-> find(fields, 54), key |-> find(account, 1),
            url |-> find(account, 25), description |-> find(account, 2),
            txid |-> find(additional, 5), crcValid |-> CRCValid(s, crc)]

ValidateCode(s) == LET read == Parsing(s) IN read.ok /\ read.crcValid

----------------------------------------------------------------------------
BRInit == payload = {} /\ code = <<>> /\ corrupted = FALSE

Write(p) ==
  /\ payload = {}
  /\ payload' = {p}
  /\ code' = Encode(p)
  /\ UNCHANGED corrupted

Corrupt(i, byte) ==
  /\ payload # {} /\ code # Failed /\ ~corrupted
  /\ i \in 1..Len(code) /\ ToUpper(<<byte>>) # ToUpper(<<code[i]>>)
  /\ code' = [code EXCEPT ![i] = byte]
  /\ corrupted' = TRUE
  /\ UNCHANGED payload

BRNext ==
  \/ \E p \in Payloads : Write(p)
  \/ payload # {} /\ code # Failed /\ \E i \in 1..Len(code), b \in Corruptions : Corrupt(i, b)

BRSpec == BRInit /\ [][BRNext]_brVars

Written == payload # {} /\ code # Failed /\ ~corrupted

\* A code that Encode writes is read back as the payload it was written from,
\* with the defaults of the format, whatever digits the values contain and at
\* the limit of the lengths; its CRC checks out unless it happens to be the
\* four characters of its own tag (Encode, Parse).
RoundTrip ==
  Written =>
    LET p == CHOOSE q \in payload : TRUE
        read == Parsing(code)
    IN  /\ read.ok
        /\ <<read.name, read.city, read.amount, read.key, read.url>> =
             <<p.name, p.city, p.amount, p.key, p.url>>
        /\ read.dynamic = Dynamic(p)
        /\ read.description = (IF p.url = <<>> THEN p.description ELSE <<>>)
        /\ read.txid = (IF p.txid = <<>> THEN NoTxID ELSE p.txid)
        /\ read.crcValid \/ SubSeq(code, Len(code) - 3, Len(code)) = CRCTag

\* A code with one byte replaced is either not a sequence of fields any more or
\* fails its CRC (ValidateCode: "code may be corrupted or tampered").
CorruptedIsRefused == corrupted => ~ValidateCode(code)

\* "Encode builds a valid BR Code string from the Payload, computing the CRC":
\* what it builds, ValidateCode accepts.
EncodedIsValid == Written => ValidateCode(code)
=============================================================================
