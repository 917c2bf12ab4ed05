----------------------------- MODULE Encodings -----------------------------
(***************************************************************************)
(* How keys and seeds travel as text: base58 (common/base58), the          *)
(* serialised keys of a wallet (wallet/hdwallet.go) and mnemonic sentences *)
(* (wallet/mnemonic.go).  A value is written, its text may be changed in   *)
(* one place on the way, and is read again.                                *)
(*                                                                         *)
(* All sizes are scaled down together.  A byte has ByteBits bits instead   *)
(* of 8; base 58 is Radix; a limb of the decoder has LimbBytes bytes       *)
(* instead of 4; a word of a sentence stands for WordBits bits instead of  *)
(* 11.  As in the code, three words carry four bytes and one bit of        *)
(* checksum, so that 3 * WordBits = 4 * ByteBits + 1.                      *)
(***************************************************************************)
EXTENDS Integers, FiniteSets, SequencesExt

CONSTANTS
    ByteBits, Radix, LimbBytes, WordBits,
    MinUnits, MaxUnits,  \* a seed has this many units of four bytes (4 .. 8)
    Values               \* the values written, a set of [kind, value]

ASSUME EncodingAssumption ==
    /\ {ByteBits, LimbBytes, MinUnits} \subseteq Nat \ {0}
    /\ Radix \in 2 .. 2 ^ ByteBits - 1
    /\ 3 * WordBits = 4 * ByteBits + 1
    /\ MaxUnits \in MinUnits .. ByteBits

Byte == 2 ^ ByteBits
Error == <<-1>>      \* in the place of bytes that could not be read
Zeros(n) == <<>> \o [i \in 1 .. n |-> 0]

-----------------------------------------------------------------------------
\* Big integers and hashes.

Max0(a, b) == IF a > b THEN a ELSE b
SetBytes(s) == FoldLeft(LAMBDA n, b : n * Byte + b, 0, s)
Digits(n, base, len) == [i \in 1 .. len |-> (n \div base ^ (len - i)) % base]
ByteLen(n) == CHOOSE k \in 0 .. 30 : n < Byte ^ k /\ (k = 0 \/ n >= Byte ^ (k - 1))
BytesOf(n) == Digits(n, Byte, ByteLen(n))

\* HashB and sha256: some function of the bytes, of which one byte is used.
HashByte(data) == FoldLeft(LAMBDA h, b : (5 * h + b + 1) % 31, 1, data) % Byte

-----------------------------------------------------------------------------
\* base58util.go.  A text is a sequence of characters, the digits of the
\* alphabet by their values and Radix for any other character.

InAlphabet(str) == \A i \in DOMAIN str : str[i] \in 0 .. Radix - 1

LeadingZeros(s) == Cardinality({i \in DOMAIN s : \A j \in 1 .. i : s[j] = 0})
BufferSize(n) == (n * 138) \div 100 + 1

\* One byte of input into the buffer, from its end up to high and further
\* while there is a carry.  Running out of the buffer would be a panic.
PutByte(st, byte) ==
    LET size == Len(st.buf)
        at[k \in 0 .. size] ==
            IF k = 0 THEN [buf |-> st.buf, j |-> size, carry |-> byte]
            ELSE LET p == at[k - 1]
                     t == p.carry + Byte * p.buf[p.j]
                 IN  IF p.j > st.high \/ p.carry # 0
                     THEN [buf |-> [p.buf EXCEPT ![p.j] = t % Radix], j |-> p.j - 1, carry |-> t \div Radix]
                     ELSE p
        end == at[size]
    IN  [buf |-> end.buf, high |-> end.j, panic |-> st.panic \/ end.carry # 0]

FastBase58Encoding(bin) ==
    LET zcount == LeadingZeros(bin)
        size == BufferSize(Len(bin) - zcount)
        end == FoldLeft(PutByte, [buf |-> Zeros(size), high |-> size, panic |-> FALSE],
                        SubSeq(bin, zcount + 1, Len(bin)))
    IN  IF end.panic THEN Error
        ELSE Zeros(zcount) \o SubSeq(end.buf, LeadingZeros(end.buf) + 1, size)

TrivialBase58Encoding(a) ==
    LET idx == BufferSize(Len(a))
        digits == Digits(SetBytes(a), Radix, idx)
    IN  Zeros(LeadingZeros(a)) \o SubSeq(digits, LeadingZeros(digits) + 1, idx)

\* One digit of input into the limbs, from the last one.
PutDigit(limbs, digit) ==
    LET n == Len(limbs)
        sum[j \in 1 .. n + 1] ==
            IF j = n + 1 THEN [limb |-> 0, carry |-> digit]
            ELSE LET t == limbs[j] * Radix + sum[j + 1].carry
                 IN  [limb |-> t % Byte ^ LimbBytes, carry |-> t \div Byte ^ LimbBytes]
    IN  [limbs |-> [j \in 1 .. n |-> sum[j].limb], carry |-> sum[1].carry]

FastBase58Decoding(str) ==
    LET sz == Len(str)
        outisz == (sz + LimbBytes - 1) \div LimbBytes
        bytesleft == IF sz % LimbBytes > 0 THEN sz % LimbBytes ELSE LimbBytes
        end == FoldLeft(LAMBDA st, r :
                            LET put == PutDigit(st.limbs, r)
                            IN  [limbs |-> put.limbs,
                                 bad |-> st.bad \/ put.carry > 0 \/ put.limbs[1] >= Byte ^ bytesleft],
                        [limbs |-> Zeros(outisz), bad |-> FALSE], str)
        bytes == FlattenSeq([j \in 1 .. outisz |->
                     Digits(end.limbs[j], Byte, IF j = 1 THEN bytesleft ELSE LimbBytes)])
        start == Max0(0, LeadingZeros(bytes) - LeadingZeros(str))
    IN  IF sz = 0 \/ ~InAlphabet(str) \/ end.bad THEN Error
        ELSE IF \A i \in DOMAIN bytes : bytes[i] = 0 THEN bytes
        ELSE SubSeq(bytes, start + 1, Len(bytes))

\* base58.go: what cannot be decoded counts as nothing.
Base58Decode(str) == LET d == FastBase58Decoding(str) IN IF d = Error THEN <<>> ELSE d

TrivialBase58Decoding(str) ==
    IF InAlphabet(str)
    THEN Zeros(LeadingZeros(str)) \o BytesOf(FoldLeft(LAMBDA n, c : n * Radix + c, 0, str))
    ELSE Error

-----------------------------------------------------------------------------
\* base58check.go: a version byte in front, a checksum behind.

ChecksumLen == 1
ChecksumFirst4Bytes(data) == <<HashByte(data)>>
WithChecksum(data) == data \o ChecksumFirst4Bytes(data)
Body(data) == SubSeq(data, 1, Len(data) - ChecksumLen)
ChecksumIsRight(data) == data = WithChecksum(Body(data))

Base58CheckEncode(input, version) == FastBase58Encoding(WithChecksum(<<version>> \o input))

Base58CheckDecode(text) ==
    CHOOSE data \in {IF Len(decoded) < 1 + ChecksumLen \/ ~ChecksumIsRight(decoded) THEN Error
                     ELSE Tail(Body(decoded)) : decoded \in {Base58Decode(text)}} : TRUE

-----------------------------------------------------------------------------
\* hdwallet.go and keysetprivacy.go: the keys of an account.  What the curve
\* computes from a private key is some function of it.

PriKeyType == 0
PaymentAddressType == 1
ReadonlyKeyType == 2
KeyTypes == {PriKeyType, PaymentAddressType, ReadonlyKeyType}

GenerateReceivingKey(priv) == <<HashByte(priv)>>
KeySetOf(priv) ==
    [priv |-> priv, pk |-> <<1, HashByte(priv \o <<1>>)>>,
     tk |-> <<2, HashByte(GenerateReceivingKey(priv))>>, rk |-> GenerateReceivingKey(priv)]
NoKeySet == [priv |-> <<>>, pk |-> <<>>, tk |-> <<>>, rk |-> <<>>]
NoKey == [depth |-> 0, child |-> <<>>, chain |-> <<>>, keys |-> NoKeySet]
KeyError == [NoKey EXCEPT !.depth = -1]

\* A child key depends on the parent's chain code and the index alone.
NewChildKey(parent, childIdx) ==
    LET intermediary(i) == <<HashByte(parent.chain \o <<childIdx, i>>)>>
    IN  [depth |-> (parent.depth + 1) % Byte, child |-> <<childIdx>>, chain |-> intermediary(2),
         keys |-> KeySetOf(intermediary(1))]

NewMasterKey(seed) ==
    [depth |-> 0, child |-> <<0>>, chain |-> <<HashByte(seed \o <<2>>)>>, keys |-> KeySetOf(<<HashByte(seed)>>)]

WithLength(bytes) == <<Len(bytes) % Byte>> \o bytes

Serialize(key, type) ==
    WithChecksum(<<type>> \o
        CASE type = PriKeyType -> <<key.depth>> \o key.child \o key.chain \o WithLength(key.keys.priv)
          [] type = PaymentAddressType -> WithLength(key.keys.pk) \o WithLength(key.keys.tk)
          [] type = ReadonlyKeyType -> WithLength(key.keys.pk) \o WithLength(key.keys.rk))

\* The fields are cut out by the lengths in the data before the checksum is
\* compared; a length beyond the end is a panic.
Deserialize(data) ==
    LET FieldAt(i) == SubSeq(data, i + 1, i + data[i])
        second == 3 + data[2]
        key == CASE data[1] = PriKeyType ->
                      [depth |-> data[2], child |-> <<data[3]>>, chain |-> <<data[4]>>,
                       keys |-> [NoKeySet EXCEPT !.priv = FieldAt(5)]]
                 [] data[1] = PaymentAddressType ->
                      [NoKey EXCEPT !.keys = [NoKeySet EXCEPT !.pk = FieldAt(2), !.tk = FieldAt(second)]]
                 [] data[1] = ReadonlyKeyType ->
                      [NoKey EXCEPT !.keys = [NoKeySet EXCEPT !.pk = FieldAt(2), !.rk = FieldAt(second)]]
                 [] OTHER -> NoKey
    IN  IF ChecksumIsRight(data) THEN key ELSE KeyError

Base58CheckSerialize(key, type) == Base58CheckEncode(Serialize(key, type), 0)

Base58CheckDeserialize(text) ==
    CHOOSE key \in {IF data = Error THEN KeyError ELSE Deserialize(data) : data \in {Base58CheckDecode(text)}} : TRUE

\* An account that is imported gets its other keys from the private one.
ImportFromPrivateKey(key) == [key EXCEPT !.keys = KeySetOf(key.keys.priv)]

-----------------------------------------------------------------------------
\* mnemonic.go.  A sentence is what strings.Split makes of it at each space:
\* the indexes of its words, Words for a word that is not in the list, and
\* nothing where a space is followed by another one or stands at an end.

Words == 2 ^ WordBits
Blank == -1
Fields(sentence) == SelectSeq(sentence, LAMBDA w : w # Blank)   \* strings.Fields
UnitBits == 4 * ByteBits

validateEntropyBitSize(bits) ==
    bits % UnitBits = 0 /\ bits >= MinUnits * UnitBits /\ bits <= MaxUnits * UnitBits

\* A mutant: the zeros that an integer has lost are not put back.
padByteSliceNot(slice, length) == slice

padByteSlice(slice, length) == Zeros(length - Len(slice)) \o slice

ChecksumBits(data, n) == HashByte(data) \div 2 ^ (ByteBits - n)

\* The result is the bytes of an integer: leading zeros are lost.
addChecksum(data) ==
    LET n == Len(data) \div 4
    IN  BytesOf(SetBytes(data) * 2 ^ n + ChecksumBits(data, n))

NewMnemonic(entropy) ==
    LET bits == Len(entropy) * ByteBits
        sentenceLength == (bits + bits \div UnitBits) \div WordBits
    IN  IF ~validateEntropyBitSize(bits) THEN Error
        ELSE Digits(SetBytes(addChecksum(entropy)), Words, sentenceLength)

IsMnemonicValid(sentence) ==
    LET words == Fields(sentence)
    IN  /\ Len(words) % 3 = 0 /\ Len(words) >= 3 * MinUnits /\ Len(words) <= 3 * MaxUnits
        /\ \A i \in DOMAIN words : words[i] \in 0 .. Words - 1

Indexes(sentence) == [i \in DOMAIN sentence |-> IF sentence[i] \in 0 .. Words - 1 THEN sentence[i] ELSE 0]
SentenceInt(words) == FoldLeft(LAMBDA n, w : n * Words + w, 0, words)

EntropyFromMnemonic(sentence) ==
    LET words == Fields(sentence)
        n == Len(words) \div 3
        b == SentenceInt(words)
        entropy == padByteSlice(BytesOf(b \div 2 ^ n), n * 4)
    IN  IF ~IsMnemonicValid(sentence) THEN Error
        ELSE IF b % 2 ^ n # ChecksumBits(entropy, n) THEN Error
        ELSE entropy

\* The sizes are those of the split sentence, and what is not in the map of
\* words has the index 0.  With raw, the entropy without its checksum.
MnemonicToByteArray(sentence, raw) ==
    LET bits == Len(sentence) * WordBits
        checksumBits == bits % UnitBits
        fullByteSize == (bits - checksumBits) \div ByteBits + 1
        checksummed == SentenceInt(Indexes(sentence))
        rawEntropy == padByteSlice(BytesOf(checksummed \div 2 ^ checksumBits), fullByteSize - (fullByteSize % 4))
        full == padByteSlice(BytesOf(checksummed), fullByteSize)
    IN  IF ~IsMnemonicValid(sentence) THEN Error
        ELSE IF full # padByteSlice(addChecksum(rawEntropy), fullByteSize) THEN Error
        ELSE IF raw THEN rawEntropy ELSE full

-----------------------------------------------------------------------------
\* A value on its way.

VARIABLES
    item,     \* what is written, [kind, value] and the type of a key
    at,       \* how far it is: value, text, (garbled,) read
    text,     \* its text
    read      \* what the reader made of the text

encodingVars == <<item, at, text, read>>

EncodingInit == /\ item \in Values
                /\ at = "value"
                /\ text = <<>>
                /\ read = <<>>

Write(kind, encoded) ==
    /\ at = "value" /\ item.kind = kind
    /\ text' = encoded
    /\ at' = "text"
    /\ UNCHANGED <<item, read>>

WriteBytes == Write("bytes", FastBase58Encoding(item.value))
WriteChecked == Write("checked", Base58CheckEncode(item.value, 0))
WriteKey == Write("key", Base58CheckSerialize(item.value, item.type))
WriteSeed == Write("seed", NewMnemonic(item.value))

\* A character or a word becomes another one, which may be none of the
\* alphabet or of the list, or is left out; or there is a space too many in a
\* sentence.  (Within the alphabet a changed key is told from a right one by
\* its checksums alone, too short here.)
Garble ==
    /\ at = "text"
    /\ \/ \E i \in DOMAIN text :
             \/ \E c \in CASE item.kind = "bytes" -> 0 .. Radix
                          [] item.kind = "seed" -> 0 .. Words
                          [] OTHER -> {Radix} :
                   c # text[i] /\ text' = [text EXCEPT ![i] = c]
             \/ item.kind \in {"bytes", "seed"} /\ text' = RemoveAt(text, i)
       \/ item.kind = "seed" /\ \E i \in 1 .. Len(text) + 1 : text' = InsertAt(text, i, Blank)
    /\ at' = "garbled"
    /\ UNCHANGED <<item, read>>

Read(kind, decoded) ==
    /\ at \in {"text", "garbled"} /\ item.kind = kind
    /\ read' = decoded
    /\ at' = IF at = "text" THEN "read" ELSE "garbledRead"
    /\ UNCHANGED <<item, text>>

ReadBytes == Read("bytes", Base58Decode(text))
ReadChecked == Read("checked", Base58CheckDecode(text))
ReadKey == Read("key", Base58CheckDeserialize(text))
ReadSeed == Read("seed", EntropyFromMnemonic(text))

EncodingNext ==
    \/ WriteBytes \/ WriteChecked \/ WriteKey \/ WriteSeed
    \/ Garble
    \/ ReadBytes \/ ReadChecked \/ ReadKey \/ ReadSeed

-----------------------------------------------------------------------------
\* What is left of a key in a text of the given type; the private key gives
\* all of it back.
KeyPart(key, type) ==
    CASE type = PriKeyType -> key
      [] type = PaymentAddressType -> [pk |-> key.keys.pk, tk |-> key.keys.tk]
      [] type = ReadonlyKeyType -> [pk |-> key.keys.pk, rk |-> key.keys.rk]

Recovered ==
    IF item.kind # "key" THEN read = item.value
    ELSE KeyPart(IF item.type = PriKeyType THEN ImportFromPrivateKey(read) ELSE read, item.type)
           = KeyPart(item.value, item.type)

(***************************************************************************)
(* What FastBase58Encoding, Base58Check, KeyWallet.Serialize and           *)
(* NewMnemonic write, their readers give back, leading zeros included, and *)
(* no buffer is too small.  A changed text of base58 is the one text of    *)
(* another value, for both of its coders, or has a character that is not   *)
(* in the alphabet: both refuse that, and then Base58.Decode gives nothing *)
(* back and a key is never read.  A changed sentence is refused or the one *)
(* sentence of the entropy that EntropyFromMnemonic reads, up to spaces;   *)
(* MnemonicToByteArray, which counts words by single spaces, reads the     *)
(* same, or refuses a sentence with a space too many.                      *)
(***************************************************************************)
BytesAreFaithful ==
    IF InAlphabet(text) /\ text # <<>>
    THEN /\ text = FastBase58Encoding(read) /\ text = TrivialBase58Encoding(read)
         /\ read = TrivialBase58Decoding(text)
    ELSE /\ read = <<>>
         /\ text = <<>> \/ TrivialBase58Decoding(text) = Error

SentenceIsFaithful ==
    /\ MnemonicToByteArray(text, TRUE) \in {read} \cup (IF Fields(text) # text THEN {Error} ELSE {})
    /\ read # Error => Fields(text) = NewMnemonic(read)
    /\ MnemonicToByteArray(text, FALSE) # Error =>
          SetBytes(MnemonicToByteArray(text, FALSE)) = SentenceInt(Fields(text))

TextsAreFaithful ==
    /\ text # Error
    /\ at = "read" => Recovered
    /\ at \in {"read", "garbledRead"} =>
          CASE item.kind = "bytes" -> BytesAreFaithful
            [] item.kind = "seed" -> SentenceIsFaithful
            [] item.kind = "checked" -> at = "garbledRead" => read = Error
            [] item.kind = "key" -> at = "garbledRead" => read = KeyError
=============================================================================
