----------------------------- MODULE WalletKeys -----------------------------
(***************************************************************************)
(* The encodings of src/web/src/lib/walletCrypto.js: an address is the     *)
(* base58 form of a key hash and its checksum, a recovery phrase is the    *)
(* base-2048 form of an entropy and its checksum.  The bases and lengths   *)
(* are parameters; hashes and signatures are constants.                    *)
(***************************************************************************)
EXTENDS Naturals, SequencesExt

CONSTANTS
  Hex,          \* base of a hex digit, 16 in the code; a byte has two of them
  CharBase,     \* length of the base58 alphabet
  WordBase,     \* length of the word list, 2048
  WordCount,    \* words of a phrase, 12
  EntLen,       \* bytes of an entropy, 16
  PkhLen,       \* bytes of a key hash, 20
  CsLen,        \* bytes of an address checksum, 4
  CsBase,       \* values of a phrase checksum, 2^4
  EntCs,        \* entropy -> checksum nibble
  PkhCs,        \* key hash -> checksum bytes
  PkhOf         \* seed -> key hash; a seed goes by the entropy it is the hash of

ByteBase == Hex * Hex
Bytes(n) == [1..n -> 0..(ByteBase - 1)]
Entropies == Bytes(EntLen)

(* A call that throws.                                                       *)
Fail == <<>>

-----------------------------------------------------------------------------
(* The number a sequence of digits stands for, and the digits of a number    *)
(* without leading zeros.                                                    *)
NumberOf(s, base) == FoldLeft(LAMBDA n, d : n * base + d, 0, s)

DigitsOf(n, base) ==
  LET digits[m \in 0..n] ==
        IF m = 0 THEN <<>> ELSE Append(digits[m \div base], m % base)
  IN  digits[n]

Zeros(n) == [i \in 1..n |-> 0]

LeadingZeros(s) ==
  Max({k \in 0..Len(s) : \A i \in 1..k : s[i] = 0})

(* BigInt's toString(16), which gives one digit for zero.                    *)
HexOf(n) == IF n = 0 THEN <<0>> ELSE DigitsOf(n, Hex)

EvenLength(h) == IF Len(h) % 2 = 0 THEN h ELSE Cons(0, h)

(* A mutant: the zeros go to the end.                                        *)
PadStart_End(h, n) == h \o Zeros(IF n > Len(h) THEN n - Len(h) ELSE 0)

PadStart(h, n) == Zeros(IF n > Len(h) THEN n - Len(h) ELSE 0) \o h

BytesOf(h) == [i \in 1..(Len(h) \div 2) |-> h[2 * i - 1] * Hex + h[2 * i]]

-----------------------------------------------------------------------------
b58enc(b) == Zeros(LeadingZeros(b)) \o DigitsOf(NumberOf(b, ByteBase), CharBase)

b58dec(s) == Zeros(LeadingZeros(s)) \o BytesOf(EvenLength(HexOf(NumberOf(s, CharBase))))

pkhToAddr(pkh) == b58enc(pkh \o PkhCs[pkh])

addrToPkh(addr) ==
  LET d   == b58dec(addr)
      pkh == SubSeq(d, 1, PkhLen)
  IN  IF /\ \A i \in DOMAIN addr : addr[i] < CharBase
         /\ Len(d) = PkhLen + CsLen
         /\ SubSeq(d, PkhLen + 1, PkhLen + CsLen) = PkhCs[pkh]
      THEN pkh ELSE Fail

validAddr(addr) == addrToPkh(addr) # Fail

entToMn(ent) ==
  LET n == NumberOf(ent, ByteBase) * CsBase + EntCs[ent]
  IN  [i \in 1..WordCount |-> (n \div WordBase^(WordCount - i)) % WordBase]

mnToEnt(mn) ==
  LET n   == NumberOf(mn, WordBase)
      ent == BytesOf(PadStart(HexOf(n \div CsBase), 2 * EntLen))
  IN  IF /\ Len(mn) = WordCount
         /\ \A i \in DOMAIN mn : mn[i] < WordBase
         /\ n % CsBase = EntCs[ent]
      THEN ent ELSE Fail

walletFromSeed(seed) ==
  [seed |-> seed, pkh |-> PkhOf[seed], address |-> pkhToAddr(PkhOf[seed])]

-----------------------------------------------------------------------------
(* The phrase and the address of every wallet lead back to its seed and its  *)
(* key hash, also where bytes or digits at the front are zero, and no other  *)
(* phrase is taken for one (b58enc and b58dec, the padding in mnToEnt).      *)
CodecRoundTrips ==
  /\ \A ent \in Entropies :
       /\ mnToEnt(entToMn(ent)) = ent
       /\ addrToPkh(pkhToAddr(PkhOf[ent])) = PkhOf[ent]
  /\ \A mn \in [1..WordCount -> 0..(WordBase - 1)] :
       mnToEnt(mn) # Fail => /\ mnToEnt(mn) \in Entropies
                            /\ entToMn(mnToEnt(mn)) = mn

=============================================================================
