--------------------------- MODULE NvsConfig_proofs ---------------------------
(* Proofs about NvsConfig, for fields of any size and any credentials in UTF-8. *)
EXTENDS NvsConfig, FiniteSetTheorems, SequenceTheorems, TLAPS

-----------------------------------------------------------------------------
(* One field                                                               *)

\* The first k bytes of a padded text, and erased bytes after them.
TornField(text, n, k) == [i \in 1 .. n |-> IF i <= k THEN Padded(text, n)[i] ELSE Erased]

\* A field with a NUL at l + 1 and none before reads as its first l bytes.
LEMMA FirstNul ==
    ASSUME NEW n \in Nat, NEW S, NEW field \in [1 .. n -> S],
           NEW l \in 0 .. n - 1,
           field[l + 1] = Nul, \A i \in 1 .. l : field[i] # Nul
    PROVE  TextLen(field) = l
<1> DEFINE First(i) == \A j \in Nuls(field) : i <= j
           first == CHOOSE i \in Nuls(field) : First(i)
<1>1. DOMAIN field = 1 .. n
  OBVIOUS
<1>2. l + 1 \in Nuls(field) /\ First(l + 1)
  BY <1>1 DEF Nuls
<1>3. first \in Nuls(field) /\ First(first)
  <2> HIDE DEF First
  <2> QED BY <1>2
<1>4. first <= l + 1 /\ l + 1 <= first /\ first \in Int
  BY <1>1, <1>2, <1>3 DEF Nuls
<1>5. TextLen(field) = first - 1
  BY <1>2 DEF TextLen
<1> HIDE DEF first
<1> QED BY <1>4, <1>5

\* A field without a NUL reads as the whole of it.
LEMMA NoNul ==
    ASSUME NEW n \in Nat, NEW S, NEW field \in [1 .. n -> S],
           \A i \in 1 .. n : field[i] # Nul
    PROVE  TextLen(field) = n
<1>1. Nuls(field) = {}
  BY DEF Nuls
<1>2. Len(field) = n
  OBVIOUS
<1> QED BY <1>1, <1>2 DEF TextLen

\* The bytes of a text.
LEMMA TextBytes ==
    ASSUME NEW text \in Seq(Ascii \cup High)
    PROVE  Len(text) \in Nat /\ \A i \in 1 .. Len(text) : text[i] \in Ascii \cup High
<1>1. Len(text) \in Nat
  BY LenProperties
<1>2. \A i \in 1 .. Len(text) : text[i] \in Ascii \cup High
  BY ElementOfSeq
<1> QED BY <1>1, <1>2

\* The bytes of a torn field, and how far it is read.
LEMMA TornFieldBytes ==
    ASSUME NEW n \in Nat, NEW text \in Seq(Ascii \cup High), Len(text) <= n, NEW k \in 0 .. n
    PROVE  LET field == TornField(text, n, k)
           IN  /\ field \in [1 .. n -> Ascii \cup High \cup {Nul, Erased}]
               /\ Len(field) = n
               /\ \A i \in 1 .. n : field[i] = IF i <= k
                                                  THEN IF i <= Len(text) THEN text[i] ELSE Nul
                                                  ELSE Erased
               /\ Len(text) < k => TextLen(field) = Len(text)
               /\ k <= Len(text) => TextLen(field) = n
<1> DEFINE field == TornField(text, n, k)
<1> USE ByteAssumption
<1>0. Len(text) \in Nat /\ \A i \in 1 .. Len(text) : text[i] \in Ascii \cup High
  BY TextBytes
<1>1. field \in [1 .. n -> Ascii \cup High \cup {Nul, Erased}]
  BY <1>0 DEF TornField, Padded
<1>2. \A i \in 1 .. n : field[i] = IF i <= k
                                     THEN IF i <= Len(text) THEN text[i] ELSE Nul
                                     ELSE Erased
  BY <1>0 DEF TornField, Padded
<1>3. Len(field) = n
  BY <1>1
<1>4. ASSUME Len(text) < k PROVE TextLen(field) = Len(text)
  <2>1. Len(text) \in 0 .. n - 1
    BY <1>0, <1>4
  <2>2. field[Len(text) + 1] = Nul /\ \A i \in 1 .. Len(text) : field[i] # Nul
    BY <1>0, <1>2, <1>4
  <2> HIDE DEF field
  <2> QED BY <1>1, <2>1, <2>2, FirstNul
<1>5. ASSUME k <= Len(text) PROVE TextLen(field) = n
  <2>1. \A i \in 1 .. n : field[i] # Nul
    BY <1>0, <1>2, <1>5
  <2> HIDE DEF field
  <2> QED BY <1>1, <2>1, NoNul
<1> QED BY <1>1, <1>2, <1>3, <1>4, <1>5

\* A text written in part either does not fit its field again, because the
\* bytes that are still erased take twice their room, or reads as the whole.
LEMMA TornFieldReads ==
    ASSUME NEW n \in Nat, NEW text \in Seq(Ascii \cup High), Len(text) <= n, NEW k \in 0 .. n
    PROVE  LET torn == TornField(text, n, k)
               whole == Padded(text, n)
           IN  Fits(torn) => Fits(whole) /\ TextOf(torn) = TextOf(whole)
<1> DEFINE torn == TornField(text, n, k)
           whole == TornField(text, n, n)
           Wide(field) == {i \in 1 .. TextLen(field) : field[i] \notin Ascii}
<1> USE ByteAssumption
<1>0. Len(text) \in Nat /\ n \in 0 .. n
  BY TextBytes
<1>1. whole = Padded(text, n)
  BY <1>0 DEF TornField, Padded
<1>2. CASE k = n
  BY <1>1, <1>2
<1>3. CASE Len(text) < k
  <2>1. /\ TextLen(torn) = Len(text) /\ TextLen(whole) = Len(text)
        /\ Len(torn) = n /\ Len(whole) = n
    BY <1>0, <1>3, TornFieldBytes
  <2>2. \A i \in 1 .. Len(text) : torn[i] = whole[i]
    BY <1>0, <1>3 DEF TornField
  <2> HIDE DEF torn, whole
  <2>3. Wide(torn) = Wide(whole)
    BY <2>1, <2>2
  <2>4. Fits(torn) <=> Fits(whole)
    BY <2>1, <2>3 DEF Fits
  <2>5. TextOf(torn) = TextOf(whole)
    BY <2>1, <2>2 DEF TextOf
  <2> QED BY <1>1, <2>4, <2>5 DEF torn
<1>4. CASE k <= Len(text) /\ k < n
  <2>1. TextLen(torn) = n /\ Len(torn) = n
    BY <1>4, TornFieldBytes
  <2>2. n \in Wide(torn)
    BY <1>4, <2>1 DEF TornField
  <2> HIDE DEF torn
  <2>3. IsFiniteSet(Wide(torn))
    <3>1. IsFiniteSet(1 .. n)
      BY FS_Interval
    <3>2. Wide(torn) \subseteq 1 .. n
      BY <2>1
    <3> QED BY <3>1, <3>2, FS_Subset
  <2>4. Cardinality(Wide(torn)) \in Nat /\ Cardinality(Wide(torn)) # 0
    BY <2>2, <2>3, FS_CardinalityType, FS_EmptySet
  <2>5. ~ Fits(torn)
    BY <2>1, <2>4 DEF Fits
  <2> QED BY <2>5 DEF torn
<1> QED BY <1>0, <1>2, <1>3, <1>4

\* A field that holds a whole text reads as its bytes, each as a character.
LEMMA WholeFieldReads ==
    ASSUME NEW n \in Nat, NEW text \in Seq(Ascii \cup High), Len(text) <= n
    PROVE  LET field == Padded(text, n)
           IN  /\ TextOf(field) = [i \in 1 .. Len(text) |-> AsChar(text[i])]
               /\ (\A i \in 1 .. Len(text) : text[i] \in Ascii) => Fits(field)
<1> DEFINE field == TornField(text, n, n)
           wide == {i \in 1 .. TextLen(field) : field[i] \notin Ascii}
<1>0. Len(text) \in Nat /\ n \in 0 .. n
  BY TextBytes
<1>1. field = Padded(text, n)
  BY <1>0 DEF TornField, Padded
<1>2. TextLen(field) = Len(text) /\ Len(field) = n
  <2>1. Len(text) < n \/ n = Len(text)
    BY <1>0
  <2> QED BY <1>0, <2>1, TornFieldBytes
<1>3. \A i \in 1 .. Len(text) : field[i] = text[i]
  BY <1>0 DEF TornField, Padded
<1>4. ASSUME \A i \in 1 .. Len(text) : text[i] \in Ascii PROVE Fits(field)
  <2> HIDE DEF field
  <2>1. wide = {}
    BY <1>2, <1>3, <1>4
  <2>2. Cardinality(wide) = 0
    BY <2>1, FS_EmptySet
  <2> QED BY <1>0, <1>2, <2>2 DEF Fits
<1>5. TextOf(field) = [i \in 1 .. Len(text) |-> AsChar(text[i])]
  <2> HIDE DEF field
  <2> QED BY <1>2, <1>3 DEF TextOf
<1> QED BY <1>1, <1>4, <1>5

-----------------------------------------------------------------------------
(* The record                                                              *)

Blank == [i \in 1 .. RecordLen |-> Erased]

LEMMA Lengths ==
    SsidLen \in Nat /\ PassLen \in Nat /\ RecordLen \in Nat /\ RecordLen > SsidLen + 1
  BY LenAssumption DEF RecordLen

\* A record is made of bytes.
LEMMA RecordTyping ==
    ASSUME NEW c \in Credentials
    PROVE  RecordOf(c) \in [1 .. RecordLen -> Bytes]
<1>1. /\ \A i \in 1 .. SsidLen : Padded(c.ssid, SsidLen)[i] \in Bytes
      /\ \A i \in 1 .. PassLen : Padded(c.password, PassLen)[i] \in Bytes
  <2>1. c.ssid \in Seq(Ascii \cup High) /\ c.password \in Seq(Ascii \cup High)
    BY CredentialsAssumption
  <2>2. \A i \in 1 .. Len(c.ssid) : c.ssid[i] \in Ascii \cup High
    BY <2>1, ElementOfSeq
  <2>3. \A i \in 1 .. Len(c.password) : c.password[i] \in Ascii \cup High
    BY <2>1, ElementOfSeq
  <2> QED BY <2>1, <2>2, <2>3, LenProperties DEF Padded, Bytes
<1>2. \A i \in 1 .. RecordLen :
         /\ i # 1 /\ i <= 1 + SsidLen => i - 1 \in 1 .. SsidLen
         /\ i > 1 + SsidLen => i - 1 - SsidLen \in 1 .. PassLen
  BY LenAssumption DEF RecordLen
<1>3. Magic \in Bytes
  BY DEF Bytes
<1>4. \A i \in 1 .. RecordLen : RecordOf(c)[i] \in Bytes
  <2> SUFFICES ASSUME NEW i \in 1 .. RecordLen PROVE RecordOf(c)[i] \in Bytes
    OBVIOUS
  <2>1. CASE i = 1
    BY <1>3, <2>1 DEF RecordOf
  <2>2. CASE i # 1 /\ i <= 1 + SsidLen
    BY <1>1, <1>2, <2>2 DEF RecordOf
  <2>3. CASE i # 1 /\ ~ (i <= 1 + SsidLen)
    <3>1. RecordOf(c)[i] = Padded(c.password, PassLen)[i - 1 - SsidLen]
      BY <2>3 DEF RecordOf
    <3>2. i - 1 - SsidLen \in 1 .. PassLen
      BY <1>2, <2>3, Lengths
    <3> QED BY <1>1, <3>1, <3>2
  <2> QED BY <2>1, <2>2, <2>3
<1> QED BY <1>4 DEF RecordOf

\* The name in a torn record is a torn name.
LEMMA TornSsid ==
    ASSUME NEW c \in Credentials, NEW w \in 0 .. RecordLen
    PROVE  \E k \in 0 .. SsidLen :
              /\ SsidField(Torn(c, w)) = TornField(c.ssid, SsidLen, k)
              /\ w = RecordLen => k = SsidLen
<1> DEFINE k == IF w < 1 THEN 0 ELSE IF w <= 1 + SsidLen THEN w - 1 ELSE SsidLen
<1>1. k \in 0 .. SsidLen /\ (w = RecordLen => k = SsidLen)
  BY Lengths
<1>2. \A i \in 1 .. SsidLen :
         /\ 1 + i \in 1 .. RecordLen /\ 1 + i # 1 /\ 1 + i <= 1 + SsidLen
         /\ (1 + i) - 1 = i
         /\ 1 + i <= w <=> i <= k
  BY Lengths
<1>3. \A i \in 1 .. SsidLen :
         Torn(c, w)[1 + i] = IF i <= k THEN Padded(c.ssid, SsidLen)[i] ELSE Erased
  <2> HIDE DEF k
  <2> QED BY <1>2 DEF Torn, RecordOf
<1>4. SsidField(Torn(c, w)) = TornField(c.ssid, SsidLen, k)
  <2> HIDE DEF k
  <2> QED BY <1>3 DEF SsidField, TornField
<1> QED BY <1>1, <1>4

\* The password in a torn record is a torn password.
LEMMA TornPassword ==
    ASSUME NEW c \in Credentials, NEW w \in 0 .. RecordLen
    PROVE  \E k \in 0 .. PassLen :
              /\ PassField(Torn(c, w)) = TornField(c.password, PassLen, k)
              /\ w = RecordLen => k = PassLen
<1> DEFINE k == IF w <= 1 + SsidLen THEN 0 ELSE w - 1 - SsidLen
<1>1. k \in 0 .. PassLen /\ (w = RecordLen => k = PassLen)
  BY LenAssumption DEF RecordLen
<1>2. \A i \in 1 .. PassLen :
         /\ 1 + SsidLen + i \in 1 .. RecordLen
         /\ 1 + SsidLen + i # 1 /\ ~ (1 + SsidLen + i <= 1 + SsidLen)
         /\ (1 + SsidLen + i) - 1 - SsidLen = i
         /\ 1 + SsidLen + i <= w <=> i <= k
  BY LenAssumption DEF RecordLen
<1>3. \A i \in 1 .. PassLen :
         Torn(c, w)[1 + SsidLen + i] =
            IF i <= k THEN Padded(c.password, PassLen)[i] ELSE Erased
  <2> HIDE DEF k
  <2> QED BY <1>2 DEF Torn, RecordOf
<1>4. PassField(Torn(c, w)) = TornField(c.password, PassLen, k)
  <2> HIDE DEF k
  <2> QED BY <1>3 DEF PassField, TornField
<1> QED BY <1>1, <1>4

\* The fields of a whole record.
LEMMA RecordFields ==
    ASSUME NEW c \in Credentials
    PROVE  /\ SsidField(RecordOf(c)) = Padded(c.ssid, SsidLen)
           /\ PassField(RecordOf(c)) = Padded(c.password, PassLen)
           /\ RecordOf(c)[1] = Magic
<1>1. SsidField(RecordOf(c)) = [i \in 1 .. SsidLen |-> Padded(c.ssid, SsidLen)[i]]
  <2>1. \A i \in 1 .. SsidLen : RecordOf(c)[1 + i] = Padded(c.ssid, SsidLen)[i]
    <3>1. \A i \in 1 .. SsidLen :
             /\ 1 + i \in 1 .. RecordLen /\ 1 + i # 1 /\ 1 + i <= 1 + SsidLen
             /\ (1 + i) - 1 = i
      BY Lengths
    <3> QED BY <3>1 DEF RecordOf
  <2> QED BY <2>1 DEF SsidField
<1>2. PassField(RecordOf(c)) = [i \in 1 .. PassLen |-> Padded(c.password, PassLen)[i]]
  <2>1. \A i \in 1 .. PassLen : RecordOf(c)[1 + SsidLen + i] = Padded(c.password, PassLen)[i]
    <3>1. \A i \in 1 .. PassLen :
             /\ 1 + SsidLen + i \in 1 .. RecordLen /\ 1 + SsidLen + i # 1
             /\ ~ (1 + SsidLen + i <= 1 + SsidLen)
             /\ (1 + SsidLen + i) - 1 - SsidLen = i
      BY LenAssumption DEF RecordLen
    <3> QED BY <3>1 DEF RecordOf
  <2> QED BY <2>1 DEF PassField
<1>3. RecordOf(c)[1] = Magic
  BY Lengths DEF RecordOf
<1> QED BY <1>1, <1>2, <1>3 DEF Padded

\* A record torn anywhere reads as the whole record would, or as none.
LEMMA TornLoads ==
    ASSUME NEW c \in Credentials, NEW w \in 0 .. RecordLen
    PROVE  Load(Torn(c, w)) \in {Reading[c], NoCredentials}
<1> DEFINE torn == Torn(c, w)
           whole == RecordOf(c)
<1>0. /\ c.ssid \in Seq(Ascii \cup High) /\ Len(c.ssid) <= SsidLen
      /\ c.password \in Seq(Ascii \cup High) /\ Len(c.password) <= PassLen
  BY CredentialsAssumption
<1>1. Fits(SsidField(torn)) =>
         Fits(SsidField(whole)) /\ TextOf(SsidField(torn)) = TextOf(SsidField(whole))
  <2>1. PICK k \in 0 .. SsidLen : SsidField(torn) = TornField(c.ssid, SsidLen, k)
    BY TornSsid
  <2> HIDE DEF torn
  <2> QED BY <1>0, <2>1, RecordFields, Lengths, TornFieldReads
<1>2. Fits(PassField(torn)) =>
         Fits(PassField(whole)) /\ TextOf(PassField(torn)) = TextOf(PassField(whole))
  <2>1. PICK k \in 0 .. PassLen : PassField(torn) = TornField(c.password, PassLen, k)
    BY TornPassword
  <2> HIDE DEF torn
  <2> QED BY <1>0, <2>1, RecordFields, Lengths, TornFieldReads
<1>3. whole[1] = Magic /\ Reading[c] = Load(whole)
  BY RecordFields DEF Reading
<1> HIDE DEF torn, whole
<1>4. Load(torn) \in {Load(whole), NoCredentials}
  BY <1>1, <1>2, <1>3 DEF Load
<1> QED BY <1>3, <1>4 DEF torn

\* A record that is all there reads as it should.
LEMMA RecordIsTorn == \A c \in Credentials : Torn(c, RecordLen) = RecordOf(c)
  BY Lengths DEF Torn, RecordOf

LEMMA WholeLoads == \A c \in Credentials : Load(Torn(c, RecordLen)) = Reading[c]
  BY RecordIsTorn DEF Reading

\* What is saved in ASCII reads back as itself; with any other character, it
\* reads back as something else or as nothing, although save has returned Ok
\* (nvs_config.rs load pushes each byte as a character; messages.rs
\* SetWifiConfig takes any text of 32 and 64 bytes).
THEOREM AsciiReadsBack ==
    \A c \in Credentials : IsAscii(c) <=> Load(RecordOf(c)) = c
<1> SUFFICES ASSUME NEW c \in Credentials PROVE IsAscii(c) <=> Load(RecordOf(c)) = c
  OBVIOUS
<1> DEFINE AllAscii(text) == \A i \in 1 .. Len(text) : text[i] \in Ascii
<1>0. /\ c = [ssid |-> c.ssid, password |-> c.password] /\ c # NoCredentials
      /\ c.ssid \in Seq(Ascii \cup High) /\ Len(c.ssid) <= SsidLen
      /\ c.password \in Seq(Ascii \cup High) /\ Len(c.password) <= PassLen
  BY CredentialsAssumption
<1>1. ASSUME NEW text \in Seq(Ascii \cup High)
      PROVE  AllAscii(text) <=> [i \in 1 .. Len(text) |-> AsChar(text[i])] = text
  <2>1. Len(text) \in Nat /\ \A i \in 1 .. Len(text) : text[i] \in Ascii \cup High
    BY TextBytes
  <2>2. \A i \in 1 .. Len(text) : text[i] \in Ascii <=> AsChar(text[i]) = text[i]
    BY <2>1, ByteAssumption DEF AsChar
  <2>3. text = [i \in 1 .. Len(text) |-> text[i]]
    BY <2>1
  <2> DEFINE chars == [i \in 1 .. Len(text) |-> AsChar(text[i])]
  <2>4. ASSUME AllAscii(text) PROVE chars = text
    <3>1. chars = [i \in 1 .. Len(text) |-> text[i]]
      BY <2>2, <2>4
    <3> QED BY <2>3, <3>1
  <2>5. ASSUME chars = text, NEW i \in 1 .. Len(text) PROVE text[i] \in Ascii
    <3>1. chars[i] = AsChar(text[i])
      OBVIOUS
    <3> QED BY <2>2, <2>5, <3>1
  <2> QED BY <2>4, <2>5
<1>2. IsAscii(c) <=> AllAscii(c.ssid) /\ AllAscii(c.password)
  <2>1. ASSUME NEW text \in Seq(Ascii \cup High)
        PROVE  ToSet(text) \subseteq Ascii <=> AllAscii(text)
    BY DEF ToSet
  <2> QED BY <1>0, <2>1 DEF IsAscii
<1>3. ASSUME NEW n \in Nat, NEW text \in Seq(Ascii \cup High), Len(text) <= n
      PROVE  /\ TextOf(Padded(text, n)) = text <=> AllAscii(text)
             /\ AllAscii(text) => Fits(Padded(text, n))
  <2>1. TextOf(Padded(text, n)) = [i \in 1 .. Len(text) |-> AsChar(text[i])]
    BY <1>3, WholeFieldReads
  <2>2. AllAscii(text) => Fits(Padded(text, n))
    BY <1>3, WholeFieldReads
  <2>3. [i \in 1 .. Len(text) |-> AsChar(text[i])] = text <=> AllAscii(text)
    BY <1>1
  <2> QED BY <2>1, <2>2, <2>3
<1>4. /\ SsidField(RecordOf(c)) = Padded(c.ssid, SsidLen)
      /\ PassField(RecordOf(c)) = Padded(c.password, PassLen)
  BY RecordFields
<1> HIDE DEF AllAscii
<1>5. RecordOf(c)[1] = Magic
  BY RecordFields
<1>6. /\ TextOf(SsidField(RecordOf(c))) = c.ssid <=> AllAscii(c.ssid)
      /\ AllAscii(c.ssid) => Fits(SsidField(RecordOf(c)))
  BY <1>0, <1>3, <1>4, Lengths
<1>7. /\ TextOf(PassField(RecordOf(c))) = c.password <=> AllAscii(c.password)
      /\ AllAscii(c.password) => Fits(PassField(RecordOf(c)))
  BY <1>0, <1>3, <1>4, Lengths
<1> QED BY <1>0, <1>2, <1>5, <1>6, <1>7 DEF Load

\* An erased sector reads as no credentials.
LEMMA BlankLoads == Load(Blank) = NoCredentials
  BY Lengths, ByteAssumption DEF Load, Blank

-----------------------------------------------------------------------------
(* The inductive invariant                                                 *)

\* The sector is a record of known credentials that is written up to some byte,
\* while save writes the one it was given, as far as it has come.
NvsInv ==
    /\ saving \in Credentials \cup {NoCredentials}
    /\ written \in -1 .. RecordLen
    /\ \/ flash = Blank
       \/ \E c \in Credentials, w \in 0 .. RecordLen : flash = Torn(c, w)
    /\ saving # NoCredentials /\ written # -1 => flash = Torn(saving, written)

LEMMA BlankIsTorn == \A c \in Credentials : Torn(c, 0) = Blank
  BY DEF Torn, Blank

\* One more byte.
LEMMA WriteTorn ==
    ASSUME NEW c \in Credentials, NEW w \in 0 .. RecordLen - 1
    PROVE  [Torn(c, w) EXCEPT ![w + 1] = RecordOf(c)[w + 1]] = Torn(c, w + 1)
<1> DEFINE new == [Torn(c, w) EXCEPT ![w + 1] = RecordOf(c)[w + 1]]
<1>1. DOMAIN new = 1 .. RecordLen /\ w + 1 \in 1 .. RecordLen
  BY Lengths DEF Torn
<1>2. \A i \in 1 .. RecordLen : new[i] = IF i <= w + 1 THEN RecordOf(c)[i] ELSE Erased
  <2> SUFFICES ASSUME NEW i \in 1 .. RecordLen
               PROVE  new[i] = IF i <= w + 1 THEN RecordOf(c)[i] ELSE Erased
    OBVIOUS
  <2>1. CASE i = w + 1
    BY <1>1, <2>1 DEF Torn
  <2>2. CASE i # w + 1
    <3>1. i <= w <=> i <= w + 1
      BY <2>2, Lengths
    <3>2. new[i] = Torn(c, w)[i]
      BY <2>2
    <3> QED BY <3>1, <3>2 DEF Torn
  <2> QED BY <2>1, <2>2
<1>3. new = [i \in 1 .. RecordLen |-> IF i <= w + 1 THEN RecordOf(c)[i] ELSE Erased]
  <2> HIDE DEF new
  <2>1. new = [i \in DOMAIN new |-> new[i]]
    BY DEF new, Torn
  <2> QED BY <1>1, <1>2, <2>1
<1> QED BY <1>3 DEF Torn

LEMMA NvsInitInv == NvsInit => NvsInv
  BY RecordIsTorn, Lengths DEF NvsInit, NvsInv, Blank

LEMMA NvsNextInv == NvsInv /\ [NvsNext]_nvsVars => NvsInv'
<1> SUFFICES ASSUME NvsInv, [NvsNext]_nvsVars PROVE NvsInv'
  OBVIOUS
<1> USE Lengths
<1>1. ASSUME NEW c \in Credentials, BeginSave(c) PROVE NvsInv'
  BY <1>1 DEF NvsInv, BeginSave
<1>2. CASE Erase
  <2>1. flash' = Blank
    BY <1>2 DEF Erase, Blank
  <2> QED BY <1>2, <2>1, BlankIsTorn DEF Erase, NvsInv
<1>3. CASE Write
  <2>1. saving \in Credentials /\ flash = Torn(saving, written)
    BY <1>3 DEF Write, NvsInv
  <2>2. flash' = Torn(saving, written + 1)
    BY <1>3, <2>1, WriteTorn DEF Write
  <2>3. written + 1 \in 0 .. RecordLen
    BY <1>3 DEF Write
  <2>4. saving' = saving /\ written' = written + 1
    BY <1>3 DEF Write
  <2>5. \E c \in Credentials, w \in 0 .. RecordLen : flash' = Torn(c, w)
    BY <2>1, <2>2, <2>3
  <2>6. written' \in -1 .. RecordLen
    BY <2>3, <2>4
  <2> QED BY <2>1, <2>2, <2>4, <2>5, <2>6 DEF NvsInv
<1>4. CASE EndSave
  BY <1>4 DEF NvsInv, EndSave
<1>5. CASE StopSave
  BY <1>5 DEF NvsInv, StopSave
<1>6. CASE UNCHANGED nvsVars
  BY <1>6 DEF NvsInv, nvsVars
<1> QED BY <1>1, <1>2, <1>3, <1>4, <1>5, <1>6 DEF NvsNext

\* Whatever is saved and wherever it stops, the sector is one record written
\* from its first byte (nvs_config.rs save).
THEOREM NvsInvariance == NvsSpec => []NvsInv
  BY NvsInitInv, NvsNextInv, PTL DEF NvsSpec

LEMMA NvsInvTypes == NvsInv => NvsTypeOK
<1>1. Blank \in [1 .. RecordLen -> Bytes]
  BY DEF Blank, Bytes
<1>2. \A c \in Credentials, w \in 0 .. RecordLen : Torn(c, w) \in [1 .. RecordLen -> Bytes]
  BY RecordTyping DEF Torn, Bytes
<1> QED BY <1>1, <1>2 DEF NvsInv, NvsTypeOK

\* The types of the sector and of the save under way.
THEOREM NvsTyping == NvsSpec => []NvsTypeOK
  BY NvsInvTypes, NvsInvariance, PTL

-----------------------------------------------------------------------------
(* The refinement                                                          *)

\* Before anything is saved the sector reads as a whole record or as none.
LEMMA InitRefines == NvsInit => Store!StoreInit
<1> SUFFICES ASSUME NvsInit PROVE Store!StoreInit
  OBVIOUS
<1>1. Load(flash) = NoCredentials \/ \E c \in Credentials : Load(flash) = Reading[c]
  <2>1. CASE flash = [i \in 1 .. RecordLen |-> Erased]
    BY <2>1, BlankLoads DEF Blank
  <2>2. ASSUME NEW c \in Credentials, flash = RecordOf(c)
        PROVE  Load(flash) = Reading[c]
    BY <2>2 DEF Reading
  <2> QED BY <2>1, <2>2 DEF NvsInit
<1> QED BY <1>1 DEF NvsInit, Store!StoreInit

\* Every step of the flash is one of the store's.
LEMMA NextRefines == NvsInv /\ [NvsNext]_nvsVars => [Store!StoreNext]_Store!storeVars
<1> SUFFICES ASSUME NvsInv, [NvsNext]_nvsVars
             PROVE  Store!StoreNext \/ UNCHANGED Store!storeVars
  OBVIOUS
<1>1. ASSUME NEW c \in Credentials, BeginSave(c) PROVE Store!StartSaving
  BY <1>1 DEF BeginSave, Store!StartSaving
<1>2. CASE Erase
  <2>1. Load(flash') = NoCredentials
    BY <1>2, BlankLoads DEF Erase, Blank
  <2> QED BY <1>2, <2>1 DEF Erase, Store!Lose, Store!StoreNext
<1>3. CASE Write
  <2>1. saving \in Credentials /\ flash = Torn(saving, written)
    BY <1>3 DEF Write, NvsInv
  <2>2. written + 1 \in 0 .. RecordLen /\ written \in 0 .. RecordLen - 1
    BY <1>3, Lengths DEF Write
  <2>3. flash' = Torn(saving, written + 1)
    BY <1>3, <2>1, <2>2, WriteTorn DEF Write
  <2>4. Load(flash') \in {Reading[saving], NoCredentials}
    BY <2>1, <2>2, <2>3, TornLoads
  <2> QED BY <1>3, <2>4 DEF Write, Store!Lose, Store!Keep, Store!StoreNext
<1>4. CASE EndSave
  <2>1. saving \in Credentials /\ flash = Torn(saving, RecordLen)
    BY <1>4, Lengths DEF EndSave, NvsInv
  <2>2. Load(flash) = Reading[saving]
    BY <2>1, WholeLoads
  <2> QED BY <1>4, <2>2 DEF EndSave, Store!Finish, Store!StoreNext
<1>5. CASE StopSave
  BY <1>5 DEF StopSave, Store!Abandon, Store!StoreNext
<1>6. CASE UNCHANGED nvsVars
  BY <1>6 DEF nvsVars, Store!storeVars
<1> QED BY <1>1, <1>2, <1>3, <1>4, <1>5, <1>6 DEF NvsNext, Store!StoreNext

\* The record in flash is replaced as a whole or lost, never mixed: NvsConfig
\* implements CredentialStore, for fields of any length and any credentials in
\* UTF-8 (nvs_config.rs load and save).
THEOREM StoreRefinement == NvsSpec => ImplementsStore
  BY InitRefines, NextRefines, NvsInvariance, PTL DEF NvsSpec, ImplementsStore, Store!StoreSpec
=============================================================================
