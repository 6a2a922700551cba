------------------------------ MODULE NvsConfig ------------------------------
(***************************************************************************)
(* The WiFi credentials in flash (firmware/src/nvs_config.rs): a record of *)
(* a magic number and two NUL-padded fields, in a sector that save erases  *)
(* before it writes.  The write proceeds from the first byte to the last   *)
(* and the power may go between any two of them.                           *)
(*                                                                         *)
(* A byte is the magic number (its two bytes as one), NUL, 0xFF as erased  *)
(* flash reads, or a byte of a UTF-8 text: an ASCII character, or one of   *)
(* the two to four high bytes (0x80 to 0xF4) of any other character.  save *)
(* writes the bytes of a text and load reads each as a character, so a     *)
(* text that is not ASCII comes back as another one, or not at all.        *)
(***************************************************************************)
EXTENDS Integers, SequencesExt

CONSTANTS
    SsidLen, PassLen,  \* SSID_LEN, PASS_LEN
    Ascii, High,       \* the bytes of texts
    Magic, Nul, Erased,
    Latin1,            \* the two-byte character that "b as char" makes of b >= 0x80
    Credentials,       \* what a host may send
    NoCredentials      \* None

ASSUME LenAssumption == SsidLen \in Nat \ {0} /\ PassLen \in Nat \ {0}
ASSUME ByteAssumption ==
    /\ Magic # Erased /\ Nul # Erased
    /\ Ascii \cap High = {}
    /\ Nul \notin Ascii \cup High /\ Erased \notin Ascii \cup High
    /\ \A b \in High \cup {Erased} : Latin1[b] \notin Ascii \cup High

ASSUME CredentialsAssumption ==
    /\ \A c \in Credentials :
          /\ c = [ssid |-> c.ssid, password |-> c.password]
          /\ c.ssid \in Seq(Ascii \cup High) /\ Len(c.ssid) <= SsidLen
          /\ c.password \in Seq(Ascii \cup High) /\ Len(c.password) <= PassLen
    /\ NoCredentials \notin Credentials

VARIABLES
    flash,    \* the record's bytes
    saving,   \* the argument of save while it runs
    written   \* how much of the record is written; -1 before the erase

nvsVars == <<flash, saving, written>>

RecordLen == 1 + SsidLen + PassLen
Bytes == Ascii \cup High \cup {Magic, Nul, Erased}

\* copy_from_slice into a zeroed buffer.
Padded(text, n) == [i \in 1 .. n |-> IF i <= Len(text) THEN text[i] ELSE Nul]

\* What save writes.
RecordOf(c) ==
    [i \in 1 .. RecordLen |->
        IF i = 1 THEN Magic
        ELSE IF i <= 1 + SsidLen THEN Padded(c.ssid, SsidLen)[i - 1]
        ELSE Padded(c.password, PassLen)[i - 1 - SsidLen]]

\* The sector after an erase and the first w bytes of a record.
Torn(c, w) == [i \in 1 .. RecordLen |-> IF i <= w THEN RecordOf(c)[i] ELSE Erased]

-----------------------------------------------------------------------------
(* load                                                                    *)

SsidField(bytes) == [i \in 1 .. SsidLen |-> bytes[1 + i]]
PassField(bytes) == [i \in 1 .. PassLen |-> bytes[1 + SsidLen + i]]

Nuls(field) == {i \in DOMAIN field : field[i] = Nul}

\* Up to the first NUL, or all of it.
TextLen(field) ==
    IF Nuls(field) = {} THEN Len(field)
    ELSE (CHOOSE i \in Nuls(field) : \A j \in Nuls(field) : i <= j) - 1

\* push(b as char)
AsChar(b) == IF b \in Ascii THEN b ELSE Latin1[b]

TextOf(field) == [i \in 1 .. TextLen(field) |-> AsChar(field[i])]

\* Mutant: a character counts as one byte.
FitsChars(field) == TextLen(field) <= Len(field)

\* The string's capacity is that of the field, and what is not ASCII takes two
\* bytes of it.
Fits(field) ==
    TextLen(field) + Cardinality({i \in 1 .. TextLen(field) : field[i] \notin Ascii})
        <= Len(field)

Load(bytes) ==
    IF bytes[1] = Magic /\ Fits(SsidField(bytes)) /\ Fits(PassField(bytes))
       THEN [ssid |-> TextOf(SsidField(bytes)), password |-> TextOf(PassField(bytes))]
       ELSE NoCredentials

\* What the whole record of some credentials reads as.
Reading == [c \in Credentials |-> Load(RecordOf(c))]

IsAscii(c) == ToSet(c.ssid) \cup ToSet(c.password) \subseteq Ascii

-----------------------------------------------------------------------------

NvsInit ==
    /\ \/ flash = [i \in 1 .. RecordLen |-> Erased]
       \/ \E c \in Credentials : flash = RecordOf(c)
    /\ saving = NoCredentials
    /\ written = -1

BeginSave(c) ==
    /\ saving = NoCredentials
    /\ saving' = c
    /\ written' = -1
    /\ UNCHANGED flash

\* NorFlash::erase
Erase ==
    /\ saving # NoCredentials
    /\ written = -1
    /\ flash' = [i \in 1 .. RecordLen |-> Erased]
    /\ written' = 0
    /\ UNCHANGED saving

\* One byte of NorFlash::write
Write ==
    /\ saving # NoCredentials
    /\ written \in 0 .. RecordLen - 1
    /\ flash' = [flash EXCEPT ![written + 1] = RecordOf(saving)[written + 1]]
    /\ written' = written + 1
    /\ UNCHANGED saving

\* Ok(())
EndSave ==
    /\ saving # NoCredentials
    /\ written = RecordLen
    /\ saving' = NoCredentials
    /\ written' = -1
    /\ UNCHANGED flash

\* Err(()) from either call, or a loss of power.
StopSave ==
    /\ saving # NoCredentials
    /\ saving' = NoCredentials
    /\ written' = -1
    /\ UNCHANGED flash

NvsNext ==
    \/ \E c \in Credentials : BeginSave(c)
    \/ Erase
    \/ Write
    \/ EndSave
    \/ StopSave

NvsSpec == NvsInit /\ [][NvsNext]_nvsVars

-----------------------------------------------------------------------------
(* Properties                                                              *)

\* Every variable keeps its type.
NvsTypeOK ==
    /\ flash \in [1 .. RecordLen -> Bytes]
    /\ saving \in Credentials \cup {NoCredentials}
    /\ written \in -1 .. RecordLen

\* Whenever the power goes, the next boot finds what one saved record reads as,
\* or none: half a network name, or a name with another's password, is never
\* read (nvs_config.rs save and load).  Only the width of 0xFF as a character
\* tells a torn record from a whole one: there is no checksum.  What a record
\* reads as is its credentials if they are ASCII and never if they are not,
\* although messages.rs:34 takes any text of 32 and 64 bytes.
Store == INSTANCE CredentialStore WITH stored <- Load(flash)
ImplementsStore == Store!StoreSpec
=============================================================================
