--------------------------- MODULE Configuration ----------------------------
(***************************************************************************)
(* sdhc_load_config (sd.c:193-240): config.txt is scanned (config.l) and   *)
(* parsed (config.y) into mcfg, an entry as soon as it is complete, and    *)
(* the password is decrypted.  A file is the sequence of its tokens, a     *)
(* string the sequence of its characters between the quotes.  The grammar  *)
(* is a list of entries and the sections they are in: the parser is the    *)
(* section it is in, and the tokens of the entry begun.                    *)
(***************************************************************************)
EXTENDS Integers, Sequences, SequencesExt

CONSTANTS Files,   \* bound: what config.txt may hold
          IntMax,  \* the greatest int: 2147483647 on the chip
          Null     \* a pointer to no string

VARIABLES
  cpc,         \* "load", "parse", "decrypt", "loaded", "halted"
  file,        \* the tokens of config.txt
  at,          \* how many of them are read
  section,     \* "none" before the first
  members,     \* how many entries of the section are complete
  entry,       \* the tokens of the one begun
  mcfg,
  no_memory    \* k_malloc has failed

parserVars == <<at, section, members, entry>>
configVars == <<cpc, file, parserVars, mcfg, no_memory>>

-----------------------------------------------------------------------------
(* The tokens and the grammar *)

\* What the scanner can give: the number of an integer's digits, however many, a string of
\* any characters, 0 is one, and of a cypher one of three.
Tokens == {t \in [kind : STRING, int : Nat, str : Seq(Nat), enum : STRING] :
             t.kind = "enum_cypher_t" => t.enum \in {"NONE", "CAESAR", "SUFFIX"}}
ASSUME FilesAssumption == Files \subseteq Seq(Tokens)
ASSUME IntAssumption == IntMax \in Nat
ASSUME NullAssumption == Null \notin Seq(Int)

\* A token, and the value of those that have one.
Tk(kind) == [kind |-> kind, int |-> 0, str |-> <<>>, enum |-> ""]
Int_(n) == [Tk("integer") EXCEPT !.int = n]
Str(s) == [Tk("string") EXCEPT !.str = s]
Enum(kind, name) == [Tk(kind) EXCEPT !.enum = name]

Kinds(tokens) == [i \in DOMAIN tokens |-> tokens[i].kind]

\* The entries of a section: the kinds of the tokens of one, and the member of mcfg it sets.
Entry(where, name, shape) == [section |-> where, shape |-> shape, member |-> <<where, name>>]
Plain(where, type, name, value) == Entry(where, name, <<type, name, "=", value>>)
Enumerated(where, type, name, value) == Entry(where, name, <<"enum", type, name, "=", value>>)

ImageEntries ==
  {Plain("image_config_t", "uint32_t", "auto_range_time", "integer"),
   Enumerated("image_config_t", "image_resolution", "resolution", "enum_image_resolution"),
   Enumerated("image_config_t", "image_format", "format", "enum_image_format"),
   Enumerated("image_config_t", "flash_t", "flash", "enum_flash_t"),
   Plain("image_config_t", "uint32_t", "use_flash", "integer"),
   Plain("image_config_t", "aec_t", "aec", "enum_aec_t"),
   Plain("image_config_t", "uint16_t", "exposure", "integer"),
   Plain("image_config_t", "agc_t", "agc", "enum_agc_t")}
GainEntries == {Plain("gain", "uint8_t", name, "integer") : name \in {"mantissa", "exponent"}}
FtpEntries ==
  {Plain("ftp_config_t", "char*", name, "string") :
     name \in {"apn", "mccmnc", "domain", "username", "password", "image_path", "status_path"}}
  \union {Enumerated("ftp_config_t", "cypher_t", "cypher", "enum_cypher_t")}
SdEntries ==
  {Plain("sd_config_t", "char*", name, "string") : name \in {"image_path", "status_path"}}
  \union {Plain("sd_config_t", "uint32_t", "logging_level", "integer")}
TriggerEntries ==
  {Enumerated("trigger_config_t", "trigger_t", "trigger", "enum_trigger_t"),
   Plain("trigger_config_t", "uint8_t", "dark_noup", "integer")}
  \union {Plain("trigger_config_t", "uint32_t", name, "integer") :
            name \in {"logging_interval", "logging_decimation_ftp", "network_interval"}}
  \union {Plain("trigger_config_t", "char*", name, "string") :
            name \in {"network_domain", "network_site"}}

Sections == {"image_config_t", "ftp_config_t", "sd_config_t", "trigger_config_t"}
Entries == ImageEntries \union GainEntries \union FtpEntries \union SdEntries
           \union TriggerEntries
Members == {e.member : e \in Entries}
Ftp(name) == <<"ftp_config_t", name>>
ValueKind(member) == Last((CHOOSE e \in Entries : e.member = member).shape)

\* mcfg is static: all zero.
Zero == [m \in Members |->
           CASE ValueKind(m) = "integer" -> 0
             [] ValueKind(m) = "string" -> Null
             [] ValueKind(m) = "enum_image_resolution" -> "VGA"
             [] ValueKind(m) = "enum_image_format" -> "BMP"
             [] ValueKind(m) = "enum_flash_t" -> "pin 0"
             [] ValueKind(m) = "enum_aec_t" -> "AEC_OFF"
             [] ValueKind(m) = "enum_agc_t" -> "AGC_OFF"
             [] ValueKind(m) = "enum_cypher_t" -> "NONE"
             [] ValueKind(m) = "enum_trigger_t" -> "TIME_TRIGGER"]

-----------------------------------------------------------------------------
(* Values *)

\* The members of less than 32 bits, and the number at which these start over.
Narrow == {<<"gain", "mantissa">>, <<"gain", "exponent">>, <<"trigger_config_t", "dark_noup">>,
           <<"image_config_t", "exposure">>}
Modulus(member) == IF member = <<"image_config_t", "exposure">> THEN 65536 ELSE 256

\* The scanner makes an int of the digits, newlib's atoi the greatest where they say more.
atoi(n) == IF n > IntMax THEN IntMax ELSE n

\* The assignment cuts the int to the width of the member; 32 bits hold any.
Cut(n, member) == IF member \in Narrow THEN n % Modulus(member) ELSE n

\* The characters 0 of a string, where strlen takes it to end.
Nuls(s) == {k \in DOMAIN s : s[k] = 0}
FirstNul(s) == CHOOSE k \in Nuls(s) : \A j \in Nuls(s) : k <= j

\* Mutant: the string is copied when the token after it has been scanned into yytext.
TextReadAhead(i) == IF i < Len(file) THEN file[i].str \o <<0>> ELSE file[i].str

\* The characters of the string token i, which yytext still holds: up to the closing quote,
\* or to a character 0, of which string_malloc takes one more away for the quote.
Text(i) == IF Nuls(file[i].str) = {} THEN file[i].str
           ELSE SubSeq(file[i].str, 1, FirstNul(file[i].str) - 2)

\* A string that begins with a 0 has the length -1: no memory is asked for.
NegativeLength(i) == file[i].kind = "string" /\ 1 \in Nuls(file[i].str)

\* string_malloc: where there is no memory for the string, it is none.
Values(i, member) ==
  CASE file[i].kind = "integer" -> {Cut(atoi(file[i].int), member)}
    [] file[i].kind = "string" -> IF NegativeLength(i) THEN {Null} ELSE {Text(i), Null}
    [] OTHER -> {file[i].enum}

\* The remainder of C has the sign of the dividend.
CRem(a, n) == IF a >= 0 THEN a % n ELSE -((-a) % n)

\* Mutant: negative remainders are not avoided.
ShiftedUnguarded(chr, key) == CRem(chr - 33 + key, 127 - 33) + 33

Shifted(chr, key) == CRem(chr - 33 + key + (127 - 33), 127 - 33) + 33

caesar_encrypt(msg, key) ==
  [i \in DOMAIN msg |-> IF 32 < msg[i] /\ msg[i] < 127 THEN Shifted(msg[i], key) ELSE msg[i]]
caesar_decrypt(msg, key) == caesar_encrypt(msg, -key)

CAESAR_KEY == 37
SUFFIX_KEY == <<95, 90, 52, 71, 81, 51, 116, 106, 117, 122, 117>>    \* "_Z4GQ3tjuzu"

-----------------------------------------------------------------------------
(* The parser: an entry takes effect with its last token, before the next is read *)

Scanned(kind) == kind \notin {"comment", "unexpected"}

GainHeader == <<"gain_t", "gain">>

\* The sections an entry begun now may be of: the entries of the image's go on after gain's.
Open == CASE section = "gain" /\ members > 0 -> {"gain", "image_config_t"}
          [] OTHER -> {section}

Phrase == Append(Kinds(entry), file[at + 1].kind)

\* Between two sections, or before the first: the one begun has an entry.
SectionMayEnd == entry = <<>> /\ members > 0

IsSection == Phrase[1] \in Sections /\ (SectionMayEnd \/ section = "none")
IsGainHeader == "image_config_t" \in Open /\ IsPrefix(Phrase, GainHeader)
EntriesBegun == {e \in Entries : e.section \in Open /\ IsPrefix(Phrase, e.shape)}

Begin(where) == section' = where /\ members' = 0 /\ entry' = <<>>

Read == at' = at + 1 /\ UNCHANGED <<cpc, file>>
Parsing == cpc = "parse" /\ at < Len(file)

SkipToken ==
  /\ Parsing /\ ~Scanned(file[at + 1].kind)
  /\ Read
  /\ UNCHANGED <<section, members, entry, mcfg, no_memory>>

BeginSection ==
  /\ Parsing /\ Scanned(file[at + 1].kind)
  /\ \/ IsSection /\ Begin(Phrase[1])
     \/ IsGainHeader /\ Phrase = GainHeader /\ Begin("gain")
  /\ Read
  /\ UNCHANGED <<mcfg, no_memory>>

ShiftToken ==
  /\ Parsing /\ Scanned(file[at + 1].kind)
  /\ \/ IsGainHeader /\ Phrase # GainHeader
     \/ \E e \in EntriesBegun : Phrase # e.shape
  /\ entry' = Append(entry, file[at + 1])
  /\ Read
  /\ UNCHANGED <<section, members, mcfg, no_memory>>

CompleteEntry ==
  /\ Parsing /\ Scanned(file[at + 1].kind)
  /\ \E e \in EntriesBegun :
       /\ Phrase = e.shape
       /\ section' = e.section
       /\ \E value \in Values(at + 1, e.member) :
            /\ mcfg' = [mcfg EXCEPT ![e.member] = value]
            /\ no_memory' = (no_memory \/ value = Null)
  /\ members' = members + 1
  /\ entry' = <<>>
  /\ Read

\* Or it is had, and memcpy of the length -1 runs out of the memory there is.
StringFault ==
  /\ Parsing /\ NegativeLength(at + 1)
  /\ \E e \in EntriesBegun : Phrase = e.shape
  /\ cpc' = "halted"
  /\ UNCHANGED <<file, parserVars, mcfg, no_memory>>

\* The rest of the file is not read, and yyparse returns 1.
SyntaxError ==
  /\ Parsing /\ Scanned(file[at + 1].kind)
  /\ ~IsSection /\ ~IsGainHeader /\ EntriesBegun = {}
  /\ cpc' = "decrypt"
  /\ UNCHANGED <<file, parserVars, mcfg, no_memory>>

\* Where an entry or a section lacks its end that is a syntax error, to no other effect.
EndOfFile ==
  /\ cpc = "parse" /\ at = Len(file)
  /\ cpc' = "decrypt"
  /\ UNCHANGED <<file, parserVars, mcfg, no_memory>>

-----------------------------------------------------------------------------
(* sdhc_load_config *)

ConfigInit ==
  /\ cpc = "load"
  /\ file \in Files
  /\ at = 0 /\ section = "none" /\ members = 0 /\ entry = <<>>
  /\ mcfg = Zero
  /\ no_memory = FALSE

\* No file, no memory for it, 4 KiB of it or more, or an error in reading it, taken for
\* a size that the scanner's buffer cannot be allocated for: setup() or the scanner ends.
ConfigUnread ==
  /\ cpc = "load" /\ cpc' = "halted"
  /\ UNCHANGED <<file, parserVars, mcfg, no_memory>>

ConfigRead ==
  /\ cpc = "load" /\ cpc' = "parse"
  /\ UNCHANGED <<file, parserVars, mcfg, no_memory>>

Halt == cpc' = "halted" /\ UNCHANGED <<mcfg, no_memory>>
SetPassword(password) ==
  cpc' = "loaded" /\ mcfg' = [mcfg EXCEPT ![Ftp("password")] = password] /\ UNCHANGED no_memory

\* The suffix after what there is at the address 0.
NoSuffixed == <<0>> \o SUFFIX_KEY

Password == mcfg[Ftp("password")]

DecryptCaesar ==
  IF Password = Null THEN Halt \/ SetPassword(Null)
  ELSE SetPassword(caesar_decrypt(Password, CAESAR_KEY))

suffix_decrypt ==
  \/ IF Password = Null THEN Halt \/ SetPassword(NoSuffixed)
     ELSE SetPassword(Password \o SUFFIX_KEY)
  \/ cpc' = "loaded" /\ no_memory' = TRUE /\ UNCHANGED mcfg

\* decrypt_password: of no password, memory that is not the program's is read and
\* written; the chip faults, or goes on.  setup() goes on whatever yyparse returned.
Decrypt ==
  /\ cpc = "decrypt"
  /\ CASE mcfg[Ftp("cypher")] = "NONE" -> SetPassword(Password)
       [] mcfg[Ftp("cypher")] = "CAESAR" -> DecryptCaesar
       [] mcfg[Ftp("cypher")] = "SUFFIX" -> suffix_decrypt
  /\ UNCHANGED <<file, parserVars>>

Load == \/ ConfigUnread \/ ConfigRead \/ SkipToken \/ BeginSection \/ ShiftToken
        \/ CompleteEntry \/ StringFault \/ SyntaxError \/ EndOfFile \/ Decrypt

-----------------------------------------------------------------------------
(* Properties *)

ConfigTypeOK ==
  /\ cpc \in {"load", "parse", "decrypt", "loaded", "halted"}
  /\ file \in Files
  /\ at \in 0 .. Len(file)
  /\ section \in Sections \union {"none", "gain"}
  /\ members \in 0 .. Len(file)
  /\ Len(entry) < 5
  /\ DOMAIN mcfg = Members
  /\ \A m \in Members :
       ValueKind(m) = "integer" =>
         mcfg[m] \in IF m \in Narrow THEN 0 .. Modulus(m) - 1 ELSE 0 .. IntMax
  /\ no_memory \in BOOLEAN

\* What the accepted tokens of the file say, by their text alone.
Kept(tokens) ==
  LET kept[n \in 0 .. Len(tokens)] ==
        IF n = 0 THEN <<>>
        ELSE IF Scanned(tokens[n].kind) THEN Append(kept[n - 1], tokens[n])
        ELSE kept[n - 1]
  IN  kept
Accepted == Kept(file)[at]

\* Where among them the member is set: its tokens, last after the name of its section.
Home(e) == IF e.section = "gain" THEN "image_config_t" ELSE e.section
SetAt(tokens, e) ==
  {i \in DOMAIN tokens :
     /\ i >= Len(e.shape)
     /\ Kinds(SubSeq(tokens, i - Len(e.shape) + 1, i)) = e.shape
     /\ \E j \in 1 .. i : /\ tokens[j].kind = Home(e)
                          /\ \A k \in j + 1 .. i : tokens[k].kind \notin Sections}

\* What a token says, whatever the member can hold.
Written(t) == CASE t.kind = "integer" -> t.int
                [] t.kind = "string" -> t.str
                [] OTHER -> t.enum

Meaning(tokens, e) ==
  LET set == SetAt(tokens, e)
  IN IF set = {} THEN Zero[e.member]
     ELSE Written(tokens[CHOOSE i \in set : \A j \in set : j <= i])

\* What mcfg can hold: a number of no more than an int and the member's width, and a string
\* without a 0.
Fits(value, member) ==
  CASE ValueKind(member) = "integer" ->
         value <= IntMax /\ (member \in Narrow => value < Modulus(member))
    [] ValueKind(member) = "string" -> value = Null \/ Nuls(value) = {}
    [] OTHER -> TRUE

\* ceaser.py:8-12, which makes the password of the file.
Encrypted(password) ==
  [i \in DOMAIN password |->
     IF 32 < password[i] /\ password[i] < 127 THEN ((password[i] - 33 + CAESAR_KEY) % 94) + 33
     ELSE password[i]]

\* The password is one that the file's was made from.
PasswordOf(written, cypher) ==
  CASE cypher = "NONE" -> Password = written
    [] cypher = "CAESAR" -> Encrypted(Password) = written
    [] cypher = "SUFFIX" -> Password = written \o SUFFIX_KEY

\* The camera works with what config.txt says: each member of mcfg has the very value last
\* written for it in its own section, whatever stands between the lines and in whatever
\* order they are (config.txt:3-4 asks for one, the grammar does not), up to the first
\* error (which config.txt:5 says locks the program up); and the password is decrypted
\* once, whether the cypher is named before it or after it (config.y:112-184, sd.c:233-239).
\* Nothing is promised of a number that does not fit its member, the 65537 that
\* config.txt:32 allows among them, which becomes 1, and of a string with a character 0.
\* Where there was no memory, a string may be missing or the password as in the file.
ConfigAsWritten ==
  cpc = "loaded" =>
    LET tokens == Accepted
        cypher == Meaning(tokens, CHOOSE e \in Entries : e.member = Ftp("cypher"))
        Missing(e, written) == /\ no_memory /\ ValueKind(e.member) = "string"
                               /\ mcfg[e.member] \in {Null, written}
        Decrypted(written) == IF Null \in {written, Password} \/ Password = NoSuffixed
                              THEN written = Null \/ no_memory
                              ELSE PasswordOf(written, cypher)
    IN \A e \in Entries :
         LET written == Meaning(tokens, e)
         IN \/ ~Fits(written, e.member)
            \/ Missing(e, written)
            \/ IF e.member = Ftp("password") THEN Decrypted(written)
               ELSE mcfg[e.member] = written
=============================================================================
