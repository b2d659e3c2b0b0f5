----------------------------- MODULE BootProofs -----------------------------
(***************************************************************************)
(* Proofs about the configuration and the wall clock, for any number of    *)
(* power losses, any length of time and any config.txt: mcfg holds what    *)
(* the file says where it can, setup() always finds a time, a boot writes  *)
(* no second line whose NETWORK_TIME is not the time of its capture, and   *)
(* without a capture by another clock no image is replaced.                *)
(***************************************************************************)
EXTENDS Boot, WellFoundedInduction, TLAPS

-----------------------------------------------------------------------------
(* What config.txt says: the grammar, the tokens accepted, the parser, the password *)

\* A set of numbers that is not empty has a least: what holds of a recursive function for all
\* of its arguments holds because there is no least one that it fails for.
LEMMA LeastNumber ==
  ASSUME NEW S \in SUBSET Nat, S # {}
  PROVE  \E m \in S : \A n \in S : m <= n
<1>1. PICK m \in S : \A n \in S : <<n, m>> \notin OpToRel(<, Nat)
  BY NatLessThanWellFounded, WFMin
<1>2. \A n \in S : ~(n < m)
  BY <1>1 DEF OpToRel
<1> QED
  BY <1>2

-----------------------------------------------------------------------------
\* The grammar: an entry ends with the kind of its value, and no other token of it is of
\* such a kind or names a section; the kind of the value tells how long the entry is.
LongKinds == {"enum_image_resolution", "enum_image_format", "enum_flash_t", "enum_cypher_t",
              "enum_trigger_t"}
ValueKinds == {"integer", "string", "enum_aec_t", "enum_agc_t"} \union LongKinds

Words == {"uint8_t", "uint16_t", "uint32_t", "char*", "enum", "=",
   "auto_range_time", "image_resolution", "resolution", "image_format", "format", "flash_t",
   "flash", "use_flash", "aec_t", "aec", "exposure", "agc_t", "agc", "mantissa", "exponent",
   "apn", "mccmnc", "domain", "username", "password", "image_path", "status_path", "cypher_t",
   "cypher", "logging_level", "trigger_t", "trigger", "dark_noup", "logging_interval",
   "logging_decimation_ftp", "network_interval", "network_domain", "network_site"}

Formed(e) ==
  /\ e.shape \in Seq(Words \union ValueKinds) /\ Len(e.shape) \in {4, 5}
  /\ Len(e.shape) = IF e.shape[Len(e.shape)] \in LongKinds THEN 5 ELSE 4
  /\ e.shape[Len(e.shape)] \in ValueKinds
  /\ \A i \in 1 .. Len(e.shape) - 1 : e.shape[i] \notin ValueKinds \union Sections
  /\ e.member = <<e.section, e.shape[Len(e.shape) - 2]>>
  /\ e = [section |-> e.section, shape |-> e.shape, member |-> e.member]

LEMMA WordsAre ==
  \A w \in Words : w \notin ValueKinds /\ w \notin Sections
BY DEF Words, ValueKinds, LongKinds, Sections

LEMMA PlainFormed ==
  ASSUME NEW where, NEW type \in Words, NEW name \in Words, NEW value \in ValueKinds \ LongKinds
  PROVE  Formed(Plain(where, type, name, value))
<1> DEFINE e == Plain(where, type, name, value)
<1>1. e.shape = <<type, name, "=", value>> /\ e.section = where /\ e.member = <<where, name>>
      /\ e = [section |-> e.section, shape |-> e.shape, member |-> e.member]
  BY DEF Plain, Entry
<1>2. value \in ValueKinds /\ "=" \in Words
  BY DEF Words
<1>3. e.shape \in Seq(Words \union ValueKinds) /\ Len(e.shape) = 4
  BY <1>1, <1>2
<1>4. e.shape[1] = type /\ e.shape[2] = name /\ e.shape[3] = "=" /\ e.shape[4] = value
  BY <1>1
<1> HIDE DEF e
<1>5. \A i \in 1 .. 3 : e.shape[i] \notin ValueKinds \union Sections
  <2> SUFFICES ASSUME NEW i \in 1 .. 3 PROVE e.shape[i] \notin ValueKinds \union Sections
    OBVIOUS
  <2>1. i = 1 \/ i = 2 \/ i = 3
    OBVIOUS
  <2> QED
    BY <1>2, <1>4, <2>1, WordsAre
<1>6. 4 - 1 = 3 /\ 4 - 2 = 2
  OBVIOUS
<1>7. Formed(e)
  BY <1>1, <1>3, <1>4, <1>5, <1>6 DEF Formed
<1> QED
  BY <1>7 DEF e

LEMMA EnumeratedFormed ==
  ASSUME NEW where, NEW type \in Words, NEW name \in Words, NEW value \in LongKinds
  PROVE  Formed(Enumerated(where, type, name, value))
<1> DEFINE e == Enumerated(where, type, name, value)
<1>1. e.shape = <<"enum", type, name, "=", value>> /\ e.section = where
      /\ e.member = <<where, name>>
      /\ e = [section |-> e.section, shape |-> e.shape, member |-> e.member]
  BY DEF Enumerated, Entry
<1>2. value \in ValueKinds /\ "=" \in Words /\ "enum" \in Words
  BY DEF Words, ValueKinds
<1>3. e.shape \in Seq(Words \union ValueKinds) /\ Len(e.shape) = 5
  BY <1>1, <1>2
<1>4. e.shape[1] = "enum" /\ e.shape[2] = type /\ e.shape[3] = name /\ e.shape[4] = "="
      /\ e.shape[5] = value
  BY <1>1
<1> HIDE DEF e
<1>5. \A i \in 1 .. 4 : e.shape[i] \notin ValueKinds \union Sections
  <2> SUFFICES ASSUME NEW i \in 1 .. 4 PROVE e.shape[i] \notin ValueKinds \union Sections
    OBVIOUS
  <2>1. i = 1 \/ i = 2 \/ i = 3 \/ i = 4
    OBVIOUS
  <2> QED
    BY <1>2, <1>4, <2>1, WordsAre
<1>6. 5 - 1 = 4 /\ 5 - 2 = 3
  OBVIOUS
<1>7. Formed(e)
  BY <1>1, <1>2, <1>3, <1>4, <1>5, <1>6 DEF Formed
<1> QED
  BY <1>7 DEF e

LEMMA KindsAre ==
  /\ {"integer", "string", "enum_aec_t", "enum_agc_t"} \subseteq ValueKinds \ LongKinds
  /\ {"enum_image_resolution", "enum_image_format", "enum_flash_t", "enum_cypher_t",
      "enum_trigger_t"} \subseteq LongKinds
BY DEF ValueKinds, LongKinds

LEMMA EntriesFormed ==
  ASSUME NEW e \in Entries
  PROVE  Formed(e) /\ e.section \in Sections \union {"gain"}
<1>1. CASE e \in ImageEntries
  <2>1. {"uint32_t", "auto_range_time", "image_resolution", "resolution", "image_format", "format",
         "flash_t", "flash", "use_flash", "aec_t", "aec", "uint16_t", "exposure", "agc_t", "agc"}
        \subseteq Words
    BY DEF Words
  <2>2. Formed(e)
    BY <1>1, <2>1, KindsAre, PlainFormed, EnumeratedFormed DEF ImageEntries
  <2>3. e.section = "image_config_t"
    BY <1>1 DEF ImageEntries, Plain, Enumerated, Entry
  <2> QED
    BY <2>2, <2>3 DEF Sections
<1>2. CASE e \in GainEntries
  <2>1. {"uint8_t", "mantissa", "exponent"} \subseteq Words
    BY DEF Words
  <2>2. Formed(e)
    BY <1>2, <2>1, KindsAre, PlainFormed DEF GainEntries
  <2>3. e.section = "gain"
    BY <1>2 DEF GainEntries, Plain, Entry
  <2> QED
    BY <2>2, <2>3
<1>3. CASE e \in FtpEntries
  <2>1. {"char*", "apn", "mccmnc", "domain", "username", "password", "image_path", "status_path",
         "cypher_t", "cypher"} \subseteq Words
    BY DEF Words
  <2>2. Formed(e)
    BY <1>3, <2>1, KindsAre, PlainFormed, EnumeratedFormed DEF FtpEntries
  <2>3. e.section = "ftp_config_t"
    BY <1>3 DEF FtpEntries, Plain, Enumerated, Entry
  <2> QED
    BY <2>2, <2>3 DEF Sections
<1>4. CASE e \in SdEntries
  <2>1. {"char*", "image_path", "status_path", "uint32_t", "logging_level"} \subseteq Words
    BY DEF Words
  <2>2. Formed(e)
    BY <1>4, <2>1, KindsAre, PlainFormed DEF SdEntries
  <2>3. e.section = "sd_config_t"
    BY <1>4 DEF SdEntries, Plain, Entry
  <2> QED
    BY <2>2, <2>3 DEF Sections
<1>5. CASE e \in TriggerEntries
  <2>1. {"trigger_t", "trigger", "uint8_t", "dark_noup", "uint32_t", "logging_interval",
         "logging_decimation_ftp", "network_interval", "char*", "network_domain",
         "network_site"} \subseteq Words
    BY DEF Words
  <2>2. Formed(e)
    BY <1>5, <2>1, KindsAre, PlainFormed, EnumeratedFormed DEF TriggerEntries
  <2>3. e.section = "trigger_config_t"
    BY <1>5 DEF TriggerEntries, Plain, Enumerated, Entry
  <2> QED
    BY <2>2, <2>3 DEF Sections
<1> QED
  BY <1>1, <1>2, <1>3, <1>4, <1>5 DEF Entries

\* No two entries that could be confused: the tokens of an entry and the section it is in tell
\* the entry, and so does the member.
LEMMA OneEntry ==
  ASSUME NEW e \in Entries, NEW f \in Entries
  PROVE  /\ Home(e) = Home(f) /\ e.shape = f.shape => e = f
         /\ e.member = f.member => e = f
<1>0. /\ Formed(e) /\ e.section \in Sections \union {"gain"}
      /\ Formed(f) /\ f.section \in Sections \union {"gain"}
  BY EntriesFormed
<1>1. ASSUME e.section = f.section, e.shape = f.shape PROVE e = f
  BY <1>0, <1>1 DEF Formed
<1>2. ASSUME e.section = "gain", f.section = "image_config_t" PROVE e.member[2] # f.member[2]
  <2>1. e \in GainEntries
    BY <1>2 DEF Entries, ImageEntries, FtpEntries, SdEntries, TriggerEntries, Plain, Enumerated,
           Entry
  <2>2. f \in ImageEntries
    BY <1>2 DEF Entries, GainEntries, FtpEntries, SdEntries, TriggerEntries, Plain, Enumerated,
           Entry
  <2> QED
    BY <2>1, <2>2 DEF ImageEntries, GainEntries, Plain, Enumerated, Entry
<1>3. ASSUME e.member = f.member PROVE e = f
  <2>1. e.section = f.section
    BY <1>0, <1>3 DEF Formed
  <2>2. CASE e \in ImageEntries
    <3>1. f \in ImageEntries
      BY <2>1, <2>2 DEF Entries, ImageEntries, GainEntries, FtpEntries, SdEntries, TriggerEntries,
             Plain, Enumerated, Entry
    <3> QED
      BY <1>3, <2>2, <3>1 DEF ImageEntries, Plain, Enumerated, Entry
  <2>3. CASE e \in GainEntries
    <3>1. f \in GainEntries
      BY <2>1, <2>3 DEF Entries, ImageEntries, GainEntries, FtpEntries, SdEntries, TriggerEntries,
             Plain, Enumerated, Entry
    <3> QED
      BY <1>3, <2>3, <3>1 DEF GainEntries, Plain, Entry
  <2>4. CASE e \in FtpEntries
    <3>1. f \in FtpEntries
      BY <2>1, <2>4 DEF Entries, ImageEntries, GainEntries, FtpEntries, SdEntries, TriggerEntries,
             Plain, Enumerated, Entry
    <3> QED
      BY <1>3, <2>4, <3>1 DEF FtpEntries, Plain, Enumerated, Entry
  <2>5. CASE e \in SdEntries
    <3>1. f \in SdEntries
      BY <2>1, <2>5 DEF Entries, ImageEntries, GainEntries, FtpEntries, SdEntries, TriggerEntries,
             Plain, Enumerated, Entry
    <3> QED
      BY <1>3, <2>5, <3>1 DEF SdEntries, Plain, Entry
  <2>6. CASE e \in TriggerEntries
    <3>1. f \in TriggerEntries
      BY <2>1, <2>6 DEF Entries, ImageEntries, GainEntries, FtpEntries, SdEntries, TriggerEntries,
             Plain, Enumerated, Entry
    <3> QED
      BY <1>3, <2>6, <3>1 DEF TriggerEntries, Plain, Enumerated, Entry
  <2> QED
    BY <2>2, <2>3, <2>4, <2>5, <2>6 DEF Entries
<1>4. ASSUME f.section = "gain", e.section = "image_config_t" PROVE e.member[2] # f.member[2]
  <2>1. f \in GainEntries
    BY <1>4 DEF Entries, ImageEntries, FtpEntries, SdEntries, TriggerEntries, Plain, Enumerated,
           Entry
  <2>2. e \in ImageEntries
    BY <1>4 DEF Entries, GainEntries, FtpEntries, SdEntries, TriggerEntries, Plain, Enumerated,
           Entry
  <2> QED
    BY <2>1, <2>2 DEF ImageEntries, GainEntries, Plain, Enumerated, Entry
<1>5. ASSUME Home(e) = Home(f), e.shape = f.shape PROVE e = f
  <2>1. e.member[2] = f.member[2]
    BY <1>0, <1>5 DEF Formed
  <2>2. e.section = f.section
    BY <1>2, <1>4, <1>5, <2>1 DEF Home
  <2> QED
    BY <1>1, <1>5, <2>2
<1> QED
  BY <1>3, <1>5

-----------------------------------------------------------------------------
\* The tokens kept of a file: there is the function that Kept(tokens) is defined to be.
Taken(s, t) == IF Scanned(t.kind) THEN Append(s, t) ELSE s

KeptTo(f, n, g) == g = [i \in 0 .. n |-> IF i = 0 THEN <<>> ELSE Taken(g[i - 1], f[i])]

LEMMA KeptToExists ==
  ASSUME NEW f, NEW n \in Nat
  PROVE  \E g : KeptTo(f, n, g)
<1> DEFINE Lost == {k \in Nat : ~\E g : KeptTo(f, k, g)}
<1>1. SUFFICES ASSUME Lost # {} PROVE FALSE
  OBVIOUS
<1>2. PICK m \in Lost : \A k \in Lost : m <= k
  <2>1. Lost \in SUBSET Nat
    OBVIOUS
  <2> HIDE DEF Lost
  <2> QED
    BY <1>1, <2>1, LeastNumber
<1>3. m \in Nat /\ ~\E g : KeptTo(f, m, g)
  OBVIOUS
<1>4. CASE m = 0
  <2> DEFINE g == [i \in 0 .. 0 |-> <<>>]
  <2>1. g = [i \in 0 .. 0 |-> IF i = 0 THEN <<>> ELSE Taken(g[i - 1], f[i])]
    OBVIOUS
  <2>2. KeptTo(f, m, g)
    BY <1>4, <2>1 DEF KeptTo
  <2> QED
    BY <1>3, <2>2
<1>5. CASE m # 0
  <2>1. PICK k \in Nat : k = m - 1 /\ m = k + 1 /\ k < m
    BY <1>3, <1>5
  <2>2. k \notin Lost
    BY <1>2, <1>3, <2>1
  <2>3. PICK g : KeptTo(f, k, g)
    BY <2>2
  <2> DEFINE h == [i \in 0 .. m |-> IF i = m THEN Taken(g[k], f[m]) ELSE g[i]]
  <2>4. ASSUME NEW i \in 0 .. m
        PROVE  h[i] = IF i = 0 THEN <<>> ELSE Taken(h[i - 1], f[i])
    <3>1. CASE i = m
      BY <1>5, <2>1, <3>1
    <3>2. CASE i # m /\ i = 0
      BY <2>3, <3>2 DEF KeptTo
    <3>3. CASE i # m /\ i # 0
      <4>1. i \in 0 .. k /\ i - 1 \in 0 .. k /\ i - 1 \in 0 .. m /\ i - 1 # m
        BY <2>1, <3>3
      <4>2. h[i] = g[i] /\ h[i - 1] = g[i - 1]
        BY <3>3, <4>1
      <4>3. g[i] = Taken(g[i - 1], f[i])
        BY <2>3, <3>3, <4>1 DEF KeptTo
      <4> QED
        BY <3>3, <4>2, <4>3
    <3> QED
      BY <3>1, <3>2, <3>3
  <2>5. h = [i \in 0 .. m |-> IF i = 0 THEN <<>> ELSE Taken(h[i - 1], f[i])]
    BY <2>4
  <2> HIDE DEF h
  <2>6. KeptTo(f, m, h)
    BY <2>5 DEF KeptTo
  <2> QED
    BY <1>3, <2>6
<1> QED
  BY <1>4, <1>5

LEMMA KeptSteps ==
  ASSUME NEW f \in Seq(Tokens)
  PROVE  /\ Kept(f)[0] = <<>>
         /\ \A n \in 0 .. Len(f) : Kept(f)[n] \in Seq(Tokens)
         /\ \A n \in 0 .. Len(f) - 1 : Kept(f)[n + 1] = Taken(Kept(f)[n], f[n + 1])
<1> DEFINE k == Kept(f)
<1>1. PICK g : KeptTo(f, Len(f), g)
  <2>1. Len(f) \in Nat
    OBVIOUS
  <2> QED
    BY <2>1, KeptToExists
<1>2. g = [n \in 0 .. Len(f) |->
            IF n = 0 THEN <<>>
            ELSE IF Scanned(f[n].kind) THEN Append(g[n - 1], f[n])
            ELSE g[n - 1]]
  BY <1>1 DEF KeptTo, Taken
<1>3. k = [n \in 0 .. Len(f) |->
            IF n = 0 THEN <<>>
            ELSE IF Scanned(f[n].kind) THEN Append(k[n - 1], f[n])
            ELSE k[n - 1]]
  BY <1>2 DEF Kept
<1> HIDE DEF k
<1>4. k[0] = <<>>
  BY <1>3
<1>5. ASSUME NEW n \in 0 .. Len(f) - 1 PROVE k[n + 1] = Taken(k[n], f[n + 1])
  <2>1. n + 1 \in 0 .. Len(f) /\ n + 1 # 0 /\ (n + 1) - 1 = n
    OBVIOUS
  <2> QED
    BY <1>3, <2>1 DEF Taken
<1> DEFINE Untyped == {n \in 0 .. Len(f) : k[n] \notin Seq(Tokens)}
<1>6. Untyped = {}
  <2> SUFFICES ASSUME Untyped # {} PROVE FALSE
    OBVIOUS
  <2>1. PICK n \in Untyped : \A m \in Untyped : n <= m
    <3>1. Untyped \in SUBSET Nat
      OBVIOUS
    <3> HIDE DEF Untyped
    <3> QED
      BY <3>1, LeastNumber
  <2>2. n # 0
    <3>1. <<>> \in Seq(Tokens)
      OBVIOUS
    <3> QED
      BY <1>4, <3>1
  <2>3. PICK m \in 0 .. Len(f) - 1 : n = m + 1
    BY <2>2
  <2>4. k[m] \in Seq(Tokens)
    BY <2>1, <2>3
  <2>5. f[n] \in Tokens
    <3>1. n \in 1 .. Len(f)
      BY <2>2
    <3> QED
      BY <3>1
  <2>6. k[n] \in Seq(Tokens)
    <3>1. k[n] = Taken(k[m], f[n])
      BY <1>5, <2>3
    <3>2. Append(k[m], f[n]) \in Seq(Tokens)
      BY <2>4, <2>5
    <3> QED
      BY <2>4, <3>1, <3>2 DEF Taken
  <2> QED
    BY <2>6
<1> QED
  BY <1>4, <1>5, <1>6 DEF k

-----------------------------------------------------------------------------
\* What a file means: where the members are set.
LEMMA AppendKeeps ==
  ASSUME NEW T, NEW s \in Seq(T), NEW t \in T
  PROVE  /\ Append(s, t) \in Seq(T) /\ Len(Append(s, t)) = Len(s) + 1 /\ Len(s) \in Nat
         /\ Append(s, t)[Len(s) + 1] = t
         /\ \A i \in 1 .. Len(s) : Append(s, t)[i] = s[i]
OBVIOUS

LEMMA KindsOfPart ==
  ASSUME NEW T, NEW s \in Seq(T), NEW i \in 1 .. Len(s), NEW n \in 1 .. i
  PROVE  Kinds(SubSeq(s, i - n + 1, i)) = [k \in 1 .. n |-> s[i - n + k].kind]
<1> DEFINE p == SubSeq(s, i - n + 1, i)
<1>1. p \in Seq(T) /\ Len(p) = n /\ DOMAIN p = 1 .. n
  OBVIOUS
<1>2. \A k \in 1 .. n : p[k] = s[i - n + k]
  OBVIOUS
<1> HIDE DEF p
<1>3. Kinds(p) = [k \in 1 .. n |-> s[i - n + k].kind]
  BY <1>1, <1>2 DEF Kinds
<1> QED
  BY <1>3 DEF p

\* i ends an entry e in its section.
EndsAt(s, e, i) ==
  /\ i >= Len(e.shape)
  /\ \A k \in 1 .. Len(e.shape) : s[i - Len(e.shape) + k].kind = e.shape[k]
  /\ \E j \in 1 .. i : /\ s[j].kind = Home(e)
                       /\ \A k \in j + 1 .. i : s[k].kind \notin Sections

LEMMA SetAtEnds ==
  ASSUME NEW s \in Seq(Tokens), NEW e \in Entries
  PROVE  SetAt(s, e) = {i \in 1 .. Len(s) : EndsAt(s, e, i)}
<1>1. PICK n \in {4, 5} : n = Len(e.shape) /\ e.shape \in Seq(Words \union ValueKinds)
  BY EntriesFormed DEF Formed
<1>2. ASSUME NEW i \in 1 .. Len(s), i >= n
      PROVE  Kinds(SubSeq(s, i - n + 1, i)) = e.shape
             <=> \A k \in 1 .. n : s[i - n + k].kind = e.shape[k]
  <2>1. Kinds(SubSeq(s, i - n + 1, i)) = [k \in 1 .. n |-> s[i - n + k].kind]
    <3>1. n \in 1 .. i
      BY <1>2
    <3> QED
      BY <3>1, KindsOfPart
  <2>2. e.shape = [k \in 1 .. n |-> e.shape[k]]
    BY <1>1
  <2> QED
    BY <2>1, <2>2
<1>3. DOMAIN s = 1 .. Len(s)
  OBVIOUS
<1> QED
  BY <1>1, <1>2, <1>3 DEF SetAt, EndsAt

LEMMA EndsAppended ==
  ASSUME NEW s \in Seq(Tokens), NEW t \in Tokens, NEW e \in Entries, NEW i \in 1 .. Len(s)
  PROVE  EndsAt(Append(s, t), e, i) <=> EndsAt(s, e, i)
<1>1. PICK n \in {4, 5} : n = Len(e.shape)
  BY EntriesFormed DEF Formed
<1>2. \A k \in 1 .. i : Append(s, t)[k] = s[k]
  BY AppendKeeps
<1>3. i >= n => \A k \in 1 .. n : i - n + k \in 1 .. i
  OBVIOUS
<1>4. \A j \in 1 .. i : \A k \in j + 1 .. i : k \in 1 .. i
  OBVIOUS
<1> QED
  BY <1>1, <1>2, <1>3, <1>4 DEF EndsAt

\* A token more: the entry that ends with it, if one does, is now the last that sets its member.
LEMMA MeaningOfMore ==
  ASSUME NEW s \in Seq(Tokens), NEW t \in Tokens, NEW e \in Entries
  PROVE  LET more == Append(s, t)
             n == Len(s) + 1
         IN  Meaning(more, e) = IF EndsAt(more, e, n) THEN Written(t) ELSE Meaning(s, e)
<1> DEFINE more == Append(s, t)
           n == Len(s) + 1
           old == SetAt(s, e)
           new == SetAt(more, e)
<1>1. /\ more \in Seq(Tokens) /\ Len(more) = n /\ n \in Nat /\ more[n] = t
      /\ \A i \in 1 .. Len(s) : more[i] = s[i]
  BY AppendKeeps
<1>2. old = {i \in 1 .. Len(s) : EndsAt(s, e, i)}
  BY SetAtEnds
<1>3. new = {i \in 1 .. n : EndsAt(more, e, i)}
  BY <1>1, SetAtEnds
<1>4. \A i \in 1 .. Len(s) : EndsAt(more, e, i) <=> EndsAt(s, e, i)
  BY EndsAppended
<1>5. 1 .. n = (1 .. Len(s)) \union {n} /\ n \notin 1 .. Len(s)
  OBVIOUS
<1> HIDE DEF more, n
<1>6. CASE EndsAt(more, e, n)
  <2>1. n \in new /\ \A j \in new : j <= n
    BY <1>1, <1>3, <1>5, <1>6
  <2>2. \A i \in new : (\A j \in new : j <= i) => i = n
    BY <1>1, <1>3, <2>1
  <2>3. (CHOOSE i \in new : \A j \in new : j <= i) = n
    BY <2>1, <2>2
  <2>4. Meaning(more, e) = Written(more[n])
    BY <2>1, <2>3 DEF Meaning
  <2> QED
    BY <1>1, <1>6, <2>4 DEF more, n
<1>7. CASE ~EndsAt(more, e, n)
  <2>1. new = old
    BY <1>2, <1>3, <1>4, <1>5, <1>7
  <2>2. CASE old = {}
    BY <1>7, <2>1, <2>2 DEF Meaning, more, n
  <2>3. CASE old # {}
    <3> DEFINE last == CHOOSE i \in old : \A j \in old : j <= i
    <3>1. last \in old
      <4> DEFINE left == {Len(s) - i : i \in old}
      <4>1. left \in SUBSET Nat /\ left # {}
        BY <1>2, <2>3
      <4>2. PICK m \in left : \A k \in left : m <= k
        <5> HIDE DEF left
        <5> QED
          BY <4>1, LeastNumber
      <4>3. PICK i \in old : m = Len(s) - i
        OBVIOUS
      <4>4. ASSUME NEW j \in old PROVE j <= i
        <5>1. i \in Int /\ j \in Int /\ Len(s) \in Int
          BY <1>2
        <5>2. m <= Len(s) - j
          BY <4>2
        <5> QED
          BY <4>3, <5>1, <5>2
      <4> QED
        BY <4>4
    <3>2. last \in 1 .. Len(s)
      BY <1>2, <3>1
    <3>3. Meaning(s, e) = Written(s[last])
      BY <2>3 DEF Meaning
    <3>4. Meaning(more, e) = Written(more[last])
      BY <2>1, <2>3 DEF Meaning
    <3> HIDE DEF last
    <3> QED
      BY <1>1, <1>7, <3>2, <3>3, <3>4 DEF more, n
  <2> QED
    BY <2>2, <2>3
<1> QED
  BY <1>6, <1>7 DEF more, n

\* A token that is not a value ends no entry.
LEMMA OnlyValuesEnd ==
  ASSUME NEW s, NEW e \in Entries, NEW i \in Nat, s[i].kind \notin ValueKinds
  PROVE  ~EndsAt(s, e, i)
<1>1. PICK n \in {4, 5} : n = Len(e.shape) /\ e.shape[n] \in ValueKinds
  BY EntriesFormed DEF Formed
<1>2. n \in 1 .. n /\ i - n + n = i
  OBVIOUS
<1> QED
  BY <1>1, <1>2 DEF EndsAt

\* The section a token is in is the one named last.
InSection(s, i, home) ==
  \E j \in 1 .. i : s[j].kind = home /\ \A k \in j + 1 .. i : s[k].kind \notin Sections

LEMMA OneSection ==
  ASSUME NEW s, NEW i \in Nat, NEW h \in Sections, NEW g \in Sections,
         InSection(s, i, h), InSection(s, i, g)
  PROVE  h = g
<1>1. PICK j \in 1 .. i : s[j].kind = h /\ \A k \in j + 1 .. i : s[k].kind \notin Sections
  BY DEF InSection
<1>2. PICK l \in 1 .. i : s[l].kind = g /\ \A k \in l + 1 .. i : s[k].kind \notin Sections
  BY DEF InSection
<1>3. ~(j < l)
  <2>1. j < l => l \in j + 1 .. i
    OBVIOUS
  <2> QED
    BY <1>1, <1>2, <2>1
<1>4. ~(l < j)
  <2>1. l < j => j \in l + 1 .. i
    OBVIOUS
  <2> QED
    BY <1>1, <1>2, <2>1
<1>5. j = l
  BY <1>3, <1>4
<1> QED
  BY <1>1, <1>2, <1>5

\* No two entries end with the same token.
LEMMA OneEnds ==
  ASSUME NEW s, NEW i \in Nat, NEW e \in Entries, NEW f \in Entries,
         EndsAt(s, e, i), EndsAt(s, f, i)
  PROVE  e = f
<1>1. PICK n \in {4, 5} : /\ n = Len(e.shape) /\ e.shape \in Seq(Words \union ValueKinds)
                         /\ n = IF e.shape[n] \in LongKinds THEN 5 ELSE 4
  BY EntriesFormed DEF Formed
<1>2. PICK m \in {4, 5} : /\ m = Len(f.shape) /\ f.shape \in Seq(Words \union ValueKinds)
                         /\ m = IF f.shape[m] \in LongKinds THEN 5 ELSE 4
  BY EntriesFormed DEF Formed
<1>3. e.shape[n] = s[i].kind /\ f.shape[m] = s[i].kind
  <2>1. n \in 1 .. n /\ i - n + n = i /\ m \in 1 .. m /\ i - m + m = i
    OBVIOUS
  <2> QED
    BY <1>1, <1>2, <2>1 DEF EndsAt
<1>4. n = m
  BY <1>1, <1>2, <1>3
<1>5. \A k \in 1 .. n : e.shape[k] = f.shape[k]
  <2>1. \A k \in 1 .. n : s[i - n + k].kind = e.shape[k]
    BY <1>1 DEF EndsAt
  <2>2. \A k \in 1 .. n : s[i - n + k].kind = f.shape[k]
    BY <1>2, <1>4 DEF EndsAt
  <2> QED
    BY <2>1, <2>2, Zenon
<1>6. e.shape = f.shape
  <2>1. e.shape = [k \in 1 .. n |-> e.shape[k]]
    BY <1>1
  <2>2. f.shape = [k \in 1 .. m |-> f.shape[k]]
    BY <1>2
  <2>3. [k \in 1 .. n |-> e.shape[k]] = [k \in 1 .. n |-> f.shape[k]]
    BY <1>5
  <2> QED
    BY <1>4, <2>1, <2>2, <2>3
<1>7. Home(e) \in Sections /\ Home(f) \in Sections
  BY EntriesFormed DEF Home, Sections
<1>8. Home(e) = Home(f)
  BY <1>7, OneSection DEF EndsAt, InSection
<1> QED
  BY <1>6, <1>8, OneEntry

-----------------------------------------------------------------------------
(* The parser *)

Place == IF section = "gain" THEN "image_config_t" ELSE section

IParser ==
  /\ file \in Seq(Tokens) /\ at \in 0 .. Len(file)
  /\ section \in Sections \union {"none", "gain"}
  /\ members \in 0 .. at
  /\ entry \in Seq(Tokens) /\ Len(entry) < 5
  /\ section = "none" => entry = <<>>

\* The tokens of the entry begun are the last that were accepted, in the section named last.
IPlace ==
  /\ Len(entry) <= Len(Accepted)
  /\ \A k \in 1 .. Len(entry) : Accepted[Len(Accepted) - Len(entry) + k] = entry[k]
  /\ section # "none" => InSection(Accepted, Len(Accepted), Place)

\* What has been read is in mcfg where it fits, but for strings there was no memory for.
Means(tokens, e) ==
  \/ ~Fits(Meaning(tokens, e), e.member)
  \/ mcfg[e.member] = Meaning(tokens, e)
  \/ no_memory /\ ValueKind(e.member) = "string" /\ mcfg[e.member] = Null

IMcfg == DOMAIN mcfg = Members /\ no_memory \in BOOLEAN
IRead == \A e \in Entries : Means(Accepted, e)

LEMMA AcceptedMore ==
  ASSUME IParser, Parsing, Read
  PROVE  /\ Accepted \in Seq(Tokens) /\ file[at + 1] \in Tokens
         /\ Accepted' = Taken(Accepted, file[at + 1])
         /\ at + 1 \in 0 .. Len(file) /\ file' = file /\ at' = at + 1
<1>1. at \in 0 .. Len(file) - 1 /\ at \in 0 .. Len(file) /\ at + 1 \in 1 .. Len(file)
      /\ at + 1 \in 0 .. Len(file) /\ file \in Seq(Tokens)
  BY DEF IParser, Parsing
<1>2. Kept(file)[at] \in Seq(Tokens) /\ Kept(file)[at + 1] = Taken(Kept(file)[at], file[at + 1])
  BY <1>1, KeptSteps
<1>3. file' = file /\ at' = at + 1
  BY DEF Read
<1>4. Accepted' = Kept(file)[at + 1]
  BY <1>3 DEF Accepted
<1>5. file[at + 1] \in Tokens
  BY <1>1
<1> QED
  BY <1>1, <1>2, <1>3, <1>4, <1>5 DEF Accepted

LEMMA AcceptedIs ==
  ASSUME IParser
  PROVE  Accepted \in Seq(Tokens)
BY KeptSteps DEF IParser, Accepted

LEMMA PhraseIs ==
  ASSUME IParser
  PROVE  /\ Len(Phrase) = Len(entry) + 1 /\ Len(entry) \in Nat
         /\ \A k \in 1 .. Len(entry) : Phrase[k] = entry[k].kind
         /\ Phrase[Len(entry) + 1] = file[at + 1].kind
         /\ \A t, S : IsPrefix(Phrase, t) /\ t \in Seq(S) =>
              Len(Phrase) <= Len(t) /\ \A k \in 1 .. Len(Phrase) : t[k] = Phrase[k]
         /\ Phrase = [k \in 1 .. Len(Phrase) |-> Phrase[k]]
<1> DEFINE kinds == Kinds(entry)
           T == {entry[k].kind : k \in 1 .. Len(entry)} \union {file[at + 1].kind}
<1>1. entry \in Seq(Tokens) /\ Len(entry) \in Nat
  BY DEF IParser
<1>2. kinds = [k \in 1 .. Len(entry) |-> entry[k].kind]
  BY <1>1 DEF Kinds
<1>3. /\ kinds \in Seq(T) /\ Len(kinds) = Len(entry)
      /\ \A k \in 1 .. Len(entry) : kinds[k] = entry[k].kind
  BY <1>1, <1>2
<1>4. file[at + 1].kind \in T
  OBVIOUS
<1> HIDE DEF kinds, T
<1>5. /\ Phrase \in Seq(T) /\ Len(Phrase) = Len(entry) + 1
      /\ \A k \in 1 .. Len(entry) : Phrase[k] = entry[k].kind
      /\ Phrase[Len(entry) + 1] = file[at + 1].kind
  BY <1>1, <1>3, <1>4, AppendKeeps DEF Phrase, kinds
<1>6. ASSUME NEW t, NEW S, IsPrefix(Phrase, t), t \in Seq(S)
      PROVE  Len(Phrase) <= Len(t) /\ \A k \in 1 .. Len(Phrase) : t[k] = Phrase[k]
  <2>1. Len(Phrase) <= Len(t) /\ Len(t) \in Nat /\ Len(Phrase) \in Nat
    BY <1>1, <1>5, <1>6 DEF IsPrefix
  <2>2. \A k \in 1 .. Len(Phrase) : SubSeq(Phrase, 1, Len(Phrase))[k] = Phrase[k]
    BY <1>5, <2>1
  <2>3. \A k \in 1 .. Len(Phrase) : SubSeq(t, 1, Len(Phrase))[k] = t[k]
    BY <1>6, <2>1
  <2> QED
    BY <1>6, <2>1, <2>2, <2>3 DEF IsPrefix
<1>7. Phrase = [k \in 1 .. Len(Phrase) |-> Phrase[k]]
  BY <1>5
<1> QED
  BY <1>1, <1>5, <1>6, <1>7

\* A token that names no section leaves the place.
LEMMA PlaceMore ==
  ASSUME IParser, IPlace, Parsing, Read, Scanned(file[at + 1].kind), section # "none",
         file[at + 1].kind \notin Sections
  PROVE  InSection(Accepted', Len(Accepted'), Place)
<1> DEFINE s == Accepted
           more == Append(s, file[at + 1])
<1>1. s \in Seq(Tokens) /\ file[at + 1] \in Tokens /\ Accepted' = more
  BY AcceptedMore DEF Taken
<1>2. /\ Len(more) = Len(s) + 1 /\ Len(s) \in Nat /\ more[Len(s) + 1] = file[at + 1]
      /\ \A i \in 1 .. Len(s) : more[i] = s[i]
  BY <1>1, AppendKeeps
<1>3. PICK j \in 1 .. Len(s) :
        s[j].kind = Place /\ \A k \in j + 1 .. Len(s) : s[k].kind \notin Sections
  BY DEF IPlace, InSection
<1> HIDE DEF s, more
<1>4. more[j].kind = Place /\ j \in 1 .. Len(s) + 1
  BY <1>2, <1>3
<1>5. ASSUME NEW k \in j + 1 .. Len(s) + 1 PROVE more[k].kind \notin Sections
  <2>1. CASE k = Len(s) + 1
    BY <1>2, <2>1
  <2>2. CASE k # Len(s) + 1
    <3>1. k \in j + 1 .. Len(s) /\ k \in 1 .. Len(s)
      BY <1>2, <2>2
    <3> QED
      BY <1>2, <1>3, <3>1
  <2> QED
    BY <2>1, <2>2
<1>6. InSection(more, Len(s) + 1, Place)
  BY <1>4, <1>5 DEF InSection
<1> QED
  BY <1>1, <1>2, <1>6

\* A token that is no value changes nothing that is meant.
LEMMA ReadMore ==
  ASSUME IParser, IRead, Parsing, Read, Scanned(file[at + 1].kind),
         file[at + 1].kind \notin ValueKinds, UNCHANGED <<mcfg, no_memory>>
  PROVE  IRead'
<1>1. Accepted \in Seq(Tokens) /\ file[at + 1] \in Tokens
      /\ Accepted' = Append(Accepted, file[at + 1])
  BY AcceptedMore DEF Taken
<1>2. ASSUME NEW e \in Entries PROVE Means(Accepted, e)'
  <2>1. Means(Accepted, e)
    BY DEF IRead
  <2>2. /\ Append(Accepted, file[at + 1])[Len(Accepted) + 1] = file[at + 1]
        /\ Len(Accepted) + 1 \in Nat
    BY <1>1, AppendKeeps
  <2>3. ~EndsAt(Append(Accepted, file[at + 1]), e, Len(Accepted) + 1)
    BY <2>2, OnlyValuesEnd
  <2>4. Meaning(Append(Accepted, file[at + 1]), e) = Meaning(Accepted, e)
    BY <1>1, <2>3, MeaningOfMore
  <2> QED
    BY <1>1, <2>1, <2>4 DEF Means
<1> QED
  BY <1>2 DEF IRead

IParse == IParser /\ IPlace /\ IMcfg /\ IRead

LEMMA SkipStep ==
  ASSUME IParse, SkipToken
  PROVE  IParse'
<1>1. Parsing /\ Read /\ UNCHANGED <<section, members, entry, mcfg, no_memory>>
      /\ ~Scanned(file[at + 1].kind)
  BY DEF SkipToken
<1>2. Accepted' = Accepted /\ at' = at + 1 /\ file' = file /\ at + 1 \in 0 .. Len(file)
  BY <1>1, AcceptedMore DEF Taken, IParse
<1>3. IParser'
  BY <1>1, <1>2 DEF IParser, IParse
<1>4. IPlace'
  BY <1>1, <1>2 DEF IPlace, IParse, Place
<1>5. IMcfg' /\ IRead'
  BY <1>1, <1>2 DEF IMcfg, IRead, Means, IParse
<1> QED
  BY <1>3, <1>4, <1>5 DEF IParse

LEMMA BeginStep ==
  ASSUME IParse, BeginSection
  PROVE  IParse'
<1> USE DEF IParse
<1> DEFINE t == file[at + 1]
<1>1. Parsing /\ Read /\ UNCHANGED <<mcfg, no_memory>> /\ Scanned(t.kind)
  BY DEF BeginSection
<1>2. /\ Accepted \in Seq(Tokens) /\ t \in Tokens /\ Accepted' = Append(Accepted, t)
      /\ at' = at + 1 /\ file' = file /\ at + 1 \in 0 .. Len(file) /\ at \in Nat
  BY <1>1, AcceptedMore DEF Taken, IParser
<1>3. /\ Len(Accepted') = Len(Accepted) + 1 /\ Len(Accepted) \in Nat
      /\ Accepted'[Len(Accepted) + 1] = t
  BY <1>2, AppendKeeps
<1>4. CASE IsSection /\ Begin(Phrase[1])
  <2>1. entry = <<>>
    BY <1>4 DEF IsSection, SectionMayEnd, IParser
  <2>2. Phrase[1] = t.kind
    <3>1. Len(entry) = 0
      BY <2>1
    <3> QED
      BY <3>1, PhraseIs
  <2>3. t.kind \in Sections /\ section' = t.kind /\ members' = 0 /\ entry' = <<>>
    BY <1>4, <2>2 DEF IsSection, Begin
  <2>4. t.kind \notin ValueKinds /\ t.kind # "gain" /\ t.kind # "none"
    BY <2>3 DEF Sections, ValueKinds, LongKinds
  <2>5. InSection(Accepted', Len(Accepted'), t.kind)
    <3>1. Len(Accepted) + 1 \in 1 .. Len(Accepted')
      BY <1>3
    <3>2. (Len(Accepted) + 1) + 1 .. Len(Accepted') = {}
      BY <1>3
    <3> QED
      BY <1>3, <3>1, <3>2 DEF InSection
  <2>6. IParser'
    BY <1>2, <2>3 DEF IParser
  <2>7. IPlace'
    <3>1. Len(entry') = 0 /\ Len(Accepted') \in Nat /\ Place' = t.kind
      BY <1>3, <2>3, <2>4 DEF Place
    <3> QED
      BY <2>5, <3>1 DEF IPlace
  <2>8. IMcfg' /\ IRead'
    BY <1>1, <2>4, ReadMore DEF IMcfg
  <2> QED
    BY <2>6, <2>7, <2>8
<1>5. CASE IsGainHeader /\ Phrase = GainHeader /\ Begin("gain")
  <2>1. t.kind = "gain"
    <3>1. Len(Phrase) = 2 /\ Phrase[2] = "gain"
      BY <1>5 DEF GainHeader
    <3> QED
      BY <3>1, PhraseIs
  <2>2. t.kind \notin Sections /\ t.kind \notin ValueKinds
    BY <2>1 DEF Sections, ValueKinds, LongKinds
  <2>3. section' = "gain" /\ members' = 0 /\ entry' = <<>>
    BY <1>5 DEF Begin
  <2>4. section \in {"gain", "image_config_t"}
    BY <1>5 DEF IsGainHeader, Open
  <2>5. Place = "image_config_t" /\ Place' = "image_config_t" /\ section # "none"
    BY <2>3, <2>4 DEF Place
  <2>6. InSection(Accepted', Len(Accepted'), "image_config_t")
    BY <1>1, <2>2, <2>5, PlaceMore
  <2>7. IParser'
    BY <1>2, <2>3 DEF IParser
  <2>8. IPlace'
    <3>1. Len(entry') = 0 /\ Len(Accepted') \in Nat
      BY <1>3, <2>3
    <3> QED
      BY <2>5, <2>6, <3>1 DEF IPlace
  <2>9. IMcfg' /\ IRead'
    BY <1>1, <2>2, ReadMore DEF IMcfg
  <2> QED
    BY <2>7, <2>8, <2>9
<1> QED
  BY <1>4, <1>5 DEF BeginSection

\* The place of an entry that may begin here.
LEMMA PlaceOfBegun ==
  ASSUME IParser, NEW e \in EntriesBegun
  PROVE  /\ e \in Entries /\ section # "none" /\ Home(e) = Place
         /\ Len(entry) + 1 <= Len(e.shape)
         /\ \A k \in 1 .. Len(entry) : e.shape[k] = entry[k].kind
         /\ e.shape[Len(entry) + 1] = file[at + 1].kind
<1>1. e \in Entries /\ e.section \in Open /\ IsPrefix(Phrase, e.shape)
  BY DEF EntriesBegun
<1>2. e.shape \in Seq(Words \union ValueKinds) /\ e.section \in Sections \union {"gain"}
  BY <1>1, EntriesFormed DEF Formed
<1>3. section # "none" /\ Home(e) = Place
  BY <1>1, <1>2 DEF Open, Place, Home, Sections
<1>4. Len(Phrase) <= Len(e.shape) /\ \A k \in 1 .. Len(Phrase) : e.shape[k] = Phrase[k]
  BY <1>1, <1>2, PhraseIs
<1>5. Len(Phrase) = Len(entry) + 1 /\ Len(entry) \in Nat
      /\ \A k \in 1 .. Len(entry) : Phrase[k] = entry[k].kind
      /\ Phrase[Len(entry) + 1] = file[at + 1].kind
  BY PhraseIs
<1>6. Len(entry) + 1 \in 1 .. Len(Phrase) /\ \A k \in 1 .. Len(entry) : k \in 1 .. Len(Phrase)
  BY <1>5
<1>7. Len(entry) + 1 <= Len(e.shape)
  BY <1>4, <1>5
<1>8. ASSUME NEW k \in 1 .. Len(entry) PROVE e.shape[k] = entry[k].kind
  <2>1. k \in 1 .. Len(Phrase)
    BY <1>6
  <2>2. e.shape[k] = Phrase[k] /\ Phrase[k] = entry[k].kind
    BY <1>4, <1>5, <2>1, Zenon
  <2> QED
    BY <2>2
<1>9. e.shape[Len(entry) + 1] = file[at + 1].kind
  <2>1. e.shape[Len(entry) + 1] = Phrase[Len(entry) + 1]
    BY <1>4, <1>6, Zenon
  <2>2. Phrase[Len(entry) + 1] = file[at + 1].kind
    BY PhraseIs
  <2> QED
    BY <2>1, <2>2, Zenon
<1> QED
  BY <1>1, <1>3, <1>7, <1>8, <1>9

\* An entry of which all tokens are read is the phrase.
LEMMA PhraseWhole ==
  ASSUME IParser, NEW e \in EntriesBegun
  PROVE  Phrase = e.shape <=> Len(entry) + 1 = Len(e.shape)
<1>1. e.shape \in Seq(Words \union ValueKinds) /\ IsPrefix(Phrase, e.shape)
  BY EntriesFormed DEF EntriesBegun, Formed
<1>2. \A k \in 1 .. Len(Phrase) : e.shape[k] = Phrase[k]
  BY <1>1, PhraseIs
<1>3. Phrase = [k \in 1 .. Len(Phrase) |-> Phrase[k]] /\ Len(Phrase) = Len(entry) + 1
  BY PhraseIs
<1>4. e.shape = [k \in 1 .. Len(e.shape) |-> e.shape[k]]
  BY <1>1
<1>5. [k \in 1 .. Len(Phrase) |-> Phrase[k]] = [k \in 1 .. Len(Phrase) |-> e.shape[k]]
  BY <1>2
<1> HIDE DEF Phrase
<1>6. ASSUME Len(entry) + 1 = Len(e.shape) PROVE Phrase = e.shape
  BY <1>3, <1>4, <1>5, <1>6
<1> QED
  BY <1>3, <1>6

LEMMA ShiftStep ==
  ASSUME IParse, ShiftToken
  PROVE  IParse'
<1> USE DEF IParse
<1> DEFINE t == file[at + 1]
<1>1. Parsing /\ Read /\ UNCHANGED <<section, members, mcfg, no_memory>> /\ Scanned(t.kind)
      /\ entry' = Append(entry, t)
  BY DEF ShiftToken
<1>2. /\ Accepted \in Seq(Tokens) /\ t \in Tokens /\ Accepted' = Append(Accepted, t)
      /\ at' = at + 1 /\ file' = file /\ at + 1 \in 0 .. Len(file) /\ at \in Nat
  BY <1>1, AcceptedMore DEF Taken, IParser
<1>3. /\ Len(Accepted') = Len(Accepted) + 1 /\ Len(Accepted) \in Nat
      /\ Accepted'[Len(Accepted) + 1] = t
      /\ \A i \in 1 .. Len(Accepted) : Accepted'[i] = Accepted[i]
  BY <1>2, AppendKeeps
<1>4. /\ entry \in Seq(Tokens) /\ entry' \in Seq(Tokens) /\ Len(entry) \in Nat
      /\ Len(entry') = Len(entry) + 1 /\ entry'[Len(entry) + 1] = t
      /\ \A i \in 1 .. Len(entry) : entry'[i] = entry[i]
  BY <1>1, <1>2, AppendKeeps DEF IParser
<1>5. /\ section # "none" /\ Len(entry) + 1 < 5
      /\ t.kind \notin Sections /\ t.kind \notin ValueKinds
  <2>1. CASE IsGainHeader /\ Phrase # GainHeader
    <3>1. section # "none"
      BY <2>1 DEF IsGainHeader, Open
    <3>2. /\ IsPrefix(Phrase, GainHeader) /\ GainHeader \in Seq({"gain_t", "gain"})
          /\ Len(GainHeader) = 2 /\ GainHeader[1] = "gain_t" /\ GainHeader[2] = "gain"
      BY <2>1 DEF IsGainHeader, GainHeader
    <3>3. Len(Phrase) <= 2 /\ \A k \in 1 .. Len(Phrase) : GainHeader[k] = Phrase[k]
      BY <3>2, PhraseIs
    <3>4. Len(Phrase) = Len(entry) + 1 /\ Phrase[Len(entry) + 1] = t.kind
      BY PhraseIs
    <3>5. Len(entry) + 1 \in {1, 2} /\ Len(entry) + 1 \in 1 .. Len(Phrase)
      BY <1>4, <3>3, <3>4
    <3>6. t.kind \in {"gain_t", "gain"}
      BY <3>2, <3>3, <3>4, <3>5
    <3>7. t.kind \notin Sections /\ t.kind \notin ValueKinds
      BY <3>6 DEF Sections, ValueKinds, LongKinds
    <3> QED
      BY <3>1, <3>5, <3>7
  <2>2. CASE \E e \in EntriesBegun : Phrase # e.shape
    <3>1. PICK e \in EntriesBegun : Phrase # e.shape
      BY <2>2
    <3>2. /\ e \in Entries /\ section # "none" /\ Len(entry) + 1 <= Len(e.shape)
          /\ e.shape[Len(entry) + 1] = t.kind
      BY PlaceOfBegun
    <3>3. /\ Len(e.shape) \in {4, 5} /\ e.shape \in Seq(Words \union ValueKinds)
          /\ \A i \in 1 .. Len(e.shape) - 1 : e.shape[i] \notin ValueKinds \union Sections
      BY <3>2, EntriesFormed DEF Formed
    <3>4. Len(entry) + 1 # Len(e.shape)
      BY <3>1, <3>2, PhraseWhole
    <3>5. Len(entry) + 1 \in 1 .. Len(e.shape) - 1 /\ Len(entry) + 1 < 5
      BY <1>4, <3>2, <3>3, <3>4
    <3> QED
      BY <3>2, <3>3, <3>5
  <2> QED
    BY <2>1, <2>2 DEF ShiftToken
<1>6. IParser'
  BY <1>1, <1>2, <1>4, <1>5 DEF IParser
<1>7. IPlace'
  <2>1. Len(entry) <= Len(Accepted)
        /\ \A k \in 1 .. Len(entry) : Accepted[Len(Accepted) - Len(entry) + k] = entry[k]
    BY DEF IPlace
  <2>2. Len(entry') <= Len(Accepted')
    BY <1>3, <1>4, <2>1
  <2>3. ASSUME NEW k \in 1 .. Len(entry')
        PROVE  Accepted'[Len(Accepted') - Len(entry') + k] = entry'[k]
    <3>1. Len(Accepted') - Len(entry') + k = Len(Accepted) - Len(entry) + k
      BY <1>3, <1>4
    <3>2. CASE k = Len(entry) + 1
      BY <1>3, <1>4, <3>1, <3>2
    <3>3. CASE k # Len(entry) + 1
      <4>1. k \in 1 .. Len(entry) /\ Len(Accepted) - Len(entry) + k \in 1 .. Len(Accepted)
        BY <1>3, <1>4, <2>1, <3>3
      <4> QED
        BY <1>3, <1>4, <2>1, <3>1, <4>1
    <3> QED
      BY <3>2, <3>3
  <2>4. InSection(Accepted', Len(Accepted'), Place)
    BY <1>1, <1>5, PlaceMore
  <2>5. Place' = Place
    BY <1>1 DEF Place
  <2> QED
    BY <2>2, <2>3, <2>4, <2>5 DEF IPlace
<1>8. IMcfg' /\ IRead'
  BY <1>1, <1>5, ReadMore DEF IMcfg
<1> QED
  BY <1>6, <1>7, <1>8

\* The kind of its value and the section of a member are those of its entry.
LEMMA ValueKindIs ==
  ASSUME NEW e \in Entries
  PROVE  ValueKind(e.member) = e.shape[Len(e.shape)] /\ e.member \in Members
<1>1. \E f \in Entries : f.member = e.member
  OBVIOUS
<1>2. \A f \in Entries : f.member = e.member => f = e
  BY OneEntry
<1>3. (CHOOSE f \in Entries : f.member = e.member) = e
  BY <1>1, <1>2
<1> QED
  BY <1>3 DEF ValueKind, Last, Members

LEMMA CompleteStep ==
  ASSUME IParse, CompleteEntry
  PROVE  IParse'
<1> USE DEF IParse
<1> DEFINE t == file[at + 1]
           s == Accepted
           more == Append(s, t)
           n == Len(s) + 1
<1>1. Parsing /\ Read /\ Scanned(t.kind) /\ members' = members + 1 /\ entry' = <<>>
  BY DEF CompleteEntry
<1>0. PICK e \in EntriesBegun :
        /\ Phrase = e.shape /\ section' = e.section
        /\ \E value \in Values(at + 1, e.member) :
             /\ mcfg' = [mcfg EXCEPT ![e.member] = value]
             /\ no_memory' = (no_memory \/ value = Null)
  BY Zenon DEF CompleteEntry
<1>2. PICK value \in Values(at + 1, e.member) :
        /\ Phrase = e.shape /\ section' = e.section
        /\ mcfg' = [mcfg EXCEPT ![e.member] = value]
        /\ no_memory' = (no_memory \/ value = Null)
  BY <1>0, Zenon
<1>3. /\ s \in Seq(Tokens) /\ t \in Tokens /\ Accepted' = more
      /\ at' = at + 1 /\ file' = file /\ at + 1 \in 0 .. Len(file) /\ at \in Nat
  BY <1>1, AcceptedMore DEF Taken, IParser
<1>4. /\ Len(more) = n /\ Len(s) \in Nat /\ more[n] = t /\ n \in Nat
      /\ \A i \in 1 .. Len(s) : more[i] = s[i]
  BY <1>3, AppendKeeps
<1>5. /\ e \in Entries /\ section # "none" /\ Home(e) = Place
      /\ Len(entry) + 1 = Len(e.shape) /\ Len(entry) \in Nat
      /\ \A k \in 1 .. Len(entry) : e.shape[k] = entry[k].kind
      /\ e.shape[Len(e.shape)] = t.kind
  BY <1>2, PlaceOfBegun, PhraseWhole, PhraseIs
<1>6. t.kind \in ValueKinds /\ t.kind \notin Sections /\ ValueKind(e.member) = t.kind
      /\ e.section \in Sections \union {"gain"} /\ e.member \in Members
  <2>1. t.kind \in ValueKinds /\ e.section \in Sections \union {"gain"}
    BY <1>5, EntriesFormed DEF Formed
  <2>2. t.kind \notin Sections
    BY <2>1 DEF ValueKinds, LongKinds, Sections
  <2> QED
    BY <1>5, <2>1, <2>2, ValueKindIs
<1>7. InSection(more, n, Place)
  <2>1. InSection(Accepted', Len(Accepted'), Place)
    BY <1>1, <1>5, <1>6, PlaceMore
  <2> QED
    BY <1>3, <1>4, <2>1
<1> HIDE DEF more, n, s
<1>8. EndsAt(more, e, n)
  <2>1. Len(entry) <= Len(s) /\ \A k \in 1 .. Len(entry) : s[Len(s) - Len(entry) + k] = entry[k]
    BY DEF IPlace, s
  <2>2. n = Len(s) + 1
    BY DEF n
  <2>3. n >= Len(e.shape)
    BY <1>4, <1>5, <2>1, <2>2
  <2>4. ASSUME NEW k \in 1 .. Len(e.shape) PROVE more[n - Len(e.shape) + k].kind = e.shape[k]
    <3>1. CASE k = Len(e.shape)
      <4>1. n - Len(e.shape) + k = n
        BY <1>4, <1>5, <3>1
      <4> QED
        BY <1>4, <1>5, <3>1, <4>1
    <3>2. CASE k # Len(e.shape)
      <4>1. k \in 1 .. Len(entry) /\ n - Len(e.shape) + k = Len(s) - Len(entry) + k
            /\ Len(s) - Len(entry) + k \in 1 .. Len(s)
        <5>1. PICK a \in Nat : a = Len(s)
          BY <1>4
        <5>2. PICK b \in Nat : b = Len(entry)
          BY <1>5
        <5>3. Len(e.shape) = b + 1 /\ n = a + 1 /\ b <= a
          BY <1>5, <2>1, <2>2, <5>1, <5>2
        <5>4. k \in 1 .. b + 1 /\ k # b + 1
          BY <3>2, <5>3
        <5>5. k \in 1 .. b /\ (a + 1) - (b + 1) + k = a - b + k /\ a - b + k \in 1 .. a
          BY <5>3, <5>4
        <5> QED
          BY <5>1, <5>2, <5>3, <5>5
      <4>2. more[n - Len(e.shape) + k] = entry[k]
        BY <1>4, <2>1, <4>1
      <4> QED
        BY <1>5, <4>1, <4>2
    <3> QED
      BY <3>1, <3>2
  <2> QED
    BY <1>5, <1>7, <2>3, <2>4 DEF EndsAt, InSection
<1>9. IParser'
  BY <1>1, <1>2, <1>3, <1>6 DEF IParser
<1>10. IPlace'
  <2>1. Len(entry') = 0 /\ Len(Accepted') \in Nat
    BY <1>1, <1>3, <1>4
  <2>2. Place' = Place
    <3>1. section' = e.section
      BY <1>2
    <3>2. Place' = Home(e)
      BY <3>1 DEF Place, Home
    <3> QED
      BY <1>5, <3>2
  <2> QED
    BY <1>3, <1>4, <1>7, <2>1, <2>2 DEF IPlace
<1>11. IMcfg'
  <2>1. DOMAIN mcfg' = Members
    BY <1>2 DEF IMcfg
  <2>2. (no_memory \/ value = Null) \in BOOLEAN
    BY Zenon DEF IMcfg
  <2> QED
    BY <1>2, <2>1, <2>2, Zenon DEF IMcfg
<1>12. IRead'
  <2> SUFFICES ASSUME NEW f \in Entries PROVE Means(Accepted, f)'
    BY DEF IRead
  <2>1. Meaning(more, f) = IF EndsAt(more, f, n) THEN Written(t) ELSE Meaning(s, f)
    BY <1>3, MeaningOfMore DEF more, n, s
  <2>2. CASE f = e
    <3>1. Meaning(more, e) = Written(t)
      BY <1>8, <2>1, <2>2
    <3>2. mcfg'[e.member] = value
      BY <1>2, <1>6 DEF IMcfg
    <3>3. ASSUME Fits(Written(t), e.member)
          PROVE  value = Written(t) \/ (value = Null /\ t.kind = "string")
      <4>1. CASE t.kind = "integer"
        <5>1. value = Cut(atoi(t.int), e.member) /\ Written(t) = t.int
          BY <1>2, <4>1 DEF Values, Written
        <5>2. PICK i \in Nat : i = t.int
          BY <1>3 DEF Tokens
        <5>3. i <= IntMax /\ (e.member \in Narrow => i < Modulus(e.member))
          BY <1>6, <3>3, <4>1, <5>1, <5>2 DEF Fits
        <5>4. PICK b \in Nat \ {0} : b = Modulus(e.member)
          BY DEF Modulus
        <5>5. atoi(i) = i
          BY <5>3, IntAssumption DEF atoi
        <5>6. i < b => i % b = i
          OBVIOUS
        <5> QED
          BY <5>1, <5>2, <5>3, <5>4, <5>5, <5>6 DEF Cut
      <4>2. CASE t.kind = "string"
        <5>1. Written(t) = t.str /\ t.str \in Seq(Nat)
          BY <1>3, <4>2 DEF Written, Tokens
        <5>2. Nuls(t.str) = {}
          <6>1. t.str # Null
            BY <5>1, NullAssumption
          <6> QED
            BY <1>6, <3>3, <4>2, <5>1, <6>1 DEF Fits
        <5> QED
          BY <1>2, <4>2, <5>1, <5>2 DEF Values, Text, NegativeLength
      <4> QED
        BY <1>2, <4>1, <4>2 DEF Values, Written
    <3>4. value = Null => no_memory'
      BY <1>2
    <3> QED
      BY <1>3, <1>6, <2>2, <3>1, <3>2, <3>3, <3>4 DEF Means
  <2>3. CASE f # e
    <3>1. ~EndsAt(more, f, n)
      BY <1>4, <1>5, <1>8, <2>3, OneEnds
    <3>2. f.member # e.member /\ f.member \in Members
      BY <1>5, <2>3, OneEntry, ValueKindIs
    <3>3. mcfg'[f.member] = mcfg[f.member]
      BY <1>2, <3>2 DEF IMcfg
    <3>4. Means(s, f)
      BY DEF IRead, s
    <3>5. no_memory => no_memory'
      BY <1>2
    <3> QED
      BY <1>3, <2>1, <3>1, <3>3, <3>4, <3>5 DEF Means
  <2> QED
    BY <2>2, <2>3
<1> QED
  BY <1>9, <1>10, <1>11, <1>12

-----------------------------------------------------------------------------
\* The meaning of an entry is what some token of its kind of value says, or there was none.
LEMMA MeaningIs ==
  ASSUME NEW s \in Seq(Tokens), NEW e \in Entries
  PROVE  \/ Meaning(s, e) = Zero[e.member]
         \/ \E i \in 1 .. Len(s) : /\ s[i].kind = ValueKind(e.member)
                                   /\ Meaning(s, e) = Written(s[i])
<1> DEFINE set == SetAt(s, e)
           i == CHOOSE i \in set : \A j \in set : j <= i
<1>1. set = {k \in 1 .. Len(s) : EndsAt(s, e, k)} /\ Len(s) \in Nat
  BY SetAtEnds
<1>2. Meaning(s, e) = IF set = {} THEN Zero[e.member] ELSE Written(s[i])
  BY DEF Meaning
<1> HIDE DEF set
<1>3. CASE set = {}
  BY <1>2, <1>3
<1>4. CASE set # {}
  <2> DEFINE gaps == {Len(s) - k : k \in set}
  <2>1. gaps \in SUBSET Nat /\ gaps # {}
    BY <1>1, <1>4
  <2>2. PICK m \in gaps : \A n \in gaps : m <= n
    <3> HIDE DEF gaps
    <3> QED
      BY <2>1, LeastNumber
  <2>3. PICK k \in set : m = Len(s) - k
    OBVIOUS
  <2>4. \A j \in set : j <= k
    <3> SUFFICES ASSUME NEW j \in set PROVE j <= k
      OBVIOUS
    <3>1. Len(s) - k <= Len(s) - j
      BY <2>2, <2>3
    <3> QED
      BY <1>1, <3>1
  <2>5. i \in set
    BY <2>4
  <2> HIDE DEF i
  <2>6. i \in 1 .. Len(s) /\ EndsAt(s, e, i)
    BY <1>1, <2>5
  <2>7. s[i].kind = e.shape[Len(e.shape)]
    <3>1. PICK n \in {4, 5} : n = Len(e.shape)
      BY EntriesFormed DEF Formed
    <3>2. \A l \in 1 .. n : s[i - n + l].kind = e.shape[l]
      BY <2>6, <3>1 DEF EndsAt
    <3>3. i - n + n = i /\ n \in 1 .. n
      BY <2>6
    <3>4. s[i - n + n].kind = e.shape[n]
      BY <3>2, <3>3
    <3> QED
      BY <3>1, <3>3, <3>4
  <2> QED
    BY <1>2, <1>4, <2>6, <2>7, ValueKindIs
<1> QED
  BY <1>3, <1>4

\* The entries of the password and of its cypher.
LEMMA FtpMembers ==
  /\ \E e \in Entries : e.member = Ftp("password") /\ ValueKind(e.member) = "string"
  /\ \E e \in Entries : e.member = Ftp("cypher") /\ ValueKind(e.member) = "enum_cypher_t"
<1> DEFINE p == Plain("ftp_config_t", "char*", "password", "string")
           c == Enumerated("ftp_config_t", "cypher_t", "cypher", "enum_cypher_t")
<1>1. p \in Entries /\ p.member = Ftp("password")
      /\ p.shape = <<"char*", "password", "=", "string">>
  BY DEF Entries, FtpEntries, Plain, Entry, Ftp
<1>2. c \in Entries /\ c.member = Ftp("cypher")
      /\ c.shape = <<"enum", "cypher_t", "cypher", "=", "enum_cypher_t">>
  BY DEF Entries, FtpEntries, Enumerated, Entry, Ftp
<1> HIDE DEF p, c
<1>3. p.shape[Len(p.shape)] = "string"
  <2>1. Len(p.shape) = 4 /\ p.shape[4] = "string"
    BY <1>1
  <2> QED
    BY <2>1
<1>4. c.shape[Len(c.shape)] = "enum_cypher_t"
  <2>1. Len(c.shape) = 5 /\ c.shape[5] = "enum_cypher_t"
    BY <1>2
  <2> QED
    BY <2>1
<1> QED
  BY <1>1, <1>2, <1>3, <1>4, ValueKindIs

\* What the file can say of the password and of the cypher.
LEMMA PasswordMeans ==
  ASSUME NEW s \in Seq(Tokens), NEW e \in Entries, e.member = Ftp("password")
  PROVE  Fits(Meaning(s, e), e.member) =>
           Meaning(s, e) = Null \/ Meaning(s, e) \in Seq(Nat \ {0})
<1>1. ValueKind(e.member) = "string" /\ e.member \in Members
  BY FtpMembers, ValueKindIs
<1>2. Zero[e.member] = Null
  BY <1>1 DEF Zero
<1>3. ASSUME NEW i \in 1 .. Len(s), s[i].kind = "string"
      PROVE  Written(s[i]) \in Seq(Nat)
  <2>1. s[i] \in Tokens
    OBVIOUS
  <2> QED
    BY <1>3, <2>1 DEF Written, Tokens
<1>4. Meaning(s, e) = Null \/ Meaning(s, e) \in Seq(Nat)
  BY <1>1, <1>2, <1>3, MeaningIs
<1>5. ASSUME NEW w \in Seq(Nat), Nuls(w) = {} PROVE w \in Seq(Nat \ {0})
  <2>1. \A k \in 1 .. Len(w) : w[k] \in Nat \ {0}
    BY <1>5 DEF Nuls
  <2> QED
    BY <2>1
<1> QED
  BY <1>1, <1>4, <1>5 DEF Fits

LEMMA CypherMeans ==
  ASSUME NEW s \in Seq(Tokens), NEW e \in Entries, e.member = Ftp("cypher")
  PROVE  Meaning(s, e) \in {"NONE", "CAESAR", "SUFFIX"}
<1>1. ValueKind(e.member) = "enum_cypher_t" /\ e.member \in Members
  BY FtpMembers, ValueKindIs
<1>2. Zero[e.member] = "NONE"
  BY <1>1 DEF Zero
<1>3. ASSUME NEW i \in 1 .. Len(s), s[i].kind = "enum_cypher_t"
      PROVE  Written(s[i]) \in {"NONE", "CAESAR", "SUFFIX"}
  <2>1. s[i] \in Tokens
    OBVIOUS
  <2> QED
    BY <1>3, <2>1 DEF Written, Tokens
<1> QED
  BY <1>1, <1>2, <1>3, MeaningIs

-----------------------------------------------------------------------------
\* Decrypting undoes what the password of the file was made with, one character at a time.
LEMMA ShiftedIs ==
  ASSUME NEW c \in Nat, 32 < c, c < 127
  PROVE  /\ Shifted(c, -CAESAR_KEY) \in 33 .. 126
         /\ ((Shifted(c, -CAESAR_KEY) - 33 + CAESAR_KEY) % 94) + 33 = c
<1>1. PICK a \in 0 .. 93 : a = c - 33
  OBVIOUS
<1>2. Shifted(c, -CAESAR_KEY) = ((a + 57) % 94) + 33
  BY <1>1 DEF Shifted, CAESAR_KEY, CRem
<1>3. (a + 57) % 94 = IF a < 37 THEN a + 57 ELSE a - 37
  BY <1>1
<1>4. CASE a < 37
  <2>1. Shifted(c, -CAESAR_KEY) = a + 90
    BY <1>2, <1>3, <1>4
  <2>2. (a + 94) % 94 = a
    BY <1>1
  <2> QED
    BY <1>1, <1>4, <2>1, <2>2 DEF CAESAR_KEY
<1>5. CASE ~(a < 37)
  <2>1. Shifted(c, -CAESAR_KEY) = a - 4
    BY <1>2, <1>3, <1>5
  <2>2. a % 94 = a
    BY <1>1
  <2> QED
    BY <1>1, <1>5, <2>1, <2>2 DEF CAESAR_KEY
<1> QED
  BY <1>4, <1>5

LEMMA CaesarUndone ==
  ASSUME NEW w \in Seq(Nat \ {0})
  PROVE  LET d == caesar_decrypt(w, CAESAR_KEY)
         IN  d \in Seq(Nat \ {0}) /\ Encrypted(d) = w
<1> DEFINE d == caesar_decrypt(w, CAESAR_KEY)
<1>1. /\ d = [i \in 1 .. Len(w) |-> IF 32 < w[i] /\ w[i] < 127 THEN Shifted(w[i], -CAESAR_KEY)
                                     ELSE w[i]]
      /\ Len(w) \in Nat
  BY DEF caesar_decrypt, caesar_encrypt
<1>2. \A i \in 1 .. Len(w) : w[i] \in Nat \ {0}
  OBVIOUS
<1>3. w = [i \in 1 .. Len(w) |-> w[i]]
  OBVIOUS
<1> HIDE DEF d
<1>4. ASSUME NEW i \in 1 .. Len(w)
      PROVE  /\ d[i] \in Nat \ {0}
             /\ w[i] = IF 32 < d[i] /\ d[i] < 127 THEN ((d[i] - 33 + CAESAR_KEY) % 94) + 33
                       ELSE d[i]
  <2>1. CASE 32 < w[i] /\ w[i] < 127
    <3>1. d[i] = Shifted(w[i], -CAESAR_KEY)
      BY <1>1, <2>1
    <3>2. d[i] \in 33 .. 126 /\ ((d[i] - 33 + CAESAR_KEY) % 94) + 33 = w[i]
      <4>1. w[i] \in Nat /\ 32 < w[i] /\ w[i] < 127
        BY <1>2, <2>1
      <4> QED
        BY <3>1, <4>1, ShiftedIs
    <3>3. PICK b \in 33 .. 126 : d[i] = b
      BY <3>2
    <3>4. b \in Nat \ {0} /\ 32 < b /\ b < 127
      OBVIOUS
    <3> QED
      BY <3>2, <3>3, <3>4
  <2>2. CASE ~(32 < w[i] /\ w[i] < 127)
    BY <1>1, <1>2, <2>2
  <2> QED
    BY <2>1, <2>2
<1>5. d \in Seq(Nat \ {0}) /\ DOMAIN d = 1 .. Len(w)
  <2>1. d = [i \in 1 .. Len(w) |-> d[i]]
    BY <1>1
  <2> QED
    BY <1>1, <1>4, <2>1
<1>6. Encrypted(d) = [i \in 1 .. Len(w) |-> w[i]]
  BY <1>4, <1>5 DEF Encrypted
<1> QED
  BY <1>3, <1>5, <1>6 DEF d

\* A string is not what is read at the address 0, nor a pointer to none.
LEMMA StringsAre ==
  ASSUME NEW w \in Seq(Nat \ {0})
  PROVE  w # Null /\ w # NoSuffixed /\ w \o SUFFIX_KEY \in Seq(Nat \ {0})
<1>1. w \in Seq(Int)
  OBVIOUS
<1>2. SUFFIX_KEY \in Seq(Nat \ {0})
  BY DEF SUFFIX_KEY
<1>3. NoSuffixed[1] = 0 /\ Len(NoSuffixed) > 0
  <2>1. Len(<<0>>) = 1 /\ <<0>>[1] = 0 /\ <<0>> \in Seq(Nat)
    OBVIOUS
  <2>2. SUFFIX_KEY \in Seq(Nat) /\ Len(SUFFIX_KEY) \in Nat
    BY <1>2
  <2> QED
    BY <2>1, <2>2 DEF NoSuffixed
<1>4. w # NoSuffixed
  <2>1. SUFFICES ASSUME w = NoSuffixed PROVE FALSE
    OBVIOUS
  <2>2. w[1] \in Nat \ {0}
    BY <1>3, <2>1
  <2> QED
    BY <1>3, <2>1, <2>2
<1> QED
  BY <1>1, <1>2, <1>4, NullAssumption

-----------------------------------------------------------------------------
\* What a step of the loading keeps.
IValues ==
  \A m \in Members :
    ValueKind(m) = "integer" =>
      mcfg[m] \in IF m \in Narrow THEN 0 .. Modulus(m) - 1 ELSE 0 .. IntMax

IConfig ==
  /\ cpc \in {"load", "parse", "decrypt", "loaded", "halted"}
  /\ file \in Files
  /\ IParser /\ IPlace /\ IMcfg /\ IValues
  /\ cpc \in {"load", "parse", "decrypt"} => IRead
  /\ ConfigAsWritten

\* The password that decrypt_password leaves.
Decrypts(w, cypher) ==
  \/ no_memory /\ Password \in {Null, w}
  \/ IF Null \in {w, Password} \/ Password = NoSuffixed THEN w = Null \/ no_memory
     ELSE PasswordOf(w, cypher)

LEMMA DecryptKeeps ==
  ASSUME IMcfg, Decrypt, mcfg[Ftp("cypher")] \in {"NONE", "CAESAR", "SUFFIX"}, cpc' = "loaded"
  PROVE  /\ no_memory => no_memory'
         /\ DOMAIN mcfg' = Members
         /\ \A m \in Members : m # Ftp("password") => mcfg'[m] = mcfg[m]
<1>1. \/ \E q : SetPassword(q)
      \/ no_memory' = TRUE /\ UNCHANGED mcfg
  BY DEF Decrypt, DecryptCaesar, suffix_decrypt, Halt
<1>2. ASSUME NEW q, SetPassword(q)
      PROVE  /\ no_memory' = no_memory /\ DOMAIN mcfg' = Members
             /\ \A m \in Members : m # Ftp("password") => mcfg'[m] = mcfg[m]
  BY <1>2 DEF SetPassword, IMcfg
<1> QED
  BY <1>1, <1>2 DEF IMcfg

LEMMA DecryptsPassword ==
  ASSUME IMcfg, Decrypt, NEW w, w = Null \/ w \in Seq(Nat \ {0}), no_memory' \in BOOLEAN,
         Password = w \/ (no_memory /\ Password = Null),
         mcfg[Ftp("cypher")] \in {"NONE", "CAESAR", "SUFFIX"}, cpc' = "loaded"
  PROVE  Decrypts(w, mcfg[Ftp("cypher")])'
<1> DEFINE c == mcfg[Ftp("cypher")]
           Rest == /\ DOMAIN mcfg' = Members
                   /\ \A m \in Members : m # Ftp("password") => mcfg'[m] = mcfg[m]
<1>1. Ftp("password") \in Members /\ Ftp("cypher") # Ftp("password")
  <2>1. Ftp("password") \in Members
    BY FtpMembers, ValueKindIs
  <2> QED
    BY <2>1 DEF Ftp
<1>2. ASSUME NEW q, SetPassword(q)
      PROVE  /\ Password' = q /\ no_memory' = no_memory /\ mcfg'[Ftp("cypher")] = c
             /\ Rest
  BY <1>1, <1>2 DEF SetPassword, Password, IMcfg
<1>3. ~Halt
  BY DEF Halt
<1>4. w # Null => w \in Seq(Nat \ {0}) /\ w # NoSuffixed
  BY StringsAre
<1>5. CASE c = "NONE"
  <2>1. SetPassword(Password)
    BY <1>5 DEF Decrypt
  <2>2. Password' = Password /\ no_memory' = no_memory /\ mcfg'[Ftp("cypher")] = "NONE"
        /\ Rest
    BY <1>2, <1>5, <2>1
  <2>3. Decrypts(w, mcfg[Ftp("cypher")])'
    <3> HIDE DEF Password
    <3> QED
      BY <1>4, <2>2 DEF Decrypts, PasswordOf
  <2> QED
    BY <2>2, <2>3
<1>6. CASE c = "CAESAR"
  <2>1. DecryptCaesar
    BY <1>6 DEF Decrypt
  <2>2. CASE Password = Null
    <3>1. SetPassword(Null)
      BY <1>3, <2>1, <2>2 DEF DecryptCaesar
    <3>2. Password' = Null /\ no_memory' = no_memory
          /\ Rest
      BY <1>2, <3>1
    <3>3. Decrypts(w, mcfg[Ftp("cypher")])'
      BY <2>2, <3>2 DEF Decrypts
    <3> QED
      BY <3>2, <3>3
  <2>3. CASE Password # Null
    <3> DEFINE d == caesar_decrypt(w, CAESAR_KEY)
    <3>1. Password = w /\ w \in Seq(Nat \ {0})
      BY <2>3
    <3>2. SetPassword(d)
      BY <2>1, <2>3, <3>1 DEF DecryptCaesar
    <3>3. d \in Seq(Nat \ {0}) /\ Encrypted(d) = w
      BY <3>1, CaesarUndone
    <3> HIDE DEF d
    <3>4. Password' = d /\ no_memory' = no_memory /\ mcfg'[Ftp("cypher")] = "CAESAR"
          /\ Rest
      BY <1>2, <1>6, <3>2
    <3>5. d # Null /\ d # NoSuffixed /\ w # Null
      BY <2>3, <3>1, <3>3, StringsAre
    <3>6. Decrypts(w, mcfg[Ftp("cypher")])'
      BY <3>3, <3>4, <3>5 DEF Decrypts, PasswordOf
    <3> QED
      BY <3>4, <3>6
  <2> QED
    BY <2>2, <2>3
<1>7. CASE c = "SUFFIX"
  <2>1. suffix_decrypt
    BY <1>7 DEF Decrypt
  <2>2. CASE cpc' = "loaded" /\ no_memory' = TRUE /\ UNCHANGED mcfg
    <3>1. Password' = Password
      BY <2>2 DEF Password
    <3>2. Decrypts(w, mcfg[Ftp("cypher")])'
      BY <2>2, <3>1 DEF Decrypts
    <3>3. Rest
      BY <2>2 DEF IMcfg
    <3> QED
      BY <2>2, <3>2, <3>3
  <2>3. CASE Password = Null /\ SetPassword(NoSuffixed)
    <3>1. Password' = NoSuffixed /\ no_memory' = no_memory
          /\ Rest
      BY <1>2, <2>3
    <3>2. w = Null \/ no_memory
      BY <2>3
    <3>3. Decrypts(w, mcfg[Ftp("cypher")])'
      BY <3>1, <3>2 DEF Decrypts
    <3> QED
      BY <3>1, <3>3
  <2>4. CASE Password # Null /\ SetPassword(Password \o SUFFIX_KEY)
    <3> DEFINE d == w \o SUFFIX_KEY
    <3>1. Password = w /\ w \in Seq(Nat \ {0})
      BY <2>4
    <3>2. SetPassword(d)
      BY <2>4, <3>1
    <3>3. Password' = d /\ no_memory' = no_memory /\ mcfg'[Ftp("cypher")] = "SUFFIX"
          /\ Rest
      <4> HIDE DEF d
      <4> QED
        BY <1>2, <1>7, <3>2
    <3>4. d \in Seq(Nat \ {0})
      BY <3>1, StringsAre
    <3>5. d # Null /\ d # NoSuffixed /\ w # Null
      <4> HIDE DEF d
      <4> QED
        BY <2>4, <3>1, <3>4, StringsAre
    <3>6. Decrypts(w, mcfg[Ftp("cypher")])'
      BY <3>3, <3>5 DEF Decrypts, PasswordOf
    <3> QED
      BY <3>3, <3>6
  <2> QED
    BY <1>3, <2>1, <2>2, <2>3, <2>4 DEF suffix_decrypt
<1> QED
  BY <1>5, <1>6, <1>7

LEMMA DecryptStep ==
  ASSUME IConfig, Decrypt
  PROVE  IConfig'
<1> DEFINE s == Accepted
           set == cpc' = "loaded"
<1>1. UNCHANGED <<file, at, section, members, entry>> /\ cpc = "decrypt"
  BY DEF Decrypt, parserVars
<1>2. Accepted' = s /\ IParser' /\ IPlace' /\ file' \in Files /\ s \in Seq(Tokens)
  <2>1. Accepted' = s
    BY <1>1 DEF Accepted
  <2>2. IParser'
    BY <1>1 DEF IConfig, IParser
  <2>3. IPlace'
    BY <1>1, <2>1 DEF IConfig, IPlace, Place
  <2> QED
    BY <1>1, <2>1, <2>2, <2>3, AcceptedIs DEF IConfig
<1>3. PICK p \in Entries : p.member = Ftp("password") /\ ValueKind(p.member) = "string"
  BY FtpMembers
<1>4. PICK c \in Entries : c.member = Ftp("cypher") /\ ValueKind(c.member) = "enum_cypher_t"
  BY FtpMembers
<1>5. (CHOOSE e \in Entries : e.member = Ftp("cypher")) = c
  BY <1>4, OneEntry
<1>6. \A e \in Entries : Means(s, e)
  BY <1>1 DEF IConfig, IRead
<1>7. mcfg[Ftp("cypher")] = Meaning(s, c) /\ Meaning(s, c) \in {"NONE", "CAESAR", "SUFFIX"}
  <2>1. Fits(Meaning(s, c), c.member)
    BY <1>4 DEF Fits
  <2> QED
    BY <1>2, <1>4, <1>6, <2>1, CypherMeans DEF Means
<1>8. Fits(Meaning(s, p), p.member) => Meaning(s, p) = Null \/ Meaning(s, p) \in Seq(Nat \ {0})
  BY <1>2, <1>3, PasswordMeans
<1>9. Fits(Meaning(s, p), p.member) =>
        Password = Meaning(s, p) \/ (no_memory /\ Password = Null)
  BY <1>3, <1>6 DEF Means, Password
<1>10. IMcfg /\ no_memory' \in BOOLEAN /\ cpc' \in {"loaded", "halted"}
       /\ (cpc' = "halted" => UNCHANGED <<mcfg, no_memory>>)
  BY <1>7 DEF IConfig, IMcfg, Decrypt, SetPassword, DecryptCaesar, Halt, suffix_decrypt
<1>11. CASE cpc' = "halted"
  <2>1. IMcfg' /\ IValues'
    BY <1>10, <1>11 DEF IMcfg, IConfig, IValues
  <2> QED
    BY <1>2, <1>11, <2>1 DEF IConfig, ConfigAsWritten
<1>12. CASE cpc' = "loaded"
  <2> HIDE DEF s
  <2>0. PICK w : w = Meaning(s, p)
    OBVIOUS
  <2>1. Fits(w, p.member) => Decrypts(w, mcfg[Ftp("cypher")])'
    BY <1>7, <1>8, <1>9, <1>10, <1>12, <2>0, DecryptsPassword
  <2>2. /\ no_memory => no_memory'
        /\ DOMAIN mcfg' = Members
        /\ \A m \in Members : m # Ftp("password") => mcfg'[m] = mcfg[m]
    BY <1>7, <1>10, <1>12, DecryptKeeps
  <2>3. Ftp("cypher") \in Members /\ Ftp("cypher") # Ftp("password")
        /\ ValueKind(Ftp("password")) = "string"
    <3>1. Ftp("cypher") \in Members
      BY <1>4, ValueKindIs
    <3> QED
      BY <1>3, <3>1 DEF Ftp
  <2>4. /\ PasswordOf(w, mcfg[Ftp("cypher")])' <=> PasswordOf(Meaning(s, p), Meaning(s, c))'
        /\ w = Meaning(s, p)
    <3>1. mcfg'[Ftp("cypher")] = Meaning(s, c)
      BY <1>7, <2>2, <2>3
    <3>2. s' = s
      BY <1>2 DEF s
    <3> QED
      BY <2>0, <3>1, <3>2 DEF PasswordOf
  <2>5. IMcfg'
    BY <1>10, <2>2 DEF IMcfg
  <2>6. IValues'
    BY <2>2, <2>3 DEF IConfig, IValues
  <2>7. ConfigAsWritten'
    <3> SUFFICES ASSUME NEW e \in Entries
        PROVE  \/ ~Fits(Meaning(s, e), e.member)
               \/ no_memory' /\ ValueKind(e.member) = "string"
                  /\ mcfg'[e.member] \in {Null, Meaning(s, e)}
               \/ IF e.member = Ftp("password")
                  THEN IF Null \in {Meaning(s, e), Password'} \/ Password' = NoSuffixed
                       THEN Meaning(s, e) = Null \/ no_memory'
                       ELSE PasswordOf(Meaning(s, e), Meaning(s, c))'
                  ELSE mcfg'[e.member] = Meaning(s, e)
      BY <1>2, <1>5 DEF ConfigAsWritten, s
    <3>1. CASE e.member = Ftp("password")
      <4>1. e = p
        BY <1>3, <3>1, OneEntry
      <4> QED
        BY <1>3, <2>0, <2>1, <2>4, <4>1 DEF Decrypts, Password
    <3>2. CASE e.member # Ftp("password")
      <4>1. mcfg'[e.member] = mcfg[e.member]
        BY <2>2, <3>2, ValueKindIs
      <4>2. Means(s, e)
        BY <1>6
      <4> QED
        BY <2>2, <3>2, <4>1, <4>2 DEF Means
    <3> QED
      BY <3>1, <3>2
  <2> QED
    BY <1>2, <1>12, <2>5, <2>6, <2>7 DEF IConfig
<1> QED
  BY <1>10, <1>11, <1>12

-----------------------------------------------------------------------------
\* At reset nothing is accepted, and nothing is meant but the zero of each member.
Restarted ==
  /\ cpc = "load" /\ file \in Files
  /\ at = 0 /\ section = "none" /\ members = 0 /\ entry = <<>>
  /\ mcfg = Zero /\ no_memory = FALSE

LEMMA ConfigRestarts == Restarted => IConfig
<1> SUFFICES ASSUME Restarted PROVE IConfig
  OBVIOUS
<1> USE DEF Restarted
<1>1. file \in Seq(Tokens) /\ file \in Files /\ Len(file) \in Nat
  BY FilesAssumption
<1>2. IParser
  BY <1>1 DEF IParser
<1>3. Accepted = <<>>
  BY <1>1, KeptSteps DEF Accepted
<1>4. IPlace
  BY <1>3 DEF IPlace
<1>5. DOMAIN Zero = Members
  BY DEF Zero
<1>6. IMcfg
  BY <1>5 DEF IMcfg
<1>7. ASSUME NEW e \in Entries PROVE Means(Accepted, e)
  <2>1. Accepted \in Seq(Tokens) /\ Len(Accepted) = 0
    BY <1>2, <1>3, AcceptedIs
  <2>2. \A i : i \notin 1 .. Len(Accepted)
    BY <2>1
  <2>3. SetAt(Accepted, e) = {}
    BY <2>1, <2>2, SetAtEnds
  <2>4. Meaning(Accepted, e) = Zero[e.member]
    BY <2>3 DEF Meaning
  <2> QED
    BY <2>4 DEF Means
<1>8. IValues
  <2> SUFFICES ASSUME NEW m \in Members, ValueKind(m) = "integer"
               PROVE  mcfg[m] \in IF m \in Narrow THEN 0 .. Modulus(m) - 1 ELSE 0 .. IntMax
    BY DEF IValues
  <2>1. Zero[m] = 0
    BY DEF Zero
  <2>2. 0 \in 0 .. Modulus(m) - 1 /\ 0 \in 0 .. IntMax
    BY IntAssumption DEF Modulus
  <2> QED
    BY <2>1, <2>2
<1> QED
  BY <1>1, <1>2, <1>4, <1>6, <1>7, <1>8 DEF IConfig, IRead, ConfigAsWritten

LEMMA ValuesStep ==
  ASSUME IConfig, CompleteEntry
  PROVE  IValues'
<1>1. PICK e \in EntriesBegun :
        /\ Phrase = e.shape
        /\ \E value \in Values(at + 1, e.member) : mcfg' = [mcfg EXCEPT ![e.member] = value]
  BY Zenon DEF CompleteEntry
<1>2. PICK value \in Values(at + 1, e.member) : mcfg' = [mcfg EXCEPT ![e.member] = value]
  BY <1>1
<1>3. e \in Entries /\ Len(entry) + 1 = Len(e.shape) /\ e.shape[Len(e.shape)] = file[at + 1].kind
  BY <1>1, PhraseWhole, PhraseIs DEF IConfig, EntriesBegun
<1>4. ValueKind(e.member) = file[at + 1].kind /\ e.member \in Members
  BY <1>3, ValueKindIs
<1>5. file[at + 1] \in Tokens
  BY DEF CompleteEntry, Parsing, IConfig, IParser
<1>6. ValueKind(e.member) = "integer" =>
        value \in IF e.member \in Narrow THEN 0 .. Modulus(e.member) - 1 ELSE 0 .. IntMax
  <2> SUFFICES ASSUME file[at + 1].kind = "integer"
               PROVE  value \in IF e.member \in Narrow THEN 0 .. Modulus(e.member) - 1 ELSE 0 .. IntMax
    BY <1>4
  <2>1. value = Cut(atoi(file[at + 1].int), e.member)
    BY <1>2 DEF Values
  <2>2. PICK n \in 0 .. IntMax : n = atoi(file[at + 1].int)
    BY <1>5, IntAssumption DEF Tokens, atoi
  <2>3. CASE e.member \notin Narrow
    BY <2>1, <2>2, <2>3 DEF Cut
  <2>4. CASE e.member \in Narrow
    <3>1. PICK b \in Nat \ {0} : b = Modulus(e.member)
      BY DEF Modulus
    <3>2. n % b \in 0 .. b - 1
      OBVIOUS
    <3> QED
      BY <2>1, <2>2, <2>4, <3>1, <3>2 DEF Cut
  <2> QED
    BY <2>3, <2>4
<1> QED
  BY <1>2, <1>4, <1>6 DEF IConfig, IValues, IMcfg

LEMMA ConfigStep ==
  ASSUME IConfig, Load
  PROVE  IConfig'
<1> USE DEF parserVars
<1>1. ASSUME UNCHANGED <<file, at, section, members, entry, mcfg, no_memory>>
      PROVE  /\ file' \in Files /\ IParser' /\ IPlace' /\ IMcfg' /\ IValues' /\ (IRead => IRead')
  <2>1. Accepted' = Accepted
    BY <1>1 DEF Accepted
  <2>2. IParser' /\ IMcfg' /\ IValues'
    BY <1>1 DEF IConfig, IParser, IMcfg, IValues
  <2>3. IPlace'
    BY <1>1, <2>1 DEF IConfig, IPlace, Place
  <2>4. IRead => IRead'
    BY <1>1, <2>1 DEF IRead, Means
  <2> QED
    BY <1>1, <2>2, <2>3, <2>4 DEF IConfig
<1>2. ASSUME cpc = "parse", IParse', IValues', Read PROVE IConfig'
  BY <1>2 DEF IConfig, IParse, Read, ConfigAsWritten
<1>3. cpc = "parse" => IParse
  BY DEF IConfig, IParse
<1>4. CASE ConfigUnread
  BY <1>1, <1>4 DEF ConfigUnread, IConfig, ConfigAsWritten
<1>5. CASE ConfigRead
  BY <1>1, <1>5 DEF ConfigRead, IConfig, ConfigAsWritten
<1>6. CASE SkipToken
  <2>1. cpc = "parse" /\ Read /\ UNCHANGED mcfg
    BY <1>6 DEF SkipToken, Parsing
  <2>2. IValues'
    BY <2>1 DEF IConfig, IValues
  <2> QED
    BY <1>2, <1>3, <1>6, <2>1, <2>2, SkipStep
<1>7. CASE BeginSection
  <2>1. cpc = "parse" /\ Read /\ UNCHANGED mcfg
    BY <1>7 DEF BeginSection, Parsing
  <2>2. IValues'
    BY <2>1 DEF IConfig, IValues
  <2> QED
    BY <1>2, <1>3, <1>7, <2>1, <2>2, BeginStep
<1>8. CASE ShiftToken
  <2>1. cpc = "parse" /\ Read /\ UNCHANGED mcfg
    BY <1>8 DEF ShiftToken, Parsing
  <2>2. IValues'
    BY <2>1 DEF IConfig, IValues
  <2> QED
    BY <1>2, <1>3, <1>8, <2>1, <2>2, ShiftStep
<1>9. CASE CompleteEntry
  <2>1. cpc = "parse" /\ Read
    BY <1>9 DEF CompleteEntry, Parsing
  <2> QED
    BY <1>2, <1>3, <1>9, <2>1, CompleteStep, ValuesStep
<1>10. CASE SyntaxError
  BY <1>1, <1>10 DEF SyntaxError, Parsing, IConfig, ConfigAsWritten
<1>11. CASE EndOfFile
  BY <1>1, <1>11 DEF EndOfFile, IConfig, ConfigAsWritten
<1>12. CASE Decrypt
  BY <1>12, DecryptStep
<1>13. CASE StringFault
  BY <1>1, <1>13 DEF StringFault, IConfig, ConfigAsWritten
<1> QED
  BY <1>4, <1>5, <1>6, <1>7, <1>8, <1>9, <1>10, <1>11, <1>12, <1>13 DEF Load

LEMMA ConfigTypes ==
  ASSUME IConfig
  PROVE  ConfigTypeOK
<1>1. members \in 0 .. Len(file)
  BY DEF IConfig, IParser
<1> QED
  BY <1>1 DEF IConfig, IParser, IMcfg, IValues, ConfigTypeOK

-----------------------------------------------------------------------------
(* The clock: types *)

USE DEF Go, storageVars, lineVars, historyVars, clockVars, restVars, SetBySetup

\* A clock is no further ahead than the time it was set from, and what has passed since;
\* only the empty file of an interrupted write is taken for one with a time.
IType ==
  /\ TypeOK
  /\ clock # NoTime => clock <= realTime + MaxTime
  /\ pc = "setSd" => statusFile = "empty"

LEMMA StepCases ==
  ASSUME [Next]_vars
  PROVE  \/ Registered \/ NotRegistered \/ WaitEnds \/ RegisterHandler \/ TrySd
         \/ LoadSd \/ SetSd \/ LabelSd \/ TryDefault \/ SetDefault \/ LabelDefault \/ FinalCheck
         \/ StartCapture \/ MoveImage \/ OpenStatus \/ WriteStatus
         \/ Requery \/ TimeObtained \/ ObtainedHandler \/ TimeNotObtained
         \/ Tick \/ PowerLoss \/ UNCHANGED vars
BY DEF Next, Setup, Capture, Network

LEMMA TypeStep ==
  ASSUME IType, [Next]_vars, pc \in RunSteps => Valid
  PROVE  IType'
<1> USE TimeAssumption, BootsAssumption
        DEF IType, TypeOK, Times, ClockTimes, SetupSteps, RunSteps, Sources, Valid
<1>1. CASE Registered
  BY <1>1 DEF Registered
<1>2. CASE NotRegistered
  BY <1>2 DEF NotRegistered
<1>3. CASE WaitEnds
  BY <1>3 DEF WaitEnds
<1>4. CASE RegisterHandler
  BY <1>4 DEF RegisterHandler
<1>5. CASE TrySd
  BY <1>5 DEF TrySd
<1>6. CASE LoadSd
  <2>1. pc' = "setSd" => statusFile = "empty"
    BY <1>6 DEF LoadSd, LoadResults
  <2> QED
    BY <1>6, <2>1 DEF LoadSd
<1>7. CASE SetSd
  BY <1>7 DEF SetSd
<1>8. CASE LabelSd
  BY <1>8 DEF LabelSd
<1>9. CASE TryDefault
  BY <1>9 DEF TryDefault
<1>10. CASE SetDefault
  BY <1>10 DEF SetDefault, Epoch
<1>11. CASE LabelDefault
  BY <1>11 DEF LabelDefault
<1>12. CASE FinalCheck
  BY <1>12 DEF FinalCheck
<1>13. CASE StartCapture
  BY <1>13 DEF StartCapture
<1>14. CASE MoveImage
  BY <1>14 DEF MoveImage
<1>15. CASE OpenStatus
  BY <1>15 DEF OpenStatus
<1>16. CASE WriteStatus
  BY <1>16 DEF WriteStatus, StatusLine
<1>17. CASE Requery
  BY <1>17 DEF Requery
<1>18. CASE TimeObtained
  <2>1. clock' = realTime /\ realTime' = realTime /\ realTime \in 0 .. MaxTime
    BY <1>18 DEF TimeObtained
  <2>2. clock' \in 0 .. 2 * MaxTime /\ clock' <= realTime' + MaxTime
    BY <2>1
  <2>3. /\ pending' = FALSE /\ answered' = TRUE
        /\ UNCHANGED <<realTime, pc, time_src, handlerOn, restVars>>
    BY <1>18 DEF TimeObtained
  <2>4. pending' \in BOOLEAN /\ answered' \in BOOLEAN
    BY <2>3
  <2>5. UNCHANGED <<realTime, pc, time_src, handlerOn, restVars>>
    BY <2>3
  <2> QED
    BY <2>2, <2>4, <2>5
<1>19. CASE TimeNotObtained
  <2>1. time_src' \in Sources
    BY <1>19 DEF TimeNotObtained
  <2>2. /\ pending' = FALSE
        /\ UNCHANGED <<realTime, pc, clock, answered, handlerOn, restVars>>
    BY <1>19 DEF TimeNotObtained
  <2>3. pending' \in BOOLEAN /\ answered' \in BOOLEAN
    BY <2>2
  <2>4. UNCHANGED <<realTime, pc, clock, handlerOn, restVars>>
    BY <2>2
  <2> QED
    BY <2>1, <2>3, <2>4
<1>20. CASE Tick
  BY <1>20 DEF Tick
<1>21. CASE PowerLoss
  <2>1. clock' = NoTime /\ boots' \in 0 .. MaxBoots /\ realTime' \in 0 .. MaxTime
    BY <1>21 DEF PowerLoss
  <2>2. /\ pc' = "register" /\ time_src' = "NO_TIME" /\ takenSrc' = "NO_TIME"
        /\ pending' = FALSE /\ answered' = FALSE /\ handlerOn' = FALSE /\ undone' = FALSE
        /\ misdated' = 0 /\ time_wall' = 0 /\ takenAt' = 0
        /\ UNCHANGED <<storageVars, overwritten, everOffline>>
    BY <1>21 DEF PowerLoss
  <2>3. 0 \in 0 .. MaxTime /\ 0 \in 0 .. 2 * MaxTime /\ 0 \in Nat
    OBVIOUS
  <2> QED
    BY <2>1, <2>2, <2>3
<1>22. CASE UNCHANGED vars
  BY <1>22 DEF vars
<1>23. CASE ObtainedHandler
  <2>1. time_src' \in Sources
    BY <1>23 DEF ObtainedHandler
  <2>2. /\ answered' = FALSE
        /\ UNCHANGED <<realTime, pc, clock, pending, handlerOn, restVars>>
    BY <1>23 DEF ObtainedHandler
  <2>3. pending' \in BOOLEAN /\ answered' \in BOOLEAN
    BY <2>2
  <2>4. UNCHANGED <<realTime, pc, clock, handlerOn, restVars>>
    BY <2>2
  <2> QED
    BY <2>1, <2>3, <2>4
<1> QED
  BY <1>1, <1>2, <1>3, <1>4, <1>5, <1>6, <1>7, <1>8, <1>9, <1>10, <1>11, <1>12, <1>13, <1>14,
     <1>15, <1>16, <1>17, <1>18, <1>19, <1>20, <1>21, <1>22, <1>23, StepCases

-----------------------------------------------------------------------------
(* A valid time *)

\* Once the default is set, and where the last check finds it, there is a time.
IValid == pc # "halted" /\ (pc \in RunSteps \union {"labelDefault", "final"} => Valid)

LEMMA ValidStep ==
  ASSUME IType, IValid, [Next]_vars
  PROVE  IValid'
<1> USE TimeAssumption DEF IType, TypeOK, Times, IValid, RunSteps, SetupSteps, Valid
<1>1. CASE Registered
  BY <1>1 DEF Registered
<1>2. CASE NotRegistered
  BY <1>2 DEF NotRegistered
<1>3. CASE WaitEnds
  BY <1>3 DEF WaitEnds
<1>4. CASE RegisterHandler
  BY <1>4 DEF RegisterHandler
<1>5. CASE TrySd
  BY <1>5 DEF TrySd
<1>6. CASE LoadSd
  BY <1>6 DEF LoadSd, LoadResults
<1>7. CASE SetSd
  BY <1>7 DEF SetSd
<1>8. CASE LabelSd
  BY <1>8 DEF LabelSd
<1>9. CASE TryDefault
  BY <1>9 DEF TryDefault
<1>10. CASE SetDefault
  BY <1>10 DEF SetDefault, Epoch
<1>11. CASE LabelDefault
  BY <1>11 DEF LabelDefault
<1>12. CASE FinalCheck
  BY <1>12 DEF FinalCheck
<1>13. CASE StartCapture
  BY <1>13 DEF StartCapture
<1>14. CASE MoveImage
  BY <1>14 DEF MoveImage
<1>15. CASE OpenStatus
  BY <1>15 DEF OpenStatus
<1>16. CASE WriteStatus
  BY <1>16 DEF WriteStatus, StatusLine
<1>17. CASE Requery
  BY <1>17 DEF Requery
<1>18. CASE TimeObtained
  BY <1>18 DEF TimeObtained
<1>19. CASE TimeNotObtained
  BY <1>19 DEF TimeNotObtained
<1>20. CASE Tick
  BY <1>20 DEF Tick
<1>21. CASE PowerLoss
  BY <1>21 DEF PowerLoss
<1>22. CASE UNCHANGED vars
  BY <1>22 DEF vars
<1>23. CASE ObtainedHandler
  BY <1>23 DEF ObtainedHandler
<1> QED
  BY <1>1, <1>2, <1>3, <1>4, <1>5, <1>6, <1>7, <1>8, <1>9, <1>10, <1>11, <1>12, <1>13, <1>14,
     <1>15, <1>16, <1>17, <1>18, <1>19, <1>20, <1>21, <1>22, <1>23, StepCases

-----------------------------------------------------------------------------
(* The label of the clock *)

\* Until the card is asked, only the network sets the clock.  A clock that is not the
\* network's is not labelled so, but between the setting of it and its own label.
BeforeCard == {"register", "wait", "handler", "trySd", "loadSd", "setSd"}
ILabel ==
  /\ pc \in BeforeCard => clock \in {NoTime, realTime}
  /\ ~undone =>
       /\ answered => clock = realTime
       /\ clock \notin {NoTime, realTime} /\ pc \notin {"labelSd", "labelDefault"} =>
            time_src # "NETWORK_TIME"

LEMMA LabelStep ==
  ASSUME IType, ILabel, [Next]_vars
  PROVE  ILabel'
<1> USE TimeAssumption DEF IType, TypeOK, Times, ClockTimes, ILabel, BeforeCard, RunSteps, Valid
<1>1. CASE Registered
  BY <1>1 DEF Registered
<1>2. CASE NotRegistered
  BY <1>2 DEF NotRegistered
<1>3. CASE WaitEnds
  BY <1>3 DEF WaitEnds
<1>4. CASE RegisterHandler
  BY <1>4 DEF RegisterHandler
<1>5. CASE TrySd
  BY <1>5 DEF TrySd
<1>6. CASE LoadSd
  BY <1>6 DEF LoadSd, LoadResults
<1>7. CASE SetSd
  BY <1>7 DEF SetSd
<1>8. CASE LabelSd
  BY <1>8 DEF LabelSd
<1>9. CASE TryDefault
  BY <1>9 DEF TryDefault
<1>10. CASE SetDefault
  BY <1>10 DEF SetDefault, Epoch
<1>11. CASE LabelDefault
  BY <1>11 DEF LabelDefault
<1>12. CASE FinalCheck
  BY <1>12 DEF FinalCheck
<1>13. CASE StartCapture
  BY <1>13 DEF StartCapture
<1>14. CASE MoveImage
  BY <1>14 DEF MoveImage
<1>15. CASE OpenStatus
  BY <1>15 DEF OpenStatus
<1>16. CASE WriteStatus
  BY <1>16 DEF WriteStatus, StatusLine
<1>17. CASE Requery
  BY <1>17 DEF Requery
<1>18. CASE TimeObtained
  BY <1>18 DEF TimeObtained
<1>19. CASE TimeNotObtained
  BY <1>19 DEF TimeNotObtained
<1>20. CASE Tick
  BY <1>20 DEF Tick
<1>21. CASE PowerLoss
  BY <1>21 DEF PowerLoss
<1>22. CASE UNCHANGED vars
  BY <1>22 DEF vars
<1>23. CASE ObtainedHandler
  BY <1>23 DEF ObtainedHandler
<1> QED
  BY <1>1, <1>2, <1>3, <1>4, <1>5, <1>6, <1>7, <1>8, <1>9, <1>10, <1>11, <1>12, <1>13, <1>14,
     <1>15, <1>16, <1>17, <1>18, <1>19, <1>20, <1>21, <1>22, <1>23, StepCases

-----------------------------------------------------------------------------
(* The status lines *)

\* From the first misdated line on the clock is the network's, and so is the time of every
\* capture that begins; it is, too, where the label said so when the time was taken.
ILines ==
  ~undone =>
    /\ misdated <= 1
    /\ misdated > 0 => pc \in RunSteps /\ clock = realTime
    /\ pc \in {"image", "status", "line"} /\ (misdated > 0 \/ takenSrc = "NETWORK_TIME") =>
         time_wall = takenAt
    /\ pc = "sleep" /\ statusSrc = "NETWORK_TIME" /\ takenSrc = "NETWORK_TIME" =>
         statusTime = takenAt

LEMMA LinesStep ==
  ASSUME IType, IValid, ILabel, ILines, [Next]_vars
  PROVE  ILines'
<1> USE TimeAssumption
        DEF IType, TypeOK, Times, ClockTimes, IValid, ILabel, ILines, RunSteps, SetupSteps, Valid
<1>1. CASE Registered
  BY <1>1 DEF Registered
<1>2. CASE NotRegistered
  BY <1>2 DEF NotRegistered
<1>3. CASE WaitEnds
  BY <1>3 DEF WaitEnds
<1>4. CASE RegisterHandler
  BY <1>4 DEF RegisterHandler
<1>5. CASE TrySd
  BY <1>5 DEF TrySd
<1>6. CASE LoadSd
  BY <1>6 DEF LoadSd, LoadResults
<1>7. CASE SetSd
  BY <1>7 DEF SetSd
<1>8. CASE LabelSd
  BY <1>8 DEF LabelSd
<1>9. CASE TryDefault
  BY <1>9 DEF TryDefault
<1>10. CASE SetDefault
  BY <1>10 DEF SetDefault
<1>11. CASE LabelDefault
  BY <1>11 DEF LabelDefault
<1>12. CASE FinalCheck
  BY <1>12 DEF FinalCheck
<1>13. CASE StartCapture
  BY <1>13 DEF StartCapture
<1>14. CASE MoveImage
  BY <1>14 DEF MoveImage
<1>15. CASE OpenStatus
  BY <1>15 DEF OpenStatus
<1>16. CASE WriteStatus
  BY <1>16 DEF WriteStatus, StatusLine
<1>17. CASE Requery
  BY <1>17 DEF Requery
<1>18. CASE TimeObtained
  BY <1>18 DEF TimeObtained
<1>19. CASE TimeNotObtained
  BY <1>19 DEF TimeNotObtained
<1>20. CASE Tick
  BY <1>20 DEF Tick
<1>21. CASE PowerLoss
  BY <1>21 DEF PowerLoss
<1>22. CASE UNCHANGED vars
  BY <1>22 DEF vars
<1>23. CASE ObtainedHandler
  BY <1>23 DEF ObtainedHandler
<1> QED
  BY <1>1, <1>2, <1>3, <1>4, <1>5, <1>6, <1>7, <1>8, <1>9, <1>10, <1>11, <1>12, <1>13, <1>14,
     <1>15, <1>16, <1>17, <1>18, <1>19, <1>20, <1>21, <1>22, <1>23, StepCases

-----------------------------------------------------------------------------
(* The images on the card *)

\* As long as each was named by the network's time, all are of the past, at the latest of
\* the present one after which capture_f sleeps.
IImages ==
  ~everOffline =>
    /\ ~overwritten
    /\ pc \in SetupSteps \union {"idle"} => \A t \in images : t < realTime
    /\ pc = "image" => time_wall <= realTime /\ \A t \in images : t < time_wall
    /\ pc \in {"status", "line", "sleep"} => \A t \in images : t <= realTime

LEMMA ImagesStep ==
  ASSUME IType, IValid, IImages, [Next]_vars
  PROVE  IImages'
<1> USE TimeAssumption
        DEF IType, TypeOK, Times, ClockTimes, IValid, IImages, RunSteps, SetupSteps, Valid
<1>1. CASE Registered
  BY <1>1 DEF Registered
<1>2. CASE NotRegistered
  BY <1>2 DEF NotRegistered
<1>3. CASE WaitEnds
  BY <1>3 DEF WaitEnds
<1>4. CASE RegisterHandler
  BY <1>4 DEF RegisterHandler
<1>5. CASE TrySd
  BY <1>5 DEF TrySd
<1>6. CASE LoadSd
  BY <1>6 DEF LoadSd, LoadResults
<1>7. CASE SetSd
  BY <1>7 DEF SetSd
<1>8. CASE LabelSd
  BY <1>8 DEF LabelSd
<1>9. CASE TryDefault
  BY <1>9 DEF TryDefault
<1>10. CASE SetDefault
  BY <1>10 DEF SetDefault, Epoch
<1>11. CASE LabelDefault
  BY <1>11 DEF LabelDefault
<1>12. CASE FinalCheck
  BY <1>12 DEF FinalCheck
<1>13. CASE StartCapture
  <2>1. pc = "idle" /\ pc' = "image" /\ UNCHANGED <<realTime, images, overwritten>>
        /\ time_wall' = clock
    BY <1>13 DEF StartCapture
  <2>2. ASSUME ~everOffline' PROVE ~everOffline /\ clock = realTime
    BY <1>13, <2>2 DEF StartCapture
  <2>3. realTime \in Int
    OBVIOUS
  <2> QED
    BY <2>1, <2>2, <2>3
<1>14. CASE MoveImage
  BY <1>14 DEF MoveImage
<1>15. CASE OpenStatus
  BY <1>15 DEF OpenStatus
<1>16. CASE WriteStatus
  BY <1>16 DEF WriteStatus, StatusLine
<1>17. CASE Requery
  BY <1>17 DEF Requery
<1>18. CASE TimeObtained
  BY <1>18 DEF TimeObtained
<1>19. CASE TimeNotObtained
  BY <1>19 DEF TimeNotObtained
<1>20. CASE Tick
  BY <1>20 DEF Tick
<1>21. CASE PowerLoss
  BY <1>21 DEF PowerLoss
<1>22. CASE UNCHANGED vars
  BY <1>22 DEF vars
<1>23. CASE ObtainedHandler
  BY <1>23 DEF ObtainedHandler
<1> QED
  BY <1>1, <1>2, <1>3, <1>4, <1>5, <1>6, <1>7, <1>8, <1>9, <1>10, <1>11, <1>12, <1>13, <1>14,
     <1>15, <1>16, <1>17, <1>18, <1>19, <1>20, <1>21, <1>22, <1>23, StepCases

-----------------------------------------------------------------------------
(* The theorems, of the clock and of a camera that loads its configuration first *)

IClock == IType /\ IValid /\ ILabel /\ ILines /\ IImages

LEMMA ClockInvariant == Spec => []IClock
<1>1. Init => IClock
  <2> SUFFICES ASSUME Init PROVE IClock
    OBVIOUS
  <2> USE TimeAssumption, BootsAssumption DEF Init
  <2>1. IType
    <3>1. realTime \in Times /\ time_wall \in ClockTimes /\ boots \in 0 .. MaxBoots
      BY DEF Times, ClockTimes
    <3>2. pc \in SetupSteps /\ time_src \in Sources /\ clock \in ClockTimes \union {NoTime}
      BY DEF SetupSteps, Sources
    <3>3. images \subseteq ClockTimes /\ statusTime \in ClockTimes \union {NoTime}
      OBVIOUS
    <3>4. clock # NoTime => clock <= realTime + MaxTime
      OBVIOUS
    <3>5. statusSrc \in Sources /\ takenSrc \in Sources /\ takenAt \in Times /\ misdated \in Nat
      BY DEF Sources, Times
    <3> QED
      BY <3>1, <3>2, <3>3, <3>4, <3>5 DEF IType, TypeOK
  <2>2. IValid /\ ILabel /\ ILines
    BY DEF IValid, ILabel, ILines, RunSteps, Valid
  <2>3. IImages
    BY DEF IImages, SetupSteps
  <2> QED
    BY <2>1, <2>2, <2>3 DEF IClock
<1>2. IClock /\ [Next]_vars => IClock'
  <2> SUFFICES ASSUME IClock, [Next]_vars PROVE IClock'
    OBVIOUS
  <2>1. IType'
    BY TypeStep DEF IClock, IValid
  <2>2. IValid' /\ ILabel' /\ ILines' /\ IImages'
    BY ValidStep, LabelStep, LinesStep, ImagesStep DEF IClock
  <2> QED
    BY <2>1, <2>2 DEF IClock
<1> QED
  BY <1>1, <1>2, PTL DEF Spec

\* Whatever config.txt holds, and however often its reading is cut short by a power loss,
\* the camera's clock behaves as BootClock has it: the configuration only takes away the
\* network, and steps of the parser are none of the clock's.
THEOREM BootImplementsClock == BootSpec => Spec
<1>1. BootInit => Init
  BY DEF BootInit
<1>2. [BootNext]_bootVars => [Next]_vars
  BY DEF BootNext, bootVars, LoadConfig, RunConfigured, Reset, Next
<1> QED
  BY <1>1, <1>2, PTL DEF BootSpec, Spec

\* setup() never halts for want of a time, and captures have one (main.c:478-482).
THEOREM SetupFindsATime == BootSpec => []NeverHalts
<1>1. IClock => NeverHalts
  BY DEF IClock, IValid, NeverHalts
<1> QED
  BY <1>1, ClockInvariant, BootImplementsClock, PTL

\* A status line whose time and label were both the network's has the true time of its
\* capture, though the answer may come between any two calls of setup() and of capture_f;
\* and no more than one line of a boot says NETWORK_TIME of another time, for any number of
\* captures (main.c:261-264, util.c:82), but in boots where setup() undid an answer.
THEOREM NetworkTimeIsTrue == BootSpec => []NetworkLabelHonest
<1>1. IClock => NetworkLabelHonest
  BY DEF IClock, ILines, NetworkLabelHonest
<1> QED
  BY <1>1, ClockInvariant, BootImplementsClock, PTL

\* Images are replaced only after one was named by another clock than the network's.
THEOREM ImagesAreKept == BootSpec => []OverwritesOnlyOffline
<1>1. IClock => OverwritesOnlyOffline
  BY DEF IClock, IImages, OverwritesOnlyOffline
<1> QED
  BY <1>1, ClockInvariant, BootImplementsClock, PTL

-----------------------------------------------------------------------------
(* The theorems of the configuration *)

LEMMA ConfigInvariant == BootSpec => []IConfig
<1>1. BootInit => IConfig
  <2>1. BootInit => Restarted
    BY DEF BootInit, ConfigInit, Restarted
  <2> QED
    BY <2>1, ConfigRestarts
<1>2. IConfig /\ [BootNext]_bootVars => IConfig'
  <2> SUFFICES ASSUME IConfig, [BootNext]_bootVars PROVE IConfig'
    OBVIOUS
  <2>1. CASE LoadConfig
    BY <2>1, ConfigStep DEF LoadConfig
  <2>2. CASE RunConfigured \/ UNCHANGED bootVars
    <3>1. UNCHANGED <<cpc, file, at, section, members, entry, mcfg, no_memory>>
      BY <2>2 DEF RunConfigured, bootVars, configVars, parserVars
    <3>2. Accepted' = Accepted /\ Password' = Password
      BY <3>1 DEF Accepted, Password
    <3>3. IParser' /\ IPlace' /\ IMcfg' /\ IValues'
      BY <3>1, <3>2 DEF IConfig, IParser, IPlace, Place, IMcfg, IValues
    <3>4. IRead => IRead'
      BY <3>1, <3>2 DEF IRead, Means
    <3>5. ConfigAsWritten'
      BY <3>1, <3>2 DEF IConfig, ConfigAsWritten, PasswordOf
    <3> QED
      BY <3>1, <3>3, <3>4, <3>5 DEF IConfig
  <2>3. CASE Reset
    <3>1. file' \in Files
      BY <2>3 DEF Reset, IConfig
    <3>2. Restarted'
      BY <2>3, <3>1 DEF Reset, Restarted
    <3> QED
      BY <3>2, ConfigRestarts, PTL
  <2> QED
    BY <2>1, <2>2, <2>3 DEF BootNext
<1> QED
  BY <1>1, <1>2, PTL DEF BootSpec

\* Whatever config.txt holds, and whenever the power was lost before, a camera that has
\* loaded its configuration has each value as the file says it, where it is a number that
\* fits its member and an int or a string without a 0 (config.y:112-184, sd.c:193-240).
THEOREM ConfigIsAsWritten == BootSpec => []ConfigAsWritten
<1>1. IConfig => ConfigAsWritten
  BY DEF IConfig
<1> QED
  BY <1>1, ConfigInvariant, PTL

\* The parser and the clock keep their types, and each integer of mcfg its width.
THEOREM BootTypeCorrect == BootSpec => []BootTypeOK
<1>1. IConfig => ConfigTypeOK
  BY ConfigTypes
<1>2. IClock => TypeOK
  BY DEF IClock, IType
<1> QED
  BY <1>1, <1>2, ConfigInvariant, ClockInvariant, BootImplementsClock, PTL DEF BootTypeOK
=============================================================================
