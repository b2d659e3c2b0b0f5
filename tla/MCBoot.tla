------------------------------- MODULE MCBoot -------------------------------
(* Boot with the files of config.txt's form that the parser may meet. *)
EXTENDS Boot

Section(name) == <<Tk(name)>>
IntLine(type, name, n) == <<Tk(type), Tk(name), Tk("="), Int_(n)>>
StrLine(name, s) == <<Tk("char*"), Tk(name), Tk("="), Str(s)>>
EnumLine(type, name, value) ==
  <<Tk("enum"), Tk(type), Tk(name), Tk("="), Enum("enum_" \o type, value)>>

Cypher(name) == EnumLine("cypher_t", "cypher", name)
PasswordLine(s) == StrLine("password", s)

Word == <<98, 111, 32, 200>>                 \* two letters, a space, one beyond ASCII
AllPrintable == [i \in 1 .. 94 |-> i + 32]

Decimation(n) == Section("trigger_config_t") \o IntLine("uint32_t", "logging_decimation_ftp", n)
Card == Section("sd_config_t") \o StrLine("image_path", <<115>>) \o StrLine("status_path", <<116>>)

FilesGoneOnWith == {Card \o Decimation(0), Decimation(1) \o Card}

\* The password before, after or without its cypher, repeated, or with none to decrypt.
PasswordFiles ==
  {Section("ftp_config_t") \o lines :
     lines \in UNION {{PasswordLine(s) \o Cypher(name), Cypher(name) \o PasswordLine(s),
                       Cypher("NONE") \o PasswordLine(s) \o Cypher(name)} :
                        name \in {"NONE", "CAESAR", "SUFFIX"}, s \in {Word, AllPrintable}}}
  \union {Section("ftp_config_t") \o PasswordLine(Word) \o PasswordLine(<<>>),
          Section("ftp_config_t") \o Cypher("CAESAR"),
          Section("ftp_config_t") \o Cypher("SUFFIX")}

\* The same name in two sections, one of them twice, in any order.
Paths(where, s) == Section(where) \o StrLine("image_path", s)
PathFiles ==
  {Paths(a[1], <<1>>) \o Paths(a[2], <<2>>) \o Paths(a[3], <<3>>) :
     a \in {<<"ftp_config_t", "sd_config_t", "ftp_config_t">>,
            <<"sd_config_t", "ftp_config_t", "sd_config_t">>,
            <<"sd_config_t", "sd_config_t", "ftp_config_t">>}}

Gain == <<Tk("gain_t"), Tk("gain")>>
Mantissa(n) == IntLine("uint8_t", "mantissa", n)
ImageFile ==
  Section("image_config_t") \o IntLine("uint16_t", "exposure", 65537)
  \o <<Tk("aec_t"), Tk("aec"), Tk("="), Enum("enum_aec_t", "AEC_ON"), Tk("comment")>>
  \o Gain \o Mantissa(271) \o IntLine("uint8_t", "exponent", 6)
  \o EnumLine("image_resolution", "resolution", "QVGA")
  \o <<Tk("agc_t"), Tk("agc"), Tk("unexpected"), Tk("="), Enum("enum_agc_t", "AGC_ON")>>
  \o Gain \o Mantissa(3)
  \o EnumLine("image_format", "format", "JPG")
  \o EnumLine("flash_t", "flash", "NO_FLASH")
  \o IntLine("uint32_t", "use_flash", 1) \o IntLine("uint32_t", "auto_range_time", 10000)
OtherFile ==
  Decimation(1) \o EnumLine("trigger_t", "trigger", "UART_TRIGGER")
  \o IntLine("uint8_t", "dark_noup", 256)
  \o IntLine("uint32_t", "logging_interval", IntMax + 1)
  \o IntLine("uint32_t", "network_interval", 120000)
  \o StrLine("network_domain", <<1>>) \o StrLine("network_site", <<2>>)
  \o Section("sd_config_t") \o IntLine("uint32_t", "logging_level", 4)
  \o Section("ftp_config_t") \o StrLine("username", <<3>>) \o StrLine("domain", <<4>>)

\* Files with an error: cut short anywhere, or with any one token left out.
Whole == ImageFile \o OtherFile
Cuts == {SubSeq(Whole, 1, n) : n \in 0 .. Len(Whole)}
Gaps == {RemoveAt(Whole, n) : n \in DOMAIN Whole}

\* A string with a character 0 in it, and a member after it.
NulFiles == {StrLine("apn", s) \o Cypher("SUFFIX") : s \in {<<0>>, <<49, 0>>, <<49, 50, 0, 51, 0>>}}
            \union {PasswordLine(<<98, 111, 0, 115>>) \o Cypher("CAESAR")}

AllFiles == FilesGoneOnWith \union {Section("ftp_config_t") \o lines : lines \in NulFiles}
            \union PasswordFiles \union PathFiles \union Cuts \union Gaps
=============================================================================
