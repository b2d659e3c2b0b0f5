-------------------------------- MODULE Boot --------------------------------
(***************************************************************************)
(* From reset to captures (main.c:413-479): setup() loads config.txt, and  *)
(* what it says of the upload decides whether the clock of BootClock asks  *)
(* the network.  A power loss, at any point of the parser too, starts over *)
(* with a zero mcfg and the same card.                                     *)
(***************************************************************************)
EXTENDS BootClock, Configuration

CONSTANT BootFiles   \* bound: the files with which setup() goes on past the configuration

bootVars == <<vars, configVars>>

BootInit == Init /\ ConfigInit

LoadConfig == Load /\ UNCHANGED vars

\* A camera without the paths of its card, for want of memory, is not gone on with.
Configured == cpc = "loaded" /\ file \in BootFiles /\ ~no_memory

\* logging_decimation_ftp is taken as an int; the network is only asked where it is above 0.
RunConfigured ==
  /\ Configured
  /\ Setup \/ Capture \/ Network \/ Tick
  /\ Registered => mcfg[<<"trigger_config_t", "logging_decimation_ftp">>] > 0
  /\ UNCHANGED configVars

Reset ==
  /\ file \in BootFiles
  /\ PowerLoss
  /\ cpc' = "load"
  /\ at' = 0 /\ section' = "none" /\ members' = 0 /\ entry' = <<>>
  /\ mcfg' = Zero
  /\ no_memory' = FALSE
  /\ UNCHANGED file

BootNext == LoadConfig \/ RunConfigured \/ Reset

BootSpec == BootInit /\ [][BootNext]_bootVars

-----------------------------------------------------------------------------
BootTypeOK == TypeOK /\ ConfigTypeOK
=============================================================================
