--------------------------- MODULE ModemRegister ---------------------------
(***************************************************************************)
(* modem_network_register (modem.c:317-428) and what its callers do about  *)
(* its result (main.c:311-317, 345): the networks it tries in turn, the    *)
(* forced search made once per boot, and the radio, which                  *)
(* modem_network_deregister turns off after a failed upload.               *)
(*                                                                         *)
(* The modem works by itself: it registers to the network AT+COPS asked    *)
(* for, or any if it asked for none, whenever there is coverage, also      *)
(* after modem_wait_registration has given up.  A SIM failure (status 90)  *)
(* lasts until the radio is turned on again.                               *)
(*                                                                         *)
(* A command is done (result 0), answered with ERROR (positive), or fails  *)
(* (negative); ret keeps of a result only whether it is -1, 0 or 1.        *)
(***************************************************************************)
EXTENDS Integers, Sequences, SequencesExt

CONSTANTS Networks,        \* the MCCMNCs there are
          ConfigNetwork,   \* ftp_cfg.mccmnc
          Signals,         \* rsrq values
          MAX_OPERATORS,
          MaxFaults        \* bound: failures and changes of coverage

ASSUME NetworksAssumption ==
  IsFiniteSet(Networks) /\ ConfigNetwork \in Networks /\ MAX_OPERATORS \in Nat \ {0}
ASSUME SignalsAssumption == Signals \subseteq 0 .. 254 /\ MaxFaults \in Nat

AnyNetwork == "auto"     \* no network: AT+COPS=0
NoNetwork == "none"
Unknown == 255     \* rsrq, or rsrp, not known or not detectable

VARIABLES
  caller,     \* who called: "setup", "upload", "poll"
  pc,         \* the next command, "done" with ret, "idle" between calls
  attempt,    \* "last", "config", "auto", "search", "try"
  index,      \* i of the loops over operators
  ret,
  mccmnc, network_searched,              \* of status_g
  operators,                             \* <<[mccmnc, rsrq], ...>>
  modeSet, radio, cops, serving, simOk,  \* the modem
  coverage, faults,
  \* history, read by no step
  seen,       \* this call has seen the modem registered
  tried       \* the operators this call has tried in order of signal

callVars == <<caller, ret, seen>>
tableVars == <<network_searched, operators>>
modemVars == <<modeSet, radio, cops, serving, simOk>>
loopVars == <<attempt, index, tried>>
vars == <<pc, callVars, mccmnc, tableVars, modemVars, loopVars, coverage, faults>>

Operators == [mccmnc : Networks, rsrq : Signals \union {Unknown}]

TypeOK ==
  /\ caller \in {"setup", "upload", "poll"}
  /\ pc \in {"idle", "at", "mode", "off", "setMode", "cereg", "cgdcont", "on",
             "select", "wait", "monitor", "find", "done"}
  /\ attempt \in {"last", "config", "auto", "search", "try"}
  /\ index \in 1 .. MAX_OPERATORS + 1
  /\ ret \in -1 .. 1
  /\ mccmnc \in Networks \union {NoNetwork}
  /\ operators \in BoundedSeq(Operators, MAX_OPERATORS)
  /\ {network_searched, modeSet, radio, simOk, seen} \subseteq BOOLEAN
  /\ cops \in Networks \union {AnyNetwork}
  /\ serving \in IF radio /\ simOk THEN coverage \union {NoNetwork} ELSE {NoNetwork}
  /\ coverage \in SUBSET Networks
  /\ faults \in 0 .. MaxFaults
  /\ tried \subseteq Networks

Init ==
  /\ caller = "setup" /\ pc = "at"
  /\ attempt = "last" /\ index = 1
  /\ ret = 0
  /\ mccmnc = ConfigNetwork
  /\ network_searched = FALSE /\ operators = <<>>
  /\ modeSet \in BOOLEAN
  /\ radio = FALSE /\ cops = AnyNetwork /\ serving = NoNetwork /\ simOk = TRUE
  /\ coverage \in SUBSET Networks
  /\ faults = 0
  /\ seen = FALSE /\ tried = {}

-----------------------------------------------------------------------------
(* The modem and the network *)

Registered == serving # NoNetwork
Reachable(n) == radio /\ simOk /\ (IF n = AnyNetwork THEN coverage # {} ELSE n \in coverage)

Fault == faults < MaxFaults /\ faults' = faults + 1
NoFault == UNCHANGED faults

ModemRegisters ==
  /\ radio /\ simOk /\ ~Registered
  /\ \E n \in coverage : cops \in {AnyNetwork, n} /\ serving' = n
  /\ UNCHANGED <<pc, callVars, mccmnc, tableVars, modeSet, radio, cops, simOk, loopVars,
                 coverage, faults>>

CoverageChanges ==
  /\ Fault
  /\ coverage' \in SUBSET Networks \ {coverage}
  /\ serving' = IF serving \in coverage' THEN serving ELSE NoNetwork
  /\ UNCHANGED <<pc, callVars, mccmnc, tableVars, modeSet, radio, cops, simOk, loopVars>>

CoverageReturns ==
  /\ coverage = {}
  /\ coverage' \in SUBSET Networks \ {{}}
  /\ NoFault
  /\ UNCHANGED <<pc, callVars, mccmnc, tableVars, modemVars, loopVars>>

SimFails ==
  /\ Fault
  /\ radio /\ simOk /\ simOk' = FALSE
  /\ serving' = NoNetwork
  /\ UNCHANGED <<pc, callVars, mccmnc, tableVars, modeSet, radio, cops, loopVars, coverage>>

RadioOff == radio' = FALSE /\ serving' = NoNetwork
RadioOn == /\ radio' = TRUE
           /\ simOk' = (simOk \/ ~radio)
           /\ UNCHANGED serving

-----------------------------------------------------------------------------
(* modem_network_register up to the first attempt *)

Go(from, to) == pc = from /\ pc' = to

Return(r) == pc' = "done" /\ ret' = r

\* A command fails and its error is returned.
CommandFails ==
  /\ pc \in {"at", "mode", "off", "setMode", "cgdcont", "on"}
  /\ Fault
  /\ Return(-1)
  /\ UNCHANGED <<caller, seen, mccmnc, tableVars, modemVars, loopVars, coverage>>

\* A command is answered with ERROR, which is taken for success: on to the next one.
CommandRefused ==
  /\ Go("off", "setMode") \/ Go("setMode", "cereg") \/ Go("on", "select")
  /\ Fault
  /\ UNCHANGED <<callVars, mccmnc, tableVars, modemVars, loopVars, coverage>>

\* The first "AT", and the APN.
CommandDone ==
  /\ Go("at", "mode") \/ Go("cgdcont", "on")
  /\ NoFault
  /\ UNCHANGED <<callVars, mccmnc, tableVars, modemVars, loopVars, coverage>>

SystemMode ==
  /\ Go("mode", IF modeSet THEN "cereg" ELSE "off")
  /\ NoFault
  /\ UNCHANGED <<callVars, mccmnc, tableVars, modemVars, loopVars, coverage>>

\* Fewer than four values matched: their number is returned.
SystemModeGarbled ==
  /\ pc = "mode" /\ Return(1)
  /\ Fault
  /\ UNCHANGED <<caller, seen, mccmnc, tableVars, modemVars, loopVars, coverage>>

SystemModeOff ==
  /\ Go("off", "setMode")
  /\ RadioOff
  /\ NoFault
  /\ UNCHANGED <<callVars, mccmnc, tableVars, modeSet, cops, simOk, loopVars, coverage>>

SetSystemMode ==
  /\ Go("setMode", "cereg")
  /\ modeSet' = ~radio
  /\ NoFault
  /\ UNCHANGED <<callVars, mccmnc, tableVars, radio, cops, serving, simOk, loopVars, coverage>>

AlreadyRegistered ==
  /\ pc = "cereg" /\ Registered
  /\ seen' = TRUE
  /\ Return(1)
  /\ NoFault
  /\ UNCHANGED <<caller, mccmnc, tableVars, modemVars, loopVars, coverage>>

SimFailed ==
  /\ pc = "cereg" /\ ~simOk /\ radio
  /\ Return(-1)
  /\ NoFault
  /\ UNCHANGED <<caller, seen, mccmnc, tableVars, modemVars, loopVars, coverage>>

\* Not registered; or AT+CEREG? has failed, which is not an error here.
NotRegistered ==
  /\ Go("cereg", "cgdcont")
  /\ IF Registered \/ (radio /\ ~simOk) THEN Fault ELSE NoFault
  /\ UNCHANGED <<callVars, mccmnc, tableVars, modemVars, loopVars, coverage>>

TurnOn ==
  /\ Go("on", "select")
  /\ RadioOn
  /\ NoFault
  /\ UNCHANGED <<callVars, mccmnc, tableVars, modeSet, cops, loopVars, coverage>>

-----------------------------------------------------------------------------
(* The attempts: modem_network_select and what follows each *)

Target == CASE attempt = "last" -> mccmnc
            [] attempt = "config" -> ConfigNetwork
            [] attempt = "auto" -> AnyNetwork
            [] OTHER -> operators[index].mccmnc

\* History: the loop over the operators has come to this one.
Tries == IF attempt = "try" THEN tried \union {Target} ELSE tried

\* Mutant: a modem that is still searching (status 2) counts as registered.
SearchingCounts == radio /\ simOk

\* AT+CEREG? answers with status 1 or 5.
StatRegistered == Registered

\* AT+COPS: the modem leaves any other network.
Select ==
  /\ Go("select", "wait")
  /\ radio /\ simOk
  /\ cops' = Target
  /\ tried' = Tries
  /\ serving' = IF Target \in {AnyNetwork, serving} THEN serving ELSE NoNetwork
  /\ NoFault
  /\ UNCHANGED <<callVars, mccmnc, tableVars, modeSet, radio, simOk, attempt, index, coverage>>

\* modem_wait_registration returns 0.  After the attempt at the last network used
\* the call is done, after the others the modem is asked where it is.
WaitRegistered ==
  /\ pc = "wait" /\ StatRegistered
  /\ seen' = (seen \/ Registered)
  /\ IF attempt = "last" THEN Return(0) ELSE pc' = "monitor" /\ UNCHANGED ret
  /\ NoFault
  /\ UNCHANGED <<caller, mccmnc, tableVars, modemVars, loopVars, coverage>>

\* The loop over the operators from the k-th on: those of unknown signal are passed over.
TryFrom(ops, k) ==
  LET known == {j \in k .. Len(ops) : ops[j].rsrq # Unknown}
  IN IF known = {}
     THEN Return(-1) /\ UNCHANGED <<attempt, index>>
     ELSE /\ pc' = "select" /\ attempt' = "try"
          /\ index' = Min(known)
          /\ UNCHANGED ret

\* Mutant: the weakest first.
StrongerLast(o, p) == o.rsrq < p.rsrq

\* cmp_operator_rsrq: 99 comes last; 0xFF comes first, and is passed over later.
Stronger(o, p) == o.rsrq # 99 /\ (p.rsrq = 99 \/ o.rsrq > p.rsrq)

\* What qsort may leave of the table.
Sortings(ops) == {s \in SetToSeqs(Range(ops)) :
                    \A j, k \in DOMAIN s : j < k => ~Stronger(s[k], s[j])}

\* The search loop at the k-th operator; after the last the table is sorted.
SearchFrom(ops, k) ==
  IF k \in DOMAIN ops
  THEN /\ pc' = "select" /\ attempt' = "search" /\ index' = k
       /\ operators' = ops
       /\ UNCHANGED <<network_searched, ret>>
  ELSE /\ network_searched' = TRUE
       /\ operators' \in Sortings(ops)
       /\ TryFrom(operators', 1)

\* modem_network_select returns something else than 0: the next attempt.
NextAttempt ==
  CASE attempt = "last" -> /\ attempt' = "config" /\ pc' = "select"
                           /\ UNCHANGED <<ret, index, tableVars>>
    [] attempt = "config" -> /\ attempt' = "auto" /\ pc' = "select"
                             /\ UNCHANGED <<ret, index, tableVars>>
    [] attempt = "auto" /\ ~network_searched ->
         pc' = "find" /\ UNCHANGED <<ret, attempt, index, tableVars>>
    [] attempt = "auto" /\ network_searched -> TryFrom(operators, 1) /\ UNCHANGED tableVars
    [] attempt = "search" -> SearchFrom(operators, index + 1)
    [] attempt = "try" -> TryFrom(operators, index + 1) /\ UNCHANGED tableVars

\* The radio is off, the SIM has failed, or a command goes wrong.
SelectFails ==
  /\ pc = "select"
  /\ IF radio /\ simOk THEN Fault ELSE NoFault
  /\ tried' = Tries
  /\ NextAttempt
  /\ UNCHANGED <<caller, seen, mccmnc, modemVars, coverage>>

\* 150 s pass, the SIM fails, or AT+CEREG? does.
WaitFails ==
  /\ pc = "wait"
  /\ IF Reachable(cops) THEN Fault ELSE NoFault
  /\ NextAttempt
  /\ UNCHANGED <<caller, seen, mccmnc, modemVars, tried, coverage>>

\* AT%XMONITOR after an attempt at the network of the configuration or at any: without
\* an answer the configuration's is noted and the error returned.
Monitored ==
  /\ pc = "monitor" /\ attempt \in {"config", "auto"}
  /\ \/ Registered /\ NoFault /\ mccmnc' = serving /\ Return(1)
     \/ /\ IF Registered THEN Fault ELSE NoFault
        /\ mccmnc' = ConfigNetwork /\ Return(-1)
  /\ UNCHANGED <<caller, seen, tableVars, modemVars, loopVars, coverage>>

\* After an attempt at an operator found: the error of modem_current_mccmnc is dropped.
TryMonitored ==
  /\ pc = "monitor" /\ attempt = "try"
  /\ \/ Registered /\ NoFault /\ mccmnc' = serving
     \/ (IF Registered THEN Fault ELSE NoFault) /\ UNCHANGED mccmnc
  /\ Return(0)
  /\ UNCHANGED <<caller, seen, tableVars, modemVars, loopVars, coverage>>

\* Mutant: the loop over the table runs one entry too far.
FitsAndOneMore(n) == n <= MAX_OPERATORS + 1

Fits(n) == n <= MAX_OPERATORS

\* modem_network_search: AT%COPS=? and store_operators, which stores what fits and
\* can be read.
Find ==
  /\ pc = "find"
  /\ \E S \in SUBSET Networks : \E found \in SetToSeqs(S) :
       /\ Fits(Len(found))
       /\ SearchFrom([k \in DOMAIN found |-> [mccmnc |-> found[k], rsrq |-> Unknown]], 1)
  /\ NoFault
  /\ UNCHANGED <<caller, seen, mccmnc, modemVars, tried, coverage>>

FindFails ==
  /\ pc = "find"
  /\ Fault
  /\ network_searched' = TRUE
  /\ TryFrom(operators, 1)
  /\ UNCHANGED <<caller, seen, mccmnc, operators, modemVars, tried, coverage>>

\* The signal of an operator found, if the modem is on it and says so.
SearchMonitored ==
  /\ pc = "monitor" /\ attempt = "search"
  /\ \E q \in Signals \union {Unknown} :
       /\ serving # operators[index].mccmnc => q = Unknown
       /\ SearchFrom([operators EXCEPT ![index].rsrq = q], index + 1)
  /\ NoFault
  /\ UNCHANGED <<caller, seen, mccmnc, modemVars, tried, coverage>>

-----------------------------------------------------------------------------
(* The callers *)

Call(c) ==
  /\ Go("idle", "at") /\ caller' = c
  /\ seen' = FALSE /\ tried' = {}
  /\ attempt' = "last" /\ index' = 1 /\ ret' = 0
  /\ NoFault
  /\ UNCHANGED <<mccmnc, tableVars, modemVars, coverage>>

\* Mutant: only an upload that got a connection is cleaned up after.
MustDeregisterIfRegistered == caller = "upload" /\ ret >= 0

\* An upload that ends with anything but 0, also for want of a network.
MustDeregister == caller = "upload" /\ ret < 0
MayDeregister == caller = "upload"

Kept == ~MustDeregister /\ UNCHANGED <<radio, serving>> /\ NoFault
modem_network_deregister == MayDeregister /\ RadioOff /\ NoFault
DeregisterFails == MayDeregister /\ Fault /\ UNCHANGED <<radio, serving>>

Done ==
  /\ Go("done", "idle")
  /\ Kept \/ modem_network_deregister \/ DeregisterFails
  /\ UNCHANGED <<callVars, mccmnc, tableVars, modeSet, cops, simOk, loopVars, coverage>>

-----------------------------------------------------------------------------
Begin == \/ CommandDone \/ SystemMode \/ SystemModeOff \/ SetSystemMode
         \/ AlreadyRegistered \/ SimFailed \/ NotRegistered \/ TurnOn
Attempt == \/ Select \/ SelectFails \/ WaitRegistered \/ WaitFails
           \/ Monitored \/ TryMonitored \/ Find \/ FindFails \/ SearchMonitored
CommandFault == CommandFails \/ CommandRefused \/ SystemModeGarbled
Environment == ModemRegisters \/ CoverageChanges \/ CoverageReturns \/ SimFails
Next == \/ Begin \/ Attempt \/ CommandFault \/ Done \/ Environment
        \/ Call("upload") \/ Call("poll")

\* Commands are answered and waits end, a modem in coverage registers, coverage
\* returns, and uploads keep being made.
Fairness == /\ WF_vars(Begin \/ Attempt \/ CommandFault \/ Done)
            /\ WF_vars(ModemRegisters) /\ WF_vars(CoverageReturns)
            /\ SF_vars(Call("upload"))

Spec == Init /\ [][Next]_vars /\ Fairness

-----------------------------------------------------------------------------
(* Properties *)

\* setup() waits for the network's time when the result is 0 (main.c:440): then
\* this call has seen the modem registered, after whatever failures before.
ZeroMeansRegistered == pc = "done" /\ ret = 0 => seen

\* 99 is the least of all signals.
Level(o) == IF o.rsrq = 99 THEN -1 ELSE o.rsrq

\* modem.c:401, "attempt to connect to networks in order of signal strength": an
\* operator is tried when all that were found with a stronger signal have been,
\* and the call gives up (modem.c:416) when all of known signal have been.
StrongestFirst ==
  LET left == {o \in Range(operators) : o.rsrq # Unknown /\ o.mccmnc \notin tried}
  IN attempt = "try" => CASE pc = "select" -> \A o \in left : Level(o) <= Level(operators[index])
                          [] pc = "done" -> ret = -1 => left = {}
                          [] OTHER -> TRUE

\* When coverage returns, and after any number of failed commands, changes
\* of coverage and failures of the SIM, registrations succeed again and again:
\* no order of them and of the callers leaves the radio off or the modem stuck.
Recovers == []<>(pc = "done" /\ ret >= 0)
=============================================================================
