--------------------------- MODULE NetworkTrigger ---------------------------
(***************************************************************************)
(* The network trigger: a site keeps a count that a user raises to ask for *)
(* a photo; the worker polls it (main.c:336-377, http.c), remembers the    *)
(* last count it saw in the signed network_capture_count and captures when *)
(* the count has grown.  The count is read as uint32_t and kept as int32_t *)
(* (2 * Half values).  The first count after boot is only remembered.       *)
(* The site's host name is resolved once and the address kept.             *)
(***************************************************************************)
EXTENDS Integers

CONSTANTS Half,        \* 2^31: half of the values of uint32_t
          MaxCount,    \* bound: the largest count the site reaches
          Addresses,   \* the addresses the site may have
          NoAddress,   \* addr_valid is false
          MaxReboots   \* bound: resets of the camera

ASSUME HalfAssumption == Half \in Nat \ {0}
ASSUME CountAssumption == MaxCount \in 0 .. 2 * Half - 1
ASSUME AddressAssumption == Addresses # {} /\ NoAddress \notin Addresses
ASSUME RebootAssumption == MaxReboots \in Nat

VARIABLES
  siteCount, siteAddr,     \* the site: its count, its address
  pc,                      \* what the worker does next in the poll
  addr,                    \* http_ep_g.addr, NoAddress while not valid
  status,                  \* http_ep_g.status is a success (a response leaves it behind)
  body,                    \* recv_buf: the count in it, -1 when none can be parsed
  network_capture_count,   \* -1 until the first poll
  reboots,
  \* history, read by no step
  baseline,                \* the site's count at the first poll since boot, -1 before
  captures,                \* captures for the network trigger since boot
  answered                 \* the highest count a capture was made for

siteVars == <<siteCount, siteAddr>>
epVars == <<addr, status, body>>
historyVars == <<baseline, captures, answered>>
vars == <<siteVars, pc, epVars, network_capture_count, reboots, historyVars>>

TypeOK ==
  /\ siteCount \in 0 .. MaxCount
  /\ siteAddr \in Addresses
  /\ pc \in {"idle", "register", "resolve", "connect", "request", "check"}
  /\ addr \in Addresses \union {NoAddress}
  /\ status \in BOOLEAN
  /\ body \in -1 .. MaxCount
  /\ network_capture_count \in -Half .. Half - 1
  /\ reboots \in 0 .. MaxReboots
  /\ baseline \in -1 .. MaxCount
  /\ captures \in Nat
  /\ answered \in 0 .. MaxCount

Boot ==
  /\ pc' = "idle"
  /\ addr' = NoAddress
  /\ status' = FALSE
  /\ body' = -1
  /\ network_capture_count' = -1
  /\ baseline' = -1 /\ captures' = 0

Init ==
  /\ siteCount \in 0 .. MaxCount /\ siteAddr \in Addresses
  /\ pc = "idle"
  /\ addr = NoAddress /\ status = FALSE /\ body = -1
  /\ network_capture_count = -1
  /\ reboots = 0
  /\ baseline = -1 /\ captures = 0 /\ answered = 0

-----------------------------------------------------------------------------
(* The site and its users *)

Request == /\ siteCount < MaxCount
           /\ siteCount' = siteCount + 1
           /\ UNCHANGED <<siteAddr, pc, epVars, network_capture_count, reboots, historyVars>>

SiteMoves == /\ siteAddr' \in Addresses \ {siteAddr}
             /\ UNCHANGED <<siteCount, pc, epVars, network_capture_count, reboots, historyVars>>

-----------------------------------------------------------------------------
(* The poll, by the worker *)

Go(from, to) == pc = from /\ pc' = to

\* An error on the way: the worker logs it and waits for the next task.
GiveUp(from) == /\ Go(from, "idle")
                /\ UNCHANGED <<siteVars, epVars, network_capture_count, reboots, historyVars>>

\* A network trigger task comes out of the queue; a host is configured.
Poll == /\ Go("idle", "register")
        /\ UNCHANGED <<siteVars, epVars, network_capture_count, reboots, historyVars>>

\* modem_network_register; then http_get clears the buffer.
Register == /\ Go("register", "resolve")
            /\ body' = -1
            /\ UNCHANGED <<siteVars, addr, status, network_capture_count, reboots, historyVars>>

\* resolve_endpoint: asks the DNS only while no address is kept.
Resolve == /\ Go("resolve", "connect")
           /\ addr' = IF addr = NoAddress THEN siteAddr ELSE addr
           /\ UNCHANGED <<siteVars, status, body, network_capture_count, reboots, historyVars>>

ResolveFails == addr = NoAddress /\ GiveUp("resolve")

Connect == /\ addr = siteAddr
           /\ Go("connect", "request")
           /\ UNCHANGED <<siteVars, epVars, network_capture_count, reboots, historyVars>>

\* do_request and response_cb: an answer with the count, or one that is an error
\* status or cannot be parsed, or none at all (status is left as it was).
Answer == /\ Go("request", "check")
          /\ status' = TRUE /\ body' = siteCount
          /\ UNCHANGED <<siteVars, addr, network_capture_count, reboots, historyVars>>

BadAnswer == /\ Go("request", "check")
             /\ status' \in BOOLEAN
             /\ UNCHANGED <<siteVars, addr, body, network_capture_count, reboots, historyVars>>

\* http_get_uint32 took the answer.
Parsed == status /\ body >= 0

\* Mutant: the count is kept unsigned.
Unsigned(n) == n

\* The conversion of the uint32_t count to int32_t.
Signed(n) == IF n >= Half THEN n - 2 * Half ELSE n

\* Mutant: no count seen is confused with a count of 0.
IsFirstOrZero == network_capture_count <= 0

\* Mutant: the count seen last counts as new.
IsNewOrSame(n) == n >= network_capture_count

IsFirst == network_capture_count < 0
IsNew(n) == n > network_capture_count

CheckBaseline ==
  /\ Go("check", "idle")
  /\ Parsed /\ IsFirst
  /\ network_capture_count' = Signed(body)
  /\ baseline' = IF baseline = -1 THEN body ELSE baseline
  /\ UNCHANGED <<siteVars, epVars, reboots, captures, answered>>

CheckNew ==
  /\ Go("check", "idle")
  /\ Parsed /\ ~IsFirst /\ IsNew(body)
  /\ network_capture_count' = Signed(body)
  /\ captures' = captures + 1
  /\ answered' = body
  /\ UNCHANGED <<siteVars, epVars, reboots, baseline>>

CheckNothing ==
  /\ ~Parsed \/ (~IsFirst /\ ~IsNew(body))
  /\ GiveUp("check")

-----------------------------------------------------------------------------
\* The camera is reset (watchdog, panic): all of this was in RAM.
Reboot == /\ reboots < MaxReboots
          /\ reboots' = reboots + 1
          /\ Boot
          /\ UNCHANGED <<siteVars, answered>>

PollStep == \/ Poll \/ Register \/ Resolve \/ Connect \/ Answer
            \/ CheckBaseline \/ CheckNew \/ CheckNothing
Fault == \/ GiveUp("register") \/ ResolveFails \/ GiveUp("connect")
         \/ BadAnswer \/ Reboot
Next == Request \/ SiteMoves \/ PollStep \/ Fault

\* The timer keeps polling, and the network and the site, which may fail any
\* number of times, do not fail for ever.
Fairness ==
  /\ WF_vars(Poll)
  /\ SF_vars(Register) /\ SF_vars(Resolve) /\ SF_vars(Connect) /\ SF_vars(Answer)
  /\ WF_vars(CheckBaseline \/ CheckNew \/ CheckNothing)

Spec == Init /\ [][Next]_vars /\ Fairness

-----------------------------------------------------------------------------
(* Properties *)

\* No photo without a request: since boot there are never more captures for the
\* network trigger than requests since the first poll, whatever answers are lost,
\* garbled or left over from an earlier poll (main.c:360-377).
NoCaptureUnasked == captures <= IF baseline = -1 THEN 0 ELSE siteCount - baseline

\* A request made after the first poll is answered by a capture, through any number
\* of failed polls, unless meanwhile the camera is reset, the count leaves the
\* positive half of int32_t, or the site leaves the address the camera keeps.
RequestAnswered ==
  \A n \in 1 .. MaxCount :
    (network_capture_count \in 0 .. n - 1 /\ siteCount >= n)
      ~> (answered >= n \/ network_capture_count < 0 \/ addr # siteAddr)
=============================================================================
