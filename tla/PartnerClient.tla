---------------------------- MODULE PartnerClient ----------------------------
(***************************************************************************)
(* One worker process delivering alerts to its partners                    *)
(* (src/apps/worker/worker/partner_client.py): a retry loop of MaxAttempts  *)
(* tries around a circuit breaker per partner, which every send of the     *)
(* process shares.  The breaker is pybreaker's, modelled from how it is    *)
(* constructed and called: fail_max consecutive failures open it, an open  *)
(* breaker refuses until the reset timeout has passed, then lets one trial *)
(* through, and the failure that opens it is reported as a refusal.        *)
(***************************************************************************)
EXTENDS Integers, FiniteSets

CONSTANTS
    Partners,     \* partners with a URL configured
    NoPartner,    \* send.partner when no send is running
    MaxAttempts,  \* stop_after_attempt
    FailMax,      \* fail_max of the breaker
    MaxChanges,   \* bound on the changes of a partner's health
    MaxRestarts   \* bound on restarts of the worker process

ASSUME PartnersAssumption == NoPartner \notin Partners
ASSUME LimitsAssumption == MaxAttempts \in Nat \ {0} /\ FailMax \in Nat \ {0}
                           /\ MaxChanges \in Nat /\ MaxRestarts \in Nat

Health == {"up", "rejecting", "down"}
BreakerStates == {"closed", "open", "half-open"}

(* How one request can end: 2xx or 3xx; 4xx; 5xx; a timeout or network     *)
(* error; any other exception of the HTTP client.                          *)
Endings == {"accepted", "http4xx", "http5xx", "network", "other"}
EndingsUnder(h) == CASE h = "up" -> {"accepted"}
                     [] h = "rejecting" -> {"http4xx"}
                     [] h = "down" -> {"http5xx", "network", "other"}

VARIABLES
    breaker,   \* state of each partner's breaker
    fails,     \* its failure counter
    elapsed,   \* whether its reset timeout has passed since it opened
    send,      \* the send in progress
    health,    \* environment: how each partner currently answers
    changes,   \* health changes so far
    restarts,  \* process restarts so far
    burst,     \* history: failed requests since the last success or trial
    blemished  \* history: partners that failed a request of this process

vars == <<breaker, fails, elapsed, send, health, changes, restarts, burst, blemished>>
breakerVars == <<breaker, fails, elapsed, burst, blemished>>
worldVars == <<health, changes, restarts>>

(* The local variables of send.  status and error keep the value of an     *)
(* earlier attempt until a later one overwrites them.                      *)
Sends == [partner : Partners \cup {NoPartner},
          phase : {"idle", "try", "request", "returned", "raised"},
          attempts : 0..MaxAttempts,
          success : BOOLEAN,
          status : {"none", "accepted", "http4xx", "http5xx"},
          error : {"none", "http4xx", "http5xx", "network", "circuit_open"},
          received : BOOLEAN]

NoSend == [partner |-> NoPartner, phase |-> "idle", attempts |-> 0, success |-> FALSE,
           status |-> "none", error |-> "none", received |-> FALSE]

Init ==
    /\ breaker = [p \in Partners |-> "closed"]
    /\ fails = [p \in Partners |-> 0]
    /\ elapsed = [p \in Partners |-> FALSE]
    /\ send = NoSend
    /\ health \in [Partners -> Health]
    /\ changes = 0
    /\ restarts = 0
    /\ burst = [p \in Partners |-> 0]
    /\ blemished = {}

-----------------------------------------------------------------------------
(* One send.                                                               *)

Begin(p) ==
    /\ send.phase = "idle"
    /\ send' = [NoSend EXCEPT !.partner = p, !.phase = "try"]
    /\ UNCHANGED <<breakerVars, worldVars>>

(* The breaker is open: breaker.call raises CircuitBreakerError, which is  *)
(* not retried.                                                            *)
Refused ==
    LET p == send.partner IN
    /\ send.phase = "try"
    /\ breaker[p] = "open" /\ ~elapsed[p]
    /\ send' = [send EXCEPT !.phase = "returned", !.success = FALSE, !.error = "circuit_open"]
    /\ UNCHANGED <<breakerVars, worldVars>>

(* Mutant: the reset timeout is never looked at again.                     *)
RequestClosedOnly ==
    LET p == send.partner IN
    /\ send.phase = "try"
    /\ breaker[p] # "open"
    /\ send' = [send EXCEPT !.phase = "request", !.attempts = @ + 1]
    /\ UNCHANGED <<breakerVars, worldVars>>

(* The breaker lets the request through, as the trial of a half-open       *)
(* breaker if its reset timeout has passed.                                *)
Request ==
    LET p == send.partner IN
    /\ send.phase = "try"
    /\ breaker[p] = "open" => elapsed[p]
    /\ breaker' = [breaker EXCEPT ![p] = IF @ = "open" THEN "half-open" ELSE @]
    /\ burst' = [burst EXCEPT ![p] = IF breaker[p] = "open" THEN 0 ELSE @]
    /\ send' = [send EXCEPT !.phase = "request", !.attempts = @ + 1]
    /\ UNCHANGED <<fails, elapsed, blemished, worldVars>>

(* Mutant: a success does not reset the failure counter.                   *)
SucceedWithoutReset ==
    LET p == send.partner IN
    /\ send.phase = "request"
    /\ "accepted" \in EndingsUnder(health[p])
    /\ breaker' = [breaker EXCEPT ![p] = "closed"]
    /\ burst' = [burst EXCEPT ![p] = 0]
    /\ send' = [send EXCEPT !.phase = "returned", !.success = TRUE, !.status = "accepted",
                            !.received = TRUE]
    /\ UNCHANGED <<fails, elapsed, blemished, worldVars>>

Succeed ==
    LET p == send.partner IN
    /\ send.phase = "request"
    /\ "accepted" \in EndingsUnder(health[p])
    /\ breaker' = [breaker EXCEPT ![p] = "closed"]
    /\ fails' = [fails EXCEPT ![p] = 0]
    /\ burst' = [burst EXCEPT ![p] = 0]
    /\ send' = [send EXCEPT !.phase = "returned", !.success = TRUE, !.status = "accepted",
                            !.received = TRUE]
    /\ UNCHANGED <<elapsed, blemished, worldVars>>

(* Mutant: the failures of all partners are counted by one breaker.        *)
CountFailureShared(p) ==
    /\ fails' = [q \in Partners |-> fails[q] + 1]
    /\ breaker' = [q \in Partners |->
                      IF breaker[q] = "half-open" \/ fails'[q] >= FailMax THEN "open" ELSE breaker[q]]
    /\ elapsed' = [q \in Partners |-> FALSE]
    /\ burst' = [burst EXCEPT ![p] = @ + 1]
    /\ blemished' = blemished \cup {p}

(* The breaker counts every exception of _do_request, whatever its kind.   *)
CountFailure(p) ==
    LET trips == breaker[p] = "half-open" \/ fails[p] + 1 >= FailMax IN
    /\ fails' = [fails EXCEPT ![p] = IF trips THEN FailMax ELSE @ + 1]
    /\ breaker' = [breaker EXCEPT ![p] = IF trips THEN "open" ELSE @]
    /\ elapsed' = [elapsed EXCEPT ![p] = FALSE]
    /\ burst' = [burst EXCEPT ![p] = @ + 1]
    /\ blemished' = blemished \cup {p}

(* What send does with a failed request.  The failure that opens the       *)
(* breaker arrives as CircuitBreakerError; a transient one is retried up   *)
(* to MaxAttempts; an exception that send does not name escapes from it.   *)
AfterFailure(end) ==
    CASE breaker'[send.partner] = "open" -> "returned"
      [] end \in {"http5xx", "network"} /\ send.attempts < MaxAttempts -> "try"
      [] end = "other" -> "raised"
      [] OTHER -> "returned"

(* Mutant: only status codes from 500 on count as failures.                *)
FailRequestFrom500(end) ==
    LET p == send.partner IN
    /\ send.phase = "request"
    /\ end \in EndingsUnder(health[p]) \ {"accepted"}
    /\ IF end = "http4xx"
       THEN /\ send' = [send EXCEPT !.phase = "returned", !.success = TRUE, !.status = end]
            /\ UNCHANGED breakerVars
       ELSE /\ CountFailure(p)
            /\ send' = [send EXCEPT !.phase = AfterFailure(end), !.error = "network"]
    /\ UNCHANGED worldVars

(* A request that failed for the client may have reached the partner all   *)
(* the same, except that a 4xx answer refuses it.                          *)
FailRequest(end) ==
    LET p == send.partner IN
    /\ send.phase = "request"
    /\ end \in EndingsUnder(health[p]) \ {"accepted"}
    /\ CountFailure(p)
    /\ \E reached \in BOOLEAN :
        /\ end = "http4xx" => ~reached
        /\ send' = [send EXCEPT
                !.phase = AfterFailure(end),
                !.status = IF end \in {"http4xx", "http5xx"} THEN end ELSE @,
                !.error = IF breaker'[p] = "open" THEN "circuit_open"
                          ELSE IF end = "other" THEN @ ELSE end,
                !.received = @ \/ reached]
    /\ UNCHANGED worldVars

(* The worker takes the result, or the exception, and goes on.             *)
Finish ==
    /\ send.phase \in {"returned", "raised"}
    /\ send' = NoSend
    /\ UNCHANGED <<breakerVars, worldVars>>

-----------------------------------------------------------------------------
(* The environment.                                                        *)

ResetTimeout(p) ==
    /\ breaker[p] = "open" /\ ~elapsed[p]
    /\ elapsed' = [elapsed EXCEPT ![p] = TRUE]
    /\ UNCHANGED <<breaker, fails, burst, blemished, send, worldVars>>

ChangeHealth(p) ==
    /\ changes < MaxChanges
    /\ \E h \in Health \ {health[p]} : health' = [health EXCEPT ![p] = h]
    /\ changes' = changes + 1
    /\ UNCHANGED <<breakerVars, send, restarts>>

(* The breakers live in the process: a restart closes all of them.         *)
Restart ==
    /\ restarts < MaxRestarts
    /\ restarts' = restarts + 1
    /\ breaker' = [p \in Partners |-> "closed"]
    /\ fails' = [p \in Partners |-> 0]
    /\ elapsed' = [p \in Partners |-> FALSE]
    /\ burst' = [p \in Partners |-> 0]
    /\ blemished' = {}
    /\ send' = NoSend
    /\ UNCHANGED <<health, changes>>

-----------------------------------------------------------------------------

SendStep ==
    \/ Refused
    \/ Request
    \/ Succeed
    \/ \E end \in Endings : FailRequest(end)
    \/ Finish

Next ==
    \/ SendStep
    \/ Restart
    \/ \E p \in Partners : Begin(p) \/ ResetTimeout(p) \/ ChangeHealth(p)

Spec == Init /\ [][Next]_vars

(* A send once begun runs on, time passes, and every partner keeps being   *)
(* notified: alerts of all severities go on arriving.                      *)
FairSpec ==
    /\ Spec
    /\ WF_vars(SendStep)
    /\ \A p \in Partners : SF_vars(Begin(p)) /\ WF_vars(ResetTimeout(p))

-----------------------------------------------------------------------------
(* Properties.                                                             *)

TypeOK ==
    /\ breaker \in [Partners -> BreakerStates]
    /\ fails \in [Partners -> 0..FailMax]
    /\ elapsed \in [Partners -> BOOLEAN]
    /\ send \in Sends
    /\ health \in [Partners -> Health]
    /\ changes \in 0..MaxChanges
    /\ restarts \in 0..MaxRestarts
    /\ burst \in [Partners -> 0..FailMax]
    /\ blemished \subseteq Partners
    /\ send.phase # "idle" <=> send.partner \in Partners

(* However many sends run into an outage, a partner gets at most FailMax   *)
(* failing requests before its breaker opens, and then one per reset       *)
(* timeout: the counter of a closed breaker is exactly the failures since  *)
(* the last success, and it never reaches FailMax.                         *)
OutageBounded ==
    \A p \in Partners :
        /\ breaker[p] = "closed" => burst[p] = fails[p] /\ fails[p] < FailMax
        /\ breaker[p] = "half-open" =>
            /\ burst[p] = 0
            /\ send.partner = p /\ send.phase = "request"
        /\ breaker[p] = "open" => burst[p] \in 1..FailMax

(* No partner is refused because of another one: as long as a partner has  *)
(* not failed a request, its breaker is closed with nothing counted.       *)
HealthyNeverRefused ==
    \A p \in Partners \ blemished : breaker[p] = "closed" /\ fails[p] = 0

(* The result of send tells the truth: success means that the partner got  *)
(* the alert, failure comes with an error, and a send without any request  *)
(* was refused by the breaker.                                             *)
ResultHonest ==
    send.phase = "returned" =>
        /\ send.success => send.received /\ send.status = "accepted"
        /\ ~send.success => send.error # "none" /\ send.status # "accepted"
        /\ send.attempts = 0 => send.error = "circuit_open"

(* Once a partner stays up, its breaker closes and stays closed.           *)
BreakerRecovers ==
    \A p \in Partners : <>[](health[p] = "up") => <>[](breaker[p] = "closed")

=============================================================================
