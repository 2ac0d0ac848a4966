------------------------ MODULE PartnerClientProofs ------------------------
(***************************************************************************)
(* Proofs about PartnerClient, for every set of partners and every value   *)
(* of the retry and breaker limits.                                        *)
(***************************************************************************)
EXTENDS PartnerClient, TLAPS

USE PartnersAssumption, LimitsAssumption

(* While a send runs nothing has succeeded yet, and a request is out only  *)
(* when it has been counted: what the result is later computed from.       *)
SendConsistent ==
    /\ send.phase \in {"idle", "try", "request"} => ~send.success /\ send.status # "accepted"
    /\ send.phase = "request" => send.attempts > 0 /\ breaker[send.partner] # "open"
    /\ send.phase = "try" => send.attempts < MaxAttempts

BreakerInv ==
    TypeOK /\ OutageBounded /\ HealthyNeverRefused /\ ResultHonest /\ SendConsistent

LEMMA BreakerInit == Init => BreakerInv
  BY DEF Init, BreakerInv, TypeOK, OutageBounded, HealthyNeverRefused, ResultHonest,
         SendConsistent, NoSend, Sends, BreakerStates, Health

(* Counting a failure of p, for a request p's breaker had let through.     *)
LEMMA CountFailureKeeps ==
    ASSUME BreakerInv, NEW p \in Partners, send.phase = "request", send.partner = p,
           CountFailure(p), send'.phase # "request"
    PROVE  /\ breaker' \in [Partners -> BreakerStates]
           /\ fails' \in [Partners -> 0..FailMax]
           /\ elapsed' \in [Partners -> BOOLEAN]
           /\ burst' \in [Partners -> 0..FailMax]
           /\ blemished' \subseteq Partners
           /\ OutageBounded'
           /\ HealthyNeverRefused'
           /\ breaker'[p] # "half-open"
  <1>1. TypeOK /\ OutageBounded /\ HealthyNeverRefused /\ SendConsistent
    BY DEF BreakerInv
  <1>2. breaker[p] \in {"closed", "half-open"} /\ fails[p] \in 0..FailMax /\ burst[p] \in 0..FailMax
    BY <1>1 DEF TypeOK, SendConsistent, BreakerStates
  <1>3. /\ burst[p] + 1 \in 1..FailMax
        /\ breaker[p] = "closed" => fails[p] + 1 \in 1..FailMax /\ burst[p] = fails[p]
    BY <1>1, <1>2 DEF OutageBounded
  <1>4. \/ breaker'[p] = "open" /\ fails'[p] = FailMax
        \/ breaker'[p] = "closed" /\ breaker[p] = "closed" /\ fails'[p] = fails[p] + 1 /\ fails'[p] < FailMax
    BY <1>1, <1>2, <1>3 DEF CountFailure, TypeOK
  <1>5. burst'[p] = burst[p] + 1 /\ elapsed'[p] = FALSE /\ blemished' = blemished \cup {p}
    BY <1>1 DEF CountFailure, TypeOK
  <1>6. \A q \in Partners \ {p} :
            breaker'[q] = breaker[q] /\ fails'[q] = fails[q] /\ burst'[q] = burst[q]
    BY <1>1 DEF CountFailure, TypeOK
  <1>7. /\ breaker' \in [Partners -> BreakerStates]
        /\ fails' \in [Partners -> 0..FailMax]
        /\ elapsed' \in [Partners -> BOOLEAN]
        /\ burst' \in [Partners -> 0..FailMax]
    BY <1>1, <1>2, <1>3 DEF CountFailure, TypeOK, BreakerStates
  <1>8. OutageBounded'
    BY <1>1, <1>3, <1>4, <1>5, <1>6 DEF OutageBounded
  <1>9. HealthyNeverRefused'
    BY <1>1, <1>5, <1>6 DEF HealthyNeverRefused
  <1> QED
    BY <1>1, <1>4, <1>5, <1>7, <1>8, <1>9 DEF TypeOK

LEMMA BreakerStep == BreakerInv /\ [Next]_vars => BreakerInv'
  <1> SUFFICES ASSUME BreakerInv, [Next]_vars PROVE BreakerInv'
    OBVIOUS
  <1>0. TypeOK /\ OutageBounded /\ HealthyNeverRefused /\ ResultHonest /\ SendConsistent
    BY DEF BreakerInv
  <1> USE <1>0 DEF vars, breakerVars, worldVars
  <1>1. ASSUME NEW p \in Partners, Begin(p) PROVE BreakerInv'
    <2>1. /\ send'.phase = "try" /\ send'.partner = p /\ send'.attempts = 0
          /\ ~send'.success /\ send'.status = "none"
      BY <1>1 DEF Begin, NoSend
    <2>5. send' \in Sends
      <3>1. NoSend \in Sends
        BY DEF NoSend, Sends
      <3> QED
        BY <1>1, <3>1 DEF Begin, Sends
    <2>2. TypeOK' /\ HealthyNeverRefused'
      BY <1>1, <2>1, <2>5 DEF Begin, TypeOK, HealthyNeverRefused
    <2>3. OutageBounded'
      BY <1>1, <2>1 DEF Begin, OutageBounded
    <2>4. ResultHonest' /\ SendConsistent'
      BY <2>1 DEF ResultHonest, SendConsistent
    <2> QED
      BY <2>2, <2>3, <2>4 DEF BreakerInv
  <1>2. CASE Refused
    <2>1. send' \in Sends /\ send'.partner = send.partner /\ send'.phase = "returned"
      BY <1>2 DEF Refused, TypeOK, Sends
    <2>2. TypeOK'
      BY <1>2, <2>1 DEF Refused, TypeOK
    <2>3. OutageBounded' /\ HealthyNeverRefused'
      BY <1>2, <2>1 DEF Refused, OutageBounded, HealthyNeverRefused
    <2>4. ResultHonest' /\ SendConsistent'
      BY <1>2, <2>1 DEF Refused, TypeOK, Sends, ResultHonest, SendConsistent
    <2> QED
      BY <2>2, <2>3, <2>4 DEF BreakerInv
  <1>3. CASE Request
    <2>1. PICK p \in Partners : p = send.partner
      BY <1>3 DEF Request, TypeOK
    <2>2. TypeOK'
      <3>1. send.attempts + 1 \in 0..MaxAttempts
        BY <1>3 DEF Request, TypeOK, Sends, SendConsistent
      <3>2. send' \in Sends /\ send'.partner = p /\ send'.phase = "request"
        BY <1>3, <2>1, <3>1 DEF Request, TypeOK, Sends
      <3>3. breaker' \in [Partners -> BreakerStates] /\ burst' \in [Partners -> 0..FailMax]
        BY <1>3, <2>1 DEF Request, TypeOK, BreakerStates
      <3> QED
        BY <1>3, <3>2, <3>3 DEF Request, TypeOK
    <2>3. OutageBounded'
      BY <1>3, <2>1 DEF Request, TypeOK, Sends, OutageBounded
    <2>4. HealthyNeverRefused'
      BY <1>3, <2>1 DEF Request, TypeOK, HealthyNeverRefused
    <2>5. ResultHonest' /\ SendConsistent'
      BY <1>3, <2>1 DEF Request, TypeOK, Sends, BreakerStates, ResultHonest, SendConsistent
    <2> QED
      BY <2>2, <2>3, <2>4, <2>5 DEF BreakerInv
  <1>4. CASE Succeed
    <2>1. PICK p \in Partners : p = send.partner
      BY <1>4 DEF Succeed, TypeOK
    <2>2. TypeOK'
      <3>1. send' \in Sends /\ send'.partner = p /\ send'.phase = "returned"
        BY <1>4, <2>1 DEF Succeed, TypeOK, Sends
      <3>2. /\ breaker' \in [Partners -> BreakerStates]
            /\ fails' \in [Partners -> 0..FailMax]
            /\ burst' \in [Partners -> 0..FailMax]
        BY <1>4, <2>1 DEF Succeed, TypeOK, BreakerStates
      <3> QED
        BY <1>4, <3>1, <3>2 DEF Succeed, TypeOK
    <2>3. OutageBounded' /\ HealthyNeverRefused'
      BY <1>4, <2>1 DEF Succeed, TypeOK, Sends, OutageBounded, HealthyNeverRefused
    <2>4. ResultHonest' /\ SendConsistent'
      BY <1>4, <2>1 DEF Succeed, TypeOK, Sends, ResultHonest, SendConsistent
    <2> QED
      BY <2>2, <2>3, <2>4 DEF BreakerInv
  <1>5. ASSUME NEW end \in Endings, FailRequest(end) PROVE BreakerInv'
    <2>1. PICK p \in Partners : p = send.partner
      BY <1>5 DEF FailRequest, TypeOK
    <2>2. end # "accepted" /\ CountFailure(p)
      BY <1>5, <2>1 DEF FailRequest
    <2>3. PICK reached \in BOOLEAN :
             send' = [send EXCEPT
                !.phase = AfterFailure(end),
                !.status = IF end \in {"http4xx", "http5xx"} THEN end ELSE @,
                !.error = IF breaker'[p] = "open" THEN "circuit_open"
                          ELSE IF end = "other" THEN @ ELSE end,
                !.received = @ \/ reached]
      BY <1>5, <2>1 DEF FailRequest
    <2>4. AfterFailure(end) \in {"try", "returned", "raised"}
      BY <2>1, <2>2 DEF AfterFailure
    <2>5. send.phase = "request" /\ send \in Sends
      BY <1>5 DEF FailRequest, TypeOK
    <2>6. send' \in Sends /\ send'.partner = p /\ send'.phase = AfterFailure(end)
      <3> DEFINE status == IF end \in {"http4xx", "http5xx"} THEN end ELSE send.status
                 error == IF breaker'[p] = "open" THEN "circuit_open"
                          ELSE IF end = "other" THEN send.error ELSE end
      <3>1. send' = [send EXCEPT !.phase = AfterFailure(end), !.status = status,
                                 !.error = error, !.received = @ \/ reached]
        BY <2>3
      <3>2. status \in {"none", "accepted", "http4xx", "http5xx"}
        BY <2>5 DEF Sends
      <3>3. error \in {"none", "http4xx", "http5xx", "network", "circuit_open"}
        BY <2>2, <2>5 DEF Sends, Endings
      <3> HIDE DEF status, error
      <3> DEFINE phase == AfterFailure(end)
                 received == send.received \/ reached
      <3>4. send' = [send EXCEPT !.phase = phase, !.status = status,
                                 !.error = error, !.received = received]
        BY <3>1
      <3>5. phase \in {"try", "returned", "raised"} /\ received \in BOOLEAN
        BY <2>4
      <3> HIDE DEF phase, received
      <3>6. send' \in Sends /\ send'.partner = p /\ send'.phase = phase
        BY <2>1, <2>5, <3>2, <3>3, <3>4, <3>5 DEF Sends
      <3> QED BY <3>6 DEF phase
    <2>7. /\ OutageBounded' /\ HealthyNeverRefused'
          /\ TypeOK'
      BY <1>5, <2>1, <2>2, <2>4, <2>5, <2>6, CountFailureKeeps DEF FailRequest, TypeOK
    <2>8. SendConsistent'
      BY <2>1, <2>2, <2>3, <2>4, <2>5, <2>6 DEF SendConsistent, Sends, AfterFailure, Endings
    <2>9. ResultHonest'
      BY <2>1, <2>2, <2>3, <2>4, <2>5, <2>6 DEF ResultHonest, SendConsistent, Sends, AfterFailure, Endings
    <2> QED
      BY <2>7, <2>8, <2>9 DEF BreakerInv
  <1>6. CASE Finish
    <2>1. NoSend \in Sends /\ NoSend.partner = NoPartner /\ NoSend.phase = "idle"
          /\ ~NoSend.success /\ NoSend.status = "none"
      BY DEF NoSend, Sends
    <2>2. TypeOK' /\ HealthyNeverRefused'
      BY <1>6, <2>1 DEF Finish, TypeOK, HealthyNeverRefused
    <2>3. OutageBounded'
      BY <1>6 DEF Finish, OutageBounded
    <2>4. ResultHonest' /\ SendConsistent'
      BY <1>6, <2>1 DEF Finish, ResultHonest, SendConsistent
    <2> QED
      BY <2>2, <2>3, <2>4 DEF BreakerInv
  <1>7. ASSUME NEW p \in Partners, ResetTimeout(p) \/ ChangeHealth(p) PROVE BreakerInv'
    <2>a. ASSUME ResetTimeout(p) PROVE TypeOK'
      BY <2>a DEF ResetTimeout, TypeOK
    <2>b. ASSUME ChangeHealth(p) PROVE TypeOK'
      <3>1. health' \in [Partners -> Health] /\ changes' \in 0..MaxChanges
        BY <2>b DEF ChangeHealth, TypeOK
      <3> QED
        BY <2>b, <3>1 DEF ChangeHealth, TypeOK
    <2>1. TypeOK'
      BY <1>7, <2>a, <2>b
    <2>2. breaker' = breaker /\ fails' = fails /\ burst' = burst /\ blemished' = blemished /\ send' = send
      BY <1>7 DEF ResetTimeout, ChangeHealth
    <2> QED
      BY <2>1, <2>2 DEF BreakerInv, OutageBounded, HealthyNeverRefused, ResultHonest, SendConsistent
  <1>8. CASE Restart
    <2>1. NoSend \in Sends /\ NoSend.partner = NoPartner /\ NoSend.phase = "idle"
      BY DEF NoSend, Sends
    <2>2. TypeOK'
      BY <1>8, <2>1 DEF Restart, TypeOK, BreakerStates
    <2>3. OutageBounded' /\ HealthyNeverRefused' /\ ResultHonest' /\ SendConsistent'
      BY <1>8 DEF Restart, NoSend, OutageBounded, HealthyNeverRefused, ResultHonest, SendConsistent
    <2> QED
      BY <2>2, <2>3 DEF BreakerInv
  <1>9. CASE UNCHANGED vars
    BY <1>9 DEF BreakerInv, TypeOK, OutageBounded, HealthyNeverRefused, ResultHonest,
                SendConsistent
  <1> QED
    BY <1>1, <1>2, <1>3, <1>4, <1>5, <1>6, <1>7, <1>8, <1>9 DEF Next, SendStep

LEMMA BreakerAlways == Spec => []BreakerInv
  BY BreakerInit, BreakerStep, PTL DEF Spec

(* For every limit of retries and failures: an outage costs a partner at   *)
(* most FailMax failing requests before its breaker opens and one per      *)
(* reset timeout after.                                                    *)
THEOREM BreakerSafe == Spec => []OutageBounded
  <1>1. BreakerInv => OutageBounded
    BY DEF BreakerInv
  <1> QED
    BY BreakerAlways, <1>1, PTL

(* A partner that has not failed is never refused, however long another    *)
(* one is out.                                                             *)
THEOREM PartnersIsolated == Spec => []HealthyNeverRefused
  <1>1. BreakerInv => HealthyNeverRefused
    BY DEF BreakerInv
  <1> QED
    BY BreakerAlways, <1>1, PTL

(* A send that reports success reached the partner, one that does not says *)
(* why, and one that made no request was refused by the breaker.           *)
THEOREM ResultsTrue == Spec => []ResultHonest
  <1>1. BreakerInv => ResultHonest
    BY DEF BreakerInv
  <1> QED
    BY BreakerAlways, <1>1, PTL

-----------------------------------------------------------------------------
(* Sends end.                                                              *)

(* At most how many steps the send s has to go.                            *)
StepsLeft(s) ==
    CASE s.phase = "try" -> 2 * (MaxAttempts - s.attempts) + 2
      [] s.phase = "request" -> 2 * (MaxAttempts - s.attempts) + 3
      [] s.phase \in {"returned", "raised"} -> 1
      [] OTHER -> 0

StepsBounded == StepsLeft(send) \in 0..2 * MaxAttempts + 2
StepsFewer == send.phase # "idle" => StepsLeft(send)' < StepsLeft(send) \/ send' = send

LEMMA StepsLeftAt ==
    ASSUME NEW s
    PROVE  /\ s.phase = "try" => StepsLeft(s) = 2 * (MaxAttempts - s.attempts) + 2
           /\ s.phase = "request" => StepsLeft(s) = 2 * (MaxAttempts - s.attempts) + 3
           /\ s.phase \in {"returned", "raised"} => StepsLeft(s) = 1
           /\ s.phase = "idle" => StepsLeft(s) = 0
  BY DEF StepsLeft

LEMMA StepsLeftBounded == BreakerInv => StepsBounded
  <1> SUFFICES ASSUME BreakerInv PROVE StepsLeft(send) \in 0..2 * MaxAttempts + 2
    BY DEF StepsBounded
  <1>1. /\ send.phase \in {"idle", "try", "request", "returned", "raised"}
        /\ send.attempts \in 0..MaxAttempts
        /\ send.phase = "request" => send.attempts > 0
    BY DEF BreakerInv, TypeOK, Sends, SendConsistent
  <1> QED BY <1>1, StepsLeftAt

LEMMA StepsLeftStep ==
    ASSUME BreakerInv, [Next]_vars, send.phase # "idle", send' # send
    PROVE  StepsLeft(send') < StepsLeft(send)
  <1>1. /\ send \in Sends /\ send.attempts \in 0..MaxAttempts
        /\ send.phase = "request" => send.attempts > 0
        /\ send.phase = "try" => send.attempts < MaxAttempts
    BY DEF BreakerInv, TypeOK, Sends, SendConsistent
  <1>2. StepsLeft(send) > 0
    BY <1>1, StepsLeftAt DEF Sends
  <1>3. CASE Finish \/ Restart
    <2>1. send'.phase = "idle"
      BY <1>3 DEF Finish, Restart, NoSend
    <2> QED BY <1>2, <2>1, StepsLeftAt
  <1>4. CASE Refused
    <2>1. send.phase = "try" /\ send'.phase = "returned"
      BY <1>1, <1>4 DEF Refused, Sends
    <2> QED BY <1>1, <2>1, StepsLeftAt
  <1>5. CASE Request
    <2>1. /\ send.phase = "try" /\ send'.phase = "request"
          /\ send'.attempts = send.attempts + 1
      BY <1>1, <1>5 DEF Request, Sends
    <2> QED BY <1>1, <2>1, StepsLeftAt
  <1>6. CASE Succeed
    <2>1. send.phase = "request" /\ send'.phase = "returned"
      BY <1>1, <1>6 DEF Succeed, Sends
    <2> QED BY <1>1, <2>1, StepsLeftAt
  <1>7. ASSUME NEW end \in Endings, FailRequest(end)
        PROVE  StepsLeft(send') < StepsLeft(send)
    <2>1. /\ send.phase = "request" /\ send'.phase = AfterFailure(end)
          /\ send'.attempts = send.attempts
      BY <1>1, <1>7 DEF FailRequest, Sends
    <2>2. AfterFailure(end) \in {"try", "returned", "raised"}
      BY DEF AfterFailure
    <2> QED BY <1>1, <2>1, <2>2, StepsLeftAt
  <1>8. \A p \in Partners : ~Begin(p) /\ ~ResetTimeout(p) /\ ~ChangeHealth(p)
    BY DEF Begin, ResetTimeout, ChangeHealth
  <1> QED BY <1>3, <1>4, <1>5, <1>6, <1>7, <1>8 DEF Next, SendStep, vars

(* A send ends after a bounded number of steps, however the partner        *)
(* answers and whatever its breaker does: at most 2 * MaxAttempts + 2 are  *)
(* left, and each one, or a restart, leaves fewer.                         *)
THEOREM SendsEnd == Spec => []StepsBounded /\ [][StepsFewer]_vars
  <1>1. BreakerInv /\ [Next]_vars => StepsFewer
    BY StepsLeftStep DEF StepsFewer
  <1> QED BY <1>1, BreakerAlways, StepsLeftBounded, PTL DEF Spec

=============================================================================
