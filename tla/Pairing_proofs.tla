--------------------------- MODULE Pairing_proofs ---------------------------
(***************************************************************************)
(* For any number of polls: the types of Pairing, and that client and host *)
(* agree.  SidesAgree is not inductive: an outcome must belong to a        *)
(* process that has ended (the host does not change its list then), and    *)
(* the last phase is only reached with both keys.                          *)
(***************************************************************************)
EXTENDS Pairing, TLAPS

Answers == {"none", "obeyed", "refused", "unheard"}
OutcomeIsLast == outcome # "none" => client = "idle"
SignedWithKey == client = "secret" => keys = "both"
LoadedKeys == client \notin {"idle", "keys", "writeCert", "writeKey"} => keys \in {"certOnly", "both"}
WritesKeys ==
  /\ client = "writeCert" => keys = "empty"
  /\ client = "writeKey" => keys = "certOnly"
PairingInv ==
  /\ PairingTypeOK /\ SidesAgree
  /\ OutcomeIsLast /\ SignedWithKey /\ LoadedKeys /\ WritesKeys

-----------------------------------------------------------------------------
(* The first process finds a state in which nothing was said.              *)
LEMMA InitPairingInv == Init => PairingInv
<1>1. 0 \in 0..MaxPolls
  BY PollsAssumption
<1> QED
  BY <1>1, Zenon DEF Init, PairingInv, PairingTypeOK, SidesAgree, OutcomeIsLast,
   SignedWithKey, LoadedKeys, WritesKeys, Outcomes, Phases

(* What the host does with a request of a phase, in any state: the client  *)
(* gets into its list by the last phase only.                              *)
HostTypes ==
  session \in Phases \cup {"none", "asked"} /\ pin \in {"none", "right", "wrong"} /\ trusts \in BOOLEAN

LEMMA HostStep ==
  ASSUME NEW phase \in Phases, PairingTypeOK, HostHandles(phase)
  PROVE  HostTypes' /\ (phase = "secret" /\ HostAgrees(phase) => trusts')
<1>1. trusts' \in BOOLEAN
  BY Zenon DEF HostHandles, PairingTypeOK
<1>2. session' \in Phases \cup {"none", "asked"} /\ pin' \in {"none", "right", "wrong"}
  BY DEF HostHandles, PairingTypeOK
<1>3. phase = "secret" /\ HostAgrees(phase) => trusts'
  BY Zenon DEF HostHandles
<1> QED BY <1>1, <1>2, <1>3 DEF HostTypes

LEMMA HostStays == PairingTypeOK /\ UNCHANGED hostVars => HostTypes'
BY DEF PairingTypeOK, HostTypes, hostVars

(* A step after which the process has not said anything, and goes on.      *)
Working == Phases \cup {"keys", "writeCert", "writeKey", "port", "serverinfo", "salt", "unpair"}

LEMMA GoesOn ==
  ASSUME PairingInv, HostTypes', outcome = "none", UNCHANGED <<action, outcome, unpairing>>,
         polls' \in 0..MaxPolls, https' \in BOOLEAN, client' \in Working,
         keys' \in {"none", "empty", "certOnly", "both"},
         client' = "secret" => keys' = "both",
         CASE client' = "keys" -> TRUE
           [] client' = "writeCert" -> keys' = "empty"
           [] client' = "writeKey" -> keys' = "certOnly"
           [] OTHER -> keys' \in {"certOnly", "both"}
  PROVE  PairingInv'
<1>1. client' \in Phases \cup {"idle", "keys", "writeCert", "writeKey", "port",
                             "serverinfo", "salt", "unpair"}
  BY DEF Working
<1>2. unpairing' \in Answers /\ action' \in {"pair", "unpair"} /\ outcome' \in Outcomes
  BY Zenon DEF PairingInv, PairingTypeOK, Answers
<1>3. PairingTypeOK'
  BY <1>1, <1>2, Zenon DEF PairingTypeOK, HostTypes, Answers
<1>4. SidesAgree' /\ OutcomeIsLast'
  BY DEF SidesAgree, OutcomeIsLast
<1>5. SignedWithKey' /\ LoadedKeys' /\ WritesKeys'
  BY DEF SignedWithKey, LoadedKeys, WritesKeys, Working, Phases
<1> QED BY <1>3, <1>4, <1>5 DEF PairingInv

(* A step with which the process ends and says what has come of it.        *)
LEMMA EndsSaying ==
  ASSUME PairingInv, HostTypes', NEW said \in Outcomes, Ends(said), UNCHANGED keys,
         unpairing' \in Answers,
         said \in {"paired", "already"} => trusts' /\ keys = "both",
         said = "failed" => unpairing' # "none" /\ (trusts' => unpairing' # "obeyed")
  PROVE  PairingInv'
<1>1. client' = "idle" /\ outcome' = said /\ UNCHANGED <<action, https, polls>>
  BY DEF Ends
<1>2. PairingTypeOK'
  BY <1>1, Zenon DEF PairingInv, PairingTypeOK, HostTypes, Answers
<1>3. SidesAgree' /\ OutcomeIsLast'
  BY <1>1, Zenon DEF SidesAgree, OutcomeIsLast
<1>4. SignedWithKey' /\ LoadedKeys' /\ WritesKeys'
  BY <1>1 DEF SignedWithKey, LoadedKeys, WritesKeys
<1> QED BY <1>2, <1>3, <1>4 DEF PairingInv

(* gs_pair fails: the client goes on to unpair.                            *)
LEMMA CleanupStep ==
  ASSUME PairingInv, HostTypes', client # "idle", keys \in {"certOnly", "both"}, Cleanup
  PROVE  PairingInv'
<1>1. client' = "unpair" /\ UNCHANGED <<keys, action, https, outcome, unpairing, polls>>
  BY DEF Cleanup, Goes
<1>2. outcome = "none" /\ polls \in 0..MaxPolls /\ https \in BOOLEAN
  BY DEF PairingInv, PairingTypeOK, OutcomeIsLast
<1> QED BY <1>1, <1>2, GoesOn DEF Working

-----------------------------------------------------------------------------
(* Every step of the client, the host and the user keeps PairingInv.       *)
LEMMA PairingStep == PairingInv /\ [Next]_vars => PairingInv'
<1> SUFFICES ASSUME PairingInv, [Next]_vars PROVE PairingInv'
  OBVIOUS
<1>a. PairingTypeOK /\ polls \in 0..MaxPolls /\ https \in BOOLEAN /\ unpairing \in Answers
  BY DEF PairingInv, PairingTypeOK, Answers
<1>b. UNCHANGED hostVars => HostTypes'
  BY <1>a, HostStays
<1>c. client # "idle" => outcome = "none"
  BY DEF PairingInv, OutcomeIsLast
<1>d. /\ client \in {"port", "serverinfo", "salt", "unpair"} \cup Phases
           => keys \in {"certOnly", "both"}
      /\ client = "secret" => keys = "both"
  BY DEF PairingInv, LoadedKeys, SignedWithKey, Phases
<1>1. CASE Start
  <2>1. /\ client' = "keys" /\ action' \in {"pair", "unpair"} /\ https' = TRUE /\ polls' = 0
        /\ outcome' = "none" /\ unpairing' = "none" /\ UNCHANGED <<keys, hostVars>>
    BY <1>1 DEF Start
  <2>2. 0 \in 0..MaxPolls
    BY PollsAssumption
  <2>3. PairingTypeOK'
    BY <1>a, <2>1, <2>2, Zenon DEF PairingTypeOK, Outcomes, Answers, hostVars
  <2>4. SidesAgree' /\ OutcomeIsLast' /\ SignedWithKey' /\ LoadedKeys' /\ WritesKeys'
    BY <2>1 DEF SidesAgree, OutcomeIsLast, SignedWithKey, LoadedKeys, WritesKeys
  <2> QED BY <2>3, <2>4 DEF PairingInv
<1>2. CASE LoadKeys
  <2>1. client = "keys" /\ HostTypes' /\ UNCHANGED unpairing
    BY <1>2, <1>b DEF LoadKeys
  <2>2. CASE keys = "none"
    <3>1. client' = "writeCert" /\ keys' = "empty" /\ UNCHANGED <<action, https, polls, outcome>>
      BY <1>2, <2>2 DEF LoadKeys
    <3> QED BY <1>a, <1>c, <2>1, <3>1, GoesOn DEF Working
  <2>3. CASE keys = "empty"
    <3>1. Ends("noKeys") /\ UNCHANGED keys
      BY <1>2, <2>3 DEF LoadKeys
    <3> QED BY <1>a, <2>1, <3>1, EndsSaying DEF Outcomes
  <2>4. CASE keys \in {"certOnly", "both"}
    <3>1. client' = "port" /\ UNCHANGED <<keys, action, https, outcome, polls>>
      BY <1>2, <2>4 DEF LoadKeys, Goes
    <3> QED BY <1>a, <1>c, <2>1, <2>4, <3>1, GoesOn DEF Working
  <2> QED BY <1>a, <2>2, <2>3, <2>4 DEF PairingTypeOK
<1>3. CASE WriteKeys
  <2>1. /\ HostTypes' /\ UNCHANGED <<action, https, polls, outcome, unpairing>>
        /\ \/ client = "writeCert" /\ keys' = "certOnly" /\ client' = "writeKey"
           \/ client = "writeKey" /\ keys' = "both" /\ client' = "port"
    BY <1>3, <1>b DEF WriteKeys
  <2> QED BY <1>a, <1>c, <2>1, GoesOn DEF Working
<1>4. CASE PortComes
  <2>1. /\ client = "port" /\ client' = "serverinfo" /\ HostTypes'
        /\ UNCHANGED <<keys, action, https, outcome, unpairing, polls>>
    BY <1>4, <1>b DEF PortComes, Goes
  <2> QED BY <1>a, <1>c, <1>d, <2>1, GoesOn DEF Working
<1>5. CASE NoHost
  <2>1. Ends("noHost") /\ UNCHANGED <<keys, unpairing>> /\ HostTypes'
    BY <1>5, <1>b DEF NoHost
  <2> QED BY <1>a, <2>1, EndsSaying DEF Outcomes
<1>6. CASE HttpsFails \/ HttpsFailsKeyless
  <2>1. /\ client = "serverinfo" /\ https' = FALSE /\ HostTypes'
        /\ UNCHANGED <<keys, client, action, polls, outcome, unpairing>>
    BY <1>6, <1>b DEF HttpsFails, HttpsFailsKeyless
  <2> QED BY <1>a, <1>c, <1>d, <2>1, GoesOn DEF Working
<1>7. CASE ServerInfoComes
  <2>1. client = "serverinfo" /\ (https => keys = "both") /\ HostTypes'
    BY <1>7, <1>b DEF ServerInfoComes
  <2>2. CASE action = "pair" /\ https /\ trusts
    <3>1. Ends("already") /\ UNCHANGED <<keys, unpairing, hostVars>>
      BY <1>7, <2>2 DEF ServerInfoComes
    <3> QED BY <1>a, <2>1, <2>2, <3>1, EndsSaying DEF Outcomes, hostVars
  <2>3. CASE ~(action = "pair" /\ https /\ trusts)
    <3>1. (Goes("unpair") \/ Goes("salt")) /\ UNCHANGED polls
      BY <1>7, <2>3 DEF ServerInfoComes
    <3>2. client' \in {"unpair", "salt"} /\ UNCHANGED <<keys, action, https, outcome, unpairing>>
      BY <3>1 DEF Goes
    <3> QED BY <1>a, <1>c, <1>d, <2>1, <3>1, <3>2, GoesOn DEF Working
  <2> QED BY <2>2, <2>3
<1>8. CASE SendSalt
  <2>1. /\ client = "salt" /\ client' = "certificate" /\ session' = "asked" /\ pin' = "none"
        /\ UNCHANGED <<keys, action, https, outcome, unpairing, polls, trusts>>
    BY <1>8 DEF SendSalt, Goes, HostBegins
  <2>2. HostTypes'
    BY <1>a, <2>1, Zenon DEF HostTypes, PairingTypeOK
  <2> QED BY <1>a, <1>c, <1>d, <2>1, <2>2, GoesOn DEF Working, Phases
<1>9. CASE SaltFails
  <2>1. client = "salt" /\ Cleanup /\ (HostBegins \/ UNCHANGED hostVars)
    BY <1>9 DEF SaltFails
  <2>2. HostBegins => HostTypes'
    BY <1>a, Zenon DEF HostBegins, HostTypes, PairingTypeOK
  <2> QED BY <1>b, <1>d, <2>1, <2>2, CleanupStep
<1>10. CASE WaitAgain
  <2>1. HostHandles("certificate") /\ client = "certificate" /\ "certificate" \in Phases
    BY <1>10 DEF WaitAgain, Unconfirmed, Phases
  <2>2. HostTypes'
    BY <1>a, <2>1, HostStep
  <2>3. CASE polls >= MaxPolls
    BY <1>10, <1>d, <2>1, <2>2, <2>3, CleanupStep DEF WaitAgain
  <2>4. CASE ~(polls >= MaxPolls)
    <3>1. /\ polls' = polls + 1 /\ client' = "certificate"
          /\ UNCHANGED <<keys, action, https, outcome, unpairing>>
      BY <1>10, <2>4 DEF WaitAgain, Goes
    <3>2. polls + 1 \in 0..MaxPolls
      BY <1>a, <2>4, PollsAssumption
    <3> QED BY <1>a, <1>c, <1>d, <2>1, <2>2, <3>1, <3>2, GoesOn DEF Working
  <2> QED BY <2>3, <2>4
<1>11. ASSUME NEW phase \in Phases, Answered(phase) PROVE PairingInv'
  <2>1. HostHandles(phase) /\ client = phase
    BY <1>11 DEF Answered
  <2>2. HostTypes' /\ (phase = "secret" /\ HostAgrees(phase) => trusts')
    BY <1>a, <2>1, HostStep
  <2>3. client # "idle" /\ keys \in {"certOnly", "both"}
    BY <1>d, <2>1 DEF Phases
  <2>4. CASE Cleanup
    BY <2>2, <2>3, <2>4, CleanupStep
  <2>5. CASE ~Cleanup
    <3>1. HostAgrees(phase) /\ Proceed(phase)
      BY <1>11, <2>5 DEF Answered
    <3>2. CASE phase = "secret"
      <4>1. Ends("paired") /\ UNCHANGED <<keys, unpairing>>
        BY <3>1, <3>2 DEF Proceed
      <4> QED BY <1>a, <1>d, <2>1, <2>2, <3>1, <3>2, <4>1, EndsSaying DEF Outcomes
    <3>3. CASE phase # "secret"
      <4>1. /\ client' \in {"challenge", "response", "secret"}
            /\ client' = "secret" => keys = "both"
            /\ UNCHANGED <<keys, action, https, outcome, unpairing, polls>>
        BY <2>5, <3>1, <3>3 DEF Proceed, Goes, Phases
      <4> QED BY <1>a, <1>c, <2>2, <2>3, <4>1, GoesOn DEF Working, Phases
    <3> QED BY <3>2, <3>3
  <2> QED BY <2>4, <2>5
<1>12. ASSUME NEW phase \in Phases, RequestFails(phase) PROVE PairingInv'
  <2>1. client = phase /\ Cleanup /\ (HostHandles(phase) \/ UNCHANGED hostVars)
    BY <1>12 DEF RequestFails
  <2>2. HostTypes'
    BY <1>a, <1>b, <2>1, HostStep
  <2>3. client # "idle" /\ keys \in {"certOnly", "both"}
    BY <1>d, <2>1 DEF Phases
  <2> QED BY <2>1, <2>2, <2>3, CleanupStep
<1>13. CASE Unpair
  <2>1. /\ UNCHANGED keys /\ (Ends("failed") \/ Ends("unpaired"))
        /\ \/ unpairing' = "obeyed" /\ HostForgets
           \/ unpairing' \in {"refused", "unheard"} /\ UNCHANGED hostVars
    BY <1>13, Zenon DEF Unpair
  <2>2. HostForgets => HostTypes' /\ ~trusts'
    BY Zenon DEF HostForgets, HostTypes
  <2>3. HostTypes' /\ unpairing' \in Answers /\ unpairing' # "none"
        /\ (trusts' => unpairing' # "obeyed")
    BY <1>b, <2>1, <2>2 DEF Answers
  <2> QED BY <2>1, <2>3, EndsSaying DEF Outcomes
<1>14. CASE Killed
  <2>1. Ends("killed") /\ UNCHANGED <<keys, unpairing>> /\ HostTypes'
    BY <1>14, <1>b DEF Killed
  <2> QED BY <1>a, <2>1, EndsSaying DEF Outcomes
<1>15. CASE TypePin \/ HostRestarts
  <2>1. UNCHANGED <<clientVars, trusts>> /\ HostTypes'
    <3>1. UNCHANGED <<clientVars, trusts>> /\ pin' \in {"none", "right", "wrong"}
          /\ session' \in {session, "none"}
      BY <1>15 DEF TypePin, HostRestarts
    <3> QED BY <1>a, <3>1, Zenon DEF PairingTypeOK, HostTypes
  <2>2. PairingTypeOK'
    BY <1>a, <2>1, Zenon DEF PairingTypeOK, HostTypes, clientVars
  <2> QED BY <2>1, <2>2 DEF PairingInv, SidesAgree, OutcomeIsLast, SignedWithKey, LoadedKeys,
             WritesKeys, clientVars
<1>16. CASE UNCHANGED vars
  BY <1>16 DEF vars, clientVars, hostVars, PairingInv, PairingTypeOK, SidesAgree, OutcomeIsLast,
     SignedWithKey, LoadedKeys, WritesKeys
<1> QED
  BY <1>1, <1>2, <1>3, <1>4, <1>5, <1>6, <1>7, <1>8, <1>9, <1>10, <1>11, <1>12, <1>13, <1>14,
     <1>15, <1>16
  DEF Next, Works, Fails

-----------------------------------------------------------------------------
(* Client, host and user keep PairingInv whatever fails.                   *)
THEOREM PairingSafety == Spec => []PairingInv
BY InitPairingInv, PairingStep, PTL DEF Spec

(* Types of the client and the host (client.c), for any number of polls.   *)
THEOREM PairingTypeCorrect == Spec => []PairingTypeOK
BY PairingSafety, PTL DEF PairingInv

(* Whatever message of gs_pair is lost and wherever a process is killed: a *)
(* client that says it is paired is, and one that says it has failed has   *)
(* asked the host to forget it, which the host has done unless it refused  *)
(* or did not hear (gs_pair and gs_unpair, client.c).                      *)
THEOREM ClientAndHostAgree == Spec => []SidesAgree
BY PairingSafety, PTL DEF PairingInv
=============================================================================
