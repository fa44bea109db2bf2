------------------------------ MODULE Pairing ------------------------------
(***************************************************************************)
(* Pairing with a host (gs_init, gs_pair and gs_unpair of client.c, as the *)
(* actions "pair" and "unpair" of main.c use them): one process after      *)
(* another, which may be killed anywhere, makes or loads the client's keys *)
(* and talks to a host that keeps its own idea of the handshake, over      *)
(* requests that fail and whose answers are lost.  A request and its       *)
(* handling are one step: http_request blocks, and what reaches the host   *)
(* at all is taken to reach it before the next request.                    *)
(***************************************************************************)
EXTENDS Naturals

CONSTANT MaxPolls  \* PAIR_CONFIRM_TIMEOUT_MS / PAIR_CONFIRM_POLL_MS

ASSUME PollsAssumption == MaxPolls \in Nat \ {0}

VARIABLES
  keys,     \* the files: none, a certificate that is empty, one without
            \* its key, or both
  client,   \* what the process does next, "idle" when there is none
  action,   \* what main was called for
  https,    \* the serverinfo asked for next goes over HTTPS
  polls,    \* elapsed_ms of pair_request_wait_paired, in polls
  outcome,  \* what the last process said when it ended
  unpairing,\* its unpair request: not made, obeyed, refused by the host,
            \* or unheard (for properties)
  session,  \* the host: how far the handshake has come, or "none"
  pin,      \* the host: which PIN its user has typed for it
  trusts    \* the host: it has this client in its list

clientVars == <<keys, client, action, https, polls, outcome, unpairing>>
hostVars == <<session, pin, trusts>>
vars == <<clientVars, hostVars>>

Phases == {"certificate", "challenge", "response", "secret"}
Outcomes == {"none", "paired", "already", "unpaired", "failed", "noKeys", "noHost", "killed"}

Init ==
  /\ client = "idle" /\ action = "pair" /\ https = TRUE /\ polls = 0
  /\ outcome = "none" /\ unpairing = "none"
  /\ session = "none" /\ pin = "none" /\ trusts \in BOOLEAN
  /\ keys \in {"none", "both"} /\ (trusts => keys = "both")

-----------------------------------------------------------------------------
(* The host, as the client's code expects it: its answer says paired = 1   *)
(* when the phase is the next one, for the first when the PIN is typed; it *)
(* checks the client's secret against the key made from that PIN.          *)
HostAgrees(phase) ==
  CASE phase = "certificate" -> session = "asked" /\ pin # "none"
    [] phase = "challenge"   -> session = "certificate"
    [] phase = "response"    -> session = "challenge"
    [] phase = "secret"      -> session = "response" /\ pin = "right"
HostHandles(phase) ==
  IF HostAgrees(phase)
  THEN /\ session' = IF phase = "secret" THEN "none" ELSE phase
       /\ trusts' = (trusts \/ phase = "secret") /\ UNCHANGED pin
  ELSE IF phase = "certificate" THEN session' = "asked" /\ UNCHANGED <<pin, trusts>>
  ELSE session' = "none" /\ pin' = "none" /\ UNCHANGED trusts
HostBegins == session' = "asked" /\ pin' = "none" /\ UNCHANGED trusts
HostForgets == session' = "none" /\ pin' = "none" /\ trusts' = FALSE

(* Restarted, it has its list, and no handshake.                           *)
HostRestarts == session' = "none" /\ pin' = "none" /\ UNCHANGED <<clientVars, trusts>>

(* The user types what the client shows, or mistypes it.                   *)
TypePin ==
  /\ session = "asked" /\ pin = "none" /\ pin' \in {"right", "wrong"}
  /\ UNCHANGED <<clientVars, session, trusts>>

-----------------------------------------------------------------------------
(* The process ends and says so.                                           *)
Ends(said) == client' = "idle" /\ outcome' = said /\ UNCHANGED <<action, https, polls>>
Goes(next) == client' = next /\ UNCHANGED <<keys, action, https, outcome, unpairing>>
(* The label cleanup of gs_pair, with an error.                            *)
CleanupStays ==  \* mutant: gs_unpair is not called
  Ends("failed") /\ UNCHANGED <<keys, unpairing>>
Cleanup == Goes("unpair") /\ UNCHANGED polls

Start ==
  /\ client = "idle" /\ client' = "keys" /\ action' \in {"pair", "unpair"}
  /\ https' = TRUE /\ polls' = 0 /\ outcome' = "none" /\ unpairing' = "none"
  /\ UNCHANGED <<keys, hostVars>>

(* load_cert.  A missing key file ends the process, an empty one does not: *)
(* it then has no key.                                                     *)
LoadKeys ==
  /\ client = "keys" /\ UNCHANGED <<unpairing, hostVars>>
  /\ CASE keys = "none" ->   /\ client' = "writeCert" /\ keys' = "empty"
                             /\ UNCHANGED <<action, https, polls, outcome>>
       [] keys = "empty" -> Ends("noKeys") /\ UNCHANGED keys
       [] OTHER ->          Goes("port") /\ UNCHANGED polls
(* mkcert_save opens all files, then writes and closes one after the other.*)
WriteKeys ==
  /\ \/ client = "writeCert" /\ keys' = "certOnly" /\ client' = "writeKey"
     \/ client = "writeKey" /\ keys' = "both" /\ client' = "port"
  /\ UNCHANGED <<action, https, polls, outcome, unpairing, hostVars>>

(* load_server_status asks over HTTP for the port of HTTPS, then over HTTPS,*)
(* and over HTTP again when that failed, as it does without a key; over    *)
(* HTTP the host does not say that it knows the client.  A host whose      *)
(* version is not supported is refused after either.                       *)
PortComes == client = "port" /\ Goes("serverinfo") /\ UNCHANGED <<polls, hostVars>>
NoHost ==
  /\ client = "port" \/ (client = "serverinfo" /\ (https => keys = "both"))
  /\ Ends("noHost") /\ UNCHANGED <<keys, unpairing, hostVars>>
HttpsFails ==
  /\ client = "serverinfo" /\ https /\ https' = FALSE
  /\ UNCHANGED <<keys, client, action, polls, outcome, unpairing, hostVars>>
HttpsFailsKeyless == keys # "both" /\ HttpsFails
(* A paired client has nothing to pair.                                    *)
ServerInfoComes ==
  /\ client = "serverinfo" /\ (https => keys = "both")
  /\ CASE action = "unpair" -> Goes("unpair") /\ UNCHANGED <<polls, hostVars>>
       [] action = "pair" /\ https /\ trusts ->
            Ends("already") /\ UNCHANGED <<keys, unpairing, hostVars>>
       [] OTHER -> Goes("salt") /\ UNCHANGED <<polls, hostVars>>

(* The first request comes with a new salt: the host begins a handshake.   *)
SendSalt ==
  client = "salt" /\ Goes("certificate") /\ UNCHANGED polls /\ HostBegins
(* pair_request_wait_paired asks again while no PIN is typed.              *)
Unconfirmed == client = "certificate" /\ ~HostAgrees("certificate") /\ HostHandles("certificate")
WaitForever ==  \* mutant: elapsed_ms does not grow
  Unconfirmed /\ Goes("certificate") /\ UNCHANGED polls
WaitOnceMore ==  \* mutant: the limit is one poll off
  /\ Unconfirmed
  /\ IF polls > MaxPolls THEN Cleanup ELSE polls' = polls + 1 /\ Goes("certificate")
WaitAgain ==
  /\ Unconfirmed
  /\ IF polls >= MaxPolls THEN Cleanup ELSE polls' = polls + 1 /\ Goes("certificate")

(* What becomes of the client when the host has agreed.  It knows from the *)
(* answer to its response whether both sides have one PIN; then it signs   *)
(* its secret.                                                             *)
Proceed(phase) ==
  CASE phase = "certificate" -> Goes("challenge") /\ UNCHANGED polls
    [] phase = "challenge"   -> Goes("response") /\ UNCHANGED polls
    [] phase = "response"    -> IF pin = "right" /\ keys = "both" THEN Goes("secret") /\ UNCHANGED polls
                                ELSE Cleanup
    [] phase = "secret"      -> Ends("paired") /\ UNCHANGED <<keys, unpairing>>
Answered(phase) ==
  /\ client = phase /\ (phase = "certificate" => HostAgrees(phase))
  /\ HostHandles(phase)
  /\ IF HostAgrees(phase) THEN Proceed(phase) ELSE Cleanup
(* The request fails before the host has it, or after; or the client finds *)
(* something else wrong with the answer.                                   *)
RequestFails(phase) ==
  /\ client = phase /\ Cleanup /\ (HostHandles(phase) \/ UNCHANGED hostVars)
SaltFails == client = "salt" /\ Cleanup /\ (HostBegins \/ UNCHANGED hostVars)

(* gs_unpair succeeds with any answer: unlike the other requests it does   *)
(* not look at the status, so that a host that refuses has been unpaired   *)
(* for main.  gs_pair does not look at its result.                         *)
Unpair ==
  /\ client = "unpair" /\ UNCHANGED keys
  /\ \/ unpairing' = "obeyed" /\ HostForgets
     \/ unpairing' \in {"refused", "unheard"} /\ UNCHANGED hostVars
  /\ Ends("failed") \/ (action = "unpair" /\ unpairing' # "unheard" /\ Ends("unpaired"))

(* The page, or the system, kills the process wherever it is.              *)
Killed ==
  /\ client # "idle" /\ Ends("killed")
  /\ UNCHANGED <<keys, unpairing, hostVars>>

Works ==
  \/ LoadKeys \/ WriteKeys \/ PortComes \/ HttpsFailsKeyless \/ ServerInfoComes
  \/ SendSalt \/ WaitAgain \/ Unpair
  \/ \E phase \in Phases : Answered(phase)
Fails == NoHost \/ HttpsFails \/ SaltFails \/ \E phase \in Phases : RequestFails(phase)
Next == Start \/ Works \/ Fails \/ Killed \/ TypePin \/ HostRestarts
(* A request returns, with an answer if not with an error; no error and no *)
(* PIN is owed.                                                            *)
Spec == Init /\ [][Next]_vars /\ WF_vars(Works)

-----------------------------------------------------------------------------
(* Types of the client's and the host's state.                             *)
PairingTypeOK ==
  /\ keys \in {"none", "empty", "certOnly", "both"}
  /\ client \in Phases \cup {"idle", "keys", "writeCert", "writeKey", "port", "serverinfo", "salt", "unpair"}
  /\ action \in {"pair", "unpair"}
  /\ https \in BOOLEAN /\ polls \in 0..MaxPolls
  /\ outcome \in Outcomes 
  /\ unpairing \in {"none", "obeyed", "refused", "unheard"}
  /\ session \in Phases \cup {"none", "asked"} /\ pin \in {"none", "right", "wrong"}
  /\ trusts \in BOOLEAN

(* What the client said last, against the host's list: when it says that   *)
(* it is paired it is in the list, with both keys; and wherever in the four*)
(* phases a message was lost or the host restarted, a client that says it  *)
(* has failed has asked the host to forget it, and is in the list only if  *)
(* the host refused or did not hear that (client.c:711).  What "unpaired"  *)
(* says is not promised: gs_unpair says it also when the host refused.     *)
SidesAgree ==
  /\ outcome \in {"paired", "already"} => trusts /\ keys = "both"
  /\ outcome = "failed" => unpairing # "none" /\ (trusts => unpairing # "obeyed")

(* Pairing ends, whether or not anybody types the PIN (client.c:90).       *)
PairingReturns == client # "idle" ~> client = "idle"
=============================================================================
