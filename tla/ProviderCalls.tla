---------------------------- MODULE ProviderCalls ---------------------------
(***************************************************************************)
(* One request to an external provider (provider_http.py, adapters.py):    *)
(* retries of what is transient, one more try of a compatible server       *)
(* without response_format, and, for a base URL of the space, the guard of *)
(* the network before every attempt (net_guard.py) with the connection     *)
(* pinned to the address it allowed (pinned_transport.py), while the name  *)
(* may come to resolve to something else.                                  *)
(***************************************************************************)
EXTENDS KeyLoan

CONSTANTS
    MaxRetries,     \* MAX_RETRIES (3 in the code)
    Resolutions,    \* what the name of a base URL may resolve to: sets of classes of addresses
    AllowPrivate,   \* ALLOW_PRIVATE_BASE_URLS
    Plain           \* the base URLs that are http, not https

Classes == {"public", "private", "forbidden"}

ASSUME ProviderAssumption ==
    /\ MaxRetries \in Nat
    /\ Resolutions \subseteq SUBSET Classes /\ AllowPrivate \in BOOLEAN

VARIABLES
    dns,        \* what the name resolves to now
    call,       \* post_json: its step, attempt, whether it asks for response_format, the pinned address
    sent        \* the last request that went out: its key, base URL and address

callVars == <<call, sent>>
NoCall == [step |-> "none", attempt |-> 0, format |-> TRUE, address |-> "none"]
NoRequest == [key |-> NoCred, url |-> NoUrl, address |-> "none"]
CallSteps == {"none", "resolve", "connect", "wait", "ok", "failed"}

CallTypeOK ==
    /\ dns \in Resolutions
    /\ call \in [step: CallSteps, attempt: 0..MaxRetries, format: BOOLEAN,
                 address: Classes \cup {"none", "fixed"}]
    /\ sent = NoRequest \/ sent \in [key: Secrets, url: Secrets \cup {NoUrl}, address: Classes \cup {"fixed"}]

CallInit == dns \in Resolutions /\ call = NoCall /\ sent = NoRequest
-----------------------------------------------------------------------------
(* assert_url_allowed, on the classes that classify_address tells apart.   *)
Allowed(url, classes) ==
    /\ classes /= {} /\ "forbidden" \notin classes
    /\ "private" \in classes => AllowPrivate
    /\ url \in Plain => classes = {"private"}

NameMoves ==
    /\ \E r \in Resolutions \ {dns} : dns' = r
    /\ UNCHANGED <<row, channelVars, loanVars, callVars>>
-----------------------------------------------------------------------------
(* _openai_translator goes to the base URL of the credential; a voice      *)
(* always to the fixed host of its provider.                               *)
Target(kind) == IF kind = "translate" THEN lease.url ELSE NoUrl

(* The guard, waited for before each attempt: with a name that is not      *)
(* allowed no request goes out.  The connection is pinned to one of the    *)
(* addresses it saw.                                                       *)
Resolve(kind) ==
    /\ call.step = "resolve"
    /\ \/ /\ Target(kind) = NoUrl
          /\ call' = [call EXCEPT !.step = "connect", !.address = "fixed"]
       \/ /\ Target(kind) /= NoUrl /\ Allowed(Target(kind), dns)
          /\ \E a \in dns : call' = [call EXCEPT !.step = "connect", !.address = a]
       \/ /\ Target(kind) /= NoUrl /\ ~Allowed(Target(kind), dns)
          /\ call' = [call EXCEPT !.step = "failed"]
    /\ UNCHANGED <<row, channelVars, loanVars, dns, sent>>

(* A connection to whatever the name is now. *)
ConnectMutant(kind) ==
    /\ call.step = "connect"
    /\ call' = [call EXCEPT !.step = "wait"]
    /\ \E a \in dns : sent' = [key |-> lease.key, url |-> Target(kind), address |-> a]
    /\ UNCHANGED <<row, channelVars, loanVars, dns>>

(* connect_tcp opens the address of the target, whatever the name is now.  *)
Connect(kind) ==
    /\ call.step = "connect"
    /\ call' = [call EXCEPT !.step = "wait"]
    /\ sent' = [key |-> lease.key, url |-> Target(kind), address |-> call.address]
    /\ UNCHANGED <<row, channelVars, loanVars, dns>>

(* 429, 5xx, the network and timeouts are tried again, while the total     *)
(* time allows it.                                                         *)
ProviderFails ==
    /\ call.step = "wait"
    /\ \/ /\ call.attempt < MaxRetries
          /\ call' = [call EXCEPT !.step = "resolve", !.attempt = @ + 1]
       \/ call' = [call EXCEPT !.step = "failed"]
    /\ UNCHANGED <<row, channelVars, loanVars, dns, sent>>

(* 401, 402, 403 and quotas are definitive, and so is what the provider    *)
(* rejects, unless a compatible server may do without response_format.     *)
ProviderRefuses(kind) ==
    /\ call.step = "wait"
    /\ \/ call' = [call EXCEPT !.step = "failed"]
       \/ /\ Target(kind) /= NoUrl /\ call.format
          /\ call' = [NoCall EXCEPT !.step = "resolve", !.format = FALSE]
    /\ UNCHANGED <<row, channelVars, loanVars, dns, sent>>

(* A 2xx whose content is not as many texts as were sent, or not audio, is *)
(* a failure as well.                                                      *)
ProviderAnswers ==
    /\ call.step = "wait"
    /\ call' = [call EXCEPT !.step = "ok"] \/ call' = [call EXCEPT !.step = "failed"]
    /\ UNCHANGED <<row, channelVars, loanVars, dns, sent>>

CallStep(kind) ==
    Resolve(kind) \/ Connect(kind) \/ ProviderFails \/ ProviderRefuses(kind) \/ ProviderAnswers
-----------------------------------------------------------------------------
(* A translation sends a key to the base URL it was saved with, never to   *)
(* that of another version, and only to an address the guard allows,       *)
(* though the name may have moved since it was looked up                   *)
(* (net_guard.py:98-118, pinned_transport.py:30-40).                       *)
KeyGoesWhereItMay(kind) ==
    sent /= NoRequest =>
        /\ sent.url = NoUrl \/ Allowed(sent.url, {sent.address})
        /\ kind = "translate" => [key |-> sent.key, url |-> sent.url] \in Credentials
=============================================================================
