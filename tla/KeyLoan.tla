------------------------------- MODULE KeyLoan ------------------------------
(***************************************************************************)
(* How a job gets the external key of its space: the space saves, replaces *)
(* or removes it (external-keys.service.ts), the gateway hands it out on   *)
(* its internal channel to a job that is RUNNING (internal-server.ts), the *)
(* worker asks for it with retries and holds it for as long as the         *)
(* provider is used (external_key.py), and everything the worker logs is   *)
(* censored meanwhile and for some time after (redaction.py).              *)
(***************************************************************************)
EXTENDS Integers, Sequences, FiniteSets

CONSTANTS
    MaxJobs,        \* the jobs of this worker, taken one after the other
    Credentials,    \* what the owner may save: records of a key and the base URL it is for
    NoCred,
    NoUrl,          \* no base URL of its own: the fixed host of the provider
    MaxAttempts,    \* _MAX_ATTEMPTS (3 in the code)
    RetiredKeep,    \* _RETIRED_KEEP (16 in the code)
    MaxChanges      \* bound on the changes of the saved key

ASSUME KeyLoanAssumption ==
    /\ {MaxJobs, MaxAttempts, RetiredKeep} \subseteq Nat \ {0} /\ MaxChanges \in Nat
    /\ NoCred \notin Credentials
    /\ \A c \in Credentials : c = [key |-> c.key, url |-> c.url] /\ c.key /= NoUrl /\ c.key /= c.url

VARIABLES
    row,        \* the row of each job
    saved,      \* TenantExternalKey of the space
    changes,
    fetch,      \* fetch_credential: step of its request, attempt, answer
    lease,      \* the ExternalCredential of lease_credential
    live,       \* Redactor._live
    retired     \* Redactor._retired

channelVars == <<saved, changes>>
loanVars == <<fetch, lease, live, retired>>

Job == 1..MaxJobs
Values(c) == {c.key, c.url} \ {NoUrl}
Secrets == UNION {Values(c) : c \in Credentials}
NoFetch == [step |-> "none", attempt |-> 0, answer |-> "none", cred |-> NoCred]
Answers == {"none", "key", "throttled", "error", "refused", "missing"}

KeyTypeOK ==
    /\ row \in [Job -> {"QUEUED", "RUNNING", "closed"}]
    /\ saved \in Credentials \cup {NoCred} /\ changes \in 0..MaxChanges
    /\ fetch \in [step: {"none", "sent", "found", "answered"}, attempt: 0..MaxAttempts,
                  answer: Answers, cred: Credentials \cup {NoCred}]
    /\ lease \in Credentials \cup {NoCred}
    /\ live \subseteq Secrets
    /\ retired \in Seq(Secrets) /\ Len(retired) <= RetiredKeep

KeyInit ==
    /\ row = [j \in Job |-> "QUEUED"]
    /\ saved \in Credentials \cup {NoCred} /\ changes = 0
    /\ fetch = NoFetch /\ lease = NoCred
    /\ live = {} /\ retired = <<>>
-----------------------------------------------------------------------------
(* put replaces key, base URL and model together, remove deletes them: what *)
(* is not given is not inherited.                                          *)
Put(c) == saved' = c
Delete == saved /= NoCred /\ saved' = NoCred
OwnerChangesKey ==
    /\ changes < MaxChanges /\ changes' = changes + 1
    /\ Delete \/ \E c \in Credentials \ {saved} : Put(c)
    /\ UNCHANGED <<row, loanVars>>
-----------------------------------------------------------------------------
Answered(a, c) == fetch' = [fetch EXCEPT !.step = "answered", !.answer = a, !.cred = c]

(* handle: the minute's requests, of other workers too, may be used up;    *)
(* then the row is read, which has to be RUNNING.                          *)
Handle(j) ==
    /\ fetch.step = "sent"
    /\ \/ Answered("throttled", NoCred)
       \/ row[j] /= "RUNNING" /\ Answered("refused", NoCred)
       \/ row[j] = "RUNNING" /\ fetch' = [fetch EXCEPT !.step = "found"]
    /\ UNCHANGED <<row, channelVars, lease, live, retired>>

(* reveal: key and base URL come of one read of the row of the space.      *)
Reveal ==
    /\ fetch.step = "found"
    /\ IF saved = NoCred THEN Answered("missing", NoCred) ELSE Answered("key", saved)
    /\ UNCHANGED <<row, channelVars, lease, live, retired>>

(* The request or its answer is lost or late, or the gateway answers 500.  *)
ChannelFails ==
    /\ fetch.step \in {"sent", "found"}
    /\ Answered("error", NoCred)
    /\ UNCHANGED <<row, channelVars, lease, live, retired>>
-----------------------------------------------------------------------------
(* fetch_credential asks; _interpret tells what is transient from what is  *)
(* definitive.                                                             *)
AskKey ==
    /\ fetch.step = "none" /\ lease = NoCred
    /\ fetch' = [NoFetch EXCEPT !.step = "sent", !.attempt = 1]
    /\ UNCHANGED <<row, channelVars, lease, live, retired>>

Transient == fetch.answer \in {"throttled", "error"}

AskAgain ==
    /\ fetch.step = "answered" /\ Transient /\ fetch.attempt < MaxAttempts
    /\ fetch' = [NoFetch EXCEPT !.step = "sent", !.attempt = fetch.attempt + 1]
    /\ UNCHANGED <<row, channelVars, lease, live, retired>>

(* _read_key registers what was received before anybody can log it.        *)
ReadKey ==
    /\ fetch.step = "answered" /\ fetch.answer = "key"
    /\ lease' = fetch.cred
    /\ live' = live \cup Values(fetch.cred)
    /\ fetch' = NoFetch
    /\ UNCHANGED <<row, channelVars, retired>>

(* ExternalKeyError: a definitive answer, or no attempt left.              *)
KeyRefused ==
    /\ fetch.step = "answered" /\ fetch.answer /= "key"
    /\ Transient => fetch.attempt = MaxAttempts
-----------------------------------------------------------------------------
(* Redactor.retire: no longer live, censored while it is among the last    *)
(* ones retired.  One that is there already keeps its place.               *)
Retired(q, v) ==
    IF \E i \in 1..Len(q) : q[i] = v THEN q
    ELSE IF Len(q) < RetiredKeep THEN Append(q, v)
    ELSE Append(Tail(q), v)

RetiredAll(q, c) == IF c.url = NoUrl THEN Retired(q, c.key) ELSE Retired(Retired(q, c.key), c.url)

(* The end of lease_credential, however it is left: both values are        *)
(* retired and the secret is wiped; a request for it is given up.          *)
LeaveLease ==
    /\ fetch' = NoFetch
    /\ lease' = NoCred
    /\ live' = IF lease = NoCred THEN live ELSE live \ Values(lease)
    /\ retired' = IF lease = NoCred THEN retired ELSE RetiredAll(retired, lease)

(* A lease left without an await after the key has come.                   *)
ReadUnusedKey ==
    /\ fetch.step = "answered" /\ fetch.answer = "key"
    /\ retired' = RetiredAll(retired, fetch.cred)
    /\ fetch' = NoFetch
    /\ UNCHANGED <<row, channelVars, lease, live>>

Censored == live \cup {retired[i] : i \in 1..Len(retired)}
-----------------------------------------------------------------------------
(* No log can show a key in use, nor the URL it is used on, from the       *)
(* moment they are received; and nothing stays registered for ever         *)
(* (redaction.py:113, external_key.py:186-210).                            *)
SecretsAreCensored ==
    /\ lease /= NoCred => Values(lease) \subseteq Censored
    /\ live = IF lease = NoCred THEN {} ELSE Values(lease)
=============================================================================
