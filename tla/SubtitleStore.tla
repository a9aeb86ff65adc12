---------------------------- MODULE SubtitleStore ----------------------------
(***************************************************************************)
(* What PUT /v1/jobs/:id/segments promises: the subtitles of a job are one *)
(* register.  A request to edit it takes effect at most once, in one step, *)
(* on the subtitles of that moment, and only if they are the ones its ETag *)
(* names; what it is told agrees with what it did.  A request that got no  *)
(* answer (an error, a dead process) may or may not have taken effect.     *)
(***************************************************************************)
CONSTANTS
    Tasks,          \* the requests
    Content,        \* the versions of the subtitles
    NoEtag,         \* the request carries no ETag
    Edited(_, _)    \* what a request makes of a version

VARIABLES
    content,        \* the subtitles
    approved,       \* the version the ETag of a request names
    landed,         \* the requests that took effect
    answer          \* what each request was told

storeVars == <<content, approved, landed, answer>>

Init ==
    /\ content \in Content
    /\ approved = [t \in Tasks |-> NoEtag]
    /\ landed = {}
    /\ answer = [t \in Tasks |-> "none"]

Ask(t, etag) ==
    /\ answer[t] = "none" /\ t \notin landed
    /\ approved' = [approved EXCEPT ![t] = etag]
    /\ UNCHANGED <<content, landed, answer>>

Land(t) ==
    /\ answer[t] = "none" /\ t \notin landed
    /\ approved[t] \in {NoEtag, content}
    /\ content' = Edited(t, content)
    /\ landed' = landed \cup {t}
    /\ UNCHANGED <<approved, answer>>

Save(t) ==
    /\ answer[t] = "none" /\ t \in landed
    /\ answer' = [answer EXCEPT ![t] = "saved"]
    /\ UNCHANGED <<content, approved, landed>>

(* 409: the subtitles are not the ones the request was made for; 400: they cannot be edited like that. *)
Refuse(t) ==
    /\ answer[t] = "none" /\ t \notin landed
    /\ \/ approved[t] \notin {NoEtag, content} /\ answer' = [answer EXCEPT ![t] = "changed"]
       \/ answer' = [answer EXCEPT ![t] = "rejected"]
    /\ UNCHANGED <<content, approved, landed>>

(* A set of requests gets no answer, one of them maybe just after it took effect. *)
LoseAnswers(S) ==
    /\ \A t \in S : answer[t] = "none"
    /\ answer' = [t \in Tasks |-> IF t \in S THEN "lost" ELSE answer[t]]
    /\ UNCHANGED approved
    /\ \/ UNCHANGED <<content, landed>>
       \/ \E t \in S \ landed :
             /\ approved[t] \in {NoEtag, content}
             /\ content' = Edited(t, content)
             /\ landed' = landed \cup {t}

Next ==
    \/ \E t \in Tasks : Land(t) \/ Save(t) \/ Refuse(t)
    \/ \E t \in Tasks, etag \in Content \cup {NoEtag} : Ask(t, etag)
    \/ \E S \in SUBSET Tasks : LoseAnswers(S)

Spec == Init /\ [][Next]_storeVars
=============================================================================
