----------------------------- MODULE Assistant -----------------------------
(***************************************************************************)
(* The assistant of the page (ui/assistant.js, domain/assistant.js,        *)
(* domain/assistant-actions.js, api/assistant.js) and the chat of the      *)
(* server behind it (assistant.service.ts, chat.ts).  It exists in local   *)
(* mode only, and talks with the AI of the person: its key is kept in the  *)
(* storage of the browser, which the other tabs of the page share.         *)
(*                                                                         *)
(* What the AI proposes comes as cards, and a card that is applied operates*)
(* the controls of the page.  Those of dubbing and of the external         *)
(* translation are not there in local mode (ui/app.js:187).                *)
(***************************************************************************)
EXTENDS Naturals, Sequences, FiniteSets

CONSTANTS
    NoValue,
    Texts,          \* what the person may write
    Ais,            \* the AIs whose key the person may save
    Pages,          \* the sets of controls that may be there and enabled
    MaxTurns,       \* MAX_TURNS, MAX_MESSAGES
    MaxCards,       \* MAX_ACTIONS: the cards of an answer
    MaxTalk         \* bound on what the person does, here or in another tab

ASSUME TalkBoundsAssumption == MaxTurns \in Nat \ {0} /\ MaxCards \in Nat /\ MaxTalk \in Nat
ASSUME TalkValuesAssumption == NoValue \notin Texts \cup Ais /\ "" \notin Texts

ASSUME PagesAssumption ==
    Pages \subseteq SUBSET {"next", "translate-provider", "translate-target", "translate-start",
                            "burn-start", "dl-srt"}

(* planAction: the controls that each proposal operates, in order. *)
Operations ==
    [go_to_step |-> <<"next">>,
     translate |-> <<"translate-provider", "translate-target", "translate-start">>,
     dub |-> <<"dub-provider", "dub-start">>,
     burn |-> <<"burn-start">>,
     download_srt |-> <<"dl-srt">>]

Card == [name : DOMAIN Operations, state : {"pending", "applied", "dismissed", "failed"}, ran : 0..3]
Turn == [role : {"user", "assistant"}, text : Texts \cup {NoValue}, cards : Seq(Card)]
NoTalk == [step |-> "none", ai |-> NoValue, said |-> <<>>]

VARIABLES
    prefs,      \* what this page has of them
    stored,     \* localStorage
    forgotten,  \* nobody saved an AI since the last one was forgotten (ghost)
    open,       \* the panel is open
    input,
    owed,       \* what was sent last, until it is answered or edited (ghost)
    turns,
    talk,       \* the call under way; said, the roles that reach the AI
    usable,     \* the controls of the page that are there and enabled
    isAudio,    \* what is on the screen is an audio
    moves

prefVars == <<prefs, stored, forgotten>>
talkVars == <<input, owed, turns, talk>>
pageVars == <<usable, isAudio>>
assistantVars == <<prefVars, open, talkVars, pageVars, moves>>

Prefs == [hidden : BOOLEAN, ai : Ais \cup {NoValue}]

AssistantTypeOK ==
    /\ prefs \in Prefs /\ stored \in Prefs
    /\ forgotten \in BOOLEAN /\ open \in BOOLEAN /\ isAudio \in BOOLEAN
    /\ input \in Texts \cup {""} /\ owed \in Texts \cup {NoValue}
    /\ turns \in Seq(Turn) /\ Len(turns) <= MaxTurns
    /\ \A i \in DOMAIN turns : Len(turns[i].cards) <= MaxCards
    /\ talk.step \in {"none", "sent", "aborted"} /\ talk.ai \in Ais \cup {NoValue}
    /\ usable \in {{}} \cup Pages
    /\ moves \in 0..MaxTalk

AssistantInit ==
    /\ stored = [hidden |-> FALSE, ai |-> NoValue] /\ prefs = stored /\ forgotten = TRUE
    /\ open = FALSE /\ input = "" /\ owed = NoValue /\ turns = <<>> /\ talk = NoTalk
    /\ usable = {} /\ isAudio = FALSE /\ moves = 0

Move == moves < MaxTalk /\ moves' = moves + 1
Talking == talk.step /= "none"

-----------------------------------------------------------------------------
(* The conversation                                                        *)

(* addTurn: only the last ones are kept. *)
AddTurn(turn) ==
    LET all == Append(turns, turn)
    IN  SubSeq(all, IF Len(all) > MaxTurns THEN Len(all) - MaxTurns + 1 ELSE 1, Len(all))

(* sanitizeMessages: what reaches the AI begins with a message of the person. *)
Heard(said) ==
    LET asked == {i \in DOMAIN said : said[i].role = "user"}
        first == CHOOSE i \in asked : \A j \in asked : i <= j
    IN  [i \in 1..(Len(said) - first + 1) |-> said[first + i - 1].role]

WritesText(x) ==
    /\ Move
    /\ open /\ ~Talking
    /\ input' = x /\ owed' = NoValue
    /\ UNCHANGED <<prefVars, open, turns, talk, pageVars>>

(* submit: without an AI it asks for one; canSend. *)
Sends ==
    /\ open /\ ~Talking /\ input /= "" /\ prefs.ai /= NoValue
    /\ turns' = AddTurn([role |-> "user", text |-> input, cards |-> <<>>])
    /\ input' = "" /\ owed' = input
    /\ talk' = [step |-> "sent", ai |-> prefs.ai, said |-> Heard(turns')]
    /\ UNCHANGED <<prefVars, open, pageVars, moves>>

(* parseChatResponse: an answer with its proposals, MAX_ACTIONS of them at most. *)
Answered ==
    /\ talk.step = "sent"
    /\ \E n \in 0..MaxCards : \E names \in [1..n -> DOMAIN Operations] :
         turns' = AddTurn(
             [role |-> "assistant", text |-> NoValue,
              cards |-> [i \in 1..n |-> [name |-> names[i], state |-> "pending", ran |-> 0]]])
    /\ talk' = NoTalk /\ owed' = NoValue
    /\ UNCHANGED <<prefVars, open, input, pageVars, moves>>

(* A failure does not eat what was written: it goes back to the field, and its
   turn, which got no answer, is removed. *)
PutBack ==
    /\ turns' = SubSeq(turns, 1, Len(turns) - 1)
    /\ input' = IF input = "" THEN turns[Len(turns)].text ELSE input

(* The server refuses the AI or the job, the AI does not answer, or too late,
   or the call is lost. *)
TalkFails ==
    /\ talk.step = "sent"
    /\ PutBack
    /\ talk' = NoTalk
    /\ UNCHANGED <<prefVars, open, owed, pageVars, moves>>

(* The call was aborted here: its turn stays, without an answer. *)
TalkAborted ==
    /\ talk.step = "aborted"
    /\ talk' = NoTalk /\ owed' = NoValue
    /\ UNCHANGED <<prefVars, open, input, turns, pageVars, moves>>

Aborts == talk' = [talk EXCEPT !.step = IF @ = "sent" THEN "aborted" ELSE @]

-----------------------------------------------------------------------------
(* The AI of the person                                                    *)

OpenPanel ==
    /\ Move
    /\ ~open /\ ~prefs.hidden
    /\ open' = TRUE
    /\ UNCHANGED <<prefVars, talkVars, pageVars>>

ClosePanel ==
    /\ Move
    /\ open
    /\ open' = FALSE
    /\ UNCHANGED <<prefVars, talkVars, pageVars>>

SaveAi(ai) ==
    /\ Move
    /\ open
    /\ prefs' = [prefs EXCEPT !.ai = ai] /\ stored' = prefs' /\ forgotten' = FALSE
    /\ UNCHANGED <<open, talkVars, pageVars>>

(* forgetAi: what is stored loses its AI, whoever saved it. *)
ForgetAi ==
    /\ Move
    /\ open
    /\ Aborts
    /\ prefs' = [prefs EXCEPT !.ai = NoValue] /\ stored' = [stored EXCEPT !.ai = NoValue] /\ forgotten' = TRUE
    /\ UNCHANGED <<open, input, owed, turns, pageVars>>

(* Mutant: what this page remembers is stored. *)
KeepsMutant(hidden) == stored' = [prefs EXCEPT !.hidden = hidden]

(* dismissAssistant, restoreAssistant: of what is stored only this changes. *)
Keeps(hidden) == stored' = [stored EXCEPT !.hidden = hidden]

DismissAssistant ==
    /\ Move
    /\ open
    /\ Aborts
    /\ Keeps(TRUE)
    /\ prefs' = [prefs EXCEPT !.hidden = TRUE]
    /\ open' = FALSE
    /\ UNCHANGED <<forgotten, input, owed, turns, pageVars>>

RestoreAssistant ==
    /\ Move
    /\ prefs.hidden
    /\ Keeps(FALSE)
    /\ prefs' = [prefs EXCEPT !.hidden = FALSE]
    /\ open' = TRUE
    /\ UNCHANGED <<forgotten, talkVars, pageVars>>

(* Another tab saves an AI, or forgets it. *)
OtherTab ==
    /\ Move
    /\ \E ai \in Ais \cup {NoValue} :
         /\ stored' = [stored EXCEPT !.ai = ai]
         /\ forgotten' = (ai = NoValue)
    /\ UNCHANGED <<prefs, open, talkVars, pageVars>>

(* The page is loaded again: loadAssistant. *)
Reloads ==
    /\ Move
    /\ prefs' = stored /\ open' = FALSE
    /\ input' = "" /\ owed' = NoValue /\ turns' = <<>> /\ talk' = NoTalk
    /\ usable' = {} /\ isAudio' = FALSE
    /\ UNCHANGED <<stored, forgotten>>

-----------------------------------------------------------------------------
(* The cards                                                               *)

(* The rest of the page shows, hides and disables its controls. *)
PageChanges ==
    /\ Move
    /\ usable' \in Pages /\ isAudio' \in BOOLEAN
    /\ UNCHANGED <<prefVars, open, talkVars>>

(* Everything is checked before anything is touched. *)
Ready(ops) == \A i \in DOMAIN ops : ops[i] \in usable

(* runOp, one after the other until one fails: how many did something. *)
Ran(ops) ==
    LET reached == {n \in 0..Len(ops) : \A i \in 1..n : ops[i] \in usable}
    IN  CHOOSE n \in reached : \A m \in reached : m <= n

(* The card c of the turn i. *)
IsPending(i, c) == i \in DOMAIN turns /\ c \in DOMAIN turns[i].cards /\ turns[i].cards[c].state = "pending"

(* applyAction *)
Applies(i, c) ==
    /\ Move
    /\ open /\ IsPending(i, c)
    /\ LET card == turns[i].cards[c]
           ops == Operations[card.name]
           tried == Ready(ops) /\ ~(card.name = "burn" /\ isAudio)
           n == IF tried THEN Ran(ops) ELSE 0
       IN  turns' = [turns EXCEPT ![i].cards[c] =
               [card EXCEPT !.ran = n,
                            !.state = IF tried /\ n = Len(ops) THEN "applied" ELSE "failed"]]
    /\ UNCHANGED <<prefVars, open, input, owed, talk, pageVars>>

DismissCard(i, c) ==
    /\ Move
    /\ open /\ IsPending(i, c)
    /\ turns' = [turns EXCEPT ![i].cards[c].state = "dismissed"]
    /\ UNCHANGED <<prefVars, open, input, owed, talk, pageVars>>

AssistantNext ==
    \/ \E x \in Texts : WritesText(x)
    \/ Sends \/ Answered \/ TalkFails \/ TalkAborted
    \/ OpenPanel \/ ClosePanel \/ ForgetAi \/ DismissAssistant \/ RestoreAssistant \/ OtherTab \/ Reloads
    \/ \E ai \in Ais : SaveAi(ai)
    \/ PageChanges
    \/ \E i \in DOMAIN turns : \E c \in DOMAIN turns[i].cards : Applies(i, c) \/ DismissCard(i, c)

AssistantSpec == AssistantInit /\ [][AssistantNext]_assistantVars

-----------------------------------------------------------------------------
(* Properties                                                              *)

(* A key that was forgotten in any tab is not in the storage any more, until
   someone saves one, whatever another tab still remembers (domain/
   assistant.js:48-55); and no call made here with it is waited for. *)
ForgottenStaysForgotten ==
    /\ forgotten => stored.ai = NoValue
    /\ prefs.ai = NoValue => talk.step /= "sent"

(* What the person sent is in the conversation, or again in the field after a
   failure, and not in both; an answer is about a question, and what reaches
   the AI begins and ends with the person (chat.ts:42-46). *)
NothingAskedIsLost ==
    /\ owed /= NoValue =>
         LET asked == turns /= <<>> /\ turns[Len(turns)].role = "user" /\ turns[Len(turns)].text = owed
         IN  IF Talking THEN asked /\ input = "" ELSE input = owed
    /\ \A i \in DOMAIN turns \ {1} : turns[i].role = "assistant" => turns[i - 1].role = "user"
    /\ talk.said /= <<>> => talk.said[1] = "user" /\ talk.said[Len(talk.said)] = "user"

(* What the AI proposes happens when the person applies its card, as a whole or
   not at all (ui/assistant.js:126). *)
CardsAreWhole ==
    \A i \in DOMAIN turns : \A c \in DOMAIN turns[i].cards :
        LET card == turns[i].cards[c]
        IN  card.ran = IF card.state = "applied" THEN Len(Operations[card.name]) ELSE 0

AssistantOnlyProposes ==
    AssistantTypeOK /\ ForgottenStaysForgotten /\ NothingAskedIsLost /\ CardsAreWhole
=============================================================================
