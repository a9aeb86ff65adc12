---------------------------- MODULE ResultPanels ----------------------------
(***************************************************************************)
(* What hangs from a transcription on the page: translating and dubbing it *)
(* (ui/ai.js, ui/ai-panel.js), burning it (ui/burn.js), the question about *)
(* what is spent (ui/spend-confirm.js) and the players of what was made    *)
(* and of the original (ui/burn.js, ui/source-audio.js), as the page opens *)
(* and leaves jobs (ui/app.js).                                            *)
(*                                                                         *)
(* The streams of the panels are Tracker's and the editing of the text is  *)
(* GuidedEditor's: here a panel sees the row of its job whenever it likes, *)
(* and the subtitles have or have not changes to save.  The dialog of the  *)
(* question is not taken to be modal: where showModal is missing it is not.*)
(***************************************************************************)
EXTENDS Naturals, Sequences, FiniteSets

CONSTANTS
    Sources,        \* the transcriptions of the person
    Audios,         \* those of them without an image
    Offered,        \* capabilities: the external providers that may be used
    Confs,          \* the servers and models that the key of OpenAI may have
    Nil,
    MaxMade,        \* bound on the jobs made of the transcriptions
    MaxSends,       \* bound on the submissions under way
    MaxGestures     \* bound on what the person does, but for choosing what to dub, and on what
                    \* the owner of the keys does

External == {"openai", "elevenlabs"}
Kinds == {"TRANSLATE", "DUB", "BURN"}
Made == 1..MaxMade
Turns == 1..MaxSends

ASSUME PanelsBoundsAssumption == MaxMade \in Nat /\ MaxSends \in Nat /\ MaxGestures \in Nat
ASSUME PanelsSourcesAssumption ==
    Audios \subseteq Sources /\ Sources \cap Nat = {} /\ Nil \notin Sources \cup Confs \cup Nat \cup Kinds
ASSUME PanelsOfferedAssumption == Offered \subseteq External

(* translateProviders, dubProviders. *)
Providers ==
    [TRANSLATE |-> {"argos"} \cup (Offered \cap {"openai"}), DUB |-> Offered, BURN |-> {"ffmpeg"}]

VARIABLES
    onScreen,      \* results: the transcription on the screen, Nil when there is none
    loaded,     \* its subtitles have been read
    dirty,      \* they have changes to save
    opening,    \* what openJob is reading, Nil when nothing
    starting,   \* startingTranslate, startingDub, starting
    sends,      \* the submissions under way
    question,   \* the dialog: whose question it shows, and what it says
    conf,       \* server: what the key of OpenAI says
    customAi,   \* what the page knows of it
    reads,      \* the answers to the other calls of refreshAiConfig on their way
    track,      \* what each panel shows: a job, what was last seen of it, whether it was lost
    cancels,    \* the cancellation under way of each panel
    player,     \* what the video of the burn and the audio of the original play
    translations, \* the finished translation of each transcription
    source,     \* dub-source: what is dubbed, 0 for the original
    made,       \* server: the jobs
    recents,    \* the history of the page
    gestures

viewVars == <<onScreen, loaded, dirty, opening>>
formVars == <<starting, sends, question>>
confVars == <<conf, customAi, reads>>
panelVars == <<track, cancels, player, translations, source>>
madeVars == <<made, recents>>
panelsVars == <<viewVars, formVars, confVars, panelVars, madeVars, gestures>>

Status == {"live", "COMPLETED", "CLOSED"}
Things == Sources \cup Made \cup {Nil}
NoQuestion == [turn |-> 0, kind |-> Nil, of |-> Nil, provider |-> Nil, fresh |-> FALSE]
NoSend ==
    [step |-> "none", kind |-> Nil, of |-> Nil, provider |-> Nil, old |-> FALSE,
     since |-> {}, read |-> Nil, from |-> 0, agreed |-> NoQuestion, job |-> 0]
NoTrack == [job |-> 0, seen |-> "live", lost |-> "no"]
NoCancel == [job |-> 0, old |-> FALSE]
Silent == [for |-> Nil, url |-> Nil, loads |-> {}]

AnyKind == Kinds \cup {Nil}
AnyProvider == External \cup {"argos", "ffmpeg", Nil}
Question == [turn : 0..MaxSends, kind : AnyKind, of : Sources \cup {Nil},
             provider : AnyProvider, fresh : BOOLEAN]
Send ==
    [step : {"none", "config", "read", "ask", "post", "created"}, kind : AnyKind,
     of : Sources \cup {Nil}, provider : AnyProvider, old : BOOLEAN, since : SUBSET Confs,
     read : Confs \cup {Nil}, from : 0..MaxMade, agreed : Question, job : 0..MaxMade]
Job ==
    [kind : Kinds, of : Sources, provider : AnyProvider, from : 0..MaxMade, agreed : Question,
     by : {"person", "chain"}, status : Status]
Player ==
    [for : Things, url : Things, loads : SUBSET Things]

PanelsTypeOK ==
    /\ onScreen \in Sources \cup {Nil} /\ loaded \in BOOLEAN /\ dirty \in BOOLEAN
    /\ opening \in Things
    /\ starting \in [Kinds -> BOOLEAN]
    /\ sends \in [Turns -> Send]
    /\ question \in Question
    /\ conf \in Confs /\ customAi \in Confs \cup {Nil} /\ reads \in SUBSET Confs
    /\ track \in [Kinds -> [job : 0..MaxMade, seen : Status, lost : {"no", "network", "gone"}]]
    /\ cancels \in [Kinds -> [job : 0..MaxMade, old : BOOLEAN]]
    /\ player \in [{"video", "audio"} -> Player]
    /\ translations \in [Sources -> 0..MaxMade]
    /\ source \in 0..MaxMade
    /\ made \in Seq(Job) /\ Len(made) \in 0..MaxMade
    /\ recents \in SUBSET Made
    /\ gestures \in 0..MaxGestures

PanelsInit ==
    /\ onScreen = Nil /\ loaded = FALSE /\ dirty = FALSE /\ opening = Nil
    /\ starting = [k \in Kinds |-> FALSE]
    /\ sends = [n \in Turns |-> NoSend] /\ question = NoQuestion
    /\ conf \in Confs /\ customAi = Nil /\ reads = {conf}
    /\ track = [k \in Kinds |-> NoTrack] /\ cancels = [k \in Kinds |-> NoCancel]
    /\ player = [p \in {"video", "audio"} |-> Silent]
    /\ translations = [s \in Sources |-> 0] /\ source = 0
    /\ made = <<>> /\ recents = {} /\ gestures = 0

Gesture == gestures < MaxGestures /\ gestures' = gestures + 1

(* results.context: there are subtitles on the screen. *)
Context == onScreen /= Nil /\ loaded

-----------------------------------------------------------------------------
(* The players                                                             *)

(* clear, clearVideo: what was being loaded is aborted, and is not used even if
   it has arrived. *)
Cleared == Silent

(* fetchAndPlay, loadVideo. *)
Loading(p, x) == [p EXCEPT !.for = x, !.loads = @ \cup {x}]

(* show: only an audio has something to be heard. *)
AudioOf(p, s) ==
    IF p.for = s THEN p ELSE IF s \in Audios THEN Loading(Cleared, s) ELSE Cleared

(* renderPanel: the video is that of the burn that the panel shows, once done. *)
VideoOf(p, t) ==
    IF t.job = 0 \/ t.seen /= "COMPLETED" THEN Cleared
    ELSE IF p.for = t.job THEN p
    ELSE Loading(p, t.job)

MediaArrives(p, l) ==
    /\ l \in player[p].loads
    /\ player' = [player EXCEPT ![p].loads = @ \ {l}, ![p].url = IF player[p].for = l THEN l ELSE @]
    /\ UNCHANGED <<viewVars, formVars, confVars, track, cancels, translations, source, madeVars,
                   gestures>>

(* It is gone, it is too big for the page, or the network fails. *)
MediaFails(p, l) ==
    /\ l \in player[p].loads
    /\ player' = [player EXCEPT ![p].loads = @ \ {l}]
    /\ UNCHANGED <<viewVars, formVars, confVars, track, cancels, translations, source, madeVars,
                   gestures>>

-----------------------------------------------------------------------------
(* What the panels show                                                    *)

(* busy, burning: a job whose stream was lost may go on in the server. *)
Busy(k) == track[k].job /= 0 /\ track[k].seen = "live" /\ track[k].lost /= "gone"

(* Mutant: what was chosen stays, whatever is offered now. *)
KeptMutant(chosen, offered) == chosen

(* fill: what was chosen in dub-source stays while it is offered. *)
Kept(chosen, offered) == IF chosen = offered THEN chosen ELSE 0

(* The panel of a kind shows a job so: render, onTranslateChange, renderPanel. *)
Renders(k, t, video) ==
    LET done == k = "TRANSLATE" /\ t.job /= 0 /\ t.seen = "COMPLETED"
        offered == IF done THEN [translations EXCEPT ![made[t.job].of] = t.job] ELSE translations
    IN  /\ track' = [track EXCEPT ![k] = t]
        /\ translations' = offered
        /\ source' = IF done /\ Context THEN Kept(source, offered[onScreen]) ELSE source
        /\ player' = IF k = "BURN" THEN [player EXCEPT !["video"] = VideoOf(video, t)] ELSE player

Shows(k, t) == Renders(k, t, player["video"])

(* adopt, follow: the panel shows the job first as one it knows nothing of,
   which is what takes the video of the one before away. *)
Takes(k, i, seen) ==
    Renders(k, [NoTrack EXCEPT !.job = i, !.seen = seen], Cleared)

(* An event of the stream of a panel brings the row of its job. *)
JobSeen(k) ==
    LET t == track[k]
    IN  /\ t.job /= 0 /\ t.seen = "live" /\ t.lost = "no"
        /\ made[t.job].status /= t.seen
        /\ Shows(k, [t EXCEPT !.seen = made[t.job].status])
        /\ UNCHANGED <<viewVars, formVars, confVars, cancels, madeVars, gestures>>

(* The stream is lost, or the server no longer has the job. *)
Loses(k) ==
    LET t == track[k]
    IN  /\ Gesture
        /\ t.job /= 0 /\ t.seen = "live" /\ t.lost = "no"
        /\ \E how \in {"network", "gone"} : Shows(k, [t EXCEPT !.lost = how])
        /\ UNCHANGED <<viewVars, formVars, confVars, cancels, madeVars>>

Reconnect(k) ==
    /\ Gesture
    /\ track[k].lost = "network"
    /\ Shows(k, [track[k] EXCEPT !.lost = "no"])
    /\ UNCHANGED <<viewVars, formVars, confVars, cancels, madeVars>>

CancelAsked(k) ==
    /\ Gesture
    /\ track[k].job /= 0 /\ track[k].seen = "live" /\ track[k].lost = "no"
    /\ cancels[k].job = 0
    /\ cancels' = [cancels EXCEPT ![k] = [job |-> track[k].job, old |-> FALSE]]
    /\ UNCHANGED <<viewVars, formVars, confVars, track, player, translations, source, madeVars>>

(* The server cancels the job, or leaves it to its worker; its answer is for
   the panel that asked, if it still shows that job. *)
CancelAnswered(k) ==
    LET c == cancels[k]
        t == track[k]
    IN  /\ c.job /= 0
        /\ \E status \in {made[c.job].status}
                  \cup (IF made[c.job].status = "live" THEN {"CLOSED"} ELSE {}) :
             /\ made' = [made EXCEPT ![c.job].status = status]
             /\ IF ~c.old /\ t.job = c.job /\ t.seen = "live"
                THEN Shows(k, [t EXCEPT !.seen = status, !.lost = "no"])
                ELSE UNCHANGED <<track, player, translations, source>>
        /\ cancels' = [cancels EXCEPT ![k] = NoCancel]
        /\ UNCHANGED <<viewVars, formVars, confVars, recents, gestures>>

CancelFails(k) ==
    /\ cancels[k].job /= 0
    /\ cancels' = [cancels EXCEPT ![k] = NoCancel]
    /\ UNCHANGED <<viewVars, formVars, confVars, track, player, translations, source, madeVars,
                   gestures>>

-----------------------------------------------------------------------------
(* Submissions                                                             *)

(* Mutant: an answer is for the panel whatever was opened meanwhile. *)
StandsMutant(n) == TRUE

(* mine === epoch: the panels were not stopped since this was sent. *)
Stands(n) == ~sends[n].old

(* The submission n ends; its button may be used again. *)
Ends(n) ==
    /\ sends' = [sends EXCEPT ![n] = NoSend]
    /\ starting' = IF Stands(n) THEN [starting EXCEPT ![sends[n].kind] = FALSE] ELSE starting

(* spend.ask: the dialog says what n would spend: the provider and the
   characters of the transcription, also when a translation of it is to be
   dubbed.  A new question rejects the one before, whose submission ends. *)
Asks(n, s, fresh) ==
    LET before == question.turn
        rejected == IF before = 0 THEN sends ELSE [sends EXCEPT ![before] = NoSend]
        usable == IF before = 0 THEN starting ELSE [starting EXCEPT ![sends[before].kind] = FALSE]
    IN  /\ question' = [turn |-> n, kind |-> s.kind, of |-> s.of, provider |-> s.provider,
                         fresh |-> fresh]
        /\ sends' = [rejected EXCEPT ![n] = [s EXCEPT !.step = "ask", !.since = {}, !.read = Nil]]
        /\ starting' = [usable EXCEPT ![s.kind] = TRUE]

(* Mutant: a translation is asked about with what the page knew. *)
FirstStepMutant(k, p) == IF p \notin External THEN "post" ELSE "ask"

(* What has to happen before the request of a kind with a provider: what is
   read by an external provider is asked about, a translation after reading
   again the server and the model of the key. *)
FirstStep(k, p) ==
    IF p \notin External THEN "post" ELSE IF k = "TRANSLATE" THEN "config" ELSE "ask"

(* submitTranslate, submitDub, submit. *)
Submit(k, p) ==
    /\ Gesture
    /\ Context /\ ~dirty /\ ~Busy(k) /\ ~starting[k]
    /\ p \in Providers[k] /\ (k = "BURN" => onScreen \notin Audios)
    /\ LET free == {n \in Turns : sends[n].step = "none"}
            n == CHOOSE m \in free : \A o \in free : m <= o
            s == [NoSend EXCEPT !.step = FirstStep(k, p), !.kind = k, !.of = onScreen, !.provider = p,
                                !.since = IF FirstStep(k, p) = "config" THEN {conf} ELSE {}]
        IN  /\ free /= {}
            /\ IF s.step = "ask"
               THEN Asks(n, s, k = "TRANSLATE" => customAi \in {conf, Nil})
               ELSE /\ sends' = [sends EXCEPT ![n] = s]
                    /\ starting' = [starting EXCEPT ![k] = TRUE]
                    /\ UNCHANGED question
    /\ UNCHANGED <<viewVars, confVars, panelVars, madeVars>>

(* The server reads the configuration for n. *)
ConfigRead(n) ==
    /\ sends[n].step = "config"
    /\ sends' = [sends EXCEPT ![n].step = "read", ![n].read = conf]
    /\ UNCHANGED <<viewVars, starting, question, confVars, panelVars, madeVars, gestures>>

(* refreshAiConfig returns, with nothing if it failed: the question says what
   the page knows now, and whether that was so since the person sent this. *)
ConfigArrives(n) ==
    LET s == sends[n]
    IN  /\ s.step \in {"config", "read"}
        /\ customAi' \in {Nil, s.read}
        /\ IF Stands(n) THEN Asks(n, s, customAi' \in s.since \cup {Nil})
           ELSE Ends(n) /\ UNCHANGED question
        /\ UNCHANGED <<viewVars, conf, reads, panelVars, madeVars, gestures>>

(* The person accepts: the request goes out, a dub of what is chosen by now. *)
Accepts ==
    LET n == question.turn
    IN  /\ Gesture
        /\ n /= 0
        /\ sends' = [sends EXCEPT ![n].step = "post", ![n].agreed = question,
                        ![n].from = IF question.kind = "DUB" THEN source ELSE 0]
        /\ question' = NoQuestion
        /\ UNCHANGED <<viewVars, starting, confVars, panelVars, madeVars>>

Declines ==
    /\ Gesture
    /\ question.turn /= 0
    /\ Ends(question.turn)
    /\ question' = NoQuestion
    /\ UNCHANGED <<viewVars, confVars, panelVars, madeVars>>

(* The server creates the job. *)
Serve(n) ==
    LET s == sends[n]
    IN  /\ s.step = "post" /\ Len(made) < MaxMade
        /\ made' = Append(made, [kind |-> s.kind, of |-> s.of, provider |-> s.provider,
                                  from |-> s.from, agreed |-> s.agreed, by |-> "person",
                                  status |-> "live"])
        /\ sends' = [sends EXCEPT ![n] = [s EXCEPT !.step = "created", !.job = Len(made) + 1,
                                             !.agreed = NoQuestion, !.from = 0]]
        /\ UNCHANGED <<viewVars, starting, question, confVars, panelVars, recents, gestures>>

(* Its answer reaches the page: the job is among the recent ones whatever the
   screen shows by now, and its panel follows it unless it was stopped. *)
Started(n) ==
    LET s == sends[n]
    IN  /\ s.step = "created"
        /\ recents' = recents \cup {s.job}
        /\ Ends(n)
        /\ IF Stands(n) THEN Takes(s.kind, s.job, "live")
           ELSE UNCHANGED <<track, player, translations, source>>
        /\ UNCHANGED <<viewVars, question, confVars, cancels, made, gestures>>

(* The server refuses, or the request or its answer is lost. *)
Refused(n) ==
    /\ sends[n].step \in {"post", "created"}
    /\ Ends(n)
    /\ UNCHANGED <<viewVars, question, confVars, panelVars, madeVars, gestures>>

(* change of translate-provider: what the key says is read again. *)
Rereads ==
    /\ Gesture
    /\ Context
    /\ reads' = reads \cup {conf}
    /\ UNCHANGED <<viewVars, formVars, conf, customAi, panelVars, madeVars>>

RereadArrives(c) ==
    /\ c \in reads
    /\ reads' = reads \ {c}
    /\ customAi' \in {Nil, c}
    /\ UNCHANGED <<viewVars, formVars, conf, panelVars, madeVars, gestures>>

(* change of dub-source, as often as the person likes. *)
ChooseSource ==
    /\ Context /\ translations[onScreen] /= 0
    /\ source' = IF source = 0 THEN translations[onScreen] ELSE 0
    /\ UNCHANGED <<viewVars, formVars, confVars, track, cancels, player, translations, madeVars,
                   gestures>>

-----------------------------------------------------------------------------
(* The page                                                                *)

(* stop of the panels: what is under way is of no panel any longer, and an
   open question is rejected. *)
StopPanels ==
    /\ sends' = [n \in Turns |->
         IF sends[n].step \in {"none", "ask"} THEN NoSend ELSE [sends[n] EXCEPT !.old = TRUE, !.since = {}]]
    /\ question' = NoQuestion
    /\ starting' = [k \in Kinds |-> FALSE]
    /\ track' = [k \in Kinds |-> NoTrack]
    /\ cancels' = [k \in Kinds |-> [cancels[k] EXCEPT !.old = cancels[k].job /= 0]]

(* results.hide. *)
Hides ==
    /\ onScreen' = Nil /\ loaded' = FALSE /\ dirty' = FALSE
    /\ player' = [p \in {"video", "audio"} |-> Cleared]

(* openJob, with the leave of the person if there are changes to save. *)
Open(x) ==
    /\ Gesture
    /\ x \in Sources \cup recents
    /\ StopPanels /\ Hides
    /\ opening' = x
    /\ UNCHANGED <<confVars, translations, source, madeVars>>

(* startOver, begin. *)
Leave ==
    /\ Gesture
    /\ onScreen /= Nil \/ opening /= Nil \/ (\E k \in Kinds : track[k].job /= 0)
    /\ StopPanels /\ Hides
    /\ opening' = Nil
    /\ UNCHANGED <<confVars, translations, source, madeVars>>

(* The transcription that is opened, or followed to its end, is shown. *)
Appears ==
    /\ opening \in Sources
    /\ onScreen' = opening /\ opening' = Nil
    /\ player' = [player EXCEPT !["audio"] = AudioOf(@, opening)]
    /\ UNCHANGED <<loaded, dirty, formVars, confVars, track, cancels, translations, source, madeVars,
                   gestures>>

(* Another job is shown by its panel: adopt. *)
Adopts ==
    /\ opening \in Made
    /\ Takes(made[opening].kind, opening, made[opening].status)
    /\ opening' = Nil
    /\ UNCHANGED <<onScreen, loaded, dirty, formVars, confVars, cancels, madeVars, gestures>>

OpenFails ==
    /\ opening /= Nil
    /\ opening' = Nil
    /\ UNCHANGED <<onScreen, loaded, dirty, formVars, confVars, panelVars, madeVars, gestures>>

(* The subtitles arrive; fillDub offers what is there to be dubbed. *)
Loads ==
    /\ onScreen /= Nil /\ ~loaded
    /\ loaded' = TRUE
    /\ source' = Kept(source, translations[onScreen])
    /\ UNCHANGED <<onScreen, dirty, opening, formVars, confVars, track, cancels, player, translations,
                   madeVars, gestures>>

(* The editor has changes, or saves or discards them. *)
Edits ==
    /\ Gesture
    /\ Context
    /\ dirty' = ~dirty
    /\ UNCHANGED <<onScreen, loaded, opening, formVars, confVars, panelVars, madeVars>>

(* fire: the burn chained to an upload is asked for, once, whenever its
   transcription ends; it is adopted when the answer arrives. *)
ChainFires(s) ==
    /\ Gesture
    /\ Len(made) < MaxMade
    /\ s \notin Audios /\ (\A i \in DOMAIN made : ~(made[i].of = s /\ made[i].by = "chain"))
    /\ made' = Append(made, [kind |-> "BURN", of |-> s, provider |-> "ffmpeg", from |-> 0,
                              agreed |-> NoQuestion, by |-> "chain", status |-> "live"])
    /\ UNCHANGED <<viewVars, formVars, confVars, panelVars, recents>>

ChainArrives(i) ==
    /\ i \in DOMAIN made /\ made[i].by = "chain" /\ i \notin recents
    /\ recents' = recents \cup {i}
    /\ Takes("BURN", i, "live")
    /\ UNCHANGED <<viewVars, formVars, confVars, cancels, made, gestures>>

(* Server: a job ends; the owner saves another server or model. *)
JobEnds(i) ==
    /\ i \in DOMAIN made /\ made[i].status = "live"
    /\ \E status \in {"COMPLETED", "CLOSED"} : made' = [made EXCEPT ![i].status = status]
    /\ UNCHANGED <<viewVars, formVars, confVars, panelVars, recents, gestures>>

OwnerSaves(c) ==
    /\ Gesture
    /\ c /= conf
    /\ conf' = c
    /\ sends' = [n \in Turns |-> IF sends[n].step \in {"config", "read"} /\ Stands(n)
                                 THEN [sends[n] EXCEPT !.since = @ \cup {c}] ELSE sends[n]]
    /\ UNCHANGED <<viewVars, starting, question, customAi, reads, panelVars, madeVars>>

PanelsNext ==
    \/ \E p \in {"video", "audio"} : \E l \in player[p].loads : MediaArrives(p, l) \/ MediaFails(p, l)
    \/ \E k \in Kinds :
         \/ JobSeen(k) \/ Loses(k) \/ Reconnect(k)
         \/ CancelAsked(k) \/ CancelAnswered(k) \/ CancelFails(k)
         \/ \E p \in Providers[k] : Submit(k, p)
    \/ \E n \in Turns :
         ConfigRead(n) \/ ConfigArrives(n) \/ Serve(n) \/ Started(n) \/ Refused(n)
    \/ Accepts \/ Declines \/ Rereads \/ (\E c \in reads : RereadArrives(c)) \/ ChooseSource
    \/ \E x \in Sources \cup recents : Open(x)
    \/ Leave \/ Appears \/ Adopts \/ OpenFails \/ Loads \/ Edits
    \/ (\E s \in Sources : ChainFires(s)) \/ (\E i \in Made : ChainArrives(i) \/ JobEnds(i))
    \/ \E c \in Confs : OwnerSaves(c)

PanelsSpec == PanelsInit /\ [][PanelsNext]_panelsVars

-----------------------------------------------------------------------------
(* Properties                                                              *)

(* Nothing is sent to a provider that charges for it without a question that
   the person accepted, about a job of that kind of that transcription with
   that provider; and the question of a translation said a server and a model
   that the key had between the click and the question, or that it did not
   know (ui/ai.js:3-4, 255-260).  Which text of the transcription a dub reads
   is chosen when it is accepted, and what the owner saves once the question
   is on the screen is not in it: neither is promised. *)
SpendsAreAgreed ==
    \A i \in DOMAIN made :
        made[i].provider \in External =>
            LET q == made[i].agreed
            IN  q.kind = made[i].kind /\ q.of = made[i].of /\ q.provider = made[i].provider /\ q.fresh

Current(k) == {n \in Turns : sends[n].kind = k /\ ~sends[n].old}

(* A panel has one submission under way at most, which is what keeps its
   button from a second one, and it is about what is on the screen; so is the
   question. *)
OneSendPerPanel ==
    /\ \A k \in Kinds : Cardinality(Current(k)) = IF starting[k] THEN 1 ELSE 0
    /\ \A n \in Turns : sends[n].step /= "none" /\ ~sends[n].old => sends[n].of = onScreen
    /\ question.turn /= 0 => ~sends[question.turn].old /\ sends[question.turn].step = "ask"
    /\ \A n \in Turns : sends[n].step = "ask" => question.turn = n

(* What a panel follows is of the transcription on the screen: what was sent
   for another one does not come back to it (the burn that an upload chained
   is shown whatever the screen shows). *)
PanelsFollowTheScreen ==
    \A k \in Kinds :
        LET i == track[k].job
        IN  i /= 0 /\ onScreen /= Nil => made[i].of = onScreen \/ made[i].by = "chain"

(* A dub of a translation is of one that ended, of the same transcription. *)
DubsItsTranslation ==
    \A i \in DOMAIN made : made[i].from /= 0 =>
         LET t == made[made[i].from]
         IN  t.kind = "TRANSLATE" /\ t.status = "COMPLETED" /\ t.of = made[i].of

(* What can be played is what is shown: the video, the burn that its panel
   shows as done; the audio, the transcription on the screen.  What arrives
   late is not played (ui/burn.js:135, ui/source-audio.js:49). *)
PlaysWhatIsShown ==
    /\ LET v == player["video"].url
       IN  v /= Nil => track["BURN"].job = v /\ track["BURN"].seen = "COMPLETED"
    /\ LET a == player["audio"].url
       IN  a /= Nil => a = onScreen /\ a \in Audios

PanelsAreHonest ==
    /\ PanelsTypeOK
    /\ OneSendPerPanel /\ PanelsFollowTheScreen
    /\ DubsItsTranslation
    /\ PlaysWhatIsShown
=============================================================================
