----------------------------- MODULE KeysPanel -----------------------------
(***************************************************************************)
(* The panel where an owner saves the keys of OpenAI and ElevenLabs        *)
(* (ui/external-keys.js, api/external-keys.js, domain/ai-presets.js), over *)
(* the server that keeps them (external-keys.service.ts).                  *)
(*                                                                         *)
(* The list is painted again from scratch whenever anything changes, and   *)
(* what the person was typing has to survive it, while what nobody typed   *)
(* has to follow what is saved.  The drafts of the code are left out: every*)
(* painting copies the fields to them and back, so that a field after it   *)
(* is a function of the field before it.                                   *)
(***************************************************************************)
EXTENDS Naturals, FiniteSets

CONSTANTS
    Null,
    Keys,           \* what the person may paste
    OwnModels,      \* names of models that no service suggests
    MaxCalls,       \* bound on the calls under way
    MaxEdits        \* bound on what the owners do

ASSUME KeysBoundsAssumption == MaxCalls \in Nat /\ MaxEdits \in Nat
ASSUME KeysValuesAssumption ==
    {Null, "", "suggested"} \cap (Keys \cup OwnModels) = {} /\ Null \notin {"put", "delete", "list"}

Owned == {"openai", "elevenlabs"}
Extra == {"url", "model"}

(* AI_PRESETS: OpenAI, any other known service, and one's own. *)
Services == {"openai", "known", "custom"}

Urls == {"", "known", "own"}
Models == {"", "suggested"} \cup OwnModels

Key == [key : Keys, url : Urls, model : Models]
Unsaved == [p \in Owned |-> Null]
KeyTable == [Owned -> Key \cup {Null}]

VARIABLES
    keys,       \* server: the key of each provider
    panel,      \* the page
    pending,    \* the calls under way
    edits

keysVars == <<keys, panel, pending, edits>>

NoCall == [kind |-> Null, of |-> Null, put |-> Null, list |-> Null, step |-> "sent"]
Call ==
    [kind : {"put", "delete", "list", Null}, of : Owned \cup {Null}, put : Key \cup {Null},
     list : KeyTable \cup {Null}, step : {"sent", "served"}]

KeysTypeOK ==
    /\ keys \in KeyTable
    /\ panel \in
         [open : BOOLEAN,                           \* the panel is unfolded
          loaded : BOOLEAN,                         \* the list was read once
          listed : KeyTable,                        \* stored: the list, as last read
          typed : [Owned -> Keys \cup {""}],        \* inputs: the keys being pasted
          text : [url : Urls, model : Models],      \* extraInputs, of OpenAI only
          touched : SUBSET Extra,
          baseline : [url : Urls, model : Models],
          dropped : BOOLEAN,                        \* extraInputs were forgotten by a save
          saving : SUBSET Owned,
          confirming : Owned \cup {Null},
          wanted : [url : Urls, model : Models],    \* what the person last typed (ghost)
          left : SUBSET Extra,                      \* typed before the panel was folded (ghost)
          lost : SUBSET Extra]                      \* typed while they were forgotten (ghost)
    /\ pending \in [1..MaxCalls -> Call]
    /\ edits \in 0..MaxEdits

Edit == edits < MaxEdits /\ edits' = edits + 1

-----------------------------------------------------------------------------
(* Painting                                                                *)

(* defaults: of a saved key, the address of a known service is deduced from
   its host; one's own does not come back and has to be written again. *)
Defaults(listed) ==
    LET view == listed["openai"]
    IN  [url |-> IF view /= Null /\ view.url = "known" THEN "known" ELSE "",
         model |-> IF view = Null THEN "" ELSE view.model]

(* Mutant: what nobody touched is compared with what is saved by now. *)
StaysMutant(p, f) ==
    ~p.dropped /\ (f \in p.touched \/ (p.text[f] /= "" /\ p.text[f] /= Defaults(p.listed)[f]))

(* What the person modified stays, and so does what is not what was painted. *)
Stays(p, f) ==
    ~p.dropped /\ (f \in p.touched \/ (p.text[f] /= "" /\ p.text[f] /= p.baseline[f]))

(* render *)
Painted(p) ==
    [p EXCEPT
        !.text = [f \in Extra |-> IF Stays(p, f) THEN @[f] ELSE Defaults(p.listed)[f]],
        !.baseline = Defaults(p.listed),
        !.dropped = FALSE,
        !.left = {f \in @ : Stays(p, f)}]

KeysInit ==
    /\ keys \in {Unsaved} \cup
         {[Unsaved EXCEPT !["openai"] = [key |-> k, url |-> "known", model |-> "suggested"]] : k \in Keys}
    /\ panel = Painted(
         [open |-> FALSE, loaded |-> FALSE, listed |-> Unsaved, typed |-> [p \in Owned |-> ""],
          text |-> Defaults(Unsaved), touched |-> {}, baseline |-> Defaults(Unsaved), dropped |-> TRUE,
          saving |-> {}, confirming |-> Null, wanted |-> Defaults(Unsaved), left |-> {}, lost |-> {}])
    /\ pending = [n \in 1..MaxCalls |-> NoCall]
    /\ edits = 0

-----------------------------------------------------------------------------
(* Calls                                                                   *)

Free == {n \in 1..MaxCalls : pending[n].kind = Null}

(* A call goes out, once the one that is answered, if any, is over. *)
Calls(over, call) ==
    \E n \in Free \cup over :
        pending' = [m \in 1..MaxCalls |->
                      IF m = n THEN call ELSE IF m \in over THEN NoCall ELSE pending[m]]

Over(n) == pending' = [pending EXCEPT ![n] = NoCall]

List == [NoCall EXCEPT !.kind = "list"]

(* The server lists the keys, saves one as a whole, or removes it. *)
Served(n) ==
    LET c == pending[n]
    IN  /\ c.kind /= Null /\ c.step = "sent"
        /\ c.kind = "delete" => keys[c.of] /= Null
        /\ keys' = IF c.kind = "list" THEN keys ELSE [keys EXCEPT ![c.of] = c.put]
        /\ pending' = [pending EXCEPT ![n].step = "served",
                                      ![n].list = IF c.kind = "list" THEN keys ELSE Null]
        /\ UNCHANGED <<panel, edits>>

(* load: the list arrives, whichever was asked for first. *)
Listed(n) ==
    LET c == pending[n]
    IN  /\ c.kind = "list" /\ c.step = "served"
        /\ panel' = Painted([panel EXCEPT !.listed = c.list, !.loaded = TRUE])
        /\ Over(n)
        /\ UNCHANGED <<keys, edits>>

(* saveKey goes on: the fields of that key are emptied, and those of the server
   forgotten, before the list is read again. *)
KeySaved(n) ==
    LET c == pending[n]
        p == [panel EXCEPT !.typed[c.of] = "", !.saving = @ \ {c.of}]
    IN  /\ c.kind = "put" /\ c.step = "served"
        /\ panel' = IF c.of /= "openai" THEN p
                    ELSE [p EXCEPT !.touched = {}, !.lost = {}, !.left = {}, !.dropped = TRUE,
                                   !.text.url = IF p.dropped THEN @ ELSE ""]
        /\ Calls({n}, List)
        /\ UNCHANGED <<keys, edits>>

(* removeKey goes on. *)
Removed(n) ==
    /\ pending[n].kind = "delete" /\ pending[n].step = "served"
    /\ Calls({n}, List)
    /\ UNCHANGED <<keys, panel, edits>>

(* The server refuses, or the call or its answer is lost: what was typed to be
   saved stays where it was; the other two paint the panel. *)
CallFails(n) ==
    LET c == pending[n]
    IN  /\ c.kind /= Null
        /\ panel' = IF c.kind = "put" THEN [panel EXCEPT !.saving = @ \ {c.of}] ELSE Painted(panel)
        /\ Over(n)
        /\ UNCHANGED <<keys, edits>>

-----------------------------------------------------------------------------
(* The person                                                              *)

Unfold ==
    /\ Edit
    /\ ~panel.open
    /\ panel' = [panel EXCEPT !.open = TRUE]
    /\ IF panel.loaded THEN UNCHANGED pending ELSE Calls({}, List)
    /\ UNCHANGED keys

Fold ==
    /\ Edit
    /\ panel.open
    /\ panel' = Painted([panel EXCEPT !.open = FALSE, !.touched = {}, !.confirming = Null,
                                      !.left = (@ \cup panel.touched) \ panel.lost])
    /\ UNCHANGED <<keys, pending>>

Pastes(p, k) ==
    /\ Edit
    /\ panel.open
    /\ panel' = [panel EXCEPT !.typed[p] = k]
    /\ UNCHANGED <<keys, pending>>

(* The fields F of the server are written: by hand, or by the menu of services. *)
Writes(F, values) ==
    panel' = [panel EXCEPT
        !.text = [f \in Extra |-> IF f \in F THEN values[f] ELSE @[f]],
        !.wanted = [f \in Extra |-> IF f \in F THEN values[f] ELSE @[f]],
        !.touched = @ \cup F,
        !.lost = IF panel.dropped THEN @ \cup F ELSE @ \ F]

Types(f, v) ==
    /\ Edit
    /\ panel.open
    /\ Writes({f}, [panel.text EXCEPT ![f] = v])
    /\ UNCHANGED <<keys, pending>>

(* choosePreset: one's own service leaves what was written; another one brings
   its address, and its model unless there is one that nobody suggested.  With
   the fields forgotten there is nothing it can fill. *)
Chooses(service) ==
    /\ Edit
    /\ panel.open /\ ~panel.dropped
    /\ service /= "custom"
    /\ LET model == panel.text.model
           F == IF model \in OwnModels THEN {"url"} ELSE Extra
       IN  Writes(F, [url |-> IF service = "openai" THEN "" ELSE "known",
                      model |-> IF service = "openai" THEN "" ELSE "suggested"])
    /\ UNCHANGED <<keys, pending>>

(* A save of the provider is under way. *)
Saving(p) == p \in panel.saving

(* saveKey: the key that is pasted, with the server of the fields if they are
   there (only OpenAI has them). *)
Saves(p) ==
    /\ Edit
    /\ panel.open
    /\ IF panel.typed[p] = ""
       THEN panel' = Painted(panel) /\ UNCHANGED pending
       ELSE /\ ~Saving(p)
            /\ panel' = [panel EXCEPT !.saving = @ \cup {p}]
            /\ LET theirs == p = "openai" /\ ~panel.dropped
               IN  Calls({}, [NoCall EXCEPT !.kind = "put", !.of = p,
                                !.put = [key |-> panel.typed[p],
                                         url |-> IF theirs THEN panel.text.url ELSE "",
                                         model |-> IF theirs THEN panel.text.model ELSE ""]])
    /\ UNCHANGED keys

(* removeKey: the first click asks, the second one deletes. *)
Deletes(p) ==
    /\ Edit
    /\ panel.open /\ panel.listed[p] /= Null
    /\ IF panel.confirming = p
       THEN /\ panel' = [panel EXCEPT !.confirming = Null]
            /\ Calls({}, [NoCall EXCEPT !.kind = "delete", !.of = p])
       ELSE /\ panel' = Painted([panel EXCEPT !.confirming = p])
            /\ UNCHANGED pending
    /\ UNCHANGED keys

(* cancelConfirm: the button is left, or Esc. *)
ThinksBetter ==
    /\ Edit
    /\ panel.confirming /= Null
    /\ panel' = Painted([panel EXCEPT !.confirming = Null])
    /\ UNCHANGED <<keys, pending>>

(* refresh: another language. *)
Translated ==
    /\ Edit
    /\ panel' = Painted(panel)
    /\ UNCHANGED <<keys, pending>>

(* Another owner, or another tab, saves or removes a key. *)
OtherOwner(p) ==
    /\ Edit
    /\ \E k \in Keys : \E saved \in {Null, [key |-> k, url |-> "", model |-> ""]} :
         saved /= keys[p] /\ keys' = [keys EXCEPT ![p] = saved]
    /\ UNCHANGED <<panel, pending>>

KeysNext ==
    \/ \E n \in 1..MaxCalls : Served(n) \/ Listed(n) \/ KeySaved(n) \/ Removed(n) \/ CallFails(n)
    \/ Unfold \/ Fold \/ ThinksBetter \/ Translated
    \/ \E p \in Owned : Saves(p) \/ Deletes(p) \/ OtherOwner(p) \/ (\E k \in Keys : Pastes(p, k))
    \/ \E u \in Urls : Types("url", u)
    \/ \E m \in Models : Types("model", m)
    \/ \E s \in Services : Chooses(s)

KeysSpec == KeysInit /\ [][KeysNext]_keysVars

-----------------------------------------------------------------------------
(* Properties                                                              *)

(* What the person typed for the server of a key stays as it was, whatever is
   painted meanwhile, until that key is saved or the panel folded; and what
   nobody typed says what the list says is saved, so that replacing a key does
   not carry along a server or a model that nobody sees or saved (ui/
   external-keys.js:59-60, 282-287).  Excepted is what is typed between a save
   and the list that follows it. *)
FieldsAreHonest ==
    \A f \in Extra \ panel.lost :
        IF f \in panel.touched THEN panel.text[f] = panel.wanted[f]
        ELSE \/ panel.dropped
             \/ panel.text[f] = Defaults(panel.listed)[f]
             \/ f \in panel.left /\ panel.text[f] = panel.wanted[f]

(* One save of each key is under way at most: no second click sends a key twice
   (ui/external-keys.js:41). *)
OneSavePerKey ==
    \A p \in Owned :
        Cardinality({n \in 1..MaxCalls : pending[n].kind = "put" /\ pending[n].of = p})
            = IF Saving(p) THEN 1 ELSE 0

KeysPanelIsHonest == KeysTypeOK /\ FieldsAreHonest /\ OneSavePerKey
=============================================================================
