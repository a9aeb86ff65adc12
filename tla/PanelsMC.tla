------------------------------ MODULE PanelsMC ------------------------------
(***************************************************************************)
(* A small instance of the panels of the page for TLC: what hangs from a   *)
(* result, the keys of the owner, and the assistant.  They share no state  *)
(* of the model, so that each behaviour is of one of them.                 *)
(***************************************************************************)
EXTENDS ResultPanels, KeysPanel, Assistant, TLC

CONSTANTS video, audio, own, usual

Servers == {own, usual}

(* The two servers are interchangeable. *)
ServerSymmetry == Permutations(Servers)

(* Nothing, everything, or everything but the button of a translation, which is
   disabled while there are changes to save. *)
Screens ==
    LET all == {"next", "translate-provider", "translate-target", "translate-start", "burn-start",
                "dl-srt"}
    IN  {{}, all, all \ {"translate-start"}}

VARIABLE used       \* the panel that the person uses

vars == <<used, panelsVars, keysVars, assistantVars>>

Init ==
    /\ used \in {"results", "keys", "assistant"}
    /\ PanelsInit /\ KeysInit /\ AssistantInit
    /\ used /= "keys" => keys = Unsaved

Next ==
    \/ used = "results" /\ PanelsNext /\ UNCHANGED <<used, keysVars, assistantVars>>
    \/ used = "keys" /\ KeysNext /\ UNCHANGED <<used, panelsVars, assistantVars>>
    \/ used = "assistant" /\ AssistantNext /\ UNCHANGED <<used, panelsVars, keysVars>>

Spec == Init /\ [][Next]_vars
=============================================================================
