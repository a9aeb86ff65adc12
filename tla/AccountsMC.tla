----------------------------- MODULE AccountsMC -----------------------------
(***************************************************************************)
(* Two workspaces of ana, one of them with beto as OWNER, EDITOR or VIEWER *)
(* and perhaps an invitation of beto or ana on the way; two first sign-ins *)
(* of a third person whose e-mail may be ana's.                            *)
(***************************************************************************)
EXTENDS Accounts, TLC

CONSTANTS ana, beto, l1, l2, s1, s2, inv, k1, e1

MCProfile == [l \in Login |-> [subject |-> "carla", email |-> e1]]
MCUserId == ana :> 1 @@ beto :> 2 @@ l1 :> 3 @@ l2 :> 4
Blank(S) == [x \in S |-> None]
MCStarts ==
    {[members |-> s1 :> (ana :> "OWNER" @@ beto :> role @@ Blank(Person))
               @@ s2 :> (ana :> "OWNER" @@ beto :> "EDITOR" @@ Blank(Person))
               @@ [t \in Login |-> Blank(Person)],
      account |-> ana :> [subject |-> "ana", email |-> email]
               @@ beto :> [subject |-> "beto", email |-> None] @@ Blank(Login),
      session |-> s1 :> [user |-> ana, space |-> s1] @@ s2 :> [user |-> ana, space |-> s2]
               @@ beto :> [user |-> beto, space |-> None] @@ Blank(Login),
      invite |-> inv :> i, key |-> Blank(Key)] :
        <<role, email>> \in (Role \X {e1}) \cup {<<"OWNER", None>>},
        i \in {None, [space |-> s1, role |-> "EDITOR", by |-> ana,
                      accepted |-> None, revoked |-> FALSE, expired |-> FALSE]}}
=============================================================================
