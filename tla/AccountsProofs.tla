--------------------------- MODULE AccountsProofs ---------------------------
(***************************************************************************)
(* Accounts and workspaces, for any persons, spaces, invitations and       *)
(* requests in flight.  What a transaction has locked does not change      *)
(* behind it: the owners it counted are owners when it commits, the person *)
(* it removes still belongs elsewhere, and the invitation it uses is free. *)
(***************************************************************************)
EXTENDS Accounts, FiniteSetTheorems, TLAPS

Invitations == [Invite -> Invitation \cup {None}]
ReqType == [pc: Steps, op: Ops, who: Person \cup {None}, from: Session \cup {None},
            space: Space \cup {None}, target: Person \cup {None},
            arg: Role \cup Invite \cup Key \cup Space \cup {None},
            rows: SUBSET Person, want: SUBSET (Person \cup Invite),
            cut: SUBSET (Invite \cup Key), left: SUBSET (Invite \cup Key), seen: Role \cup {None}]

HasOwner(t) == \E u \in Person : members[t][u] = "OWNER"

(* A request names what its route takes, in a space that has an owner. *)
Shape(r) ==
    LET q == req[r] IN
    /\ q.pc \in Locking => q.op \in {"role", "remove"}
    /\ q.pc \in Accepting => q.op = "accept"
    /\ q.pc # "idle" =>
         /\ q.who \in Person /\ q.from \in Session /\ q.space \in Space /\ HasOwner(q.space)
         /\ q.op = "invite" => q.arg \in {"VIEWER", "EDITOR"}
         /\ q.op \in {"role", "remove"} => q.target \in Person /\ account[q.target] # None
         /\ q.op = "role" => q.arg \in Role
         /\ q.op = "remove" => q.arg = None
         /\ q.op = "accept" => q.arg \in Invite
         /\ q.op = "switch" => q.arg \in Space

(* What a transaction found stays true while it holds its locks: a row it locked stays there,
   owners it counted stay owners, whom it removes belongs elsewhere ... *)
Decided == {"decided"} \cup Written

RowsHold(r) ==
    LET q == req[r] IN
    /\ \A u \in q.rows : members[q.space][u] # None
    /\ q.pc \in Decided /\ members[q.space][q.target] = "OWNER" /\ q.arg # "OWNER" =>
         \E u \in q.rows : u # q.target /\ members[q.space][u] = "OWNER"
    /\ q.pc \in Decided /\ q.op = "remove" => \E t \in Space : t # q.space /\ members[t][q.target] # None

(* ... the invitation it uses is free ... *)
InviteHolds(r) ==
    req[r].pc \in Accepting => Free(req[r].arg) /\ invite[req[r].arg].space = req[r].space

(* ... and what she had alive is dead, or will be with the commit, as far as the revoking has gone. *)
Hers(r, x) ==
    /\ x \in Invite => invite[x] # None /\ invite[x].space = req[r].space /\ invite[x].by = req[r].target
    /\ x \in Key => key[x] # None /\ key[x].space = req[r].space /\ key[x].by = req[r].target

CutsHold(r) ==
    LET q == req[r] IN
    /\ \A x \in q.left : Hers(r, x)
    /\ \A x \in q.cut : /\ x \in Invite => invite[x] # None /\ invite[x].accepted = None
                        /\ x \in Key => key[x] # None
    /\ q.pc = "revoking" => \A i \in q.left \cap Invite : Gone(i) \/ i \in q.want \/ i \in q.cut
    /\ q.pc = "revoked" => \A x \in q.left : Gone(x) \/ x \in q.cut

HoldsTrue(r) == RowsHold(r) /\ InviteHolds(r) /\ CutsHold(r)

(* What a transaction has in hand fits its step. *)
Fits(r) ==
    LET q == req[r] IN
    /\ q.pc \notin Locking => q.rows = {}
    /\ q.pc \notin Written => q.cut = {} /\ q.left = {}
    /\ q.pc = "owners" => q.want \subseteq Person
    /\ q.pc = "revoking" => q.want \subseteq Invite

(* One transaction for each person, for each row of a member, and for each invitation. *)
Exclusive(r, q) ==
    /\ req[r].pc \in Locking /\ req[q].pc \in Locking => req[r].target # req[q].target
    /\ \A t \in Space, u \in Person : ~(HoldsRow(r, t, u) /\ HoldsRow(q, t, u))
    /\ \A i \in Invite : ~(HoldsRecord(r, i) /\ HoldsRecord(q, i))

RequestsInv ==
    /\ \A r \in Request : Shape(r) /\ Fits(r) /\ HoldsTrue(r)
    /\ \A r \in Request : \A q \in Others(r) : Exclusive(r, q)

(* An invitation is to a space with an owner; who came in with it is who used it. *)
InvitesInv ==
    \A i \in Invite :
      /\ invite[i] # None => HasOwner(invite[i].space)
      /\ granted[i] # {} => /\ invite[i] # None /\ invite[i].accepted # None /\ ~invite[i].revoked
                            /\ granted[i] = {invite[i].accepted}

SpacesInv ==
    /\ \A t \in Space : (\E u \in Person : members[t][u] # None) => HasOwner(t)
    /\ \A u \in Person : account[u] # None => \E t \in Space : members[t][u] # None

(* A sign-in draws ids that are new, and knows whom the provider named. *)
LoginsInv ==
    \A l \in Login :
      /\ login[l].pc \in {"start", "create", "raced", "again"} => account[l] = None
      /\ login[l].pc \in {"known", "in"} =>
           /\ login[l].user \in Person /\ account[login[l].user] # None
           /\ account[login[l].user].subject = Profile[l].subject

AccountsInv == TypeOK /\ RequestsInv /\ InvitesInv /\ SpacesInv /\ LoginsInv
-----------------------------------------------------------------------------
LEMMA ManyHaveAnother ==
    ASSUME NEW S, IsFiniteSet(S), NEW x, ~(Cardinality(S) <= 1) PROVE \E y \in S : y # x
<1> SUFFICES ASSUME \A y \in S : y = x PROVE FALSE
  OBVIOUS
<1>1. CASE S = {}
  BY <1>1, FS_EmptySet
<1>2. CASE S # {}
  <2>1. S = {x}
    BY <1>2
  <2> QED BY <2>1, FS_Singleton
<1> QED BY <1>1, <1>2

(* What is held is read off the request, and what it relies on off the tables. *)
LEMMA UntouchedHolds ==
    ASSUME NEW q \in Request, req'[q] = req[q]
    PROVE  /\ \A t \in Space, u \in Person : HoldsRow(q, t, u)' <=> HoldsRow(q, t, u)
           /\ \A i \in Invite : HoldsRecord(q, i)' <=> HoldsRecord(q, i)
           /\ Fits(q) => Fits(q)'
           /\ UNCHANGED <<members, account, invite, key>> => (Shape(q) => Shape(q)') /\ (HoldsTrue(q) => HoldsTrue(q)')
<1>1. /\ \A t \in Space, u \in Person : HoldsRow(q, t, u)' <=> HoldsRow(q, t, u)
      /\ \A i \in Invite : HoldsRecord(q, i)' <=> HoldsRecord(q, i)
      /\ Fits(q) => Fits(q)'
  BY DEF HoldsRow, WroteRow, HoldsRecord, Fits
<1>2. ASSUME UNCHANGED <<members, account, invite, key>> PROVE (Shape(q) => Shape(q)') /\ (HoldsTrue(q) => HoldsTrue(q)')
  <2>1. Shape(q) => Shape(q)'
    BY <1>2 DEF Shape, HasOwner
  <2>2. RowsHold(q) => RowsHold(q)'
    BY <1>2 DEF RowsHold
  <2>3. InviteHolds(q) => InviteHolds(q)'
    BY <1>2 DEF InviteHolds, Free
  <2>4. CutsHold(q) => CutsHold(q)'
    BY <1>2 DEF CutsHold, Hers, Gone
  <2> QED BY <2>1, <2>2, <2>3, <2>4 DEF HoldsTrue
<1> QED BY <1>1, <1>2

LEMMA ExclusiveStays ==
    ASSUME NEW r \in Request, NEW q \in Request, req'[r] = req[r], req'[q] = req[q], Exclusive(r, q)
    PROVE  Exclusive(r, q)'
<1>1. /\ \A t \in Space, u \in Person : ~(HoldsRow(r, t, u)' /\ HoldsRow(q, t, u)')
      /\ \A i \in Invite : ~(HoldsRecord(r, i)' /\ HoldsRecord(q, i)')
  BY UntouchedHolds DEF Exclusive
<1> QED BY <1>1 DEF Exclusive

(* What a request does to itself, leaving the tables and the others alone. *)
LEMMA RequestOnlyKeeps ==
    ASSUME AccountsInv, NEW r \in Request, UNCHANGED <<tables, login, granted>>, issued' \in 0..MaxRequests,
           req' \in [Request -> ReqType], \A q \in Others(r) : req'[q] = req[q],
           Shape(r)', Fits(r)', HoldsTrue(r)', \A q \in Others(r) : Exclusive(r, q)'
    PROVE  AccountsInv'
<1>1. UNCHANGED <<members, account, session, invite, key>>
  BY DEF tables
<1>2. TypeOK'
  BY <1>1 DEF AccountsInv, TypeOK, ReqType
<1>3. RequestsInv'
  <2>1. ASSUME NEW q \in Others(r) PROVE Shape(q)' /\ Fits(q)' /\ HoldsTrue(q)'
    <3>1. q \in Request /\ Shape(q) /\ Fits(q) /\ HoldsTrue(q)
      BY DEF AccountsInv, RequestsInv, Others
    <3> QED BY <1>1, <3>1, UntouchedHolds
  <2>2. ASSUME NEW q \in Request, NEW p \in Others(q) PROVE Exclusive(q, p)'
    <3>1. CASE q = r
      BY <3>1, <2>2
    <3>2. CASE p = r
      <4>1. Exclusive(r, q)'
        BY <3>2, <2>2 DEF Others
      <4> QED BY <4>1, <3>2 DEF Exclusive
    <3>3. CASE q # r /\ p # r
      <4>1. Exclusive(q, p) /\ req'[q] = req[q] /\ req'[p] = req[p] /\ p \in Request
        BY <3>3, <2>2 DEF AccountsInv, RequestsInv, Others
      <4> QED BY <4>1, ExclusiveStays
    <3> QED BY <3>1, <3>2, <3>3
  <2> QED BY <2>1, <2>2 DEF RequestsInv, Others
<1>4. InvitesInv' /\ SpacesInv' /\ LoginsInv'
  BY <1>1 DEF AccountsInv, InvitesInv, SpacesInv, LoginsInv, HasOwner
<1> QED BY <1>2, <1>3, <1>4 DEF AccountsInv

(* A request outside a transaction holds nothing and relies on nothing. *)
LEMMA NothingHeld ==
    ASSUME NEW r \in Request, req'[r].pc \notin Locking \cup Accepting,
           req'[r].rows = {}, req'[r].cut = {}, req'[r].left = {}
    PROVE  Fits(r)' /\ HoldsTrue(r)' /\ \A q \in Others(r) : Exclusive(r, q)'
<1>1. req'[r].pc \notin Decided /\ req'[r].pc \notin Written /\ req'[r].pc \notin {"owners", "revoking", "revoked", "joined"}
  BY DEF Locking, Written, Decided, Accepting
<1>2. Fits(r)' /\ HoldsTrue(r)'
  BY <1>1 DEF Fits, HoldsTrue, RowsHold, InviteHolds, CutsHold
<1>3. (\A t, u : ~HoldsRow(r, t, u)') /\ \A x : ~HoldsRecord(r, x)'
  BY <1>1 DEF HoldsRow, WroteRow, HoldsRecord
<1>4. \A q \in Others(r) : Exclusive(r, q)'
  BY <1>3 DEF Exclusive
<1> QED BY <1>2, <1>4

LEMMA IdleIsFine ==
    ASSUME AccountsInv, NEW r \in Request, Ends(r)
    PROVE  /\ req' \in [Request -> ReqType] /\ req'[r] = Idle /\ \A q \in Others(r) : req'[q] = req[q]
           /\ Shape(r)' /\ Fits(r)' /\ HoldsTrue(r)' /\ \A q \in Others(r) : Exclusive(r, q)' /\ Exclusive(q, r)'
<1>1. Idle \in ReqType
  BY DEF Idle, ReqType, Steps, Ops
<1>2. req \in [Request -> ReqType]
  BY DEF AccountsInv, TypeOK, ReqType
<1>3. req' \in [Request -> ReqType] /\ req'[r] = Idle /\ \A q \in Others(r) : req'[q] = req[q]
  BY <1>1, <1>2 DEF Ends, Others
<1>4. /\ req'[r].pc = "idle" /\ req'[r].rows = {} /\ req'[r].cut = {} /\ req'[r].left = {}
      /\ "idle" \notin Locking \cup Accepting \cup Decided
  BY <1>3 DEF Idle, Locking, Accepting, Decided, Written
<1>5. Shape(r)'
  BY <1>4 DEF Shape
<1>6. Fits(r)' /\ HoldsTrue(r)' /\ \A q \in Others(r) : Exclusive(r, q)'
  BY <1>4, NothingHeld
<1> QED BY <1>3, <1>5, <1>6 DEF Exclusive

(* A request that ends, or a transaction that fails. *)
LEMMA EndKeeps ==
    ASSUME AccountsInv, NEW r \in Request, Ends(r), Only(tables) PROVE AccountsInv'
<1>1. UNCHANGED <<tables, login, granted>> /\ issued' \in 0..MaxRequests
  BY DEF Only, AccountsInv, TypeOK
<1> QED BY <1>1, IdleIsFine, RequestOnlyKeeps

(* The request as it was, but for its step and what it has found. *)
SameAs(next, old) ==
    /\ next \in ReqType /\ next.pc # "idle"
    /\ next.op = old.op /\ next.who = old.who /\ next.from = old.from /\ next.target = old.target /\ next.arg = old.arg

(* A request that goes on. *)
LEMMA GoesKeeps ==
    ASSUME AccountsInv, NEW r \in Request, req[r].pc # "idle",
           NEW next, SameAs(next, req[r]), req' = [req EXCEPT ![r] = next], Only(tables),
           next.space \in Space, HasOwner(next.space),
           next.pc \in Locking => req[r].op \in {"role", "remove"},
           next.pc \in Accepting => req[r].op = "accept",
           Fits(r)', HoldsTrue(r)', \A q \in Others(r) : Exclusive(r, q)'
    PROVE  AccountsInv'
<1>1. UNCHANGED <<tables, login, granted>> /\ issued' \in 0..MaxRequests /\ UNCHANGED <<members, account>>
  BY DEF Only, AccountsInv, TypeOK, tables
<1>2. req \in [Request -> ReqType]
  BY DEF AccountsInv, TypeOK, ReqType
<1>3. req' \in [Request -> ReqType] /\ req'[r] = next /\ \A q \in Others(r) : req'[q] = req[q]
  BY <1>2 DEF Others, SameAs
<1>4. Shape(r)'
  <2>1. Shape(r)
    BY DEF AccountsInv, RequestsInv
  <2> QED BY <1>1, <1>3, <2>1 DEF Shape, HasOwner, SameAs
<1> QED BY <1>1, <1>3, <1>4, RequestOnlyKeeps

LEMMA ActiveIsMine ==
    ASSUME AccountsInv, NEW r \in Request, req[r].pc # "idle"
    PROVE  /\ req \in [Request -> ReqType] /\ req[r] \in ReqType
           /\ req[r].space \in Space /\ HasOwner(req[r].space) /\ req[r].who \in Person
  BY DEF AccountsInv, TypeOK, ReqType, RequestsInv, Shape

(* The same, when only the step changes. *)
LEMMA GoKeeps ==
    ASSUME AccountsInv, NEW r \in Request, req[r].pc # "idle", NEW pc \in Steps \ {"idle"},
           Goes(r, pc), Only(tables),
           pc \in Locking => req[r].op \in {"role", "remove"},
           pc \in Accepting => req[r].op = "accept",
           Fits(r)', HoldsTrue(r)', \A q \in Others(r) : Exclusive(r, q)'
    PROVE  AccountsInv'
<1>1. req[r] \in ReqType /\ req[r].space \in Space /\ HasOwner(req[r].space)
  BY ActiveIsMine
<1> DEFINE next == [req[r] EXCEPT !.pc = pc]
<1>2. SameAs(next, req[r]) /\ next.space = req[r].space /\ next.pc = pc
  BY <1>1 DEF SameAs, ReqType
<1>3. req' = [req EXCEPT ![r] = next]
  BY DEF Goes
<1> HIDE DEF next
<1> QED BY <1>1, <1>2, <1>3, GoesKeeps

LEMMA AuthoriseKeeps ==
    ASSUME AccountsInv, NEW r \in Request, NEW s \in Session, NEW op \in Ops,
           NEW target \in Person \cup {None}, NEW arg \in Role \cup Invite \cup Key \cup Space \cup {None},
           Authorise(r, s, op, target, arg),
           op = "invite" => arg \in {"VIEWER", "EDITOR"},
           op \in {"role", "remove"} => target \in Person /\ account[target] # None,
           op = "role" => arg \in Role, op = "remove" => arg = None,
           op = "accept" => arg \in Invite, op = "switch" => arg \in Space
    PROVE  AccountsInv'
<1>1. PICK t \in ActiveSpaces(s) :
        req' = [req EXCEPT ![r] = [pc |-> "authorised", op |-> op, who |-> session[s].user, from |-> s,
                   space |-> t, target |-> target, arg |-> arg, rows |-> {}, want |-> {}, left |-> {},
                   cut |-> {}, seen |-> None]]
  BY DEF Authorise
<1>2. session[s] \in [user: Person, space: Space \cup {None}]
  BY DEF Authorise, AccountsInv, TypeOK
<1>3. t \in Space /\ members[t][session[s].user] # None
  BY <1>1, <1>2, NoneAssumption DEF ActiveSpaces, Memberships, IsMember
<1>4. HasOwner(t)
  BY <1>2, <1>3 DEF AccountsInv, SpacesInv
<1> DEFINE next == [pc |-> "authorised", op |-> op, who |-> session[s].user, from |-> s, space |-> t,
                    target |-> target, arg |-> arg, rows |-> {}, want |-> {}, left |-> {},
                   cut |-> {}, seen |-> None]
<1>5. /\ next \in ReqType /\ next.pc = "authorised" /\ next.op = op /\ next.from = s /\ next.who = session[s].user
      /\ next.space = t /\ next.target = target /\ next.arg = arg /\ next.rows = {} /\ next.cut = {} /\ next.left = {}
  BY <1>2, <1>3 DEF ReqType, Steps
<1> HIDE DEF next
<1>6. /\ req' \in [Request -> ReqType] /\ req'[r] = next /\ \A q \in Others(r) : req'[q] = req[q]
      /\ UNCHANGED <<tables, login, granted>> /\ UNCHANGED <<members, account>> /\ issued' \in 0..MaxRequests
  <2>1. req' = [req EXCEPT ![r] = next]
    BY <1>1 DEF next
  <2>2. issued' \in 0..MaxRequests
    BY BoundAssumption DEF Authorise, Issue, AccountsInv, TypeOK
  <2> QED BY <2>1, <2>2, <1>5 DEF Authorise, AccountsInv, TypeOK, ReqType, Others, tables
<1>7. Shape(r)'
  BY <1>2, <1>3, <1>4, <1>5, <1>6 DEF Shape, HasOwner, Locking, Written, Accepting
<1>8. Fits(r)' /\ HoldsTrue(r)' /\ \A q \in Others(r) : Exclusive(r, q)'
  <2>1. req'[r].pc \notin Locking \cup Accepting /\ req'[r].rows = {} /\ req'[r].cut = {} /\ req'[r].left = {}
    BY <1>5, <1>6 DEF Locking, Accepting, Written
  <2> QED BY <2>1, NothingHeld
<1> QED BY <1>6, <1>7, <1>8, RequestOnlyKeeps

LEMMA AskKeeps ==
    ASSUME AccountsInv, NEW r \in Request, Ask(r) PROVE AccountsInv'
<1>1. OfferedRoles = {"VIEWER", "EDITOR"} /\ OfferedRoles \subseteq Role
  BY DEF OfferedRoles, Role
<1>2. PICK s \in Session :
      \/ \E role \in OfferedRoles : Authorise(r, s, "invite", None, role)
      \/ Authorise(r, s, "key", None, None)
      \/ \E x \in Invite \cup Key : Authorise(r, s, "revoke", None, x)
      \/ \E u \in Person, role \in Role : account[u] # None /\ Authorise(r, s, "role", u, role)
      \/ \E u \in Person : account[u] # None /\ Authorise(r, s, "remove", u, None)
      \/ \E i \in Invite : Authorise(r, s, "accept", None, i)
      \/ \E t \in Space : Authorise(r, s, "switch", None, t)
  BY DEF Ask
<1>3. {"invite", "key", "revoke", "role", "remove", "accept", "switch"} \subseteq Ops
  BY DEF Ops
<1>4. CASE \E role \in OfferedRoles : Authorise(r, s, "invite", None, role)
  BY <1>1, <1>3, <1>4, AuthoriseKeeps
<1>5. CASE Authorise(r, s, "key", None, None)
  BY <1>3, <1>5, AuthoriseKeeps
<1>6. CASE \E x \in Invite \cup Key : Authorise(r, s, "revoke", None, x)
  BY <1>3, <1>6, AuthoriseKeeps
<1>7. CASE \E u \in Person, role \in Role : account[u] # None /\ Authorise(r, s, "role", u, role)
  BY <1>3, <1>7, AuthoriseKeeps
<1>8. CASE \E u \in Person : account[u] # None /\ Authorise(r, s, "remove", u, None)
  BY <1>3, <1>8, AuthoriseKeeps
<1>9. CASE \E i \in Invite : Authorise(r, s, "accept", None, i)
  BY <1>3, <1>9, AuthoriseKeeps
<1>10. CASE \E t \in Space : Authorise(r, s, "switch", None, t)
  BY <1>3, <1>10, AuthoriseKeeps
<1> QED BY <1>2, <1>4, <1>5, <1>6, <1>7, <1>8, <1>9, <1>10

(* A step without locks. *)
LEMMA UnlockedStepKeeps ==
    ASSUME AccountsInv, NEW r \in Request, CountPending(r) \/ CheckTarget(r) PROVE AccountsInv'
<1>1. req[r].pc # "idle" /\ Only(tables)
  BY DEF CountPending, CheckTarget, At
<1>2. CASE Ends(r)
  BY <1>1, <1>2, EndKeeps
<1>3. ASSUME NEW pc \in {"counted", "member"}, Goes(r, pc) PROVE AccountsInv'
  <2>1. req'[r].pc = pc
    BY <1>1, <1>3 DEF AccountsInv, TypeOK, Goes
  <2>2. pc \in Steps \ {"idle"} /\ pc \notin Locking /\ pc \notin Accepting
    BY DEF Steps, Locking, Written, Accepting
  <2>3. Fits(r)' /\ HoldsTrue(r)' /\ \A q \in Others(r) : Exclusive(r, q)'
    <3>1. req[r] \in ReqType /\ req[r].rows = {} /\ req[r].cut = {} /\ req[r].left = {}
      BY <1>1 DEF AccountsInv, TypeOK, ReqType, RequestsInv, Fits, CountPending, CheckTarget, At, Locking, Written
    <3>2. req'[r].rows = {} /\ req'[r].cut = {} /\ req'[r].left = {}
      BY <1>1, <1>3, <3>1 DEF AccountsInv, TypeOK, Goes
    <3> QED BY <2>1, <2>2, <3>2, NothingHeld
  <2> QED BY <1>1, <1>3, <2>2, <2>3, GoKeeps
<1> QED BY <1>2, <1>3 DEF CountPending, CheckTarget

(* What a request comes to hold, nobody else held. *)
LEMMA NewExclusive ==
    ASSUME AccountsInv, NEW r \in Request, \A q \in Others(r) : req'[q] = req[q], req'[r].target = req[r].target,
           req'[r].pc \in Locking => req[r].pc \in Locking \/ \A q \in Others(r) : ~HoldsPerson(q, req[r].target),
           \A t \in Space, u \in Person : HoldsRow(r, t, u)' => HoldsRow(r, t, u) \/ \A q \in Others(r) : ~HoldsRow(q, t, u),
           \A i \in Invite : HoldsRecord(r, i)' => HoldsRecord(r, i) \/ \A q \in Others(r) : ~HoldsRecord(q, i)
    PROVE  \A q \in Others(r) : Exclusive(r, q)'
<1> SUFFICES ASSUME NEW q \in Others(r) PROVE Exclusive(r, q)'
  OBVIOUS
<1>1. Exclusive(r, q) /\ q \in Request /\ req'[q] = req[q]
  BY DEF AccountsInv, RequestsInv, Others
<1>2. /\ \A t \in Space, u \in Person : HoldsRow(q, t, u)' <=> HoldsRow(q, t, u)
      /\ \A i \in Invite : HoldsRecord(q, i)' <=> HoldsRecord(q, i)
  BY <1>1, UntouchedHolds
<1>3. req'[r].pc \in Locking /\ req'[q].pc \in Locking => req'[r].target # req'[q].target
  BY <1>1 DEF Exclusive, HoldsPerson
<1>4. \A t \in Space, u \in Person : ~(HoldsRow(r, t, u)' /\ HoldsRow(q, t, u)')
  BY <1>1, <1>2 DEF Exclusive
<1>5. \A i \in Invite : ~(HoldsRecord(r, i)' /\ HoldsRecord(q, i)')
  BY <1>1, <1>2 DEF Exclusive
<1> QED BY <1>3, <1>4, <1>5 DEF Exclusive

(* changeMembership, up to its commit: the tables stay as they are. *)
InChange(next, old) == SameAs(next, old) /\ next.space = old.space /\ next.pc \in Locking

LEMMA ChangeStepKeeps ==
    ASSUME AccountsInv, NEW r \in Request, req[r].pc \in Locking, NEW next, InChange(next, req[r]),
           req' = [req EXCEPT ![r] = next], Only(tables), Fits(r)', HoldsTrue(r)',
           \A t \in Space, u \in Person : HoldsRow(r, t, u)' => HoldsRow(r, t, u) \/ \A q \in Others(r) : ~HoldsRow(q, t, u),
           \A i \in Invite : HoldsRecord(r, i)' => HoldsRecord(r, i) \/ \A q \in Others(r) : ~HoldsRecord(q, i)
    PROVE  AccountsInv'
<1>1. req[r].pc # "idle" /\ req[r].op \in {"role", "remove"}
  BY DEF AccountsInv, RequestsInv, Shape, Locking, Written
<1>2. req \in [Request -> ReqType] /\ req[r].space \in Space /\ HasOwner(req[r].space)
  BY <1>1, ActiveIsMine
<1>3. req'[r] = next /\ \A q \in Others(r) : req'[q] = req[q]
  BY <1>2 DEF Others
<1>4. \A q \in Others(r) : Exclusive(r, q)'
  BY <1>3, NewExclusive DEF InChange, SameAs
<1>5. next.pc \notin Accepting
  BY DEF InChange, Locking, Written, Accepting
<1> QED BY <1>1, <1>2, <1>4, <1>5, GoesKeeps DEF InChange

LEMMA InChangeFacts ==
    ASSUME AccountsInv, NEW r \in Request, req[r].pc \in Locking
    PROVE  /\ req \in [Request -> ReqType] /\ req[r] \in ReqType /\ req[r].pc # "idle" /\ req[r].op \in {"role", "remove"}
           /\ req[r].space \in Space /\ HasOwner(req[r].space) /\ req[r].target \in Person /\ account[req[r].target] # None
           /\ (req[r].op = "role" => req[r].arg \in Role) /\ (req[r].op = "remove" => req[r].arg = None)
           /\ Fits(r) /\ RowsHold(r) /\ CutsHold(r)
<1>1. Shape(r) /\ Fits(r) /\ RowsHold(r) /\ CutsHold(r) /\ req[r].pc # "idle"
  BY DEF AccountsInv, RequestsInv, HoldsTrue, Locking, Written
<1> QED BY <1>1, ActiveIsMine DEF Shape

LEMMA LockPersonKeeps ==
    ASSUME AccountsInv, NEW r \in Request, LockPerson(r) PROVE AccountsInv'
<1>1. /\ req[r].pc = "authorised" /\ req[r].op \in {"role", "remove"} /\ Goes(r, "person") /\ Only(tables)
      /\ \A q \in Others(r) : ~HoldsPerson(q, req[r].target)
  BY DEF LockPerson, At, Granted, Needs
<1>2. Fits(r) /\ req[r].rows = {} /\ req[r].cut = {} /\ req[r].left = {}
  BY <1>1 DEF AccountsInv, RequestsInv, Fits, Locking, Written
<1>3. /\ req'[r].pc = "person" /\ req'[r].target = req[r].target /\ \A q \in Others(r) : req'[q] = req[q]
      /\ req'[r].rows = {} /\ req'[r].cut = {} /\ req'[r].left = {}
  BY <1>1, <1>2 DEF AccountsInv, TypeOK, ReqType, Goes, Others
<1>4. Fits(r)' /\ HoldsTrue(r)'
  BY <1>3 DEF Fits, HoldsTrue, RowsHold, InviteHolds, CutsHold, Decided, Written, Accepting
<1>5. (\A t, u : ~HoldsRow(r, t, u)') /\ \A x : ~HoldsRecord(r, x)'
  BY <1>3 DEF HoldsRow, WroteRow, HoldsRecord, Written, Accepting
<1>6. \A q \in Others(r) : Exclusive(r, q)'
  BY <1>1, <1>3, <1>5, NewExclusive
<1>7. "person" \in Steps \ {"idle"} /\ "person" \notin Accepting
  BY DEF Steps, Locking, Accepting
<1> QED BY <1>1, <1>4, <1>6, <1>7, GoKeeps

LEMMA SnapshotOwnersKeeps ==
    ASSUME AccountsInv, NEW r \in Request, SnapshotOwners(r) PROVE AccountsInv'
<1>1. req[r].pc = "person" /\ req[r].pc \in Locking /\ Only(tables)
  BY DEF SnapshotOwners, At, Locking
<1> DEFINE want == Owners(req[r].space)
           next == [[req[r] EXCEPT !.pc = "owners"] EXCEPT !.want = want]
<1>2. req' = [req EXCEPT ![r] = next]
  BY DEF SnapshotOwners
<1>3. want \subseteq Person
  BY DEF Owners
<1> HIDE DEF want
<1>4. /\ InChange(next, req[r]) /\ next.pc = "owners" /\ next.want = want /\ next.rows = req[r].rows
      /\ next.cut = req[r].cut /\ next.left = req[r].left
  BY <1>1, <1>3, InChangeFacts, ZenonT(30) DEF InChange, SameAs, ReqType, Steps, Locking
<1> HIDE DEF next
<1>5. req'[r] = next
  BY <1>1, <1>2, InChangeFacts
<1>6. Fits(r)' /\ HoldsTrue(r)'
  <2>1. Fits(r) /\ RowsHold(r) /\ CutsHold(r)
    BY <1>1, InChangeFacts
  <2>2. Fits(r)'
    BY <1>1, <1>3, <1>4, <1>5, <2>1 DEF Fits, Locking, Written
  <2>3. RowsHold(r)' /\ InviteHolds(r)'
    BY <1>1, <1>4, <1>5, <2>1 DEF RowsHold, InviteHolds, Decided, Written, Accepting, Only, tables, InChange, SameAs
  <2>4. req[r].cut = {} /\ req[r].left = {}
    BY <1>1, <2>1 DEF Fits, Written
  <2>5. CutsHold(r)'
    BY <1>4, <1>5, <2>4 DEF CutsHold
  <2> QED BY <2>2, <2>3, <2>5 DEF HoldsTrue
<1>7. \A t \in Space, u \in Person : HoldsRow(r, t, u)' => HoldsRow(r, t, u)
  BY <1>1, <1>4, <1>5 DEF HoldsRow, WroteRow, Written, InChange
<1>8. \A i \in Invite : ~HoldsRecord(r, i)'
  BY <1>4, <1>5 DEF HoldsRecord, Written, Accepting
<1> QED BY <1>1, <1>2, <1>4, <1>6, <1>7, <1>8, ChangeStepKeeps

LEMMA LockOwnerKeeps ==
    ASSUME AccountsInv, NEW r \in Request, LockOwner(r) PROVE AccountsInv'
<1>1. req[r].pc = "owners" /\ req[r].pc \in Locking /\ Granted(r)
  BY DEF LockOwner, At, Locking
<1>2. PICK u \in req[r].want : Lowest(u, req[r].want) /\ Locks(r, u)
  BY DEF LockOwner
<1>3. Fits(r) /\ RowsHold(r) /\ CutsHold(r) /\ req[r] \in ReqType /\ req \in [Request -> ReqType]
  BY <1>1, InChangeFacts
<1>4. u \in Person /\ req[r].want \subseteq Person /\ Only(tables)
  BY <1>1, <1>2, <1>3 DEF Fits, Locks
<1> DEFINE rows == IF IsMember(u, req[r].space) THEN req[r].rows \cup {u} ELSE req[r].rows
           want == req[r].want \ {u}
           next == [[req[r] EXCEPT !.want = want] EXCEPT !.rows = rows]
<1>5. req' = [req EXCEPT ![r] = next]
  BY <1>2, <1>3 DEF Locks, ReqType
<1>6. /\ rows \in SUBSET Person /\ want \in SUBSET Person /\ rows \subseteq req[r].rows \cup {u} /\ req[r].rows \subseteq rows
      /\ u \in rows => u \in req[r].rows \/ members[req[r].space][u] # None
  BY <1>3, <1>4 DEF ReqType, IsMember
<1> HIDE DEF rows, want
<1>7. /\ InChange(next, req[r]) /\ next.pc = "owners" /\ next.want = want /\ next.rows = rows
      /\ next.cut = req[r].cut /\ next.left = req[r].left
  BY <1>1, <1>3, <1>6, ZenonT(30) DEF InChange, SameAs, ReqType
<1> HIDE DEF next
<1>8. req'[r] = next
  BY <1>3, <1>5
<1>9. Fits(r)' /\ HoldsTrue(r)'
  <2>1. Fits(r)'
    BY <1>1, <1>3, <1>6, <1>7, <1>8 DEF Fits, Locking, Written
  <2>2. RowsHold(r)' /\ InviteHolds(r)'
    BY <1>1, <1>3, <1>4, <1>6, <1>7, <1>8
       DEF RowsHold, InviteHolds, Decided, Written, Accepting, Only, tables, InChange, SameAs
  <2>3. req[r].cut = {} /\ req[r].left = {}
    BY <1>1, <1>3 DEF Fits, Written
  <2>4. CutsHold(r)'
    BY <1>7, <1>8, <2>3 DEF CutsHold
  <2> QED BY <2>1, <2>2, <2>4 DEF HoldsTrue
<1>10. \A q \in Others(r) : ~HoldsRow(q, req[r].space, u)
  BY <1>1, <1>2 DEF Granted, Needs
<1>11. \A t \in Space, v \in Person : HoldsRow(r, t, v)' => HoldsRow(r, t, v) \/ \A q \in Others(r) : ~HoldsRow(q, t, v)
  <2> SUFFICES ASSUME NEW t \in Space, NEW v \in Person, HoldsRow(r, t, v)', ~HoldsRow(r, t, v)
               PROVE  \A q \in Others(r) : ~HoldsRow(q, t, v)
    OBVIOUS
  <2>1. t = req[r].space /\ v = u
    BY <1>1, <1>6, <1>7, <1>8 DEF HoldsRow, WroteRow, Written, InChange
  <2> QED BY <1>10, <2>1
<1>12. \A i \in Invite : ~HoldsRecord(r, i)'
  BY <1>7, <1>8 DEF HoldsRecord, Written, Accepting
<1> QED BY <1>1, <1>4, <1>5, <1>7, <1>9, <1>11, <1>12, ChangeStepKeeps

LEMMA DecideKeeps ==
    ASSUME AccountsInv, NEW r \in Request, Decide(r) PROVE AccountsInv'
<1>1. req[r].pc = "owners" /\ req[r].pc \in Locking /\ Only(tables)
  BY DEF Decide, At, Locking
<1>2. CASE Ends(r)
  BY <1>1, <1>2, EndKeeps
<1>3. CASE Goes(r, "decided") /\ Permitted(r)
  <2>1. /\ req[r] \in ReqType /\ req[r].target \in Person /\ req[r].space \in Space
        /\ Fits(r) /\ RowsHold(r) /\ CutsHold(r) /\ req[r].op \in {"role", "remove"} /\ req[r].pc # "idle"
    BY <1>1, InChangeFacts
  <2>2. /\ req'[r].pc = "decided" /\ req'[r].target = req[r].target /\ req'[r].arg = req[r].arg
        /\ req'[r].space = req[r].space /\ req'[r].rows = req[r].rows /\ req'[r].op = req[r].op
        /\ req'[r].cut = req[r].cut /\ req'[r].left = req[r].left
        /\ \A q \in Others(r) : req'[q] = req[q]
    BY <1>3, <2>1 DEF AccountsInv, TypeOK, ReqType, Goes, Others
  <2>3. members[req[r].space][req[r].target] = "OWNER" /\ req[r].arg # "OWNER" =>
          \E u \in req[r].rows : u # req[r].target /\ members[req[r].space][u] = "OWNER"
    <3> DEFINE counted == req[r].rows \cap Owners(req[r].space)
    <3>1. IsFiniteSet(counted)
      BY <2>1, FiniteAssumption, FS_Subset DEF ReqType
    <3>2. \A u \in counted : u \in req[r].rows /\ members[req[r].space][u] = "OWNER"
      BY DEF Owners
    <3> QED BY <1>3, <3>1, <3>2, ManyHaveAnother DEF Permitted
  <2>4. req[r].op = "remove" => \E t \in Space : t # req[r].space /\ members[t][req[r].target] # None
    <3>1. Memberships(req[r].target) \subseteq Space /\ IsFiniteSet(Memberships(req[r].target))
      BY FiniteAssumption, FS_Subset DEF Memberships
    <3>2. ASSUME req[r].op = "remove" PROVE ~(Cardinality(Memberships(req[r].target)) <= 1)
      <4>1. Cardinality(Memberships(req[r].target)) \in Nat
        BY <3>1, FS_CardinalityType
      <4> QED BY <1>3, <3>2, <4>1 DEF Permitted
    <3>3. ASSUME req[r].op = "remove" PROVE \E t \in Memberships(req[r].target) : t # req[r].space
      BY <3>1, <3>2, <3>3, ManyHaveAnother
    <3> QED BY <3>3 DEF Memberships, IsMember
  <2>5. Fits(r)' /\ HoldsTrue(r)'
    <3>1. req[r].cut = {} /\ req[r].left = {}
      BY <1>1, <2>1 DEF Fits, Written
    <3>2. Fits(r)' /\ CutsHold(r)' /\ InviteHolds(r)'
      BY <2>2, <3>1 DEF Fits, CutsHold, InviteHolds, Locking, Accepting
    <3>3. RowsHold(r)'
      BY <1>1, <2>1, <2>2, <2>3, <2>4 DEF RowsHold, Only, tables
    <3> QED BY <3>2, <3>3 DEF HoldsTrue
  <2>6. "decided" \in Steps \ {"idle"} /\ "decided" \notin Accepting
    BY DEF Steps, Locking, Accepting
  <2>7. \A q \in Others(r) : Exclusive(r, q)'
    <3>1. \A t \in Space, u \in Person : HoldsRow(r, t, u)' => HoldsRow(r, t, u)
      BY <1>1, <2>2 DEF HoldsRow, WroteRow, Written
    <3>2. \A i \in Invite : ~HoldsRecord(r, i)'
      BY <2>2 DEF HoldsRecord, Written, Accepting
    <3> QED BY <1>1, <2>2, <3>1, <3>2, NewExclusive
  <2> QED BY <1>1, <1>3, <2>1, <2>5, <2>6, <2>7, GoKeeps
<1> QED BY <1>2, <1>3 DEF Decide

(* What she has alive is hers, and an invitation of hers that is not alive is gone. *)
LEMMA LiveFacts ==
    ASSUME AccountsInv, NEW r \in Request
    PROVE  /\ LiveInvites(r) \subseteq Invite /\ LiveKeys(r) \subseteq Key
           /\ \A i \in LiveInvites(r) : invite[i] # None /\ invite[i].accepted = None /\ Hers(r, i)
           /\ \A k \in LiveKeys(r) : key[k] # None /\ Hers(r, k)
           /\ \A i \in Invite : Hers(r, i) => Gone(i) \/ i \in LiveInvites(r)
           /\ \A k \in Key : Hers(r, k) => Gone(k) \/ k \in LiveKeys(r)
<1>1. \A x : ~(x \in Invite /\ x \in Key)
  BY IdAssumption
<1> QED BY <1>1 DEF LiveInvites, LiveKeys, Abandoned, Hers, Gone

LEMMA ChangeRoleKeeps ==
    ASSUME AccountsInv, NEW r \in Request, ChangeRole(r) PROVE AccountsInv'
<1>1. req[r].pc = "decided" /\ req[r].pc \in Locking /\ Granted(r) /\ Only(tables)
  BY DEF ChangeRole, At, Locking
<1>2. CASE Ends(r)
  BY <1>1, <1>2, EndKeeps
<1> DEFINE left == LiveInvites(r) \cup LiveKeys(r)
           next == [[req[r] EXCEPT !.pc = "changed"] EXCEPT !.left = left]
<1>3. CASE req' = [req EXCEPT ![r] = next]
  <2>1. /\ Fits(r) /\ RowsHold(r) /\ req[r] \in ReqType /\ req \in [Request -> ReqType]
        /\ req[r].op \in {"role", "remove"}
    BY <1>1, InChangeFacts
  <2>2. left \in SUBSET (Invite \cup Key)
    BY LiveFacts
  <2>3. \A x \in left : Hers(r, x)
    BY LiveFacts
  <2> HIDE DEF left
  <2>4. /\ InChange(next, req[r]) /\ next.pc = "changed" /\ next.left = left /\ next.rows = req[r].rows /\ next.cut = req[r].cut
    BY <2>1, <2>2, ZenonT(30) DEF InChange, SameAs, ReqType, Steps, Locking, Written
  <2>5. req'[r] = next
    BY <1>3, <2>1
  <2> HIDE DEF next
  <2>6. Fits(r)' /\ HoldsTrue(r)'
    <3>1. req[r].cut = {}
      BY <1>1, <2>1 DEF Fits, Written
    <3>2. Fits(r)' /\ InviteHolds(r)'
      BY <2>4, <2>5 DEF Fits, InviteHolds, Locking, Written, Accepting
    <3>3. RowsHold(r)'
      BY <1>1, <2>1, <2>4, <2>5 DEF RowsHold, Decided, Only, tables, InChange, SameAs
    <3>4. \A x \in left : Hers(r, x)'
      BY <1>1, <2>3, <2>4, <2>5 DEF Hers, Only, tables, InChange, SameAs
    <3>5. CutsHold(r)'
      BY <2>4, <2>5, <3>1, <3>4 DEF CutsHold
    <3> QED BY <3>2, <3>3, <3>5 DEF HoldsTrue
  <2>7. \A q \in Others(r) : ~HoldsRow(q, req[r].space, req[r].target)
    BY <1>1 DEF Granted, Needs
  <2>8. \A t \in Space, u \in Person : HoldsRow(r, t, u)' => HoldsRow(r, t, u) \/ \A q \in Others(r) : ~HoldsRow(q, t, u)
    <3> SUFFICES ASSUME NEW t \in Space, NEW u \in Person, HoldsRow(r, t, u)', ~HoldsRow(r, t, u)
                 PROVE  \A q \in Others(r) : ~HoldsRow(q, t, u)
      OBVIOUS
    <3>1. t = req[r].space /\ u = req[r].target
      BY <1>1, <2>4, <2>5 DEF HoldsRow, WroteRow, InChange, SameAs
    <3> QED BY <2>7, <3>1
  <2>9. \A i \in Invite : ~HoldsRecord(r, i)'
    <3>1. req[r].cut = {}
      BY <1>1, <2>1 DEF Fits, Written
    <3> QED BY <2>4, <2>5, <3>1 DEF HoldsRecord, Accepting
  <2> QED BY <1>1, <1>3, <2>4, <2>6, <2>8, <2>9, ChangeStepKeeps
<1> QED BY <1>2, <1>3 DEF ChangeRole

(* The statements behind the change of the row hold no more rows than it did. *)
LEMMA RevokingKeeps ==
    ASSUME AccountsInv, NEW r \in Request, req[r].pc \in Written, Only(tables),
           NEW pc \in {"revoking", "revoked"}, NEW want \in SUBSET Invite, NEW cut \in SUBSET (Invite \cup Key),
           req' = [req EXCEPT ![r] = [[[req[r] EXCEPT !.pc = pc] EXCEPT !.want = want] EXCEPT !.cut = cut]],
           \A x \in cut : x \in req[r].cut \/ x \in LiveInvites(r) \/ x \in LiveKeys(r),
           \A i \in cut \cap Invite : i \in req[r].cut \/ \A q \in Others(r) : ~HoldsRecord(q, i),
           pc = "revoking" => \A i \in req[r].left \cap Invite : Gone(i) \/ i \in want \/ i \in cut,
           pc = "revoked" => \A x \in req[r].left : Gone(x) \/ x \in cut
    PROVE  AccountsInv'
<1> DEFINE next == [[[req[r] EXCEPT !.pc = pc] EXCEPT !.want = want] EXCEPT !.cut = cut]
<1>1. req[r].pc \in Locking /\ pc \in Locking /\ pc \in Written /\ pc \in Steps \ {"idle"} /\ pc \notin Accepting
  BY DEF Locking, Written, Steps, Accepting
<1>2. /\ Fits(r) /\ RowsHold(r) /\ CutsHold(r) /\ req[r] \in ReqType /\ req \in [Request -> ReqType]
      /\ req[r].op \in {"role", "remove"}
  BY <1>1, InChangeFacts
<1>3. /\ InChange(next, req[r]) /\ next.pc = pc /\ next.want = want /\ next.cut = cut
      /\ next.left = req[r].left /\ next.rows = req[r].rows
  BY <1>1, <1>2, ZenonT(30) DEF InChange, SameAs, ReqType
<1>4. req'[r] = next
  BY <1>2
<1> HIDE DEF next
<1>5. Fits(r)'
  BY <1>1, <1>3, <1>4 DEF Fits
<1>6. RowsHold(r)' /\ InviteHolds(r)'
  BY <1>1, <1>2, <1>3, <1>4 DEF RowsHold, InviteHolds, Decided, Only, tables, InChange, SameAs
<1>7. CutsHold(r)'
  <2>1. \A x \in req[r].left : Hers(r, x) /\ Hers(r, x)'
    BY <1>2, <1>3, <1>4 DEF CutsHold, Hers, Only, tables, InChange, SameAs
  <2>2. ASSUME NEW x \in cut PROVE /\ x \in Invite => invite'[x] # None /\ invite'[x].accepted = None
                                   /\ x \in Key => key'[x] # None
    <3>1. CASE x \in req[r].cut
      BY <1>2, <3>1 DEF CutsHold, Only, tables
    <3>2. CASE x \in LiveInvites(r)
      BY <3>2, LiveFacts, IdAssumption DEF Only, tables
    <3>3. CASE x \in LiveKeys(r)
      BY <3>3, LiveFacts, IdAssumption DEF Only, tables
    <3> QED BY <2>2, <3>1, <3>2, <3>3
  <2>3. \A x : Gone(x) => Gone(x)'
    BY DEF Gone, Only, tables
  <2> QED BY <1>3, <1>4, <2>1, <2>2, <2>3 DEF CutsHold
<1>8. \A t \in Space, u \in Person : HoldsRow(r, t, u)' => HoldsRow(r, t, u)
  BY <1>1, <1>3, <1>4 DEF HoldsRow, WroteRow, InChange, SameAs
<1>9. \A i \in Invite : HoldsRecord(r, i)' => HoldsRecord(r, i) \/ \A q \in Others(r) : ~HoldsRecord(q, i)
  BY <1>1, <1>3, <1>4 DEF HoldsRecord
<1>10. req' = [req EXCEPT ![r] = next]
  BY DEF next
<1> QED BY <1>1, <1>3, <1>5, <1>6, <1>7, <1>8, <1>9, <1>10, ChangeStepKeeps DEF HoldsTrue

LEMMA RevokeStepsKeep ==
    ASSUME AccountsInv, NEW r \in Request, SnapshotInvites(r) \/ CutInvite(r) \/ CutKeys(r) PROVE AccountsInv'
<1>1. req[r].pc \in Written /\ req[r].pc \in Locking /\ Only(tables)
  BY DEF SnapshotInvites, CutInvite, Cuts, CutKeys, At, Written, Locking
<1>2. Fits(r) /\ CutsHold(r) /\ req[r] \in ReqType /\ req \in [Request -> ReqType]
  BY <1>1, InChangeFacts
<1>3. /\ req[r].cut \in SUBSET (Invite \cup Key) /\ \A x \in req[r].left : x \in Invite \cup Key /\ Hers(r, x)
  BY <1>2 DEF ReqType, CutsHold
<1>4. CASE SnapshotInvites(r)
  <2> DEFINE want == LiveInvites(r)
  <2>1. want \in SUBSET Invite /\ \A i \in req[r].left \cap Invite : Gone(i) \/ i \in want
    BY <1>3, LiveFacts
  <2>2. req' = [req EXCEPT ![r] = [[[req[r] EXCEPT !.pc = "revoking"] EXCEPT !.want = want] EXCEPT !.cut = req[r].cut]]
    BY <1>2, <1>4 DEF SnapshotInvites, ReqType
  <2> HIDE DEF want
  <2> QED BY <1>1, <1>3, <2>1, <2>2, RevokingKeeps
<1>5. CASE CutInvite(r)
  <2>1. req[r].pc = "revoking" /\ req[r].want \subseteq Invite
    BY <1>2, <1>5 DEF CutInvite, At, Fits
  <2>2. PICK i \in req[r].want : (\A q \in Others(r) : ~HoldsRecord(q, i)) /\ Cuts(r, i)
    BY <1>5 DEF CutInvite
  <2> DEFINE want == req[r].want \ {i}
             cut == IF i \in LiveInvites(r) THEN req[r].cut \cup {i} ELSE req[r].cut
  <2>3. req' = [req EXCEPT ![r] = [[[req[r] EXCEPT !.pc = "revoking"] EXCEPT !.want = want] EXCEPT !.cut = cut]]
    BY <1>2, <2>1, <2>2 DEF Cuts, ReqType
  <2>4. /\ want \in SUBSET Invite /\ cut \in SUBSET (Invite \cup Key)
        /\ \A x \in cut : x \in req[r].cut \/ x \in LiveInvites(r)
        /\ \A k \in cut : k \in req[r].cut \/ \A q \in Others(r) : ~HoldsRecord(q, k)
    BY <1>3, <2>1, <2>2
  <2>5. ASSUME NEW k \in req[r].left \cap Invite PROVE Gone(k) \/ k \in want \/ k \in cut
    <3>1. Gone(k) \/ k \in req[r].want \/ k \in req[r].cut
      BY <1>2, <2>1 DEF CutsHold
    <3>2. Gone(k) \/ k \in LiveInvites(r)
      BY <1>3, LiveFacts
    <3> QED BY <3>1, <3>2
  <2> HIDE DEF want, cut
  <2> QED BY <1>1, <2>3, <2>4, <2>5, RevokingKeeps
<1>6. CASE CutKeys(r)
  <2>1. req[r].pc = "revoking" /\ req[r].want = {} /\ req[r].want \in SUBSET Invite
    BY <1>6 DEF CutKeys, At
  <2> DEFINE cut == req[r].cut \cup LiveKeys(r)
  <2>2. req' = [req EXCEPT ![r] = [[[req[r] EXCEPT !.pc = "revoked"] EXCEPT !.want = req[r].want] EXCEPT !.cut = cut]]
    BY <1>2, <1>6 DEF CutKeys, ReqType
  <2>3. /\ cut \in SUBSET (Invite \cup Key) /\ \A x \in cut : x \in req[r].cut \/ x \in LiveKeys(r)
        /\ \A i \in cut \cap Invite : i \in req[r].cut
    BY <1>3, LiveFacts, IdAssumption
  <2>4. ASSUME NEW x \in req[r].left PROVE Gone(x) \/ x \in cut
    <3>1. CASE x \in Invite
      BY <1>2, <2>1, <3>1 DEF CutsHold
    <3>2. CASE x \in Key
      BY <1>3, <3>2, LiveFacts
    <3> QED BY <1>3, <3>1, <3>2
  <2> HIDE DEF cut
  <2> QED BY <1>1, <2>1, <2>2, <2>3, <2>4, RevokingKeeps
<1> QED BY <1>4, <1>5, <1>6

(* acceptInvite, up to its commit. *)
LEMMA ClaimInviteKeeps ==
    ASSUME AccountsInv, NEW r \in Request, ClaimInvite(r) PROVE AccountsInv'
<1>1. req[r].pc = "authorised" /\ req[r].op = "accept" /\ Only(tables)
  BY DEF ClaimInvite, At
<1>2. CASE Ends(r)
  BY <1>1, <1>2, EndKeeps
<1>3. CASE Free(req[r].arg) /\ req' = [req EXCEPT ![r].pc = "claimed", ![r].space = invite[req[r].arg].space]
  <2>1. req[r] \in ReqType /\ req \in [Request -> ReqType] /\ req[r].arg \in Invite
    BY <1>1, ActiveIsMine DEF AccountsInv, TypeOK, ReqType, RequestsInv, Shape
  <2> DEFINE space == invite[req[r].arg].space
  <2>2. space \in Space /\ HasOwner(space)
    <3>1. invite[req[r].arg] \in Invitation
      BY <1>3, <2>1 DEF AccountsInv, TypeOK, Free
    <3> QED BY <1>3, <2>1, <3>1 DEF Invitation, AccountsInv, InvitesInv, Free
  <2> HIDE DEF space
  <2> DEFINE next == [[req[r] EXCEPT !.pc = "claimed"] EXCEPT !.space = space]
  <2>3. req' = [req EXCEPT ![r] = next]
    BY <1>3 DEF space
  <2>4. SameAs(next, req[r]) /\ next.space = space /\ next.pc = "claimed" /\ next.rows = req[r].rows /\ next.cut = req[r].cut
        /\ next.left = req[r].left
    BY <2>1, <2>2 DEF SameAs, ReqType, Steps, Accepting
  <2> HIDE DEF next
  <2>5. req'[r] = next /\ \A q \in Others(r) : req'[q] = req[q]
    BY <2>1, <2>3 DEF Others
  <2>6. Fits(r)' /\ HoldsTrue(r)'
    <3>1. req[r].rows = {} /\ req[r].cut = {} /\ req[r].left = {}
      BY <1>1 DEF AccountsInv, RequestsInv, Fits, Locking, Written
    <3>2. Fits(r)' /\ RowsHold(r)' /\ CutsHold(r)'
      BY <2>4, <2>5, <3>1 DEF Fits, RowsHold, CutsHold, Decided, Written
    <3>3. InviteHolds(r)'
      BY <1>1, <1>3, <2>4, <2>5 DEF InviteHolds, Only, tables, Free, space, SameAs
    <3> QED BY <3>2, <3>3 DEF HoldsTrue
  <2>7. \A q \in Others(r) : ~HoldsRecord(q, req[r].arg)
    BY <1>1 DEF ClaimInvite, Granted, Needs
  <2>8. \A q \in Others(r) : Exclusive(r, q)'
    <3>1. \A t, u : ~HoldsRow(r, t, u)'
      BY <2>4, <2>5 DEF HoldsRow, WroteRow, Locking, Written
    <3>2. \A i \in Invite : HoldsRecord(r, i)' => \A q \in Others(r) : ~HoldsRecord(q, i)
      BY <2>4, <2>5, <2>7 DEF HoldsRecord, Written, SameAs
    <3> QED BY <2>4, <2>5, <3>1, <3>2, NewExclusive DEF SameAs, Locking, Written
  <2>9. "claimed" \notin Locking
    BY DEF Locking, Written
  <2> QED BY <1>1, <2>2, <2>3, <2>4, <2>6, <2>8, <2>9, GoesKeeps
<1> QED BY <1>2, <1>3 DEF ClaimInvite

LEMMA JoinKeeps ==
    ASSUME AccountsInv, NEW r \in Request, Join(r) PROVE AccountsInv'
<1>1. req[r].pc = "claimed" /\ req[r].op = "accept" /\ Only(tables) /\ Granted(r)
  BY DEF Join, At
<1>2. /\ req[r] \in ReqType /\ req \in [Request -> ReqType] /\ req[r].space \in Space /\ HasOwner(req[r].space)
      /\ req[r].who \in Person /\ InviteHolds(r) /\ Fits(r)
  BY <1>1, ActiveIsMine DEF AccountsInv, TypeOK, ReqType, RequestsInv, HoldsTrue
<1> DEFINE seen == IF IsMember(req[r].who, req[r].space) THEN members[req[r].space][req[r].who] ELSE None
<1>3. seen \in Role \cup {None} /\ (seen = None => members[req[r].space][req[r].who] = None)
  BY <1>2 DEF AccountsInv, TypeOK, IsMember
<1> HIDE DEF seen
<1> DEFINE next == [[req[r] EXCEPT !.pc = "joined"] EXCEPT !.seen = seen]
<1>4. req' = [req EXCEPT ![r] = next]
  BY DEF Join, seen
<1>5. /\ SameAs(next, req[r]) /\ next.space = req[r].space /\ next.pc = "joined" /\ next.seen = seen
      /\ next.rows = req[r].rows /\ next.cut = req[r].cut /\ next.left = req[r].left
  BY <1>2, <1>3 DEF SameAs, ReqType, Steps, Accepting
<1> HIDE DEF next
<1>6. req'[r] = next /\ \A q \in Others(r) : req'[q] = req[q]
  BY <1>2, <1>4 DEF Others
<1>7. "joined" \notin Locking /\ {"claimed", "joined"} \subseteq Accepting
  BY DEF Locking, Written, Accepting
<1>8. Fits(r)' /\ HoldsTrue(r)'
  <2>1. req[r].rows = {} /\ req[r].cut = {} /\ req[r].left = {}
    BY <1>1, <1>2 DEF Fits, Locking, Written
  <2>2. Fits(r)' /\ RowsHold(r)' /\ CutsHold(r)'
    BY <1>5, <1>6, <2>1 DEF Fits, RowsHold, CutsHold, Decided, Written
  <2>3. InviteHolds(r)'
    BY <1>1, <1>2, <1>5, <1>6, <1>7 DEF InviteHolds, Only, tables, Free, SameAs
  <2> QED BY <2>2, <2>3 DEF HoldsTrue
<1>9. \A q \in Others(r) : Exclusive(r, q)'
  <2>1. ASSUME NEW t \in Space, NEW u \in Person, HoldsRow(r, t, u)', NEW q \in Others(r) PROVE ~HoldsRow(q, t, u)
    <3>1. t = req[r].space /\ u = req[r].who /\ members[t][u] = None
      BY <1>3, <1>5, <1>6, <1>7, <2>1 DEF HoldsRow, WroteRow, Written, SameAs
    <3>2. ~WroteRow(q, t, u)
      BY <1>1, <3>1 DEF Granted, Needs
    <3>3. \A v \in req[q].rows : members[req[q].space][v] # None
      BY DEF AccountsInv, RequestsInv, HoldsTrue, RowsHold, Others
    <3> QED BY <3>1, <3>2, <3>3 DEF HoldsRow
  <2>2. \A i \in Invite : HoldsRecord(r, i)' => HoldsRecord(r, i)
    BY <1>1, <1>5, <1>6, <1>7 DEF HoldsRecord, Written, SameAs
  <2> QED BY <1>5, <1>6, <1>7, <2>1, <2>2, NewExclusive DEF SameAs
<1> QED BY <1>1, <1>2, <1>4, <1>5, <1>7, <1>8, <1>9, GoesKeeps
-----------------------------------------------------------------------------
(* Invitations and keys stay of whom they were, and the dead stay dead. *)
InvitesStay ==
    \A i \in Invite : invite[i] # None =>
      /\ invite'[i] # None /\ invite'[i].space = invite[i].space /\ invite'[i].by = invite[i].by
      /\ invite[i].revoked => invite'[i].revoked
      /\ invite[i].accepted # None => invite'[i].accepted # None
KeysStay ==
    \A k \in Key : key[k] # None =>
      /\ key'[k] # None /\ key'[k].space = key[k].space /\ key'[k].by = key[k].by
      /\ key[k].revoked => key'[k].revoked

LEMMA CutsStay ==
    ASSUME AccountsInv, NEW q \in Request, req'[q] = req[q], InvitesStay, KeysStay,
           \A i \in req[q].cut \cap Invite : invite'[i].accepted = None
    PROVE  CutsHold(q)'
<1>1. CutsHold(q)
  BY DEF AccountsInv, RequestsInv, HoldsTrue
<1>2. ASSUME NEW x \in req[q].left PROVE Hers(q, x)' /\ (Gone(x) => Gone(x)')
  <2>1. Hers(q, x)
    BY <1>1 DEF CutsHold
  <2> QED BY <2>1 DEF Hers, Gone, InvitesStay, KeysStay
<1>3. ASSUME NEW x \in req[q].cut PROVE /\ x \in Invite => invite'[x] # None /\ invite'[x].accepted = None
                                        /\ x \in Key => key'[x] # None
  BY <1>1 DEF CutsHold, InvitesStay, KeysStay
<1> QED BY <1>1, <1>2, <1>3 DEF CutsHold

LEMMA RowsStay ==
    ASSUME AccountsInv, NEW q \in Request, req'[q] = req[q],
           \A u \in req[q].rows : /\ members[req[q].space][u] # None => members'[req[q].space][u] # None
                                  /\ members[req[q].space][u] = "OWNER" => members'[req[q].space][u] = "OWNER",
           req[q].pc \in Decided =>
             /\ members'[req[q].space][req[q].target] = "OWNER" => members[req[q].space][req[q].target] = "OWNER"
             /\ \A t \in Space : members[t][req[q].target] # None => members'[t][req[q].target] # None
    PROVE  RowsHold(q)'
<1>1. RowsHold(q)
  BY DEF AccountsInv, RequestsInv, HoldsTrue
<1> QED BY <1>1 DEF RowsHold

(* A change of the tables: the requests in flight stay as they are, or end. *)
LEMMA TablesKeep ==
    ASSUME AccountsInv, TypeOK', InvitesInv', SpacesInv', LoginsInv',
           \A q \in Request : req'[q] \in {req[q], Idle},
           \A q \in Request : req'[q] = req[q] => HoldsTrue(q)',
           \A t \in Space : HasOwner(t) => HasOwner(t)',
           \A u \in Person : account[u] # None => account'[u] # None
    PROVE  AccountsInv'
<1>1. ASSUME NEW q \in Request PROVE Shape(q)' /\ Fits(q)' /\ HoldsTrue(q)'
  <2>1. CASE req'[q] = req[q]
    <3>1. Shape(q) /\ Fits(q)
      BY DEF AccountsInv, RequestsInv
    <3>2. Shape(q)'
      BY <2>1, <3>1 DEF Shape
    <3> QED BY <2>1, <3>1, <3>2, UntouchedHolds
  <2>2. CASE req'[q] = Idle
    <3>1. Shape(q)'
      BY <2>2 DEF Shape, Idle, Locking, Written, Accepting
    <3>2. Fits(q)' /\ HoldsTrue(q)'
      BY <2>2, NothingHeld DEF Idle, Locking, Written, Accepting
    <3> QED BY <3>1, <3>2
  <2> QED BY <2>1, <2>2
<1>2. ASSUME NEW q \in Request, NEW p \in Others(q) PROVE Exclusive(q, p)'
  <2>1. Exclusive(q, p) /\ p \in Request /\ q \in Others(p)
    BY DEF AccountsInv, RequestsInv, Others
  <2>2. CASE req'[q] = req[q] /\ req'[p] = req[p]
    BY <2>1, <2>2, ExclusiveStays
  <2>3. ASSUME NEW x \in Request, NEW y \in Others(x), req'[x] = Idle PROVE Exclusive(x, y)' /\ Exclusive(y, x)'
    <3>1. Exclusive(x, y)'
      BY <2>3, NothingHeld DEF Idle, Locking, Written, Accepting
    <3> QED BY <3>1 DEF Exclusive
  <2>4. CASE req'[q] = Idle \/ req'[p] = Idle
    BY <2>1, <2>3, <2>4
  <2> QED BY <2>1, <2>2, <2>4
<1> QED BY <1>1, <1>2 DEF AccountsInv, RequestsInv, Others

(* The request that committed is over, the others go on. *)
LEMMA OnlyOneEnds ==
    ASSUME AccountsInv, NEW r \in Request, Ends(r)
    PROVE  /\ req' \in [Request -> ReqType] /\ req'[r] = Idle /\ req[r] \in ReqType
           /\ \A q \in Request : req'[q] \in {req[q], Idle} /\ (q # r => req'[q] = req[q])
  BY IdleIsFine DEF Others, AccountsInv, TypeOK, ReqType

(* Keys and sessions: nothing else depends on them. *)
LEMMA KeysAndSessionsKeep ==
    ASSUME AccountsInv, UNCHANGED <<members, account, invite, granted>>,
           \A q \in Request : req'[q] \in {req[q], Idle},
           req' \in [Request -> ReqType], issued' \in 0..MaxRequests,
           session' \in [Session -> [user: Person, space: Space \cup {None}] \cup {None}],
           key' \in [Key -> ApiKey \cup {None}], KeysStay,
           login' \in [Login -> [pc: {"start", "create", "raced", "again", "known", "in", "failed"}, user: Person \cup {None}]],
           LoginsInv'
    PROVE  AccountsInv'
<1>1. TypeOK'
  BY DEF AccountsInv, TypeOK, ReqType
<1>2. InvitesInv' /\ SpacesInv' /\ (\A t \in Space : HasOwner(t) => HasOwner(t)')
  BY DEF AccountsInv, InvitesInv, SpacesInv, HasOwner
<1>3. ASSUME NEW q \in Request, req'[q] = req[q] PROVE HoldsTrue(q)'
  <2>1. HoldsTrue(q) /\ InvitesStay
    BY DEF AccountsInv, RequestsInv, InvitesStay
  <2>2. RowsHold(q)'
    BY <1>3, RowsStay
  <2>3. InviteHolds(q)'
    BY <1>3, <2>1 DEF HoldsTrue, InviteHolds, Free
  <2>4. \A i \in req[q].cut \cap Invite : invite'[i].accepted = None
    BY <2>1 DEF HoldsTrue, CutsHold
  <2> QED BY <1>3, <2>1, <2>2, <2>3, <2>4, CutsStay DEF HoldsTrue
<1> QED BY <1>1, <1>2, <1>3, TablesKeep

LEMMA CreateKeyKeeps ==
    ASSUME AccountsInv, NEW r \in Request, CreateKey(r) \/ RevokeOneKey(r) PROVE AccountsInv'
<1>1. /\ Ends(r) /\ UNCHANGED <<members, account, session, invite, login, issued, granted>>
      /\ req[r].pc # "idle"
  BY DEF CreateKey, RevokeOneKey, Only, At
<1>2. req[r].space \in Space /\ req[r].who \in Person
  BY <1>1, ActiveIsMine
<1>3. key' \in [Key -> ApiKey \cup {None}] /\ KeysStay
  <2>1. key \in [Key -> ApiKey \cup {None}]
    BY DEF AccountsInv, TypeOK
  <2>2. CASE CreateKey(r)
    <3> DEFINE new == [space |-> req[r].space, by |-> req[r].who, revoked |-> FALSE]
    <3>1. PICK k \in Key : key[k] = None /\ key' = [key EXCEPT ![k] = new]
      BY <2>2 DEF CreateKey
    <3>2. new \in ApiKey
      BY <1>2 DEF ApiKey
    <3> HIDE DEF new
    <3> QED BY <2>1, <3>1, <3>2 DEF KeysStay
  <2>3. CASE RevokeOneKey(r)
    <3> DEFINE new == [key[req[r].arg] EXCEPT !.revoked = TRUE]
    <3>1. CASE key[req[r].arg] # None /\ key[req[r].arg].space = req[r].space
      <4>1. key[req[r].arg] \in ApiKey /\ req[r].arg \in Key
        BY <2>1, <2>3, <3>1 DEF RevokeOneKey
      <4>2. new \in ApiKey /\ new # None /\ new.space = key[req[r].arg].space /\ new.by = key[req[r].arg].by /\ new.revoked
        BY <4>1, RecordAssumption DEF ApiKey
      <4>3. key' = [key EXCEPT ![req[r].arg] = new]
        BY <2>3, <3>1 DEF RevokeOneKey
      <4> HIDE DEF new
      <4> QED BY <2>1, <4>1, <4>2, <4>3 DEF KeysStay
    <3>2. CASE ~(key[req[r].arg] # None /\ key[req[r].arg].space = req[r].space)
      <4>1. key' = key
        BY <2>3, <3>2 DEF RevokeOneKey
      <4> QED BY <2>1, <4>1 DEF KeysStay
    <3> QED BY <3>1, <3>2
  <2> QED BY <2>2, <2>3
<1>4. LoginsInv' /\ issued' \in 0..MaxRequests
  BY <1>1 DEF AccountsInv, LoginsInv, TypeOK
<1> QED BY <1>1, <1>3, <1>4, OnlyOneEnds, KeysAndSessionsKeep DEF AccountsInv, TypeOK

LEMMA SwitchSessionKeeps ==
    ASSUME AccountsInv, NEW r \in Request, SwitchSession(r) PROVE AccountsInv'
<1>1. /\ Ends(r) /\ UNCHANGED <<members, account, key, invite, login, issued, granted>>
      /\ req[r].pc = "member" /\ req[r].op = "switch"
  BY DEF SwitchSession, Only, At
<1>2. req[r].arg \in Space /\ req[r].from \in Session
  BY <1>1 DEF AccountsInv, RequestsInv, Shape
<1>3. session' \in [Session -> [user: Person, space: Space \cup {None}] \cup {None}]
  <2>1. session \in [Session -> [user: Person, space: Space \cup {None}] \cup {None}]
    BY DEF AccountsInv, TypeOK
  <2>2. CASE session[req[r].from] = None
    BY <2>1, <2>2 DEF SwitchSession
  <2>3. CASE session[req[r].from] # None
    BY <1>2, <2>1, <2>3 DEF SwitchSession
  <2> QED BY <2>2, <2>3
<1>4. LoginsInv' /\ issued' \in 0..MaxRequests
  BY <1>1 DEF AccountsInv, LoginsInv, TypeOK
<1> QED BY <1>1, <1>3, <1>4, OnlyOneEnds, KeysAndSessionsKeep DEF AccountsInv, TypeOK, KeysStay

LEMMA CloseSessionKeeps ==
    ASSUME AccountsInv, NEW s \in Session, CloseSession(s) PROVE AccountsInv'
<1>1. UNCHANGED <<members, account, invite, key, req, login, granted>>
  BY DEF CloseSession
<1>2. issued' \in 0..MaxRequests
  BY BoundAssumption DEF CloseSession, Issue, AccountsInv, TypeOK
<1>3. session' \in [Session -> [user: Person, space: Space \cup {None}] \cup {None}]
  BY DEF CloseSession, AccountsInv, TypeOK
<1>4. LoginsInv' /\ req' \in [Request -> ReqType]
  BY <1>1 DEF AccountsInv, LoginsInv, TypeOK, ReqType
<1> QED BY <1>1, <1>2, <1>3, <1>4, KeysAndSessionsKeep DEF AccountsInv, TypeOK, KeysStay
(* An invitation that nobody is using changes. *)
LEMMA OneInviteKeeps ==
    ASSUME AccountsInv, UNCHANGED <<members, account, session, key, login, granted>>,
           \A q \in Request : req'[q] \in {req[q], Idle},
           req' \in [Request -> ReqType], issued' \in 0..MaxRequests,
           NEW i \in Invite, NEW new \in Invitation, invite' = [invite EXCEPT ![i] = new],
           HasOwner(new.space), granted[i] # {} => UNCHANGED invite,
           invite[i] # None => /\ new.space = invite[i].space /\ new.by = invite[i].by
                               /\ new.accepted = invite[i].accepted /\ (invite[i].revoked => new.revoked),
           \A q \in Request : req'[q] = req[q] /\ req[q].pc \in Accepting => req[q].arg # i
    PROVE  AccountsInv'
<1>1. invite \in Invitations /\ invite' \in Invitations /\ invite'[i] = new /\ \A k \in Invite \ {i} : invite'[k] = invite[k]
  BY DEF AccountsInv, TypeOK, Invitations
<1>2. TypeOK'
  BY <1>1 DEF AccountsInv, TypeOK, ReqType, Invitations
<1>4. InvitesInv'
  <2>1. ASSUME NEW k \in Invite, invite'[k] # None PROVE \E u \in Person : members[invite'[k].space][u] = "OWNER"
    BY <1>1, <2>1 DEF AccountsInv, InvitesInv, HasOwner
  <2>2. ASSUME NEW k \in Invite, granted'[k] # {}
        PROVE  invite'[k] # None /\ invite'[k].accepted # None /\ ~invite'[k].revoked /\ granted'[k] = {invite'[k].accepted}
    BY <1>1, <2>2 DEF AccountsInv, InvitesInv
  <2> QED BY <2>1, <2>2 DEF InvitesInv, HasOwner
<1>5. SpacesInv' /\ LoginsInv' /\ (\A t \in Space : HasOwner(t) => HasOwner(t)')
  BY DEF AccountsInv, SpacesInv, LoginsInv, HasOwner
<1>6. ASSUME NEW q \in Request, req'[q] = req[q] PROVE HoldsTrue(q)'
  <2>1. Shape(q) /\ HoldsTrue(q)
    BY DEF AccountsInv, RequestsInv
  <2>2. req[q].pc \in Accepting => req[q].arg \in Invite \ {i}
    BY <1>6, <2>1 DEF Shape, Accepting
  <2>3. InviteHolds(q)'
    BY <1>1, <1>6, <2>1, <2>2 DEF HoldsTrue, InviteHolds, Free
  <2>4. InvitesStay /\ KeysStay
    <3>1. new # None /\ (invite[i] # None => (invite[i].accepted # None => new.accepted # None))
      BY RecordAssumption
    <3>2. InvitesStay
      BY <1>1, <3>1 DEF InvitesStay
    <3> QED BY <3>2 DEF KeysStay
  <2>5. ASSUME NEW k \in req[q].cut \cap Invite PROVE invite'[k].accepted = None
    <3>1. invite[k] # None /\ invite[k].accepted = None
      BY <2>1 DEF HoldsTrue, CutsHold
    <3> QED BY <1>1, <3>1
  <2>6. CutsHold(q)'
    BY <1>6, <2>4, <2>5, CutsStay
  <2>7. RowsHold(q)'
    BY <1>6, RowsStay
  <2> QED BY <2>3, <2>6, <2>7 DEF HoldsTrue
<1> QED BY <1>2, <1>4, <1>5, <1>6, TablesKeep

LEMMA CreateInviteKeeps ==
    ASSUME AccountsInv, NEW r \in Request, CreateInvite(r) PROVE AccountsInv'
<1>1. /\ Ends(r) /\ UNCHANGED <<members, account, session, key, login, issued, granted>>
      /\ req[r].pc # "idle" /\ req[r].op = "invite"
  BY DEF CreateInvite, Only, At
<1>2. /\ req[r].space \in Space /\ req[r].who \in Person /\ HasOwner(req[r].space) /\ req[r].arg \in {"VIEWER", "EDITOR"}
      /\ issued \in 0..MaxRequests
  BY <1>1, ActiveIsMine DEF AccountsInv, RequestsInv, Shape, TypeOK
<1> DEFINE new == [space |-> req[r].space, role |-> req[r].arg, by |-> req[r].who,
                   accepted |-> None, revoked |-> FALSE, expired |-> FALSE]
<1>3. PICK i \in Invite : invite[i] = None /\ invite' = [invite EXCEPT ![i] = new]
  BY DEF CreateInvite
<1>4. new \in Invitation /\ new.space = req[r].space
  BY <1>2 DEF Invitation
<1>5. granted[i] = {} /\ \A q \in Request : req[q].pc \in Accepting => req[q].arg # i
  BY <1>3 DEF AccountsInv, InvitesInv, RequestsInv, HoldsTrue, InviteHolds, Free
<1> HIDE DEF new
<1> QED BY <1>1, <1>2, <1>3, <1>4, <1>5, OnlyOneEnds, OneInviteKeeps

LEMMA RevokeInviteKeeps ==
    ASSUME AccountsInv, NEW r \in Request, RevokeOneInvite(r) PROVE AccountsInv'
<1>1. /\ Ends(r) /\ UNCHANGED <<members, account, session, key, login, issued, granted>>
      /\ req[r].pc # "idle" /\ req[r].arg \in Invite
      /\ \A q \in Request : req[q].pc \in Accepting => req[q].arg # req[r].arg
  BY DEF RevokeOneInvite, Only, At, Granted, Needs, HoldsRecord, Others, Accepting
<1> DEFINE i == req[r].arg
<1>2. CASE invite[i] # None /\ invite[i].space = req[r].space /\ invite[i].accepted = None
  <2> DEFINE new == [invite[i] EXCEPT !.revoked = TRUE]
  <2>1. invite' = [invite EXCEPT ![i] = new]
    BY <1>2 DEF RevokeOneInvite
  <2>2. invite[i] \in Invitation /\ HasOwner(invite[i].space) /\ issued \in 0..MaxRequests
    BY <1>1, <1>2 DEF AccountsInv, TypeOK, InvitesInv
  <2>3. new \in Invitation /\ new.space = invite[i].space /\ new.by = invite[i].by /\ new.accepted = invite[i].accepted /\ new.revoked
    BY <2>2 DEF Invitation
  <2>4. granted[i] = {}
    BY <1>1, <1>2 DEF AccountsInv, InvitesInv
  <2> HIDE DEF new
  <2> QED BY <1>1, <2>1, <2>2, <2>3, <2>4, OnlyOneEnds, OneInviteKeeps, ZenonT(30)
<1>3. CASE ~(invite[i] # None /\ invite[i].space = req[r].space /\ invite[i].accepted = None)
  <2>1. invite' = invite
    BY <1>3 DEF RevokeOneInvite
  <2>2. Only(tables)
    BY <1>1, <2>1 DEF Only, tables
  <2> QED BY <1>1, <2>2, EndKeeps
<1> QED BY <1>2, <1>3

LEMMA ExpireKeeps ==
    ASSUME AccountsInv, NEW i \in Invite, Expire(i) PROVE AccountsInv'
<1>1. /\ UNCHANGED <<members, account, session, key, req, login, granted>> /\ Free(i)
      /\ \A q \in Request : req[q].pc \in Accepting => req[q].arg # i
  BY DEF Expire, HoldsRecord
<1> DEFINE new == [invite[i] EXCEPT !.expired = TRUE]
<1>2. invite' = [invite EXCEPT ![i] = new]
  BY DEF Expire
<1>3. invite[i] \in Invitation /\ HasOwner(invite[i].space) /\ granted[i] = {}
  BY <1>1 DEF AccountsInv, TypeOK, InvitesInv, Free
<1>4. /\ new \in Invitation /\ new.space = invite[i].space /\ new.by = invite[i].by
      /\ new.accepted = invite[i].accepted /\ new.revoked = invite[i].revoked
  BY <1>3 DEF Invitation
<1>5. issued' \in 0..MaxRequests
  BY BoundAssumption DEF Expire, Issue, AccountsInv, TypeOK
<1>6. req' \in [Request -> ReqType] /\ \A q \in Request : req'[q] \in {req[q], Idle}
  BY <1>1 DEF AccountsInv, TypeOK, ReqType
<1> HIDE DEF new
<1> QED BY <1>1, <1>2, <1>3, <1>4, <1>5, <1>6, OneInviteKeeps

(* Signing in, but for the creation of a person. *)
LEMMA SignInKeeps ==
    ASSUME AccountsInv, NEW l \in Login,
           FindUser(l) \/ FindRaced(l) \/ OpenSession(l) \/ ExchangeFails(l)
    PROVE  AccountsInv'
<1>1. UNCHANGED <<members, account, invite, key, req, granted>>
  BY DEF FindUser, FindRaced, OpenSession, ExchangeFails, tables
<1>2. issued' \in 0..MaxRequests
  BY BoundAssumption DEF FindUser, FindRaced, OpenSession, ExchangeFails, Issue, AccountsInv, TypeOK
<1> DEFINE LoginType == [pc: {"start", "create", "raced", "again", "known", "in", "failed"}, user: Person \cup {None}]
<1>3. /\ login \in [Login -> LoginType] /\ l \in Session
      /\ session \in [Session -> [user: Person, space: Space \cup {None}] \cup {None}]
      /\ login[l].pc \in {"start", "create", "raced", "again"} => account[l] = None
  BY LoginAssumption DEF AccountsInv, TypeOK, LoginsInv
<1>4. \A u \in Known(l) : u \in Person /\ account[u] # None /\ account[u].subject = Profile[l].subject
  BY DEF Known
<1>5. ASSUME NEW pc \in {"create", "again", "failed"}, LoginGoes(l, pc, None), login[l].pc \in {"start", "raced"}, UNCHANGED session
      PROVE  AccountsInv'
  <2>1. login' \in [Login -> LoginType]
    BY <1>3, <1>5 DEF LoginGoes
  <2>2. LoginsInv'
    BY <1>1, <1>3, <1>5 DEF LoginGoes, LoginsInv, AccountsInv
  <2> QED BY <1>1, <1>2, <1>3, <1>5, <2>1, <2>2, KeysAndSessionsKeep DEF KeysStay, AccountsInv, TypeOK, ReqType
<1>6. ASSUME NEW u \in Known(l), LoginGoes(l, "known", u), UNCHANGED session PROVE AccountsInv'
  <2>1. login' \in [Login -> LoginType]
    BY <1>3, <1>4, <1>6 DEF LoginGoes
  <2>2. LoginsInv'
    BY <1>1, <1>3, <1>4, <1>6 DEF LoginGoes, LoginsInv, AccountsInv
  <2> QED BY <1>1, <1>2, <1>3, <1>6, <2>1, <2>2, KeysAndSessionsKeep DEF KeysStay, AccountsInv, TypeOK, ReqType
<1>7. CASE OpenSession(l)
  <2>1. login[l].pc = "known" /\ login[l].user \in Person
    BY <1>7 DEF OpenSession, AccountsInv, LoginsInv
  <2>2. login' \in [Login -> LoginType]
    BY <1>3, <1>7, <2>1 DEF OpenSession, LoginGoes
  <2>3. session' \in [Session -> [user: Person, space: Space \cup {None}] \cup {None}]
    BY <1>3, <1>7, <2>1 DEF OpenSession
  <2>4. LoginsInv'
    BY <1>1, <1>3, <1>7, <2>1 DEF OpenSession, LoginGoes, LoginsInv, AccountsInv
  <2> QED BY <1>1, <1>2, <2>2, <2>3, <2>4, KeysAndSessionsKeep DEF KeysStay, AccountsInv, TypeOK, ReqType
<1>8. CASE FindUser(l)
  BY <1>5, <1>6, <1>8 DEF FindUser, tables
<1>9. CASE FindRaced(l)
  BY <1>5, <1>6, <1>9 DEF FindRaced, tables
<1>10. CASE ExchangeFails(l)
  BY <1>5, <1>10 DEF ExchangeFails, tables
<1> QED BY <1>7, <1>8, <1>9, <1>10
(* The creation of a person, with her space. *)
LEMMA CreateUserKeeps ==
    ASSUME AccountsInv, NEW l \in Login, NEW from \in {"create", "again"}, NEW e \in Email \cup {None},
           NEW otherwise \in {"raced", "failed"}, CreateUser(l, from, e, otherwise)
    PROVE  AccountsInv'
<1>1. /\ UNCHANGED <<session, invite, key, req, issued, granted>> /\ login[l].pc = from
      /\ account[l] = None /\ l \in Person /\ l \in Space
  BY LoginAssumption DEF CreateUser, AccountsInv, LoginsInv
<1> DEFINE LoginType == [pc: {"start", "create", "raced", "again", "known", "in", "failed"}, user: Person \cup {None}]
<1>2. /\ login \in [Login -> LoginType] /\ req \in [Request -> ReqType]
      /\ members \in [Space -> [Person -> Role \cup {None}]] /\ account \in [Person -> Account \cup {None}]
  BY DEF AccountsInv, TypeOK, ReqType
<1>3. CASE LoginGoes(l, otherwise, None) /\ UNCHANGED <<members, account>>
  <2>1. login' \in [Login -> LoginType]
    BY <1>2, <1>3 DEF LoginGoes
  <2>2. LoginsInv'
    BY <1>1, <1>2, <1>3 DEF LoginGoes, LoginsInv, AccountsInv
  <2> QED BY <1>1, <1>2, <1>3, <2>1, <2>2, KeysAndSessionsKeep DEF KeysStay, AccountsInv, TypeOK
<1>4. CASE Creates(l, e)
  <2> DEFINE new == [subject |-> Profile[l].subject, email |-> e]
  <2>1. new \in Account /\ new # None /\ new.subject = Profile[l].subject
    BY ProfileAssumption, RecordAssumption DEF Account
  <2>2. account' = [account EXCEPT ![l] = new]
    BY <1>4 DEF Creates
  <2> HIDE DEF new
  <2>3. account' \in [Person -> Account \cup {None}] /\ account'[l] = new /\ \A u \in Person \ {l} : account'[u] = account[u]
    BY <1>1, <1>2, <2>1, <2>2
  <2>4. /\ members' \in [Space -> [Person -> Role \cup {None}]] /\ members'[l][l] = "OWNER"
        /\ \A t \in Space, u \in Person : t # l \/ u # l => members'[t][u] = members[t][u]
    BY <1>1, <1>2, <1>4 DEF Creates, Role
  <2>5. login' \in [Login -> LoginType] /\ login'[l] = [pc |-> "known", user |-> l] /\ \A k \in Login \ {l} : login'[k] = login[k]
    BY <1>1, <1>2, <1>4 DEF Creates, LoginGoes
  <2>6. TypeOK'
    BY <1>1, <2>3, <2>4, <2>5 DEF AccountsInv, TypeOK
  <2>7. LoginsInv'
    <3>1. ASSUME NEW k \in Login \ {l} PROVE /\ login[k].pc \in {"start", "create", "raced", "again"} => account[k] = None
                                             /\ login[k].pc \in {"known", "in"} =>
                                                  login[k].user \in Person \ {l} /\ account[login[k].user] # None
                                                  /\ account[login[k].user].subject = Profile[k].subject
      BY <1>1 DEF AccountsInv, LoginsInv
    <3>2. ASSUME NEW k \in Login \ {l} PROVE k \in Person \ {l}
      BY LoginAssumption
    <3> QED BY <1>1, <2>1, <2>3, <2>5, <3>1, <3>2 DEF LoginsInv
  <2>8. \A t \in Space : HasOwner(t) => HasOwner(t)'
    BY <2>4 DEF HasOwner
  <2>9. InvitesInv'
    <3>1. ASSUME NEW i \in Invite, invite[i] # None PROVE invite[i].space \in Space /\ HasOwner(invite[i].space)
      BY <3>1 DEF AccountsInv, TypeOK, Invitation, InvitesInv
    <3>2. ASSUME NEW i \in Invite, invite[i] # None PROVE HasOwner(invite[i].space)'
      BY <1>1, <2>8, <3>1, <3>2 DEF HasOwner
    <3> QED BY <1>1, <3>2 DEF AccountsInv, InvitesInv, HasOwner
  <2>10. SpacesInv'
    <3>1. ASSUME NEW t \in Space, NEW u \in Person, members'[t][u] # None PROVE HasOwner(t)'
      <4>1. CASE t = l /\ u = l
        BY <1>1, <2>4, <4>1 DEF HasOwner
      <4>2. CASE t # l \/ u # l
        BY <2>4, <2>8, <3>1, <4>2 DEF AccountsInv, SpacesInv
      <4> QED BY <4>1, <4>2
    <3>2. ASSUME NEW u \in Person, account'[u] # None PROVE \E t \in Space : members'[t][u] # None
      <4>1. CASE u = l
        BY <1>1, <2>4, <4>1, NoneAssumption DEF Role
      <4>2. CASE u # l
        BY <2>3, <2>4, <3>2, <4>2 DEF AccountsInv, SpacesInv
      <4> QED BY <4>1, <4>2
    <3> QED BY <3>1, <3>2 DEF SpacesInv
  <2>11. ASSUME NEW q \in Request PROVE HoldsTrue(q)'
    <3>1. HoldsTrue(q) /\ Shape(q) /\ Fits(q) /\ req' = req /\ invite' = invite /\ key' = key
      BY <1>1 DEF AccountsInv, RequestsInv
    <3>2. req[q].pc \in Locking => req[q].target \in Person \ {l} /\ req[q].space \in Space
      BY <1>1, <3>1 DEF Shape, Locking, Written
    <3>3. req[q].rows \subseteq Person /\ (req[q].rows # {} => req[q].pc \in Locking) /\ (req[q].pc \in Decided => req[q].pc \in Locking)
      BY <1>2, <3>1 DEF ReqType, Fits, Decided, Locking
    <3>4. ASSUME NEW u \in req[q].rows
          PROVE  /\ members[req[q].space][u] # None => members'[req[q].space][u] # None
                 /\ members[req[q].space][u] = "OWNER" => members'[req[q].space][u] = "OWNER"
      BY <2>4, <3>2, <3>3, NoneAssumption DEF Role
    <3>5. \A t \in Space : req[q].pc \in Decided => members'[t][req[q].target] = members[t][req[q].target]
      BY <2>4, <3>2, <3>3
    <3>6. RowsHold(q)'
      BY <3>1, <3>2, <3>3, <3>4, <3>5, RowsStay
    <3>7. InviteHolds(q)' /\ CutsHold(q)'
      BY <3>1 DEF HoldsTrue, InviteHolds, CutsHold, Free, Hers, Gone
    <3> QED BY <3>6, <3>7 DEF HoldsTrue
  <2>12. \A u \in Person : account[u] # None => account'[u] # None
    BY <2>1, <2>3
  <2> QED BY <1>1, <2>6, <2>7, <2>8, <2>9, <2>10, <2>11, <2>12, TablesKeep
<1> QED BY <1>3, <1>4 DEF CreateUser
(* A change of membership commits: it writes rows that nobody else holds. *)
LEMMA CommitChangeKeeps ==
    ASSUME AccountsInv, NEW r \in Request, CommitChange(r) PROVE AccountsInv'
<1> DEFINE t == req[r].space
           u == req[r].target
           cut == req[r].cut
<1>1. /\ req[r].pc \in Written /\ req[r].pc \in Locking /\ req[r].pc \in Decided /\ Ends(r)
      /\ UNCHANGED <<account, session, login, issued, granted>>
      /\ members' = [members EXCEPT ![t][u] = req[r].arg]
      /\ invite' = [i \in Invite |-> IF i \in cut THEN [invite[i] EXCEPT !.revoked = TRUE] ELSE invite[i]]
      /\ key' = [k \in Key |-> IF k \in cut THEN [key[k] EXCEPT !.revoked = TRUE] ELSE key[k]]
  BY DEF CommitChange, At, Only, Written, Locking, Decided
<1>2. /\ t \in Space /\ u \in Person /\ RowsHold(r) /\ CutsHold(r) /\ HasOwner(t) /\ req[r].op \in {"role", "remove"}
      /\ (req[r].op = "role" => req[r].arg \in Role) /\ (req[r].op = "remove" => req[r].arg = None)
      /\ req[r].rows \subseteq Person
  BY <1>1, InChangeFacts DEF ReqType
<1>3. /\ members \in [Space -> [Person -> Role \cup {None}]] /\ invite \in [Invite -> Invitation \cup {None}]
      /\ key \in [Key -> ApiKey \cup {None}]
  BY DEF AccountsInv, TypeOK
<1>4. \A x \in cut : (x \in Invite => invite[x] # None /\ invite[x].accepted = None) /\ (x \in Key => key[x] # None)
  BY <1>2 DEF CutsHold
<1>5. /\ members' \in [Space -> [Person -> Role \cup {None}]] /\ members'[t][u] = req[r].arg
      /\ \A x \in Space, v \in Person : x # t \/ v # u => members'[x][v] = members[x][v]
  BY <1>1, <1>2, <1>3
<1>6. /\ invite' \in [Invite -> Invitation \cup {None}]
      /\ \A i \in Invite : /\ i \notin cut => invite'[i] = invite[i]
                           /\ i \in cut => /\ invite'[i] # None /\ invite'[i].space = invite[i].space /\ invite'[i].by = invite[i].by
                                           /\ invite'[i].accepted = None /\ invite'[i].revoked
  <2> SUFFICES ASSUME NEW i \in Invite, i \in cut
               PROVE  LET new == [invite[i] EXCEPT !.revoked = TRUE] IN
                      /\ new \in Invitation /\ new.space = invite[i].space /\ new.by = invite[i].by
                      /\ new.accepted = None /\ new.revoked
    BY <1>1, <1>3, RecordAssumption
  <2>1. invite[i] \in Invitation /\ invite[i].accepted = None
    BY <1>3, <1>4
  <2> QED BY <2>1 DEF Invitation
<1>7. key' \in [Key -> ApiKey \cup {None}] /\ KeysStay
  <2>1. ASSUME NEW k \in Key, k \in cut PROVE /\ [key[k] EXCEPT !.revoked = TRUE] \in ApiKey
                                             /\ key'[k].space = key[k].space /\ key'[k].by = key[k].by /\ key'[k].revoked
    <3>1. key[k] \in ApiKey
      BY <1>3, <1>4, <2>1
    <3> QED BY <1>1, <2>1, <3>1 DEF ApiKey
  <2>2. None \notin ApiKey
    BY RecordAssumption
  <2> QED BY <1>1, <1>3, <2>1, <2>2 DEF KeysStay
<1> HIDE DEF cut
<1>8. TypeOK'
  BY <1>1, <1>5, <1>6, <1>7, OnlyOneEnds DEF AccountsInv, TypeOK, ReqType
<1>9. ASSUME NEW x \in Space, HasOwner(x) PROVE HasOwner(x)'
  <2>1. CASE x # t
    BY <1>5, <1>9, <2>1 DEF HasOwner
  <2>2. CASE x = t /\ req[r].arg = "OWNER"
    BY <1>2, <1>5, <2>2 DEF HasOwner
  <2>3. CASE x = t /\ req[r].arg # "OWNER"
    <3>1. PICK w \in Person : w # u /\ members[t][w] = "OWNER"
      <4>1. CASE members[t][u] = "OWNER"
        BY <1>1, <1>2, <2>3, <4>1 DEF RowsHold
      <4>2. CASE members[t][u] # "OWNER"
        BY <1>2, <4>2 DEF HasOwner
      <4> QED BY <4>1, <4>2
    <3> QED BY <1>2, <1>5, <2>3, <3>1 DEF HasOwner
  <2> QED BY <2>1, <2>2, <2>3
<1>10. InvitesInv'
  <2>1. ASSUME NEW i \in Invite, invite'[i] # None PROVE \E v \in Person : members'[invite'[i].space][v] = "OWNER"
    <3>1. invite[i] # None /\ invite'[i].space = invite[i].space
      BY <1>4, <1>6, <2>1 DEF cut
    <3>2. invite[i].space \in Space /\ HasOwner(invite[i].space)
      BY <1>3, <3>1 DEF AccountsInv, InvitesInv, Invitation
    <3>3. \A x \in Space : HasOwner(x) => \E v \in Person : members'[x][v] = "OWNER"
      BY <1>9 DEF HasOwner
    <3> QED BY <3>1, <3>2, <3>3
  <2>2. ASSUME NEW i \in Invite, granted'[i] # {}
        PROVE  invite'[i] # None /\ invite'[i].accepted # None /\ ~invite'[i].revoked /\ granted'[i] = {invite'[i].accepted}
    BY <1>1, <1>4, <1>6, <2>2 DEF AccountsInv, InvitesInv
  <2> QED BY <2>1, <2>2 DEF InvitesInv, HasOwner
<1>11. SpacesInv'
  <2>1. ASSUME NEW x \in Space, NEW v \in Person, members'[x][v] # None PROVE HasOwner(x)'
    <3>1. HasOwner(x)
      BY <1>2, <1>5, <2>1 DEF AccountsInv, SpacesInv
    <3> QED BY <1>9, <3>1
  <2>2. ASSUME NEW v \in Person, account'[v] # None PROVE \E x \in Space : members'[x][v] # None
    <3>1. CASE v # u
      BY <1>1, <1>5, <2>2, <3>1 DEF AccountsInv, SpacesInv
    <3>2. CASE v = u /\ req[r].op = "role"
      BY <1>2, <1>5, <3>2, NoneAssumption
    <3>3. CASE v = u /\ req[r].op = "remove"
      BY <1>1, <1>2, <1>5, <3>3 DEF RowsHold
    <3> QED BY <1>2, <3>1, <3>2, <3>3
  <2> QED BY <2>1, <2>2 DEF SpacesInv
<1>12. ASSUME NEW q \in Request, req'[q] = req[q] PROVE HoldsTrue(q)'
  <2>1. q \in Others(r)
    BY <1>1, <1>12, OnlyOneEnds DEF Others, Idle, Locking, Written
  <2>2. HoldsTrue(q) /\ Shape(q) /\ Fits(q) /\ Exclusive(r, q) /\ req[q].rows \subseteq Person /\ req[q].cut \subseteq Invite \cup Key
    BY <2>1 DEF AccountsInv, RequestsInv, Others, TypeOK
  <2>3. RowsHold(q)'
    <3>1. req[q].rows # {} => req[q].pc \in Locking
      BY <2>2 DEF Fits
    <3>2. req[q].pc \in Locking => req[q].target # u /\ req[q].target \in Person /\ req[q].space \in Space
      BY <1>1, <2>2 DEF Exclusive, Shape, Locking, Written
    <3>3. req[q].space = t => u \notin req[q].rows
      BY <1>1, <1>2, <2>2, <3>1 DEF Exclusive, HoldsRow, WroteRow
    <3>4. \A v \in req[q].rows : members'[req[q].space][v] = members[req[q].space][v]
      BY <1>5, <2>2, <3>1, <3>2, <3>3
    <3>5. req[q].pc \in Decided => \A x \in Space : members'[x][req[q].target] = members[x][req[q].target]
      BY <1>5, <3>2 DEF Decided, Locking
    <3>6. req[q].pc \in Decided => req[q].space \in Space
      BY <3>2 DEF Decided, Locking
    <3> QED BY <1>12, <3>4, <3>5, <3>6, RowsStay
  <2>4. InviteHolds(q)'
    <3>1. CASE req[q].pc \in Accepting
      <4>1. req[q].arg \in Invite
        BY <2>2, <3>1 DEF Shape, Accepting
      <4>2. req[q].arg \notin cut
        BY <1>1, <2>2, <3>1, <4>1 DEF Exclusive, HoldsRecord, cut
      <4> QED BY <1>6, <1>12, <2>2, <3>1, <4>1, <4>2 DEF HoldsTrue, InviteHolds, Free
    <3>2. CASE req[q].pc \notin Accepting
      BY <1>12, <3>2 DEF InviteHolds
    <3> QED BY <3>1, <3>2
  <2>5. CutsHold(q)'
    <3>1. InvitesStay
      BY <1>4, <1>6 DEF InvitesStay
    <3>2. ASSUME NEW i \in req[q].cut \cap Invite PROVE invite'[i].accepted = None
      <4>1. invite[i].accepted = None
        BY <2>2 DEF HoldsTrue, CutsHold
      <4> QED BY <1>6, <4>1
    <3> QED BY <1>7, <1>12, <3>1, <3>2, CutsStay
  <2> QED BY <2>3, <2>4, <2>5 DEF HoldsTrue
<1>13. LoginsInv'
  BY <1>1 DEF AccountsInv, LoginsInv
<1> QED BY <1>1, <1>8, <1>9, <1>10, <1>11, <1>12, <1>13, OnlyOneEnds, TablesKeep

LEMMA NeverAnOwner ==
    ASSUME AccountsInv, NEW r \in Request, At(r, "joined", {"accept"}), Raises(r)
    PROVE  members[req[r].space][req[r].who] \in Role => Rank[members[req[r].space][req[r].who]] < Rank[invite[req[r].arg].role]
<1>1. req[r].arg \in Invite /\ Free(req[r].arg)
  BY DEF At, AccountsInv, RequestsInv, Shape, HoldsTrue, InviteHolds, Accepting
<1>2. invite[req[r].arg].role \in {"VIEWER", "EDITOR"}
  BY <1>1 DEF Free, AccountsInv, TypeOK, Invitation
<1> QED BY <1>2, NoneAssumption DEF Raises, Satisfies, Rank, Role

(* An acceptance commits: its invitation is still free, and owners stay owners. *)
LEMMA CommitAcceptKeeps ==
    ASSUME AccountsInv, NEW r \in Request, CommitAccept(r) PROVE AccountsInv'
<1> DEFINE t == req[r].space
           u == req[r].who
           i == req[r].arg
<1>1. /\ req[r].pc = "joined" /\ req[r].op = "accept" /\ Ends(r)
      /\ UNCHANGED <<account, session, key, login, issued>>
      /\ granted' = [granted EXCEPT ![i] = @ \cup {u}]
      /\ members' = IF Raises(r) THEN [members EXCEPT ![t][u] = invite[i].role] ELSE members
      /\ invite' = [invite EXCEPT ![i].accepted = u]
  BY DEF CommitAccept, At
<1>2. /\ t \in Space /\ u \in Person /\ i \in Invite /\ Free(i) /\ HasOwner(t) /\ invite[i] \in Invitation
      /\ invite[i].space = t
  BY <1>1 DEF AccountsInv, RequestsInv, Shape, HoldsTrue, InviteHolds, Accepting, TypeOK, Free
<1>3. /\ members \in [Space -> [Person -> Role \cup {None}]] /\ invite \in [Invite -> Invitation \cup {None}]
      /\ granted \in [Invite -> SUBSET Person]
  BY DEF AccountsInv, TypeOK
<1>4. invite[i].role \in {"VIEWER", "EDITOR"}
  BY <1>2 DEF Invitation
<1>5. /\ members' \in [Space -> [Person -> Role \cup {None}]]
      /\ \A x \in Space, v \in Person :
           /\ members[x][v] = "OWNER" => members'[x][v] = "OWNER"
           /\ members'[x][v] = "OWNER" => members[x][v] = "OWNER"
           /\ members[x][v] # None => members'[x][v] # None
           /\ members'[x][v] # None => members[x][v] # None \/ (x = t /\ v = u)
  <2>1. CASE Raises(r)
    <3>1. members[t][u] # "OWNER"
      BY <1>1, <1>4, <2>1, NeverAnOwner, SMTT(20) DEF At, Role, Rank
    <3>2. invite[i].role \in Role /\ invite[i].role # None /\ invite[i].role # "OWNER"
      BY <1>4, NoneAssumption DEF Role
    <3>3. members' = [members EXCEPT ![t][u] = invite[i].role]
      BY <1>1, <2>1
    <3> QED BY <1>2, <1>3, <3>1, <3>2, <3>3
  <2>2. CASE ~Raises(r)
    BY <1>1, <1>3, <2>2
  <2> QED BY <2>1, <2>2
<1> DEFINE new == [invite[i] EXCEPT !.accepted = u]
<1>6. new \in Invitation /\ new.space = t /\ new.accepted = u /\ ~new.revoked
  BY <1>2 DEF Invitation, Free
<1>7. invite' = [invite EXCEPT ![i] = new]
  BY <1>1
<1> HIDE DEF new
<1>8. invite' \in [Invite -> Invitation \cup {None}] /\ invite'[i] = new /\ \A k \in Invite \ {i} : invite'[k] = invite[k]
  BY <1>2, <1>3, <1>6, <1>7
<1>9. granted' \in [Invite -> SUBSET Person] /\ granted'[i] = {u} /\ \A k \in Invite \ {i} : granted'[k] = granted[k]
  <2>1. granted[i] = {}
    BY <1>2 DEF AccountsInv, InvitesInv, Free
  <2> QED BY <1>1, <1>2, <1>3, <2>1
<1>10. TypeOK'
  BY <1>1, <1>5, <1>8, <1>9, OnlyOneEnds DEF AccountsInv, TypeOK, ReqType
<1>11. \A x \in Space : HasOwner(x) => HasOwner(x)'
  BY <1>5 DEF HasOwner
<1>12. InvitesInv'
  <2>1. ASSUME NEW k \in Invite, invite'[k] # None PROVE \E v \in Person : members'[invite'[k].space][v] = "OWNER"
    <3>1. \A x \in Space : HasOwner(x) => \E v \in Person : members'[x][v] = "OWNER"
      BY <1>11 DEF HasOwner
    <3>2. invite'[k].space \in Space /\ HasOwner(invite'[k].space)
      <4>1. CASE k = i
        BY <1>2, <1>6, <1>8, <4>1
      <4>2. CASE k # i
        BY <1>3, <1>8, <2>1, <4>2 DEF AccountsInv, InvitesInv, Invitation
      <4> QED BY <4>1, <4>2
    <3> QED BY <3>1, <3>2
  <2>2. ASSUME NEW k \in Invite, granted'[k] # {}
        PROVE  invite'[k] # None /\ invite'[k].accepted # None /\ ~invite'[k].revoked /\ granted'[k] = {invite'[k].accepted}
    <3>1. CASE k = i
      BY <1>2, <1>6, <1>8, <1>9, <3>1, RecordAssumption, NoneAssumption
    <3>2. CASE k # i
      BY <1>8, <1>9, <2>2, <3>2 DEF AccountsInv, InvitesInv
    <3> QED BY <3>1, <3>2
  <2> QED BY <2>1, <2>2 DEF InvitesInv, HasOwner
<1>13. SpacesInv'
  <2>1. ASSUME NEW x \in Space, NEW v \in Person, members'[x][v] # None PROVE HasOwner(x)'
    <3>1. HasOwner(x)
      BY <1>2, <1>5, <2>1 DEF AccountsInv, SpacesInv
    <3> QED BY <1>11, <3>1
  <2>2. \A v \in Person : account'[v] # None => \E x \in Space : members'[x][v] # None
    BY <1>1, <1>5 DEF AccountsInv, SpacesInv
  <2> QED BY <2>1, <2>2 DEF SpacesInv
<1>14. ASSUME NEW q \in Request, req'[q] = req[q] PROVE HoldsTrue(q)'
  <2>1. q \in Others(r)
    BY <1>1, <1>14, OnlyOneEnds DEF Others, Idle
  <2>2. HoldsTrue(q) /\ Shape(q) /\ Fits(q) /\ Exclusive(r, q) /\ req[q].rows \subseteq Person
    BY <2>1 DEF AccountsInv, RequestsInv, Others, TypeOK
  <2>3. HoldsRecord(r, i) /\ ~HoldsRecord(q, i)
    <3>1. HoldsRecord(r, i)
      BY <1>1 DEF HoldsRecord, Accepting
    <3> QED BY <1>2, <2>2, <3>1 DEF Exclusive
  <2>4. RowsHold(q)'
    <3>1. req[q].rows # {} \/ req[q].pc \in Decided => req[q].pc \in Locking
      BY <2>2 DEF Fits, Decided, Locking
    <3>2. req[q].pc \in Locking => req[q].target \in Person /\ req[q].space \in Space
      BY <2>2 DEF Shape, Locking, Written
    <3> QED BY <1>5, <1>14, <2>2, <3>1, <3>2, RowsStay
  <2>5. InviteHolds(q)'
    <3>1. req[q].pc \in Accepting => req[q].arg \in Invite \ {i}
      BY <2>2, <2>3 DEF Shape, HoldsRecord, Accepting
    <3> QED BY <1>8, <1>14, <2>2, <3>1 DEF HoldsTrue, InviteHolds, Free
  <2>6. CutsHold(q)'
    <3>1. InvitesStay /\ KeysStay
      <4>1. new.by = invite[i].by /\ new.accepted # None /\ ~invite[i].revoked
        BY <1>2, NoneAssumption DEF new, Invitation, Free
      <4>2. invite'[i] # None
        BY <1>6, <1>8, RecordAssumption
      <4> QED BY <1>1, <1>2, <1>6, <1>8, <4>1, <4>2 DEF InvitesStay, KeysStay
    <3>2. ASSUME NEW k \in req[q].cut \cap Invite PROVE invite'[k].accepted = None
      <4>1. invite[k].accepted = None
        BY <2>2 DEF HoldsTrue, CutsHold
      <4>2. req[q].pc \in Written
        BY <2>2 DEF Fits
      <4>3. k # i
        BY <2>3, <4>2 DEF HoldsRecord
      <4> QED BY <1>8, <4>1, <4>3
    <3> QED BY <1>14, <3>1, <3>2, CutsStay
  <2> QED BY <2>4, <2>5, <2>6 DEF HoldsTrue
<1>15. LoginsInv'
  BY <1>1 DEF AccountsInv, LoginsInv
<1> QED BY <1>1, <1>10, <1>11, <1>12, <1>13, <1>14, <1>15, OnlyOneEnds, TablesKeep
-----------------------------------------------------------------------------
LEMMA InitIsInv == Init => AccountsInv
<1> SUFFICES ASSUME Init PROVE AccountsInv
  OBVIOUS
<1>1. PICK s \in Starts : members = s.members /\ account = s.account /\ session = s.session /\ invite = s.invite /\ key = s.key
  BY DEF Init
<1>2. /\ members \in [Space -> [Person -> Role \cup {None}]]
      /\ account \in [Person -> Account \cup {None}]
      /\ session \in [Session -> [user: Person, space: Space \cup {None}] \cup {None}]
      /\ invite \in [Invite -> Invitation \cup {None}]
      /\ key \in [Key -> ApiKey \cup {None}]
  BY <1>1, StartsAssumption
<1>3. /\ \A t \in Space : (\E u \in Person : members[t][u] # None) => \E u \in Person : members[t][u] = "OWNER"
      /\ \A i \in Invite : invite[i] # None => \E u \in Person : members[invite[i].space][u] = "OWNER"
      /\ \A u \in Person : account[u] # None => \E t \in Space : members[t][u] # None
      /\ \A l \in Login : account[l] = None
  BY <1>1, StartsAssumption
<1>4. /\ req = [r \in Request |-> Idle] /\ login = [l \in Login |-> [pc |-> "start", user |-> None]]
      /\ issued = 0 /\ granted = [i \in Invite |-> {}]
  BY DEF Init
<1>5. Idle \in ReqType /\ Idle.pc = "idle"
  BY DEF Idle, ReqType, Steps, Ops
<1>6. TypeOK
  BY <1>2, <1>4, <1>5, BoundAssumption DEF TypeOK, ReqType
<1>7. RequestsInv
  <2>1. \A r \in Request : req[r].pc = "idle"
    BY <1>4, <1>5
  <2>2. \A r \in Request : req[r].rows = {} /\ req[r].cut = {} /\ req[r].left = {}
    BY <1>4 DEF Idle
  <2>3. ASSUME NEW r \in Request PROVE Shape(r) /\ Fits(r) /\ HoldsTrue(r)
    <3>1. "idle" \notin Locking \cup Accepting \cup Decided \cup Written
      BY DEF Locking, Accepting, Decided, Written
    <3> QED BY <2>1, <2>2, <3>1 DEF Shape, Fits, HoldsTrue, RowsHold, InviteHolds, CutsHold
  <2>4. ASSUME NEW r \in Request, NEW q \in Others(r) PROVE Exclusive(r, q)
    <3>1. (\A t, u : ~HoldsRow(r, t, u)) /\ (\A x : ~HoldsRecord(r, x)) /\ req[r].pc \notin Locking
      BY <2>1, <2>2 DEF HoldsRow, WroteRow, HoldsRecord, Locking, Written, Accepting
    <3> QED BY <3>1 DEF Exclusive
  <2> QED BY <2>3, <2>4 DEF RequestsInv
<1>8. InvitesInv
  BY <1>3, <1>4 DEF InvitesInv, HasOwner
<1>9. SpacesInv
  BY <1>3 DEF SpacesInv, HasOwner
<1>10. LoginsInv
  <2>1. \A l \in Login : login[l].pc = "start"
    BY <1>4
  <2> QED BY <1>3, <2>1 DEF LoginsInv
<1> QED BY <1>6, <1>7, <1>8, <1>9, <1>10 DEF AccountsInv

LEMMA HandleKeeps ==
    ASSUME AccountsInv, NEW r \in Request, Handle(r) PROVE AccountsInv'
<1>1. CASE CountPending(r) \/ CheckTarget(r)
  BY <1>1, UnlockedStepKeeps
<1>2. CASE CreateInvite(r)
  BY <1>2, CreateInviteKeeps
<1>3. CASE CreateKey(r) \/ RevokeOneKey(r)
  BY <1>3, CreateKeyKeeps
<1>4. CASE OutOfIds(r)
  BY <1>4, EndKeeps DEF OutOfIds
<1>5. CASE RevokeOneInvite(r)
  BY <1>5, RevokeInviteKeeps
<1>6. CASE LockPerson(r)
  BY <1>6, LockPersonKeeps
<1>7. CASE SnapshotOwners(r)
  BY <1>7, SnapshotOwnersKeeps
<1>14. CASE LockOwner(r)
  BY <1>14, LockOwnerKeeps
<1>15. CASE ChangeRole(r)
  BY <1>15, ChangeRoleKeeps
<1>16. CASE SnapshotInvites(r) \/ CutInvite(r) \/ CutKeys(r)
  BY <1>16, RevokeStepsKeep
<1>8. CASE Decide(r)
  BY <1>8, DecideKeeps
<1>9. CASE CommitChange(r)
  BY <1>9, CommitChangeKeeps
<1>10. CASE ClaimInvite(r)
  BY <1>10, ClaimInviteKeeps
<1>11. CASE Join(r)
  BY <1>11, JoinKeeps
<1>12. CASE CommitAccept(r)
  BY <1>12, CommitAcceptKeeps
<1>13. CASE SwitchSession(r)
  BY <1>13, SwitchSessionKeeps
<1> QED BY <1>1, <1>2, <1>3, <1>4, <1>5, <1>6, <1>7, <1>8, <1>9, <1>10, <1>11, <1>12, <1>13,
       <1>14, <1>15, <1>16 DEF Handle

LEMMA StepKeeps == AccountsInv /\ [Next]_vars => AccountsInv'
<1> SUFFICES ASSUME AccountsInv, [Next]_vars PROVE AccountsInv'
  OBVIOUS
<1>1. CASE UNCHANGED vars
  <2>1. UNCHANGED <<members, account, session, invite, key, req, login, issued, granted>>
    BY <1>1 DEF vars, tables
  <2>2. TypeOK' /\ InvitesInv' /\ SpacesInv' /\ LoginsInv'
    BY <2>1 DEF AccountsInv, TypeOK, InvitesInv, SpacesInv, LoginsInv, HasOwner
  <2>3. ASSUME NEW q \in Request PROVE Shape(q)' /\ Fits(q)' /\ HoldsTrue(q)'
    <3>1. Shape(q) /\ Fits(q) /\ HoldsTrue(q)
      BY DEF AccountsInv, RequestsInv
    <3> QED BY <2>1, <3>1, UntouchedHolds
  <2>4. ASSUME NEW q \in Request, NEW p \in Others(q) PROVE Exclusive(q, p)'
    <3>1. Exclusive(q, p) /\ p \in Request
      BY DEF AccountsInv, RequestsInv, Others
    <3> QED BY <2>1, <3>1, ExclusiveStays
  <2> QED BY <2>2, <2>3, <2>4 DEF AccountsInv, RequestsInv, Others
<1>2. ASSUME NEW r \in Request, Ask(r) PROVE AccountsInv'
  BY <1>2, AskKeeps
<1>3. ASSUME NEW r \in Request, Handle(r) PROVE AccountsInv'
  BY <1>3, HandleKeeps
<1>4. ASSUME NEW r \in Request, Rollback(r) PROVE AccountsInv'
  BY <1>4, EndKeeps DEF Rollback
<1>8. ASSUME NEW r \in Request, BreakCircle(r) PROVE AccountsInv'
  BY <1>8, EndKeeps DEF BreakCircle
<1>5. ASSUME NEW s \in Session, CloseSession(s) PROVE AccountsInv'
  BY <1>5, CloseSessionKeeps
<1>6. ASSUME NEW i \in Invite, Expire(i) PROVE AccountsInv'
  BY <1>6, ExpireKeeps
<1>7. ASSUME NEW l \in Login, SignIn(l) PROVE AccountsInv'
  <2>1. CASE FindUser(l) \/ FindRaced(l) \/ OpenSession(l) \/ ExchangeFails(l)
    BY <2>1, SignInKeeps
  <2>2. CASE CreateUser(l, "create", Profile[l].email, "raced")
    <3>1. Profile[l].email \in Email \cup {None}
      BY ProfileAssumption
    <3> QED BY <2>2, <3>1, CreateUserKeeps
  <2>3. CASE CreateUser(l, "again", None, "failed")
    BY <2>3, CreateUserKeeps
  <2> QED BY <1>7, <2>1, <2>2, <2>3 DEF SignIn
<1> QED BY <1>1, <1>2, <1>3, <1>4, <1>5, <1>6, <1>7, <1>8 DEF Next

(* What every request, sign-in and transaction relies on, in every state. *)
THEOREM AccountsAreSound == Spec => []AccountsInv
  BY InitIsInv, StepKeeps, PTL DEF Spec

(* A workspace with members keeps an owner and a person with an account a   *)
(* workspace, whatever number of owners demote and remove one another.      *)
THEOREM AccountsNobodyIsOrphaned == Spec => []NobodyIsOrphaned
<1>1. AccountsInv => NobodyIsOrphaned
  <2> SUFFICES ASSUME AccountsInv PROVE NobodyIsOrphaned
    OBVIOUS
  <2>1. SpaceKeepsOwner
    BY DEF AccountsInv, SpacesInv, HasOwner, SpaceKeepsOwner, IsMember, Owners
  <2>2. PersonKeepsSpace
    BY DEF AccountsInv, SpacesInv, PersonKeepsSpace, IsMember, Memberships
  <2> QED BY <2>1, <2>2 DEF AccountsInv, NobodyIsOrphaned
<1> QED BY <1>1, AccountsAreSound, PTL

(* However many persons accept an invitation at once, or again, one of them *)
(* comes in with it, and nobody with one that was revoked.                  *)
THEOREM AccountsInviteUsedOnce == Spec => []InviteUsedOnce
<1>1. AccountsInv => InviteUsedOnce
  <2> SUFFICES ASSUME AccountsInv, NEW i \in Invite
      PROVE  /\ Cardinality(granted[i]) <= 1
             /\ granted[i] # {} => invite[i].accepted \in granted[i] /\ ~invite[i].revoked
    BY DEF InviteUsedOnce
  <2>1. CASE granted[i] = {}
    BY <2>1, FS_EmptySet
  <2>2. CASE granted[i] # {}
    <3>1. ~invite[i].revoked /\ granted[i] = {invite[i].accepted}
      BY <2>2 DEF AccountsInv, InvitesInv
    <3>2. Cardinality(granted[i]) = 1
      BY <3>1, FS_Singleton
    <3> QED BY <3>1, <3>2
  <2> QED BY <2>1, <2>2
<1> QED BY <1>1, AccountsAreSound, PTL

(* A sign-in that races others of the same person, or meets her e-mail in   *)
(* another account, opens the session of whom the provider named.           *)
THEOREM AccountsSignedInAsOneself == Spec => []SignedInAsOneself
<1>1. AccountsInv => SignedInAsOneself
  BY DEF AccountsInv, LoginsInv, SignedInAsOneself
<1> QED BY <1>1, AccountsAreSound, PTL
-----------------------------------------------------------------------------
(* Who changes a role: an owner, an invitation, a first sign-in. *)
LEMMA WhoChangesRoles ==
    ASSUME AccountsInv, [Next]_vars
    PROVE  \/ UNCHANGED <<members, granted>>
           \/ \E r \in Request : CommitChange(r)
           \/ \E r \in Request : CommitAccept(r)
           \/ \E l \in Login : /\ members' = [members EXCEPT ![l][l] = "OWNER"] /\ UNCHANGED granted
                               /\ account[l] = None
<1>1. CASE UNCHANGED vars
  BY <1>1 DEF vars, tables
<1>2. ASSUME NEW r \in Request, Ask(r) PROVE UNCHANGED <<members, granted>>
  BY <1>2 DEF Ask, Authorise, tables
<1>3. ASSUME NEW r \in Request, Handle(r), ~CommitChange(r), ~CommitAccept(r) PROVE UNCHANGED <<members, granted>>
  BY <1>3 DEF Handle, CountPending, CreateInvite, CreateKey, OutOfIds, RevokeOneInvite, RevokeOneKey, LockPerson,
     SnapshotOwners, LockOwner, Locks, Decide, ChangeRole, SnapshotInvites, CutInvite, Cuts, CutKeys, ClaimInvite, Join,
     CheckTarget, SwitchSession, Only, tables
<1>4. ASSUME NEW r \in Request, Rollback(r) PROVE UNCHANGED <<members, granted>>
  BY <1>4 DEF Rollback, Only, tables
<1>8. ASSUME NEW r \in Request, BreakCircle(r) PROVE UNCHANGED <<members, granted>>
  BY <1>8 DEF BreakCircle, Only, tables
<1>5. ASSUME NEW s \in Session, CloseSession(s) PROVE UNCHANGED <<members, granted>>
  BY <1>5 DEF CloseSession
<1>6. ASSUME NEW i \in Invite, Expire(i) PROVE UNCHANGED <<members, granted>>
  BY <1>6 DEF Expire
<1>7. ASSUME NEW l \in Login, SignIn(l)
      PROVE  /\ UNCHANGED granted
             /\ UNCHANGED members \/ (members' = [members EXCEPT ![l][l] = "OWNER"] /\ account[l] = None)
  <2>1. login[l].pc \in {"create", "again"} => account[l] = None
    BY DEF AccountsInv, LoginsInv
  <2>2. ASSUME NEW from \in {"create", "again"}, NEW e, NEW otherwise, CreateUser(l, from, e, otherwise)
        PROVE  UNCHANGED granted /\ (UNCHANGED members \/ (members' = [members EXCEPT ![l][l] = "OWNER"] /\ account[l] = None))
    BY <2>1, <2>2 DEF CreateUser, Creates
  <2>3. CASE FindUser(l) \/ FindRaced(l) \/ OpenSession(l) \/ ExchangeFails(l)
    BY <2>3 DEF FindUser, FindRaced, OpenSession, ExchangeFails, tables
  <2> QED BY <1>7, <2>2, <2>3 DEF SignIn
<1> QED BY <1>1, <1>2, <1>3, <1>4, <1>5, <1>6, <1>7, <1>8 DEF Next

(* The one who accepts never comes out lower, whoever else she is. *)
LEMMA AcceptRaises ==
    ASSUME AccountsInv, NEW r \in Request, CommitAccept(r), NEW t \in Space, NEW u \in Person, IsMember(u, t)
    PROVE  members'[t][u] # None /\ Satisfies(members'[t][u], members[t][u])
<1>1. members[t][u] \in Role /\ members[t] \in [Person -> Role \cup {None}] /\ members \in [Space -> [Person -> Role \cup {None}]]
  BY DEF IsMember, AccountsInv, TypeOK
<1>2. None \notin Role
  BY NoneAssumption
<1> DEFINE given == invite[req[r].arg].role
<1>3. At(r, "joined", {"accept"}) /\ req[r].space \in Space /\ req[r].who \in Person
  BY ActiveIsMine DEF CommitAccept, At
<1>4. given \in Role
  <2>1. req[r].arg \in Invite /\ invite[req[r].arg] # None
    BY <1>3 DEF At, AccountsInv, RequestsInv, Shape, HoldsTrue, InviteHolds, Accepting, Free
  <2> QED BY <2>1 DEF AccountsInv, TypeOK, Invitation, Role
<1>5. CASE members'[t][u] = members[t][u]
  BY <1>1, <1>2, <1>5 DEF Satisfies, Rank, Role
<1>6. CASE members'[t][u] # members[t][u]
  <2>1. Raises(r) /\ members' = [members EXCEPT ![req[r].space][req[r].who] = given]
    BY <1>6 DEF CommitAccept
  <2>2. t = req[r].space /\ u = req[r].who /\ members'[t][u] = given
    BY <1>1, <1>3, <1>6, <2>1
  <2>3. Rank[members[t][u]] < Rank[given]
    BY <1>1, <1>3, <2>1, <2>2, NeverAnOwner
  <2>4. Rank[members[t][u]] \in Nat /\ Rank[given] \in Nat
    BY <1>1, <1>4 DEF Rank, Role
  <2> QED BY <1>2, <1>4, <2>2, <2>3, <2>4 DEF Satisfies
<1> QED BY <1>5, <1>6

(* Accepting an invitation lowers nobody, for any number of persons, owners *)
(* and invitations: a promotion between the read and the update included.   *)
THEOREM AccountsAcceptNeverLowers == Spec => AcceptNeverLowers
<1>1. AccountsInv /\ [Next]_vars =>
        [\A i \in Invite, t \in Space, u \in Person :
           granted'[i] # granted[i] /\ IsMember(u, t) =>
             members'[t][u] # None /\ Satisfies(members'[t][u], members[t][u])]_vars
  <2> SUFFICES ASSUME AccountsInv, [Next]_vars, NEW i \in Invite, NEW t \in Space, NEW u \in Person,
                      granted'[i] # granted[i], IsMember(u, t)
               PROVE  members'[t][u] # None /\ Satisfies(members'[t][u], members[t][u])
    OBVIOUS
  <2>1. CASE \E r \in Request : CommitChange(r)
    BY <2>1 DEF CommitChange, Only
  <2>2. CASE \E r \in Request : CommitAccept(r)
    BY <2>2, AcceptRaises
  <2> QED BY <2>1, <2>2, WhoChangesRoles
<1> QED BY <1>1, AccountsAreSound, PTL DEF Spec, AcceptNeverLowers

(* While a change holds the row that it wrote, nobody else writes it. *)
LEMMA OnlyItsChange ==
    ASSUME AccountsInv, [Next]_vars, NEW r \in Request, req[r].pc \in Written,
           members'[req[r].space][req[r].target] # members[req[r].space][req[r].target]
    PROVE  CommitChange(r)
<1> DEFINE t == req[r].space
           u == req[r].target
<1>1. req[r].pc \in Locking /\ t \in Space /\ u \in Person /\ account[u] # None
  <2>1. req[r].pc \in Locking
    BY DEF Locking
  <2> QED BY <2>1, InChangeFacts
<1>2. members \in [Space -> [Person -> Role \cup {None}]]
  BY DEF AccountsInv, TypeOK
<1>3. ASSUME NEW q \in Request, CommitChange(q) PROVE q = r
  <2>1. /\ req[q].pc \in Locking /\ members' = [members EXCEPT ![req[q].space][req[q].target] = req[q].arg]
    BY <1>3 DEF CommitChange, At, Locking, Written
  <2>2. u = req[q].target
    BY <1>1, <1>2, <2>1
  <2>3. q # r => Exclusive(r, q)
    BY DEF AccountsInv, RequestsInv, Others
  <2> QED BY <1>1, <2>1, <2>2, <2>3 DEF Exclusive
<1>4. ASSUME NEW q \in Request, CommitAccept(q) PROVE FALSE
  <2>1. /\ req[q].pc = "joined" /\ Granted(q)
        /\ members' = IF Raises(q) THEN [members EXCEPT ![req[q].space][req[q].who] = invite[req[q].arg].role] ELSE members
    BY <1>4 DEF CommitAccept, At
  <2>2. Raises(q) /\ t = req[q].space /\ u = req[q].who
    BY <1>1, <1>2, <2>1
  <2>3. r \in Others(q)
    BY <2>1 DEF Others, Written
  <2>4. HoldsRow(r, t, u)
    BY DEF HoldsRow, WroteRow
  <2> QED BY <2>1, <2>2, <2>3, <2>4 DEF Granted, Needs
<1>5. ASSUME NEW l \in Login, members' = [members EXCEPT ![l][l] = "OWNER"], account[l] = None PROVE FALSE
  <2>1. u # l
    BY <1>1, <1>5
  <2> QED BY <1>1, <1>2, <1>5, <2>1
<1> QED BY <1>3, <1>4, <1>5, WhoChangesRoles

(* What was alive when her row was changed is gone when the change commits: *)
(* it was when its statement came to it, or it is among what is published.  *)
LEMMA ChangeRevokes ==
    ASSUME AccountsInv, NEW r \in Request, CommitChange(r), req[r].arg # "OWNER", NEW x \in req[r].left
    PROVE  Gone(x)'
<1>1. /\ req[r].pc = "revoked" /\ req[r].pc \in Locking
      /\ invite' = [i \in Invite |-> IF i \in req[r].cut THEN [invite[i] EXCEPT !.revoked = TRUE] ELSE invite[i]]
      /\ key' = [k \in Key |-> IF k \in req[r].cut THEN [key[k] EXCEPT !.revoked = TRUE] ELSE key[k]]
  BY DEF CommitChange, At, Locking, Written
<1>2. CutsHold(r)
  BY <1>1, InChangeFacts
<1>3. Hers(r, x) /\ (Gone(x) \/ x \in req[r].cut)
  BY <1>1, <1>2 DEF CutsHold
<1>4. ASSUME x \in Invite PROVE invite'[x].revoked \/ invite'[x].accepted # None
  <2>1. invite[x] \in Invitation
    BY <1>3, <1>4 DEF Hers, AccountsInv, TypeOK
  <2> QED BY <1>1, <1>3, <1>4, <2>1 DEF Gone, Invitation
<1>5. ASSUME x \in Key PROVE key'[x].revoked
  <2>1. key[x] \in ApiKey
    BY <1>3, <1>5 DEF Hers, AccountsInv, TypeOK
  <2> QED BY <1>1, <1>3, <1>5, <2>1 DEF Gone, ApiKey
<1> QED BY <1>4, <1>5 DEF Gone

(* A demotion or a removal ends what the person had alive in the space when *)
(* her row was changed, though the change, the revocations and the commit   *)
(* are steps of their own and others create, accept and revoke in between.  *)
THEOREM AccountsDemotionRevokes == Spec => DemotionRevokes
<1>1. AccountsInv /\ [Next]_vars =>
        [\A r \in Request :
         req[r].pc \in Written /\ req[r].arg # "OWNER"
           /\ members'[req[r].space][req[r].target] # members[req[r].space][req[r].target]
         => \A x \in req[r].left : Gone(x)']_vars
  BY OnlyItsChange, ChangeRevokes
<1> QED BY <1>1, AccountsAreSound, PTL DEF Spec, DemotionRevokes

(* Both: accepting takes no role away, and what she had alive when her row *)
(* was changed goes with her role.                                         *)
THEOREM AccountsRolesAreRespected == Spec => RolesAreRespected
BY AccountsAcceptNeverLowers, AccountsDemotionRevokes, PTL DEF RolesAreRespected
=============================================================================
