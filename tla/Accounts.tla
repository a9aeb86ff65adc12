------------------------------ MODULE Accounts ------------------------------
(***************************************************************************)
(* Persons, their sessions, the workspaces they belong to and what an      *)
(* owner leaves behind there (auth/, tenancy/, workspaces/).  A request is *)
(* cut at its awaits: the guards read the session and the role, and the    *)
(* handler runs later with what they read; a PostgreSQL transaction (READ  *)
(* COMMITTED) sees what the others have committed at each statement, holds *)
(* its locks to the end and publishes its writes when it commits.          *)
(*                                                                         *)
(* A sign-in draws the ids of the user, the space and the session it may   *)
(* create: one name stands for the three.  Tokens, names and cookies are   *)
(* left out: who holds a session is who the session belongs to.            *)
(***************************************************************************)
EXTENDS Naturals, FiniteSets

CONSTANTS
    Person,         \* the user ids
    UserId,         \* ... and their order, in which rows are locked
    Space,          \* the tenant ids
    Session,        \* the session ids
    Invite, Key,    \* invitations and API keys that may be created
    Request,        \* slots for requests in flight
    Login,          \* sign-ins with a provider
    Subject,        \* whom the provider identifies
    Email,          \* the verified addresses
    Profile,        \* what the provider says in each sign-in
    Starts,         \* memberships, accounts, sessions and invitations to start from
    MaxPending,     \* MAX_PENDING_INVITES, MAX_ACTIVE_KEYS
    MaxRequests,    \* bound on the requests, sign-ins and expiries of a behaviour
    None

Role == {"VIEWER", "EDITOR", "OWNER"}
Rank == [VIEWER |-> 1, EDITOR |-> 2, OWNER |-> 3]
Satisfies(actual, required) == Rank[actual] >= Rank[required]

ASSUME LoginAssumption == Login \subseteq Person \cap Space \cap Session
ASSUME ProfileAssumption == Profile \in [Login -> [subject: Subject, email: Email \cup {None}]]
ASSUME UserIdAssumption == UserId \in [Person -> Nat] /\ \A u, v \in Person : UserId[u] = UserId[v] => u = v
ASSUME IdAssumption == Invite \cap Key = {}
ASSUME NoneAssumption == None \notin Person \cup Space \cup Session \cup Role \cup Email \cup Invite \cup Key
ASSUME BoundAssumption == MaxRequests \in Nat

ASSUME FiniteAssumption == IsFiniteSet(Person) /\ IsFiniteSet(Space)

VARIABLES
    members,        \* Membership: the role of each person in each space
    account,        \* User: subject and e-mail
    session,        \* Session: whose it is and the space it remembers
    invite,         \* Invitation
    key,            \* ApiKey
    req,            \* the requests in flight
    login,          \* the sign-ins in flight and whom they answer
    issued,         \* requests, sign-ins and expiries so far
    granted         \* who came in with each invitation: read by the properties only

tables == <<members, account, session, invite, key>>
vars == <<tables, req, login, issued, granted>>

Account == [subject: Subject, email: Email \cup {None}]
Invitation == [space: Space, role: {"VIEWER", "EDITOR"}, by: Person,
               accepted: Person \cup {None}, revoked: BOOLEAN, expired: BOOLEAN]
ApiKey == [space: Space, by: Person, revoked: BOOLEAN]
ASSUME RecordAssumption == None \notin Account /\ None \notin Invitation /\ None \notin ApiKey
Ops == {"invite", "key", "revoke", "role", "remove", "accept", "switch"}
Written == {"changed", "revoking", "revoked"}
Locking == {"person", "owners", "decided"} \cup Written
Accepting == {"claimed", "joined"}
Steps == {"idle", "authorised", "counted", "member"} \cup Locking \cup Accepting

(* What the tables start from: a space with members or invitations has an owner, a person
   has a space, and nobody has yet the ids that the sign-ins draw. *)
ASSUME StartsAssumption ==
    \A s \in Starts :
      /\ s.members \in [Space -> [Person -> Role \cup {None}]]
      /\ s.account \in [Person -> Account \cup {None}]
      /\ s.session \in [Session -> [user: Person, space: Space \cup {None}] \cup {None}]
      /\ s.invite \in [Invite -> Invitation \cup {None}]
      /\ s.key \in [Key -> ApiKey \cup {None}]
      /\ \A t \in Space : (\E u \in Person : s.members[t][u] # None) => \E u \in Person : s.members[t][u] = "OWNER"
      /\ \A i \in Invite : s.invite[i] # None => \E u \in Person : s.members[s.invite[i].space][u] = "OWNER"
      /\ \A u \in Person : s.account[u] # None => \E t \in Space : s.members[t][u] # None
      /\ \A l \in Login : s.account[l] = None

Idle == [pc |-> "idle", op |-> "switch", who |-> None, from |-> None, space |-> None,
         target |-> None, arg |-> None, rows |-> {}, want |-> {}, left |-> {}, cut |-> {}, seen |-> None]

TypeOK ==
    /\ members \in [Space -> [Person -> Role \cup {None}]]
    /\ account \in [Person -> Account \cup {None}]
    /\ session \in [Session -> [user: Person, space: Space \cup {None}] \cup {None}]
    /\ invite \in [Invite -> Invitation \cup {None}]
    /\ key \in [Key -> ApiKey \cup {None}]
    /\ req \in [Request ->
         [pc: Steps, op: Ops, who: Person \cup {None}, from: Session \cup {None},
          space: Space \cup {None}, target: Person \cup {None},
          arg: Role \cup Invite \cup Key \cup Space \cup {None},
          rows: SUBSET Person,                  \* rows of owners it has locked
          want: SUBSET (Person \cup Invite),    \* rows its statement has still to lock
          cut: SUBSET (Invite \cup Key),        \* what it has revoked and not yet published
          left: SUBSET (Invite \cup Key),       \* read by the properties only: what she had alive at :157
          seen: Role \cup {None}]]
    /\ login \in [Login -> [pc: {"start", "create", "raced", "again", "known", "in", "failed"},
                            user: Person \cup {None}]]
    /\ issued \in 0..MaxRequests
    /\ granted \in [Invite -> SUBSET Person]

Init ==
    /\ \E s \in Starts : /\ members = s.members /\ account = s.account
                         /\ session = s.session /\ invite = s.invite /\ key = s.key
    /\ req = [r \in Request |-> Idle]
    /\ login = [l \in Login |-> [pc |-> "start", user |-> None]]
    /\ issued = 0
    /\ granted = [i \in Invite |-> {}]
-----------------------------------------------------------------------------
IsMember(u, t) == members[t][u] # None
Owners(t) == {u \in Person : members[t][u] = "OWNER"}
Memberships(u) == {t \in Space : IsMember(u, t)}
Free(i) == invite[i] # None /\ invite[i].accepted = None /\ ~invite[i].revoked /\ ~invite[i].expired

(* What a transaction holds until it ends: the advisory lock on a person, the rows of members
   that it wrote (a change by :157, an acceptance that inserted one) or only locked, and the
   rows of the invitations and keys that it wrote. *)
HoldsPerson(r, u) == req[r].pc \in Locking /\ req[r].target = u
WroteRow(r, t, u) ==
    \/ req[r].pc \in Written /\ req[r].space = t /\ req[r].target = u
    \/ req[r].pc = "joined" /\ req[r].space = t /\ req[r].who = u /\ req[r].seen = None
HoldsRow(r, t, u) ==
    \/ req[r].pc \in Locking /\ req[r].space = t /\ u \in req[r].rows
    \/ WroteRow(r, t, u)
HoldsRecord(r, x) ==
    \/ req[r].pc \in Accepting /\ req[r].arg = x
    \/ req[r].pc \in Written /\ x \in req[r].cut
Others(r) == Request \ {r}
Lowest(u, S) == u \in S /\ \A v \in S : UserId[u] <= UserId[v]

(* It never lowers a role: the update names the role that was read. *)
Raises(r) ==
    /\ req[r].seen = members[req[r].space][req[r].who]
    /\ req[r].seen # None => ~Satisfies(req[r].seen, invite[req[r].arg].role)

(* The transactions that hold what the next statement of a request needs.  The INSERT of an
   acceptance waits for who has written her row, and not for who has only locked it. *)
Needs(r, q) ==
    LET m == req[r] IN
    \/ m.pc = "authorised" /\ m.op \in {"role", "remove"} /\ HoldsPerson(q, m.target)
    \/ m.pc = "authorised" /\ m.op \in {"revoke", "accept"} /\ HoldsRecord(q, m.arg)
    \/ m.pc = "owners" /\ \E u \in m.want : Lowest(u, m.want) /\ HoldsRow(q, m.space, u)
    \/ m.pc = "decided" /\ HoldsRow(q, m.space, m.target)
    \/ m.pc = "revoking" /\ \E i \in m.want : HoldsRecord(q, i)
    \/ m.pc = "claimed" /\ WroteRow(q, m.space, m.who)
    \/ m.pc = "joined" /\ Raises(r) /\ HoldsRow(q, m.space, m.who)

Granted(r) == \A q \in Others(r) : ~Needs(r, q)

(* A smallest set of transactions each of which waits for one of them: a circle. *)
Wait(S) == S # {} /\ \A r \in S : \E q \in S \ {r} : Needs(r, q)
Circle(S) == Wait(S) /\ \A T \in SUBSET S : Wait(T) => T = S

At(r, pc, ops) == req[r].pc = pc /\ req[r].op \in ops
Goes(r, pc) == req' = [req EXCEPT ![r].pc = pc]
Ends(r) == req' = [req EXCEPT ![r] = Idle]
Issue == issued < MaxRequests /\ issued' = issued + 1
Only(x) == UNCHANGED <<login, issued, granted>> /\ UNCHANGED x
-----------------------------------------------------------------------------
(* TenantAuthGuard, findSession and RolesGuard: the active space is the one the session
   remembers while the person belongs to it, else one of hers; the order of joining is left out. *)
Required(op) == IF op \in {"accept", "switch"} THEN "VIEWER" ELSE "OWNER"

ActiveSpaces(s) ==
    LET u == session[s].user IN
    IF session[s].space # None /\ IsMember(u, session[s].space)
    THEN {session[s].space} ELSE Memberships(u)

Authorise(r, s, op, target, arg) ==
    /\ req[r].pc = "idle" /\ session[s] # None /\ Issue
    /\ \E t \in ActiveSpaces(s) :
         /\ Satisfies(members[t][session[s].user], Required(op))
         /\ req' = [req EXCEPT ![r] = [pc |-> "authorised", op |-> op, who |-> session[s].user, from |-> s,
                        space |-> t, target |-> target, arg |-> arg, rows |-> {}, want |-> {}, left |-> {},
                        cut |-> {}, seen |-> None]]
    /\ UNCHANGED <<tables, login, granted>>

(* createInvite offers any role but the owner's. *)
OfferedRolesMutant == Role

OfferedRoles == Role \ {"OWNER"}

(* What the routes take. *)
Ask(r) ==
    \E s \in Session :
      \/ \E role \in OfferedRoles : Authorise(r, s, "invite", None, role)
      \/ Authorise(r, s, "key", None, None)
      \/ \E x \in Invite \cup Key : Authorise(r, s, "revoke", None, x)
      \/ \E u \in Person, role \in Role : account[u] # None /\ Authorise(r, s, "role", u, role)
      \/ \E u \in Person : account[u] # None /\ Authorise(r, s, "remove", u, None)
      \/ \E i \in Invite : Authorise(r, s, "accept", None, i)
      \/ \E t \in Space : Authorise(r, s, "switch", None, t)

(* createInvite and the creation of an API key: count, and then create. *)
Pending(r) ==
    IF req[r].op = "invite"
    THEN {i \in Invite : Free(i) /\ invite[i].space = req[r].space}
    ELSE {k \in Key : key[k] # None /\ key[k].space = req[r].space /\ ~key[k].revoked}

CountPending(r) ==
    /\ At(r, "authorised", {"invite", "key"})
    /\ IF Cardinality(Pending(r)) >= MaxPending THEN Ends(r) ELSE Goes(r, "counted")
    /\ Only(tables)

CreateInvite(r) ==
    /\ At(r, "counted", {"invite"})
    /\ \E i \in Invite :
         /\ invite[i] = None
         /\ invite' = [invite EXCEPT ![i] = [space |-> req[r].space, role |-> req[r].arg, by |-> req[r].who,
                           accepted |-> None, revoked |-> FALSE, expired |-> FALSE]]
    /\ Ends(r)
    /\ Only(<<members, account, session, key>>)

CreateKey(r) ==
    /\ At(r, "counted", {"key"})
    /\ \E k \in Key :
         /\ key[k] = None
         /\ key' = [key EXCEPT ![k] = [space |-> req[r].space, by |-> req[r].who, revoked |-> FALSE]]
    /\ Ends(r)
    /\ Only(<<members, account, session, invite>>)

(* Ids are never reused: with none left the request ends here, as a bound of the model. *)
OutOfIds(r) ==
    /\ \/ At(r, "counted", {"invite"}) /\ \A i \in Invite : invite[i] # None
       \/ At(r, "counted", {"key"}) /\ \A k \in Key : key[k] # None
    /\ Ends(r)
    /\ Only(tables)

(* revokeInvite and the revocation of a key: nothing to do on one of another space, or one already used.
   An invitation that is being accepted, or revoked with its person's role, holds its row. *)
RevokeOneInvite(r) ==
    /\ At(r, "authorised", {"revoke"}) /\ req[r].arg \in Invite
    /\ Granted(r)
    /\ LET i == req[r].arg IN
       invite' = IF invite[i] # None /\ invite[i].space = req[r].space /\ invite[i].accepted = None
                 THEN [invite EXCEPT ![i].revoked = TRUE] ELSE invite
    /\ Ends(r)
    /\ Only(<<members, account, session, key>>)

RevokeOneKey(r) ==
    /\ At(r, "authorised", {"revoke"}) /\ req[r].arg \in Key
    /\ Granted(r)
    /\ LET k == req[r].arg IN
       key' = IF key[k] # None /\ key[k].space = req[r].space
              THEN [key EXCEPT ![k].revoked = TRUE] ELSE key
    /\ Ends(r)
    /\ Only(<<members, account, session, invite>>)
-----------------------------------------------------------------------------
(* changeMembership.  First the advisory lock on the person ... *)
LockPersonMutant(r) == At(r, "authorised", {"role", "remove"}) /\ Goes(r, "person") /\ Only(tables)

LockPerson(r) ==
    /\ At(r, "authorised", {"role", "remove"})
    /\ Granted(r)
    /\ Goes(r, "person")
    /\ Only(tables)

(* ... then the rows of the owners that the statement finds when it starts, one by one in
   the order of their ids, each once nobody holds it. *)
SnapshotOwners(r) ==
    /\ At(r, "person", {"role", "remove"})
    /\ req' = [req EXCEPT ![r].pc = "owners", ![r].want = Owners(req[r].space)]
    /\ Only(tables)

Locks(r, u) ==
    /\ req' = [req EXCEPT ![r].want = @ \ {u},
                          ![r].rows = IF IsMember(u, req[r].space) THEN @ \cup {u} ELSE @]
    /\ Only(tables)

LockOwnerMutant(r) ==
    /\ At(r, "owners", {"role", "remove"})
    /\ \E u \in req[r].want : (\A q \in Others(r) : ~HoldsRow(q, req[r].space, u)) /\ Locks(r, u)

LockOwner(r) ==
    /\ At(r, "owners", {"role", "remove"})
    /\ Granted(r)
    /\ \E u \in req[r].want : Lowest(u, req[r].want) /\ Locks(r, u)

(* The decision of setMemberRole and removeMember: the rule of the last owner, and that nobody
   is left without a space.  A row that is no longer of an owner was locked, and is not counted. *)
Permitted(r) ==
    LET current == members[req[r].space][req[r].target]
        leaves  == current = "OWNER" /\ req[r].arg # "OWNER"
    IN  /\ ~(leaves /\ Cardinality(req[r].rows \cap Owners(req[r].space)) <= 1)
        /\ req[r].op = "remove" => Cardinality(Memberships(req[r].target)) > 1

Decide(r) ==
    /\ At(r, "owners", {"role", "remove"}) /\ req[r].want = {}
    /\ IF IsMember(req[r].target, req[r].space) /\ Permitted(r) THEN Goes(r, "decided") ELSE Ends(r)
    /\ Only(tables)

(* What she has alive in the space, as a statement finds it. *)
Abandoned(r, x) == x # None /\ x.space = req[r].space /\ x.by = req[r].target /\ ~x.revoked
LiveInvites(r) == {i \in Invite : Abandoned(r, invite[i]) /\ invite[i].accepted = None}
LiveKeys(r) == {k \in Key : Abandoned(r, key[k])}

(* The change of her row: nobody else sees it before the commit ... *)
ChangeRole(r) ==
    /\ At(r, "decided", {"role", "remove"})
    /\ Granted(r)
    /\ IF IsMember(req[r].target, req[r].space)
       THEN req' = [req EXCEPT ![r].pc = "changed", ![r].left = LiveInvites(r) \cup LiveKeys(r)]
       ELSE Ends(r)
    /\ Only(tables)

(* ... and, unless it leaves an owner, the end of her invitations, each once nobody holds it
   and if it is still alive then, and of her keys, which no other transaction writes. *)
SnapshotInvites(r) ==
    /\ At(r, "changed", {"role", "remove"}) /\ req[r].arg # "OWNER"
    /\ req' = [req EXCEPT ![r].pc = "revoking", ![r].want = LiveInvites(r)]
    /\ Only(tables)

Cuts(r, i) ==
    /\ req' = [req EXCEPT ![r].want = @ \ {i}, ![r].cut = IF i \in LiveInvites(r) THEN @ \cup {i} ELSE @]
    /\ Only(tables)

CutInviteMutant(r) ==
    /\ At(r, "revoking", {"role", "remove"})
    /\ \E i \in req[r].want :
         IF \A q \in Others(r) : ~HoldsRecord(q, i) THEN Cuts(r, i)
         ELSE req' = [req EXCEPT ![r].want = @ \ {i}] /\ Only(tables)

CutInvite(r) ==
    /\ At(r, "revoking", {"role", "remove"})
    /\ \E i \in req[r].want : (\A q \in Others(r) : ~HoldsRecord(q, i)) /\ Cuts(r, i)

CutKeys(r) ==
    /\ At(r, "revoking", {"role", "remove"}) /\ req[r].want = {}
    /\ req' = [req EXCEPT ![r].pc = "revoked", ![r].cut = @ \cup LiveKeys(r)]
    /\ Only(tables)

CommitChange(r) ==
    /\ \/ At(r, "revoked", {"role", "remove"})
       \/ At(r, "changed", {"role"}) /\ req[r].arg = "OWNER"
    /\ members' = [members EXCEPT ![req[r].space][req[r].target] = req[r].arg]
    /\ invite' = [i \in Invite |-> IF i \in req[r].cut THEN [invite[i] EXCEPT !.revoked = TRUE] ELSE invite[i]]
    /\ key' = [k \in Key |-> IF k \in req[r].cut THEN [key[k] EXCEPT !.revoked = TRUE] ELSE key[k]]
    /\ Ends(r)
    /\ Only(<<account, session>>)
-----------------------------------------------------------------------------
(* acceptInvite: the conditional UPDATE takes the row of the invitation; a second one waits
   for it, and then finds it used: the person who used it gets her answer again. *)
ClaimInviteMutant(r) ==
    /\ At(r, "authorised", {"accept"})
    /\ IF invite[req[r].arg] # None /\ ~invite[req[r].arg].revoked
       THEN req' = [req EXCEPT ![r].pc = "claimed", ![r].space = invite[req[r].arg].space]
       ELSE Ends(r)
    /\ Only(tables)

ClaimInvite(r) ==
    /\ At(r, "authorised", {"accept"})
    /\ Granted(r)
    /\ IF Free(req[r].arg)
       THEN req' = [req EXCEPT ![r].pc = "claimed", ![r].space = invite[req[r].arg].space]
       ELSE Ends(r)
    /\ Only(tables)

(* INSERT ... ON CONFLICT DO NOTHING and the role she has now, hers if she was a member. *)
Join(r) ==
    LET t == req[r].space  u == req[r].who IN
    /\ At(r, "claimed", {"accept"})
    /\ Granted(r)
    /\ req' = [req EXCEPT ![r].pc = "joined",
                          ![r].seen = IF IsMember(u, t) THEN members[t][u] ELSE None]
    /\ Only(tables)

(* The update of her role, if it is to rise, and the commit. *)
CommitAccept(r) ==
    LET t == req[r].space  u == req[r].who  i == req[r].arg IN
    /\ At(r, "joined", {"accept"})
    /\ Granted(r)
    /\ members' = IF Raises(r) THEN [members EXCEPT ![t][u] = invite[i].role] ELSE members
    /\ invite' = [invite EXCEPT ![i].accepted = u]
    /\ granted' = [granted EXCEPT ![i] = @ \cup {u}]
    /\ Ends(r)
    /\ UNCHANGED <<account, session, key, login, issued>>

(* A transaction that fails, or exceeds its time, leaves nothing. *)
Rollback(r) ==
    /\ req[r].pc \in Locking \cup Accepting
    /\ Ends(r)
    /\ Only(tables)

(* PostgreSQL looks for circles and ends one of the transactions of each: a 500 for its request. *)
BreakCircle(r) ==
    /\ \E S \in SUBSET Request : r \in S /\ Circle(S)
    /\ Ends(r)
    /\ Only(tables)
-----------------------------------------------------------------------------
(* switchWorkspace: is she a member?, and then the update of the session that asked. *)
CheckTarget(r) ==
    /\ At(r, "authorised", {"switch"})
    /\ IF IsMember(req[r].who, req[r].arg) THEN Goes(r, "member") ELSE Ends(r)
    /\ Only(tables)

SwitchSession(r) ==
    /\ At(r, "member", {"switch"})
    /\ session' = IF session[req[r].from] = None THEN session
                  ELSE [session EXCEPT ![req[r].from].space = req[r].arg]
    /\ Ends(r)
    /\ Only(<<members, account, invite, key>>)

(* A session is closed by its person or expires; an invitation expires. *)
CloseSession(s) ==
    /\ session[s] # None /\ Issue
    /\ session' = [session EXCEPT ![s] = None]
    /\ UNCHANGED <<members, account, invite, key, req, login, granted>>

Expire(i) ==
    /\ Free(i) /\ \A q \in Request : ~HoldsRecord(q, i)
    /\ Issue
    /\ invite' = [invite EXCEPT ![i].expired = TRUE]
    /\ UNCHANGED <<members, account, session, key, req, login, granted>>
-----------------------------------------------------------------------------
(* Sign-in (callback, login, openSession). *)
LoginGoes(l, pc, u) == login' = [login EXCEPT ![l] = [pc |-> pc, user |-> u]]
Known(l) == {u \in Person : account[u] # None /\ account[u].subject = Profile[l].subject}
EmailTaken(e) == e # None /\ \E u \in Person : account[u] # None /\ account[u].email = e

FindUser(l) ==
    /\ login[l].pc = "start" /\ Issue
    /\ IF Known(l) # {} THEN \E u \in Known(l) : LoginGoes(l, "known", u) ELSE LoginGoes(l, "create", None)
    /\ UNCHANGED <<tables, req, granted>>

(* The person, her space and her membership, in one transaction; P2002 when her identity or her e-mail is taken. *)
Creates(l, e) ==
    /\ account' = [account EXCEPT ![l] = [subject |-> Profile[l].subject, email |-> e]]
    /\ members' = [members EXCEPT ![l][l] = "OWNER"]
    /\ LoginGoes(l, "known", l)

CreateUser(l, from, e, otherwise) ==
    /\ login[l].pc = from
    /\ IF Known(l) = {} /\ ~EmailTaken(e)
       THEN Creates(l, e)
       ELSE LoginGoes(l, otherwise, None) /\ UNCHANGED <<members, account>>
    /\ UNCHANGED <<session, invite, key, req, issued, granted>>

FindRacedMutant(l) ==
    /\ login[l].pc = "raced"
    /\ \E u \in Person : /\ account[u] # None /\ account[u].email = Profile[l].email
                         /\ LoginGoes(l, "known", u)
    /\ UNCHANGED <<tables, req, issued, granted>>

FindRaced(l) ==
    /\ login[l].pc = "raced"
    /\ IF Known(l) # {} THEN \E u \in Known(l) : LoginGoes(l, "known", u) ELSE LoginGoes(l, "again", None)
    /\ UNCHANGED <<tables, req, issued, granted>>

OpenSession(l) ==
    /\ login[l].pc = "known"
    /\ session' = [session EXCEPT ![l] = [user |-> login[l].user, space |-> None]]
    /\ LoginGoes(l, "in", login[l].user)
    /\ UNCHANGED <<members, account, invite, key, req, issued, granted>>

(* The provider answers an error, or none at all. *)
ExchangeFails(l) ==
    /\ login[l].pc = "start" /\ Issue
    /\ LoginGoes(l, "failed", None)
    /\ UNCHANGED <<tables, req, granted>>

SignIn(l) ==
    \/ FindUser(l) \/ FindRaced(l) \/ OpenSession(l) \/ ExchangeFails(l)
    \/ CreateUser(l, "create", Profile[l].email, "raced")
    \/ CreateUser(l, "again", None, "failed")

Handle(r) ==
    \/ CountPending(r) \/ CreateInvite(r) \/ CreateKey(r) \/ OutOfIds(r)
    \/ RevokeOneInvite(r) \/ RevokeOneKey(r)
    \/ LockPerson(r) \/ SnapshotOwners(r) \/ LockOwner(r) \/ Decide(r)
    \/ ChangeRole(r) \/ SnapshotInvites(r) \/ CutInvite(r) \/ CutKeys(r) \/ CommitChange(r)
    \/ ClaimInvite(r) \/ Join(r) \/ CommitAccept(r)
    \/ CheckTarget(r) \/ SwitchSession(r)

Next ==
    \/ \E r \in Request : Ask(r)
    \/ \E r \in Request : Handle(r)
    \/ \E r \in Request : Rollback(r)
    \/ \E r \in Request : BreakCircle(r)
    \/ \E s \in Session : CloseSession(s)
    \/ \E i \in Invite : Expire(i)
    \/ \E l \in Login : SignIn(l)

Spec == Init /\ [][Next]_vars

(* The process runs the requests it has, PostgreSQL grants a lock that becomes free, and breaks the circles. *)
FairSpec == Spec /\ (\A r \in Request : WF_vars(Handle(r))) /\ WF_vars(\E r \in Request : BreakCircle(r))
-----------------------------------------------------------------------------
(* The rule of the last owner: a workspace with members keeps an owner, whoever demotes or removes whom at once. *)
SpaceKeepsOwner == \A t \in Space : (\E u \in Person : IsMember(u, t)) => Owners(t) # {}

(* Nobody with an account is left without a workspace, which would be a 401 for ever. *)
PersonKeepsSpace == \A u \in Person : account[u] # None => Memberships(u) # {}

(* Nobody and nothing is orphaned by changes that cross. *)
NobodyIsOrphaned == TypeOK /\ SpaceKeepsOwner /\ PersonKeepsSpace

(* Of all who accept an invitation at once, or again, one comes in; and nobody with a revoked one. *)
InviteUsedOnce ==
    \A i \in Invite :
      /\ Cardinality(granted[i]) <= 1
      /\ granted[i] # {} => invite[i].accepted \in granted[i] /\ ~invite[i].revoked

(* A sign-in opens the session of the person the provider named, with or against another one of hers. *)
SignedInAsOneself ==
    \A l \in Login : login[l].pc = "in" => account[login[l].user].subject = Profile[l].subject

(* Accepting an invitation lowers nobody, a promotion in between included. *)
AcceptNeverLowers ==
    [][\A i \in Invite, t \in Space, u \in Person :
         granted'[i] # granted[i] /\ IsMember(u, t) =>
           members'[t][u] # None /\ Satisfies(members'[t][u], members[t][u])]_vars

(* Whose role goes, or becomes one that is not an owner's, keeps no invitation and no key of
   those she had alive in the space when her row was changed (:157): not one that somebody was
   accepting at that time either.  What a request of hers creates behind those statements is
   not among them, whatever the comment at :159 says. *)
Gone(x) ==
    /\ x \in Invite => invite[x].revoked \/ invite[x].accepted # None
    /\ x \in Key => key[x].revoked
DemotionRevokes ==
    [][\A r \in Request :
         req[r].pc \in Written /\ req[r].arg # "OWNER"
           /\ members'[req[r].space][req[r].target] # members[req[r].space][req[r].target]
         => \A x \in req[r].left : Gone(x)']_vars

(* No request leaves somebody with less than was given, or with what was taken away. *)
RolesAreRespected == AcceptNeverLowers /\ DemotionRevokes

(* The order in which rows of owners are locked does what it is there for: transactions that
   wait in a circle have one of them past that statement, a change at her row or an acceptance
   (two changes may still wait for each other there, and a change for her own acceptance). *)
OwnersAreLockedInOrder ==
    \A S \in SUBSET Request : Circle(S) => \E r \in S : req[r].pc \in {"decided", "claimed", "joined"}

(* No step closes a circle among the rows of owners, and every request is answered, by an error
   at worst: no lock is kept by who has ended, and the circles, which the order of the locks
   does not exclude, are broken. *)
RequestsAreAnswered ==
    /\ [][OwnersAreLockedInOrder']_vars
    /\ \A r \in Request : req[r].pc # "idle" ~> req[r].pc = "idle"
=============================================================================
