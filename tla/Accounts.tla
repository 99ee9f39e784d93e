------------------------------- MODULE Accounts -------------------------------
(***************************************************************************)
(* The users table and everything that writes it: registration, approval,  *)
(* role changes by admins, and the first admin that every API instance     *)
(* creates from its environment when it starts.                            *)
(*                                                                         *)
(* A handler reads the caller's row to authorise the request, then reads   *)
(* the target's row, then commits: three statements under no row lock.     *)
(* Accounts are never deleted, so an account is known by its email.        *)
(***************************************************************************)
CONSTANTS
    Emails,
    BootstrapEmail,  \* settings.admin_bootstrap_email
    Clients,         \* requests in flight
    Instances,       \* API instances that start up
    NoUser           \* an email nobody registered

Roles == {"farmer", "buyer", "admin"}
Users == [role : Roles, approved : BOOLEAN]

Changes == Roles \cup {"approve"}

ASSUME AccountsAssumption == BootstrapEmail \in Emails /\ NoUser \notin Users

VARIABLES
    users,     \* [Emails -> Users \cup {NoUser}], the committed rows
    request,   \* [Clients -> [pc, change, caller, target, loaded]], the change
               \* being "approve" or the role to set
    instance,  \* [Instances -> [pc, loaded]]
    everAdmin  \* history: accounts that have been admins

vars == <<users, request, instance, everAdmin>>

Idle == [pc |-> "idle", change |-> "approve", caller |-> BootstrapEmail,
         target |-> BootstrapEmail, loaded |-> NoUser]

Init ==
    /\ users = [e \in Emails |-> NoUser]
    /\ request = [c \in Clients |-> Idle]
    /\ instance = [i \in Instances |-> [pc |-> "down", loaded |-> NoUser]]
    /\ everAdmin = {}

IsAdmin(e) == users[e] # NoUser /\ users[e].role = "admin"

Admins == {e \in Emails : IsAdmin(e)}

\* Every commit goes through here, for the history.
Commit(e, u) ==
    /\ users' = [users EXCEPT ![e] = u]
    /\ everAdmin' = IF u # NoUser /\ u.role = "admin" THEN everAdmin \cup {e} ELSE everAdmin

-----------------------------------------------------------------------------

\* UserRegister's validator.
SelfServe == {"farmer", "buyer"}

\* register_user: the unique index on the email refuses a second account, also
\* one that is being inserted, so flush and commit are one step.
Register(e, role) ==
    /\ users[e] = NoUser
    /\ role \in SelfServe
    /\ Commit(e, [role |-> role, approved |-> FALSE])
    /\ UNCHANGED <<request, instance>>

\* Slip: any account with a token may pass.
Permitted_any(e) == users[e] # NoUser

\* require_role(ADMIN): the row as it is now, not the role in the token; an
\* admin needs no approval.
Permitted(e) == IsAdmin(e)

\* Slip: an admin may change their own role.
SelfDemotion_allowed(caller, target, change) == FALSE

\* "Cannot demote yourself"
SelfDemotion(caller, target, change) == caller = target /\ change \in Roles \ {"admin"}

\* A request that is refused here changes nothing and is not modelled further.
Authorise(c, change, caller, target) ==
    /\ request[c].pc = "idle"
    /\ Permitted(caller)
    /\ ~SelfDemotion(caller, target, change)
    /\ request' = [request EXCEPT ![c] =
                     [pc |-> "load", change |-> change, caller |-> caller, target |-> target,
                      loaded |-> users[caller]]]
    /\ UNCHANGED <<users, instance, everAdmin>>

\* Slip: the row is used whether or not it was found.
Exists_unchecked(e) == TRUE

\* scalar_one_or_none() is not None; otherwise the answer is 404.
Exists(e) == users[e] # NoUser

\* select(User).where(User.id == user_id).  An account loaded before in the same
\* session, the caller's, keeps the attributes it was loaded with.
Load(c) ==
    LET r   == request[c]
        row == IF r.target = r.caller THEN r.loaded ELSE users[r.target]
    IN
    /\ r.pc = "load"
    /\ request' = [request EXCEPT ![c] =
                     IF Exists(r.target)
                     THEN [pc |-> "save", change |-> r.change, caller |-> r.caller,
                           target |-> r.target, loaded |-> row]
                     ELSE Idle]
    /\ UNCHANGED <<users, instance, everAdmin>>

\* Slip: the whole row is written as it was loaded.
Written_row(old, loaded, new) == new

\* UPDATE sets only the columns whose attribute was changed.
Written(old, loaded, new) ==
    [role     |-> IF new.role = loaded.role THEN old.role ELSE new.role,
     approved |-> IF new.approved = loaded.approved THEN old.approved ELSE new.approved]

\* The assignment of approve_user or set_user_role to the loaded object.
Edited(loaded, change) ==
    IF change = "approve" THEN [role |-> loaded.role, approved |-> TRUE]
                          ELSE [role |-> change, approved |-> loaded.approved]

Save(c) ==
    LET r == request[c] IN
    /\ r.pc = "save"
    /\ Commit(r.target, Written(users[r.target], r.loaded, Edited(r.loaded, r.change)))
    /\ request' = [request EXCEPT ![c] = Idle]
    /\ UNCHANGED instance

\* The connection or the process fails; nothing was written.
Abort(c) ==
    /\ request[c].pc # "idle"
    /\ request' = [request EXCEPT ![c] = Idle]
    /\ UNCHANGED <<users, instance, everAdmin>>

-----------------------------------------------------------------------------

FirstAdmin == [role |-> "admin", approved |-> TRUE]

\* lifespan calls bootstrap_admin, which looks for the account.
Start(i) ==
    /\ instance[i].pc = "down"
    /\ instance' = [instance EXCEPT ![i] = [pc |-> "bootstrap", loaded |-> users[BootstrapEmail]]]
    /\ UNCHANGED <<users, request, everAdmin>>

\* It inserts or promotes it and the instance serves; if another instance or a
\* registration inserted it meanwhile, the commit fails and so does startup.
Bootstrap(i) ==
    LET loaded == instance[i].loaded
        old    == users[BootstrapEmail]
    IN
    /\ instance[i].pc = "bootstrap"
    /\ \/ /\ loaded = NoUser /\ old = NoUser
          /\ Commit(BootstrapEmail, FirstAdmin)
          /\ instance' = [instance EXCEPT ![i] = [pc |-> "serving", loaded |-> NoUser]]
       \/ /\ loaded # NoUser
          /\ Commit(BootstrapEmail, Written(old, loaded, FirstAdmin))
          /\ instance' = [instance EXCEPT ![i] = [pc |-> "serving", loaded |-> NoUser]]
       \/ /\ loaded = NoUser /\ old # NoUser
          /\ instance' = [instance EXCEPT ![i] = [pc |-> "down", loaded |-> NoUser]]
          /\ UNCHANGED <<users, everAdmin>>
    /\ UNCHANGED request

Stop(i) ==
    /\ instance[i].pc # "down"
    /\ instance' = [instance EXCEPT ![i] = [pc |-> "down", loaded |-> NoUser]]
    /\ UNCHANGED <<users, request, everAdmin>>

-----------------------------------------------------------------------------

Next ==
    \/ \E e \in Emails, role \in Roles : Register(e, role)
    \/ \E c \in Clients :
          \/ \E change \in Changes, caller \in Emails, target \in Emails :
                Authorise(c, change, caller, target)
          \/ Load(c) \/ Save(c) \/ Abort(c)
    \/ \E i \in Instances : Start(i) \/ Bootstrap(i) \/ Stop(i)

Spec == Init /\ [][Next]_vars

-----------------------------------------------------------------------------
(***************************************************************************)
(*                               Properties                                *)
(***************************************************************************)

Requests == [pc : {"idle", "load", "save"}, change : Changes, caller : Emails,
             target : Emails, loaded : Users \cup {NoUser}]

\* In particular nothing is saved that was not loaded.
TypeOK ==
    /\ users \in [Emails -> Users \cup {NoUser}]
    /\ request \in [Clients -> Requests]
    /\ \A c \in Clients : request[c].pc # "idle" => request[c].loaded # NoUser
    /\ instance \in [Instances -> [pc : {"down", "bootstrap", "serving"}, loaded : Users \cup {NoUser}]]
    /\ everAdmin \subseteq Emails

\* An approval is never lost, although approve_user and set_user_role read and
\* write the same row without a lock: each writes only the column it changed.
ApprovalSticks ==
    [][\A e \in Emails : users[e] # NoUser /\ users[e].approved
         => users'[e] # NoUser /\ users'[e].approved]_vars

\* The request whose UPDATE, or the instance whose bootstrap, a step commits.
Saves(c) == request[c].pc = "save" /\ request'[c].pc = "idle"

Boots(i) == instance[i].pc = "bootstrap" /\ instance'[i].pc = "serving"

\* Nobody becomes an admin but through someone who was one, or through the
\* environment of an instance (auth/schemas.py:20-23).
AdminsComeFromAdmins ==
    [][\A e \in Emails : e \in Admins' \ Admins =>
         \/ e = BootstrapEmail /\ \E i \in Instances : Boots(i)
         \/ \E c \in Clients : Saves(c) /\ request[c].target = e /\ request[c].caller \in everAdmin]_vars

\* The last admin is lost only to a request whose caller was demoted after it
\* was authorised: the check against demoting oneself (auth/router.py:89-92)
\* leaves no other way, and leaves this one when two admins demote each other.
LastAdminLostOnlyToStaleAuthority ==
    [][Admins # {} /\ Admins' = {} =>
         \E c \in Clients : Saves(c) /\ ~IsAdmin(request[c].caller)]_vars
===============================================================================
