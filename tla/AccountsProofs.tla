---------------------------- MODULE AccountsProofs ----------------------------
(***************************************************************************)
(* Proofs about Accounts, for any set of accounts, requests and instances. *)
(* Authority is the inductive invariant behind the theorems about admins:  *)
(* whoever is behind a request in flight was once an admin and is not      *)
(* demoting themselves.                                                    *)
(***************************************************************************)
EXTENDS Accounts, TLAPS

\* A row that was loaded is still there, since nothing deletes accounts.
Loaded ==
    /\ \A c \in Clients : request[c].pc = "save" => users[request[c].target] # NoUser
    /\ \A i \in Instances :
          instance[i].pc = "bootstrap" /\ instance[i].loaded # NoUser => users[BootstrapEmail] # NoUser

Authority ==
    /\ Admins \subseteq everAdmin
    /\ \A c \in Clients : request[c].pc # "idle" =>
          /\ request[c].caller \in everAdmin
          /\ ~SelfDemotion(request[c].caller, request[c].target, request[c].change)

Inv == TypeOK /\ Loaded /\ Authority

-----------------------------------------------------------------------------

\* What an UPDATE leaves is a row again.
LEMMA WrittenType ==
    ASSUME NEW old \in Users, NEW loaded \in Users, NEW new \in Users
    PROVE  Written(old, loaded, new) \in Users
BY DEF Written, Users

\* And so is the object a handler has changed.
LEMMA EditedType ==
    ASSUME NEW loaded \in Users, NEW change \in Changes
    PROVE  Edited(loaded, change) \in Users
BY DEF Users, Changes, Edited

\* The record of a client without a request.
LEMMA IdleType == Idle \in Requests /\ Idle.pc = "idle"
BY AccountsAssumption DEF Idle, Requests, Changes

\* NoUser is no row, and the first admin is one.
LEMMA RowTypes == NoUser \notin Users /\ FirstAdmin \in Users /\ BootstrapEmail \in Emails
BY AccountsAssumption DEF FirstAdmin, Users, Roles

\* The cases of Next, for the proofs below.
LEMMA Cases ==
    ASSUME [Next]_vars
    PROVE  \/ \E e \in Emails, role \in Roles : Register(e, role)
           \/ \E c \in Clients, change \in Changes, caller \in Emails, target \in Emails :
                 Authorise(c, change, caller, target)
           \/ \E c \in Clients : Load(c)
           \/ \E c \in Clients : Save(c)
           \/ \E c \in Clients : Abort(c)
           \/ \E i \in Instances : Start(i)
           \/ \E i \in Instances : Bootstrap(i)
           \/ \E i \in Instances : Stop(i)
           \/ UNCHANGED vars
BY DEF Next

\* What the commit of row u for e leaves behind.
Known(e, u) ==
    /\ users' \in [Emails -> Users \cup {NoUser}]
    /\ everAdmin \subseteq everAdmin' /\ everAdmin' \subseteq Emails
    /\ users'[e] = u /\ \A f \in Emails \ {e} : users'[f] = users[f]
    /\ \A f \in Emails : users[f] # NoUser => users'[f] # NoUser
    /\ Admins' \subseteq everAdmin'

\* A commit touches one row, removes none and records every admin.
LEMMA Committed ==
    ASSUME TypeOK, Authority, NEW e \in Emails, NEW u \in Users, Commit(e, u)
    PROVE  Known(e, u)
BY RowTypes DEF TypeOK, Authority, Commit, Admins, IsAdmin, Known

\* Load either drops the request or fills in a row and goes on to save it.
LEMMA LoadStep ==
    ASSUME TypeOK, NEW c \in Clients, Load(c)
    PROVE  \E new \in Requests :
              /\ request' = [request EXCEPT ![c] = new]
              /\ UNCHANGED <<users, instance, everAdmin>>
              /\ \/ new.pc = "idle"
                 \/ /\ new.pc = "save" /\ request[c].pc = "load" /\ new.loaded # NoUser
                    /\ new.caller = request[c].caller /\ new.target = request[c].target
                    /\ new.change = request[c].change
                    /\ users[new.target] # NoUser
<1>1. request[c] \in Requests /\ request[c].pc = "load" /\ request[c].loaded # NoUser
  BY DEF TypeOK, Load
<1>2. users[request[c].target] \in Users \cup {NoUser}
  BY <1>1 DEF TypeOK, Requests
<1>3. CASE ~Exists(request[c].target)
  BY <1>3, IdleType DEF Load
<1>4. CASE Exists(request[c].target)
  <2> DEFINE row == IF request[c].target = request[c].caller THEN request[c].loaded
                    ELSE users[request[c].target]
             new == [pc |-> "save", change |-> request[c].change, caller |-> request[c].caller,
                     target |-> request[c].target, loaded |-> row]
  <2>1. row \in Users \cup {NoUser} /\ row # NoUser
    BY <1>1, <1>2, <1>4 DEF Requests, Exists
  <2>2. request' = [request EXCEPT ![c] = new] /\ UNCHANGED <<users, instance, everAdmin>>
    BY <1>1, <1>4 DEF Load
  <2>3. users[new.target] # NoUser
    BY <1>4 DEF Exists
  <2> HIDE DEF row
  <2>4. new \in Requests
    BY <1>1, <2>1 DEF Requests
  <2> QED BY <1>1, <2>1, <2>2, <2>3, <2>4
<1> QED BY <1>3, <1>4

\* Save commits a row that differs from the committed one in the changed column.
LEMMA SaveStep ==
    ASSUME TypeOK, Loaded, NEW c \in Clients, Save(c)
    PROVE  LET r == request[c] IN
           /\ r \in Requests /\ r.pc = "save" /\ users[r.target] \in Users
           /\ request' = [request EXCEPT ![c] = Idle] /\ UNCHANGED instance
           /\ \E u \in Users :
                 /\ Commit(r.target, u)
                 /\ users[r.target].approved => u.approved
                 /\ r.change = "approve" => u.role = users[r.target].role
                 /\ r.change = "admin" /\ users[r.target].role = "admin" => u.role = "admin"
<1> DEFINE r   == request[c]
           old == users[r.target]
           new == Edited(r.loaded, r.change)
           u   == Written(old, r.loaded, new)
<1>1. r \in Requests /\ r.pc = "save" /\ r.loaded \in Users /\ old \in Users
  BY DEF TypeOK, Loaded, Save, Requests
<1>2. request' = [request EXCEPT ![c] = Idle] /\ UNCHANGED instance /\ Commit(r.target, u)
  BY DEF Save
<1>3. new \in Users /\ u \in Users
  BY <1>1, EditedType, WrittenType DEF Requests
<1>4. /\ old.approved => u.approved
      /\ r.change = "approve" => u.role = old.role
      /\ r.change = "admin" /\ old.role = "admin" => u.role = "admin"
  BY <1>1 DEF Written, Edited, Users
<1> HIDE DEF u, new
<1> QED BY <1>1, <1>2, <1>3, <1>4

\* Bootstrap promotes the account it found, or fails and changes nothing.
LEMMA BootstrapStep ==
    ASSUME TypeOK, Loaded, NEW i \in Instances, Bootstrap(i)
    PROVE  /\ instance[i].pc = "bootstrap" /\ UNCHANGED request
           /\ \E pc \in {"serving", "down"} :
                 instance' = [instance EXCEPT ![i] = [pc |-> pc, loaded |-> NoUser]]
           /\ \/ UNCHANGED <<users, everAdmin>>
              \/ \E u \in Users :
                    /\ Commit(BootstrapEmail, u)
                    /\ users[BootstrapEmail] # NoUser /\ users[BootstrapEmail].approved => u.approved
                    /\ IsAdmin(BootstrapEmail) => u.role = "admin"
<1> DEFINE loaded == instance[i].loaded
           old    == users[BootstrapEmail]
           u      == Written(old, loaded, FirstAdmin)
<1>1. instance[i].pc = "bootstrap" /\ UNCHANGED request
  BY DEF Bootstrap
<1>2. loaded \in Users \cup {NoUser} /\ old \in Users \cup {NoUser}
  BY RowTypes DEF TypeOK
<1>3. \E pc \in {"serving", "down"} :
         instance' = [instance EXCEPT ![i] = [pc |-> pc, loaded |-> NoUser]]
  BY DEF Bootstrap
<1>4. CASE loaded = NoUser /\ old = NoUser
  <2>1. Commit(BootstrapEmail, FirstAdmin)
    BY <1>4 DEF Bootstrap
  <2> QED BY <1>1, <1>3, <1>4, <2>1, RowTypes DEF IsAdmin, FirstAdmin
<1>5. CASE loaded # NoUser
  <2>1. old \in Users /\ loaded \in Users
    BY <1>1, <1>2, <1>5 DEF Loaded
  <2>2. Commit(BootstrapEmail, u)
    BY <1>5 DEF Bootstrap
  <2>3. u \in Users
    BY <2>1, RowTypes, WrittenType
  <2>4. (old.approved => u.approved) /\ (old.role = "admin" => u.role = "admin")
    BY <2>1 DEF Written, FirstAdmin, Users
  <2> HIDE DEF u
  <2> QED BY <1>1, <1>3, <2>1, <2>2, <2>3, <2>4 DEF IsAdmin
<1>6. CASE loaded = NoUser /\ old # NoUser
  BY <1>1, <1>3, <1>6 DEF Bootstrap
<1> QED BY <1>4, <1>5, <1>6

-----------------------------------------------------------------------------

\* There are no accounts and no requests at the start.
LEMMA InitInv == Init => Inv
BY IdleType DEF Init, Inv, TypeOK, Loaded, Authority, Admins, IsAdmin

\* One step per action; Save and Bootstrap through what their lemmas say.
LEMMA NextInv == Inv /\ [Next]_vars => Inv'
<1> SUFFICES ASSUME Inv, [Next]_vars PROVE Inv'
  OBVIOUS
<1> USE DEF Inv
<1>1. ASSUME NEW e \in Emails, NEW role \in Roles, Register(e, role) PROVE Inv'
  <2> DEFINE u == [role |-> role, approved |-> FALSE]
  <2>1. Commit(e, u) /\ u \in Users /\ UNCHANGED <<request, instance>>
    BY <1>1 DEF Register, Users
  <2> HIDE DEF u
  <2>2. Known(e, u)
    BY <2>1, Committed
  <2>3. TypeOK'
    BY <2>1, <2>2 DEF Known, TypeOK
  <2>4. Loaded' /\ Authority'
    BY <2>1, <2>2, RowTypes DEF Known, TypeOK, Requests, Loaded, Authority, SelfDemotion
  <2> QED BY <2>3, <2>4
<1>2. ASSUME NEW c \in Clients, NEW change \in Changes, NEW caller \in Emails, NEW target \in Emails,
             Authorise(c, change, caller, target)
      PROVE  Inv'
  <2> DEFINE new == [pc |-> "load", change |-> change, caller |-> caller, target |-> target,
                     loaded |-> users[caller]]
  <2>1. /\ request' = [request EXCEPT ![c] = new] /\ UNCHANGED <<users, instance, everAdmin>>
        /\ users[caller] # NoUser /\ caller \in everAdmin /\ ~SelfDemotion(caller, target, change)
    BY <1>2 DEF Authorise, Permitted, IsAdmin, Authority, Admins
  <2>2. new \in Requests
    BY <2>1 DEF Requests, TypeOK
  <2>3. TypeOK'
    BY <2>1, <2>2 DEF TypeOK
  <2>4. Loaded' /\ Authority'
    BY <2>1 DEF TypeOK, Loaded, Authority, SelfDemotion, Admins, IsAdmin
  <2> QED BY <2>3, <2>4
<1>3. ASSUME NEW c \in Clients, Load(c) PROVE Inv'
  <2>1. PICK new \in Requests :
           /\ request' = [request EXCEPT ![c] = new]
           /\ UNCHANGED <<users, instance, everAdmin>>
           /\ \/ new.pc = "idle"
              \/ /\ new.pc = "save" /\ request[c].pc = "load" /\ new.loaded # NoUser
                 /\ new.caller = request[c].caller /\ new.target = request[c].target
                 /\ new.change = request[c].change
                 /\ users[new.target] # NoUser
    BY <1>3, LoadStep
  <2>2. TypeOK'
    BY <2>1 DEF TypeOK
  <2>3. Loaded' /\ Authority'
    BY <2>1 DEF TypeOK, Loaded, Authority, SelfDemotion, Admins, IsAdmin
  <2> QED BY <2>2, <2>3
<1>4. ASSUME NEW c \in Clients, Save(c) PROVE Inv'
  <2>1. request[c] \in Requests /\ request' = [request EXCEPT ![c] = Idle] /\ UNCHANGED instance
    BY <1>4, SaveStep
  <2>2. PICK u \in Users : Commit(request[c].target, u)
    BY <1>4, SaveStep
  <2>3. request[c].target \in Emails
    BY <2>1 DEF Requests
  <2>4. Known(request[c].target, u)
    BY <2>2, <2>3, Committed
  <2>5. TypeOK'
    BY <2>1, <2>4, IdleType DEF Known, TypeOK
  <2>6. Loaded' /\ Authority'
    BY <2>1, <2>4, IdleType, RowTypes DEF Known, TypeOK, Requests, Loaded, Authority, SelfDemotion
  <2> QED BY <2>5, <2>6
<1>5. ASSUME NEW c \in Clients, Abort(c) PROVE Inv'
  BY <1>5, IdleType DEF Abort, TypeOK, Loaded, Authority, SelfDemotion, Admins, IsAdmin
<1>6. ASSUME NEW i \in Instances, Start(i) PROVE Inv'
  BY <1>6, RowTypes DEF Start, TypeOK, Loaded, Authority, SelfDemotion, Admins, IsAdmin
<1>7. ASSUME NEW i \in Instances, Bootstrap(i) PROVE Inv'
  <2>1. UNCHANGED request
    BY <1>7, BootstrapStep
  <2>2. PICK pc \in {"serving", "down"} :
           instance' = [instance EXCEPT ![i] = [pc |-> pc, loaded |-> NoUser]]
    BY <1>7, BootstrapStep
  <2>3. CASE UNCHANGED <<users, everAdmin>>
    BY <2>1, <2>2, <2>3 DEF TypeOK, Loaded, Authority, SelfDemotion, Admins, IsAdmin
  <2>4. CASE \E u \in Users : Commit(BootstrapEmail, u)
    <3>1. PICK u \in Users : Commit(BootstrapEmail, u)
      BY <2>4
    <3>2. Known(BootstrapEmail, u)
      BY <3>1, Committed, RowTypes
    <3>3. TypeOK'
      BY <2>1, <2>2, <3>2, RowTypes DEF Known, TypeOK
    <3>4. Loaded' /\ Authority'
      BY <2>1, <2>2, <3>2, RowTypes DEF Known, TypeOK, Requests, Loaded, Authority, SelfDemotion
    <3> QED BY <3>3, <3>4
  <2> QED BY <1>7, <2>3, <2>4, BootstrapStep
<1>8. ASSUME NEW i \in Instances, Stop(i) PROVE Inv'
  BY <1>8 DEF Stop, TypeOK, Loaded, Authority, SelfDemotion, Admins, IsAdmin
<1>9. CASE UNCHANGED vars
  BY <1>9 DEF vars, TypeOK, Loaded, Authority, SelfDemotion, Admins, IsAdmin
<1> QED BY <1>1, <1>2, <1>3, <1>4, <1>5, <1>6, <1>7, <1>8, <1>9, Cases

\* The invariant holds in every reachable state.
LEMMA Invariance == Spec => []Inv
BY InitInv, NextInv, PTL DEF Spec

\* Every reachable state is well typed, and no handler saves a row it did not
\* find (auth/service.py:80-83, 97-100).
THEOREM TypeCorrect == Spec => []TypeOK
BY Invariance, PTL DEF Inv

-----------------------------------------------------------------------------

\* No step leaves the account e unapproved once it was approved.
Kept == \A e \in Emails : users[e] # NoUser /\ users[e].approved
            => users'[e] # NoUser /\ users'[e].approved

\* A step that changes no row, and one that inserts a new one, keep approvals.
LEMMA KeptStep == Inv /\ [Next]_vars => Kept
<1> SUFFICES ASSUME Inv, [Next]_vars PROVE Kept
  OBVIOUS
<1> USE DEF Inv
<1>1. CASE UNCHANGED users
  BY <1>1 DEF Kept
<1>2. ASSUME NEW e \in Emails, NEW role \in Roles, Register(e, role) PROVE Kept
  <2> DEFINE u == [role |-> role, approved |-> FALSE]
  <2>1. Commit(e, u) /\ u \in Users /\ users[e] = NoUser
    BY <1>2 DEF Register, Users
  <2> HIDE DEF u
  <2>2. Known(e, u)
    BY <2>1, Committed
  <2> QED BY <2>1, <2>2 DEF Known, Kept
<1>3. ASSUME NEW c \in Clients, Save(c) PROVE Kept
  <2>1. request[c].target \in Emails
    BY <1>3, SaveStep DEF Requests
  <2>2. PICK u \in Users : /\ Commit(request[c].target, u)
                           /\ users[request[c].target].approved => u.approved
    BY <1>3, SaveStep
  <2>3. Known(request[c].target, u)
    BY <2>1, <2>2, Committed
  <2> QED BY <2>1, <2>2, <2>3, RowTypes DEF Known, Kept
<1>4. ASSUME NEW i \in Instances, Bootstrap(i) PROVE Kept
  <2>1. CASE \E u \in Users :
               /\ Commit(BootstrapEmail, u)
               /\ users[BootstrapEmail] # NoUser /\ users[BootstrapEmail].approved => u.approved
    <3>1. PICK u \in Users :
             /\ Commit(BootstrapEmail, u)
             /\ users[BootstrapEmail] # NoUser /\ users[BootstrapEmail].approved => u.approved
      BY <2>1
    <3>2. Known(BootstrapEmail, u)
      BY <3>1, Committed, RowTypes
    <3> QED BY <3>1, <3>2, RowTypes DEF Known, Kept
  <2> QED BY <1>1, <1>4, <2>1, BootstrapStep
<1> QED BY <1>1, <1>2, <1>3, <1>4, Cases DEF Authorise, Load, Abort, Start, Stop, vars

\* approve_user and set_user_role never lose each other's update, although
\* neither locks the row (auth/service.py:74-104).
THEOREM ApprovalsSurvive == Spec => ApprovalSticks
<1>1. Inv /\ [Next]_vars => [\A e \in Emails : users[e] # NoUser /\ users[e].approved
                                => users'[e] # NoUser /\ users'[e].approved]_vars
  BY KeptStep DEF Kept
<1> QED BY <1>1, Invariance, PTL DEF Spec, ApprovalSticks

\* What a step may do to the set of admins.
LEMMA AdminStep ==
    Inv /\ [Next]_vars =>
        /\ \A e \in Emails : e \in Admins' \ Admins =>
              \/ e = BootstrapEmail /\ \E i \in Instances : Boots(i)
              \/ \E c \in Clients : Saves(c) /\ request[c].target = e
                                    /\ request[c].caller \in everAdmin
        /\ Admins # {} /\ Admins' = {} =>
              \E c \in Clients : Saves(c) /\ ~IsAdmin(request[c].caller)
<1> DEFINE Grant == \A e \in Emails : e \in Admins' \ Admins =>
              \/ e = BootstrapEmail /\ \E i \in Instances : Boots(i)
              \/ \E c \in Clients : Saves(c) /\ request[c].target = e
                                    /\ request[c].caller \in everAdmin
           Loss == Admins # {} /\ Admins' = {} =>
              \E c \in Clients : Saves(c) /\ ~IsAdmin(request[c].caller)
<1> SUFFICES ASSUME Inv, [Next]_vars PROVE Grant /\ Loss
  OBVIOUS
<1> USE DEF Inv
<1>1. CASE UNCHANGED users
  BY <1>1 DEF Admins, IsAdmin
<1>2. ASSUME NEW e \in Emails, NEW role \in Roles, Register(e, role) PROVE Grant /\ Loss
  <2> DEFINE u == [role |-> role, approved |-> FALSE]
  <2>1. Commit(e, u) /\ u \in Users /\ users[e] = NoUser /\ u.role # "admin"
    BY <1>2 DEF Register, Users, SelfServe
  <2> HIDE DEF u
  <2>2. Known(e, u)
    BY <2>1, Committed
  <2>3. Admins' = Admins
    BY <2>1, <2>2 DEF Known, Admins, IsAdmin
  <2> QED BY <2>3
<1>3. ASSUME NEW c \in Clients, Save(c) PROVE Grant /\ Loss
  <2> DEFINE target == request[c].target
             caller == request[c].caller
             change == request[c].change
  <2>0. Saves(c)
    <3>1. request' = [request EXCEPT ![c] = Idle] /\ request[c].pc = "save"
      BY <1>3, SaveStep
    <3> QED BY <3>1 DEF Saves, Idle, TypeOK
  <2>1. target \in Emails /\ caller \in Emails /\ change \in Changes /\ request[c].pc = "save"
    BY <1>3, SaveStep DEF Requests
  <2>2. PICK u \in Users :
           /\ Commit(target, u)
           /\ change = "approve" => u.role = users[target].role
           /\ change = "admin" /\ users[target].role = "admin" => u.role = "admin"
    BY <1>3, SaveStep
  <2>3. Known(target, u)
    BY <2>1, <2>2, Committed
  <2>4. caller \in everAdmin /\ ~SelfDemotion(caller, target, change)
    BY <2>1 DEF Authority
  <2>5. Grant
    BY <2>0, <2>1, <2>3, <2>4 DEF Known, Admins, IsAdmin
  <2>6. ASSUME IsAdmin(caller) PROVE caller \in Admins'
    <3>1. CASE caller # target
      BY <2>1, <2>3, <2>6, <3>1 DEF Known, Admins, IsAdmin
    <3>2. CASE caller = target
      <4>1. change \in {"approve", "admin"}
        BY <2>1, <2>4, <3>2 DEF SelfDemotion, Changes
      <4>2. u.role = "admin"
        BY <2>2, <2>6, <3>2, <4>1 DEF IsAdmin
      <4> QED BY <2>1, <2>3, <3>2, <4>2, RowTypes DEF Known, Admins, IsAdmin
    <3> QED BY <3>1, <3>2
  <2> QED BY <2>0, <2>5, <2>6
<1>4. ASSUME NEW i \in Instances, Bootstrap(i) PROVE Grant /\ Loss
  <2>1. CASE \E u \in Users :
               /\ Commit(BootstrapEmail, u)
               /\ IsAdmin(BootstrapEmail) => u.role = "admin"
    <3>1. PICK u \in Users : Commit(BootstrapEmail, u) /\ (IsAdmin(BootstrapEmail) => u.role = "admin")
      BY <2>1
    <3>2. Known(BootstrapEmail, u)
      BY <3>1, Committed, RowTypes
    <3>3. Admins \subseteq Admins' /\ Admins' \subseteq Admins \cup {BootstrapEmail}
      BY <3>1, <3>2, RowTypes DEF Known, Admins, IsAdmin
    <3>4. CASE Boots(i)
      BY <3>3, <3>4
    <3>5. CASE ~Boots(i)
      <4>1. UNCHANGED users
        BY <1>4, <3>5 DEF Bootstrap, Boots, TypeOK
      <4> QED BY <1>1, <4>1
    <3> QED BY <3>4, <3>5
  <2> QED BY <1>1, <1>4, <2>1, BootstrapStep
<1> QED BY <1>1, <1>2, <1>3, <1>4, Cases DEF Authorise, Load, Abort, Start, Stop, vars

\* No account becomes an admin by registering or by being approved.
THEOREM AdminsAreMade == Spec => AdminsComeFromAdmins
<1>1. Inv /\ [Next]_vars =>
        [\A e \in Emails : e \in Admins' \ Admins =>
           \/ e = BootstrapEmail /\ \E i \in Instances : Boots(i)
           \/ \E c \in Clients : Saves(c) /\ request[c].target = e
                                 /\ request[c].caller \in everAdmin]_vars
  BY AdminStep
<1> QED BY <1>1, Invariance, PTL DEF Spec, AdminsComeFromAdmins

\* One admin request at a time never leaves the cooperative without an admin.
THEOREM AdminsRemain == Spec => LastAdminLostOnlyToStaleAuthority
<1>1. Inv /\ [Next]_vars =>
        [Admins # {} /\ Admins' = {} =>
           \E c \in Clients : Saves(c) /\ ~IsAdmin(request[c].caller)]_vars
  BY AdminStep
<1> QED BY <1>1, Invariance, PTL DEF Spec, LastAdminLostOnlyToStaleAuthority
===============================================================================
