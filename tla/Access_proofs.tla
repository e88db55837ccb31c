---------------------------- MODULE Access_proofs ----------------------------
(***************************************************************************)
(* Theorems of AccessControl and of Sessions, for any subjects, groups,    *)
(* departments, documents, browsers, keys, lifetimes and bounds.           *)
(***************************************************************************)
EXTENDS AccessControl, Sessions, TLAPS

(* A login that is to be brought up to date is one of the provider's.      *)
SyncHasSubject == \A r \in Reader : reader[r].step = "sync" => reader[r].subject \in Subject

TInv == AccessTypeOK /\ SyncHasSubject

(* The steps of AccessNext, by the variables they change.                  *)
LEMMA AccessSteps ==
  ASSUME AccessNext
  PROVE  \/ \E r \in Reader : LogIn(r) \/ GuestLogIn(r) \/ SyncOrgOnLogin(r) \/ SyncFails(r)
         \/ \E r \in Reader : ResolveGroups(r) \/ ResolveDepartments(r) \/ HybridSearch(r)
         \/ \E k \in DepartmentKey : CreateDepartment(k) \/ DeleteDepartment(k)
         \/ \E k \in DepartmentKey, s \in Subject :
              AddUserToDepartment(s, k) \/ RemoveUserFromDepartment(s, k)
         \/ \E d \in AccessDocument, scope \in Scope, E \in SUBSET Principals :
              SetDocumentAcl(d, scope, E)
         \/ \E d \in AccessDocument, scope \in Scope \cup {Unstated},
               label \in Label \cup {Unstated} : ImportDocument(d, scope, label)
BY DEF AccessNext, AdministerDepartments, ReplaceDocumentAcl, Acls

-----------------------------------------------------------------------------
(* Type correctness.                                                       *)

LEMMA NoSessionType == NoSession \in Session
BY DEF NoSession, Session, SessionStep

LEMMA StepType ==
  ASSUME NEW old \in Session, NEW step \in SessionStep
  PROVE  [old EXCEPT !.step = step] \in Session
BY DEF Session

LEMMA LoggedInType ==
  ASSUME NEW old \in Session, NEW s \in Subject, NEW roles \in SUBSET KnownRole,
         NEW G \in SUBSET GroupKey, NEW D \in SUBSET DepartmentKey
  PROVE  [old EXCEPT !.step = "sync", !.subject = s, !.roles = roles,
                     !.claimedGroups = G, !.claimedDepartments = D] \in Session
BY DEF Session, SessionStep

LEMMA GuestType ==
  ASSUME NEW old \in Session
  PROVE  [old EXCEPT !.step = "ready", !.roles = {"viewer"}] \in Session
BY DEF Session, SessionStep, KnownRole, LevelRole

LEMMA ResolvedGroupsType ==
  ASSUME NEW old \in Session, NEW G \in SUBSET GroupKey
  PROVE  [old EXCEPT !.step = "departments", !.found = {}, !.groups = G] \in Session
BY DEF Session, SessionStep

LEMMA ResolvedDepartmentsType ==
  ASSUME NEW old \in Session, NEW D \in SUBSET DepartmentKey
  PROVE  [old EXCEPT !.step = "query", !.departments = D] \in Session
BY DEF Session, SessionStep

LEMMA FoundType ==
  ASSUME NEW old \in Session, NEW F \in SUBSET AccessDocument
  PROVE  [old EXCEPT !.step = "ready", !.groups = {}, !.departments = {}, !.found = F] \in Session
BY DEF Session, SessionStep

LEMMA ReplacedType ==
  ASSUME NEW row \in DocumentAccess, row # NoAccess,
         NEW scope \in Scope, NEW E \in SUBSET Principals
  PROVE  [row EXCEPT !.scope = scope, !.entries = E] \in DocumentAccess
BY DEF DocumentAccess

LEMMA ImportedType ==
  ASSUME NEW row \in DocumentAccess, row # NoAccess, NEW scope \in Scope, NEW label \in Label
  PROVE  [row EXCEPT !.scope = scope, !.label = label] \in DocumentAccess
BY DEF DocumentAccess

LEMMA LowerCasedType ==
  ASSUME NEW E \in SUBSET Principals
  PROVE  {LowerCased(p) : p \in E} \in SUBSET Principals
BY AccessAssumption DEF LowerCased, Principals

LEMMA MembershipType ==
  ASSUME NEW r \in Reader
  PROVE  Memberships(r) \subseteq Principals /\ Memberships(r)' \subseteq Principals
BY DEF Memberships, GroupsOf, DepartmentsStored, Principals

LEMMA RememberType ==
  ASSUME AccessTypeOK, Remember
  PROVE  belonged' \in [Reader -> SUBSET Principals]
BY MembershipType DEF AccessTypeOK, Remember

LEMMA BecomesType ==
  ASSUME AccessTypeOK, NEW r \in Reader, NEW next \in Session, Becomes(r, next)
  PROVE  /\ reader' \in [Reader -> Session]
         /\ reader'[r] = next
         /\ \A q \in Reader \ {r} : reader'[q] = reader[q]
BY DEF AccessTypeOK, Becomes

(* What a login stores.                                                    *)
LEMMA LogInStores ==
  ASSUME NEW r \in Reader, LogIn(r)
  PROVE  \E next \in Session : /\ Becomes(r, next)
                               /\ next.step = "sync"
                               /\ next.subject \in Subject
<1>1. PICK s \in Subject, roles \in RoleSet, G \in SUBSET GroupKey,
           D \in SUBSET {LowerCase[k] : k \in DepartmentKey} :
        Becomes(r, [NoSession EXCEPT !.step = "sync", !.subject = s, !.roles = roles,
                                     !.claimedGroups = G, !.claimedDepartments = D])
  BY DEF LogIn
<1>d. D \in SUBSET DepartmentKey
  BY AccessAssumption
<1> DEFINE new(old) == [old EXCEPT !.step = "sync", !.subject = s, !.roles = roles,
                                   !.claimedGroups = G, !.claimedDepartments = D]
<1>2. ASSUME NEW old \in Session
      PROVE  new(old) \in Session /\ new(old).step = "sync" /\ new(old).subject = s
  BY <1>d, LoggedInType, AccessAssumption DEF Session
<1>3. Becomes(r, new(NoSession))
  BY <1>1
<1> HIDE DEF new
<1> QED BY <1>2, <1>3, NoSessionType

LEMMA GuestLogInStores ==
  ASSUME NEW r \in Reader, GuestLogIn(r)
  PROVE  \E next \in Session : Becomes(r, next) /\ next.step = "ready"
<1> DEFINE new(old) == [old EXCEPT !.step = "ready", !.roles = {"viewer"}]
<1>1. ASSUME NEW old \in Session
      PROVE  new(old) \in Session /\ new(old).step = "ready"
  BY GuestType DEF Session
<1>2. Becomes(r, new(NoSession))
  BY DEF GuestLogIn
<1> HIDE DEF new
<1> QED BY <1>1, <1>2, NoSessionType

LEMMA SyncStores ==
  ASSUME AccessTypeOK, NEW r \in Reader, SyncOrgOnLogin(r) \/ SyncFails(r)
  PROVE  \E next \in Session : Becomes(r, next) /\ next.step = "ready"
<1>1. ASSUME NEW old \in Session
      PROVE  /\ [old EXCEPT !.step = "ready"] \in Session
             /\ [old EXCEPT !.step = "ready"].step = "ready"
  BY StepType DEF Session, SessionStep
<1>2. reader[r] \in Session
  BY DEF AccessTypeOK
<1> QED BY <1>1, <1>2 DEF SyncOrgOnLogin, SyncFails

LEMMA ResolveGroupsStores ==
  ASSUME AccessTypeOK, NEW r \in Reader, ResolveGroups(r)
  PROVE  \E next \in Session : /\ Becomes(r, next)
                               /\ next.step = "departments"
                               /\ next.subject = reader[r].subject
                               /\ next.groups = GroupsOf(reader[r].subject)
<1> DEFINE G == GroupsOf(reader[r].subject)
<1>1. G \in SUBSET GroupKey
  BY DEF GroupsOf
<1>2. Becomes(r, [reader[r] EXCEPT !.step = "departments", !.found = {}, !.groups = G])
  BY DEF ResolveGroups
<1> HIDE DEF G
<1>3. ASSUME NEW old \in Session
      PROVE  LET new == [old EXCEPT !.step = "departments", !.found = {}, !.groups = G]
             IN  /\ new \in Session
                 /\ new.step = "departments"
                 /\ new.subject = old.subject
                 /\ new.groups = G
  BY <1>1, ResolvedGroupsType DEF Session
<1>4. reader[r] \in Session
  BY DEF AccessTypeOK
<1> QED BY <1>2, <1>3, <1>4 DEF G

LEMMA ResolveDepartmentsStores ==
  ASSUME AccessTypeOK, NEW r \in Reader, ResolveDepartments(r)
  PROVE  \E next \in Session : /\ Becomes(r, next)
                               /\ next.step = "query"
                               /\ next.subject = reader[r].subject
                               /\ next.groups = reader[r].groups
                               /\ next.departments = DepartmentsOf(r)
<1> DEFINE D == DepartmentsOf(r)
<1>1. D \in SUBSET DepartmentKey
  BY AccessAssumption DEF DepartmentsOf, DepartmentsStored
<1>2. Becomes(r, [reader[r] EXCEPT !.step = "query", !.departments = D])
  BY DEF ResolveDepartments
<1> HIDE DEF D
<1>3. ASSUME NEW old \in Session
      PROVE  LET new == [old EXCEPT !.step = "query", !.departments = D]
             IN  /\ new \in Session
                 /\ new.step = "query"
                 /\ new.subject = old.subject
                 /\ new.groups = old.groups
                 /\ new.departments = D
  BY <1>1, ResolvedDepartmentsType DEF Session
<1>4. reader[r] \in Session
  BY DEF AccessTypeOK
<1> QED BY <1>2, <1>3, <1>4 DEF D

LEMMA SearchStores ==
  ASSUME AccessTypeOK, NEW r \in Reader, HybridSearch(r)
  PROVE  \E next \in Session :
           /\ Becomes(r, next)
           /\ next.step = "ready"
           /\ next.found = {d \in AccessDocument : HasDocument(d) /\ DocumentAllowed(r, d)}
<1> DEFINE F == {d \in AccessDocument : HasDocument(d) /\ DocumentAllowed(r, d)}
<1>1. F \in SUBSET AccessDocument
  OBVIOUS
<1>2. Becomes(r, [reader[r] EXCEPT !.step = "ready", !.groups = {}, !.departments = {},
                                   !.found = F])
  BY DEF HybridSearch
<1> HIDE DEF F
<1>3. ASSUME NEW old \in Session
      PROVE  LET new == [old EXCEPT !.step = "ready", !.groups = {}, !.departments = {},
                                    !.found = F]
             IN  new \in Session /\ new.step = "ready" /\ new.found = F
  BY <1>1, FoundType DEF Session
<1>4. reader[r] \in Session
  BY DEF AccessTypeOK
<1> QED BY <1>2, <1>3, <1>4 DEF F

(* A step of a session keeps the types.                                    *)
LEMMA SessionType ==
  ASSUME TInv, NEW r \in Reader,
         \/ LogIn(r) \/ GuestLogIn(r) \/ SyncOrgOnLogin(r) \/ SyncFails(r)
         \/ ResolveGroups(r) \/ ResolveDepartments(r) \/ HybridSearch(r)
  PROVE  TInv'
<1> USE DEF TInv
<1>1. PICK next \in Session : /\ Becomes(r, next)
                              /\ next.step = "sync" => next.subject \in Subject
  BY LogInStores, GuestLogInStores, SyncStores, ResolveGroupsStores,
     ResolveDepartmentsStores, SearchStores
<1>2. reader' \in [Reader -> Session] /\ SyncHasSubject'
  <2>1. /\ reader' \in [Reader -> Session]
        /\ reader'[r] = next
        /\ \A q \in Reader \ {r} : reader'[q] = reader[q]
    <3> HIDE DEF TInv
    <3>1. AccessTypeOK /\ Becomes(r, next)
      BY <1>1 DEF TInv
    <3> QED BY <3>1, BecomesType
  <2>2. ASSUME NEW q \in Reader, reader'[q].step = "sync"
        PROVE  reader'[q].subject \in Subject
    <3>1. CASE q = r
      BY <1>1, <2>1, <2>2, <3>1
    <3>2. CASE q # r
      BY <2>1, <2>2, <3>2 DEF SyncHasSubject
    <3> QED BY <3>1, <3>2
  <2> QED BY <2>1, <2>2 DEF SyncHasSubject
<1>3. belonged' \in [Reader -> SUBSET Principals]
  BY MembershipType, RememberType
     DEF AccessTypeOK, LogIn, GuestLogIn, SyncOrgOnLogin, SyncFails, ResolveGroups,
         ResolveDepartments, HybridSearch
<1>4. CASE SyncOrgOnLogin(r)
  <2>1. reader[r] \in Session /\ reader[r].subject \in Subject
    BY <1>4 DEF SyncOrgOnLogin, SyncHasSubject, AccessTypeOK
  <2>2. /\ reader[r].claimedGroups \subseteq GroupKey
        /\ reader[r].claimedDepartments \subseteq DepartmentKey
    BY <2>1 DEF Session
  <2> QED BY <1>2, <1>3, <1>4, <2>1, <2>2 DEF SyncOrgOnLogin, AccessTypeOK
<1> QED BY <1>2, <1>3, <1>4
        DEF AccessTypeOK, LogIn, GuestLogIn, SyncFails, ResolveGroups,
            ResolveDepartments, HybridSearch, organisation

LEMMA OneDepartmentType ==
  ASSUME TInv, NEW k \in DepartmentKey, CreateDepartment(k) \/ DeleteDepartment(k)
  PROVE  TInv'
BY DEF TInv, AccessTypeOK, SyncHasSubject, CreateDepartment, DeleteDepartment

LEMMA DepartmentMemberType ==
  ASSUME TInv, NEW k \in DepartmentKey, NEW s \in Subject,
         AddUserToDepartment(s, k) \/ RemoveUserFromDepartment(s, k)
  PROVE  TInv'
<1>1. belonged' \in [Reader -> SUBSET Principals]
  BY RememberType DEF TInv, AccessTypeOK, AddUserToDepartment, RemoveUserFromDepartment
<1> QED BY <1>1 DEF TInv, AccessTypeOK, SyncHasSubject, AddUserToDepartment,
                    RemoveUserFromDepartment

LEMMA SetDocumentAclType ==
  ASSUME TInv, NEW d \in AccessDocument, NEW scope \in Scope, NEW E \in SUBSET Principals,
         SetDocumentAcl(d, scope, E)
  PROVE  TInv'
<1> DEFINE entries == IF scope = "public" THEN {} ELSE {LowerCased(p) : p \in E}
<1>1. entries \in SUBSET Principals
  BY LowerCasedType
<1>2. /\ access[d] \in DocumentAccess /\ access[d] # NoAccess
      /\ access' = [access EXCEPT ![d] = [access[d] EXCEPT !.scope = scope,
                                                          !.entries = entries]]
  BY DEF SetDocumentAcl, HasDocument, TInv, AccessTypeOK
<1> HIDE DEF entries
<1>3. access' \in [AccessDocument -> DocumentAccess]
  BY <1>1, <1>2, ReplacedType DEF TInv, AccessTypeOK
<1>4. aclTrail' \in [AccessDocument -> 0..MaxReplacements]
  BY AccessAssumption DEF SetDocumentAcl, TInv, AccessTypeOK
<1> QED BY <1>3, <1>4 DEF SetDocumentAcl, TInv, AccessTypeOK, SyncHasSubject, organisation

LEMMA ImportDocumentType ==
  ASSUME TInv, NEW d \in AccessDocument, NEW scope \in Scope \cup {Unstated},
         NEW label \in Label \cup {Unstated}, ImportDocument(d, scope, label)
  PROVE  TInv'
<1>1. access[d] \in DocumentAccess
  BY DEF TInv, AccessTypeOK
<1>2. CASE HasDocument(d) /\ MayImport(d, scope, label)
  <2> DEFINE newScope == Stated(scope, access[d].scope)
             newLabel == Stated(label, access[d].label)
  <2>1. access[d] # NoAccess /\ access[d].scope \in Scope /\ access[d].label \in Label
    BY <1>1, <1>2 DEF HasDocument, DocumentAccess
  <2>2. newScope \in Scope /\ newLabel \in Label
    BY <2>1 DEF Stated
  <2>3. access' = [access EXCEPT ![d] = [access[d] EXCEPT !.scope = newScope,
                                                        !.label = newLabel]]
    BY <1>1, <1>2, <2>1 DEF ImportDocument, DocumentAccess
  <2> HIDE DEF newScope, newLabel
  <2> QED BY <1>1, <2>1, <2>2, <2>3, ImportedType
          DEF ImportDocument, TInv, AccessTypeOK, SyncHasSubject, organisation
<1>3. CASE ~HasDocument(d)
  <2>1. Stated(scope, "public") \in Scope /\ Stated(label, "internal") \in Label
    BY DEF Stated, Scope, Label
  <2>2. [scope |-> Stated(scope, "public"), label |-> Stated(label, "internal"),
         entries |-> {}] \in DocumentAccess
    BY <2>1 DEF DocumentAccess
  <2> QED BY <1>3, <2>2
          DEF ImportDocument, TInv, AccessTypeOK, SyncHasSubject, organisation
<1> QED BY <1>2, <1>3 DEF ImportDocument

LEMMA InitTInv == AccessInit => TInv
BY AccessAssumption, NoSessionType
   DEF AccessInit, TInv, AccessTypeOK, SyncHasSubject, DocumentAccess, NoSession

LEMMA StutterTInv == TInv /\ UNCHANGED accessVars => TInv'
BY DEF TInv, AccessTypeOK, SyncHasSubject, accessVars, organisation

LEMMA NextTInv == TInv /\ [AccessNext]_accessVars => TInv'
<1> SUFFICES ASSUME TInv, [AccessNext]_accessVars
             PROVE  TInv'
  OBVIOUS
<1>1. CASE UNCHANGED accessVars
  BY <1>1, StutterTInv
<1>2. CASE AccessNext
  <2>1. ASSUME NEW r \in Reader,
               \/ LogIn(r) \/ GuestLogIn(r) \/ SyncOrgOnLogin(r) \/ SyncFails(r)
               \/ ResolveGroups(r) \/ ResolveDepartments(r) \/ HybridSearch(r)
        PROVE  TInv'
    BY <2>1, SessionType
  <2>2. ASSUME NEW k \in DepartmentKey, CreateDepartment(k) \/ DeleteDepartment(k)
        PROVE  TInv'
    BY <2>2, OneDepartmentType
  <2>3. ASSUME NEW k \in DepartmentKey, NEW s \in Subject,
               AddUserToDepartment(s, k) \/ RemoveUserFromDepartment(s, k)
        PROVE  TInv'
    BY <2>3, DepartmentMemberType
  <2> QED BY <1>2, <2>1, <2>2, <2>3, AccessSteps, SetDocumentAclType, ImportDocumentType
<1> QED BY <1>1, <1>2

(* The tables, ACLs, audit counts and sessions have their types.           *)
THEOREM AccessTypesHold == AccessSpec => []AccessTypeOK
<1>1. TInv => AccessTypeOK
  BY DEF TInv
<1> QED BY <1>1, InitTInv, NextTInv, PTL DEF AccessSpec

-----------------------------------------------------------------------------
(* The organisation.                                                       *)

LEMMA OrganisationSteps ==
  ASSUME TInv, OrganisationIsConnected, NEW r \in Reader,
         \/ LogIn(r) \/ GuestLogIn(r) \/ SyncOrgOnLogin(r) \/ SyncFails(r)
         \/ ResolveGroups(r) \/ ResolveDepartments(r) \/ HybridSearch(r)
  PROVE  OrganisationIsConnected'
<1>1. CASE SyncOrgOnLogin(r)
  <2>1. /\ users \subseteq users' /\ groups \subseteq groups'
        /\ departments \subseteq departments' /\ access' = access
    BY <1>1 DEF SyncOrgOnLogin
  <2>2. \A m \in groupMembers' : m[1] \in users' /\ m[2] \in groups'
    BY <1>1, <2>1 DEF SyncOrgOnLogin, OrganisationIsConnected
  <2>3. \A m \in departmentMembers' : m[1] \in users' /\ m[2] \in departments'
    BY <1>1, <2>1 DEF SyncOrgOnLogin, OrganisationIsConnected
  <2>4. ASSUME NEW p \in Principals, p[1] # "department", PrincipalExists(p)
        PROVE  PrincipalExists(p)'
    BY <2>1, <2>4 DEF PrincipalExists
  <2>5. \A d \in AccessDocument : access[d].entries \subseteq Principals
    BY DEF TInv, AccessTypeOK, DocumentAccess, NoAccess
  <2> QED BY <2>1, <2>2, <2>3, <2>4, <2>5 DEF OrganisationIsConnected
<1>2. CASE UNCHANGED <<organisation, access>>
  BY <1>2 DEF OrganisationIsConnected, PrincipalExists, organisation
<1> QED BY <1>1, <1>2 DEF LogIn, GuestLogIn, SyncFails, ResolveGroups, ResolveDepartments,
                          HybridSearch

LEMMA OrganisationDepartment ==
  ASSUME TInv, OrganisationIsConnected, NEW k \in DepartmentKey,
         CreateDepartment(k) \/ DeleteDepartment(k)
  PROVE  OrganisationIsConnected'
<1>1. \A m \in departmentMembers' : m[1] \in users' /\ m[2] \in departments'
  BY DEF TInv, AccessTypeOK, OrganisationIsConnected, CreateDepartment, DeleteDepartment
<1>2. ASSUME NEW p, p[1] # "department", PrincipalExists(p)
      PROVE  PrincipalExists(p)'
  BY <1>2 DEF PrincipalExists, CreateDepartment, DeleteDepartment
<1> QED BY <1>1, <1>2 DEF OrganisationIsConnected, CreateDepartment, DeleteDepartment

LEMMA OrganisationMember ==
  ASSUME TInv, OrganisationIsConnected, NEW k \in DepartmentKey, NEW s \in Subject,
         AddUserToDepartment(s, k) \/ RemoveUserFromDepartment(s, k)
  PROVE  OrganisationIsConnected'
<1>1. \A m \in departmentMembers' : m[1] \in users' /\ m[2] \in departments'
  BY DEF OrganisationIsConnected, AddUserToDepartment, RemoveUserFromDepartment
<1>2. ASSUME NEW p, PrincipalExists(p)
      PROVE  PrincipalExists(p)'
  BY <1>2 DEF PrincipalExists, AddUserToDepartment, RemoveUserFromDepartment
<1> QED BY <1>1, <1>2 DEF OrganisationIsConnected, AddUserToDepartment,
                          RemoveUserFromDepartment

(* What the two writers of access leave of the other documents and, of a   *)
(* document that exists, of its scope and entries.                         *)
LEMMA ReplacedAcl ==
  ASSUME TInv, NEW d \in AccessDocument, NEW scope \in Scope, NEW E \in SUBSET Principals,
         SetDocumentAcl(d, scope, E)
  PROVE  /\ \A e \in AccessDocument \ {d} : access'[e] = access[e]
         /\ \A p \in access'[d].entries : PrincipalExists(p)
         /\ aclTrail'[d] > aclTrail[d]
<1> DEFINE entries == IF scope = "public" THEN {} ELSE {LowerCased(p) : p \in E}
<1>0. \A p \in entries : PrincipalExists(p)
  BY DEF SetDocumentAcl
<1>1. /\ access[d] \in [scope : Scope, label : Label, entries : SUBSET Principals]
      /\ access' = [access EXCEPT ![d] = [access[d] EXCEPT !.scope = scope,
                                                          !.entries = entries]]
  BY DEF SetDocumentAcl, HasDocument, TInv, AccessTypeOK, DocumentAccess
<1> HIDE DEF entries
<1>2. /\ \A e \in AccessDocument \ {d} : access'[e] = access[e]
      /\ access'[d].entries = entries
  BY <1>1 DEF TInv, AccessTypeOK
<1>3. aclTrail'[d] > aclTrail[d]
  BY AccessAssumption DEF SetDocumentAcl, TInv, AccessTypeOK
<1> QED BY <1>0, <1>2, <1>3

LEMMA ImportedAccess ==
  ASSUME TInv, NEW d \in AccessDocument, NEW scope \in Scope \cup {Unstated},
         NEW label \in Label \cup {Unstated}, ImportDocument(d, scope, label)
  PROVE  /\ \A e \in AccessDocument \ {d} : access'[e] = access[e]
         /\ HasDocument(d) => /\ access'[d].scope = access[d].scope
                             /\ access'[d].entries = access[d].entries
         /\ ~HasDocument(d) => access'[d].entries = {}
<1>1. CASE HasDocument(d) /\ MayImport(d, scope, label)
  <2> DEFINE newScope == Stated(scope, access[d].scope)
             newLabel == Stated(label, access[d].label)
  <2>1. access[d] \in [scope : Scope, label : Label, entries : SUBSET Principals]
    BY <1>1 DEF HasDocument, TInv, AccessTypeOK, DocumentAccess
  <2>2. newScope = access[d].scope
    BY <1>1 DEF MayImport, Stated
  <2>3. access' = [access EXCEPT ![d] = [access[d] EXCEPT !.scope = newScope,
                                                        !.label = newLabel]]
    BY <1>1 DEF ImportDocument, TInv, AccessTypeOK
  <2> HIDE DEF newScope, newLabel
  <2> QED BY <1>1, <2>1, <2>2, <2>3 DEF TInv, AccessTypeOK
<1>2. CASE ~HasDocument(d)
  BY <1>2 DEF ImportDocument, TInv, AccessTypeOK
<1> QED BY <1>1, <1>2 DEF ImportDocument

LEMMA OrganisationAccess ==
  ASSUME TInv, OrganisationIsConnected, NEW d \in AccessDocument,
         UNCHANGED organisation,
         \A e \in AccessDocument \ {d} : access'[e] = access[e],
         \A p \in access'[d].entries : p[1] # "department" => PrincipalExists(p)
  PROVE  OrganisationIsConnected'
BY DEF OrganisationIsConnected, PrincipalExists, organisation

LEMMA OrganisationDocument ==
  ASSUME TInv, OrganisationIsConnected, NEW d \in AccessDocument
  PROVE  /\ \A scope \in Scope, E \in SUBSET Principals :
              SetDocumentAcl(d, scope, E) => OrganisationIsConnected'
         /\ \A scope \in Scope \cup {Unstated}, label \in Label \cup {Unstated} :
              ImportDocument(d, scope, label) => OrganisationIsConnected'
<1>1. ASSUME NEW scope \in Scope, NEW E \in SUBSET Principals, SetDocumentAcl(d, scope, E)
      PROVE  OrganisationIsConnected'
  <2>1. \A p \in access'[d].entries : PrincipalExists(p)
    BY <1>1, ReplacedAcl
  <2> QED BY <1>1, <2>1, ReplacedAcl, OrganisationAccess DEF SetDocumentAcl
<1>2. ASSUME NEW scope \in Scope \cup {Unstated}, NEW label \in Label \cup {Unstated},
             ImportDocument(d, scope, label)
      PROVE  OrganisationIsConnected'
  <2>1. \A p \in access'[d].entries : p[1] # "department" => PrincipalExists(p)
    BY <1>2, ImportedAccess DEF OrganisationIsConnected
  <2> QED BY <1>2, <2>1, ImportedAccess, OrganisationAccess DEF ImportDocument
<1> QED BY <1>1, <1>2

(* The organisation's rows and the ACLs refer to rows that exist, whatever *)
(* logins, administrators and imports do.                                  *)
THEOREM OrganisationStaysConnected == AccessSpec => []OrganisationIsConnected
<1> DEFINE OInv == TInv /\ OrganisationIsConnected
<1>1. AccessInit => OInv
  BY InitTInv DEF AccessInit, OrganisationIsConnected, NoAccess
<1>2. OInv /\ [AccessNext]_accessVars => OInv'
  <2> SUFFICES ASSUME OInv, [AccessNext]_accessVars
               PROVE  OrganisationIsConnected'
    BY NextTInv
  <2>1. CASE UNCHANGED accessVars
    BY <2>1 DEF OrganisationIsConnected, PrincipalExists, accessVars, organisation
  <2>2. CASE AccessNext
    <3>1. ASSUME NEW r \in Reader,
                 \/ LogIn(r) \/ GuestLogIn(r) \/ SyncOrgOnLogin(r) \/ SyncFails(r)
                 \/ ResolveGroups(r) \/ ResolveDepartments(r) \/ HybridSearch(r)
          PROVE  OrganisationIsConnected'
      BY <3>1, OrganisationSteps
    <3>2. ASSUME NEW k \in DepartmentKey, CreateDepartment(k) \/ DeleteDepartment(k)
          PROVE  OrganisationIsConnected'
      BY <3>2, OrganisationDepartment
    <3>3. ASSUME NEW k \in DepartmentKey, NEW s \in Subject,
                 AddUserToDepartment(s, k) \/ RemoveUserFromDepartment(s, k)
          PROVE  OrganisationIsConnected'
      BY <3>3, OrganisationMember
    <3> QED BY <2>2, <3>1, <3>2, <3>3, AccessSteps, OrganisationDocument
  <2> QED BY <2>1, <2>2
<1>3. OInv => OrganisationIsConnected
  OBVIOUS
<1> HIDE DEF OInv
<1> QED BY <1>1, <1>2, <1>3, PTL DEF AccessSpec

-----------------------------------------------------------------------------
(* Audiences.                                                              *)

(* Whatever imports, logins and the administration of the organisation do, *)
(* who may read a document changes only with an audit row.                 *)
THEOREM AudienceIsAudited == AccessSpec => AudienceChangesAreAudited
<1> DEFINE A == \A d \in AccessDocument :
                  HasDocument(d) /\ <<access[d].scope, access[d].entries>> #
                                    <<access'[d].scope, access'[d].entries>>
                    => aclTrail'[d] > aclTrail[d]
<1>1. TInv /\ [AccessNext]_accessVars => [A]_accessVars
  <2> SUFFICES ASSUME TInv, AccessNext, NEW e \in AccessDocument, HasDocument(e),
                      <<access[e].scope, access[e].entries>> #
                      <<access'[e].scope, access'[e].entries>>
               PROVE  aclTrail'[e] > aclTrail[e]
    OBVIOUS
  <2>1. access' # access
    OBVIOUS
  <2>2. \/ \E d \in AccessDocument, scope \in Scope, E \in SUBSET Principals :
              SetDocumentAcl(d, scope, E)
        \/ \E d \in AccessDocument, scope \in Scope \cup {Unstated},
              label \in Label \cup {Unstated} : ImportDocument(d, scope, label)
    BY <2>1, AccessSteps
       DEF LogIn, GuestLogIn, SyncOrgOnLogin, SyncFails, ResolveGroups, ResolveDepartments,
           HybridSearch, CreateDepartment, DeleteDepartment, AddUserToDepartment,
           RemoveUserFromDepartment
  <2>3. ASSUME NEW d \in AccessDocument, NEW scope \in Scope, NEW E \in SUBSET Principals,
               SetDocumentAcl(d, scope, E)
        PROVE  aclTrail'[e] > aclTrail[e]
    BY <2>3, ReplacedAcl
  <2>4. ASSUME NEW d \in AccessDocument, NEW scope \in Scope \cup {Unstated},
               NEW label \in Label \cup {Unstated}, ImportDocument(d, scope, label)
        PROVE  FALSE
    BY <2>4, ImportedAccess
  <2> QED BY <2>2, <2>3, <2>4
<1>2. AccessSpec => [][A]_accessVars
  <2> HIDE DEF A
  <2> QED BY InitTInv, NextTInv, <1>1, PTL DEF AccessSpec
<1> QED BY <1>2 DEF AudienceChangesAreAudited

-----------------------------------------------------------------------------
(* Searches.                                                               *)

(* What a search has resolved so far, its caller belonged to since it      *)
(* began, and so it does to what it belongs to now.                        *)
Recalled(D, seen) ==
  \A k \in D : \E j \in DepartmentKey : k = LowerCase[j] /\ <<"department", j>> \in seen

SearchRemembers ==
  \A r \in Reader :
    /\ reader[r].step \in {"departments", "query"} =>
         /\ Memberships(r) \subseteq belonged[r]
         /\ {"group"} \X reader[r].groups \subseteq belonged[r]
    /\ reader[r].step = "query" => Recalled(reader[r].departments, belonged[r])

SInv == TInv /\ SearchRemembers

(* A session that has not moved remembers as long as what it belongs to    *)
(* does not grow unnoticed.                                                *)
KeepsUp(r) ==
  \/ belonged'[r] = belonged[r] /\ Memberships(r)' \subseteq Memberships(r)
  \/ belonged'[r] = belonged[r] \cup Memberships(r)'
  \/ ~Searching(r)

LEMMA OthersRemember ==
  ASSUME SInv, NEW r \in Reader, reader'[r] = reader[r],
         KeepsUp(r)
  PROVE  /\ reader'[r].step \in {"departments", "query"} =>
              /\ Memberships(r)' \subseteq belonged'[r]
              /\ {"group"} \X reader'[r].groups \subseteq belonged'[r]
         /\ reader'[r].step = "query" => Recalled(reader'[r].departments, belonged'[r])
BY DEF SInv, SearchRemembers, Recalled, KeepsUp, Searching

LEMMA SameMemberships ==
  ASSUME NEW r \in Reader, UNCHANGED <<groupMembers, departmentMembers>>,
         reader'[r].subject = reader[r].subject
  PROVE  Memberships(r)' = Memberships(r)
BY DEF Memberships, GroupsOf, DepartmentsStored

LEMMA SessionRemembers ==
  ASSUME SInv, NEW r \in Reader,
         \/ LogIn(r) \/ GuestLogIn(r) \/ SyncOrgOnLogin(r) \/ SyncFails(r)
         \/ ResolveGroups(r) \/ ResolveDepartments(r) \/ HybridSearch(r)
  PROVE  SearchRemembers'
<1>0. AccessTypeOK
  BY DEF SInv, TInv
<1>1. PICK next \in Session :
        /\ Becomes(r, next)
        /\ ResolveGroups(r) => /\ next.step = "departments"
                               /\ next.subject = reader[r].subject
                               /\ next.groups = GroupsOf(reader[r].subject)
        /\ ResolveDepartments(r) => /\ next.step = "query"
                                    /\ next.subject = reader[r].subject
                                    /\ next.groups = reader[r].groups
                                    /\ next.departments = DepartmentsOf(r)
        /\ ~ResolveGroups(r) /\ ~ResolveDepartments(r) =>
             next.step \notin {"departments", "query"}
  <2>1. CASE ResolveGroups(r)
    <3>1. ~ResolveDepartments(r)
      BY <2>1 DEF ResolveGroups, ResolveDepartments
    <3> QED BY <1>0, <2>1, <3>1, ResolveGroupsStores
  <2>2. CASE ResolveDepartments(r)
    <3>1. ~ResolveGroups(r)
      BY <2>2 DEF ResolveGroups, ResolveDepartments
    <3> QED BY <1>0, <2>2, <3>1, ResolveDepartmentsStores
  <2>3. CASE ~ResolveGroups(r) /\ ~ResolveDepartments(r)
    BY <1>0, <2>3, LogInStores, GuestLogInStores, SyncStores, SearchStores
  <2> QED BY <2>1, <2>2, <2>3
<1>2. reader'[r] = next /\ \A q \in Reader \ {r} : reader'[q] = reader[q]
  BY <1>0, <1>1, BecomesType
<1>3. ASSUME NEW q \in Reader, q # r
      PROVE  KeepsUp(q)
  <2>1. CASE SyncOrgOnLogin(r)
    BY <2>1 DEF SyncOrgOnLogin, Remember, KeepsUp
  <2>2. CASE ~SyncOrgOnLogin(r)
    <3>1. UNCHANGED <<groupMembers, departmentMembers>>
      BY <2>2 DEF LogIn, GuestLogIn, SyncFails, ResolveGroups, ResolveDepartments,
                  HybridSearch, organisation
    <3>2. Memberships(q)' = Memberships(q)
      BY <1>2, <1>3, <3>1, SameMemberships
    <3>3. belonged'[q] = belonged[q]
      BY <1>0, <1>3, <2>2 DEF AccessTypeOK, LogIn, GuestLogIn, SyncFails, ResolveGroups,
                              ResolveDepartments, HybridSearch
    <3> QED BY <3>2, <3>3 DEF KeepsUp
  <2> QED BY <2>1, <2>2
<1>4. CASE ResolveGroups(r)
  <2>1. Memberships(r)' = Memberships(r)
    BY <1>1, <1>2, <1>4, SameMemberships DEF ResolveGroups, organisation
  <2>2. belonged'[r] = Memberships(r)
    BY <1>0, <1>4 DEF ResolveGroups, AccessTypeOK
  <2>3. {"group"} \X GroupsOf(reader[r].subject) \subseteq Memberships(r)
    BY DEF Memberships
  <2>4. reader'[r].step = "departments" /\ reader'[r].groups = GroupsOf(reader[r].subject)
    BY <1>1, <1>2, <1>4
  <2> QED BY <1>2, <1>3, <2>1, <2>2, <2>3, <2>4, OthersRemember DEF SearchRemembers
<1>5. CASE ResolveDepartments(r)
  <2>1. Memberships(r)' = Memberships(r)
    BY <1>1, <1>2, <1>5, SameMemberships DEF ResolveDepartments, organisation
  <2>2. belonged'[r] = belonged[r]
    BY <1>5 DEF ResolveDepartments
  <2>3. /\ Memberships(r) \subseteq belonged[r]
        /\ {"group"} \X reader[r].groups \subseteq belonged[r]
    BY <1>5 DEF ResolveDepartments, SInv, SearchRemembers
  <2>4. Recalled(DepartmentsOf(r), Memberships(r))
    BY DEF Memberships, DepartmentsOf, DepartmentsStored, Recalled
  <2>5. /\ reader'[r].step = "query"
        /\ reader'[r].groups = reader[r].groups
        /\ reader'[r].departments = DepartmentsOf(r)
    BY <1>1, <1>2, <1>5
  <2>6. Recalled(reader'[r].departments, belonged'[r])
    BY <2>2, <2>3, <2>4, <2>5 DEF Recalled
  <2> QED BY <1>2, <1>3, <2>1, <2>2, <2>3, <2>5, <2>6, OthersRemember DEF SearchRemembers
<1>6. CASE ~ResolveGroups(r) /\ ~ResolveDepartments(r)
  <2>1. reader'[r].step \notin {"departments", "query"}
    BY <1>1, <1>2, <1>6
  <2> QED BY <1>2, <1>3, <2>1, OthersRemember DEF SearchRemembers
<1> QED BY <1>4, <1>5, <1>6

LEMMA OrganisationRemembers ==
  ASSUME SInv, UNCHANGED reader,
         \/ UNCHANGED <<groupMembers, departmentMembers, belonged>>
         \/ \E k \in DepartmentKey : DeleteDepartment(k)
         \/ \E k \in DepartmentKey, s \in Subject :
              AddUserToDepartment(s, k) \/ RemoveUserFromDepartment(s, k)
  PROVE  SearchRemembers'
<1>1. ASSUME NEW r \in Reader
      PROVE  KeepsUp(r)
  <2>1. CASE UNCHANGED <<groupMembers, departmentMembers, belonged>>
    BY <2>1, SameMemberships DEF KeepsUp
  <2>2. ASSUME NEW k \in DepartmentKey, NEW s \in Subject,
               RemoveUserFromDepartment(s, k)
        PROVE  KeepsUp(r)
    <3>1. /\ belonged' = belonged /\ groupMembers' = groupMembers
          /\ departmentMembers' \subseteq departmentMembers
      BY <2>2 DEF RemoveUserFromDepartment
    <3> QED BY <3>1 DEF Memberships, GroupsOf, DepartmentsStored, KeepsUp
  <2>3. ASSUME NEW k \in DepartmentKey, NEW s \in Subject, AddUserToDepartment(s, k)
        PROVE  KeepsUp(r)
    BY <2>3 DEF AddUserToDepartment, Remember, KeepsUp
  <2>4. ASSUME NEW k \in DepartmentKey, DeleteDepartment(k)
        PROVE  KeepsUp(r)
    <3>1. /\ belonged' = belonged /\ groupMembers' = groupMembers
          /\ departmentMembers' \subseteq departmentMembers
      BY <2>4 DEF DeleteDepartment
    <3> QED BY <3>1 DEF Memberships, GroupsOf, DepartmentsStored, KeepsUp
  <2> QED BY <2>1, <2>2, <2>3, <2>4
<1> QED BY <1>1, OthersRemember DEF SearchRemembers

LEMMA NextSInv == SInv /\ [AccessNext]_accessVars => SInv'
<1> SUFFICES ASSUME SInv, [AccessNext]_accessVars
             PROVE  SearchRemembers'
  BY NextTInv DEF SInv
<1>1. CASE UNCHANGED accessVars
  BY <1>1, OrganisationRemembers DEF accessVars, organisation
<1>2. CASE AccessNext
  <2>1. ASSUME NEW r \in Reader,
               \/ LogIn(r) \/ GuestLogIn(r) \/ SyncOrgOnLogin(r) \/ SyncFails(r)
               \/ ResolveGroups(r) \/ ResolveDepartments(r) \/ HybridSearch(r)
        PROVE  SearchRemembers'
    BY <2>1, SessionRemembers
  <2>2. ASSUME NEW k \in DepartmentKey, CreateDepartment(k) \/ DeleteDepartment(k)
        PROVE  SearchRemembers'
    BY <2>2, OrganisationRemembers DEF CreateDepartment, DeleteDepartment
  <2>3. ASSUME NEW k \in DepartmentKey, NEW s \in Subject,
               AddUserToDepartment(s, k) \/ RemoveUserFromDepartment(s, k)
        PROVE  SearchRemembers'
    BY <2>3, OrganisationRemembers DEF AddUserToDepartment, RemoveUserFromDepartment
  <2>4. ASSUME NEW d \in AccessDocument, NEW scope \in Scope, NEW E \in SUBSET Principals,
               SetDocumentAcl(d, scope, E)
        PROVE  SearchRemembers'
    BY <2>4, OrganisationRemembers DEF SetDocumentAcl, organisation
  <2>5. ASSUME NEW d \in AccessDocument, NEW scope \in Scope \cup {Unstated},
               NEW label \in Label \cup {Unstated}, ImportDocument(d, scope, label)
        PROVE  SearchRemembers'
    BY <2>5, OrganisationRemembers DEF ImportDocument, organisation
  <2> QED BY <1>2, <2>1, <2>2, <2>3, <2>4, <2>5, AccessSteps
<1> QED BY <1>1, <1>2

(* A search returns only what its caller may read by an entry that stands  *)
(* and a membership that stood during the search.                          *)
THEOREM FoundIsGranted == AccessSpec => FoundWasGranted
<1> DEFINE A == \A r \in Reader : reader[r].step = "query" /\ reader'[r].step = "ready" =>
                  \A d \in reader'[r].found : WasGranted(r, d)
<1>1. SInv /\ [AccessNext]_accessVars => [A]_accessVars
  <2> SUFFICES ASSUME SInv, AccessNext, NEW r \in Reader, reader[r].step = "query",
                      reader'[r].step = "ready", NEW d \in reader'[r].found
               PROVE  WasGranted(r, d)
    OBVIOUS
  <2>1. HybridSearch(r)
    <3>1. PICK q \in Reader :
            \/ LogIn(q) \/ GuestLogIn(q) \/ SyncOrgOnLogin(q) \/ SyncFails(q)
            \/ ResolveGroups(q) \/ ResolveDepartments(q) \/ HybridSearch(q)
      BY AccessSteps
         DEF CreateDepartment, DeleteDepartment, AddUserToDepartment,
             RemoveUserFromDepartment, SetDocumentAcl, ImportDocument
    <3>2. q = r
      <4>1. PICK next : Becomes(q, next)
        BY <3>1 DEF LogIn, GuestLogIn, SyncOrgOnLogin, SyncFails, ResolveGroups,
                    ResolveDepartments, HybridSearch
      <4> QED BY <4>1 DEF Becomes, SInv, TInv, AccessTypeOK
    <3> QED BY <3>1, <3>2 DEF LogIn, GuestLogIn, SyncOrgOnLogin, SyncFails, ResolveGroups,
                              ResolveDepartments
  <2>2. d \in AccessDocument /\ DocumentAllowed(r, d)
    <3>1. reader'[r].found = {e \in AccessDocument : HasDocument(e) /\ DocumentAllowed(r, e)}
      BY <2>1, SearchStores, BecomesType DEF SInv, TInv
    <3> QED BY <3>1
  <2>3. {"group"} \X reader[r].groups \subseteq belonged[r]
        /\ Recalled(reader[r].departments, belonged[r])
    BY DEF SInv, SearchRemembers
  <2>4. access[d].label = "confidential" => Cleared(r)
    BY <2>2 DEF DocumentAllowed, OpenLabel
  <2>5. CASE access[d].scope = "public"
    BY <2>4, <2>5 DEF WasGranted
  <2>6. ASSUME NEW p \in access[d].entries \cap Presented(r)
        PROVE  WasGranted(r, d)
    <3>1. CASE p \in {"group"} \X reader[r].groups
      <4>1. p \in belonged[r] /\ p = LowerCased(p)
        BY <2>3, <3>1 DEF LowerCased
      <4> QED BY <2>4, <2>6, <4>1 DEF WasGranted
    <3>2. CASE p \in {"department"} \X reader[r].departments
      <4>1. PICK j \in DepartmentKey : /\ p = <<"department", LowerCase[j]>>
                                       /\ <<"department", j>> \in belonged[r]
        BY <2>3, <3>2 DEF Recalled
      <4>2. p = LowerCased(<<"department", j>>)
        BY <4>1 DEF LowerCased
      <4> QED BY <2>4, <2>6, <4>1, <4>2 DEF WasGranted
    <3>3. CASE p \in {<<"user", reader[r].subject>>} \cup ({"role"} \X AclRoles(r))
      BY <2>4, <2>6, <3>3 DEF WasGranted
    <3> QED BY <2>6, <3>1, <3>2, <3>3 DEF Presented
  <2> QED BY <2>2, <2>5, <2>6 DEF DocumentAllowed
<1>2. AccessInit => SInv
  BY InitTInv DEF AccessInit, SInv, SearchRemembers, NoSession
<1>3. AccessSpec => [][A]_accessVars
  <2> HIDE DEF A
  <2> QED BY <1>1, <1>2, NextSInv, PTL DEF AccessSpec
<1> QED BY <1>3 DEF FoundWasGranted

-----------------------------------------------------------------------------
(* Sign-in: type correctness.                                              *)

(* Instants that are recorded have passed, and expiries lie at most a      *)
(* lifetime ahead.                                                         *)
CallbackStep == {"idle", "keys", "fetch", "store", "select"}

Callback == [step : CallbackStep, minted : Nat, key : SigningKey \cup {"none"},
             roles : RoleClaim \cup {"none"}, read : Nat, keys : SUBSET SigningKey,
             forced : BOOLEAN]

SignInTypes ==
  /\ now \in Ticks
  /\ published \in [0..now -> SUBSET SigningKey]
  /\ claimed \in [0..now -> RoleClaim]
  /\ changes \in 0..MaxChanges
  /\ begun \in 0..MaxFlows
  /\ responses \subseteq [flow : 1..MaxFlows, signedIn : 0..now]
  /\ jwks \in [expires : 0..(now + JwksLife), keys : SUBSET SigningKey]
  /\ flow \in [Browser -> [id : 0..begun, expires : 0..(now + FlowLife)]]
  /\ callback \in [Browser -> Callback]
  /\ session \in [Browser -> [roles : RoleClaim \cup {"none"},
                              expires : 0..(now + SessionLife)]]
  /\ \A b \in Browser : callback[b].minted <= now /\ callback[b].read <= now

LEMMA InitSignInTypes == SessionsInit => SignInTypes
BY SessionsAssumption
DEF SessionsInit, SignInTypes, Ticks, NoFlow, NoCallback, NoSessionToken, Callback, CallbackStep

(* The locals of a callback that starts, or ends.                          *)
LEMMA NoCallbackType == NoCallback \in Callback
BY DEF NoCallback, Callback, CallbackStep

(* The assignments to the locals of a callback keep their types.           *)
LEMMA CallbackUpdates ==
  ASSUME NEW row \in Callback, NEW n \in Nat, NEW keys \in SUBSET SigningKey
  PROVE  /\ \A key \in SigningKey, roles \in RoleClaim :
              [row EXCEPT !.step = "keys", !.minted = n, !.key = key, !.roles = roles] \in Callback
         /\ [row EXCEPT !.step = "select", !.read = n, !.keys = keys] \in Callback
         /\ [row EXCEPT !.step = "fetch", !.read = n] \in Callback
         /\ [row EXCEPT !.step = "store", !.keys = keys] \in Callback
         /\ [row EXCEPT !.step = "select"] \in Callback
         /\ [row EXCEPT !.step = "keys", !.forced = TRUE] \in Callback
<1>1. ASSUME NEW key \in SigningKey, NEW roles \in RoleClaim
      PROVE  [row EXCEPT !.step = "keys", !.minted = n, !.key = key, !.roles = roles] \in Callback
  BY DEF Callback, CallbackStep
<1>2. [row EXCEPT !.step = "select", !.read = n, !.keys = keys] \in Callback
  BY DEF Callback, CallbackStep
<1>3. [row EXCEPT !.step = "fetch", !.read = n] \in Callback
  BY DEF Callback, CallbackStep
<1>4. [row EXCEPT !.step = "store", !.keys = keys] \in Callback
  BY DEF Callback, CallbackStep
<1>5. [row EXCEPT !.step = "select"] \in Callback
  BY DEF Callback, CallbackStep
<1>6. [row EXCEPT !.step = "keys", !.forced = TRUE] \in Callback
  BY DEF Callback, CallbackStep
<1> QED BY <1>1, <1>2, <1>3, <1>4, <1>5, <1>6

(* What becomes of the locals of every callback when one moves on.         *)
LEMMA CallbackMoves ==
  ASSUME SignInTypes, NEW b \in Browser, NEW row \in Callback,
         row.minted <= now, row.read <= now,
         now' = now, callback' = [callback EXCEPT ![b] = row]
  PROVE  /\ callback' \in [Browser -> Callback]
         /\ \A c \in Browser : callback'[c].minted <= now' /\ callback'[c].read <= now'
         /\ callback'[b] = row
         /\ \A c \in Browser \ {b} : callback'[c] = callback[c]
<1>1. callback \in [Browser -> Callback]
  BY DEF SignInTypes
<1>2. \A c \in Browser : callback'[c] = IF c = b THEN row ELSE callback[c]
  BY <1>1
<1>3. callback' \in [Browser -> Callback]
  BY <1>1
<1> QED BY <1>2, <1>3 DEF SignInTypes

LEMMA NextSignInTypes == SignInTypes /\ [SessionsNext]_sessionVars => SignInTypes'
<1> SUFFICES ASSUME SignInTypes, [SessionsNext]_sessionVars PROVE SignInTypes'
  OBVIOUS
<1>a. /\ {now, begun, FlowLife, JwksLife, SessionLife, LastTick, MaxFlows} \subseteq Nat
      /\ now <= LastTick /\ begun <= MaxFlows /\ MaxChanges \in Nat
  BY SessionsAssumption DEF SignInTypes, Ticks
<1>1. CASE Tick
  <2>1. PICK keys \in (SUBSET SigningKey) \ {{}}, roles \in RoleClaim :
          /\ published' = [t \in 0..now' |-> IF t = now' THEN keys ELSE published[t]]
          /\ claimed' = [t \in 0..now' |-> IF t = now' THEN roles ELSE claimed[t]]
          /\ changes' = IF keys = published[now] /\ roles = claimed[now] THEN changes
                                                                     ELSE changes + 1
          /\ changes' <= MaxChanges
    BY <1>1 DEF Tick
  <2>2. now' = now + 1 /\ now' \in Ticks
    BY <1>1, <1>a DEF Tick, Ticks
  <2>3. \A t \in 0..now' : t = now' \/ t \in 0..now
    BY <2>2, <1>a
  <2>4. published' \in [0..now' -> SUBSET SigningKey] /\ claimed' \in [0..now' -> RoleClaim]
    BY <2>1, <2>3 DEF SignInTypes
  <2>5. changes' \in 0..MaxChanges
    BY <2>1, <1>a DEF SignInTypes
  <2>6. UNCHANGED <<begun, responses, jwks, flow, callback, session>>
    BY <1>1 DEF Tick
  <2>7. \A n \in Nat : 0..(now + n) \subseteq 0..(now' + n)
    BY <2>2, <1>a
  <2>8. responses' \subseteq [flow : 1..MaxFlows, signedIn : 0..now']
    BY <2>2, <2>6, <1>a DEF SignInTypes
  <2>9. jwks' \in [expires : 0..(now' + JwksLife), keys : SUBSET SigningKey]
    BY <2>6, <2>7, <1>a DEF SignInTypes
  <2>10. flow' \in [Browser -> [id : 0..begun', expires : 0..(now' + FlowLife)]]
    BY <2>6, <2>7, <1>a DEF SignInTypes
  <2>11. session' \in [Browser -> [roles : RoleClaim \cup {"none"},
                                   expires : 0..(now' + SessionLife)]]
    BY <2>6, <2>7, <1>a DEF SignInTypes
  <2>12. \A b \in Browser : callback'[b].minted <= now' /\ callback'[b].read <= now'
    BY <2>2, <2>6, <1>a, SMTT(30) DEF SignInTypes, Callback
  <2> QED BY <2>2, <2>4, <2>5, <2>6, <2>8, <2>9, <2>10, <2>11, <2>12 DEF SignInTypes
<1>2. ASSUME NEW id \in 1..begun, ProviderResponds(id)
      PROVE  SignInTypes'
  BY <1>2, <1>a, SMTT(30) DEF ProviderResponds, SignInTypes
<1>3. ASSUME NEW b \in Browser, SignInNext(b)
      PROVE  SignInTypes'
  <2> DEFINE CallbackTyped(c, n) == /\ c \in [Browser -> Callback]
                                    /\ \A a \in Browser : c[a].minted <= n /\ c[a].read <= n
  <2>a. /\ callback \in [Browser -> Callback] /\ callback[b] \in Callback
        /\ callback[b].minted <= now /\ callback[b].read <= now
    BY DEF SignInTypes
  <2>b. ASSUME callback' = [callback EXCEPT ![b] = NoCallback], now' = now
        PROVE  CallbackTyped(callback', now')
    <3>1. NoCallback.minted = 0 /\ NoCallback.read = 0 /\ now >= 0
      BY <1>a DEF NoCallback
    <3> QED BY <2>b, <3>1, NoCallbackType, CallbackMoves
  <2>1. CASE StartLogin(b)
    <3>1. /\ begun' = begun + 1 /\ begun' \in 0..MaxFlows
          /\ flow' = [flow EXCEPT ![b] = [id |-> begun', expires |-> now + FlowLife]]
          /\ UNCHANGED <<now, published, claimed, changes, responses, jwks, callback, session>>
      BY <2>1, <1>a DEF StartLogin, providerVars
    <3>2. [id |-> begun', expires |-> now + FlowLife]
            \in [id : 0..begun', expires : 0..(now + FlowLife)]
      BY <3>1, <1>a
    <3>3. \A c \in Browser : flow[c] \in [id : 0..begun', expires : 0..(now + FlowLife)]
      <4>1. 0..begun \subseteq 0..begun'
        BY <3>1, <1>a
      <4> QED BY <4>1 DEF SignInTypes
    <3>4. flow' \in [Browser -> [id : 0..begun', expires : 0..(now + FlowLife)]]
      BY <3>1, <3>2, <3>3 DEF SignInTypes
    <3> QED BY <3>1, <3>4 DEF SignInTypes
  <2>2. CASE ReceiveCallback(b)
    <3>1. PICK r \in responses :
            \E key \in published[now], t \in r.signedIn..now :
              callback' = [callback EXCEPT ![b] = [NoCallback EXCEPT !.step = "keys",
                                                                     !.minted = now,
                                                                     !.key = key,
                                                                     !.roles = claimed[t]]]
      BY <2>2 DEF ReceiveCallback
    <3>2. PICK key \in published[now], t \in r.signedIn..now :
            callback' = [callback EXCEPT ![b] = [NoCallback EXCEPT !.step = "keys",
                                                                   !.minted = now,
                                                                   !.key = key,
                                                                   !.roles = claimed[t]]]
      BY <3>1
    <3>a. key \in SigningKey /\ claimed[t] \in RoleClaim
      <4>1. published[now] \subseteq SigningKey
        BY <1>a DEF SignInTypes
      <4>2. t \in 0..now
        BY <1>a DEF SignInTypes
      <4> QED BY <4>1, <4>2 DEF SignInTypes
    <3> DEFINE row == [NoCallback EXCEPT !.step = "keys", !.minted = now, !.key = key,
                                         !.roles = claimed[t]]
    <3>b. row \in Callback
      BY <1>a, <3>a, NoCallbackType, CallbackUpdates
    <3>c. row.minted <= now /\ row.read <= now
      BY <1>a, NoCallbackType DEF NoCallback, Callback
    <3>3. CallbackTyped(callback', now')
      BY <2>2, <3>2, <3>b, <3>c, CallbackMoves DEF ReceiveCallback, providerVars
    <3> QED BY <2>2, <3>3 DEF ReceiveCallback, providerVars, SignInTypes
  <2>3. CASE ReadKeySet(b)
    <3> DEFINE row == IF Cached(now) /\ ~callback[b].forced
                      THEN [callback[b] EXCEPT !.step = "select", !.read = now, !.keys = jwks.keys]
                      ELSE [callback[b] EXCEPT !.step = "fetch", !.read = now]
    <3>1. callback' = [callback EXCEPT ![b] = row]
      BY <2>3, <2>a DEF ReadKeySet
    <3>2. jwks.keys \in SUBSET SigningKey
      BY DEF SignInTypes
    <3>3. row \in Callback
      BY <1>a, <2>a, <3>2, CallbackUpdates
    <3>a. row.minted <= now /\ row.read <= now
      BY <1>a, <2>a DEF Callback
    <3>4. CallbackTyped(callback', now')
      BY <2>3, <3>1, <3>3, <3>a, CallbackMoves DEF ReadKeySet, providerVars
    <3> QED BY <2>3, <3>4, SMTT(30) DEF ReadKeySet, providerVars, SignInTypes
  <2>4. CASE FetchKeySet(b)
    <3> DEFINE row == [callback[b] EXCEPT !.step = "store", !.keys = published[now]]
    <3>1. \/ callback' = [callback EXCEPT ![b] = row]
          \/ callback' = [callback EXCEPT ![b] = NoCallback]
      BY <2>4, <2>a DEF FetchKeySet
    <3>2. published[now] \in SUBSET SigningKey
      BY <1>a DEF SignInTypes
    <3>3. row \in Callback /\ row.minted <= now /\ row.read <= now
      BY <2>a, <3>2 DEF Callback, CallbackStep
    <3>4. CallbackTyped(callback', now')
      BY <2>4, <2>b, <3>1, <3>3, CallbackMoves DEF FetchKeySet, providerVars
    <3> QED BY <2>4, <3>4 DEF FetchKeySet, providerVars, SignInTypes
  <2>5. CASE StoreKeySet(b)
    <3> DEFINE row == [callback[b] EXCEPT !.step = "select"]
    <3>1. jwks' \in [expires : 0..(now + JwksLife), keys : SUBSET SigningKey]
      BY <2>5, <2>a, <1>a DEF StoreKeySet, Callback
    <3>2. callback' = [callback EXCEPT ![b] = row]
      BY <2>5, <2>a DEF StoreKeySet
    <3>3. row \in Callback /\ row.minted <= now /\ row.read <= now
      BY <2>a DEF Callback, CallbackStep
    <3>4. CallbackTyped(callback', now')
      BY <2>5, <3>2, <3>3, CallbackMoves DEF StoreKeySet, providerVars
    <3> QED BY <2>5, <3>1, <3>4 DEF StoreKeySet, providerVars, SignInTypes
  <2>6. CASE IssueSession(b)
    <3>1. [roles |-> callback[b].roles, expires |-> now + SessionLife]
            \in [roles : RoleClaim \cup {"none"}, expires : 0..(now + SessionLife)]
      BY <2>a, <1>a DEF Callback
    <3>2. session' \in [Browser -> [roles : RoleClaim \cup {"none"},
                                    expires : 0..(now + SessionLife)]]
      BY <2>6, <3>1 DEF IssueSession, SignInTypes
    <3>3. flow' \in [Browser -> [id : 0..begun, expires : 0..(now + FlowLife)]]
      BY <2>6, <1>a DEF IssueSession, SignInTypes, NoFlow
    <3>4. CallbackTyped(callback', now')
      BY <2>6, <2>b DEF IssueSession, providerVars
    <3> QED BY <2>6, <3>2, <3>3, <3>4 DEF IssueSession, providerVars, SignInTypes
  <2>7. CASE RejectToken(b)
    <3>1. CallbackTyped(callback', now')
      BY <2>7, <2>b DEF RejectToken, providerVars
    <3> QED BY <2>7, <3>1 DEF RejectToken, providerVars, SignInTypes
  <2>8. CASE ForceKeySet(b)
    <3> DEFINE row == [callback[b] EXCEPT !.step = "keys", !.forced = TRUE]
    <3>1. callback' = [callback EXCEPT ![b] = row]
      BY <2>8, <2>a DEF ForceKeySet
    <3>2. row \in Callback /\ row.minted <= now /\ row.read <= now
      BY <2>a DEF Callback, CallbackStep
    <3>3. CallbackTyped(callback', now')
      BY <2>8, <3>1, <3>2, CallbackMoves DEF ForceKeySet, providerVars
    <3> QED BY <2>8, <3>3 DEF ForceKeySet, providerVars, SignInTypes
  <2>9. CASE RejectKey(b)
    <3>1. CallbackTyped(callback', now')
      BY <2>9, <2>b DEF RejectKey, providerVars
    <3> QED BY <2>9, <3>1 DEF RejectKey, providerVars, SignInTypes
  <2>10. CASE ForgetSession(b)
    <3>1. NoSessionToken \in [roles : RoleClaim \cup {"none"}, expires : 0..(now + SessionLife)]
      BY <1>a DEF NoSessionToken
    <3>2. session' \in [Browser -> [roles : RoleClaim \cup {"none"},
                                    expires : 0..(now + SessionLife)]]
      BY <2>10, <3>1 DEF ForgetSession, SignInTypes
    <3> QED BY <2>10, <3>2 DEF ForgetSession, providerVars, SignInTypes
  <2> QED BY <1>3, <2>1, <2>2, <2>3, <2>4, <2>5, <2>6, <2>7, <2>8, <2>9, <2>10 DEF SignInNext
<1>4. CASE UNCHANGED sessionVars
  BY <1>4 DEF sessionVars, SignInTypes
<1> QED BY <1>1, <1>2, <1>3, <1>4 DEF SessionsNext

LEMMA SignInTypesSuffice == SignInTypes => SessionsTypeOK
<1> SUFFICES ASSUME SignInTypes PROVE SessionsTypeOK
  OBVIOUS
<1>1. /\ {now, begun, FlowLife, JwksLife, SessionLife, LastTick, MaxFlows} \subseteq Nat
      /\ now <= LastTick /\ begun <= MaxFlows
  BY SessionsAssumption DEF SignInTypes, Ticks
<1>2. responses \subseteq [flow : 1..MaxFlows, signedIn : Ticks]
  BY <1>1 DEF SignInTypes, Ticks
<1>3. jwks.expires \in 0..(LastTick + JwksLife) /\ jwks.keys \subseteq SigningKey
  BY <1>1 DEF SignInTypes
<1>4. ASSUME NEW b \in Browser
      PROVE  /\ flow[b] \in [id : 0..MaxFlows, expires : 0..(LastTick + FlowLife)]
             /\ session[b].roles \in RoleClaim \cup {"none"}
             /\ callback[b].step \in {"idle", "keys", "fetch", "store", "select"}
             /\ callback[b].keys \subseteq SigningKey
  BY <1>1, SMTT(30) DEF SignInTypes, Callback, CallbackStep
<1> QED BY <1>2, <1>3, <1>4 DEF SignInTypes, SessionsTypeOK

(* The type invariant of sign-in: src/backend/auth.py records instants of  *)
(* the past and sets expiries a lifetime ahead.                            *)
THEOREM SignInTypeCorrect == SessionsSpec => []SessionsTypeOK
BY SignInTypesSuffice, InitSignInTypes, NextSignInTypes, PTL DEF SessionsSpec

-----------------------------------------------------------------------------
(* Time.                                                                   *)

ClaimedAfter(n, roles) == \E t \in 0..now : t > n /\ roles = claimed[t]

PublishedAfter(n, keys) == \E t \in 0..now : t > n /\ keys = published[t]

(* What the provider claimed or published at a tick stays on record.       *)
LEMMA ThePastStands ==
  ASSUME SignInTypes, [SessionsNext]_sessionVars
  PROVE  /\ now \in Nat /\ now' \in Nat /\ now <= now'
         /\ \A n \in Int : \A roles : ClaimedAfter(n, roles) => ClaimedAfter(n, roles)'
         /\ \A n \in Int : \A keys : PublishedAfter(n, keys) => PublishedAfter(n, keys)'
<1>a. now \in Nat
  BY SessionsAssumption DEF SignInTypes, Ticks
<1>1. CASE Tick
  <2>1. PICK keys \in (SUBSET SigningKey) \ {{}}, roles \in RoleClaim :
          /\ published' = [t \in 0..now' |-> IF t = now' THEN keys ELSE published[t]]
          /\ claimed' = [t \in 0..now' |-> IF t = now' THEN roles ELSE claimed[t]]
    BY <1>1 DEF Tick
  <2>2. now' = now + 1
    BY <1>1 DEF Tick
  <2>3. \A t \in 0..now : t \in 0..now' /\ claimed'[t] = claimed[t] /\ published'[t] = published[t]
    BY <1>a, <2>1, <2>2
  <2> QED BY <1>a, <2>2, <2>3 DEF ClaimedAfter, PublishedAfter
<1>2. CASE ~Tick
  <2>1. UNCHANGED <<now, claimed, published>>
    BY <1>2 DEF SessionsNext, SignInNext, sessionVars, providerVars, ProviderResponds, StartLogin,
                ReceiveCallback, ReadKeySet, FetchKeySet, StoreKeySet, IssueSession, RejectToken,
                ForceKeySet, RejectKey, ForgetSession
  <2> QED BY <1>a, <2>1 DEF ClaimedAfter, PublishedAfter
<1> QED BY <1>1, <1>2

-----------------------------------------------------------------------------
(* Roles.  A redirect answers a login that had begun, so that its sign-in  *)
(* is no older than the login's cookie; an id_token carries roles that are *)
(* no older than the sign-in, and a session those of its id_token.         *)
ResponseAnswersLogin ==
  \A r \in responses :
    /\ r.flow <= begun
    /\ \A b \in Browser : flow[b].id = r.flow => flow[b].expires <= r.signedIn + FlowLife

TokenRolesAreRecent(b) ==
  callback[b].step # "idle" =>
    ClaimedAfter(callback[b].minted - FlowLife, callback[b].roles)

SessionRolesAreRecent(b) ==
  session[b] # NoSessionToken =>
    ClaimedAfter(session[b].expires - SessionLife - FlowLife - TokenLife, session[b].roles)

(* Key sets.  A cached set was published no longer than the cache's        *)
(* lifetime before it expires; so was the set a callback checks its        *)
(* id_token against, counted from its last reading of the clock, and one   *)
(* it was forced to fetch was published after the id_token was minted.     *)
CachedKeysAreRecent ==
  jwks.expires > 0 => PublishedAfter(jwks.expires - JwksLife - 1, jwks.keys)

FetchedKeysAreFresh(b) ==
  /\ callback[b].step \in {"fetch", "store"} => callback[b].minted <= callback[b].read
  /\ callback[b].step = "store" => PublishedAfter(callback[b].read - 1, callback[b].keys)

CheckedKeysAreRecent(b) ==
  callback[b].step = "select" =>
    /\ PublishedAfter(callback[b].read - JwksLife, callback[b].keys)
    /\ callback[b].forced => PublishedAfter(callback[b].minted - 1, callback[b].keys)

CallbackSound(b) == /\ TokenRolesAreRecent(b)
                    /\ FetchedKeysAreFresh(b)
                    /\ CheckedKeysAreRecent(b)

SignInInv == /\ SignInTypes
             /\ ResponseAnswersLogin
             /\ CachedKeysAreRecent
             /\ \A b \in Browser : CallbackSound(b) /\ SessionRolesAreRecent(b)

LEMMA InitSignInInv == SessionsInit => SignInInv
<1> SUFFICES ASSUME SessionsInit PROVE SignInInv
  OBVIOUS
<1>1. SignInTypes
  BY InitSignInTypes
<1>2. \A b \in Browser : callback[b].step = "idle" /\ session[b] = NoSessionToken
  BY DEF SessionsInit, NoCallback
<1>3. responses = {} /\ jwks.expires = 0
  BY DEF SessionsInit
<1> QED BY <1>1, <1>2, <1>3 DEF SignInInv, ResponseAnswersLogin, TokenRolesAreRecent,
          SessionRolesAreRecent, CachedKeysAreRecent, FetchedKeysAreFresh,
          CheckedKeysAreRecent, CallbackSound

(* A step that leaves a callback, a session or the cache as it is leaves   *)
(* what is known of it.                                                    *)
LEMMA UntouchedStaysSound ==
  ASSUME SignInInv, [SessionsNext]_sessionVars
  PROVE  /\ \A b \in Browser : callback'[b] = callback[b] => CallbackSound(b)'
         /\ \A b \in Browser : session'[b] = session[b] => SessionRolesAreRecent(b)'
         /\ jwks' = jwks => CachedKeysAreRecent'
<1>a. SignInTypes /\ {FlowLife, JwksLife, TokenLife, SessionLife} \subseteq Nat /\ now \in Nat
  BY SessionsAssumption, SMTT(30) DEF SignInInv, SignInTypes, Ticks
<1>1. ASSUME NEW b \in Browser, callback'[b] = callback[b]
      PROVE  CallbackSound(b)'
  <2>1. callback[b].minted \in Nat /\ callback[b].read \in Nat
    BY <1>a DEF SignInTypes, Callback
  <2>2. TokenRolesAreRecent(b)'
    <3>1. callback[b].minted - FlowLife \in Int
      BY <1>a, <2>1
    <3> QED BY <1>a, <1>1, <3>1, ThePastStands DEF SignInInv, CallbackSound, TokenRolesAreRecent
  <2>3. FetchedKeysAreFresh(b)'
    <3>1. callback[b].read - 1 \in Int
      BY <2>1
    <3> QED BY <1>a, <1>1, <3>1, ThePastStands DEF SignInInv, CallbackSound, FetchedKeysAreFresh
  <2>4. CheckedKeysAreRecent(b)'
    <3>1. callback[b].read - JwksLife \in Int /\ callback[b].minted - 1 \in Int
      BY <1>a, <2>1
    <3> QED BY <1>a, <1>1, <3>1, ThePastStands DEF SignInInv, CallbackSound, CheckedKeysAreRecent
  <2> QED BY <2>2, <2>3, <2>4 DEF CallbackSound
<1>2. ASSUME NEW b \in Browser, session'[b] = session[b]
      PROVE  SessionRolesAreRecent(b)'
  <2>1. session[b].expires - SessionLife - FlowLife - TokenLife \in Int
    BY <1>a DEF SignInTypes
  <2> QED BY <1>a, <1>2, <2>1, ThePastStands DEF SignInInv, SessionRolesAreRecent
<1>3. ASSUME jwks' = jwks
      PROVE  CachedKeysAreRecent'
  <2>1. jwks.expires - JwksLife - 1 \in Int
    BY <1>a DEF SignInTypes
  <2> QED BY <1>a, <1>3, <2>1, ThePastStands DEF SignInInv, CachedKeysAreRecent
<1> QED BY <1>1, <1>2, <1>3

LEMMA NextSignInInv == SignInInv /\ [SessionsNext]_sessionVars => SignInInv'
<1> SUFFICES ASSUME SignInInv, [SessionsNext]_sessionVars PROVE SignInInv'
  OBVIOUS
<1>t. SignInTypes /\ SignInTypes'
  BY NextSignInTypes DEF SignInInv
<1>a. /\ {now, begun, FlowLife, JwksLife, TokenLife, SessionLife} \subseteq Nat
      /\ JwksLife > 0
      /\ \A r \in responses : r.flow \in Nat \ {0} /\ r.signedIn \in 0..now
      /\ \A b \in Browser : /\ flow[b].id \in 0..begun /\ flow[b].expires \in 0..(now + FlowLife)
                           /\ callback[b] \in Callback
                           /\ callback[b].minted <= now /\ callback[b].read <= now
  <2>1. /\ {now, begun, FlowLife, JwksLife, TokenLife, SessionLife} \subseteq Nat
        /\ JwksLife > 0
    BY <1>t, SessionsAssumption DEF SignInTypes, Ticks
  <2>2. \A r \in responses : r.flow \in Nat \ {0} /\ r.signedIn \in 0..now
    BY <1>t DEF SignInTypes
  <2>3. \A b \in Browser : flow[b].id \in 0..begun /\ flow[b].expires \in 0..(now + FlowLife)
    BY <1>t DEF SignInTypes
  <2> QED BY <1>t, <2>1, <2>2, <2>3 DEF SignInTypes
<1>u. /\ \A b \in Browser : callback'[b] = callback[b] => CallbackSound(b)'
      /\ \A b \in Browser : session'[b] = session[b] => SessionRolesAreRecent(b)'
      /\ jwks' = jwks => CachedKeysAreRecent'
  BY UntouchedStaysSound
<1>1. ASSUME UNCHANGED <<begun, responses, flow, jwks, callback, session>>
      PROVE  SignInInv'
  <2>1. ResponseAnswersLogin'
    BY <1>1 DEF SignInInv, ResponseAnswersLogin
  <2> QED BY <1>1, <1>t, <1>u, <2>1 DEF SignInInv
<1>2. ASSUME NEW id \in 1..begun, ProviderResponds(id)
      PROVE  SignInInv'
  <2>1. /\ responses' = responses \cup {[flow |-> id, signedIn |-> now]}
        /\ UNCHANGED <<begun, jwks, flow, callback, session>>
    BY <1>2 DEF ProviderResponds
  <2>2. ResponseAnswersLogin'
    <3> SUFFICES ASSUME NEW r \in responses'
                 PROVE  /\ r.flow <= begun
                        /\ \A b \in Browser : flow[b].id = r.flow =>
                             flow[b].expires <= r.signedIn + FlowLife
      BY <2>1 DEF ResponseAnswersLogin
    <3>1. CASE r \in responses
      BY <3>1 DEF SignInInv, ResponseAnswersLogin
    <3>2. CASE r = [flow |-> id, signedIn |-> now]
      BY <3>2, <1>a
    <3> QED BY <2>1, <3>1, <3>2
  <2> QED BY <1>t, <1>u, <2>1, <2>2 DEF SignInInv
<1>3. ASSUME NEW b \in Browser, SignInNext(b)
      PROVE  SignInInv'
  <2>n. now' = now /\ claimed' = claimed /\ published' = published /\ responses' = responses
    BY <1>3 DEF SignInNext, providerVars, StartLogin, ReceiveCallback, ReadKeySet, FetchKeySet,
                StoreKeySet, IssueSession, RejectToken, ForceKeySet, RejectKey, ForgetSession
  <2>a. ASSUME UNCHANGED <<begun, flow>>
        PROVE  ResponseAnswersLogin'
    BY <2>a, <2>n DEF SignInInv, ResponseAnswersLogin
  <2>b. ASSUME callback' = [callback EXCEPT ![b] = NoCallback]
        PROVE  \A c \in Browser : CallbackSound(c)'
    <3>1. callback'[b].step = "idle"
      BY <2>b, <1>t DEF SignInTypes, NoCallback
    <3>2. CallbackSound(b)'
      BY <3>1 DEF CallbackSound, TokenRolesAreRecent, FetchedKeysAreFresh, CheckedKeysAreRecent
    <3>3. \A c \in Browser \ {b} : callback'[c] = callback[c]
      BY <2>b, <1>t DEF SignInTypes
    <3> QED BY <1>u, <3>2, <3>3
  <2>c. ASSUME NEW row, callback' = [callback EXCEPT ![b] = row], CallbackSound(b)'
        PROVE  \A c \in Browser : CallbackSound(c)'
    <3>1. \A c \in Browser \ {b} : callback'[c] = callback[c]
      BY <2>c, <1>t DEF SignInTypes
    <3> QED BY <1>u, <2>c, <3>1
  <2>1. CASE StartLogin(b)
    <3>1. /\ begun' = begun + 1
          /\ flow' = [flow EXCEPT ![b] = [id |-> begun', expires |-> now + FlowLife]]
          /\ UNCHANGED <<jwks, callback, session>>
      BY <2>1 DEF StartLogin
    <3>2. ASSUME NEW r \in responses, NEW c \in Browser, flow'[c].id = r.flow
          PROVE  flow'[c].expires <= r.signedIn + FlowLife
      <4>1. flow'[b].id = begun + 1 /\ \A d \in Browser \ {b} : flow'[d] = flow[d]
        BY <3>1, <1>t DEF SignInTypes
      <4>2. r.flow <= begun /\ begun \in Nat
        BY <1>a DEF SignInInv, ResponseAnswersLogin
      <4>3. c # b
        BY <3>2, <4>1, <4>2, <1>a
      <4> QED BY <3>2, <4>1, <4>3 DEF SignInInv, ResponseAnswersLogin
    <3>3. ResponseAnswersLogin'
      BY <2>n, <3>1, <3>2, <1>a DEF SignInInv, ResponseAnswersLogin
    <3> QED BY <1>t, <1>u, <3>1, <3>3 DEF SignInInv
  <2>2. CASE ReceiveCallback(b)
    <3>1. PICK r \in responses :
            /\ Matches(b, r)
            /\ \E key \in published[now], t \in r.signedIn..now :
                 callback' = [callback EXCEPT ![b] = [NoCallback EXCEPT !.step = "keys",
                                                                        !.minted = now,
                                                                        !.key = key,
                                                                        !.roles = claimed[t]]]
      BY <2>2 DEF ReceiveCallback
    <3>2. PICK key \in published[now], t \in r.signedIn..now :
            callback' = [callback EXCEPT ![b] = [NoCallback EXCEPT !.step = "keys",
                                                                   !.minted = now,
                                                                   !.key = key,
                                                                   !.roles = claimed[t]]]
      BY <3>1
    <3>3. t \in 0..now /\ t > now - FlowLife
      BY <3>1, <1>a DEF SignInInv, ResponseAnswersLogin, Matches
    <3>4. /\ callback'[b].step = "keys" /\ callback'[b].minted = now
          /\ callback'[b].roles = claimed[t]
      BY <3>2, <1>t DEF SignInTypes, NoCallback
    <3>5. CallbackSound(b)'
      BY <2>n, <3>3, <3>4 DEF CallbackSound, TokenRolesAreRecent, FetchedKeysAreFresh,
                              CheckedKeysAreRecent, ClaimedAfter
    <3>6. \A c \in Browser : CallbackSound(c)'
      BY <2>c, <3>2, <3>5
    <3> QED BY <1>t, <1>u, <2>2, <2>a, <3>6 DEF ReceiveCallback, SignInInv
  <2>3. CASE ReadKeySet(b)
    <3>1. callback[b].step = "keys" /\ callback[b] \in Callback
      BY <2>3, <1>a DEF ReadKeySet
    <3>2. ClaimedAfter(callback[b].minted - FlowLife, callback[b].roles)
      BY <3>1 DEF SignInInv, CallbackSound, TokenRolesAreRecent
    <3>3. ASSUME Cached(now), ~callback[b].forced
          PROVE  \A c \in Browser : CallbackSound(c)'
      <4>1. callback' = [callback EXCEPT ![b] = [@ EXCEPT !.step = "select", !.read = now,
                                                          !.keys = jwks.keys]]
        BY <2>3, <3>3 DEF ReadKeySet
      <4>2. /\ callback'[b].step = "select" /\ callback'[b].read = now
            /\ callback'[b].keys = jwks.keys /\ callback'[b].minted = callback[b].minted
            /\ callback'[b].roles = callback[b].roles /\ callback'[b].forced = FALSE
        BY <4>1, <3>1, <3>3, <1>t DEF SignInTypes, Callback
      <4>a. jwks.expires \in Nat /\ now < jwks.expires /\ jwks.expires > 0
        BY <3>3, <1>a, <1>t DEF Cached, SignInTypes
      <4>3. PICK t \in 0..now : t > jwks.expires - JwksLife - 1 /\ jwks.keys = published[t]
        BY <4>a DEF SignInInv, CachedKeysAreRecent, PublishedAfter
      <4>4. t > now - JwksLife
        BY <4>a, <4>3, <1>a
      <4>5. CallbackSound(b)'
        BY <2>n, <3>2, <4>2, <4>3, <4>4
        DEF CallbackSound, TokenRolesAreRecent, FetchedKeysAreFresh, CheckedKeysAreRecent,
            PublishedAfter, ClaimedAfter
      <4> QED BY <2>c, <4>1, <4>5
    <3>4. ASSUME ~(Cached(now) /\ ~callback[b].forced)
          PROVE  \A c \in Browser : CallbackSound(c)'
      <4>1. callback' = [callback EXCEPT ![b] = [@ EXCEPT !.step = "fetch", !.read = now]]
        BY <2>3, <3>4 DEF ReadKeySet
      <4>2. /\ callback'[b].step = "fetch" /\ callback'[b].read = now
            /\ callback'[b].minted = callback[b].minted /\ callback'[b].roles = callback[b].roles
        BY <4>1, <3>1, <1>t DEF SignInTypes, Callback
      <4>3. CallbackSound(b)'
        BY <2>n, <3>2, <4>2, <1>a
        DEF CallbackSound, TokenRolesAreRecent, FetchedKeysAreFresh, CheckedKeysAreRecent,
            ClaimedAfter
      <4> QED BY <2>c, <4>1, <4>3
    <3>5. \A c \in Browser : CallbackSound(c)'
      BY <3>3, <3>4
    <3> QED BY <1>t, <1>u, <2>3, <2>a, <3>5 DEF ReadKeySet, SignInInv
  <2>4. CASE FetchKeySet(b)
    <3>1. callback[b].step = "fetch" /\ callback[b] \in Callback
      BY <2>4, <1>a DEF FetchKeySet
    <3>2. ASSUME callback' = [callback EXCEPT ![b].step = "store", ![b].keys = published[now]]
          PROVE  \A c \in Browser : CallbackSound(c)'
      <4>1. /\ callback'[b].step = "store" /\ callback'[b].keys = published[now]
            /\ callback'[b].read = callback[b].read /\ callback'[b].minted = callback[b].minted
            /\ callback'[b].roles = callback[b].roles
            /\ \A c \in Browser \ {b} : callback'[c] = callback[c]
        BY <3>1, <3>2, <1>t DEF SignInTypes, Callback
      <4>2. /\ ClaimedAfter(callback[b].minted - FlowLife, callback[b].roles)
            /\ callback[b].minted <= callback[b].read
        BY <3>1 DEF SignInInv, CallbackSound, TokenRolesAreRecent, FetchedKeysAreFresh
      <4>3. now \in 0..now /\ now > callback[b].read - 1
        BY <1>a, <3>1 DEF Callback
      <4>4. CallbackSound(b)'
        BY <2>n, <4>1, <4>2, <4>3
        DEF CallbackSound, TokenRolesAreRecent, FetchedKeysAreFresh, CheckedKeysAreRecent,
            PublishedAfter, ClaimedAfter
      <4> QED BY <1>u, <4>1, <4>4
    <3>3. \A c \in Browser : CallbackSound(c)'
      BY <2>4, <2>b, <3>2 DEF FetchKeySet
    <3> QED BY <1>t, <1>u, <2>4, <2>a, <3>3 DEF FetchKeySet, SignInInv
  <2>5. CASE StoreKeySet(b)
    <3>1. callback[b].step = "store" /\ callback[b] \in Callback
      BY <2>5, <1>a DEF StoreKeySet
    <3>2. /\ callback'[b].step = "select" /\ callback'[b].keys = callback[b].keys
          /\ callback'[b].read = callback[b].read /\ callback'[b].minted = callback[b].minted
          /\ callback'[b].roles = callback[b].roles
          /\ \A c \in Browser \ {b} : callback'[c] = callback[c]
      BY <3>1, <2>5, <1>t DEF StoreKeySet, SignInTypes, Callback
    <3>3. /\ ClaimedAfter(callback[b].minted - FlowLife, callback[b].roles)
          /\ callback[b].minted <= callback[b].read
      BY <3>1 DEF SignInInv, CallbackSound, TokenRolesAreRecent, FetchedKeysAreFresh
    <3>4. PICK t \in 0..now : t > callback[b].read - 1 /\ callback[b].keys = published[t]
      BY <3>1 DEF SignInInv, CallbackSound, FetchedKeysAreFresh, PublishedAfter
    <3>5. t > callback[b].read - JwksLife /\ t > callback[b].minted - 1
      BY <3>1, <3>3, <3>4, <1>a DEF Callback
    <3>6. CallbackSound(b)'
      BY <2>n, <3>2, <3>3, <3>4, <3>5
      DEF CallbackSound, TokenRolesAreRecent, FetchedKeysAreFresh, CheckedKeysAreRecent,
          PublishedAfter, ClaimedAfter
    <3>7. CachedKeysAreRecent'
      <4>1. jwks' = [expires |-> callback[b].read + JwksLife, keys |-> callback[b].keys]
        BY <2>5 DEF StoreKeySet
      <4>2. jwks'.expires - JwksLife - 1 = callback[b].read - 1
        BY <4>1, <3>1, <1>a DEF Callback
      <4> QED BY <2>n, <3>4, <4>1, <4>2 DEF CachedKeysAreRecent, PublishedAfter
    <3> QED BY <1>t, <1>u, <2>5, <2>a, <3>2, <3>6, <3>7 DEF StoreKeySet, SignInInv
  <2>6. CASE IssueSession(b)
    <3>1. /\ callback[b].step = "select" /\ callback[b] \in Callback
          /\ now < callback[b].minted + TokenLife
      BY <2>6, <1>a DEF IssueSession, TokenHolds
    <3>2. PICK t \in 0..now : /\ t > callback[b].minted - FlowLife
                              /\ callback[b].roles = claimed[t]
      BY <3>1 DEF SignInInv, CallbackSound, TokenRolesAreRecent, ClaimedAfter
    <3>3. /\ session'[b].expires = now + SessionLife /\ session'[b].roles = callback[b].roles
          /\ \A c \in Browser \ {b} : session'[c] = session[c]
      BY <2>6, <1>t DEF IssueSession, SignInTypes
    <3>4. t > session'[b].expires - SessionLife - FlowLife - TokenLife
      BY <3>1, <3>2, <3>3, <1>a DEF Callback
    <3>5. \A c \in Browser : SessionRolesAreRecent(c)'
      BY <1>u, <2>n, <3>2, <3>3, <3>4 DEF SessionRolesAreRecent, ClaimedAfter
    <3>6. ResponseAnswersLogin'
      <4>1. flow'[b].id = 0 /\ \A c \in Browser \ {b} : flow'[c] = flow[c]
        BY <2>6, <1>t DEF IssueSession, SignInTypes, NoFlow
      <4>2. begun' = begun
        BY <2>6 DEF IssueSession
      <4> QED BY <2>n, <4>1, <4>2, <1>a DEF SignInInv, ResponseAnswersLogin
    <3>7. \A c \in Browser : CallbackSound(c)'
      BY <2>6, <2>b DEF IssueSession
    <3> QED BY <1>t, <1>u, <2>6, <3>5, <3>6, <3>7 DEF IssueSession, SignInInv
  <2>7. CASE RejectToken(b)
    BY <1>t, <1>u, <2>7, <2>a, <2>b DEF RejectToken, SignInInv
  <2>8. CASE ForceKeySet(b)
    <3>1. callback[b].step = "select" /\ callback[b] \in Callback
      BY <2>8, <1>a DEF ForceKeySet
    <3>2. /\ callback'[b].step = "keys" /\ callback'[b].minted = callback[b].minted
          /\ callback'[b].roles = callback[b].roles
          /\ \A c \in Browser \ {b} : callback'[c] = callback[c]
      BY <3>1, <2>8, <1>t DEF ForceKeySet, SignInTypes, Callback
    <3>3. CallbackSound(b)'
      BY <2>n, <3>1, <3>2 DEF SignInInv, CallbackSound, TokenRolesAreRecent, FetchedKeysAreFresh,
                              CheckedKeysAreRecent, ClaimedAfter
    <3> QED BY <1>t, <1>u, <2>8, <2>a, <3>2, <3>3 DEF ForceKeySet, SignInInv
  <2>9. CASE RejectKey(b)
    BY <1>t, <1>u, <2>9, <2>a, <2>b DEF RejectKey, SignInInv
  <2>10. CASE ForgetSession(b)
    <3>1. session'[b] = NoSessionToken /\ \A c \in Browser \ {b} : session'[c] = session[c]
      BY <2>10, <1>t DEF ForgetSession, SignInTypes
    <3>2. \A c \in Browser : SessionRolesAreRecent(c)'
      BY <1>u, <3>1 DEF SessionRolesAreRecent
    <3> QED BY <1>t, <1>u, <2>10, <2>a, <3>2 DEF ForgetSession, SignInInv
  <2> QED BY <1>3, <2>1, <2>2, <2>3, <2>4, <2>5, <2>6, <2>7, <2>8, <2>9, <2>10 DEF SignInNext
<1> QED BY <1>1, <1>2, <1>3 DEF SessionsNext, Tick, sessionVars

LEMMA SignInInvariant == SessionsSpec => []SignInInv
<1> QED BY InitSignInInv, NextSignInInv, PTL DEF SessionsSpec

(* Roles that a session gives are recent, however late a redirect is       *)
(* followed, or how often, and however long the key set takes.             *)
THEOREM SessionRoles == SessionsSpec => []RolesAreRecent
<1>1. SignInInv => RolesAreRecent
  <2> SUFFICES ASSUME SignInInv, NEW b \in Browser, SessionHolds(b)
               PROVE  \E t \in 0..now : /\ t > now - SessionLife - FlowLife - TokenLife
                                        /\ session[b].roles = claimed[t]
    BY DEF RolesAreRecent
  <2>1. PICK t \in 0..now : /\ t > session[b].expires - SessionLife - FlowLife - TokenLife
                            /\ session[b].roles = claimed[t]
    BY DEF SignInInv, SessionRolesAreRecent, SessionHolds, ClaimedAfter
  <2>2. now < session[b].expires /\ session[b].expires \in Nat
    BY DEF SessionHolds, SignInInv, SignInTypes
  <2>3. {now, SessionLife, FlowLife, TokenLife} \subseteq Nat
    BY SessionsAssumption DEF SignInInv, SignInTypes, Ticks
  <2> QED BY <2>1, <2>2, <2>3
<1> QED BY <1>1, SignInInvariant, PTL

(* A verdict on a key is sound: what is trusted was published within the   *)
(* cache's lifetime, what is turned away was not there when it mattered.   *)
THEOREM KeyVerdicts == SessionsSpec => KeyVerdictsAreSound
<1> DEFINE Sound == \A b \in Browser :
                      /\ IssueSession(b) => \E t \in 0..now :
                                              /\ t > callback[b].read - JwksLife
                                              /\ callback[b].key \in published[t]
                      /\ RejectKey(b) => \E t \in callback[b].minted..now :
                                           callback[b].key \notin published[t]
<1>1. SignInInv => Sound
  <2> SUFFICES ASSUME SignInInv, NEW b \in Browser
               PROVE  /\ IssueSession(b) => \E t \in 0..now :
                                              /\ t > callback[b].read - JwksLife
                                              /\ callback[b].key \in published[t]
                      /\ RejectKey(b) => \E t \in callback[b].minted..now :
                                           callback[b].key \notin published[t]
    OBVIOUS
  <2>1. ASSUME IssueSession(b)
        PROVE  \E t \in 0..now : /\ t > callback[b].read - JwksLife
                                 /\ callback[b].key \in published[t]
    BY <2>1 DEF SignInInv, CallbackSound, CheckedKeysAreRecent, PublishedAfter, IssueSession,
                KeyKnown
  <2>2. ASSUME RejectKey(b)
        PROVE  \E t \in callback[b].minted..now : callback[b].key \notin published[t]
    <3>1. PICK t \in 0..now : t > callback[b].minted - 1 /\ callback[b].keys = published[t]
      BY <2>2 DEF SignInInv, CallbackSound, CheckedKeysAreRecent, PublishedAfter, RejectKey
    <3>2. callback[b].minted \in Nat /\ now \in Nat
      BY SessionsAssumption DEF SignInInv, SignInTypes, Callback, Ticks
    <3>3. t \in callback[b].minted..now
      BY <3>1, <3>2
    <3> QED BY <2>2, <3>1, <3>3 DEF RejectKey, KeyKnown
  <2> QED BY <2>1, <2>2
<1> HIDE DEF Sound
<1>2. [](SignInInv) => [][Sound]_sessionVars
  BY <1>1, PTL
<1> QED BY <1>2, SignInInvariant, PTL DEF KeyVerdictsAreSound, Sound
=============================================================================
