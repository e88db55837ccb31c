---------------------------- MODULE AccessControl ----------------------------
(***************************************************************************)
(* Who may read a document: the ACL, the scope and the label of            *)
(* src/backend/database.py, the organisation tables that its searches      *)
(* resolve groups and departments from, and the clearance of               *)
(* src/backend/auth.py.                                                    *)
(*                                                                         *)
(* A search resolves the caller's groups, then its departments, and reads  *)
(* the documents after that, each in a transaction of its own: memberships *)
(* and ACLs change in between.  This is the order of the PostgreSQL        *)
(* searches, which production uses; the portable search reads the          *)
(* documents and entries first.  A session keeps the roles, groups and     *)
(* departments its login claimed, however old they are.                    *)
(*                                                                         *)
(* Department keys have a case: what an administrator creates keeps it,    *)
(* claims and ACL entries are lower-cased, and so are the keys a search    *)
(* resolves.  Groups come from claims alone, in lower case.                *)
(***************************************************************************)
EXTENDS Naturals, FiniteSets

CONSTANTS Subject,          \* users an identity provider names
          GroupKey,         \* groups claims may name
          DepartmentKey,    \* departments, claimed or made by an administrator
          LowerCase,        \* LowerCase[k]: key k in lower case
          AccessDocument,   \* documents imports may name
          Reader,           \* sessions
          RoleSet,          \* sets of roles a session may carry
          MaxEntries,       \* bound: entries of one ACL
          MaxReplacements   \* bound: replacements of one document's ACL

LevelRole == {"viewer", "auditor", "admin"}
KnownRole == LevelRole \cup {"knowledge_editor", "knowledge_reviewer",
                             "knowledge_publisher", "evaluation_runner"}

ASSUME AccessAssumption == /\ RoleSet \subseteq SUBSET KnownRole
                           /\ \A roles \in RoleSet : roles \cap LevelRole # {}
                           /\ LowerCase \in [DepartmentKey -> DepartmentKey]
                           /\ \A k \in DepartmentKey : LowerCase[LowerCase[k]] = LowerCase[k]
                           /\ MaxEntries \in Nat
                           /\ MaxReplacements \in Nat

VARIABLES users,               \* rows of users
          groups,              \* rows of groups
          departments,         \* rows of departments
          groupMembers,        \* rows of user_group_memberships
          departmentMembers,   \* rows of user_department
          access,              \* access[d]: scope, label and ACL of document d
          aclTrail,            \* audit rows document_acl_replace of each document
          reader,              \* reader[r]: session r and its search
          belonged             \* groups and departments r belonged to at some
                               \* moment of the search it is in (no code reads it)

organisation == <<users, groups, departments, groupMembers, departmentMembers>>
accessVars == <<organisation, access, aclTrail, reader, belonged>>

Principals == ({"user"} \X Subject) \cup ({"role"} \X LevelRole)
                \cup ({"group"} \X GroupKey) \cup ({"department"} \X DepartmentKey)

(* A principal as an ACL entry names it.                                   *)
LowerCased(p) == IF p[1] = "department" THEN <<p[1], LowerCase[p[2]]>> ELSE p

Scope == {"public", "restricted"}
Label == {"public", "internal", "confidential"}
OpenLabel == {"public", "internal"}
Rank(label) == CASE label = "public" -> 0
                 [] label = "internal" -> 1
                 [] label = "confidential" -> 2

NoAccess == [scope |-> "absent", label |-> "absent", entries |-> {}]
HasDocument(d) == access[d] # NoAccess

Guest == "guest"   \* a fresh subject that no table and no claim names

SessionStep == {"none", "sync", "ready", "departments", "query"}

NoSession == [step |-> "none", subject |-> Guest, roles |-> {},
              claimedGroups |-> {}, claimedDepartments |-> {},
              groups |-> {}, departments |-> {}, found |-> {}]

DocumentAccess == {NoAccess} \cup
                  [scope : Scope, label : Label, entries : SUBSET Principals]

Session == [step : SessionStep, subject : Subject \cup {Guest}, roles : SUBSET KnownRole,
            claimedGroups : SUBSET GroupKey, claimedDepartments : SUBSET DepartmentKey,
            groups : SUBSET GroupKey, departments : SUBSET DepartmentKey,
            found : SUBSET AccessDocument]

AccessTypeOK ==
  /\ users \subseteq Subject
  /\ groups \subseteq GroupKey
  /\ departments \subseteq DepartmentKey
  /\ groupMembers \subseteq Subject \X GroupKey
  /\ departmentMembers \subseteq Subject \X DepartmentKey
  /\ access \in [AccessDocument -> DocumentAccess]
  /\ aclTrail \in [AccessDocument -> 0..MaxReplacements]
  /\ reader \in [Reader -> Session]
  /\ belonged \in [Reader -> SUBSET Principals]

AccessInit == /\ users = {}
              /\ groups = {}
              /\ departments = {}
              /\ groupMembers = {}
              /\ departmentMembers = {}
              /\ access = [d \in AccessDocument |-> NoAccess]
              /\ aclTrail = [d \in AccessDocument |-> 0]
              /\ reader = [r \in Reader |-> NoSession]
              /\ belonged = [r \in Reader |-> {}]

-----------------------------------------------------------------------------
(* An operator X_Y before an operator X is X with a plausible mistake in   *)
(* it; no action uses it.                                                  *)

(* Memberships: _resolve_principal_groups, _resolve_principal_departments. *)
GroupsOf(s) == {g \in GroupKey : <<s, g>> \in groupMembers}

DepartmentsStored(s) == {k \in DepartmentKey : <<s, k>> \in departmentMembers}

DepartmentsOf(r) == {LowerCase[k] : k \in DepartmentsStored(reader[r].subject)}

(* Keys of departments as the rows have them.                              *)
Memberships(r) == ({"group"} \X GroupsOf(reader[r].subject))
                    \cup ({"department"} \X DepartmentsStored(reader[r].subject))

Searching(r) == reader[r].step \in {"departments", "query"}

Remember == belonged' = [r \in Reader |-> IF Searching(r) THEN belonged[r] \cup Memberships(r)'
                                          ELSE belonged[r]]

Becomes(r, session) == reader' = [reader EXCEPT ![r] = session]

(* Sessions: an OIDC login with what the provider claims today, in lower   *)
(* case; the query service then brings the organisation up to date, unless *)
(* that fails, which the login survives.                                   *)
LogIn(r) ==
  /\ reader[r].step \in {"none", "ready"}
  /\ \E s \in Subject, roles \in RoleSet, G \in SUBSET GroupKey,
        D \in SUBSET {LowerCase[k] : k \in DepartmentKey} :
       Becomes(r, [NoSession EXCEPT !.step = "sync", !.subject = s, !.roles = roles,
                                    !.claimedGroups = G, !.claimedDepartments = D])
  /\ UNCHANGED <<organisation, access, aclTrail, belonged>>

(* guest_login, where local accounts are used: no claims, and nothing is   *)
(* brought up to date.                                                     *)
GuestLogIn(r) ==
  /\ reader[r].step \in {"none", "ready"}
  /\ Becomes(r, [NoSession EXCEPT !.step = "ready", !.roles = {"viewer"}])
  /\ UNCHANGED <<organisation, access, aclTrail, belonged>>

(* sync_org_on_login only adds.                                            *)
SyncOrgOnLogin(r) == LET s == reader[r].subject IN
  /\ reader[r].step = "sync"
  /\ Becomes(r, [reader[r] EXCEPT !.step = "ready"])
  /\ users' = users \cup {s}
  /\ groups' = groups \cup reader[r].claimedGroups
  /\ departments' = departments \cup reader[r].claimedDepartments
  /\ groupMembers' = groupMembers \cup ({s} \X reader[r].claimedGroups)
  /\ departmentMembers' = departmentMembers \cup ({s} \X reader[r].claimedDepartments)
  /\ Remember
  /\ UNCHANGED <<access, aclTrail>>

SyncFails(r) ==
  /\ reader[r].step = "sync"
  /\ Becomes(r, [reader[r] EXCEPT !.step = "ready"])
  /\ UNCHANGED <<organisation, access, aclTrail, belonged>>

-----------------------------------------------------------------------------
(* The department endpoints.  Each writes an audit row of its own after    *)
(* its transaction, which no property reads.                               *)

CreateDepartment(k) ==
  /\ departments' = departments \cup {k}
  /\ UNCHANGED <<users, groups, groupMembers, departmentMembers, access, aclTrail, reader,
                 belonged>>

DeleteDepartment_KeepMembers(k) ==
  /\ departments' = departments \ {k}
  /\ UNCHANGED <<users, groups, groupMembers, departmentMembers, access, aclTrail, reader,
                 belonged>>

(* The ACL entries of the department stay.                                 *)
DeleteDepartment(k) ==
  /\ departments' = departments \ {k}
  /\ departmentMembers' = departmentMembers \ (Subject \X {k})
  /\ UNCHANGED <<users, groups, groupMembers, access, aclTrail, reader, belonged>>

(* add_user_to_department; the foreign keys ask for both rows.             *)
AddUserToDepartment(s, k) ==
  /\ k \in departments
  /\ s \in users
  /\ departmentMembers' = departmentMembers \cup {<<s, k>>}
  /\ UNCHANGED <<users, groups, departments, groupMembers, access, aclTrail, reader>>
  /\ Remember

RemoveUserFromDepartment(s, k) ==
  /\ departmentMembers' = departmentMembers \ {<<s, k>>}
  /\ UNCHANGED <<users, groups, departments, groupMembers, access, aclTrail, reader,
                 belonged>>

AdministerDepartments ==
  \E k \in DepartmentKey :
    \/ CreateDepartment(k)
    \/ DeleteDepartment(k)
    \/ \E s \in Subject : AddUserToDepartment(s, k) \/ RemoveUserFromDepartment(s, k)

-----------------------------------------------------------------------------
(* Documents.                                                              *)

(* _validate_acl_principal: roles have no table.                           *)
PrincipalExists(p) == \/ p[1] = "user" /\ p[2] \in users
                      \/ p[1] = "group" /\ p[2] \in groups
                      \/ p[1] = "department" /\ p[2] \in departments
                      \/ p[1] = "role"

Acls == {E \in SUBSET Principals : Cardinality(E) <= MaxEntries}

(* set_document_acl: a public document keeps no entries; the entries of a  *)
(* restricted one are looked up as they are stored, in lower case.         *)
SetDocumentAcl(d, scope, E) ==
  LET entries == IF scope = "public" THEN {} ELSE {LowerCased(p) : p \in E} IN
  /\ HasDocument(d)
  /\ aclTrail[d] < MaxReplacements
  /\ \A p \in entries : PrincipalExists(p)
  /\ access' = [access EXCEPT ![d] = [@ EXCEPT !.scope = scope, !.entries = entries]]
  /\ aclTrail' = [aclTrail EXCEPT ![d] = @ + 1]
  /\ UNCHANGED <<organisation, reader, belonged>>

ReplaceDocumentAcl == \E d \in AccessDocument, scope \in Scope, E \in Acls :
                        SetDocumentAcl(d, scope, E)

Unstated == "unstated"   \* None: the import leaves the choice open
Stated(value, default) == IF value = Unstated THEN default ELSE value

MayImport_AnyScope(d, scope, label) ==
  label # Unstated => Rank(label) >= Rank(access[d].label)

(* begin_document_import of a document that exists refuses another scope   *)
(* and a lower label.                                                      *)
MayImport(d, scope, label) ==
  /\ scope \in {Unstated, access[d].scope}
  /\ label # Unstated => Rank(label) >= Rank(access[d].label)

ImportDocument(d, scope, label) ==
  /\ \/ /\ ~HasDocument(d)
        /\ access' = [access EXCEPT ![d] = [scope |-> Stated(scope, "public"),
                                            label |-> Stated(label, "internal"),
                                            entries |-> {}]]
     \/ /\ HasDocument(d)
        /\ MayImport(d, scope, label)
        /\ access' = [access EXCEPT
                        ![d] = [@ EXCEPT !.scope = Stated(scope, access[d].scope),
                                         !.label = Stated(label, access[d].label)]]
  /\ UNCHANGED <<organisation, aclTrail, reader, belonged>>

-----------------------------------------------------------------------------
(* Searches.  Every document has an indexed version that matches.          *)

(* Principal.acl_roles: a higher level implies the lower ones.  A guest is *)
(* no subject of any ACL.                                                  *)
AclRoles(r) ==
  IF reader[r].subject = Guest THEN {}
  ELSE (reader[r].roles \cap LevelRole)
         \cup (IF "admin" \in reader[r].roles THEN {"auditor", "viewer"} ELSE {})
         \cup (IF "auditor" \in reader[r].roles THEN {"viewer"} ELSE {})

(* Principal.confidential_clearance: from level 2.                         *)
Cleared(r) == reader[r].roles \cap {"auditor", "admin"} # {}

ResolveGroups(r) ==
  /\ reader[r].step = "ready"
  /\ Becomes(r, [reader[r] EXCEPT !.step = "departments", !.found = {},
                                  !.groups = GroupsOf(reader[r].subject)])
  /\ belonged' = [belonged EXCEPT ![r] = Memberships(r)]
  /\ UNCHANGED <<organisation, access, aclTrail>>

ResolveDepartments(r) ==
  /\ reader[r].step = "departments"
  /\ Becomes(r, [reader[r] EXCEPT !.step = "query", !.departments = DepartmentsOf(r)])
  /\ UNCHANGED <<organisation, access, aclTrail, belonged>>

(* The subject, roles, groups and departments an ACL entry is compared     *)
(* with (accessible_document_outline, the two searches of PostgreSQL and   *)
(* _document_allowed).                                                     *)
Presented(r) == {<<"user", reader[r].subject>>} \cup ({"role"} \X AclRoles(r))
                  \cup ({"group"} \X reader[r].groups)
                  \cup ({"department"} \X reader[r].departments)

DocumentAllowed_EntriesFirst(r, d) ==
  \/ access[d].scope = "public"
  \/ access[d].entries \cap Presented(r) # {}

(* The label narrows before the scope or the ACL can allow.                *)
DocumentAllowed(r, d) ==
  /\ access[d].label \in OpenLabel \/ Cleared(r)
  /\ access[d].scope = "public" \/ access[d].entries \cap Presented(r) # {}

HybridSearch(r) ==
  /\ reader[r].step = "query"
  /\ Becomes(r, [reader[r] EXCEPT !.step = "ready",
                                  !.groups = {}, !.departments = {},
                                  !.found = {d \in AccessDocument :
                                               HasDocument(d) /\ DocumentAllowed(r, d)}])
  /\ belonged' = [belonged EXCEPT ![r] = {}]
  /\ UNCHANGED <<organisation, access, aclTrail>>

-----------------------------------------------------------------------------
AccessNext ==
  \/ \E r \in Reader : \/ LogIn(r)
                       \/ GuestLogIn(r)
                       \/ SyncOrgOnLogin(r)
                       \/ SyncFails(r)
                       \/ ResolveGroups(r)
                       \/ ResolveDepartments(r)
                       \/ HybridSearch(r)
  \/ AdministerDepartments
  \/ ReplaceDocumentAcl
  \/ \E d \in AccessDocument,
        scope \in Scope \cup {Unstated}, label \in Label \cup {Unstated} :
       ImportDocument(d, scope, label)

AccessSpec == AccessInit /\ [][AccessNext]_accessVars

-----------------------------------------------------------------------------
(* Properties.                                                             *)

(* Only the ACL endpoint changes who may read a document: whatever imports,*)
(* logins and changes of the organisation do, the scope and the entries of *)
(* a document that exists change in a step that adds the audit row of the  *)
(* replacement (begin_document_import and set_document_acl).               *)
AudienceChangesAreAudited ==
  [][\A d \in AccessDocument :
       HasDocument(d) /\ <<access[d].scope, access[d].entries>> #
                         <<access'[d].scope, access'[d].entries>>
         => aclTrail'[d] > aclTrail[d]]_accessVars

(* What a search returns, its caller may read by an entry that stands      *)
(* when the documents are read and, for a group or a department, by a      *)
(* membership that stood at some moment of the search: claims of an old    *)
(* login or an earlier search give nothing, and without clearance no       *)
(* entry opens a confidential document.  The case of a department is lost: *)
(* an entry for "hr" admits the members of any department whose key is     *)
(* "hr" in lower case, that of "HR" too, which has rows of its own.        *)
WasGranted(r, d) ==
  /\ access[d].label = "confidential" => Cleared(r)
  /\ \/ access[d].scope = "public"
     \/ \E p \in access[d].entries :
          \/ p \in {<<"user", reader[r].subject>>} \cup ({"role"} \X AclRoles(r))
          \/ \E m \in belonged[r] : p = LowerCased(m)

FoundWasGranted ==
  [][\A r \in Reader : reader[r].step = "query" /\ reader'[r].step = "ready" =>
       \A d \in reader'[r].found : WasGranted(r, d)]_accessVars

(* Membership rows have their group, their department and their user, and  *)
(* ACL entries of users and groups have theirs, though departments come    *)
(* and go and logins write beside the administrator.                       *)
OrganisationIsConnected ==
  /\ \A m \in groupMembers : m[1] \in users /\ m[2] \in groups
  /\ \A m \in departmentMembers : m[1] \in users /\ m[2] \in departments
  /\ \A d \in AccessDocument : \A p \in access[d].entries :
       p[1] # "department" => PrincipalExists(p)
=============================================================================
