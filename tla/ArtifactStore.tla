---------------------------- MODULE ArtifactStore ----------------------------
(***************************************************************************)
(* The artifact service: src/backend/artifacts.py gives each office file   *)
(* an administrator asks for a name that is free, renders it into a        *)
(* temporary file and moves that to the name.  Requests run in threads of  *)
(* their own, without a lock: another may take the name in between.        *)
(*                                                                         *)
(* A name is the sequence of its parts, the numbers appended to it         *)
(* included, since a caller may ask for a numbered name as well.           *)
(***************************************************************************)
EXTENDS Naturals, Sequences

CONSTANTS ArtifactRequest,  \* calls of the endpoint, each made once
          ArtifactName,     \* names they may ask for
          MaxNumber         \* the last number tried (9999 in the code)

ASSUME ArtifactAssumption == ArtifactName \subseteq Seq(Nat) /\ MaxNumber \in Nat \ {0}

VARIABLES artifacts,    \* artifacts[path]: the request whose content is there
          temporaries,  \* requests whose temporary file exists
          creation,     \* creation[r]: the locals of request r
          answeredFirst \* answeredFirst[r]: requests that had been answered when
                        \* r began (no code reads it)

artifactVars == <<artifacts, temporaries, creation, answeredFirst>>

CreationStep == {"idle", "probe", "open", "replace", "created", "failed", "lost"}

ArtifactTypeOK ==
  /\ \A path \in DOMAIN artifacts : artifacts[path] \in ArtifactRequest
  /\ temporaries \subseteq ArtifactRequest
  /\ \A r \in ArtifactRequest : /\ creation[r].step \in CreationStep
                                /\ creation[r].name \in ArtifactName \cup {<<>>}
                                /\ creation[r].number \in 1..MaxNumber
                                /\ answeredFirst[r] \subseteq ArtifactRequest

ArtifactInit ==
  /\ artifacts = [path \in {} |-> 0]
  /\ temporaries = {}
  /\ creation = [r \in ArtifactRequest |-> [step |-> "idle", name |-> <<>>, number |-> 1]]
  /\ answeredFirst = [r \in ArtifactRequest |-> {}]

-----------------------------------------------------------------------------
Created == {r \in ArtifactRequest : creation[r].step = "created"}

CreationGoes(r, step) == creation' = [creation EXCEPT ![r].step = step]

BeginArtifact(r, name) ==
  /\ creation[r].step = "idle"
  /\ creation' = [creation EXCEPT ![r] = [step |-> "probe", name |-> name, number |-> 1]]
  /\ answeredFirst' = [answeredFirst EXCEPT ![r] = Created]
  /\ UNCHANGED <<artifacts, temporaries>>

NumberedPath(name, number) == IF number = 1 THEN name ELSE Append(name, number)
PathOf(r) == NumberedPath(creation[r].name, creation[r].number)

(* An operator X_Y before an operator X is X with a plausible mistake in   *)
(* it; no action uses it.                                                  *)
Taken_Never(path) == FALSE

Taken(path) == path \in DOMAIN artifacts

(* _unique_path looks at one name after the other.                         *)
ProbePath(r) ==
  /\ creation[r].step = "probe"
  /\ \/ ~Taken(PathOf(r)) /\ CreationGoes(r, "open")
     \/ /\ Taken(PathOf(r))
        /\ creation[r].number < MaxNumber
        /\ creation' = [creation EXCEPT ![r].number = @ + 1]
     \/ /\ Taken(PathOf(r))
        /\ creation[r].number = MaxNumber
        /\ CreationGoes(r, "failed")
  /\ UNCHANGED <<artifacts, temporaries, answeredFirst>>

(* The temporary file, in the same directory, is made and rendered into.   *)
OpenTemporary(r) ==
  /\ creation[r].step = "open"
  /\ \/ temporaries' = temporaries \cup {r} /\ CreationGoes(r, "replace")
     \/ CreationGoes(r, "failed") /\ UNCHANGED temporaries
  /\ UNCHANGED <<artifacts, answeredFirst>>

(* os.replace writes over a file that is there.                            *)
ReplaceTarget(r) ==
  /\ creation[r].step = "replace"
  /\ artifacts' = [path \in DOMAIN artifacts \cup {PathOf(r)} |->
                     IF path = PathOf(r) THEN r ELSE artifacts[path]]
  /\ temporaries' = temporaries \ {r}
  /\ CreationGoes(r, "created")
  /\ UNCHANGED answeredFirst

(* Rendering or moving fails; deleting the temporary file may fail too.    *)
RenderFails(r) ==
  /\ creation[r].step = "replace"
  /\ temporaries' \in {temporaries, temporaries \ {r}}
  /\ CreationGoes(r, "failed")
  /\ UNCHANGED <<artifacts, answeredFirst>>

(* The process dies and leaves what it had written.                        *)
LoseCreation(r) ==
  /\ creation[r].step \in {"probe", "open", "replace"}
  /\ CreationGoes(r, "lost")
  /\ UNCHANGED <<artifacts, temporaries, answeredFirst>>

ArtifactNext ==
  \E r \in ArtifactRequest : \/ \E name \in ArtifactName : BeginArtifact(r, name)
                             \/ ProbePath(r)
                             \/ OpenTemporary(r)
                             \/ ReplaceTarget(r)
                             \/ RenderFails(r)
                             \/ LoseCreation(r)

ArtifactSpec == ArtifactInit /\ [][ArtifactNext]_artifactVars

-----------------------------------------------------------------------------
(* Properties.                                                             *)

(* What a request was told it had created is still there, unless another   *)
(* one that began before that answer took the same name: a request never   *)
(* writes over an artifact that was reported before it began, whatever     *)
(* requests for plain and numbered names fail, die or overlap meanwhile    *)
(* (ArtifactService.create and _unique_path).                              *)
ArtifactsAreKept ==
  \A r \in Created :
    /\ PathOf(r) \in DOMAIN artifacts
    /\ r \notin answeredFirst[artifacts[PathOf(r)]]
=============================================================================
