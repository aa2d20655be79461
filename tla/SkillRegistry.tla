--------------------------- MODULE SkillRegistry ---------------------------
(***************************************************************************)
(* The skills of a process: SkillRegistry (skills/registry.py) and         *)
(* SkillService over it (skills/manager.py).  A skill is a Python package  *)
(* in one of three directories that registers itself when it is imported;  *)
(* packages are imported when a request or a command asks for the skills.  *)
(*                                                                         *)
(* A package is abstracted to the skill it registers, the version of its   *)
(* text, and where its module raises, if it does.                          *)
(***************************************************************************)
EXTENDS Naturals, Sequences, SequencesExt

CONSTANTS
  Packages,  \* in the order of discovery: built-in, shared, agent-local, by name
  SkillOf,   \* SkillOf[p]: the skill that package p registers
  MaxEdits   \* bound: changes of the directories

ASSUME SkillAssumption ==
  /\ Packages \in Seq(STRING) /\ IsInjective(Packages)
  /\ DOMAIN SkillOf = Range(Packages)
  /\ MaxEdits \in Nat

VARIABLES
  disk,        \* disk[p]: the package's files
  edits,       \* changes of the directories so far
  discovered,  \* SkillRegistry._discovered
  skills       \* SkillRegistry._skills

skillVars == <<disk, edits, discovered, skills>>
-----------------------------------------------------------------------------
PackageSet == Range(Packages)

SkillNames == {SkillOf[p] : p \in PackageSet}

\* raises: before the package registers its skill, behind that, or nowhere.
Files == [there : BOOLEAN, version : 0 .. MaxEdits, raises : {"no", "before", "after"}]

Unknown == [package |-> "none", version |-> 0]

SkillsInit ==
  /\ disk \in [PackageSet -> {f \in Files : f.version = 0 /\ f.raises = "no"}]
  /\ edits = 0
  /\ discovered = {}
  /\ skills = [s \in SkillNames |-> Unknown]

\* The user adds, changes, breaks or removes a package.
EditPackage(p) ==
  /\ edits < MaxEdits
  /\ edits' = edits + 1
  /\ \E there \in BOOLEAN, raises \in {"no", "before", "after"} :
       disk' = [disk EXCEPT ![p] = [there |-> there, version |-> edits + 1, raises |-> raises]]
  /\ UNCHANGED <<discovered, skills>>

\* Faulty: a package is imported again every time.
ImportAgain(registry, p) ==
  IF ~disk[p].there \/ disk[p].raises = "before" THEN registry
  ELSE [discovered |-> registry.discovered \cup {p},
        skills |-> [registry.skills EXCEPT
                      ![SkillOf[p]] = [package |-> p, version |-> disk[p].version]]]

\* One round of discover: a package that raises is imported again the next time.
Import(registry, p) ==
  IF ~disk[p].there \/ p \in registry.discovered \/ disk[p].raises = "before" THEN registry
  ELSE [discovered |-> IF disk[p].raises = "after" THEN registry.discovered
                       ELSE registry.discovered \cup {p},
        skills |-> [registry.skills EXCEPT
                      ![SkillOf[p]] = [package |-> p, version |-> disk[p].version]]]

\* SkillService._discover_all.
Discovered == FoldLeft(Import, [discovered |-> discovered, skills |-> skills], Packages)

Discover ==
  /\ discovered' = Discovered.discovered
  /\ skills' = Discovered.skills
  /\ UNCHANGED <<disk, edits>>

\* /skills disable and POST /skills/{name}/disable.
DisableSkill(s) ==
  /\ skills' = [skills EXCEPT ![s] = Unknown]
  /\ UNCHANGED <<disk, edits, discovered>>

\* A skill that is not registered appears only by the import of a package of that
\* name for the first time, or of one that raised at every import so far: a disabled
\* skill stays disabled, whatever runs, lists and enable commands follow.
DisabledStaysDisabled ==
  [][\A s \in SkillNames : skills[s] = Unknown /\ skills'[s] # Unknown =>
       LET p == skills'[s].package
       IN  SkillOf[p] = s /\ p \notin discovered /\ disk[p].there]_skillVars
=============================================================================
