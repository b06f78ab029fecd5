---------------------------- MODULE ProjectScope ----------------------------
(***************************************************************************)
(* Which project a directory belongs to: internal/store/project.go.        *)
(*                                                                         *)
(* A directory is the sequence of the names on its path; Real is what      *)
(* symbolic links make of it.  A project is a row of projects; its path is *)
(* a set of at most one directory.  A marker is the name in a directory's  *)
(* .acline-project file, or NoName.                                        *)
(***************************************************************************)
EXTENDS Integers, Sequences

Paths == INSTANCE SequencesExt

CONSTANTS
  Dirs,    \* the directories there are, each with its ancestors
  Real,    \* canonicalPath: no link is left on the way to it
  Home     \* the home directory

ASSUME ProjectScopeAssumption ==
  /\ Dirs \subseteq Seq(STRING)
  /\ \A d \in Dirs : Paths!Prefixes(d) \subseteq Dirs
  /\ Real \in [Dirs -> Dirs]
  /\ \A d \in Dirs : \A a \in Paths!Prefixes(Real[d]) : Real[a] = a
  /\ Home \in Dirs

NoName == ""
NoProject == 0

PathInside(child, parent) == Paths!IsPrefix(Real[parent], Real[child])

ProjectPathTooBroad(path) == Real[path] = <<>> \/ PathInside(Home, path)

\* d and the directories above it.
Upward(d) == Paths!Prefixes(d)

\* The deepest of the directories on the way from d to the root that are in S.
Nearest(d, S) ==
  LET on == Upward(d) \intersect S
  IN  {a \in on : \A b \in on : Len(b) <= Len(a)}

\* findMarker: the nearest marker that says anything, none or one.
FindMarker(markers, d) ==
  {[name |-> markers[a], in |-> a] : a \in Nearest(d, {x \in Dirs : markers[x] # NoName})}

\* GetProjectByName; names are unique.
ProjectNamed(projects, name) ==
  IF \E i \in DOMAIN projects : projects[i].name = name
  THEN CHOOSE i \in DOMAIN projects : projects[i].name = name ELSE NoProject

\* Mutant: a marker is believed wherever it lies.
Trusted_Anywhere(project, in) == TRUE

\* Whether a marker that lies in a directory may speak for a project.
Trusted(project, in) == \A path \in project.path : PathInside(in, path)

\* The project the nearest marker names, if it is there and the marker trusted.
MarkedProject(projects, found) ==
  LET ids == {ProjectNamed(projects, m.name) : m \in found} \ {NoProject}
      ok  == {i \in ids : \A m \in found : Trusted(projects[i], m.in)}
  IN  IF ok = {} THEN NoProject ELSE CHOOSE i \in ok : TRUE

\* The projects registered at a directory, literally or for real.
ProjectsAt(projects, d) ==
  {i \in DOMAIN projects : \E path \in projects[i].path : path = d \/ Real[path] = d}

\* Up from d, the first project of the nearest directory that has one.
ProjectAbove(projects, d) ==
  LET at == UNION {ProjectsAt(projects, a) :
                     a \in Nearest(d, {x \in Dirs : ProjectsAt(projects, x) # {}})}
  IN  IF at = {} THEN NoProject ELSE CHOOSE i \in at : \A j \in at : i <= j

\* Mutant: links are not resolved.
ListedProject_Literal(projects, d) == ProjectAbove(projects, d)

\* The literal path first, then the real one.
ListedProject(projects, d) ==
  IF ProjectAbove(projects, d) # NoProject THEN ProjectAbove(projects, d)
  ELSE ProjectAbove(projects, Real[d])

\* ResolveProjectForPath, at one moment.
ResolvedProject(projects, markers, d) ==
  LET marked == MarkedProject(projects, FindMarker(markers, d))
  IN  IF marked # NoProject THEN marked ELSE ListedProject(projects, d)

=============================================================================
