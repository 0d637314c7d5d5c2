------------------------------- MODULE Input -------------------------------
(***************************************************************************)
(* What a client may write: applyInput of server/scene.go with the checks  *)
(* it makes (CanWrite and matchPathPattern of server/auth.go,              *)
(* acceptsInputPath and checkConstraint of server/scene.go).  How the      *)
(* accepted patches are published is Scene's business, and so is what      *)
(* adapters write, which nothing checks.                                   *)
(*                                                                         *)
(* A path is the sequence of its segments, so HasPrefix is the prefix order*)
(* on sequences.  A JSON value is its type and one number: the length of a *)
(* string (which also tells strings apart in an enum), or the number; an   *)
(* absent value has the type "missing" and is not valid JSON.  A number    *)
(* spec without Min or Max has the least or greatest number there.  A claim*)
(* of a service token is the segments of its pattern and what follows them:*)
(* nothing, ".*", or a "*" attached to the last segment.  (No segment of a *)
(* path contains a star: LeafPath.)                                        *)
(***************************************************************************)
EXTENDS Integers, Sequences

CONSTANTS
  Paths,        \* the leaf paths in use
  Values,       \* the JSON values in use
  Identities,   \* the principals Authenticate returns
  SpecSets,     \* the declarations a scene may be created with
  Frames,       \* the Input frames clients send: sequences of patches
  MaxInputs,    \* bound on the Inputs handled
  Unset         \* a path with no value yet

ASSUME PathsAssumption == Paths \subseteq Seq(STRING)
ASSUME FramesAssumption == Frames \subseteq Seq([path : Paths, value : Values])
ASSUME ValuesAssumption == \A v \in Values : v.n \in Int
ASSUME SpecsAssumption ==
  \A d \in SpecSets :
    /\ DOMAIN d \subseteq Paths
    /\ \A p \in DOMAIN d : d[p].maxLength \in Int /\ d[p].min \in Int /\ d[p].max \in Int
ASSUME IdentitiesAssumption ==
  \A id \in Identities : \A c \in id.paths : c.segments \in Seq(STRING)
ASSUME UnsetAssumption == Unset \notin Values
ASSUME MaxInputsAssumption == MaxInputs \in Nat

VARIABLES
  declared,   \* Scene.declaredInputs
  store,      \* the leaves clients have written
  last,       \* the last Input: who sent what, and the answer
  inputs      \* Inputs handled so far

vars == <<declared, store, last, inputs>>

Nobody == [role |-> "", paths |-> {}]
Accepted == [code |-> "", path |-> <<>>]

\* The shape of the state; the codes applyInput answers.
TypeOK ==
  /\ declared \in SpecSets
  /\ store \in [Paths -> Values \cup {Unset}]
  /\ last \in [id : Identities \cup {Nobody}, frame : Frames \cup {<<>>},
               answer : [code : {"", "WRITE_FORBIDDEN", "UNKNOWN_PATH", "INVALID_VALUE"},
                         path : Paths \cup {<<>>}]]
  /\ inputs \in 0 .. MaxInputs

Init ==
  /\ declared \in SpecSets
  /\ store = [p \in Paths |-> Unset]
  /\ last = [id |-> Nobody, frame |-> <<>>, answer |-> Accepted]
  /\ inputs = 0

-----------------------------------------------------------------------------
(* The checks. *)

\* LeafPath.HasPrefix: segment-aware.
HasPrefix(p, q) == Len(q) <= Len(p) /\ SubSeq(p, 1, Len(q)) = q

\* matchPathPattern.  A star that is not a segment of its own stays in the
\* string that is compared, and no path starts with it.
matchPathPattern(c, p) ==
  /\ c.segments # <<>>
  /\ c.tail \in {"", ".*"}
  /\ HasPrefix(p, c.segments)

\* Mutant: a service token without claims for the path is let through.
CanWrite_IgnoresClaims(id, p) ==
  \/ id.role \in {"operator", "service"} /\ HasPrefix(p, <<"__inputs">>)
  \/ id.role = "test" /\ HasPrefix(p, <<"__test">>)

\* Identity.CanWrite.
CanWrite(id, p) ==
  \/ /\ id.role = "operator"
     /\ HasPrefix(p, <<"__inputs">>)
  \/ /\ id.role = "service"
     /\ HasPrefix(p, <<"__inputs">>)
     /\ id.paths = {} \/ \E c \in id.paths : matchPathPattern(c, p)
  \/ /\ id.role = "test"
     /\ HasPrefix(p, <<"__test">>)

\* acceptsInputPath.
acceptsInputPath(role, p) ==
  \/ /\ HasPrefix(p, <<"__inputs">>)
     /\ DOMAIN declared = {} \/ p \in DOMAIN declared
  \/ /\ ~ HasPrefix(p, <<"__inputs">>)
     /\ HasPrefix(p, <<"__test">>)
     /\ role = "test"

\* checkConstraint.  Types other than these four are declared but not checked.
checkConstraint(p, v) ==
  p \in DOMAIN declared =>
    LET spec == declared[p]
    IN  /\ spec.type = "string" =>
             v.type = "string" /\ (spec.maxLength > 0 => v.n <= spec.maxLength)
        /\ spec.type = "number" => v.type = "number" /\ spec.min <= v.n /\ v.n <= spec.max
        /\ spec.type = "boolean" => v.type = "boolean"
        /\ spec.type = "enum" => v.type = "string" /\ v.n \in spec.values

\* The first check that patch x of id fails.
Fault(id, x) ==
  IF ~ CanWrite(id, x.path) THEN "WRITE_FORBIDDEN"
  ELSE IF ~ acceptsInputPath(id.role, x.path) THEN "UNKNOWN_PATH"
  ELSE IF x.value.type = "missing" \/ ~ checkConstraint(x.path, x.value) THEN "INVALID_VALUE"
  ELSE ""

\* Mutant: a path that occurs twice is checked only the first time.
Verdict_FirstOnly(id, f) ==
  LET faulty == {i \in 1 .. Len(f) :
                   Fault(id, f[i]) # "" /\ \A j \in 1 .. i - 1 : f[j].path # f[i].path}
  IN  IF f = <<>> THEN [code |-> "INVALID_VALUE", path |-> <<>>]
      ELSE IF faulty = {} THEN Accepted
      ELSE LET i == CHOOSE i \in faulty : \A j \in faulty : i <= j
           IN  [code |-> Fault(id, f[i]), path |-> f[i].path]

\* The answer to a frame: that of its first faulty patch.
Verdict(id, f) ==
  LET faulty == {i \in 1 .. Len(f) : Fault(id, f[i]) # ""}
  IN  IF f = <<>> THEN [code |-> "INVALID_VALUE", path |-> <<>>]
      ELSE IF faulty = {} THEN Accepted
      ELSE LET i == CHOOSE i \in faulty : \A j \in faulty : i <= j
           IN  [code |-> Fault(id, f[i]), path |-> f[i].path]

-----------------------------------------------------------------------------

Touched(f) == {f[i].path : i \in 1 .. Len(f)}

\* What a frame leaves at path p: applyInput builds a map, the last value wins.
LastValue(f, p) ==
  LET i == CHOOSE i \in 1 .. Len(f) :
             f[i].path = p /\ \A j \in i + 1 .. Len(f) : f[j].path # p
  IN  f[i].value

\* Mutant: patches are applied as they pass, up to the first faulty one.
applyInput_AsItGoes(id, f) ==
  LET passed == {i \in 1 .. Len(f) : \A j \in 1 .. i : Fault(id, f[j]) = ""}
      done == {f[i].path : i \in passed}
  IN  /\ store' = [p \in Paths |-> IF p \in done THEN LastValue(f, p) ELSE store[p]]
      /\ last' = [id |-> id, frame |-> f, answer |-> Verdict(id, f)]
      /\ UNCHANGED declared

\* applyInput: every patch is checked before any is applied.
applyInput(id, f) ==
  LET answer == Verdict(id, f)
      done == IF answer = Accepted THEN Touched(f) ELSE {}
  IN  /\ store' = [p \in Paths |-> IF p \in done THEN LastValue(f, p) ELSE store[p]]
      /\ last' = [id |-> id, frame |-> f, answer |-> answer]
      /\ UNCHANGED declared

Next ==
  /\ inputs < MaxInputs
  /\ inputs' = inputs + 1
  /\ \E id \in Identities : \E f \in Frames : applyInput(id, f)

Spec == Init /\ [][Next]_vars

-----------------------------------------------------------------------------
(* Properties. *)

\* The values a declaration allows, as a set.
Domain(spec) ==
  CASE spec.type = "string" ->
         {v \in Values : v.type = "string" /\ v.n <= (IF spec.maxLength <= 0 THEN v.n ELSE spec.maxLength)}
    [] spec.type = "number" -> {v \in Values : v.type = "number" /\ v.n \in spec.min .. spec.max}
    [] spec.type = "boolean" -> {v \in Values : v.type = "boolean"}
    [] spec.type = "enum" -> {v \in Values : v.type = "string" /\ v.n \in spec.values}
    [] OTHER -> {v \in Values : v.type # "missing"}

\* Whatever clients send, in whatever order, a leaf they wrote is one a client
\* may write - declared, if the scene declares inputs, or of the test
\* namespace - and holds a value its declaration allows, also when a frame
\* names a path twice.
StoreWithinSpec ==
  \A p \in Paths : store[p] # Unset =>
    \/ p[1] = "__test" /\ store[p].type # "missing"
    \/ p[1] = "__inputs" /\ DOMAIN declared = {} /\ store[p].type # "missing"
    \/ p[1] = "__inputs" /\ p \in DOMAIN declared /\ store[p] \in Domain(declared[p])

\* Inputs are atomic: "if any patch is invalid, the server MUST reject the
\* entire frame and apply nothing"; an accepted one is applied whole.
AllOrNothing ==
  [][IF last'.answer = Accepted
       THEN \A p \in Paths :
              store'[p] = IF p \in Touched(last'.frame) THEN LastValue(last'.frame, p) ELSE store[p]
       ELSE store' = store]_vars

\* The paths a claim is about.
Claimed(c) == {p \in Paths : \E k \in 1 .. Len(p) : SubSeq(p, 1, k) = c.segments}

\* An accepted Input stays within its sender's reach: viewers write nothing,
\* test sessions only the test namespace, and a service token with claims only
\* the paths they name.
WithinReach ==
  last.answer = Accepted /\ last.frame # <<>> =>
    /\ last.id.role \in {"operator", "service", "test"}
    /\ \A p \in Touched(last.frame) :
         /\ p[1] = IF last.id.role = "test" THEN "__test" ELSE "__inputs"
         /\ last.id.role = "service" /\ last.id.paths # {} =>
              \E c \in last.id.paths : p \in Claimed(c)

-----------------------------------------------------------------------------
(* Two sentences of the code's comments that the model refutes (README). *)

\* A claim whose pattern ends in a star reaches what is below it: "`*` and `.*`
\* suffixes match anything below".  It does not when no dot precedes the star.
StarReachesBelow ==
  last.answer.code = "WRITE_FORBIDDEN" /\ last.id.role = "service" =>
    \A c \in last.id.paths : c.tail = "*" => last.answer.path \notin Claimed(c)

\* "path REQUIRED on the WRITE_FORBIDDEN, UNKNOWN_PATH and INVALID_VALUE error
\* frames".  An Input without patches is refused without one.
PathOnError ==
  last.answer.code \in {"WRITE_FORBIDDEN", "UNKNOWN_PATH", "INVALID_VALUE"} =>
    last.answer.path # <<>>
=============================================================================
