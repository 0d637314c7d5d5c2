---------------------------- MODULE InputProofs ----------------------------
(***************************************************************************)
(* Proofs about Input, for every set of paths, values, principals, frames  *)
(* and declarations: what clients may write, and that an Input is applied  *)
(* whole or not at all.                                                    *)
(***************************************************************************)
EXTENDS Input, WellFoundedInduction, TLAPS

-----------------------------------------------------------------------------
(* The positions the checks and the map of applyInput pick. *)

\* A non-empty set of positions has a first one: the patch a rejection names.
LEMMA FirstPosition ==
  ASSUME NEW T \in SUBSET Nat, T # {}
  PROVE  \E x \in T : \A y \in T : x <= y
  <1>1. PICK x \in T : \A y \in T : ~ (<<y, x>> \in OpToRel(<, Nat))
    BY WFMin, NatLessThanWellFounded
  <1>2. \A y \in T : ~ (y < x)
    BY <1>1 DEF OpToRel
  <1> QED
    BY <1>2

\* ... and, if it is bounded, a last one: the value of a path named twice.
LEMMA LastPosition ==
  ASSUME NEW n \in Nat, NEW T \in SUBSET (1 .. n), T # {}
  PROVE  \E x \in T : \A y \in T : y <= x
  <1> DEFINE U == {k \in 0 .. n : n - k \in T}
  <1>1. PICK t : t \in T
    OBVIOUS
  <1>2. n - t \in U
    BY <1>1
  <1>3. PICK k \in U : \A j \in U : k <= j
    <2>1. U \in SUBSET Nat /\ U # {}
      BY <1>2
    <2> QED
      BY <2>1, FirstPosition
  <1>4. n - k \in T
    BY <1>3
  <1>5. \A y \in T : y <= n - k
    <2> SUFFICES ASSUME NEW y \in T PROVE y <= n - k
      OBVIOUS
    <2>1. n - y \in U
      OBVIOUS
    <2>2. k <= n - y
      BY <1>3, <2>1
    <2> QED
      BY <1>3, <2>2
  <1> QED
    BY <1>4, <1>5

\* A frame is a sequence of patches.
LEMMA FrameType ==
  ASSUME NEW f \in Frames
  PROVE  /\ Len(f) \in Nat
         /\ \A i \in 1 .. Len(f) : f[i].path \in Paths /\ f[i].value \in Values
  <1> DEFINE Patch == [path : Paths, value : Values]
  <1>1. f \in Seq(Patch)
    BY FramesAssumption
  <1>2. \A x \in Patch : x.path \in Paths /\ x.value \in Values
    OBVIOUS
  <1> HIDE DEF Patch
  <1>3. Len(f) \in Nat /\ \A i \in 1 .. Len(f) : f[i] \in Patch
    BY <1>1
  <1> QED
    BY <1>2, <1>3

\* The value a frame leaves at a path it names is that of a patch for the path.
LEMMA LastValueOfPatch ==
  ASSUME NEW f \in Frames, NEW p \in Touched(f)
  PROVE  \E i \in 1 .. Len(f) : f[i].path = p /\ LastValue(f, p) = f[i].value
  <1> DEFINE T == {i \in 1 .. Len(f) : f[i].path = p}
             Last(i) == f[i].path = p /\ \A j \in i + 1 .. Len(f) : f[j].path # p
  <1>1. Len(f) \in Nat
    BY FrameType
  <1>2. T # {}
    BY DEF Touched
  <1>3. PICK x \in T : \A y \in T : y <= x
    BY <1>1, <1>2, LastPosition
  <1>4. \E i \in 1 .. Len(f) : Last(i)
    BY <1>1, <1>3
  <1>5. Last(CHOOSE i \in 1 .. Len(f) : Last(i)) /\ (CHOOSE i \in 1 .. Len(f) : Last(i)) \in 1 .. Len(f)
    BY <1>4
  <1> QED
    BY <1>5 DEF LastValue

-----------------------------------------------------------------------------
(* The verdict on a frame. *)

\* Positions are numbers.
LEMMA PositionsAreNat ==
  ASSUME NEW n \in Nat
  PROVE  1 .. n \subseteq Nat
  OBVIOUS

\* The shape of an answer.
LEMMA AnswerType ==
  ASSUME NEW C, NEW P, NEW c \in C, NEW p \in P
  PROVE  [code |-> c, path |-> p] \in [code : C, path : P]
  OBVIOUS

\* A rejection names the first faulty patch.
LEMMA FirstFault ==
  ASSUME NEW id, NEW f \in Frames, f # <<>>,
         \E i \in 1 .. Len(f) : Fault(id, f[i]) # ""
  PROVE  \E i \in 1 .. Len(f) :
           /\ Fault(id, f[i]) # ""
           /\ Verdict(id, f) = [code |-> Fault(id, f[i]), path |-> f[i].path]
  <1> DEFINE faulty == {i \in 1 .. Len(f) : Fault(id, f[i]) # ""}
             first == CHOOSE i \in faulty : \A j \in faulty : i <= j
  <1>1. faulty # {} /\ faulty \subseteq 1 .. Len(f)
    BY Zenon
  <1>2. 1 .. Len(f) \subseteq Nat
    <2>1. Len(f) \in Nat
      BY FrameType, Zenon
    <2> QED
      BY <2>1, PositionsAreNat, Zenon
  <1>3. Verdict(id, f) = [code |-> Fault(id, f[first]), path |-> f[first].path]
    BY <1>1, Zenon DEF Verdict
  <1>4. \A i \in faulty : Fault(id, f[i]) # ""
    BY Zenon
  <1> HIDE DEF faulty
  <1>5. \E i \in faulty : \A j \in faulty : i <= j
    BY <1>1, <1>2, FirstPosition
  <1>6. first \in faulty
    BY <1>5, Zenon
  <1> QED
    BY <1>1, <1>3, <1>4, <1>6, Zenon

\* An accepted frame has patches, and no check finds fault with any of them.
LEMMA AcceptedHasNoFault ==
  ASSUME NEW id, NEW f \in Frames, Verdict(id, f) = Accepted
  PROVE  f # <<>> /\ \A i \in 1 .. Len(f) : Fault(id, f[i]) = ""
  <1>1. f # <<>>
    BY DEF Verdict, Accepted
  <1>2. CASE \E i \in 1 .. Len(f) : Fault(id, f[i]) # ""
    <2>1. PICK i \in 1 .. Len(f) :
            /\ Fault(id, f[i]) # ""
            /\ Verdict(id, f) = [code |-> Fault(id, f[i]), path |-> f[i].path]
      BY <1>1, <1>2, FirstFault
    <2>2. [code |-> Fault(id, f[i]), path |-> f[i].path] = [code |-> "", path |-> <<>>]
      BY <2>1, Zenon DEF Accepted
    <2>3. Fault(id, f[i]) = ""
      BY <2>2, Zenon
    <2> QED
      BY <2>1, <2>3
  <1> QED
    BY <1>1, <1>2

\* The answer to a frame has one of applyInput's codes and names a path of the
\* frame, or none.
LEMMA VerdictType ==
  ASSUME NEW id, NEW f \in Frames
  PROVE  Verdict(id, f) \in [code : {"", "WRITE_FORBIDDEN", "UNKNOWN_PATH", "INVALID_VALUE"},
                             path : Paths \cup {<<>>}]
  <1> DEFINE Codes == {"", "WRITE_FORBIDDEN", "UNKNOWN_PATH", "INVALID_VALUE"}
             Named == Paths \cup {<<>>}
  <1>1. "" \in Codes /\ "INVALID_VALUE" \in Codes /\ <<>> \in Named
    BY Zenon
  <1>2. \A p \in Paths : p \in Named
    BY Zenon
  <1>3. \A x : Fault(id, x) \in Codes
    BY Zenon DEF Fault
  <1> SUFFICES Verdict(id, f) \in [code : Codes, path : Named]
    BY Zenon
  <1> HIDE DEF Codes, Named
  <1>4. CASE f = <<>>
    BY <1>1, <1>4, AnswerType, Zenon DEF Verdict
  <1>5. CASE f # <<>> /\ ~ \E i \in 1 .. Len(f) : Fault(id, f[i]) # ""
    <2>1. {i \in 1 .. Len(f) : Fault(id, f[i]) # ""} = {}
      BY <1>5, Zenon
    <2>2. Verdict(id, f) = [code |-> "", path |-> <<>>]
      BY <1>5, <2>1, Zenon DEF Verdict, Accepted
    <2> QED
      BY <1>1, <2>2, AnswerType, Zenon
  <1>6. CASE f # <<>> /\ \E i \in 1 .. Len(f) : Fault(id, f[i]) # ""
    <2>1. PICK i \in 1 .. Len(f) :
            Verdict(id, f) = [code |-> Fault(id, f[i]), path |-> f[i].path]
      BY <1>6, FirstFault, Zenon
    <2>2. f[i].path \in Named
      BY <1>2, FrameType, Zenon
    <2> QED
      BY <1>3, <2>1, <2>2, AnswerType, Zenon
  <1> QED
    BY <1>4, <1>5, <1>6

\* A path below a one-segment prefix begins with that segment.
LEMMA PrefixHead ==
  ASSUME NEW p \in Paths, NEW w, HasPrefix(p, <<w>>)
  PROVE  p[1] = w
  <1>1. p \in Seq(STRING)
    BY PathsAssumption
  <1>2. Len(<<w>>) = 1
    OBVIOUS
  <1>3. SubSeq(p, 1, 1) = <<w>> /\ 1 <= Len(p)
    BY <1>2 DEF HasPrefix
  <1>4. SubSeq(p, 1, 1)[1] = p[1]
    BY <1>1, <1>3
  <1>5. <<w>>[1] = w
    OBVIOUS
  <1> QED
    BY <1>3, <1>4, <1>5, Zenon

-----------------------------------------------------------------------------
(* Type correctness. *)

\* A frame leaves a value of the client's at every path it names.
LEMMA LastValueType ==
  ASSUME NEW f \in Frames, NEW p \in Touched(f)
  PROVE  LastValue(f, p) \in Values
  BY LastValueOfPatch, FrameType, Zenon

\* The shape of the record of the last Input.
LEMMA LastType ==
  ASSUME NEW I, NEW F, NEW A, NEW i \in I, NEW f \in F, NEW a \in A
  PROVE  [id |-> i, frame |-> f, answer |-> a] \in [id : I, frame : F, answer : A]
  OBVIOUS

\* applyInput keeps the shape of the state.
LEMMA ApplyTypeOK ==
  ASSUME TypeOK, NEW id \in Identities, NEW f \in Frames, applyInput(id, f)
  PROVE  /\ declared' \in SpecSets
         /\ store' \in [Paths -> Values \cup {Unset}]
         /\ last' \in [id : Identities \cup {Nobody}, frame : Frames \cup {<<>>},
                      answer : [code : {"", "WRITE_FORBIDDEN", "UNKNOWN_PATH", "INVALID_VALUE"},
                                path : Paths \cup {<<>>}]]
  <1>1. declared' \in SpecSets
    BY DEF applyInput, TypeOK
  <1>2. store' \in [Paths -> Values \cup {Unset}]
    <2> DEFINE done == IF Verdict(id, f) = Accepted THEN Touched(f) ELSE {}
    <2>1. store' = [p \in Paths |-> IF p \in done THEN LastValue(f, p) ELSE store[p]]
      BY Zenon DEF applyInput
    <2>2. \A p \in done : p \in Touched(f)
      BY Zenon
    <2> HIDE DEF done
    <2>3. \A p \in Paths : p \in done => LastValue(f, p) \in Values
      BY <2>2, LastValueType, Zenon
    <2>4. \A p \in Paths : store[p] \in Values \cup {Unset}
      BY DEF TypeOK
    <2>5. \A p \in Paths : (IF p \in done THEN LastValue(f, p) ELSE store[p]) \in Values \cup {Unset}
      BY <2>3, <2>4, Zenon
    <2> QED
      BY <2>1, <2>5, Zenon
  <1>3. last' = [id |-> id, frame |-> f, answer |-> Verdict(id, f)]
    BY Zenon DEF applyInput
  <1>4. id \in Identities \cup {Nobody} /\ f \in Frames \cup {<<>>}
    BY Zenon
  <1>5. last' \in [id : Identities \cup {Nobody}, frame : Frames \cup {<<>>},
                  answer : [code : {"", "WRITE_FORBIDDEN", "UNKNOWN_PATH", "INVALID_VALUE"},
                            path : Paths \cup {<<>>}]]
    BY <1>3, <1>4, VerdictType, LastType, Zenon
  <1> QED
    BY <1>1, <1>2, <1>5, Zenon

\* The initial state is well typed.
LEMMA InitTypeOK == Init => TypeOK
  <1> SUFFICES ASSUME Init PROVE TypeOK
    OBVIOUS
  <1>1. store \in [Paths -> Values \cup {Unset}]
    BY DEF Init
  <1>2. Nobody \in Identities \cup {Nobody} /\ <<>> \in Frames \cup {<<>>}
        /\ <<>> \in Paths \cup {<<>>}
    BY Zenon
  <1>3. Accepted \in [code : {"", "WRITE_FORBIDDEN", "UNKNOWN_PATH", "INVALID_VALUE"},
                      path : Paths \cup {<<>>}]
    BY <1>2, ZenonT(30) DEF Accepted
  <1>4. last = [id |-> Nobody, frame |-> <<>>, answer |-> Accepted]
    BY DEF Init
  <1>5. last \in [id : Identities \cup {Nobody}, frame : Frames \cup {<<>>},
                 answer : [code : {"", "WRITE_FORBIDDEN", "UNKNOWN_PATH", "INVALID_VALUE"},
                           path : Paths \cup {<<>>}]]
    BY <1>2, <1>3, <1>4, LastType, Zenon
  <1>6. declared \in SpecSets /\ inputs \in 0 .. MaxInputs
    BY MaxInputsAssumption DEF Init
  <1> QED
    BY <1>1, <1>5, <1>6, Zenon DEF TypeOK

\* Every Input keeps the shape of the state.
LEMMA NextTypeOK == TypeOK /\ [Next]_vars => TypeOK'
  <1> SUFFICES ASSUME TypeOK, [Next]_vars PROVE TypeOK'
    OBVIOUS
  <1>1. CASE Next
    <2>1. PICK id \in Identities : \E f \in Frames : applyInput(id, f)
      BY <1>1 DEF Next
    <2>2. PICK f \in Frames : applyInput(id, f)
      BY <2>1
    <2>3. inputs' \in 0 .. MaxInputs
      <3>1. inputs < MaxInputs /\ inputs' = inputs + 1
        BY <1>1, Zenon DEF Next
      <3>2. inputs \in 0 .. MaxInputs
        BY Zenon DEF TypeOK
      <3> QED
        BY <3>1, <3>2, MaxInputsAssumption
    <2>4. /\ declared' \in SpecSets
          /\ store' \in [Paths -> Values \cup {Unset}]
          /\ last' \in [id : Identities \cup {Nobody}, frame : Frames \cup {<<>>},
                       answer : [code : {"", "WRITE_FORBIDDEN", "UNKNOWN_PATH", "INVALID_VALUE"},
                                 path : Paths \cup {<<>>}]]
      BY <2>2, ApplyTypeOK, Zenon
    <2> QED
      BY <2>3, <2>4, Zenon DEF TypeOK
  <1>2. CASE UNCHANGED vars
    BY <1>2 DEF vars, TypeOK
  <1> QED
    BY <1>1, <1>2

\* The state of Input has its declared shape in every reachable state, for every
\* set of paths, values, principals, declarations and frames.
THEOREM InputTypeCorrect == Spec => []TypeOK
  <1> QED
    BY InitTypeOK, NextTypeOK, PTL DEF Spec

-----------------------------------------------------------------------------
(* What clients write. *)

\* Value v is one a client may leave at path p (StoreWithinSpec, of one leaf).
Allowed(p, v) ==
  \/ p[1] = "__test" /\ v.type # "missing"
  \/ p[1] = "__inputs" /\ DOMAIN declared = {} /\ v.type # "missing"
  \/ p[1] = "__inputs" /\ p \in DOMAIN declared /\ v \in Domain(declared[p])

\* What checkConstraint demands of a value is that it lies in the domain.
LEMMA ConstraintIsDomain ==
  ASSUME NEW spec, NEW v \in Values, v.n \in Int, v.type # "missing",
         spec.maxLength \in Int, spec.min \in Int, spec.max \in Int,
         spec.type = "string" =>
           v.type = "string" /\ (spec.maxLength > 0 => v.n <= spec.maxLength),
         spec.type = "number" => v.type = "number" /\ spec.min <= v.n /\ v.n <= spec.max,
         spec.type = "boolean" => v.type = "boolean",
         spec.type = "enum" => v.type = "string" /\ v.n \in spec.values
  PROVE  v \in Domain(spec)
  <1>1. CASE spec.type = "string"
    <2>1. v.n <= (IF spec.maxLength <= 0 THEN v.n ELSE spec.maxLength)
      BY <1>1
    <2> QED
      BY <1>1, <2>1, Zenon DEF Domain
  <1>2. CASE spec.type = "number"
    <2>1. v.n \in spec.min .. spec.max
      BY <1>2
    <2>2. Domain(spec) = {u \in Values : u.type = "number" /\ u.n \in spec.min .. spec.max}
      BY <1>2 DEF Domain
    <2> QED
      BY <1>2, <2>1, <2>2
  <1>3. CASE spec.type = "boolean"
    <2>1. Domain(spec) = {u \in Values : u.type = "boolean"}
      BY <1>3 DEF Domain
    <2> QED
      BY <1>3, <2>1
  <1>4. CASE spec.type = "enum"
    <2>1. Domain(spec) = {u \in Values : u.type = "string" /\ u.n \in spec.values}
      BY <1>4 DEF Domain
    <2> QED
      BY <1>4, <2>1
  <1>5. CASE spec.type \notin {"string", "number", "boolean", "enum"}
    <2>1. Domain(spec) = {u \in Values : u.type # "missing"}
      BY <1>5 DEF Domain
    <2> QED
      BY <2>1
  <1> QED
    BY <1>1, <1>2, <1>3, <1>4, <1>5

\* A patch that passes the checks writes what a client may leave there:
\* checkConstraint is the membership in the declaration's domain.
LEMMA PassedIsAllowed ==
  ASSUME declared \in SpecSets,
         NEW id, NEW x, x.path \in Paths, x.value \in Values, Fault(id, x) = ""
  PROVE  Allowed(x.path, x.value)
  <1>1. acceptsInputPath(id.role, x.path) /\ checkConstraint(x.path, x.value)
        /\ x.value.type # "missing"
    BY Zenon DEF Fault
  <1>2. CASE HasPrefix(x.path, <<"__inputs">>)
    <2>1. x.path[1] = "__inputs"
      BY <1>2, PrefixHead, Zenon
    <2>2. DOMAIN declared = {} \/ x.path \in DOMAIN declared
      BY <1>1, <1>2, Zenon DEF acceptsInputPath
    <2>3. CASE DOMAIN declared = {}
      BY <1>1, <2>1, <2>3, Zenon DEF Allowed
    <2>4. CASE x.path \in DOMAIN declared
      <3>1. PICK p : p = x.path
        OBVIOUS
      <3>2. PICK v : v = x.value
        OBVIOUS
      <3>3. PICK spec : spec = declared[p]
        OBVIOUS
      <3>4. spec.maxLength \in Int /\ spec.min \in Int /\ spec.max \in Int
        BY <2>4, <3>1, <3>3, SpecsAssumption
      <3>5. v \in Values /\ v.n \in Int /\ v.type # "missing"
        BY <1>1, <3>2, ValuesAssumption
      <3>6. /\ spec.type = "string" =>
                 v.type = "string" /\ (spec.maxLength > 0 => v.n <= spec.maxLength)
            /\ spec.type = "number" => v.type = "number" /\ spec.min <= v.n /\ v.n <= spec.max
            /\ spec.type = "boolean" => v.type = "boolean"
            /\ spec.type = "enum" => v.type = "string" /\ v.n \in spec.values
        BY <1>1, <2>4, <3>1, <3>2, <3>3, Zenon DEF checkConstraint
      <3>7. v \in Domain(spec)
        BY <3>4, <3>5, <3>6, ConstraintIsDomain, Zenon
      <3> QED
        BY <2>1, <2>4, <3>1, <3>2, <3>3, <3>7, Zenon DEF Allowed
    <2> QED
      BY <2>2, <2>3, <2>4
  <1>3. CASE ~ HasPrefix(x.path, <<"__inputs">>)
    <2>1. HasPrefix(x.path, <<"__test">>)
      BY <1>1, <1>3, Zenon DEF acceptsInputPath
    <2>2. x.path[1] = "__test"
      BY <2>1, PrefixHead, Zenon
    <2> QED
      BY <1>1, <2>2, Zenon DEF Allowed
  <1> QED
    BY <1>2, <1>3

\* An Input leaves at every path what was there or what a client may leave.
LEMMA ApplyAllowed ==
  ASSUME TypeOK, NEW id \in Identities, NEW f \in Frames, applyInput(id, f),
         NEW p \in Paths, store'[p] # store[p]
  PROVE  Allowed(p, store'[p])
  <1>1. Verdict(id, f) = Accepted /\ p \in Touched(f) /\ store'[p] = LastValue(f, p)
    BY Zenon DEF applyInput
  <1>2. PICK i \in 1 .. Len(f) : f[i].path = p /\ LastValue(f, p) = f[i].value
    BY <1>1, LastValueOfPatch, Zenon
  <1>3. Fault(id, f[i]) = ""
    BY <1>1, AcceptedHasNoFault, Zenon
  <1>4. f[i].path \in Paths /\ f[i].value \in Values /\ declared \in SpecSets
    BY FrameType, Zenon DEF TypeOK
  <1>5. Allowed(f[i].path, f[i].value)
    BY <1>3, <1>4, PassedIsAllowed, Zenon
  <1> QED
    BY <1>1, <1>2, <1>5, Zenon

\* Whatever clients send, a leaf they wrote is one a client may write, and holds a
\* value its declaration allows (applyInput, acceptsInputPath, checkConstraint).
THEOREM StoreIsWithinSpec == Spec => []StoreWithinSpec
  <1>1. Init => StoreWithinSpec
    BY Zenon DEF Init, StoreWithinSpec
  <1>2. TypeOK /\ StoreWithinSpec /\ [Next]_vars => StoreWithinSpec'
    <2> SUFFICES ASSUME TypeOK, StoreWithinSpec, [Next]_vars,
                        NEW p \in Paths, store'[p] # Unset
                 PROVE  Allowed(p, store[p])'
      BY Zenon DEF StoreWithinSpec, Allowed
    <2>1. declared' = declared
      BY Zenon DEF Next, applyInput, vars
    <2>2. CASE store'[p] = store[p]
      BY <2>1, <2>2, Zenon DEF StoreWithinSpec, Allowed
    <2>3. CASE store'[p] # store[p]
      <3>1. Next
        BY <2>3, Zenon DEF vars
      <3>2. PICK id \in Identities : \E f \in Frames : applyInput(id, f)
        BY <3>1, Zenon DEF Next
      <3>3. PICK f \in Frames : applyInput(id, f)
        BY <3>2
      <3>4. Allowed(p, store'[p])
        BY <2>3, <3>3, ApplyAllowed, Zenon
      <3> QED
        BY <2>1, <3>4, Zenon DEF Allowed
    <2> QED
      BY <2>2, <2>3
  <1> QED
    BY <1>1, <1>2, InputTypeCorrect, PTL DEF Spec

-----------------------------------------------------------------------------
(* Who writes. *)

\* A claim that matches a path names it.
LEMMA MatchedIsClaimed ==
  ASSUME NEW p \in Paths, NEW c, c.segments \in Seq(STRING), matchPathPattern(c, p)
  PROVE  p \in Claimed(c)
  <1>1. c.segments # <<>> /\ HasPrefix(p, c.segments)
    BY DEF matchPathPattern
  <1>2. p \in Seq(STRING)
    BY PathsAssumption
  <1>3. Len(c.segments) \in 1 .. Len(p)
    BY <1>1, <1>2 DEF HasPrefix
  <1>4. SubSeq(p, 1, Len(c.segments)) = c.segments
    BY <1>1 DEF HasPrefix
  <1> QED
    BY <1>3, <1>4, Zenon DEF Claimed

\* What one patch must satisfy for its sender to reach it (WithinReach).
Reaches(id, p) ==
  /\ id.role \in {"operator", "service", "test"}
  /\ p[1] = IF id.role = "test" THEN "__test" ELSE "__inputs"
  /\ id.role = "service" /\ id.paths # {} => \E c \in id.paths : p \in Claimed(c)

\* CanWrite lets a principal write only what it reaches.
LEMMA CanWriteReaches ==
  ASSUME NEW id \in Identities, NEW p \in Paths, CanWrite(id, p)
  PROVE  Reaches(id, p)
  <1>1. CASE id.role = "operator" /\ HasPrefix(p, <<"__inputs">>)
    BY <1>1, PrefixHead, Zenon DEF Reaches
  <1>2. CASE /\ id.role = "service"
             /\ HasPrefix(p, <<"__inputs">>)
             /\ id.paths = {} \/ \E c \in id.paths : matchPathPattern(c, p)
    <2>1. id.paths # {} => \E c \in id.paths : p \in Claimed(c)
      BY <1>2, MatchedIsClaimed, IdentitiesAssumption, Zenon
    <2> QED
      BY <1>2, <2>1, PrefixHead, Zenon DEF Reaches
  <1>3. CASE id.role = "test" /\ HasPrefix(p, <<"__test">>)
    BY <1>3, PrefixHead, Zenon DEF Reaches
  <1> QED
    BY <1>1, <1>2, <1>3, Zenon DEF CanWrite

\* An accepted Input stays within its sender's reach: viewers write nothing, test
\* sessions only the test namespace, a service token with claims only the paths
\* they name (Identity.CanWrite, matchPathPattern).
THEOREM InputWithinReach == Spec => []WithinReach
  <1>1. Init => WithinReach
    <2>1. Init => last.frame = <<>>
      BY DEF Init
    <2> QED
      BY <2>1, Zenon DEF WithinReach
  <1>2. WithinReach /\ [Next]_vars => WithinReach'
    <2> SUFFICES ASSUME WithinReach, [Next]_vars PROVE WithinReach'
      OBVIOUS
    <2>1. CASE UNCHANGED vars
      BY <2>1, Zenon DEF vars, WithinReach, Touched, Claimed
    <2>2. CASE Next
      <3>1. PICK id \in Identities : \E f \in Frames : applyInput(id, f)
        BY <2>2, Zenon DEF Next
      <3>2. PICK f \in Frames : applyInput(id, f)
        BY <3>1
      <3>3. last'.id = id /\ last'.frame = f /\ last'.answer = Verdict(id, f)
        BY <3>2 DEF applyInput
      <3>4. ASSUME Verdict(id, f) = Accepted
            PROVE  f # <<>> /\ \A p \in Touched(f) : Reaches(id, p)
        <4>1. f # <<>> /\ \A i \in 1 .. Len(f) : Fault(id, f[i]) = ""
          BY <3>4, AcceptedHasNoFault, Zenon
        <4>2. \A i \in 1 .. Len(f) : CanWrite(id, f[i].path) /\ f[i].path \in Paths
          BY <4>1, FrameType, Zenon DEF Fault
        <4> QED
          BY <4>1, <4>2, CanWriteReaches, Zenon DEF Touched
      <3>5. Verdict(id, f) = Accepted => \E p : p \in Touched(f)
        <4>1. SUFFICES ASSUME Verdict(id, f) = Accepted PROVE \E p : p \in Touched(f)
          OBVIOUS
        <4>2. f \in Seq([path : Paths, value : Values]) /\ f # <<>>
          BY <3>4, <4>1, FramesAssumption
        <4>3. 1 \in 1 .. Len(f)
          BY <4>2
        <4> QED
          BY <4>3, Zenon DEF Touched
      <3> QED
        BY <3>3, <3>4, <3>5, Zenon DEF WithinReach, Reaches
    <2> QED
      BY <2>1, <2>2
  <1> QED
    BY <1>1, <1>2, PTL DEF Spec

-----------------------------------------------------------------------------
(* Atomicity. *)

\* "If any patch is invalid, the server MUST reject the entire frame and apply
\* nothing": an Input is applied whole or not at all (applyInput).
THEOREM InputsAreAtomic == Spec => AllOrNothing
  <1> DEFINE Step == IF last'.answer = Accepted
                       THEN \A p \in Paths : store'[p] = IF p \in Touched(last'.frame)
                                                         THEN LastValue(last'.frame, p) ELSE store[p]
                       ELSE store' = store
  <1>1. TypeOK /\ [Next]_vars => [Step]_vars
    <2> SUFFICES ASSUME TypeOK, Next PROVE Step
      BY Zenon
    <2>1. PICK id \in Identities : \E f \in Frames : applyInput(id, f)
      BY Zenon DEF Next
    <2>2. PICK f \in Frames : applyInput(id, f)
      BY <2>1
    <2>3. last'.frame = f /\ last'.answer = Verdict(id, f)
      BY <2>2 DEF applyInput
    <2>4. CASE Verdict(id, f) = Accepted
      BY <2>2, <2>3, <2>4, Zenon DEF applyInput
    <2>5. CASE Verdict(id, f) # Accepted
      <3>1. store' = [p \in Paths |-> store[p]]
        BY <2>2, <2>5, Zenon DEF applyInput
      <3>2. store \in [Paths -> Values \cup {Unset}]
        BY Zenon DEF TypeOK
      <3>3. store' = store
        BY <3>1, <3>2, Zenon
      <3> QED
        BY <2>3, <2>5, <3>3, Zenon
    <2> QED
      BY <2>4, <2>5
  <1> QED
    BY <1>1, InputTypeCorrect, PTL DEF Spec, AllOrNothing
=============================================================================
