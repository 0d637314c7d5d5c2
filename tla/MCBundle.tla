------------------------------ MODULE MCBundle -----------------------------
(* An instance of Bundle, and through it of Input, for model checking. *)
EXTENDS Bundle, TLC

A == <<"__inputs", "a">>
AB == <<"__inputs", "a", "b">>
C == <<"__inputs", "c">>
T == <<"__test", "t">>
Show == <<"show", "title">>

MCPaths == {A, AB, C, T, Show}

Str(k) == [type |-> "string", n |-> k]
Num(k) == [type |-> "number", n |-> k]
NoJson == [type |-> "missing", n |-> 0]

MCValues == {Str(1), Str(3), Num(1), NoJson}

Claim(q, t) == [segments |-> q, tail |-> t]

Viewer == [role |-> "viewer", paths |-> {}]
Operator == [role |-> "operator", paths |-> {}]
Tester == [role |-> "test", paths |-> {}]
Service == [role |-> "service", paths |-> {}]
ServiceA == [role |-> "service", paths |-> {Claim(A, "")}]
ServiceBelow == [role |-> "service", paths |-> {Claim(A, ".*"), Claim(<<>>, "")}]
ServiceStar == [role |-> "service", paths |-> {Claim(A, "*")}]

MCIdentities == {Viewer, Operator, Tester, Service, ServiceA, ServiceBelow, ServiceStar}

String(m) == [type |-> "string", maxLength |-> m, min |-> 0, max |-> 9, values |-> {}]
Number(lo, hi) == [type |-> "number", maxLength |-> 0, min |-> lo, max |-> hi, values |-> {}]
Enum(vs) == [type |-> "enum", maxLength |-> 0, min |-> 0, max |-> 9, values |-> vs]
Untyped == [type |-> "", maxLength |-> 0, min |-> 0, max |-> 9, values |-> {}]

\* No declaration; one path with a bound; two paths.
Undeclared == [p \in {} |-> Untyped]
MCSpecSets ==
  {Undeclared,
   [p \in {A} |-> String(2)],
   [p \in {A, C} |-> IF p = A THEN Number(0, 0) ELSE Enum({3})],
   [p \in {AB, C} |-> IF p = AB THEN String(0) ELSE Number(1, 2)]}

MCPatches == [path : MCPaths, value : MCValues]

\* No patch, every patch alone, and the pairs of some: two typed paths, the test
\* namespace.
PairPatches ==
  {x \in MCPatches : x.path \in {A, C} /\ x.value # NoJson} \cup {[path |-> T, value |-> Str(1)]}
OnePatchFrames == {<<x>> : x \in MCPatches}
MCFrames == {<<>>} \cup OnePatchFrames \cup {<<x, y>> : x \in PairPatches, y \in PairPatches}

-----------------------------------------------------------------------------
(* Documents. *)

JStr(s) == [t |-> "string", v |-> s]
JNum(n) == [t |-> "number", v |-> n]
JPath(p) == [t |-> "path", v |-> p]
JArr(q) == [t |-> "array", v |-> q]
JObj(f) == [t |-> "object", v |-> f]
JNull == [t |-> "null", v |-> ""]

MCKeyOrder ==
  <<"alt", "animate", "bind", "children", "constraints", "kind", "label", "layout", "lsml",
    "maxLength", "operator_inputs", "path", "scene_id", "scene_version", "size", "template", "type",
    "value", "writable_by", "x-zab.deviceRef", "x-zab.sourceKind">>

Doc(layout) ==
  JObj([lsml |-> JStr("1.0"), scene_id |-> JStr("x"), scene_version |-> JStr("v"), layout |-> layout])

\* Layouts: leaves, and what children and templates make of them.
Node(k) == JObj([kind |-> JStr(k)])
Capture(source, ref, sized) ==
  LET props == {"kind", "x-zab.sourceKind", "x-zab.deviceRef"} \cup (IF sized THEN {"size"} ELSE {})
  IN  JObj([p \in props |-> CASE p = "kind" -> JStr("x-zab.capture")
                               [] p = "x-zab.sourceKind" -> JStr(source)
                               [] p = "x-zab.deviceRef" -> JStr(ref)
                               [] p = "size" -> JNull])
Leaves ==
  {JNull, Node("text"), Node("image"), Capture("media.webcam", "cam", TRUE),
   Capture("media.webcam", "cam", FALSE), Capture("media.mic", "mic", FALSE),
   Capture("media.mic", "PCI 0", FALSE), Capture("", "cam", TRUE)}

Above(X, Y) ==
  {JObj([kind |-> JStr("stack"), children |-> JArr(<<x, y>>)]) : x \in X, y \in Y}
    \cup {JObj([kind |-> JStr("stack"), children |-> x]) : x \in X}
    \cup {JObj([kind |-> JStr(k), template |-> x]) : k \in {"repeat", "text"}, x \in X}
    \cup {JObj([kind |-> JStr("repeat"), children |-> JArr(<<x>>), template |-> y]) : x \in X, y \in Y}
Level1 == Above(Leaves, Leaves)
Few == {Node("text"), Capture("media.mic", "PCI 0", FALSE)}
LayoutDocs == {Doc(x) : x \in Leaves \cup Level1 \cup Above(Level1, Few)}

\* Templates: every sequence of up to four tokens, and some of five, bound inside a
\* repeat.
Tokens == {"a", "0", "-", ".", "{", "}"}
Templates ==
  UNION {[1 .. n -> Tokens] : n \in 1 .. 4}
    \cup {<<x, ".", "{", y, "}">> : x \in Tokens, y \in Tokens}
    \cup {<<"{", x, "}", y, z>> : x \in Tokens, y \in Tokens, z \in Tokens}
Bound(p) == JObj([kind |-> JStr("text"), bind |-> JObj([value |-> JPath(p)])])
BindDocs == {Doc(JObj([kind |-> JStr("repeat"), template |-> Bound(p)])) : p \in Templates}
MCScoped == {<<"a">>, <<"0">>, <<"a", ".", "0">>, <<"a", "-">>}

\* Documents that differ in little: versions on both levels, members, nesting.
Small == {JStr("v"), JStr("w"), JNum(1), JNull, JArr(<<>>), JArr(<<JNull>>), JArr(<<JArr(<<>>)>>),
          JArr(<<JStr("v"), JNum(1)>>), JArr(<<JArr(<<JStr("v")>>), JNum(1)>>),
          JArr(<<JStr("v"), JArr(<<JNum(1)>>)>>)}
HashDocs ==
  {JObj([layout |-> x, scene_version |-> JStr(v)]) : x \in Small, v \in {"v", "w"}}
    \cup {JObj([layout |-> x]) : x \in Small}
    \cup {JObj([layout |-> JObj([k \in D |-> x]), scene_version |-> JStr("v")]) :
             D \in SUBSET {"kind", "scene_version"}, x \in Small}

\* Declarations: typed and limited, twice for one path, malformed.
Item(p, type, props) == [path |-> JPath(p), type |-> JStr(type)] @@ props
Unlimited == [label |-> JStr("l")]
Limited(n) == [constraints |-> JObj([maxLength |-> JNum(n)])]
PA == <<"__inputs", ".", "a">>
PC == <<"__inputs", ".", "c">>
InputLists ==
  {<<JNull>>,
   <<JObj(Item(PA, "string", Limited(1))), JNull, JObj(Item(PC, "enum", Unlimited))>>,
   <<JObj(Item(PA, "number", Unlimited)), JObj(Item(PA, "string", Limited(1)))>>,
   <<JObj([type |-> JStr("string")])>>}
InputDocs == {JObj([scene_id |-> JStr("x"), operator_inputs |-> JArr(q)]) : q \in InputLists}

MCBundles == LayoutDocs \cup BindDocs \cup HashDocs \cup InputDocs
=============================================================================
