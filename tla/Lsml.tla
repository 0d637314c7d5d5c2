-------------------------------- MODULE Lsml --------------------------------
(***************************************************************************)
(* LSML documents (package lsml and protocol/leaf_path.go) as pure         *)
(* functions: the canonical form behind the content hash, the validation   *)
(* of a layout and the rules of its capture placeholders.                  *)
(*                                                                         *)
(* A JSON value is a record with its kind t and its content v; an object   *)
(* is a function from its keys.  A leaf path, or the template of one, is   *)
(* the sequence of its tokens: the punctuation that matters, and words of  *)
(* letters or digits.  SHA-256 is taken to be injective: a hash stands for *)
(* the canonical form it is computed from.                                 *)
(***************************************************************************)
EXTENDS Naturals, Sequences

CONSTANTS
  KeyOrder,     \* the keys in use, in sort.Strings order
  Letters,      \* path tokens that are words of letters and underscores
  Digits,       \* path tokens that are words of digits
  VisualKinds,  \* captureVisualKinds
  AudioKinds,   \* captureAudioKinds
  Aliases       \* the strings in use that match ^[a-z][a-z0-9-]{0,63}$

ASSUME KeyOrderAssumption ==
  KeyOrder \in Seq(STRING) /\ \A i, j \in 1 .. Len(KeyOrder) : i # j => KeyOrder[i] # KeyOrder[j]
ASSUME TokensAssumption == Letters \cap Digits = {} /\ {".", "{", "}"} \cap (Letters \cup Digits) = {}

Missing == [t |-> "missing", v |-> ""]

\* m[k] of a decoded JSON value, when it is an object that has the member.
Member(d, k) == IF d.t = "object" /\ k \in DOMAIN d.v THEN d.v[k] ELSE Missing

Items(d) == IF d.t = "array" THEN d.v ELSE <<>>

\* m[k].(string), "" if it is none.
Text(d, k) == LET x == Member(d, k) IN IF x.t = "string" THEN x.v ELSE ""

-----------------------------------------------------------------------------
(* Leaf paths. *)

Word == Letters \cup Digits

\* strings.Split at the dots.
Segments(p) ==
  LET cuts == {i \in 1 .. Len(p) : p[i] = "."}
  IN  {SubSeq(p, x[1] + 1, x[2] - 1) : x \in
        {y \in (cuts \cup {0}) \X (cuts \cup {Len(p) + 1}) :
           y[1] < y[2] /\ \A k \in cuts : ~ (y[1] < k /\ k < y[2])}}

validSegment(seg) == seg # <<>> /\ \A i \in 1 .. Len(seg) : seg[i] \in Word

isIdentifier(s) == s # <<>> /\ s[1] \in Letters /\ \A i \in 1 .. Len(s) : s[i] \in Word

\* Mutant: the closing brace of a placeholder is not looked for.
validatePath_OpenBrace(p, allowTemplate) ==
  /\ p # <<>>
  /\ \A seg \in Segments(p) :
       \/ validSegment(seg)
       \/ /\ allowTemplate
          /\ seg # <<>> /\ seg[1] = "{"
          /\ isIdentifier(SelectSeq(Tail(seg), LAMBDA x : x # "}"))

\* validatePath: Validate (no template) and ValidateTemplate.
validatePath(p, allowTemplate) ==
  /\ p # <<>>
  /\ \A seg \in Segments(p) :
       \/ validSegment(seg)
       \/ /\ allowTemplate
          /\ seg # <<>> /\ seg[1] = "{" /\ seg[Len(seg)] = "}"
          /\ isIdentifier(SubSeq(seg, 2, Len(seg) - 1))

\* The copy loop of Substitute; an error is a token that no valid path holds.
RECURSIVE Expand(_, _)
Expand(src, scope) ==
  LET closing == {i \in 2 .. Len(src) : src[i] = "}"}
      end == CHOOSE i \in closing : \A j \in closing : i <= j
      name == SubSeq(src, 2, end - 1)
  IN  IF src = <<>> THEN <<>>
      ELSE IF src[1] # "{" THEN <<src[1]>> \o Expand(Tail(src), scope)
      ELSE IF closing = {} THEN <<"error">>
      ELSE IF name \notin DOMAIN scope THEN <<"error">>
      ELSE scope[name] \o Expand(SubSeq(src, end + 1, Len(src)), scope)

\* LeafPath.Substitute; <<>> for an error.
Substitute(p, scope) ==
  LET path == Expand(p, scope)
  IN  IF validatePath(path, FALSE) THEN path ELSE <<>>

-----------------------------------------------------------------------------
(* The content hash. *)

\* Mutant: nested documents lose their scene_version too.
RECURSIVE setSceneVersion_Deep(_)
setSceneVersion_Deep(d) ==
  IF d.t = "object"
    THEN [d EXCEPT !.v = [k \in DOMAIN d.v |->
            IF k = "scene_version" THEN [t |-> "string", v |-> "zero"]
                                   ELSE setSceneVersion_Deep(d.v[k])]]
    ELSE d

\* setSceneVersion: the top-level member, if there is one.
setSceneVersion(d) ==
  IF Member(d, "scene_version") = Missing THEN d
  ELSE [d EXCEPT !.v = [@ EXCEPT !["scene_version"] = [t |-> "string", v |-> "zero"]]]

\* The keys of an object, sorted.
SortedKeys(d) == SelectSeq(KeyOrder, LAMBDA k : k \in DOMAIN d.v)

\* writeCanonical, as a sequence of tokens: a scalar is one token (a quoted
\* string ends where it says it ends), brackets, braces, commas and colons
\* are tokens of their own.
RECURSIVE writeCanonical(_)
RECURSIVE writeItems(_)
RECURSIVE writeMembers(_, _)
writeItems(items) ==
  IF items = <<>> THEN <<>>
  ELSE writeCanonical(Head(items))
         \o (IF Len(items) > 1 THEN <<<<",", "">>>> ELSE <<>>) \o writeItems(Tail(items))
writeMembers(d, keys) ==
  IF keys = <<>> THEN <<>>
  ELSE <<<<"string", Head(keys)>>, <<":", "">>>> \o writeCanonical(d.v[Head(keys)])
         \o (IF Len(keys) > 1 THEN <<<<",", "">>>> ELSE <<>>) \o writeMembers(d, Tail(keys))
writeCanonical(d) ==
  CASE d.t = "array" -> <<<<"[", "">>>> \o writeItems(d.v) \o <<<<"]", "">>>>
    [] d.t = "object" -> <<<<"{", "">>>> \o writeMembers(d, SortedKeys(d)) \o <<<<"}", "">>>>
    [] OTHER -> <<<<d.t, d.v>>>>

\* HashRaw, up to SHA-256.
HashRaw(d) == writeCanonical(setSceneVersion(d))

-----------------------------------------------------------------------------
(* Validation. *)

Primitives == {"stack", "grid", "frame", "text", "image", "shape", "media", "repeat"}
Animatable == {"transition", "transform", "opacity", "filter", "respectsReducedMotion"}

\* The templates a node is bound to.
Binds(n) ==
  LET b == Member(n, "bind")
  IN  IF b.t = "object" THEN {b.v[k].v : k \in {k \in DOMAIN b.v : b.v[k].t = "path"}} ELSE {}

\* The nodes validateNode goes on to, in no order: it collects every error.
Inner(n) ==
  {Items(Member(n, "children"))[i] : i \in 1 .. Len(Items(Member(n, "children")))}
    \cup (IF Text(n, "kind") = "repeat" /\ Member(n, "template") # Missing
            THEN {Member(n, "template")} ELSE {})

\* validateNode reports no error.
RECURSIVE validateNode(_)
validateNode(n) ==
  /\ n.t = "object"
  /\ Text(n, "kind") \in Primitives
  /\ \A p \in Binds(n) : validatePath(p, TRUE)
  /\ Member(n, "animate").t = "object" => DOMAIN Member(n, "animate").v \subseteq Animatable
  /\ Text(n, "kind") = "image" => Member(n, "alt") # Missing
  /\ \A m \in Inner(n) : validateNode(m)

\* The nodes that were looked at.
RECURSIVE Visited(_)
Visited(n) == {n} \cup UNION {Visited(m) : m \in Inner(n)}

\* Validate on one operator input; a value that is no path is an invalid one.
ValidInput(oi) ==
  /\ Member(oi, "path").t = "path" /\ validatePath(Member(oi, "path").v, FALSE)
  /\ Text(oi, "label") # ""
  /\ Text(oi, "type") # ""
  /\ Items(Member(oi, "writable_by")) # <<>>

\* Validate reports no error.  (The keys of defaults are paths of the scene's
\* state and are left out.)
Validate(b) ==
  /\ Text(b, "lsml") = "1.0"
  /\ Text(b, "scene_id") # ""
  /\ Text(b, "scene_version") # ""
  /\ Member(b, "layout") # Missing /\ validateNode(Member(b, "layout"))
  /\ \A i \in 1 .. Len(Items(Member(b, "operator_inputs"))) :
       ValidInput(Items(Member(b, "operator_inputs"))[i])

-----------------------------------------------------------------------------
(* Capture placeholders. *)

IsCapture(n) == Text(n, "kind") = "x-zab.capture"

\* checkZabCapture returns no error.
checkZabCapture(n) ==
  LET source == Text(n, "x-zab.sourceKind")
  IN  /\ source \in VisualKinds \cup AudioKinds
      /\ Text(n, "x-zab.deviceRef") \in Aliases
      /\ source \in VisualKinds => Member(n, "size") # Missing
=============================================================================
