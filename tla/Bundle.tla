------------------------------- MODULE Bundle -------------------------------
(***************************************************************************)
(* From a bundle to what clients may write: how handleSetup                *)
(* (interop/control/control.go) turns an inline LSML document into the     *)
(* declarations of a scene and checks its layout, and the Inputs that are  *)
(* sent to the scene afterwards (module Input).  A scene that the program  *)
(* creates itself, with WithDeclaredInputs or WithOperatorInputs, is the   *)
(* other beginning.                                                        *)
(*                                                                         *)
(* CheckZabCaptureNodes walks the layout with a stack of its own: one step *)
(* per node.                                                               *)
(***************************************************************************)
EXTENDS Lsml, Input

CONSTANTS
  Bundles,   \* the documents a setup may post
  Used,      \* those of them whose scenes get clients (a bound)
  Peers,     \* those whose hashes are compared
  Scoped     \* the paths a scope may stand for

ASSUME BundlesAssumption == Used \subseteq Bundles /\ Peers \subseteq Bundles

VARIABLES
  bundle,    \* the document, Missing if the scene was not created from one
  stack,     \* the nodes CheckZabCaptureNodes has still to visit
  verdict    \* checking, served or rejected

bundleVars == <<vars, bundle, stack, verdict>>

-----------------------------------------------------------------------------

\* The numbers between which a declaration without Min and Max confines a value.
Greatest == CHOOSE n \in {v.n : v \in Values} : \A v \in Values : v.n <= n

\* Mutant: the number of a decoded JSON document is taken for none.
InputSpec_NoFloats(item) ==
  [type |-> Text(item, "type"), maxLength |-> 0,
   min |-> 0, max |-> Greatest, values |-> {}]

\* One item of operator_inputs: of its constraints only maxLength is carried over.
InputSpec(item) ==
  LET limit == Member(Member(item, "constraints"), "maxLength")
  IN  [type |-> Text(item, "type"),
       maxLength |-> IF limit.t = "number" THEN limit.v ELSE 0,
       min |-> 0, max |-> Greatest, values |-> {}]

\* The path of an item, in segments; "" if it has none.
PathOf(item) ==
  LET x == Member(item, "path")
  IN  IF x.t = "path" THEN SelectSeq(x.v, LAMBDA k : k # ".") ELSE <<>>

\* extractInputSpecs with WithOperatorInputs: the items that are objects, and of
\* two for the same path the later one.
extractInputSpecs(b) ==
  LET items == SelectSeq(Items(Member(b, "operator_inputs")), LAMBDA x : x.t = "object")
      at == 1 .. Len(items)
  IN  [p \in {PathOf(items[i]) : i \in at} |->
        InputSpec(items[CHOOSE i \in at :
          PathOf(items[i]) = p /\ \A j \in at : PathOf(items[j]) = p => j <= i])]

\* The scene exists: created by the program, or by handleSetup, which goes on
\* to check the layout if there is one.
BundleInit ==
  \/ /\ Init
     /\ bundle = Missing
     /\ stack = <<>>
     /\ verdict = "served"
  \/ /\ bundle \in Bundles
     /\ declared = extractInputSpecs(bundle)
     /\ store = [p \in Paths |-> Unset]
     /\ last = [id |-> Nobody, frame |-> <<>>, answer |-> Accepted]
     /\ inputs = 0
     /\ stack = IF Member(bundle, "layout") = Missing THEN <<>> ELSE <<Member(bundle, "layout")>>
     /\ verdict = "checking"

\* Mutant: a template is visited only below a repeat, as validateNode does.
visitNode_RepeatOnly ==
  LET node == stack[Len(stack)]
  IN  /\ verdict = "checking"
      /\ stack # <<>>
      /\ IF IsCapture(node) /\ ~ checkZabCapture(node)
           THEN verdict' = "rejected" /\ stack' = <<>>
           ELSE /\ stack' = SubSeq(stack, 1, Len(stack) - 1) \o Items(Member(node, "children"))
                              \o (IF Member(node, "template") = Missing \/ Text(node, "kind") # "repeat"
                                    THEN <<>> ELSE <<Member(node, "template")>>)
                /\ UNCHANGED verdict
      /\ UNCHANGED <<vars, bundle>>

\* CheckZabCaptureNodes, one turn of its loop; an error makes handleSetup
\* reject the scene.
visitNode ==
  LET node == stack[Len(stack)]
  IN  /\ verdict = "checking"
      /\ stack # <<>>
      /\ IF IsCapture(node) /\ ~ checkZabCapture(node)
           THEN verdict' = "rejected" /\ stack' = <<>>
           ELSE /\ stack' = SubSeq(stack, 1, Len(stack) - 1) \o Items(Member(node, "children"))
                              \o (IF Member(node, "template") = Missing
                                    THEN <<>> ELSE <<Member(node, "template")>>)
                /\ UNCHANGED verdict
      /\ UNCHANGED <<vars, bundle>>

\* The loop ends: the setup goes on to activate the scene.
serve ==
  /\ verdict = "checking"
  /\ stack = <<>>
  /\ verdict' = "served"
  /\ UNCHANGED <<vars, bundle, stack>>

\* Clients subscribe to a scene that is not rejected, and send Inputs.
clientInput ==
  /\ verdict = "served"
  /\ bundle \in Used \cup {Missing}
  /\ Next
  /\ UNCHANGED <<bundle, stack, verdict>>

BundleNext == visitNode \/ serve \/ clientInput

BundleSpec == BundleInit /\ [][BundleNext]_bundleVars

-----------------------------------------------------------------------------
(* Properties. *)

\* Every node of a layout: what children and templates reach.
RECURSIVE Below(_)
Below(n) ==
  LET kids == Items(Member(n, "children"))
  IN  {n} \cup UNION {Below(kids[i]) : i \in 1 .. Len(kids)}
        \cup (IF Member(n, "template") = Missing THEN {} ELSE Below(Member(n, "template")))

\* The loop of CheckZabCaptureNodes finds a malformed capture exactly if one is
\* reachable from the layout, below children and templates of any kind of node
\* and behind values that are no nodes.
CaptureAgrees ==
  bundle # Missing /\ verdict # "checking" =>
    (verdict = "rejected" <=>
       \E n \in Below(Member(bundle, "layout")) : IsCapture(n) /\ ~ checkZabCapture(n))

\* Names a template asks for.
Names(p) == {SubSeq(seg, 2, Len(seg) - 1) : seg \in {x \in Segments(p) : x # <<>> /\ x[1] = "{"}}

\* A bundle that Validate passes can be rendered: each template it is bound to
\* becomes a path fit for the wire (Substitute returns no error) under every
\* scope of valid paths, single words or several segments.
BindsResolve ==
  bundle # Missing /\ Validate(bundle) =>
    \A n \in Visited(Member(bundle, "layout")) : \A p \in Binds(n) :
      \A scope \in [Names(p) -> {q \in Scoped : validatePath(q, FALSE)}] :
        Substitute(p, scope) # <<>>

\* The documents with another version of the same content.
SameContent(d, e) ==
  /\ d.t = e.t
  /\ DOMAIN d.v = DOMAIN e.v
  /\ \A k \in DOMAIN d.v \ {"scene_version"} : d.v[k] = e.v[k]

\* The hash identifies the content: HashRaw gives two documents the same
\* canonical form exactly if they differ in nothing but their own
\* scene_version - a nested one counts.
HashIdentifies ==
  bundle \in Peers => \A e \in Peers : HashRaw(bundle) = HashRaw(e) <=> SameContent(bundle, e)

\* What the bundle says of path p: the last item about it.
LastItem(p) ==
  LET items == Items(Member(bundle, "operator_inputs"))
      about == {i \in 1 .. Len(items) : items[i].t = "object" /\ PathOf(items[i]) = p}
  IN  IF about = {} THEN Missing ELSE items[CHOOSE i \in about : \A j \in about : j <= i]

\* What clients wrote keeps to the document: an input is one it declares, if it
\* declares any, and a text is no longer than it allows.
StoreWithinBundle ==
  bundle # Missing =>
    \A p \in Paths : store[p] # Unset /\ p[1] = "__inputs" /\ DOMAIN declared # {} =>
      LET item == LastItem(p)
          limit == Member(Member(item, "constraints"), "maxLength")
      IN  /\ item # Missing
          /\ Text(item, "type") \in {"string", "number", "boolean"} =>
               store[p].type = Text(item, "type")
          /\ Text(item, "type") = "string" /\ limit.t = "number" /\ limit.v > 0 =>
               store[p].n <= limit.v
-----------------------------------------------------------------------------
(* What a comment says and the model refutes (README). *)

\* CheckZabCaptureNodes is "deliberately narrower than Validate": what the one
\* rejects does not pass the other.  A template below a node that is no repeat is
\* visited by the first alone.
NarrowerThanValidate ==
  bundle # Missing /\ verdict = "rejected" => ~ Validate(bundle)
=============================================================================
