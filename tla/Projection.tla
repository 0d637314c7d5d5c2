----------------------------- MODULE Projection -----------------------------
(***************************************************************************)
(* The projection metadata of a scene (protocol.ProjectionMetadata, the    *)
(* argument of EmitWithCauseAndMetadata): which render revision the state  *)
(* a client shows belongs to.  An emission may come with metadata; its     *)
(* Delta and its replay record carry it, the scene remembers the last one  *)
(* (Scene.lastMetadata) and stampMetadata copies that onto every Snapshot. *)
(*                                                                         *)
(* Every action is one of Scene's with what it does to the metadata.  The  *)
(* sequences stamped and outMeta run in step with Scene's direct and out,  *)
(* recorded with replay.  A call whose values do not encode returns before *)
(* it reaches the metadata, and is left to Scene, as is the live endpoint. *)
(***************************************************************************)
EXTENDS Scene

CONSTANTS
  Revision,  \* Revision[c]: the metadata caller c may pass
  Nil        \* no metadata

ASSUME RevisionAssumption == \A c \in Callers : Revision[c] # Nil

VARIABLES
  passed,        \* the metadata of each caller's emission under way
  lastMetadata,  \* Scene.lastMetadata
  recorded,      \* the metadata of the replay records
  stamped,       \* the metadata of the frames in direct
  outMeta,       \* the metadata of the frames in out
  identity,      \* what each client takes as the identity of what it shows
  inForce        \* history: lastMetadata when each number was given out

metaVars == <<passed, lastMetadata, recorded, stamped, outMeta, identity, inForce>>
projectionVars == <<vars, metaVars>>

Metadata == {Revision[c] : c \in Callers} \cup {Nil}

ProjectionInit ==
  /\ Init
  /\ passed = [c \in Callers |-> Nil]
  /\ lastMetadata = Nil
  /\ recorded = <<>>
  /\ stamped = [s \in Subs |-> <<>>]
  /\ outMeta = [s \in Subs |-> <<>>]
  /\ identity = [s \in Subs |-> Nil]
  /\ inForce = <<Nil>>

-----------------------------------------------------------------------------

\* The frames a step queues carry md if they are Deltas and the scene's last
\* metadata if they are Snapshots.
Queue(md) ==
  outMeta' = [s \in Subs |-> [i \in 1 .. Len(out'[s]) |->
    IF i <= Len(outMeta[s]) THEN outMeta[s][i]
    ELSE IF out'[s][i].type = "delta" THEN md ELSE lastMetadata']]

\* EmitWithCauseAndMetadata, or Emit and EmitWithCause, which pass none.
emitWithMetadata(c, p, md) ==
  /\ Emit(c, p)
  /\ passed' = [passed EXCEPT ![c] = md]
  /\ UNCHANGED <<lastMetadata, recorded, stamped, outMeta, identity, inForce>>

\* The emission is numbered: under the same scene.mu its metadata, if any, becomes
\* the scene's and goes into the Deltas and the replay record.
publishMetadata(c) ==
  LET md == passed[c]
      all == Append(recorded, md)
  IN  /\ publish(c)
      /\ lastMetadata' = IF md = Nil THEN lastMetadata ELSE md
      /\ recorded' = SubSeq(all, Len(all) - Len(replay') + 1, Len(all))
      /\ inForce' = Append(inForce, lastMetadata')
      /\ Queue(md)
      /\ UNCHANGED <<passed, stamped, identity>>

\* Mutant: the Snapshot of a back-pressured subscriber is not stamped.
collapseStamped_Bare(c, s) ==
  /\ collapse(c, s)
  /\ outMeta' = [outMeta EXCEPT ![s] = IF Len(out'[s]) > Len(@) THEN Append(@, Nil) ELSE @]
  /\ UNCHANGED <<passed, lastMetadata, recorded, stamped, identity, inForce>>

\* sendDelta's Snapshot for a full queue.
collapseStamped(c, s) ==
  /\ collapse(c, s)
  /\ UNCHANGED lastMetadata
  /\ Queue(Nil)
  /\ UNCHANGED <<passed, recorded, stamped, identity, inForce>>

\* Set changes the state and leaves the metadata of the emission before: the
\* Snapshots of refreshAll are stamped with it.
setStep(c) ==
  /\ \/ \E p \in PatchesOf(c) : Set(c, p)
     \/ refreshAll(c)
  /\ UNCHANGED lastMetadata
  /\ Queue(Nil)
  /\ UNCHANGED <<passed, recorded, stamped, identity, inForce>>

\* Mutant: the replayed Deltas are rebuilt without their metadata.
subscribeStamped_BareReplay(s, q) ==
  /\ subscribeWithResume(s, q)
  /\ stamped' = [stamped EXCEPT ![s] =
       IF direct'[s] # <<>> /\ direct'[s][1].type = "snapshot" THEN <<lastMetadata>>
       ELSE [i \in 1 .. Len(direct'[s]) |-> Nil]]
  /\ UNCHANGED <<passed, lastMetadata, recorded, outMeta, identity, inForce>>

\* The first frames: the records with their metadata, or a stamped Snapshot.
subscribeStamped(s, q) ==
  /\ subscribeWithResume(s, q)
  /\ stamped' = [stamped EXCEPT ![s] =
       IF direct'[s] # <<>> /\ direct'[s][1].type = "snapshot" THEN <<lastMetadata>>
       ELSE SubSeq(recorded, Len(recorded) - Len(direct'[s]) + 1, Len(recorded))]
  /\ UNCHANGED <<passed, lastMetadata, recorded, outMeta, identity, inForce>>

\* The client takes frame f with metadata md: a Snapshot replaces the identity, a
\* Delta that applies replaces it if it has one ("Receivers MAY store it").
Identify(s, f, md) ==
  identity' = [identity EXCEPT ![s] =
    IF f.type = "snapshot" THEN md
    ELSE IF (last[s] = 0 \/ f.seq = last[s] + 1) /\ md # Nil THEN md ELSE @]

firstFrame(s) ==
  /\ sendFirst(s)
  /\ Identify(s, Head(direct[s]), Head(stamped[s]))
  /\ stamped' = [stamped EXCEPT ![s] = Tail(@)]
  /\ UNCHANGED <<passed, lastMetadata, recorded, outMeta, inForce>>

queuedFrame(s) ==
  /\ writerLoop(s)
  /\ Identify(s, Head(out[s]), Head(outMeta[s]))
  /\ outMeta' = [outMeta EXCEPT ![s] = Tail(@)]
  /\ UNCHANGED <<passed, lastMetadata, recorded, stamped, inForce>>

\* The connection ends; its queue goes with it.
leave(s) ==
  /\ hangUp(s) \/ unsubscribe(s)
  /\ stamped' = [stamped EXCEPT ![s] = SubSeq(@, 1, Len(direct'[s]))]
  /\ outMeta' = [outMeta EXCEPT ![s] = SubSeq(@, 1, Len(out'[s]))]
  /\ UNCHANGED <<passed, lastMetadata, recorded, identity, inForce>>

-----------------------------------------------------------------------------

ProjectionNext ==
  \/ \E c \in Callers :
       \/ \E p \in PatchesOf(c) : \E md \in {Revision[c], Nil} : emitWithMetadata(c, p, md)
       \/ publishMetadata(c)
       \/ \E s \in Subs : collapseStamped(c, s)
       \/ setStep(c)
  \/ \E s \in Subs :
       \/ subscribeStamped(s, 0)
       \/ s \in Resuming /\ subscribeStamped(s, last[s])
       \/ firstFrame(s)
       \/ queuedFrame(s)
       \/ leave(s)

ProjectionSpec == ProjectionInit /\ [][ProjectionNext]_projectionVars

\* The identity a client shows is the one in force at the number it shows,
\* at every moment and however it got there: by Deltas, most of which carry
\* no metadata, by the Snapshot of a subscribe, a collapse or a Set, or by a
\* replay after a reconnection.
IdentityMatchesNumber ==
  \A s \in Subs : last[s] # 0 => identity[s] = inForce[last[s]]
=============================================================================
