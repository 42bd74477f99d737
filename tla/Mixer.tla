-------------------------------- MODULE Mixer --------------------------------
(***************************************************************************)
(* The mixer of shared/audio/mixing.go: up to one layer per id, each with  *)
(* a goroutine reading frames into a bounded channel, and a frame loop     *)
(* (disgo's sender, by way of ProvideOpusFrame) taking one frame of every  *)
(* layer each 20 ms.                                                       *)
(*                                                                         *)
(* NextFrames holds the lock only while it copies the layers and again     *)
(* while it evicts, so layers come and go while it mixes.  A layer that    *)
(* has run dry is remembered by its ID and whatever layer has that id when *)
(* the lock is taken again is the one evicted.                             *)
(*                                                                         *)
(* Samples are left out: of a frame only its being buffered matters.       *)
(***************************************************************************)
EXTENDS Integers, FiniteSets

CONSTANTS
    Ids,            \* the ids in use: the music's and the speech's
    Layers,         \* layer objects
    NoLayer,
    BufferFrames    \* cap(layer.buffer)

ASSUME MixerAssumption == BufferFrames \in Nat \ {0} /\ NoLayer \notin Layers

VARIABLES
    layers,         \* m.layers: id -> layer, NoLayer when absent
    cancelled,      \* the layers whose Ctx is done
    reader,         \* readLayerToBuffer: "off", "reading", "closed" (the channel too)
    buffered,       \* frames waiting in the layer's channel
    mixing,         \* NextFrames is between its two lock sections
    snapshot,       \* layers NextFrames copied and has yet to receive from
    gallows         \* ids NextFrames will evict

mixerVars == <<layers, cancelled, reader, buffered, mixing, snapshot, gallows>>
frameVars == <<mixing, snapshot, gallows>>

MixerInit ==
    /\ layers = [id \in Ids |-> NoLayer]
    /\ cancelled = {}
    /\ reader = [l \in Layers |-> "off"]
    /\ buffered = [l \in Layers |-> 0]
    /\ mixing = FALSE
    /\ snapshot = {}
    /\ gallows = {}

Registered == {layers[id] : id \in Ids} \ {NoLayer}

-----------------------------------------------------------------------------
(* NewMixingLayer and Register of a free id; the reader starts. *)
Register(id, l) ==
    /\ layers' = [layers EXCEPT ![id] = l]
    /\ cancelled' = cancelled \ {l}
    /\ reader' = [reader EXCEPT ![l] = "reading"]
    /\ buffered' = [buffered EXCEPT ![l] = 0]
    /\ UNCHANGED frameVars

(* Unregister, CloseLayers and the eviction all end layers this way. *)
EndLayers(ids) ==
    /\ cancelled' = cancelled \cup ({layers[id] : id \in ids} \ {NoLayer})
    /\ layers' = [id \in Ids |-> IF id \in ids THEN NoLayer ELSE layers[id]]
    /\ UNCHANGED <<reader, buffered>>

Unregister(id) == EndLayers({id}) /\ UNCHANGED frameVars

CloseLayers == EndLayers(Ids) /\ UNCHANGED frameVars

(* A whole frame, or the padded last one, goes into the channel. *)
ReadFrame(l) ==
    /\ reader[l] = "reading" /\ buffered[l] < BufferFrames
    /\ buffered' = [buffered EXCEPT ![l] = @ + 1]
    /\ UNCHANGED <<layers, cancelled, reader, frameVars>>

(* The source is at its end, its pipe is closed, or the reader finds the    *)
(* layer cancelled while it waits for room: the channel is closed.         *)
ReadEnd(l) ==
    /\ reader[l] = "reading"
    /\ reader' = [reader EXCEPT ![l] = "closed"]
    /\ UNCHANGED <<layers, cancelled, buffered, frameVars>>

(* NextFrames copies the layers under the read lock... *)
BeginFrame ==
    /\ ~mixing
    /\ mixing' = TRUE
    /\ snapshot' = Registered
    /\ gallows' = {}
    /\ UNCHANGED <<layers, cancelled, reader, buffered>>

(* Mutant: a layer that has run dry is passed over. *)
ReceiveCondemnsNone(id, l) ==
    /\ mixing /\ l \in snapshot
    /\ snapshot' = snapshot \ {l}
    /\ buffered' = [buffered EXCEPT ![l] = IF @ > 0 THEN @ - 1 ELSE 0]
    /\ UNCHANGED <<layers, cancelled, reader, mixing, gallows>>

(* ...takes a frame of each that has one, condemning the dry and closed... *)
Receive(id, l) ==
    /\ mixing /\ l \in snapshot
    /\ snapshot' = snapshot \ {l}
    /\ IF buffered[l] > 0
       THEN /\ buffered' = [buffered EXCEPT ![l] = @ - 1]
            /\ UNCHANGED gallows
       ELSE /\ gallows' = IF reader[l] = "closed" THEN gallows \cup {id} ELSE gallows
            /\ UNCHANGED buffered
    /\ UNCHANGED <<layers, cancelled, reader, mixing>>

(* ...and evicts, by id, under the write lock. *)
EndFrame ==
    /\ mixing /\ snapshot = {}
    /\ mixing' = FALSE
    /\ gallows' = {}
    /\ EndLayers(gallows)
    /\ UNCHANGED snapshot

MixerTypeOK ==
    /\ layers \in [Ids -> Layers \cup {NoLayer}]
    /\ cancelled \subseteq Layers
    /\ reader \in [Layers -> {"off", "reading", "closed"}]
    /\ buffered \in [Layers -> 0 .. BufferFrames]
    /\ mixing \in BOOLEAN
    /\ snapshot \subseteq Layers
    /\ gallows \subseteq Ids
=============================================================================
