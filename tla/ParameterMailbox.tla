--------------------------- MODULE ParameterMailbox ---------------------------
(***************************************************************************)
(* LatestParameterMailbox: the control side publishes whole parameter      *)
(* images, the owner of the runtime image (the audio callback, or the      *)
(* control service while it holds RuntimeImageOwnership, see AudioGate)    *)
(* takes the latest one of each plug-in.  Each entry has three slots; the  *)
(* producer writes a slot that is neither published nor announced as being *)
(* read, and publishes it by one store.                                    *)
(*                                                                         *)
(* The consumer announces a slot with a release store and confirms with an *)
(* acquire load.  Neither orders the store before the load: the store may  *)
(* still be on its way to memory when the load is done, and the producer   *)
(* may then choose the very slot whose token was confirmed.  So every      *)
(* store of the consumer goes through a buffer, in order, and DrainStore   *)
(* brings it to memory at any later time; the sequentially consistent      *)
(* fetch_add that ends process() waits for the last one.  What may happen  *)
(* to an image then, and what may not, is the subject of the properties.   *)
(*                                                                         *)
(* publish() runs under processingResourcesMutex_, so there is one         *)
(* producer, whose stores are in memory before it locks again;             *)
(* discardPending() runs inside an EngineMutationWindow, so there is no    *)
(* consumer while it does.                                                 *)
(***************************************************************************)
EXTENDS Naturals, Sequences, FiniteSets

CONSTANTS Plugins,          \* logical ids
          NoPlugin,         \* an unclaimed entry
          EntryCount,       \* kMaxPluginInstances
          MaxGeneration     \* bound on the images published in a run

ASSUME MailboxAssumption ==
  /\ NoPlugin \notin Plugins
  /\ EntryCount \in Nat \ {0} /\ MaxGeneration \in Nat

Entries == 1..EntryCount
Slots   == 0..2
kNotReading  == 3
kMaxAttempts == 2

\* (generation << 2) | slot; the token of an entry never published is 0.
Token   == [generation : 0..MaxGeneration, slot : Slots]
NoToken == [generation |-> 0, slot |-> 0]

\* A command carries its plug-in and, standing for its content, its generation.
Command   == [plugin : Plugins \union {NoPlugin}, generation : 0..MaxGeneration]
NoCommand == [plugin |-> NoPlugin, generation |-> 0]

VARIABLES
  logicalId, commands, published, reading, consumed,   \* the entries
  generation,                                          \* generation_
  producer, plugin, entry, writeSlot,                  \* publish() in progress
  consumer, visited, token, attempt,                   \* consumePending()
  buffer,                                              \* delayed consumer stores
  acknowledged,       \* entry -> what the consumer itself loads from consumed
  late,               \* history: confirmed before the announcement was in memory
  latest, delivered, settled, spoiled                  \* history, per plug-in

sharedVars   == <<logicalId, commands, published, reading, consumed, generation>>
producerVars == <<producer, plugin, entry, writeSlot>>
consumerVars == <<consumer, visited, token, attempt, acknowledged, late>>
historyVars  == <<latest, delivered, settled, spoiled>>
vars == <<logicalId, commands, published, reading, consumed, generation,
          producer, plugin, entry, writeSlot, consumer, visited, token, attempt,
          buffer, acknowledged, late, latest, delivered, settled, spoiled>>

Init ==
  /\ logicalId = [e \in Entries |-> NoPlugin]
  /\ commands  = [e \in Entries |-> [s \in Slots |-> NoCommand]]
  /\ published = [e \in Entries |-> NoToken]
  /\ reading   = [e \in Entries |-> kNotReading]
  /\ consumed  = [e \in Entries |-> NoToken]
  /\ generation = 0
  /\ producer = "idle" /\ plugin = NoPlugin /\ entry = 1 /\ writeSlot = 0
  /\ consumer = "idle" /\ visited = 1 /\ token = NoToken /\ attempt = 0
  /\ buffer = <<>>
  /\ acknowledged = [e \in Entries |-> NoToken] /\ late = FALSE
  /\ latest = [p \in Plugins |-> 0]
  /\ delivered = [p \in Plugins |-> 0]
  /\ settled = [p \in Plugins |-> 0]
  /\ spoiled = [p \in Plugins |-> FALSE]

Least(S) == CHOOSE x \in S : \A y \in S : x <= y

-----------------------------------------------------------------------------
(* publish()                                                                *)

\* The first scan: the plug-in's own entry, or the first one never claimed.
\* Only this thread writes logicalId, so the scan is one step.
BeginPublish(p) ==
  /\ producer = "idle" /\ generation < MaxGeneration
  /\ plugin' = p
  /\ LET own == {e \in Entries : logicalId[e] \in {p, NoPlugin}}
     IN IF own # {}
          THEN /\ entry' = Least(own)
               /\ logicalId' = [logicalId EXCEPT ![Least(own)] = p]
               /\ producer' = "choose"
          ELSE /\ entry' = 1
               /\ producer' = "scanReading"
               /\ UNCHANGED logicalId
  /\ UNCHANGED <<commands, published, reading, consumed, generation, writeSlot,
                 consumerVars, buffer, historyVars>>

NextCandidate ==
  IF entry = EntryCount
    THEN producer' = "idle" /\ plugin' = NoPlugin /\ entry' = 1     \* false
    ELSE producer' = "scanReading" /\ entry' = entry + 1 /\ UNCHANGED plugin

\* The second scan recycles the entry of another plug-in if nobody reads it ...
ScanReading ==
  /\ producer = "scanReading"
  /\ IF reading[entry] = kNotReading
       THEN producer' = "scanConsumed" /\ UNCHANGED <<plugin, entry>>
       ELSE NextCandidate
  /\ UNCHANGED <<sharedVars, writeSlot, consumerVars, buffer, historyVars>>

\* ... and everything published in it was consumed.
ScanConsumedIgnored ==              \* mutant: recycles whatever nobody reads
  /\ producer = "scanConsumed"
  /\ logicalId' = [logicalId EXCEPT ![entry] = plugin]
  /\ producer' = "choose"
  /\ UNCHANGED <<commands, published, reading, consumed, generation, plugin,
                 entry, writeSlot, consumerVars, buffer, historyVars>>

ScanConsumed ==
  /\ producer = "scanConsumed"
  /\ IF consumed[entry] = published[entry]
       THEN /\ logicalId' = [logicalId EXCEPT ![entry] = plugin]
            /\ producer' = "choose"
            /\ UNCHANGED <<plugin, entry>>
       ELSE NextCandidate /\ UNCHANGED logicalId
  /\ UNCHANGED <<commands, published, reading, consumed, generation, writeSlot,
                 consumerVars, buffer, historyVars>>

ChooseSlotUnannounced ==            \* mutant: never looks at the announced slot
  /\ producer = "choose"
  /\ writeSlot' = Least(Slots \ {published[entry].slot})
  /\ producer' = "write"
  /\ UNCHANGED <<sharedVars, plugin, entry, consumerVars, buffer, historyVars>>

ChooseSlot ==
  /\ producer = "choose"
  /\ writeSlot' = Least(Slots \ {published[entry].slot, reading[entry]})
  /\ producer' = "write"
  /\ UNCHANGED <<sharedVars, plugin, entry, consumerVars, buffer, historyVars>>

\* The copy is in progress as long as producer = "write".
WriteCommand ==
  /\ producer = "write"
  /\ generation' = generation + 1
  /\ commands' = [commands EXCEPT ![entry][writeSlot] =
                    [plugin |-> plugin, generation |-> generation + 1]]
  /\ producer' = "publish"
  /\ UNCHANGED <<logicalId, published, reading, consumed, plugin, entry,
                 writeSlot, consumerVars, buffer, historyVars>>

PublishToken ==
  /\ producer = "publish"
  /\ published' = [published EXCEPT ![entry] =
                     [generation |-> generation, slot |-> writeSlot]]
  /\ latest' = [latest EXCEPT ![plugin] = generation]
  /\ producer' = "idle" /\ plugin' = NoPlugin /\ entry' = 1 /\ writeSlot' = 0
  /\ UNCHANGED <<logicalId, commands, reading, consumed, generation,
                 consumerVars, buffer, delivered, settled, spoiled>>

ProducerStep == \/ ScanReading \/ ScanConsumed \/ ChooseSlot \/ WriteCommand
                \/ PublishToken

-----------------------------------------------------------------------------
(* consumePending()                                                         *)

\* A consumer store waits in the buffer until DrainStore brings it to memory.
StoreReading(e, slot) ==
  buffer' = Append(buffer, [entry |-> e, of |-> "reading", value |-> slot])
StoreConsumed(e, t) ==
  buffer' = Append(buffer, [entry |-> e, of |-> "consumed", value |-> t])

DrainStore ==
  /\ buffer # <<>>
  /\ LET store == Head(buffer)
     IN IF store.of = "reading"
          THEN /\ reading' = [reading EXCEPT ![store.entry] = store.value]
               /\ UNCHANGED consumed
          ELSE /\ consumed' = [consumed EXCEPT ![store.entry] = store.value]
               /\ UNCHANGED reading
  /\ buffer' = Tail(buffer)
  /\ UNCHANGED <<logicalId, commands, published, generation, producerVars,
                 consumerVars, historyVars>>

BeginConsume ==
  /\ consumer = "idle"
  /\ consumer' = "visit" /\ visited' = 1
  /\ UNCHANGED <<sharedVars, producerVars, token, attempt, buffer, acknowledged, late,
                 historyVars>>

NextEntry == /\ token' = NoToken /\ attempt' = 0
             /\ IF visited = EntryCount
                  THEN consumer' = "leave" /\ visited' = 1
                  ELSE consumer' = "visit" /\ visited' = visited + 1

Visit ==
  /\ consumer = "visit"
  /\ IF \/ logicalId[visited] = NoPlugin
        \/ published[visited] \in {NoToken, acknowledged[visited]}
       THEN NextEntry
       ELSE /\ token' = published[visited]
            /\ attempt' = 1
            /\ consumer' = "announce"
            /\ UNCHANGED visited
  /\ UNCHANGED <<sharedVars, producerVars, buffer, acknowledged, late, historyVars>>

Announce ==
  /\ consumer = "announce"
  /\ StoreReading(visited, token.slot)
  /\ consumer' = "confirm"
  /\ UNCHANGED <<sharedVars, producerVars, visited, token, attempt, acknowledged, late,
                 historyVars>>

ConfirmAcknowledgesNewer ==         \* mutant: a newer token is marked consumed
  /\ consumer = "confirm"
  /\ token' = published[visited]
  /\ consumer' = IF published[visited] = token THEN "read" ELSE "acknowledge"
  /\ late' = (published[visited] = token /\ buffer # <<>>)
  /\ UNCHANGED <<sharedVars, producerVars, visited, attempt, buffer, acknowledged,
                 historyVars>>

\* A token that moved on is announced afresh once, then left for the next pass.
\* The announcement is the last store in the buffer, if it is still in there.
Confirm ==
  /\ consumer = "confirm"
  /\ late' = (published[visited] = token /\ buffer # <<>>)
  /\ IF published[visited] = token
       THEN consumer' = "read" /\ UNCHANGED <<token, attempt>>
       ELSE /\ token' = published[visited]
            /\ attempt' = attempt + 1
            /\ consumer' = IF attempt < kMaxAttempts THEN "announce" ELSE "release"
  /\ UNCHANGED <<sharedVars, producerVars, visited, buffer, acknowledged, historyVars>>

\* The producer is writing the slot the consumer copies from.
Overlap == /\ producer = "write" /\ consumer = "read"
           /\ entry = visited /\ writeSlot = token.slot

\* The copy is in progress as long as consumer = "read".  What was copied is
\* spoiled if the slot no longer holds the image of the token, or is about to;
\* what a spoiled copy looks like is left open, its token is acknowledged anyway.
ReadCommand ==
  /\ consumer = "read"
  /\ LET command == commands[visited][token.slot]
     IN /\ delivered' = [delivered EXCEPT ![command.plugin] = token.generation]
        /\ settled' = [settled EXCEPT ![command.plugin] = token.generation]
        /\ spoiled' = [spoiled EXCEPT ![command.plugin] =
                         Overlap \/ command.generation # token.generation]
  /\ consumer' = "acknowledge" /\ late' = FALSE
  /\ UNCHANGED <<sharedVars, producerVars, visited, token, attempt, buffer, acknowledged,
                 latest>>

AcknowledgeLatest ==                \* mutant: acknowledges what is published now
  /\ consumer = "acknowledge"
  /\ StoreConsumed(visited, published[visited])
  /\ acknowledged' = [acknowledged EXCEPT ![visited] = published[visited]]
  /\ consumer' = "release"
  /\ UNCHANGED <<sharedVars, producerVars, visited, token, attempt, late, historyVars>>

Acknowledge ==
  /\ consumer = "acknowledge"
  /\ StoreConsumed(visited, token)
  /\ acknowledged' = [acknowledged EXCEPT ![visited] = token]
  /\ consumer' = "release"
  /\ UNCHANGED <<sharedVars, producerVars, visited, token, attempt, late, historyVars>>

Release ==
  /\ consumer = "release"
  /\ StoreReading(visited, kNotReading)
  /\ NextEntry
  /\ UNCHANGED <<sharedVars, producerVars, acknowledged, late, historyVars>>

\* The epoch's fetch_add at the end of the block drains the store buffer.
EndConsume ==
  /\ consumer = "leave" /\ buffer = <<>>
  /\ consumer' = "idle"
  /\ UNCHANGED <<sharedVars, producerVars, visited, token, attempt, buffer,
                 acknowledged, late, historyVars>>

ConsumerStep == \/ Visit \/ Announce \/ Confirm \/ ReadCommand \/ Acknowledge
                \/ Release \/ EndConsume \/ DrainStore

-----------------------------------------------------------------------------

\* discardPending() at a rebuild boundary: both sides are quiet.  What was sent
\* until then no longer counts, for the boundary brings images of its own.
DiscardPending ==
  /\ producer = "idle" /\ consumer = "idle"
  /\ consumed' = published /\ acknowledged' = published
  /\ settled' = latest /\ spoiled' = [p \in Plugins |-> FALSE]
  /\ UNCHANGED <<logicalId, commands, published, reading, generation, producerVars,
                 consumer, visited, token, attempt, late, buffer, latest, delivered>>

\* hasPending(), per plug-in.
HasPending(p) ==
  \E e \in Entries : logicalId[e] = p /\ published[e] # consumed[e]

Next == \/ \E p \in Plugins : BeginPublish(p)
        \/ ProducerStep
        \/ BeginConsume
        \/ ConsumerStep
        \/ DiscardPending

\* Passes recur: blocks stage the images while audio runs, and the control
\* service takes them over once it does not.  Nobody has to publish.
Spec == /\ Init /\ [][Next]_vars
        /\ WF_vars(ProducerStep) /\ WF_vars(BeginConsume) /\ WF_vars(ConsumerStep)

-----------------------------------------------------------------------------
(* Properties.                                                              *)

\* Every variable holds a value of its kind; a slot index is never 3.
TypeOK ==
  /\ logicalId \in [Entries -> Plugins \union {NoPlugin}]
  /\ commands \in [Entries -> [Slots -> Command]]
  /\ published \in [Entries -> Token] /\ consumed \in [Entries -> Token]
  /\ acknowledged \in [Entries -> Token] /\ late \in BOOLEAN
  /\ spoiled \in [Plugins -> BOOLEAN]
  /\ reading \in [Entries -> Slots \union {kNotReading}]
  /\ generation \in 0..MaxGeneration
  /\ producer \in {"idle", "scanReading", "scanConsumed", "choose", "write", "publish"}
  /\ plugin \in Plugins \union {NoPlugin} /\ entry \in Entries /\ writeSlot \in Slots
  /\ consumer \in {"idle", "visit", "announce", "confirm", "read", "acknowledge",
                   "release", "leave"}
  /\ visited \in Entries /\ token \in Token /\ attempt \in 0..(kMaxAttempts + 1)
  /\ \A h \in {latest, delivered, settled} : h \in [Plugins -> 0..MaxGeneration]

\* The producer never writes the slot whose image the consumer is copying.  The
\* code does not keep this (see the header); what it keeps is below.
NoTornImage == ~Overlap

\* The two meet in a slot only when the confirming load overtook the announcing
\* store: the announcement does protect the copy once it is in memory.
TornOnlyIfLate == Overlap => late

\* A spoiled image has a successor that is still to be taken, so it is replaced;
\* the callback cannot stay with it.
SpoiledIsFollowed == \A p \in Plugins : spoiled[p] => HasPending(p)

\* The latest image of a plug-in that was neither delivered nor discarded is
\* still pending in that plug-in's entry, whatever was recycled or published
\* meanwhile; so hasPending() keeps the control service coming back for it.
NoLostImage ==
  \A p \in Plugins : latest[p] # settled[p] => HasPending(p)

\* Publishing and consuming at the same time loses no image, and garbles none
\* but in the one case above, of which a whole image then makes good.
ImagesWholeOrFollowed == TornOnlyIfLate /\ SpoiledIsFollowed /\ NoLostImage

\* Whatever was published is settled once publishing pauses, by a whole image:
\* the two-attempt bound of a pass and a spoiled copy only postpone it.
EveryImageSettles ==
  \A p \in Plugins : latest[p] # settled[p] ~> latest[p] = settled[p] /\ ~spoiled[p]

\* The image a confirmed token stands for is taken at the confirmation.
Taking(e) == visited = e /\ consumer \in {"read", "acknowledge"}
Full(e) == published[e] # acknowledged[e] /\ ~(Taking(e) /\ published[e] = token)
InCopy(p) == consumer = "read" /\ logicalId[visited] = p

Waiting ==
  [p \in Plugins |->
     LET full == {e \in Entries : logicalId[e] = p /\ Full(e)}
     IN IF full = {} THEN 0 ELSE published[CHOOSE e \in full : TRUE].generation]

Taken == [p \in Plugins |-> IF InCopy(p) THEN token.generation ELSE delivered[p]]

Spoilt == [p \in Plugins |-> ~InCopy(p) /\ spoiled[p]]

Box == INSTANCE LatestValueBox WITH
  Generations <- 1..MaxGeneration, waiting <- Waiting, taken <- Taken, spoilt <- Spoilt

\* The mailbox implements the latest-value box: a confirmed token is the latest
\* image, it is delivered once, no image disappears without being delivered,
\* replaced by a newer one or discarded, and one is spoilt only when a newer one
\* already waits.
ImplementsLatestValueBox == Box!BoxSpec
=============================================================================
