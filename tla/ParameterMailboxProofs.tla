----------------------- MODULE ParameterMailboxProofs -----------------------
(***************************************************************************)
(* For any plug-ins, any number of entries and of publications, and         *)
(* whenever the consumer's stores reach memory: an image is written while  *)
(* it is copied only if its announcement was late, one that was spoiled    *)
(* has a successor still to be taken, none is lost, and the mailbox        *)
(* implements the latest-value box.                                        *)
(***************************************************************************)
EXTENDS ParameterMailbox, SequenceTheorems, WellFoundedInduction, TLAPS

ReadingStore(e, slot) == [entry |-> e, of |-> "reading", value |-> slot]
ConsumedStore(e, t)   == [entry |-> e, of |-> "consumed", value |-> t]

Store == [entry : Entries, of : {"reading"}, value : Slots \union {kNotReading}]
           \union [entry : Entries, of : {"consumed"}, value : Token]

\* An older token, or the very same.
UpTo(t, u) == t.generation < u.generation \/ t = u

\* The stores under way.  An announcement is the last of them until the visit
\* ends, or it is in memory.
BufferInv ==
  /\ buffer \in Seq(Store)
  /\ \A i \in 1..Len(buffer) :
        buffer[i].of = "consumed" => UpTo(buffer[i].value, acknowledged[buffer[i].entry])
  /\ consumer = "idle" => buffer = <<>>
  /\ consumer \in {"confirm", "read"} =>
        IF buffer = <<>> THEN reading[visited] = token.slot
                         ELSE buffer[Len(buffer)] = ReadingStore(visited, token.slot)
  /\ consumer = "read" /\ ~late => buffer = <<>>

\* A plug-in has one entry, and the entries claimed come first.
EntriesInv ==
  /\ \A e, f \in Entries : logicalId[e] = logicalId[f] /\ logicalId[e] # NoPlugin => e = f
  /\ \A e, f \in Entries : e < f /\ logicalId[e] = NoPlugin => logicalId[f] = NoPlugin

\* What is published in an entry and not acknowledged is the latest image of its
\* plug-in, and nothing is left to settle where all is acknowledged.
EntryInv(e) ==
  /\ UpTo(consumed[e], acknowledged[e]) /\ UpTo(acknowledged[e], published[e])
  /\ published[e].generation <= generation
  /\ logicalId[e] = NoPlugin => published[e] = NoToken
  /\ logicalId[e] # NoPlugin =>
        IF acknowledged[e] = published[e]
          THEN settled[logicalId[e]] = latest[logicalId[e]]
          ELSE /\ published[e].generation = latest[logicalId[e]]
               /\ commands[e][published[e].slot] =
                     [plugin |-> logicalId[e], generation |-> published[e].generation]

\* A plug-in without an entry has nothing to settle.
HomelessInv ==
  \A p \in Plugins : (\A e \in Entries : logicalId[e] # p) => latest[p] = settled[p]

\* publish() writes a slot that is not published nor, unless its announcement
\* was late, being read.
ProducerInv ==
  /\ producer # "idle" => plugin \in Plugins
  /\ producer \in {"scanReading", "scanConsumed", "choose", "write"} => generation < MaxGeneration
  /\ producer \in {"scanReading", "scanConsumed"} =>
        \A e \in Entries : logicalId[e] \notin {plugin, NoPlugin}
  /\ producer \in {"choose", "write", "publish"} => logicalId[entry] = plugin
  /\ producer \in {"write", "publish"} =>
        /\ writeSlot # published[entry].slot
        /\ consumer = "read" /\ ~late /\ visited = entry => writeSlot # token.slot
  /\ producer = "publish" =>
        /\ commands[entry][writeSlot] = [plugin |-> plugin, generation |-> generation]
        /\ \A e \in Entries : published[e].generation < generation
        /\ \A p \in Plugins : delivered[p] < generation

\* The token of a visit is newer than what was consumed and no newer than what
\* is published; once confirmed, its slot holds an image of the plug-in, the one
\* the token stands for as long as that is the one published.
VisitInv ==
  /\ consumer \in {"announce", "confirm"} => attempt <= kMaxAttempts
  /\ consumer \in {"announce", "confirm", "read", "acknowledge"} =>
        /\ logicalId[visited] # NoPlugin
        /\ acknowledged[visited].generation < token.generation
        /\ UpTo(token, published[visited])
  /\ consumer = "read" =>
        /\ commands[visited][token.slot].plugin = logicalId[visited]
        /\ \/ commands[visited][token.slot].generation = token.generation
           \/ published[visited] # token
  /\ consumer = "acknowledge" => settled[logicalId[visited]] = token.generation
  /\ \A p \in Plugins : delivered[p] <= generation

MailboxInv ==
  /\ TypeOK /\ BufferInv /\ EntriesInv /\ (\A e \in Entries : EntryInv(e)) /\ HomelessInv
  /\ ProducerInv /\ VisitInv

\* A set of entries has a first one.
LEMMA LeastIsFirst ==
  ASSUME NEW S \in SUBSET Nat, S # {}
  PROVE  Least(S) \in S /\ \A x \in S : Least(S) <= x
<1> DEFINE less == {pair \in Nat \X Nat : pair[1] < pair[2]}
<1>1. IsWellFoundedOn(less, Nat)
  BY NatLessThanWellFounded DEF OpToRel
<1> HIDE DEF less
<1>2. PICK x \in S : \A y \in S : ~(<<y, x>> \in less)
  BY <1>1, WFMin
<1>3. ASSUME NEW y \in S
      PROVE  x <= y
  <2>1. x \in Nat /\ y \in Nat /\ (y < x => <<y, x>> \in less)
    BY DEF less
  <2>2. QED BY <1>2, <2>1
<1>4. QED BY <1>3 DEF Least

\* Three slots and at most two to avoid.
LEMMA SlotIsFree ==
  ASSUME NEW a, NEW b
  PROVE  /\ Least(Slots \ {a, b}) \in Slots
         /\ Least(Slots \ {a, b}) # a /\ Least(Slots \ {a, b}) # b
<1>1. Slots = {0, 1, 2} /\ Slots \ {a, b} \in SUBSET Nat /\ Slots \ {a, b} # {}
  BY DEF Slots
<1>2. QED BY <1>1, LeastIsFirst

\* The types the lemmas below keep needing.
LEMMA MailboxTypes ==
  ASSUME MailboxInv
  PROVE  /\ logicalId \in [Entries -> Plugins \union {NoPlugin}] /\ NoPlugin \notin Plugins
         /\ commands \in [Entries -> [Slots -> Command]]
         /\ published \in [Entries -> Token] /\ consumed \in [Entries -> Token]
         /\ acknowledged \in [Entries -> Token]
         /\ generation \in Nat /\ generation <= MaxGeneration /\ MaxGeneration \in Nat
         /\ entry \in Entries /\ writeSlot \in Slots /\ visited \in Entries /\ token \in Token
         /\ plugin \in Plugins \union {NoPlugin}
         /\ latest \in [Plugins -> 0..MaxGeneration] /\ settled \in [Plugins -> 0..MaxGeneration]
         /\ delivered \in [Plugins -> 0..MaxGeneration]
         /\ EntryCount \in Nat \ {0} /\ Entries = 1..EntryCount
         /\ \A t \in Token : t.generation \in Nat /\ t.slot \in Slots
<1>1. \A t \in Token : t.generation \in Nat /\ t.slot \in Slots
  BY MailboxAssumption DEF Token
<1>2. QED BY <1>1, MailboxAssumption DEF MailboxInv, TypeOK, Entries

\* What is known of one entry.
LEMMA EntryFacts ==
  ASSUME MailboxInv, NEW e \in Entries
  PROVE  /\ EntryInv(e)
         /\ acknowledged[e] \in Token
         /\ UpTo(consumed[e], acknowledged[e]) /\ UpTo(acknowledged[e], published[e])
         /\ published[e].generation <= generation
         /\ consumed[e].generation \in Nat /\ acknowledged[e].generation \in Nat
         /\ published[e].generation \in Nat /\ published[e].slot \in Slots
<1>1. EntryInv(e)
  BY DEF MailboxInv
<1>2. QED BY <1>1, MailboxTypes DEF EntryInv

\* Nothing is claimed, published or under way.
LEMMA MailboxInit ==
  ASSUME Init
  PROVE  MailboxInv
<1>1. MaxGeneration \in Nat /\ EntryCount \in Nat \ {0} /\ 1 \in Entries
  BY MailboxAssumption DEF Entries
<1>2. NoToken \in Token /\ NoCommand \in Command /\ 0 \in Slots
  BY <1>1 DEF NoToken, NoCommand, Token, Command, Slots
<1>3. TypeOK
  <2>1. /\ logicalId \in [Entries -> Plugins \union {NoPlugin}]
        /\ commands \in [Entries -> [Slots -> Command]]
        /\ published \in [Entries -> Token] /\ consumed \in [Entries -> Token]
        /\ acknowledged \in [Entries -> Token]
        /\ reading \in [Entries -> Slots \union {kNotReading}]
    BY <1>2 DEF Init
  <2>2. \A h \in {latest, delivered, settled} : h \in [Plugins -> 0..MaxGeneration]
    BY <1>1 DEF Init
  <2>3. /\ generation \in 0..MaxGeneration /\ plugin \in Plugins \union {NoPlugin}
        /\ entry \in Entries /\ writeSlot \in Slots /\ visited \in Entries
        /\ token \in Token /\ attempt \in 0..(kMaxAttempts + 1)
        /\ producer = "idle" /\ consumer = "idle"
    BY <1>1, <1>2 DEF Init, kMaxAttempts
  <2>4. spoiled \in [Plugins -> BOOLEAN] /\ late \in BOOLEAN
    BY DEF Init
  <2>5. QED BY <2>1, <2>2, <2>3, <2>4 DEF TypeOK
<1>5. \A e \in Entries : EntryInv(e)
  <2> SUFFICES ASSUME NEW e \in Entries
               PROVE  EntryInv(e)
    OBVIOUS
  <2>1. /\ published[e] = NoToken /\ consumed[e] = NoToken /\ acknowledged[e] = NoToken
        /\ logicalId[e] = NoPlugin
    BY DEF Init
  <2>2. NoToken.generation <= generation
    BY DEF Init, NoToken
  <2>3. QED BY <1>2, <2>1, <2>2 DEF EntryInv, UpTo
<1>6. BufferInv /\ EntriesInv /\ HomelessInv
  BY DEF Init, BufferInv, EntriesInv, HomelessInv
<1>7. ProducerInv /\ VisitInv
  BY DEF Init, ProducerInv, VisitInv
<1>8. QED BY <1>3, <1>5, <1>6, <1>7 DEF MailboxInv

\* An entry about which nothing changes, a consumed token reaching memory
\* included.
LEMMA EntryKept ==
  ASSUME NEW e \in Entries, EntryInv(e),
         UNCHANGED <<logicalId[e], commands[e], published[e], generation, latest, settled>>,
         acknowledged'[e] = acknowledged[e], UpTo(consumed'[e], acknowledged[e])
  PROVE  EntryInv(e)'
BY DEF EntryInv, UpTo

------------------------------------------------------------------------------
(* publish()                                                                *)

\* A step of the producer that writes nothing the consumer reads.
LEMMA ProducerQuiet ==
  ASSUME MailboxInv, UNCHANGED <<sharedVars, consumerVars, buffer, historyVars>>,
         TypeOK', ProducerInv'
  PROVE  MailboxInv'
<1>1. UNCHANGED <<logicalId, commands, published, reading, consumed, generation,
                  consumer, visited, token, attempt, acknowledged, late, buffer, latest, delivered, settled, spoiled>>
  BY DEF sharedVars, consumerVars, historyVars
<1>2. \A e \in Entries : EntryInv(e)'
  BY <1>1, EntryKept, EntryFacts
<1>3. BufferInv' /\ EntriesInv' /\ HomelessInv'
  BY <1>1 DEF MailboxInv, BufferInv, EntriesInv, HomelessInv
<1>4. VisitInv'
  BY <1>1 DEF MailboxInv, VisitInv, TypeOK
<1>5. QED BY <1>2, <1>3, <1>4 DEF MailboxInv

\* The first scan finds the entry of the plug-in: were there an unclaimed one
\* before it, the entries claimed would not come first.
LEMMA BeginPublishStep ==
  ASSUME MailboxInv, NEW p \in Plugins, BeginPublish(p)
  PROVE  MailboxInv'
<1> DEFINE own == {e \in Entries : logicalId[e] \in {p, NoPlugin}}
<1>0. Entries \subseteq Nat /\ 1 \in Entries
  BY MailboxTypes
<1>1. CASE own = {}
  <2>1. /\ UNCHANGED <<sharedVars, writeSlot, consumerVars, buffer, historyVars>>
        /\ plugin' = p /\ entry' = 1 /\ producer' = "scanReading" /\ generation < MaxGeneration
    BY <1>1 DEF BeginPublish, sharedVars
  <2>2. TypeOK'
    BY <1>0, <2>1 DEF MailboxInv, TypeOK, sharedVars, consumerVars, historyVars
  <2>3. ProducerInv'
    BY <1>1, <2>1 DEF ProducerInv, sharedVars
  <2>4. QED BY <2>1, <2>2, <2>3, ProducerQuiet
<1>2. CASE own # {}
  <2> DEFINE e0 == Least(own)
  <2>1. e0 \in own /\ \A e \in own : e0 <= e
    BY <1>0, <1>2, LeastIsFirst
  <2>2. /\ entry' = e0 /\ logicalId' = [logicalId EXCEPT ![e0] = p] /\ producer' = "choose"
        /\ plugin' = p /\ generation < MaxGeneration
        /\ UNCHANGED <<commands, published, reading, consumed, generation, writeSlot,
                       consumer, visited, token, attempt, acknowledged, late, buffer, latest, delivered, settled, spoiled>>
    BY <1>2 DEF BeginPublish, consumerVars, historyVars
  <2> HIDE DEF e0, own
  <2>3. e0 \in Entries /\ logicalId[e0] \in {p, NoPlugin}
        /\ \A e \in Entries : logicalId[e] \in {p, NoPlugin} => e0 <= e
    BY <2>1 DEF own
  <2>4. TypeOK'
    BY <2>2, <2>3 DEF MailboxInv, TypeOK
  <2>5. /\ \A e \in Entries : logicalId'[e] = IF e = e0 THEN p ELSE logicalId[e]
        /\ \A e \in Entries \ {e0} : logicalId[e] # p
    <3>1. \A e \in Entries \ {e0} : logicalId[e] # p
      <4>1. SUFFICES ASSUME NEW e \in Entries, e # e0, logicalId[e] = p
                     PROVE  FALSE
        OBVIOUS
      <4>2. e0 < e
        BY <1>0, <2>3, <4>1
      <4>3. logicalId[e0] # NoPlugin
        BY <2>3, <4>1, <4>2, MailboxTypes DEF MailboxInv, EntriesInv
      <4>4. QED BY <2>3, <4>1, <4>3 DEF MailboxInv, EntriesInv
    <3>2. QED BY <2>2, <3>1, MailboxTypes
  <2>6. \A e \in Entries : e < e0 => logicalId[e] # NoPlugin
    BY <1>0, <2>3
  <2>7. EntriesInv'
    <3>1. ASSUME NEW e \in Entries, NEW f \in Entries, logicalId'[e] = logicalId'[f],
                 logicalId'[e] # NoPlugin
          PROVE  e = f
      BY <2>5, <3>1 DEF MailboxInv, EntriesInv
    <3>2. ASSUME NEW e \in Entries, NEW f \in Entries, e < f, logicalId'[e] = NoPlugin
          PROVE  logicalId'[f] = NoPlugin
      <4>1. logicalId[e] = NoPlugin /\ e # e0
        BY <2>5, <3>2, MailboxTypes
      <4>2. ~(e < e0)
        BY <2>6, <4>1
      <4>3. f # e0
        BY <3>2, <4>2
      <4>4. logicalId[f] = NoPlugin
        BY <3>2, <4>1 DEF MailboxInv, EntriesInv
      <4>5. QED BY <2>5, <4>3, <4>4
    <3>3. QED BY <3>1, <3>2 DEF EntriesInv
  <2>8. HomelessInv'
    <3> SUFFICES ASSUME NEW q \in Plugins, \A e \in Entries : logicalId'[e] # q
                 PROVE  latest[q] = settled[q]
      BY <2>2 DEF HomelessInv
    <3>1. \A e \in Entries : logicalId[e] # q
      BY <2>3, <2>5, MailboxTypes
    <3>2. QED BY <3>1 DEF MailboxInv, HomelessInv
  <2>10. ASSUME NEW e \in Entries
         PROVE  EntryInv(e)'
    <3>1. CASE e # e0 \/ logicalId[e] = p
      <4>1. logicalId'[e] = logicalId[e]
        BY <2>3, <2>5, <3>1
      <4>2. QED BY <2>2, <4>1, EntryKept, EntryFacts
    <3>2. CASE e = e0 /\ logicalId[e] = NoPlugin
      <4>1. \A f \in Entries : logicalId[f] # p
        BY <2>5, <3>2, MailboxTypes
      <4>2. latest[p] = settled[p]
        BY <4>1 DEF MailboxInv, HomelessInv
      <4>3. published[e] = NoToken /\ acknowledged[e] = published[e]
        <5>1. published[e] = NoToken /\ UpTo(acknowledged[e], published[e])
              /\ acknowledged[e] \in Token
          BY <3>2, EntryFacts DEF EntryInv
        <5>2. ~(acknowledged[e].generation < NoToken.generation)
          BY <5>1, MailboxAssumption DEF Token, NoToken
        <5>3. QED BY <5>1, <5>2 DEF UpTo
      <4>4. QED BY <2>2, <2>5, <3>2, <4>2, <4>3, MailboxTypes, EntryFacts DEF EntryInv
    <3>3. QED BY <2>3, <3>1, <3>2
  <2>11. BufferInv'
    BY <2>2 DEF MailboxInv, BufferInv
  <2>12. ProducerInv'
    BY <2>2, <2>3, <2>5 DEF ProducerInv
  <2>13. VisitInv'
    <3>1. consumer \in {"announce", "confirm", "read", "acknowledge"} =>
             logicalId'[visited] = logicalId[visited]
      <4>1. SUFFICES ASSUME logicalId[visited] # NoPlugin
                     PROVE  logicalId'[visited] = logicalId[visited]
        BY DEF MailboxInv, VisitInv
      <4>2. QED BY <2>3, <2>5, <4>1, MailboxTypes
    <3>2. QED BY <2>2, <3>1, MailboxTypes DEF MailboxInv, VisitInv
  <2>14. QED BY <2>4, <2>7, <2>8, <2>10, <2>11, <2>12, <2>13 DEF MailboxInv
<1>3. QED BY <1>1, <1>2

\* A step of the second scan goes on with the next entry or gives up.
LEMMA ScanReadingStep ==
  ASSUME MailboxInv, ScanReading
  PROVE  MailboxInv'
<1>1. /\ UNCHANGED <<sharedVars, writeSlot, consumerVars, buffer, historyVars>>
      /\ \/ producer' = "scanConsumed" /\ UNCHANGED <<plugin, entry>>
         \/ producer' = "idle" /\ plugin' = NoPlugin /\ entry' = 1
         \/ producer' = "scanReading" /\ entry' = entry + 1 /\ entry # EntryCount /\ UNCHANGED plugin
      /\ producer = "scanReading"
  BY DEF ScanReading, NextCandidate
<1>2. entry' \in Entries
  BY <1>1, MailboxTypes
<1>3. TypeOK'
  BY <1>1, <1>2, MailboxTypes DEF MailboxInv, TypeOK, sharedVars, consumerVars, historyVars
<1>4. ProducerInv'
  BY <1>1 DEF MailboxInv, ProducerInv, sharedVars, consumerVars, historyVars
<1>5. QED BY <1>1, <1>3, <1>4, ProducerQuiet

\* What the consumer holds a token of is not all acknowledged, in memory neither.
LEMMA HeldIsPending ==
  ASSUME MailboxInv, consumer \in {"announce", "confirm", "read", "acknowledge"}
  PROVE  /\ acknowledged[visited] # published[visited]
         /\ consumed[visited] # published[visited]
<1>1. /\ acknowledged[visited].generation < token.generation /\ UpTo(token, published[visited])
      /\ UpTo(consumed[visited], acknowledged[visited])
  BY MailboxTypes DEF MailboxInv, VisitInv, EntryInv
<1>2. /\ acknowledged[visited].generation \in Nat /\ token.generation \in Nat
      /\ published[visited].generation \in Nat /\ consumed[visited].generation \in Nat
  BY MailboxTypes, EntryFacts
<1>3. QED BY <1>1, <1>2 DEF UpTo

\* What is consumed in memory is consumed.
LEMMA ConsumedIsSettled ==
  ASSUME MailboxInv, NEW e \in Entries, consumed[e] = published[e]
  PROVE  acknowledged[e] = published[e]
<1>1. /\ UpTo(consumed[e], acknowledged[e]) /\ UpTo(acknowledged[e], consumed[e])
  BY EntryFacts
<1>2. consumed[e].generation \in Nat /\ acknowledged[e].generation \in Nat
  BY EntryFacts
<1>3. QED BY <1>1, <1>2 DEF UpTo

\* An entry is recycled when all of it was consumed; then its plug-in has
\* nothing to settle and can do without, and no pass is inside it.
LEMMA ScanConsumedStep ==
  ASSUME MailboxInv, ScanConsumed
  PROVE  MailboxInv'
<1>1. CASE consumed[entry] # published[entry]
  <2>1. /\ UNCHANGED <<sharedVars, writeSlot, consumerVars, buffer, historyVars>>
        /\ \/ producer' = "idle" /\ plugin' = NoPlugin /\ entry' = 1
           \/ producer' = "scanReading" /\ entry' = entry + 1 /\ entry # EntryCount /\ UNCHANGED plugin
        /\ producer = "scanConsumed"
    BY <1>1 DEF ScanConsumed, NextCandidate, sharedVars
  <2>2. entry' \in Entries
    BY <2>1, MailboxTypes
  <2>3. TypeOK'
    BY <2>1, <2>2, MailboxTypes DEF MailboxInv, TypeOK, sharedVars, consumerVars, historyVars
  <2>4. ProducerInv'
    BY <2>1 DEF MailboxInv, ProducerInv, sharedVars, consumerVars, historyVars
  <2>5. QED BY <2>1, <2>3, <2>4, ProducerQuiet
<1>2. CASE consumed[entry] = published[entry]
  <2>1. /\ logicalId' = [logicalId EXCEPT ![entry] = plugin] /\ producer' = "choose"
        /\ producer = "scanConsumed"
        /\ UNCHANGED <<commands, published, reading, consumed, generation, plugin, entry, writeSlot,
                       consumer, visited, token, attempt, acknowledged, late, buffer, latest, delivered, settled, spoiled>>
    BY <1>2 DEF ScanConsumed, consumerVars, historyVars
  <2>2. /\ plugin \in Plugins /\ \A e \in Entries : logicalId[e] \notin {plugin, NoPlugin}
        /\ generation < MaxGeneration
    BY <2>1 DEF MailboxInv, ProducerInv
  <2>3. \A e \in Entries : logicalId'[e] = IF e = entry THEN plugin ELSE logicalId[e]
    BY <2>1, MailboxTypes
  <2>4. TypeOK'
    BY <2>1, <2>2 DEF MailboxInv, TypeOK
  <2>5. acknowledged[entry] = published[entry] /\ entry \in Entries /\ NoPlugin \notin Plugins
    BY <1>2, ConsumedIsSettled, MailboxTypes
  <2>6. settled[logicalId[entry]] = latest[logicalId[entry]]
    BY <2>2, <2>5, MailboxTypes, EntryFacts DEF EntryInv
  <2>7. latest[plugin] = settled[plugin]
    BY <2>2 DEF MailboxInv, HomelessInv
  <2>8. EntriesInv'
    BY <2>2, <2>3, <2>5 DEF MailboxInv, EntriesInv
  <2>9. HomelessInv'
    <3> SUFFICES ASSUME NEW q \in Plugins, \A e \in Entries : logicalId'[e] # q
                 PROVE  latest[q] = settled[q]
      BY <2>1 DEF HomelessInv
    <3>1. CASE q = logicalId[entry]
      BY <2>6, <3>1
    <3>2. CASE q # logicalId[entry]
      BY <2>3, <3>2 DEF MailboxInv, HomelessInv
    <3>3. QED BY <3>1, <3>2
  <2>11. ASSUME NEW e \in Entries
         PROVE  EntryInv(e)'
    <3>1. CASE e # entry
      BY <2>1, <2>3, <3>1, EntryKept, EntryFacts
    <3>2. CASE e = entry
      <4>1. /\ logicalId'[e] = plugin /\ plugin # NoPlugin /\ latest'[plugin] = settled'[plugin]
            /\ acknowledged'[e] = acknowledged[e] /\ acknowledged'[e] = published'[e]
        BY <2>1, <2>2, <2>3, <2>5, <2>7, <3>2
      <4>2. UNCHANGED <<published[e], consumed[e], generation>>
        BY <2>1
      <4>3. QED BY <4>1, <4>2, EntryFacts DEF EntryInv, UpTo
    <3>3. QED BY <3>1, <3>2
  <2>12. BufferInv' /\ ProducerInv'
    BY <2>1, <2>2, <2>3, <2>5 DEF MailboxInv, BufferInv, ProducerInv
  <2>13. VisitInv'
    <3>1. consumer \in {"announce", "confirm", "read", "acknowledge"} => visited # entry
      BY <1>2, HeldIsPending
    <3>2. QED BY <2>1, <2>3, <3>1, MailboxTypes DEF MailboxInv, VisitInv
  <2>14. QED BY <2>4, <2>8, <2>9, <2>11, <2>12, <2>13 DEF MailboxInv
<1>3. QED BY <1>1, <1>2

\* The slot chosen is neither the published one nor the one announced.
LEMMA ChooseSlotStep ==
  ASSUME MailboxInv, ChooseSlot
  PROVE  MailboxInv'
<1>1. /\ UNCHANGED <<sharedVars, plugin, entry, consumerVars, buffer, historyVars>>
      /\ producer = "choose" /\ producer' = "write"
  BY DEF ChooseSlot
<1>2. /\ writeSlot' \in Slots /\ writeSlot' # published[entry].slot
      /\ writeSlot' # reading[entry]
  BY SlotIsFree DEF ChooseSlot
<1>3. TypeOK'
  BY <1>1, <1>2 DEF MailboxInv, TypeOK, sharedVars, consumerVars, historyVars
<1>4. consumer = "read" /\ ~late => reading[visited] = token.slot
  BY DEF MailboxInv, BufferInv
<1>5. ProducerInv'
  BY <1>1, <1>2, <1>4 DEF MailboxInv, ProducerInv, sharedVars, consumerVars, historyVars
<1>6. QED BY <1>1, <1>3, <1>5, ProducerQuiet

\* The image is written where nobody looks.
LEMMA WriteCommandStep ==
  ASSUME MailboxInv, WriteCommand
  PROVE  MailboxInv'
<1> DEFINE image == [plugin |-> plugin, generation |-> generation + 1]
<1>1. /\ commands' = [commands EXCEPT ![entry][writeSlot] = image]
      /\ generation' = generation + 1 /\ producer = "write" /\ producer' = "publish"
      /\ UNCHANGED <<logicalId, published, reading, consumed, plugin, entry, writeSlot,
                     consumer, visited, token, attempt, acknowledged, late, buffer, latest, delivered, settled, spoiled>>
  BY DEF WriteCommand, consumerVars, historyVars
<1>2. /\ plugin \in Plugins /\ generation < MaxGeneration /\ logicalId[entry] = plugin
      /\ writeSlot # published[entry].slot
      /\ consumer = "read" /\ ~late /\ visited = entry => writeSlot # token.slot
  BY <1>1 DEF MailboxInv, ProducerInv
<1>3. generation + 1 \in 0..MaxGeneration /\ image \in Command
  BY <1>2, MailboxTypes DEF Command
<1> HIDE DEF image
<1>4. /\ commands' \in [Entries -> [Slots -> Command]]
      /\ commands'[entry][writeSlot] = image
      /\ \A e \in Entries, s \in Slots :
            e # entry \/ s # writeSlot => commands'[e][s] = commands[e][s]
  BY <1>1, <1>3, MailboxTypes
<1>5. TypeOK'
  BY <1>1, <1>3, <1>4 DEF MailboxInv, TypeOK
<1>7. ASSUME NEW e \in Entries
      PROVE  EntryInv(e)'
  <2>1. commands'[e][published[e].slot] = commands[e][published[e].slot]
    <3>1. published[e].slot \in Slots
      BY MailboxTypes
    <3>2. QED BY <1>2, <1>4, <3>1
  <2>2. published[e].generation <= generation + 1
    <3> QED BY MailboxTypes, EntryFacts
  <2>3. EntryInv(e) /\ acknowledged'[e] = acknowledged[e]
    BY <1>1, EntryFacts
  <2>4. /\ UNCHANGED <<logicalId[e], published[e], consumed[e], latest, settled>>
        /\ generation' = generation + 1
    BY <1>1
  <2>5. QED BY <2>1, <2>2, <2>3, <2>4 DEF EntryInv
<1>8. BufferInv' /\ EntriesInv' /\ HomelessInv'
  BY <1>1 DEF MailboxInv, BufferInv, EntriesInv, HomelessInv
<1>9. ProducerInv'
  <2>1. \A e \in Entries : published[e].generation < generation + 1
    <3> SUFFICES ASSUME NEW e \in Entries
                 PROVE  published[e].generation < generation + 1
      OBVIOUS
    <3> QED BY MailboxTypes, EntryFacts
  <2>2. \A p \in Plugins : delivered[p] < generation + 1
    BY MailboxTypes DEF MailboxInv, VisitInv
  <2>3. QED BY <1>1, <1>2, <1>4, <2>1, <2>2 DEF ProducerInv, image
<1>10. VisitInv'
  <2>1. ASSUME consumer = "read"
        PROVE  /\ commands'[visited][token.slot].plugin = logicalId[visited]
               /\ \/ commands'[visited][token.slot].generation = token.generation
                  \/ published[visited] # token
    <3>1. token.slot \in Slots /\ visited \in Entries
      BY MailboxTypes
    <3>2. CASE visited = entry /\ token.slot = writeSlot
      <4>1. commands'[visited][token.slot] = image /\ published[visited] # token
        BY <1>2, <1>4, <3>2
      <4>2. QED BY <1>2, <3>2, <4>1 DEF image
    <3>3. CASE ~(visited = entry /\ token.slot = writeSlot)
      <4>1. commands'[visited][token.slot] = commands[visited][token.slot]
        BY <1>4, <3>1, <3>3
      <4>2. QED BY <2>1, <4>1 DEF MailboxInv, VisitInv
    <3>4. QED BY <3>2, <3>3
  <2>2. \A p \in Plugins : delivered[p] <= generation + 1
    BY MailboxTypes DEF MailboxInv, VisitInv
  <2>3. QED BY <1>1, <2>1, <2>2, MailboxTypes DEF MailboxInv, VisitInv
<1>11. QED BY <1>5, <1>7, <1>8, <1>9, <1>10 DEF MailboxInv

\* What is published is newer than anything before, and so not yet settled.
LEMMA PublishTokenStep ==
  ASSUME MailboxInv, PublishToken
  PROVE  MailboxInv'
<1> DEFINE new == [generation |-> generation, slot |-> writeSlot]
<1>1. /\ published' = [published EXCEPT ![entry] = new]
      /\ latest' = [latest EXCEPT ![plugin] = generation]
      /\ producer = "publish" /\ producer' = "idle" /\ plugin' = NoPlugin /\ entry' = 1
      /\ writeSlot' = 0
      /\ UNCHANGED <<logicalId, commands, reading, consumed, generation,
                     consumer, visited, token, attempt, acknowledged, late, buffer, delivered,
                     settled, spoiled>>
  BY DEF PublishToken, consumerVars
<1>2. /\ plugin \in Plugins /\ logicalId[entry] = plugin
      /\ commands[entry][writeSlot] = [plugin |-> plugin, generation |-> generation]
      /\ \A e \in Entries : published[e].generation < generation
  BY <1>1 DEF MailboxInv, ProducerInv
<1>3. new \in Token /\ 1 \in Entries /\ 0 \in Slots
  BY MailboxTypes DEF Token, Slots
<1>4. /\ \A e \in Entries : published'[e] = IF e = entry THEN new ELSE published[e]
      /\ \A p \in Plugins : latest'[p] = IF p = plugin THEN generation ELSE latest[p]
      /\ latest' \in [Plugins -> 0..MaxGeneration] /\ published' \in [Entries -> Token]
  BY <1>1, <1>2, <1>3, MailboxTypes
<1>5. new.generation = generation /\ new.slot = writeSlot
  OBVIOUS
<1> HIDE DEF new
<1>6. TypeOK'
  BY <1>1, <1>3, <1>4 DEF MailboxInv, TypeOK
<1>8. ASSUME NEW e \in Entries
      PROVE  EntryInv(e)'
  <2>1. CASE e # entry
    <3>1. logicalId[e] # plugin \/ logicalId[e] = NoPlugin
      BY <1>2, <2>1, MailboxTypes DEF MailboxInv, EntriesInv
    <3>2. logicalId[e] # NoPlugin => latest'[logicalId[e]] = latest[logicalId[e]]
      BY <1>4, <3>1, MailboxTypes
    <3>3. published'[e] = published[e] /\ acknowledged'[e] = acknowledged[e]
      BY <1>1, <1>4, <2>1
    <3>4. UNCHANGED <<logicalId[e], commands[e], consumed[e], generation, settled>>
      BY <1>1
    <3>5. EntryInv(e)
      BY EntryFacts
    <3>6. QED BY <3>2, <3>3, <3>4, <3>5 DEF EntryInv
  <2>2. CASE e = entry
    <3>1. acknowledged[e].generation \in Nat /\ published[e].generation \in Nat
      BY EntryFacts
    <3>2. acknowledged[e].generation < generation
      <4>1. UpTo(acknowledged[e], published[e]) /\ published[e].generation < generation
        BY <1>2, EntryFacts
      <4>2. generation \in Nat
        BY MailboxTypes
      <4>3. QED BY <3>1, <4>1, <4>2 DEF UpTo
    <3>3. UpTo(acknowledged[e], new) /\ acknowledged[e] # new
      BY <1>5, <3>1, <3>2, MailboxTypes DEF UpTo
    <3>4. /\ logicalId'[e] = plugin /\ plugin # NoPlugin /\ published'[e] = new
          /\ latest'[plugin] = generation /\ acknowledged'[e] = acknowledged[e]
          /\ generation \in Nat
          /\ commands'[e][new.slot] = [plugin |-> plugin, generation |-> generation]
      BY <1>1, <1>2, <1>4, <1>5, <2>2, MailboxTypes
    <3>5. UNCHANGED <<consumed[e], generation>>
      BY <1>1
    <3>6. /\ UpTo(consumed'[e], acknowledged'[e])
          /\ UpTo(acknowledged'[e], published'[e]) /\ acknowledged'[e] # published'[e]
          /\ published'[e].generation = generation /\ published'[e].slot = new.slot
          /\ generation <= generation'
      BY <1>5, <3>3, <3>4, <3>5, EntryFacts
    <3>7. QED BY <3>4, <3>5, <3>6 DEF EntryInv
  <2>3. QED BY <2>1, <2>2
<1>9. HomelessInv'
  BY <1>1, <1>2, <1>4, MailboxTypes DEF MailboxInv, HomelessInv
<1>10. BufferInv' /\ EntriesInv' /\ ProducerInv'
  BY <1>1 DEF MailboxInv, BufferInv, EntriesInv, ProducerInv
<1>11. VisitInv'
  <2>1. UpTo(token, published[visited]) => UpTo(token, published'[visited])
    <3>1. /\ token.generation \in Nat /\ published[visited].generation \in Nat
          /\ published[visited].generation < generation
      BY <1>2, MailboxTypes
    <3>2. published'[visited] = new \/ published'[visited] = published[visited]
      BY <1>4, MailboxTypes
    <3>3. token.generation < generation \/ ~UpTo(token, published[visited])
      BY <3>1, MailboxTypes DEF UpTo
    <3>4. QED BY <1>5, <3>2, <3>3 DEF UpTo
  <2>2. consumer = "read" /\ published[visited] # token => published'[visited] # token
    <3>1. SUFFICES ASSUME consumer = "read", visited = entry
                   PROVE  new # token
      BY <1>4, MailboxTypes
    <3>2. /\ UpTo(token, published[visited]) /\ published[visited].generation < generation
          /\ token.generation \in Nat /\ published[visited].generation \in Nat
      BY <1>2, <3>1, MailboxTypes DEF MailboxInv, VisitInv
    <3>3. QED BY <1>5, <3>2, MailboxTypes DEF UpTo
  <2>3. QED BY <1>1, <2>1, <2>2, MailboxTypes DEF MailboxInv, VisitInv
<1>12. QED BY <1>6, <1>8, <1>9, <1>10, <1>11 DEF MailboxInv

------------------------------------------------------------------------------
(* consumePending()                                                         *)

\* A step of the consumer that stores nothing and delivers nothing.
LEMMA ConsumerQuiet ==
  ASSUME MailboxInv, UNCHANGED <<sharedVars, producerVars, buffer, acknowledged, historyVars>>,
         visited' \in Entries, token' \in Token, attempt' \in 0..(kMaxAttempts + 1),
         consumer' \in {"idle", "visit", "announce", "confirm", "read", "acknowledge",
                        "release", "leave"},
         late' \in BOOLEAN, BufferInv', VisitInv',
         (consumer' = "read" /\ visited' = entry /\ producer \in {"write", "publish"})
            => writeSlot # token'.slot
  PROVE  MailboxInv'
<1>1. UNCHANGED <<logicalId, commands, published, reading, consumed, generation, producer, plugin,
                  entry, writeSlot, buffer, acknowledged, latest, delivered, settled, spoiled>>
  BY DEF sharedVars, producerVars, historyVars
<1>2. TypeOK'
  BY <1>1 DEF MailboxInv, TypeOK
<1>3. \A e \in Entries : EntryInv(e)'
  BY <1>1, EntryKept, EntryFacts
<1>4. EntriesInv' /\ HomelessInv'
  BY <1>1 DEF MailboxInv, EntriesInv, HomelessInv
<1>5. ProducerInv'
  BY <1>1 DEF MailboxInv, ProducerInv
<1>6. QED BY <1>2, <1>3, <1>4, <1>5 DEF MailboxInv

\* A pass begins and ends with all its stores in memory.
LEMMA PassSteps ==
  ASSUME MailboxInv, BeginConsume \/ EndConsume
  PROVE  MailboxInv'
<1>1. /\ UNCHANGED <<sharedVars, producerVars, token, attempt, buffer, acknowledged, late,
                     historyVars>>
      /\ buffer = <<>> /\ consumer' \in {"visit", "idle"} /\ visited' \in {1, visited}
  BY DEF MailboxInv, BufferInv, BeginConsume, EndConsume
<1>2. /\ visited' \in Entries /\ token' \in Token /\ attempt' \in 0..(kMaxAttempts + 1)
      /\ late' \in BOOLEAN
  BY <1>1, MailboxTypes DEF MailboxInv, TypeOK
<1>3. BufferInv'
  BY <1>1 DEF MailboxInv, BufferInv
<1>4. VisitInv'
  BY <1>1 DEF MailboxInv, VisitInv, sharedVars, historyVars
<1>5. QED BY <1>1, <1>2, <1>3, <1>4, ConsumerQuiet

\* Where the next visit is.
LEMMA NextEntryFacts ==
  ASSUME MailboxInv, NextEntry
  PROVE  /\ visited' \in Entries /\ token' \in Token /\ attempt' = 0
         /\ consumer' \in {"visit", "leave"} /\ attempt' \in 0..(kMaxAttempts + 1)
<1>1. NoToken \in Token
  BY MailboxAssumption DEF NoToken, Token, Slots
<1>2. QED BY <1>1, MailboxTypes DEF NextEntry, kMaxAttempts

\* An entry is visited when something in it is not consumed.
LEMMA VisitStep ==
  ASSUME MailboxInv, Visit
  PROVE  MailboxInv'
<1>1. /\ UNCHANGED <<sharedVars, producerVars, buffer, acknowledged, late, historyVars>>
      /\ consumer = "visit" /\ late' \in BOOLEAN
  BY DEF Visit, MailboxInv, TypeOK
<1>2. UNCHANGED <<logicalId, published, delivered, generation>>
  BY <1>1 DEF sharedVars, historyVars
<1>3. CASE NextEntry
  <2>1. BufferInv' /\ VisitInv'
    BY <1>1, <1>2, <1>3, NextEntryFacts DEF MailboxInv, BufferInv, VisitInv
  <2>2. QED BY <1>1, <1>3, <2>1, NextEntryFacts, ConsumerQuiet
<1>4. CASE ~NextEntry
  <2>1. /\ logicalId[visited] # NoPlugin /\ published[visited] # acknowledged[visited]
        /\ token' = published[visited] /\ attempt' = 1 /\ consumer' = "announce"
        /\ UNCHANGED visited
    BY <1>4 DEF Visit
  <2>2. acknowledged[visited].generation < published[visited].generation
    BY <2>1, MailboxTypes, EntryFacts DEF UpTo
  <2>3. visited' \in Entries /\ token' \in Token /\ attempt' \in 0..(kMaxAttempts + 1)
    BY <2>1, MailboxTypes DEF kMaxAttempts
  <2>4. BufferInv'
    BY <1>1, <2>1 DEF MailboxInv, BufferInv
  <2>5. VisitInv'
    BY <1>1, <1>2, <2>1, <2>2 DEF MailboxInv, VisitInv, UpTo, kMaxAttempts
  <2>6. QED BY <1>1, <2>1, <2>3, <2>4, <2>5, ConsumerQuiet
<1>5. QED BY <1>3, <1>4

\* A token is confirmed while it is still the one published: its slot is not
\* being written now, nor will it be once the announcement is in memory.
LEMMA ConfirmStep ==
  ASSUME MailboxInv, Confirm
  PROVE  MailboxInv'
<1>1. /\ UNCHANGED <<sharedVars, producerVars, visited, buffer, acknowledged, historyVars>>
      /\ consumer = "confirm" /\ late' = (published[visited] = token /\ buffer # <<>>)
  BY DEF Confirm
<1>2. /\ logicalId[visited] # NoPlugin /\ attempt <= kMaxAttempts
      /\ acknowledged[visited].generation < token.generation
      /\ UpTo(token, published[visited])
  BY <1>1 DEF MailboxInv, VisitInv
<1>3. UNCHANGED <<logicalId, commands, published, reading, consumed, settled, delivered, generation>>
  BY <1>1 DEF sharedVars, historyVars
<1>4. attempt \in Nat /\ late' \in BOOLEAN
  BY <1>1 DEF MailboxInv, TypeOK
<1>5. CASE published[visited] = token
  <2>1. consumer' = "read" /\ UNCHANGED <<token, attempt>>
    BY <1>5 DEF Confirm
  <2>2. visited' \in Entries /\ token' \in Token /\ attempt' \in 0..(kMaxAttempts + 1)
    BY <1>1, <2>1 DEF MailboxInv, TypeOK
  <2>3. commands[visited][token.slot] =
           [plugin |-> logicalId[visited], generation |-> token.generation]
    BY <1>1, <1>2, <1>5, HeldIsPending, EntryFacts, MailboxTypes DEF EntryInv
  <2>4. BufferInv'
    BY <1>1, <1>3, <1>5, <2>1 DEF MailboxInv, BufferInv
  <2>5. VisitInv'
    BY <1>1, <1>2, <1>3, <2>1, <2>3 DEF MailboxInv, VisitInv
  <2>6. visited = entry /\ producer \in {"write", "publish"} => writeSlot # token.slot
    BY <1>5 DEF MailboxInv, ProducerInv
  <2>7. QED BY <1>1, <1>4, <2>1, <2>2, <2>4, <2>5, <2>6, ConsumerQuiet
<1>6. CASE published[visited] # token
  <2>1. /\ token' = published[visited] /\ attempt' = attempt + 1
        /\ consumer' = IF attempt < kMaxAttempts THEN "announce" ELSE "release"
    BY <1>6 DEF Confirm
  <2>2. visited' \in Entries /\ token' \in Token /\ attempt' \in 0..(kMaxAttempts + 1)
    BY <1>1, <1>2, <1>4, <2>1, MailboxTypes DEF kMaxAttempts
  <2>3. consumer' \in {"announce", "release"} /\ (consumer' = "announce" => attempt' <= kMaxAttempts)
    BY <1>4, <2>1 DEF kMaxAttempts
  <2>4. acknowledged[visited].generation < published[visited].generation
    <3>1. token.generation \in Nat
      BY MailboxTypes
    <3>2. token.generation < published[visited].generation
      BY <1>2, <1>6 DEF UpTo
    <3>3. QED BY <1>2, <3>1, <3>2, EntryFacts, MailboxTypes
  <2>5. BufferInv'
    BY <1>1, <2>3 DEF MailboxInv, BufferInv
  <2>6. VisitInv'
    BY <1>1, <1>2, <1>3, <2>1, <2>3, <2>4 DEF MailboxInv, VisitInv, UpTo
  <2>7. QED BY <1>1, <1>4, <2>2, <2>3, <2>5, <2>6, ConsumerQuiet
<1>7. QED BY <1>5, <1>6

\* What is copied is the image of the token, or the token is not published any
\* more: the producer leaves the published slot alone.
LEMMA CopyFacts ==
  ASSUME MailboxInv, ReadCommand
  PROVE  /\ consumer = "read" /\ consumer' = "acknowledge" /\ late' = FALSE
         /\ UNCHANGED <<logicalId, commands, published, reading, consumed, generation, producer,
                        plugin, entry, writeSlot, visited, token, attempt, buffer,
                        acknowledged, latest>>
         /\ logicalId[visited] \in Plugins /\ visited \in Entries
         /\ acknowledged[visited].generation < token.generation
         /\ UpTo(token, published[visited])
         /\ delivered' = [delivered EXCEPT ![logicalId[visited]] = token.generation]
         /\ settled' = [settled EXCEPT ![logicalId[visited]] = token.generation]
         /\ spoiled' \in {[spoiled EXCEPT ![logicalId[visited]] = b] : b \in BOOLEAN}
         /\ spoiled'[logicalId[visited]] => published[visited] # token
<1> DEFINE p == logicalId[visited]
           copied == commands[visited][token.slot]
           bad == Overlap \/ copied.generation # token.generation
<1>1. /\ consumer = "read" /\ consumer' = "acknowledge" /\ late' = FALSE
      /\ UNCHANGED <<logicalId, commands, published, reading, consumed, generation, producer,
                     plugin, entry, writeSlot, visited, token, attempt, buffer,
                     acknowledged, latest>>
  BY DEF ReadCommand, sharedVars, producerVars
<1>2. /\ p \in Plugins /\ visited \in Entries
      /\ acknowledged[visited].generation < token.generation
      /\ UpTo(token, published[visited]) /\ copied.plugin = p
      /\ copied.generation = token.generation \/ published[visited] # token
  BY <1>1, MailboxTypes DEF MailboxInv, VisitInv
<1>3. /\ delivered' = [delivered EXCEPT ![p] = token.generation]
      /\ settled' = [settled EXCEPT ![p] = token.generation]
      /\ spoiled' = [spoiled EXCEPT ![p] = bad]
  BY <1>2 DEF ReadCommand
<1>4. bad \in BOOLEAN
  BY DEF Overlap
<1>5. bad => published[visited] # token
  <2>1. Overlap => published[visited] # token
    BY <1>1 DEF Overlap, MailboxInv, ProducerInv
  <2>2. QED BY <1>2, <2>1
<1>6. spoiled'[p] = bad
  BY <1>2, <1>3 DEF MailboxInv, TypeOK
<1> HIDE DEF bad, copied
<1>7. QED BY <1>1, <1>2, <1>3, <1>4, <1>5, <1>6

\* A copy settles the images of its plug-in up to the token.
LEMMA ReadCommandStep ==
  ASSUME MailboxInv, ReadCommand
  PROVE  MailboxInv'
<1> DEFINE p == logicalId[visited]
<1>1. /\ consumer = "read" /\ consumer' = "acknowledge" /\ late' = FALSE
      /\ UNCHANGED <<logicalId, commands, published, reading, consumed, generation, producer,
                     plugin, entry, writeSlot, visited, token, attempt, buffer,
                     acknowledged, latest>>
      /\ p \in Plugins /\ visited \in Entries
      /\ acknowledged[visited].generation < token.generation
      /\ UpTo(token, published[visited])
      /\ delivered' = [delivered EXCEPT ![p] = token.generation]
      /\ settled' = [settled EXCEPT ![p] = token.generation]
      /\ spoiled' \in {[spoiled EXCEPT ![p] = b] : b \in BOOLEAN}
  BY CopyFacts
<1>2. token.generation \in 0..MaxGeneration /\ token.generation <= generation
  BY <1>1, MailboxTypes, EntryFacts DEF UpTo
<1>3. p = logicalId[visited]
  OBVIOUS
<1> HIDE DEF p
<1>4. /\ \A q \in Plugins : settled'[q] = IF q = p THEN token.generation ELSE settled[q]
      /\ \A q \in Plugins : delivered'[q] = IF q = p THEN token.generation ELSE delivered[q]
      /\ settled' \in [Plugins -> 0..MaxGeneration]
      /\ delivered' \in [Plugins -> 0..MaxGeneration]
  BY <1>1, <1>2, MailboxTypes
<1>5. spoiled' \in [Plugins -> BOOLEAN]
  BY <1>1 DEF MailboxInv, TypeOK
<1>6. TypeOK'
  BY <1>1, <1>4, <1>5 DEF MailboxInv, TypeOK
<1>7. acknowledged[visited] # published[visited]
  BY <1>1, HeldIsPending
<1>8. ASSUME NEW e \in Entries
      PROVE  EntryInv(e)'
  <2>1. CASE e = visited
    BY <1>1, <1>7, <2>1, EntryFacts DEF EntryInv
  <2>2. CASE e # visited
    <3>1. logicalId[e] # NoPlugin => settled'[logicalId[e]] = settled[logicalId[e]]
      BY <1>1, <1>3, <1>4, <2>2, MailboxTypes DEF MailboxInv, EntriesInv
    <3>2. QED BY <1>1, <3>1, EntryFacts DEF EntryInv
  <2>3. QED BY <2>1, <2>2
<1>9. HomelessInv'
  BY <1>1, <1>3, <1>4, MailboxTypes DEF MailboxInv, HomelessInv
<1>10. BufferInv' /\ EntriesInv'
  BY <1>1 DEF MailboxInv, BufferInv, EntriesInv
<1>11. ProducerInv'
  <2>1. producer = "publish" => \A q \in Plugins : delivered'[q] < generation
    <3>1. SUFFICES ASSUME producer = "publish"
                   PROVE  token.generation < generation
      BY <1>4 DEF MailboxInv, ProducerInv
    <3>2. published[visited].generation < generation
      BY <3>1, MailboxTypes DEF MailboxInv, ProducerInv
    <3>3. QED BY <1>1, <3>2, MailboxTypes, EntryFacts DEF UpTo
  <2>2. QED BY <1>1, <2>1 DEF MailboxInv, ProducerInv
<1>12. VisitInv'
  <2>1. \A q \in Plugins : delivered'[q] <= generation
    BY <1>2, <1>4 DEF MailboxInv, VisitInv
  <2>2. settled'[p] = token.generation
    BY <1>1, <1>4
  <2>3. QED BY <1>1, <1>3, <2>1, <2>2, MailboxTypes DEF MailboxInv, VisitInv
<1>13. QED BY <1>6, <1>8, <1>9, <1>10, <1>11, <1>12 DEF MailboxInv

\* What a store into the buffer leaves there.
LEMMA StoreAppended ==
  ASSUME NEW stores \in Seq(Store), NEW store \in Store
  PROVE  /\ Append(stores, store) \in Seq(Store) /\ Append(stores, store) # <<>>
         /\ Append(stores, store)[Len(Append(stores, store))] = store
         /\ \A i \in 1..Len(Append(stores, store)) :
               \/ Append(stores, store)[i] = store
               \/ i \in 1..Len(stores) /\ Append(stores, store)[i] = stores[i]
<1> DEFINE more == Append(stores, store)
<1>1. /\ more \in Seq(Store) /\ Len(more) = Len(stores) + 1 /\ Len(stores) \in Nat
      /\ \A i \in 1..Len(stores) : more[i] = stores[i]
      /\ more[Len(stores) + 1] = store
  BY AppendProperties, LenProperties
<1> HIDE DEF more
<1>2. more # <<>>
  BY <1>1, EmptySeq
<1>3. \A i \in 1..Len(more) : more[i] = store \/ (i \in 1..Len(stores) /\ more[i] = stores[i])
  BY <1>1
<1>4. QED BY <1>1, <1>2, <1>3 DEF more

\* What is left when the first store reached memory.
LEMMA StoreDrained ==
  ASSUME NEW stores \in Seq(Store), stores # <<>>
  PROVE  /\ Tail(stores) \in Seq(Store) /\ Head(stores) = stores[1]
         /\ 1 \in 1..Len(stores) /\ Head(stores) \in Store
         /\ Tail(stores) = <<>> => Len(stores) = 1
         /\ Tail(stores) # <<>> => Tail(stores)[Len(Tail(stores))] = stores[Len(stores)]
         /\ \A i \in 1..Len(Tail(stores)) :
               i + 1 \in 1..Len(stores) /\ Tail(stores)[i] = stores[i + 1]
<1> DEFINE rest == Tail(stores)
<1>1. /\ rest \in Seq(Store) /\ Len(rest) = Len(stores) - 1
      /\ \A i \in 1..Len(rest) : rest[i] = stores[i + 1]
      /\ Len(stores) \in Nat /\ Len(rest) \in Nat /\ Head(stores) \in Store
  BY HeadTailProperties, LenProperties
<1>2. Head(stores) = stores[1]
  OBVIOUS
<1> HIDE DEF rest
<1>3. rest = <<>> => Len(stores) = 1
  BY <1>1
<1>4. rest # <<>> => rest[Len(rest)] = stores[Len(stores)]
  <2>1. rest # <<>> => Len(rest) # 0
    BY <1>1, EmptySeq
  <2>2. QED BY <1>1, <2>1
<1>5. \A i \in 1..Len(rest) : i + 1 \in 1..Len(stores)
  BY <1>1
<1>6. 1 \in 1..Len(stores)
  BY <1>1
<1>7. QED BY <1>1, <1>2, <1>3, <1>4, <1>5, <1>6 DEF rest

\* Tokens only get newer.
LEMMA UpToTransitive ==
  ASSUME NEW t \in Token, NEW u \in Token, NEW v \in Token, UpTo(t, u), UpTo(u, v)
  PROVE  UpTo(t, v)
<1>1. t.generation \in Nat /\ u.generation \in Nat /\ v.generation \in Nat
  BY MailboxAssumption DEF Token
<1>2. QED BY <1>1 DEF UpTo

\* A step that adds a store to the buffer and settles nothing.
LEMMA StoreStep ==
  ASSUME MailboxInv, UNCHANGED <<sharedVars, producerVars, late, historyVars>>,
         visited' \in Entries, token' \in Token, attempt' \in 0..(kMaxAttempts + 1),
         consumer' \in {"visit", "confirm", "release", "leave"},
         acknowledged' \in [Entries -> Token],
         BufferInv', VisitInv', \A e \in Entries : EntryInv(e)'
  PROVE  MailboxInv'
<1>1. UNCHANGED <<logicalId, commands, published, reading, consumed, generation, producer, plugin,
                  entry, writeSlot, late, latest, delivered, settled, spoiled>>
  BY DEF sharedVars, producerVars, historyVars
<1>2. TypeOK'
  BY <1>1 DEF MailboxInv, TypeOK
<1>3. EntriesInv' /\ HomelessInv'
  BY <1>1 DEF MailboxInv, EntriesInv, HomelessInv
<1>4. ProducerInv'
  BY <1>1 DEF MailboxInv, ProducerInv
<1>5. QED BY <1>2, <1>3, <1>4 DEF MailboxInv

\* The stores of the consumer are of the two kinds.
LEMMA StoresAreStores ==
  ASSUME NEW e \in Entries
  PROVE  /\ \A slot \in Slots \union {kNotReading} : ReadingStore(e, slot) \in Store
         /\ \A t \in Token : ConsumedStore(e, t) \in Store
BY DEF Store, ReadingStore, ConsumedStore

\* The announcement goes on its way behind the stores of the visit before.
LEMMA AnnounceStep ==
  ASSUME MailboxInv, Announce
  PROVE  MailboxInv'
<1> DEFINE store == ReadingStore(visited, token.slot)
<1>1. /\ UNCHANGED <<sharedVars, producerVars, visited, token, attempt, acknowledged, late,
                     historyVars>>
      /\ consumer = "announce" /\ consumer' = "confirm" /\ buffer' = Append(buffer, store)
  BY DEF Announce, StoreReading, ReadingStore
<1>2. UNCHANGED <<logicalId, commands, published, reading, consumed, settled, delivered, latest,
                  generation>>
  BY <1>1 DEF sharedVars, historyVars
<1>3. \A e \in Entries : EntryInv(e)'
  BY <1>1, <1>2, EntryKept, EntryFacts
<1>4. store \in Store /\ buffer \in Seq(Store) /\ store.of # "consumed"
  BY StoresAreStores, MailboxTypes DEF MailboxInv, BufferInv, ReadingStore
<1>5. BufferInv'
  <2> HIDE DEF store
  <2>1. /\ buffer' \in Seq(Store) /\ buffer' # <<>> /\ buffer'[Len(buffer')] = store
        /\ \A i \in 1..Len(buffer') :
              buffer'[i] = store \/ (i \in 1..Len(buffer) /\ buffer'[i] = buffer[i])
    BY <1>1, <1>4, StoreAppended
  <2>2. store = ReadingStore(visited', token'.slot)
    BY <1>1 DEF store
  <2>3. \A i \in 1..Len(buffer') : buffer'[i].of = "consumed" =>
           UpTo(buffer'[i].value, acknowledged'[buffer'[i].entry])
    BY <1>1, <1>4, <2>1 DEF MailboxInv, BufferInv
  <2>4. QED BY <1>1, <2>1, <2>2, <2>3 DEF BufferInv
<1>6. VisitInv'
  BY <1>1, <1>2 DEF MailboxInv, VisitInv
<1>7. /\ visited' \in Entries /\ token' \in Token /\ attempt' \in 0..(kMaxAttempts + 1)
      /\ acknowledged' \in [Entries -> Token]
  BY <1>1 DEF MailboxInv, TypeOK
<1>8. QED BY <1>1, <1>3, <1>5, <1>6, <1>7, StoreStep

\* What was delivered is acknowledged: if it is still the image published, the
\* plug-in has nothing left to settle.
LEMMA AcknowledgeStep ==
  ASSUME MailboxInv, Acknowledge
  PROVE  MailboxInv'
<1> DEFINE store == ConsumedStore(visited, token)
<1>1. /\ UNCHANGED <<sharedVars, producerVars, visited, token, attempt, late, historyVars>>
      /\ consumer = "acknowledge" /\ consumer' = "release" /\ buffer' = Append(buffer, store)
      /\ acknowledged' = [acknowledged EXCEPT ![visited] = token]
  BY DEF Acknowledge, StoreConsumed, ConsumedStore
<1>2. UNCHANGED <<logicalId, commands, published, reading, consumed, settled, delivered, latest,
                  generation>>
  BY <1>1 DEF sharedVars, historyVars
<1>3. /\ logicalId[visited] # NoPlugin /\ settled[logicalId[visited]] = token.generation
      /\ acknowledged[visited].generation < token.generation /\ UpTo(token, published[visited])
  BY <1>1 DEF MailboxInv, VisitInv
<1>4. /\ acknowledged' \in [Entries -> Token]
      /\ \A e \in Entries : acknowledged'[e] = IF e = visited THEN token ELSE acknowledged[e]
      /\ \A e \in Entries : UpTo(acknowledged[e], acknowledged'[e])
  <2>1. /\ acknowledged' \in [Entries -> Token]
        /\ \A e \in Entries : acknowledged'[e] = IF e = visited THEN token ELSE acknowledged[e]
    BY <1>1, MailboxTypes
  <2>2. QED BY <1>3, <2>1 DEF UpTo
<1>5. ASSUME NEW e \in Entries
      PROVE  EntryInv(e)'
  <2>1. CASE e # visited
    BY <1>2, <1>4, <2>1, EntryKept, EntryFacts
  <2>2. CASE e = visited
    <3>1. acknowledged'[e] = token /\ UNCHANGED <<consumed[e], published[e]>>
      BY <1>2, <1>4, <2>2
    <3>2. UpTo(consumed[e], token) /\ UpTo(token, published[e])
      BY <1>3, <1>4, <2>2, <3>1, EntryFacts, MailboxTypes, UpToTransitive
    <3>3. published[e].generation = latest[logicalId[e]] /\ acknowledged[e] # published[e]
      BY <1>1, <1>3, <2>2, HeldIsPending, EntryFacts DEF EntryInv
    <3>4. token = published[e] => settled[logicalId[e]] = latest[logicalId[e]]
      BY <1>3, <2>2, <3>3
    <3>5. QED BY <1>2, <3>1, <3>2, <3>3, <3>4, EntryFacts DEF EntryInv
  <2>3. QED BY <2>1, <2>2
<1>6. store \in Store /\ buffer \in Seq(Store) /\ store.entry = visited /\ store.value = token
  BY StoresAreStores, MailboxTypes DEF MailboxInv, BufferInv, ConsumedStore
<1>7. BufferInv'
  <2> HIDE DEF store
  <2>1. /\ buffer' \in Seq(Store) /\ buffer' # <<>>
        /\ \A i \in 1..Len(buffer') :
              buffer'[i] = store \/ (i \in 1..Len(buffer) /\ buffer'[i] = buffer[i])
    BY <1>1, <1>6, StoreAppended
  <2>2. ASSUME NEW i \in 1..Len(buffer'), buffer'[i].of = "consumed"
        PROVE  UpTo(buffer'[i].value, acknowledged'[buffer'[i].entry])
    <3>1. CASE buffer'[i] = store
      BY <1>4, <1>6, <3>1, MailboxTypes DEF UpTo
    <3>2. CASE i \in 1..Len(buffer) /\ buffer'[i] = buffer[i]
      <4>1. buffer[i] \in Store /\ buffer[i].of = "consumed"
        BY <1>6, <2>2, <3>2, ElementOfSeq
      <4>2. buffer[i].entry \in Entries /\ buffer[i].value \in Token
        BY <4>1 DEF Store
      <4>3. UpTo(buffer[i].value, acknowledged[buffer[i].entry])
        BY <3>2, <4>1 DEF MailboxInv, BufferInv
      <4>4. QED BY <1>4, <3>2, <4>2, <4>3, MailboxTypes, UpToTransitive
    <3>3. QED BY <2>1, <3>1, <3>2
  <2>3. QED BY <1>1, <2>1, <2>2 DEF BufferInv
<1>8. VisitInv'
  BY <1>1, <1>2 DEF MailboxInv, VisitInv
<1>9. visited' \in Entries /\ token' \in Token /\ attempt' \in 0..(kMaxAttempts + 1)
  BY <1>1 DEF MailboxInv, TypeOK
<1>10. QED BY <1>1, <1>4, <1>5, <1>7, <1>8, <1>9, StoreStep

\* The release goes on its way behind the acknowledgement.
LEMMA ReleaseStep ==
  ASSUME MailboxInv, Release
  PROVE  MailboxInv'
<1> DEFINE store == ReadingStore(visited, kNotReading)
<1>1. /\ UNCHANGED <<sharedVars, producerVars, acknowledged, late, historyVars>> /\ NextEntry
      /\ consumer = "release" /\ buffer' = Append(buffer, store)
  BY DEF Release, StoreReading, ReadingStore
<1>2. UNCHANGED <<logicalId, commands, published, reading, consumed, settled, delivered, latest,
                  generation>>
  BY <1>1 DEF sharedVars, historyVars
<1>3. \A e \in Entries : EntryInv(e)'
  BY <1>1, <1>2, EntryKept, EntryFacts
<1>4. store \in Store /\ buffer \in Seq(Store) /\ store.of # "consumed"
  BY StoresAreStores, MailboxTypes DEF MailboxInv, BufferInv, ReadingStore
<1>5. BufferInv'
  <2> HIDE DEF store
  <2>1. /\ buffer' \in Seq(Store)
        /\ \A i \in 1..Len(buffer') :
              buffer'[i] = store \/ (i \in 1..Len(buffer) /\ buffer'[i] = buffer[i])
    BY <1>1, <1>4, StoreAppended
  <2>2. \A i \in 1..Len(buffer') : buffer'[i].of = "consumed" =>
           UpTo(buffer'[i].value, acknowledged'[buffer'[i].entry])
    BY <1>1, <1>4, <2>1 DEF MailboxInv, BufferInv
  <2>3. QED BY <1>1, <2>1, <2>2, NextEntryFacts DEF BufferInv
<1>6. VisitInv'
  BY <1>1, <1>2, NextEntryFacts DEF MailboxInv, VisitInv
<1>7. acknowledged' \in [Entries -> Token]
  BY <1>1, MailboxTypes
<1>8. QED BY <1>1, <1>3, <1>5, <1>6, <1>7, NextEntryFacts, StoreStep

\* What a store does that reaches memory, whichever it is.
LEMMA DrainFacts ==
  ASSUME MailboxInv, DrainStore
  PROVE  /\ UNCHANGED <<logicalId, commands, published, generation, producer, plugin, entry,
                        writeSlot, consumer, visited, token, attempt, acknowledged, late,
                        latest, delivered, settled, spoiled>>
         /\ reading' \in [Entries -> Slots \union {kNotReading}]
         /\ consumed' \in [Entries -> Token]
         /\ \A e \in Entries : UpTo(consumed'[e], acknowledged[e])
         /\ BufferInv'
<1> DEFINE store == Head(buffer)
<1>1. /\ UNCHANGED <<logicalId, commands, published, generation, producer, plugin, entry,
                     writeSlot, consumer, visited, token, attempt, acknowledged, late,
                     latest, delivered, settled, spoiled>>
      /\ buffer # <<>> /\ buffer' = Tail(buffer)
      /\ IF store.of = "reading"
           THEN reading' = [reading EXCEPT ![store.entry] = store.value] /\ UNCHANGED consumed
           ELSE consumed' = [consumed EXCEPT ![store.entry] = store.value] /\ UNCHANGED reading
  BY DEF DrainStore, producerVars, consumerVars, historyVars
<1>2. buffer \in Seq(Store)
  BY DEF MailboxInv, BufferInv
<1>3. /\ buffer' \in Seq(Store) /\ store = buffer[1] /\ 1 \in 1..Len(buffer) /\ store \in Store
      /\ buffer' = <<>> => Len(buffer) = 1
      /\ buffer' # <<>> => buffer'[Len(buffer')] = buffer[Len(buffer)]
      /\ \A i \in 1..Len(buffer') : i + 1 \in 1..Len(buffer) /\ buffer'[i] = buffer[i + 1]
  BY <1>1, <1>2, StoreDrained
<1>4. /\ reading \in [Entries -> Slots \union {kNotReading}] /\ consumed \in [Entries -> Token]
      /\ \A e \in Entries : UpTo(consumed[e], acknowledged[e])
  BY EntryFacts DEF MailboxInv, TypeOK
<1>5. store.of = "consumed" => UpTo(store.value, acknowledged[store.entry])
  BY <1>3 DEF MailboxInv, BufferInv
<1> HIDE DEF store
<1>6. /\ store.entry \in Entries
      /\ \/ store.of = "reading" /\ store.value \in Slots \union {kNotReading}
         \/ store.of = "consumed" /\ store.value \in Token
  BY <1>3 DEF Store
<1>7. /\ reading' \in [Entries -> Slots \union {kNotReading}]
      /\ consumed' \in [Entries -> Token]
  BY <1>1, <1>4, <1>6
<1>8. \A e \in Entries : UpTo(consumed'[e], acknowledged[e])
  BY <1>1, <1>4, <1>5, <1>6
<1>9. \A i \in 1..Len(buffer') : buffer'[i].of = "consumed" =>
         UpTo(buffer'[i].value, acknowledged'[buffer'[i].entry])
  BY <1>1, <1>3 DEF MailboxInv, BufferInv
<1>10. ASSUME consumer \in {"confirm", "read"}
       PROVE  IF buffer' = <<>> THEN reading'[visited] = token.slot
                                ELSE buffer'[Len(buffer')] = ReadingStore(visited, token.slot)
  <2>1. buffer[Len(buffer)] = ReadingStore(visited, token.slot)
    BY <1>1, <1>10 DEF MailboxInv, BufferInv
  <2>2. CASE buffer' = <<>>
    <3>1. store = ReadingStore(visited, token.slot)
      BY <1>3, <2>1, <2>2
    <3>2. QED BY <1>1, <1>4, <2>2, <3>1, MailboxTypes DEF ReadingStore
  <2>3. CASE buffer' # <<>>
    BY <1>3, <2>1, <2>3
  <2>4. QED BY <2>2, <2>3
<1>11. consumer # "idle" /\ ~(consumer = "read" /\ ~late)
  BY <1>1 DEF MailboxInv, BufferInv
<1>12. BufferInv'
  BY <1>1, <1>3, <1>9, <1>10, <1>11 DEF BufferInv
<1>13. QED BY <1>1, <1>7, <1>8, <1>12

\* Memory catches up with what the consumer did; nothing else moves.
LEMMA DrainStep ==
  ASSUME MailboxInv, DrainStore
  PROVE  MailboxInv'
<1>1. TypeOK'
  BY DrainFacts DEF MailboxInv, TypeOK
<1>2. \A e \in Entries : EntryInv(e)'
  BY DrainFacts, EntryKept, EntryFacts
<1>3. EntriesInv' /\ HomelessInv' /\ ProducerInv' /\ VisitInv'
  BY DrainFacts DEF MailboxInv, EntriesInv, HomelessInv, ProducerInv, VisitInv
<1>4. QED BY <1>1, <1>2, <1>3, DrainFacts DEF MailboxInv

\* A rebuild boundary settles everything.
LEMMA DiscardStep ==
  ASSUME MailboxInv, DiscardPending
  PROVE  MailboxInv'
<1>1. /\ UNCHANGED <<logicalId, commands, published, reading, generation, producer, plugin, entry,
                     writeSlot, consumer, visited, token, attempt, late, buffer, latest,
                     delivered>>
      /\ consumed' = published /\ acknowledged' = published /\ settled' = latest
      /\ spoiled' = [p \in Plugins |-> FALSE]
      /\ producer = "idle" /\ consumer = "idle" /\ buffer = <<>>
  BY DEF DiscardPending, producerVars, MailboxInv, BufferInv
<1>2. TypeOK'
  BY <1>1 DEF MailboxInv, TypeOK
<1>3. \A e \in Entries : EntryInv(e)'
  BY <1>1, EntryFacts DEF EntryInv, UpTo
<1>4. EntriesInv' /\ HomelessInv' /\ ProducerInv'
  BY <1>1 DEF MailboxInv, EntriesInv, HomelessInv, ProducerInv
<1>5. BufferInv'
  BY <1>1, EmptySeq DEF BufferInv
<1>6. VisitInv'
  BY <1>1 DEF MailboxInv, VisitInv
<1>7. QED BY <1>2, <1>3, <1>4, <1>5, <1>6 DEF MailboxInv

------------------------------------------------------------------------------

\* Nothing happens.
LEMMA MailboxStutter ==
  ASSUME MailboxInv, UNCHANGED vars
  PROVE  MailboxInv'
<1>1. UNCHANGED <<sharedVars, producerVars, consumerVars, buffer, historyVars>>
  BY DEF vars, sharedVars, producerVars, consumerVars, historyVars
<1>2. TypeOK' /\ ProducerInv'
  BY DEF vars, MailboxInv, TypeOK, ProducerInv
<1>3. QED BY <1>1, <1>2, ProducerQuiet

\* The inductive invariant of the mailbox, for any plug-ins and entries and
\* wherever the consumer's stores are (command_queue.h: publish, consumePending).
THEOREM MailboxInvariance == Spec => []MailboxInv
<1>1. Init => MailboxInv
  BY MailboxInit
<1>2. MailboxInv /\ [Next]_vars => MailboxInv'
  <2> SUFFICES ASSUME MailboxInv, [Next]_vars
               PROVE  MailboxInv'
    OBVIOUS
  <2>1. CASE \E p \in Plugins : BeginPublish(p)
    BY <2>1, BeginPublishStep
  <2>2. CASE ProducerStep
    BY <2>2, ScanReadingStep, ScanConsumedStep, ChooseSlotStep, WriteCommandStep,
       PublishTokenStep DEF ProducerStep
  <2>3. CASE BeginConsume
    BY <2>3, PassSteps
  <2>4. CASE ConsumerStep
    BY <2>4, VisitStep, AnnounceStep, ConfirmStep, ReadCommandStep, AcknowledgeStep, ReleaseStep,
       PassSteps, DrainStep DEF ConsumerStep
  <2>5. CASE DiscardPending
    BY <2>5, DiscardStep
  <2>6. CASE UNCHANGED vars
    BY <2>6, MailboxStutter
  <2>7. QED BY <2>1, <2>2, <2>3, <2>4, <2>5, <2>6 DEF Next
<1>3. QED BY <1>1, <1>2, PTL DEF Spec

------------------------------------------------------------------------------
(* The latest-value box                                                     *)

\* A step that neither publishes nor takes an image leaves every image waiting
\* where it does; an entry may change hands when nothing waits in it.
LEMMA WaitingKept ==
  ASSUME UNCHANGED published,
         \A e \in Entries : /\ Full(e)' <=> Full(e)
                            /\ logicalId'[e] = logicalId[e] \/ ~Full(e)
  PROVE  Waiting' = Waiting
<1> DEFINE before(p) == {e \in Entries : logicalId[e] = p /\ Full(e)}
           after(p)  == {e \in Entries : logicalId'[e] = p /\ Full(e)'}
           image(S) == IF S = {} THEN 0 ELSE published[CHOOSE e \in S : TRUE].generation
<1>1. \A p \in Plugins : after(p) = before(p)
  OBVIOUS
<1>2. Waiting = [p \in Plugins |-> image(before(p))]
  BY DEF Waiting
<1>3. Waiting' = [p \in Plugins |-> image(after(p))]
  BY DEF Waiting
<1> HIDE DEF before, after, image
<1>4. QED BY <1>1, <1>2, <1>3

\* Nothing was taken or spoilt either.
LEMMA TakenKept ==
  ASSUME UNCHANGED <<delivered, spoiled, logicalId>>,
         \/ consumer # "read" /\ consumer' # "read"
         \/ UNCHANGED <<consumer, visited, token>>
  PROVE  UNCHANGED <<Taken, Spoilt>>
<1>1. CASE consumer # "read" /\ consumer' # "read"
  BY <1>1 DEF Taken, Spoilt, InCopy
<1>2. CASE UNCHANGED <<consumer, visited, token>>
  BY <1>2 DEF Taken, Spoilt, InCopy
<1>3. QED BY <1>1, <1>2

\* Steps other than the five below leave the box as it is.
LEMMA QuietRefines ==
  ASSUME MailboxInv,
         \/ ScanReading \/ ChooseSlot \/ WriteCommand
         \/ BeginConsume \/ EndConsume \/ Visit \/ Announce \/ Release \/ DrainStore
         \/ Confirm /\ published[visited] # token
  PROVE  UNCHANGED <<Waiting, Taken, Spoilt>>
<1>1. UNCHANGED <<published, logicalId, delivered, spoiled, acknowledged>>
  BY DEF ScanReading, ChooseSlot, WriteCommand, BeginConsume, EndConsume, Visit, Announce,
         Release, DrainStore, Confirm, sharedVars, consumerVars, historyVars
<1>2. \/ consumer \notin {"read", "acknowledge"} /\ consumer' \notin {"read", "acknowledge"}
      \/ UNCHANGED <<consumer, visited, token>>
  BY DEF ScanReading, ChooseSlot, WriteCommand, BeginConsume, EndConsume, Visit, Announce,
         Release, DrainStore, Confirm, NextEntry, consumerVars
<1>3. \A e \in Entries : Full(e)' <=> Full(e)
  <2>1. CASE consumer \notin {"read", "acknowledge"} /\ consumer' \notin {"read", "acknowledge"}
    BY <1>1, <2>1 DEF Full, Taking
  <2>2. CASE UNCHANGED <<consumer, visited, token>>
    BY <1>1, <2>2 DEF Full, Taking
  <2>3. QED BY <1>2, <2>1, <2>2
<1>4. QED BY <1>1, <1>2, <1>3, WaitingKept, TakenKept

\* An entry changes hands when nothing waits in it, and no image is being taken
\* from it.
LEMMA ClaimRefines ==
  ASSUME MailboxInv, ScanConsumed \/ \E p \in Plugins : BeginPublish(p)
  PROVE  UNCHANGED <<Waiting, Taken, Spoilt>>
<1>1. UNCHANGED <<published, acknowledged, consumer, visited, token, delivered, spoiled>>
  BY DEF ScanConsumed, BeginPublish, sharedVars, consumerVars, historyVars
<1>2. \A e \in Entries : logicalId'[e] = logicalId[e] \/ acknowledged[e] = published[e]
  <2>1. CASE ScanConsumed
    <3>1. \/ logicalId' = logicalId
          \/ /\ consumed[entry] = published[entry]
             /\ logicalId' = [logicalId EXCEPT ![entry] = plugin]
      BY <2>1 DEF ScanConsumed
    <3>2. consumed[entry] = published[entry] => acknowledged[entry] = published[entry]
      BY ConsumedIsSettled, MailboxTypes
    <3>3. QED BY <3>1, <3>2, MailboxTypes
  <2>2. ASSUME NEW p \in Plugins, BeginPublish(p)
        PROVE  \A e \in Entries : logicalId'[e] = logicalId[e] \/ acknowledged[e] = published[e]
    <3> DEFINE own == {e \in Entries : logicalId[e] \in {p, NoPlugin}}
    <3>1. CASE own = {}
      BY <2>2, <3>1 DEF BeginPublish
    <3>2. CASE own # {}
      <4>1. own \in SUBSET Nat
        BY MailboxTypes
      <4>2. Least(own) \in own
        BY <3>2, <4>1, LeastIsFirst
      <4>3. logicalId' = [logicalId EXCEPT ![Least(own)] = p]
        BY <2>2, <3>2 DEF BeginPublish
      <4> HIDE DEF own
      <4>4. ASSUME NEW e \in Entries, logicalId'[e] # logicalId[e]
            PROVE  acknowledged[e] = published[e]
        <5>1. logicalId[e] = NoPlugin
          BY <4>2, <4>3, <4>4, MailboxTypes DEF own
        <5>2. published[e] = NoToken /\ UpTo(acknowledged[e], published[e])
              /\ acknowledged[e].generation \in Nat
          BY <5>1, EntryFacts DEF EntryInv
        <5>3. QED BY <5>2 DEF UpTo, NoToken
      <4>5. QED BY <4>4
    <3>3. QED BY <3>1, <3>2
  <2>3. QED BY <2>1, <2>2
<1>3. \A e \in Entries : Full(e)' <=> Full(e)
  BY <1>1 DEF Full, Taking
<1>4. Waiting' = Waiting
  BY <1>1, <1>2, <1>3, WaitingKept DEF Full
<1>5. UNCHANGED <<Taken, Spoilt>>
  <2>1. consumer = "read" => logicalId'[visited] = logicalId[visited]
    BY <1>2, HeldIsPending, MailboxTypes
  <2>2. QED BY <1>1, <2>1 DEF Taken, Spoilt, InCopy
<1>6. QED BY <1>4, <1>5

\* What waits for a plug-in is what is published in its entry, if that is full.
LEMMA WaitingIs ==
  ASSUME MailboxInv, NEW p \in Plugins, NEW e \in Entries, logicalId[e] = p
  PROVE  Waiting[p] = IF Full(e) THEN published[e].generation ELSE 0
<1> DEFINE full == {f \in Entries : logicalId[f] = p /\ Full(f)}
<1>1. full = IF Full(e) THEN {e} ELSE {}
  <2>1. \A f \in full : f = e
    BY MailboxTypes DEF MailboxInv, EntriesInv
  <2>2. QED BY <2>1
<1>2. Waiting[p] = IF full = {} THEN 0 ELSE published[CHOOSE f \in full : TRUE].generation
  BY DEF Waiting
<1> HIDE DEF full
<1>3. QED BY <1>1, <1>2

\* Nothing waits for a plug-in without an entry.
LEMMA HomelessWaits ==
  ASSUME NEW p \in Plugins, \A e \in Entries : logicalId[e] # p
  PROVE  Waiting[p] = 0
<1> DEFINE full == {f \in Entries : logicalId[f] = p /\ Full(f)}
<1>1. full = {}
  OBVIOUS
<1>2. Waiting[p] = IF full = {} THEN 0 ELSE published[CHOOSE f \in full : TRUE].generation
  BY DEF Waiting
<1>3. QED BY <1>1, <1>2

\* Acknowledging an image that was taken is no step of the box any more.
LEMMA AcknowledgeRefines ==
  ASSUME MailboxInv, Acknowledge
  PROVE  UNCHANGED <<Waiting, Taken, Spoilt>>
<1>1. /\ UNCHANGED <<published, logicalId, visited, token, delivered, spoiled>>
      /\ acknowledged' = [acknowledged EXCEPT ![visited] = token]
      /\ consumer = "acknowledge" /\ consumer' = "release"
  BY DEF Acknowledge, sharedVars, historyVars
<1>2. acknowledged[visited] # published[visited]
  BY <1>1, HeldIsPending
<1>3. \A e \in Entries : acknowledged'[e] = IF e = visited THEN token ELSE acknowledged[e]
  BY <1>1, MailboxTypes
<1>4. \A e \in Entries : Full(e)' <=> Full(e)
  BY <1>1, <1>2, <1>3 DEF Full, Taking
<1>5. QED BY <1>1, <1>4, WaitingKept, TakenKept

\* A copy delivers the image that was taken, or spoils it, and then a newer one
\* waits already.
LEMMA CopyRefines ==
  ASSUME MailboxInv, ReadCommand
  PROVE  \/ UNCHANGED <<Waiting, Taken, Spoilt>>
         \/ logicalId[visited] \in Plugins /\ Box!Spoil(logicalId[visited])
<1> DEFINE p == logicalId[visited]
<1>1. /\ consumer = "read" /\ consumer' = "acknowledge"
      /\ UNCHANGED <<logicalId, published, visited, token, acknowledged>>
      /\ p \in Plugins /\ visited \in Entries
      /\ acknowledged[visited].generation < token.generation /\ UpTo(token, published[visited])
      /\ delivered' = [delivered EXCEPT ![p] = token.generation]
      /\ spoiled' \in {[spoiled EXCEPT ![p] = b] : b \in BOOLEAN}
      /\ spoiled'[p] => published[visited] # token
  BY CopyFacts
<1>2. p = logicalId[visited]
  OBVIOUS
<1> HIDE DEF p
<1>3. \A q \in Plugins : delivered'[q] = IF q = p THEN token.generation ELSE delivered[q]
  BY <1>1, MailboxTypes
<1>4. /\ \A q \in Plugins \ {p} : spoiled'[q] = spoiled[q]
      /\ spoiled'[p] \in BOOLEAN
  BY <1>1 DEF MailboxInv, TypeOK
<1>5. \A e \in Entries : Full(e)' <=> Full(e)
  BY <1>1 DEF Full, Taking
<1>6. Waiting' = Waiting
  BY <1>1, <1>5, WaitingKept
<1>7. Taken' = Taken
  BY <1>1, <1>2, <1>3 DEF Taken, InCopy
<1>8. /\ Spoilt = [q \in Plugins |-> Spoilt[q]] /\ Spoilt' = [q \in Plugins |-> Spoilt'[q]]
      /\ ~Spoilt[p] /\ \A q \in Plugins \ {p} : Spoilt[q] = spoiled[q]
      /\ \A q \in Plugins : Spoilt'[q] = spoiled'[q]
      /\ \A q \in Plugins : Spoilt[q] \in BOOLEAN /\ Spoilt'[q] \in BOOLEAN
  <2>1. /\ InCopy(p) /\ \A q \in Plugins \ {p} : ~InCopy(q)
        /\ \A q \in Plugins : ~InCopy(q)'
    BY <1>1, <1>2 DEF InCopy
  <2>2. /\ spoiled \in [Plugins -> BOOLEAN]
        /\ \A q \in Plugins : Spoilt[q] = (~InCopy(q) /\ spoiled[q])
        /\ \A q \in Plugins : Spoilt'[q] = (~InCopy(q)' /\ spoiled'[q])
    BY DEF MailboxInv, TypeOK, Spoilt
  <2>3. \A q \in Plugins : spoiled'[q] \in BOOLEAN
    BY <1>4, <2>2
  <2>4. ~Spoilt[p] /\ \A q \in Plugins \ {p} : Spoilt[q] = spoiled[q]
    BY <1>1, <2>1, <2>2
  <2>5. \A q \in Plugins : Spoilt'[q] = spoiled'[q]
    BY <2>1, <2>2, <2>3
  <2>6. Spoilt = [q \in Plugins |-> Spoilt[q]] /\ Spoilt' = [q \in Plugins |-> Spoilt'[q]]
    BY DEF Spoilt
  <2>7. \A q \in Plugins : Spoilt[q] \in BOOLEAN /\ Spoilt'[q] \in BOOLEAN
    BY <2>2
  <2>8. QED BY <2>4, <2>5, <2>6, <2>7
<1>9. CASE ~spoiled'[p]
  <2>1. ASSUME NEW q \in Plugins
        PROVE  Spoilt'[q] = Spoilt[q]
    <3>1. CASE q = p
      BY <1>1, <1>8, <1>9, <3>1
    <3>2. CASE q # p
      BY <1>4, <1>8, <3>2
    <3>3. QED BY <3>1, <3>2
  <2>2. Spoilt' = Spoilt
    BY <1>8, <2>1
  <2>3. QED BY <1>6, <1>7, <2>2
<1>10. CASE spoiled'[p]
  <2>1. \A q \in Plugins : Spoilt'[q] = IF q = p THEN TRUE ELSE Spoilt[q]
    BY <1>4, <1>8, <1>10
  <2>2. Spoilt' = [Spoilt EXCEPT ![p] = TRUE]
    BY <1>8, <2>1
  <2>3. Taken[p] = token.generation
    BY <1>1, <1>2 DEF Taken, InCopy
  <2>4. Full(visited)
    BY <1>1, <1>10, HeldIsPending DEF Full
  <2>5. Waiting[p] = published[visited].generation
    BY <1>1, <1>2, <2>4, WaitingIs
  <2>6. token.generation < published[visited].generation /\ token.generation # 0
    <3>1. token.generation \in Nat /\ acknowledged[visited].generation \in Nat
      BY <1>1, EntryFacts, MailboxTypes
    <3>2. QED BY <1>1, <1>10, <3>1 DEF UpTo
  <2>7. QED BY <1>1, <1>2, <1>6, <1>7, <2>2, <2>3, <2>5, <2>6 DEF Box!Spoil
<1>11. QED BY <1>9, <1>10

\* A published image takes the place of the one that waited; it is newer than
\* that one and than the one taken last.
LEMMA PublishRefines ==
  ASSUME MailboxInv, PublishToken
  PROVE  Box!Publish(plugin, generation) /\ generation \in 1..MaxGeneration
<1> DEFINE new == [generation |-> generation, slot |-> writeSlot]
<1>1. /\ published' = [published EXCEPT ![entry] = new] /\ producer = "publish"
      /\ UNCHANGED <<logicalId, acknowledged, consumer, visited, token, delivered, spoiled>>
  BY DEF PublishToken, consumerVars
<1>2. /\ plugin \in Plugins /\ logicalId[entry] = plugin
      /\ \A e \in Entries : published[e].generation < generation
      /\ \A p \in Plugins : delivered[p] < generation
  BY <1>1 DEF MailboxInv, ProducerInv
<1>3. /\ \A e \in Entries : published'[e] = IF e = entry THEN new ELSE published[e]
      /\ new.generation = generation
  BY <1>1, MailboxTypes
<1> HIDE DEF new
<1>4. \A e \in Entries : acknowledged'[e] = acknowledged[e]
  BY <1>1
<1>5. generation \in 1..MaxGeneration /\ generation \in Nat
  BY <1>2, MailboxTypes, EntryFacts
<1>6. \A e \in Entries : e # entry => (Full(e)' <=> Full(e))
  BY <1>1, <1>3, <1>4 DEF Full, Taking
<1>7. ASSUME NEW e \in Entries, e = entry
      PROVE  Full(e)'
  <2>1. published'[e] = new /\ acknowledged[e].generation \in Nat
    BY <1>3, <1>7, EntryFacts
  <2>2. acknowledged[e].generation < generation
    BY <1>2, <1>5, <1>7, EntryFacts DEF UpTo
  <2>3. visited = e /\ consumer \in {"read", "acknowledge"} => token.generation < generation
    <3>1. SUFFICES ASSUME visited = e, consumer \in {"read", "acknowledge"}
                   PROVE  token.generation < generation
      OBVIOUS
    <3>2. UpTo(token, published[e]) /\ token.generation \in Nat
      BY <3>1, MailboxTypes DEF MailboxInv, VisitInv
    <3>3. QED BY <1>2, <1>5, <3>2, EntryFacts DEF UpTo
  <2>4. acknowledged'[e] # published'[e]
    BY <1>3, <1>4, <1>5, <2>1, <2>2
  <2>5. visited = e /\ consumer \in {"read", "acknowledge"} => published'[e] # token
    BY <1>3, <1>5, <2>1, <2>3
  <2>6. QED BY <1>1, <2>4, <2>5 DEF Full, Taking
<1>8. ASSUME NEW p \in Plugins
      PROVE  /\ p # plugin => Waiting'[p] = Waiting[p]
             /\ p = plugin => Waiting'[p] = generation
  <2> DEFINE before == {e \in Entries : logicalId[e] = p /\ Full(e)}
             after  == {e \in Entries : logicalId[e] = p /\ Full(e)'}
  <2>1. /\ Waiting[p] = IF before = {} THEN 0
                        ELSE published[CHOOSE e \in before : TRUE].generation
        /\ Waiting'[p] = IF after = {} THEN 0
                         ELSE published'[CHOOSE e \in after : TRUE].generation
    BY <1>1 DEF Waiting
  <2>2. CASE p # plugin
    <3>1. after = before /\ entry \notin after
      BY <1>2, <1>6, <2>2
    <3>2. \A e \in after : published'[e] = published[e]
      BY <1>3, <3>1
    <3> HIDE DEF before, after
    <3>3. QED BY <2>1, <2>2, <3>1, <3>2
  <2>3. CASE p = plugin
    <3>1. after = {entry}
      <4>1. \A e \in after : e = entry
        BY <1>2, <2>3, MailboxTypes DEF MailboxInv, EntriesInv
      <4>2. entry \in after
        BY <1>2, <1>7, <2>3, MailboxTypes
      <4>3. QED BY <4>1, <4>2
    <3>2. published'[entry].generation = generation
      BY <1>3, MailboxTypes
    <3> HIDE DEF after
    <3>3. QED BY <2>1, <2>3, <3>1, <3>2
  <2>4. QED BY <2>2, <2>3
<1>9. Waiting' = [Waiting EXCEPT ![plugin] = generation]
  <2>1. Waiting = [p \in Plugins |-> Waiting[p]] /\ Waiting' = [p \in Plugins |-> Waiting'[p]]
    BY DEF Waiting
  <2>2. QED BY <1>8, <2>1
<1>10. UNCHANGED <<Taken, Spoilt>>
  BY <1>1, TakenKept
<1>11. generation > Waiting[plugin]
  <2>1. Waiting[plugin] = IF Full(entry) THEN published[entry].generation ELSE 0
    BY <1>2, WaitingIs, MailboxTypes
  <2>2. entry \in Entries /\ published[entry].generation < generation
    BY <1>2, MailboxTypes
  <2>3. QED BY <1>5, <2>1, <2>2
<1>12. generation > Taken[plugin]
  <2>1. consumer = "read" => token.generation < generation
    <3>1. SUFFICES ASSUME consumer = "read"
                   PROVE  token.generation < generation
      OBVIOUS
    <3>2. UpTo(token, published[visited]) /\ token.generation \in Nat /\ visited \in Entries
      BY <3>1, MailboxTypes DEF MailboxInv, VisitInv
    <3>3. QED BY <1>2, <1>5, <3>2, EntryFacts DEF UpTo
  <2>2. Taken[plugin] = IF consumer = "read" /\ logicalId[visited] = plugin
                          THEN token.generation ELSE delivered[plugin]
    BY <1>2 DEF Taken, InCopy
  <2>3. QED BY <1>2, <2>1, <2>2
<1>13. QED BY <1>5, <1>9, <1>10, <1>11, <1>12 DEF Box!Publish

\* The confirmation of a token takes the image that waits.
LEMMA ConfirmRefines ==
  ASSUME MailboxInv, Confirm, published[visited] = token
  PROVE  logicalId[visited] \in Plugins /\ Box!Take(logicalId[visited])
<1> DEFINE p == logicalId[visited]
<1>1. /\ consumer = "confirm" /\ consumer' = "read" /\ UNCHANGED <<visited, token>>
      /\ UNCHANGED <<logicalId, published, acknowledged, delivered, spoiled>>
      /\ visited \in Entries
  BY MailboxTypes DEF Confirm, sharedVars, historyVars
<1>2. p \in Plugins /\ acknowledged[visited].generation < token.generation
  BY <1>1, MailboxTypes DEF MailboxInv, VisitInv
<1>3. \A e \in Entries : acknowledged'[e] = acknowledged[e]
  BY <1>1
<1>4. /\ \A e \in Entries \ {visited} : Full(e)' <=> Full(e)
      /\ Full(visited) /\ \A e \in Entries : e = visited => ~Full(e)'
  BY <1>1, <1>3, HeldIsPending DEF Full, Taking
<1>5. Waiting[p] = token.generation /\ token.generation # 0
  <2>1. token.generation \in Nat /\ acknowledged[visited].generation \in Nat
    BY <1>1, EntryFacts, MailboxTypes
  <2>2. QED BY <1>1, <1>2, <1>4, <2>1, WaitingIs
<1>6. ASSUME NEW q \in Plugins
      PROVE  /\ q # p => Waiting'[q] = Waiting[q]
             /\ q = p => Waiting'[q] = 0
  <2> DEFINE before == {e \in Entries : logicalId[e] = q /\ Full(e)}
             after  == {e \in Entries : logicalId[e] = q /\ Full(e)'}
  <2>1. /\ Waiting[q] = IF before = {} THEN 0
                        ELSE published[CHOOSE e \in before : TRUE].generation
        /\ Waiting'[q] = IF after = {} THEN 0
                         ELSE published[CHOOSE e \in after : TRUE].generation
    BY <1>1 DEF Waiting
  <2>2. CASE q # p
    <3>1. after = before
      BY <1>4, <2>2
    <3> HIDE DEF before, after
    <3>2. QED BY <2>1, <2>2, <3>1
  <2>3. CASE q = p
    <3>1. after = {}
      <4>1. \A e \in Entries : logicalId[e] = p => e = visited
        BY <1>1, <1>2, MailboxTypes DEF MailboxInv, EntriesInv
      <4>2. QED BY <1>4, <2>3, <4>1
    <3> HIDE DEF after
    <3>2. QED BY <2>1, <2>3, <3>1
  <2>4. QED BY <2>2, <2>3
<1>7. Waiting' = [Waiting EXCEPT ![p] = 0]
  <2>1. Waiting = [q \in Plugins |-> Waiting[q]] /\ Waiting' = [q \in Plugins |-> Waiting'[q]]
    BY DEF Waiting
  <2> HIDE DEF p
  <2>2. QED BY <1>6, <2>1
<1>8. Taken' = [Taken EXCEPT ![p] = token.generation]
  BY <1>1 DEF Taken, InCopy
<1>9. Spoilt' = [Spoilt EXCEPT ![p] = FALSE]
  BY <1>1 DEF Spoilt, InCopy
<1>10. QED BY <1>2, <1>5, <1>7, <1>8, <1>9 DEF Box!Take

\* A rebuild boundary empties every place.
LEMMA DiscardRefines ==
  ASSUME MailboxInv, DiscardPending
  PROVE  Box!DiscardAll
<1>1. /\ acknowledged' = published /\ UNCHANGED <<published, logicalId, consumer, delivered>>
      /\ consumer = "idle" /\ spoiled' = [p \in Plugins |-> FALSE]
  BY DEF DiscardPending
<1>2. \A p \in Plugins : {e \in Entries : logicalId'[e] = p /\ Full(e)'} = {}
  BY <1>1 DEF Full
<1>3. Waiting' = [p \in Plugins |-> 0]
  BY <1>2 DEF Waiting
<1>4. Taken' = Taken /\ Spoilt' = [p \in Plugins |-> FALSE]
  BY <1>1 DEF Taken, Spoilt, InCopy
<1>5. QED BY <1>3, <1>4 DEF Box!DiscardAll

\* Every step of the mailbox is a step of the box or changes nothing of it.
LEMMA MailboxNextRefines ==
  ASSUME MailboxInv, [Next]_vars
  PROVE  [Box!BoxNext]_(Box!boxVars)
<1>1. CASE UNCHANGED vars
  <2>1. UNCHANGED <<published, logicalId, acknowledged, consumer, visited, token, delivered,
                    spoiled>>
    BY <1>1 DEF vars
  <2>2. \A e \in Entries : Full(e)' <=> Full(e)
    BY <2>1 DEF Full, Taking
  <2>3. UNCHANGED <<Waiting, Taken, Spoilt>>
    BY <2>1, <2>2, WaitingKept, TakenKept
  <2>4. QED BY <2>3 DEF Box!boxVars
<1>2. CASE \E p \in Plugins : BeginPublish(p)
  BY <1>2, ClaimRefines DEF Box!boxVars
<1>3. CASE ProducerStep
  <2>1. CASE PublishToken
    <3>1. plugin \in Plugins
      BY <2>1 DEF PublishToken, MailboxInv, ProducerInv
    <3>2. QED BY <2>1, <3>1, PublishRefines DEF Box!BoxNext
  <2>2. CASE ScanReading \/ ScanConsumed \/ ChooseSlot \/ WriteCommand
    BY <2>2, QuietRefines, ClaimRefines DEF Box!boxVars
  <2>3. QED BY <1>3, <2>1, <2>2 DEF ProducerStep
<1>4. CASE BeginConsume
  BY <1>4, QuietRefines DEF Box!boxVars
<1>5. CASE ConsumerStep
  <2>1. CASE Confirm /\ published[visited] = token
    BY <2>1, ConfirmRefines DEF Box!BoxNext
  <2>2. CASE ReadCommand
    BY <2>2, CopyRefines DEF Box!BoxNext, Box!boxVars
  <2>3. CASE Acknowledge
    BY <2>3, AcknowledgeRefines DEF Box!boxVars
  <2>4. CASE \/ EndConsume \/ Visit \/ Announce \/ Release \/ DrainStore
             \/ Confirm /\ published[visited] # token
    BY <2>4, QuietRefines DEF Box!boxVars
  <2>5. QED BY <1>5, <2>1, <2>2, <2>3, <2>4 DEF ConsumerStep
<1>6. CASE DiscardPending
  BY <1>6, DiscardRefines DEF Box!BoxNext
<1>7. QED BY <1>1, <1>2, <1>3, <1>4, <1>5, <1>6 DEF Next

\* Nothing waits and nothing was taken at first.
LEMMA MailboxInitRefines ==
  ASSUME Init
  PROVE  Box!BoxInit
<1>1. Waiting = [p \in Plugins |-> 0]
  <2>1. \A p \in Plugins : {e \in Entries : logicalId[e] = p /\ Full(e)} = {}
    BY MailboxAssumption DEF Init
  <2>2. QED BY <2>1 DEF Waiting
<1>2. Taken = [p \in Plugins |-> 0] /\ Spoilt = [p \in Plugins |-> FALSE]
  BY DEF Init, Taken, Spoilt, InCopy
<1>3. QED BY <1>1, <1>2 DEF Box!BoxInit

\* ImplementsLatestValueBox: however late the consumer's stores are, a pass takes
\* for each plug-in the image published last, once, none disappears without being
\* taken, replaced by a newer one or discarded, and a copy that is spoiled finds
\* its successor waiting (command_queue.h: publish, consumePending).
THEOREM MailboxRefinement == Spec => ImplementsLatestValueBox
<1>1. Init => Box!BoxInit
  BY MailboxInitRefines
<1>2. MailboxInv /\ [Next]_vars => [Box!BoxNext]_(Box!boxVars)
  BY MailboxNextRefines
<1>3. QED BY <1>1, <1>2, MailboxInvariance, PTL DEF Spec, ImplementsLatestValueBox, Box!BoxSpec

------------------------------------------------------------------------------

\* In the box, what was spoilt has a successor that waits.
SpoiltHasSuccessor == \A p \in Plugins : Spoilt[p] => Waiting[p] # 0

\* A box step keeps it so.
LEMMA BoxKeepsSuccessor ==
  ASSUME SpoiltHasSuccessor, Box!BoxNext, MailboxInv
  PROVE  SpoiltHasSuccessor'
<1>1. /\ Waiting = [q \in Plugins |-> Waiting[q]] /\ Spoilt = [q \in Plugins |-> Spoilt[q]]
      /\ \A q \in Plugins : Waiting[q] \in Nat /\ Taken[q] \in Nat
  <2>1. \A q \in Plugins : Waiting[q] \in Nat
    <3> SUFFICES ASSUME NEW q \in Plugins
                 PROVE  Waiting[q] \in Nat
      OBVIOUS
    <3>1. CASE \A e \in Entries : logicalId[e] # q
      BY <3>1, HomelessWaits
    <3>2. CASE \E e \in Entries : logicalId[e] = q
      BY <3>2, WaitingIs, EntryFacts
    <3>3. QED BY <3>1, <3>2
  <2>2. \A q \in Plugins : Taken[q] \in Nat
    BY MailboxTypes DEF Taken
  <2>3. QED BY <2>1, <2>2 DEF Waiting, Spoilt
<1>2. CASE \E p \in Plugins : Box!Take(p)
  BY <1>1, <1>2 DEF SpoiltHasSuccessor, Box!Take
<1>3. CASE \E p \in Plugins : Box!Spoil(p)
  BY <1>1, <1>3 DEF SpoiltHasSuccessor, Box!Spoil
<1>4. CASE \E p \in Plugins, g \in 1..MaxGeneration : Box!Publish(p, g)
  BY <1>1, <1>4 DEF SpoiltHasSuccessor, Box!Publish
<1>5. CASE Box!DiscardAll
  BY <1>1, <1>5 DEF SpoiltHasSuccessor, Box!DiscardAll
<1>6. QED BY <1>2, <1>3, <1>4, <1>5 DEF Box!BoxNext

\* ImagesWholeOrFollowed: the slot publish() writes is the one the consumer copies
\* from only when the announcement was late; what was spoiled then, and the latest
\* image of a plug-in that was neither delivered nor discarded, have an image
\* pending in the plug-in's entry, whatever is recycled meanwhile
\* (command_queue.h: publish, consumePending, hasPending).
THEOREM MailboxIsWhole == Spec => []ImagesWholeOrFollowed
<1>1. MailboxInv => TornOnlyIfLate
  BY DEF MailboxInv, ProducerInv, TornOnlyIfLate, Overlap
<1>2. ASSUME MailboxInv, NEW p \in Plugins, NEW e \in Entries, logicalId[e] = p,
             acknowledged[e] # published[e]
      PROVE  HasPending(p)
  BY <1>2, ConsumedIsSettled DEF HasPending
<1>3. MailboxInv => NoLostImage
  <2> SUFFICES ASSUME MailboxInv, NEW p \in Plugins, latest[p] # settled[p]
               PROVE  HasPending(p)
    BY DEF NoLostImage
  <2>1. PICK e \in Entries : logicalId[e] = p
    BY DEF MailboxInv, HomelessInv
  <2>2. acknowledged[e] # published[e]
    BY <2>1, EntryFacts, MailboxTypes DEF EntryInv
  <2>3. QED BY <1>2, <2>1, <2>2
<1>4. MailboxInv /\ SpoiltHasSuccessor => SpoiledIsFollowed
  <2> SUFFICES ASSUME MailboxInv, SpoiltHasSuccessor, NEW p \in Plugins, spoiled[p]
               PROVE  HasPending(p)
    BY DEF SpoiledIsFollowed
  <2>1. CASE InCopy(p)
    BY <1>2, <2>1, HeldIsPending, MailboxTypes DEF InCopy
  <2>2. CASE ~InCopy(p)
    <3>1. Waiting[p] # 0
      BY <2>2 DEF SpoiltHasSuccessor, Spoilt
    <3>2. PICK e \in Entries : logicalId[e] = p
      BY <3>1, HomelessWaits
    <3>3. Full(e)
      BY <3>1, <3>2, WaitingIs
    <3>4. QED BY <1>2, <3>2, <3>3 DEF Full
  <2>3. QED BY <2>1, <2>2
<1>5. Init => SpoiltHasSuccessor
  BY DEF Init, SpoiltHasSuccessor, Spoilt
<1>6. MailboxInv /\ SpoiltHasSuccessor /\ [Next]_vars => SpoiltHasSuccessor'
  <2> SUFFICES ASSUME MailboxInv, SpoiltHasSuccessor, [Next]_vars
               PROVE  SpoiltHasSuccessor'
    OBVIOUS
  <2>1. CASE Box!BoxNext
    BY <2>1, BoxKeepsSuccessor
  <2>2. CASE UNCHANGED <<Waiting, Taken, Spoilt>>
    BY <2>2 DEF SpoiltHasSuccessor
  <2>3. QED BY <2>1, <2>2, MailboxNextRefines DEF Box!boxVars
<1>7. QED BY <1>1, <1>3, <1>4, <1>5, <1>6, MailboxInvariance, PTL DEF Spec, ImagesWholeOrFollowed
=============================================================================
