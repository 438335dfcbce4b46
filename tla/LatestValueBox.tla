---------------------------- MODULE LatestValueBox ----------------------------
(***************************************************************************)
(* What the parameter mailbox promises, whatever its slots and entries do: *)
(* for each plug-in it keeps at most one image, always the one published   *)
(* last; taking it delivers that image and empties the place; a rebuild    *)
(* boundary empties every place.  An image may be spoilt while it is being *)
(* taken, but only when the one that replaces it already waits.  An image  *)
(* is a generation number, 0 is the absence of one.                        *)
(***************************************************************************)
EXTENDS Naturals

CONSTANTS Plugins, Generations      \* Generations: positive numbers

VARIABLES waiting,      \* plug-in -> generation that waits, or 0
          taken,        \* plug-in -> generation taken last, or 0
          spoilt        \* plug-in -> what was taken last is not that image

boxVars == <<waiting, taken, spoilt>>

BoxInit == /\ waiting = [p \in Plugins |-> 0]
           /\ taken = [p \in Plugins |-> 0]
           /\ spoilt = [p \in Plugins |-> FALSE]

Publish(p, g) == /\ g > waiting[p] /\ g > taken[p]
                 /\ waiting' = [waiting EXCEPT ![p] = g]
                 /\ UNCHANGED <<taken, spoilt>>

Take(p) == /\ waiting[p] # 0
           /\ taken' = [taken EXCEPT ![p] = waiting[p]]
           /\ waiting' = [waiting EXCEPT ![p] = 0]
           /\ spoilt' = [spoilt EXCEPT ![p] = FALSE]

Spoil(p) == /\ taken[p] # 0 /\ waiting[p] > taken[p]
            /\ spoilt' = [spoilt EXCEPT ![p] = TRUE]
            /\ UNCHANGED <<waiting, taken>>

DiscardAll == /\ waiting' = [p \in Plugins |-> 0]
              /\ spoilt' = [p \in Plugins |-> FALSE]
              /\ UNCHANGED taken

BoxNext == \/ \E p \in Plugins : Take(p) \/ Spoil(p)
           \/ \E p \in Plugins, g \in Generations : Publish(p, g)
           \/ DiscardAll

BoxSpec == BoxInit /\ [][BoxNext]_boxVars
=============================================================================
