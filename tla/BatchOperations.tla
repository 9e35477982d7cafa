-------------------------- MODULE BatchOperations --------------------------
(***************************************************************************)
(* The batch script of the Factorio bundle, batch_operations.lua: a list   *)
(* of operations carried out one after the other on the character and the  *)
(* surface, the first failure ending the list when stop_on_error holds,    *)
(* and, in a transaction, a failure undoing in reverse order what          *)
(* rollback_data recorded.  The list is chosen as it is executed; the game *)
(* decides, where the script asks it, whether a call succeeds.  A call that*)
(* raises ends the script: none is made inside a pcall.                    *)
(***************************************************************************)
EXTENDS Integers, Sequences, FiniteSets, SequencesExt

CONSTANTS
    Names,      \* items, each also the name of the entity it places
    Places,     \* positions
    Fits,       \* the contents the inventory can hold
    MaxOps,     \* bound: operations of a batch
    MaxCount    \* bound: the count of one inventory operation

ASSUME FitsAssumption ==
    /\ Fits \subseteq [Names -> Nat]
    /\ \A inv \in Fits, n \in Names : \A c \in 0..inv[n] : [inv EXCEPT ![n] = c] \in Fits

ASSUME BoundsAssumption == MaxOps \in Nat /\ MaxCount \in Nat

VARIABLES
    phase,          \* where the script is
    stop_on_error, transaction,
    world,          \* position of the character, its inventory, the entities around
    results,        \* of each executed operation, whether it succeeded
    rollback_data,  \* how to undo the operations that recorded it
    before,         \* history: the world when the script was called
    past,           \* history: the world before each entry of rollback_data, and now
    spoilt,         \* history: a change was made that no entry undoes
    given           \* history: what inventory_add has put into the inventory

args == <<stop_on_error, transaction, before>>
batchVars == <<phase, args, world, results, rollback_data, past, spoilt, given>>

(* An entity is told from a later one of the same name and place by the    *)
(* operation that created it (0: it was there before).                     *)
Entities == [name : Names, place : Places, born : Nat]
Worlds   == [pos : Places, inv : Fits, ents : SUBSET Entities]

Entries ==
    [kind : {"teleport"}, position : Places]
        \cup [kind : {"remove_entity"}, entity : Entities]
        \cup [kind : {"inventory_add"}, name : Names, count : Nat]

Plus(inv, n, c) == [inv EXCEPT ![n] = @ + c]
Minus(inv, n, c) == [inv EXCEPT ![n] = @ - c]

(* LuaEntity.insert: of c items, k find room, as many as can.              *)
Inserts(inv, n, c, k) ==
    /\ Plus(inv, n, k) \in Fits
    /\ \A j \in (k + 1)..c : Plus(inv, n, j) \notin Fits

Failed == {i \in DOMAIN results : ~ results[i]}
RolledBack == transaction /\ Failed # {}

BatchInit ==
    /\ phase = "called"
    /\ stop_on_error \in BOOLEAN /\ transaction \in BOOLEAN
    /\ before \in {w \in [pos : Places, inv : Fits,
                          ents : SUBSET [name : Names, place : Places, born : {0}]] :
                       /\ IsFiniteSet(w.ents)
                       /\ \A d, e \in w.ents : d.place = e.place => d = e}
    /\ world = before
    /\ results = << >> /\ rollback_data = << >>
    /\ past = <<before>> /\ spoilt = FALSE /\ given = [n \in Names |-> 0]

Begin ==
    /\ phase = "called" /\ phase' = "executing"
    /\ UNCHANGED <<args, world, results, rollback_data, past, spoilt, given>>

(* No player or no character: nothing is executed.                         *)
Refuse ==
    /\ phase = "called" /\ phase' = "refused"
    /\ UNCHANGED <<args, world, results, rollback_data, past, spoilt, given>>

-----------------------------------------------------------------------------
(* One operation of the list.                                              *)

(* The end of the list, or of the loop that stops at a failure; a          *)
(* transaction with a failure goes on to its rollback.                     *)
PhaseAfter(success, last) ==
    IF success \/ ~ stop_on_error
    THEN IF last THEN "executed" ELSE "executing"
    ELSE "executed"

Executing(success, gave) ==
    /\ phase = "executing" /\ Len(results) < MaxOps
    /\ results' = Append(results, success)
    /\ given' = gave
    /\ \E last \in BOOLEAN : phase' = PhaseAfter(success, last)
    /\ UNCHANGED args

Succeeding == Executing(TRUE, given)

Unchanged == UNCHANGED <<world, rollback_data, past, spoilt>>

(* The entry goes to the front.                                            *)
RecordedOutOfOrder(entry, w) ==
    /\ world' = w
    /\ rollback_data' = <<entry>> \o rollback_data
    /\ past' = Append(past, w)
    /\ UNCHANGED spoilt

Recorded(entry, w) ==
    /\ world' = w
    /\ rollback_data' = Append(rollback_data, entry)
    /\ past' = Append(past, w)
    /\ UNCHANGED spoilt

Unrecorded(w) ==
    /\ world' = w
    /\ spoilt' = TRUE
    /\ UNCHANGED <<rollback_data, past>>

(* What the script tests: a missing argument, an unknown type of operation,*)
(* an empty stack, a refusal by the game.                                  *)
Fail == Executing(FALSE, given) /\ Unchanged

Inspect == Succeeding /\ Unchanged

(* Mutant: the position is taken after the teleport.                       *)
MoveForgotten(p) ==
    /\ Succeeding
    /\ Recorded([kind |-> "teleport", position |-> p], [world EXCEPT !.pos = p])

Move(p) ==
    /\ Succeeding
    /\ Recorded([kind |-> "teleport", position |-> world.pos], [world EXCEPT !.pos = p])

New(n, p) == [name |-> n, place |-> p, born |-> Len(results) + 1]

(* The item is not taken from the inventory.                               *)
PlaceFree(n, p) ==
    /\ world.inv[n] > 0
    /\ \A e \in world.ents : e.place # p
    /\ Succeeding
    /\ Recorded([kind |-> "remove_entity", entity |-> New(n, p)],
                [world EXCEPT !.ents = @ \cup {New(n, p)}])

(* The item leaves the inventory, the entity appears.  When the game does  *)
(* not create it after all the item is put back, which is Fail.            *)
Place(n, p) ==
    /\ world.inv[n] > 0
    /\ \A e \in world.ents : e.place # p
    /\ Succeeding
    /\ Recorded([kind |-> "remove_entity", entity |-> New(n, p)],
                [world EXCEPT !.inv = Minus(@, n, 1), !.ents = @ \cup {New(n, p)}])

(* mine_entity with force: what finds no room in the inventory is lost.    *)
Mine(e) ==
    /\ e \in world.ents
    /\ \E k \in 0..1 :
           /\ Inserts(world.inv, e.name, 1, k)
           /\ Succeeding
           /\ Unrecorded([world EXCEPT !.inv = Plus(@, e.name, k), !.ents = @ \ {e}])

InventoryAdd(n, c) ==
    \E k \in 1..c :
        /\ Inserts(world.inv, n, c, k)
        /\ Executing(TRUE, Plus(given, n, k))
        /\ Unrecorded([world EXCEPT !.inv = Plus(@, n, k)])

InventoryRemove(n, c) ==
    LET k == IF c <= world.inv[n] THEN c ELSE world.inv[n] IN
    /\ k > 0
    /\ Succeeding
    /\ Recorded([kind |-> "inventory_add", name |-> n, count |-> k],
                [world EXCEPT !.inv = Minus(@, n, k)])

-----------------------------------------------------------------------------
(* The rollback, from the last entry to the first, and the answer.         *)

(* What one entry restores when everything works.                          *)
Undone(entry, w) ==
    IF entry.kind = "teleport" THEN [w EXCEPT !.pos = entry.position]
    ELSE IF entry.kind = "remove_entity"
    THEN [w EXCEPT !.inv = Plus(@, entry.entity.name, 1), !.ents = @ \ {entry.entity}]
    ELSE [w EXCEPT !.inv = Plus(@, entry.name, entry.count)]

Entry == rollback_data[Len(rollback_data)]

Undoing(kind) ==
    /\ phase = "executed" /\ RolledBack
    /\ rollback_data # << >> /\ Entry.kind = kind
    /\ rollback_data' = Front(rollback_data)
    /\ past' = Front(past)
    /\ UNCHANGED <<phase, args, results, given>>

(* The answer of teleport is not looked at.                                *)
TeleportBack ==
    /\ Undoing("teleport")
    /\ \/ world' = Undone(Entry, world) /\ UNCHANGED spoilt
       \/ UNCHANGED world /\ spoilt' = TRUE

(* The item is handed back whether the entity is still there or not.       *)
RemoveEntityBlindly ==
    /\ Undoing("remove_entity")
    /\ \E k \in 0..1 :
           /\ Inserts(world.inv, Entry.entity.name, 1, k)
           /\ world' = [world EXCEPT !.inv = Plus(@, Entry.entity.name, k),
                                     !.ents = @ \ {Entry.entity}]
    /\ UNCHANGED spoilt

(* An entity that a later operation mined is no longer valid.  The answer  *)
(* of destroy is not looked at: it is taken to succeed.                    *)
RemoveEntity ==
    /\ Undoing("remove_entity")
    /\ \/ /\ Entry.entity \in world.ents
          /\ \E k \in 0..1 :
                 /\ Inserts(world.inv, Entry.entity.name, 1, k)
                 /\ world' = [world EXCEPT !.inv = Plus(@, Entry.entity.name, k),
                                           !.ents = @ \ {Entry.entity}]
       \/ Entry.entity \notin world.ents /\ UNCHANGED world
    /\ UNCHANGED spoilt

AddBack ==
    /\ Undoing("inventory_add")
    /\ \E k \in 0..Entry.count :
           /\ Inserts(world.inv, Entry.name, Entry.count, k)
           /\ world' = [world EXCEPT !.inv = Plus(@, Entry.name, k)]
    /\ UNCHANGED spoilt

(* What it does not test: arguments that are not JSON, a name the game does *)
(* not know, coordinates that are no numbers.  The call that raises has    *)
(* changed nothing, but those before it have; nothing is rolled back.      *)
CallRaises ==
    /\ phase \in {"called", "executing"} /\ Len(results) < MaxOps
    /\ phase' = "raised"
    /\ UNCHANGED <<args, world, results, rollback_data, past, spoilt, given>>

Answer ==
    /\ phase = "executed" /\ phase' = "answered"
    /\ RolledBack => rollback_data = << >>
    /\ UNCHANGED <<args, world, results, rollback_data, past, spoilt, given>>

(* The empty list, and the list that ends at the bound.                    *)
EndOfList ==
    /\ phase = "executing" /\ (results = << >> \/ Len(results) = MaxOps)
    /\ phase' = "executed"
    /\ UNCHANGED <<args, world, results, rollback_data, past, spoilt, given>>

Operation ==
    \/ Fail \/ Inspect
    \/ \E p \in Places : Move(p)
    \/ \E n \in Names, p \in Places : Place(n, p)
    \/ \E e \in world.ents : Mine(e)
    \/ \E n \in Names, c \in 1..MaxCount : InventoryAdd(n, c) \/ InventoryRemove(n, c)

BatchNext ==
    \/ Begin \/ Refuse \/ Operation \/ EndOfList \/ CallRaises
    \/ TeleportBack \/ RemoveEntity \/ AddBack \/ Answer

BatchSpec == BatchInit /\ [][BatchNext]_batchVars

-----------------------------------------------------------------------------
(* Properties.                                                             *)

(* The world stays one the game can hold: no inventory beyond its room,    *)
(* whatever rollback inserts; entries and results have their shapes.       *)
BatchTypeOK ==
    /\ phase \in {"called", "refused", "executing", "executed", "answered", "raised"}
    /\ stop_on_error \in BOOLEAN /\ transaction \in BOOLEAN
    /\ world \in Worlds /\ before \in Worlds
    /\ results \in Seq(BOOLEAN) /\ rollback_data \in Seq(Entries)
    /\ past \in Seq(Worlds) /\ spoilt \in BOOLEAN
    /\ given \in [Names -> Nat]

(* Items are not multiplied: for every name, what the inventory and the    *)
(* surface hold never exceeds what they held when the script was called    *)
(* and what inventory_add gave, however placing, mining and the rollback   *)
(* of both mix.  This is what the test of rb.entity.valid is for.          *)
Stock(w, n) == w.inv[n] + Cardinality({e \in w.ents : e.name = n})

NoDuplication == \A n \in Names : Stock(world, n) <= Stock(before, n) + given[n]

(* The invariant behind the rollback: as long as every change is recorded, *)
(* undoing the last entry leads to the world before it, and so on down to  *)
(* the world of the call.                                                  *)
Restorable ==
    ~ spoilt =>
        /\ Len(past) = Len(rollback_data) + 1
        /\ past[1] = before /\ past[Len(past)] = world
        /\ \A i \in DOMAIN rollback_data : Undone(rollback_data[i], past[i + 1]) = past[i]

(* Seen from outside the batch is one step, and a transaction that answers *)
(* with a failure leaves the world as it was unless an operation that      *)
(* records nothing to undo (remove, inventory_add) succeeded or a teleport *)
(* back failed.  Of a batch that a raising call has ended nothing is       *)
(* promised: it may stop half way, transaction or not.                     *)
Outcome ==
    IF phase = "refused" THEN "refused"
    ELSE IF phase = "raised" THEN "aborted"
    ELSE IF phase # "answered" THEN "none"
    ELSE IF ~ RolledBack THEN "kept"
    ELSE IF spoilt THEN "partly" ELSE "undone"

AsOne == INSTANCE Transaction WITH
    world <- IF phase \in {"answered", "raised"} THEN world ELSE before,
    outcome <- Outcome

ImplementsTransaction == AsOne!Spec
=============================================================================
