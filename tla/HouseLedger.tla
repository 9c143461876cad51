---------------------------- MODULE HouseLedger ----------------------------
(***************************************************************************)
(* The Dog House: the rows Dolly has taken away (core/house.py).           *)
(*                                                                         *)
(* treasure_id is derived from the decision key and the row index, so in   *)
(* one session it stands for the template, the occurrence and the row.     *)
(* `seq` is the sequence number the event id of the treasure is derived    *)
(* from; it also gives the insertion order of the dictionary _treasures.   *)
(***************************************************************************)
EXTENDS Vocabulary, Naturals, FiniteSets

CONSTANT HouseLimit     \* house_limit, the capacity of the ledger

ASSUME HouseLimitAssumption == HouseLimit \in Nat

VARIABLES treasures,    \* _treasures, the treasures in the house
          occupied,     \* the keys of _by_location
          released      \* _released_templates

houseVars == <<treasures, occupied, released>>

Treasure == [template: Templates, row: Nat, occurrence: Nat, seq: Nat]

TreasureId(t) == <<t.template, t.occurrence, t.row>>
Location(t) == <<t.template, t.row>>

HouseTypeOK ==
  /\ treasures \subseteq Treasure
  /\ occupied \subseteq (Templates \X Nat)
  /\ released \subseteq Templates

HouseInit ==
  /\ treasures = {}
  /\ occupied = {}
  /\ released = {}

\* The treasures that a treasure_id names: none or one.
Holding(id) == {t \in treasures : TreasureId(t) = id}

\* Mutant: no treasure of a template is ever found.
NoneActive(template) == {}

ActiveFor(template) == {t \in treasures : t.template = template}

HouseAccepts(t) ==
  /\ Holding(TreasureId(t)) = {}
  /\ Location(t) \notin occupied
  /\ Cardinality(treasures) < HouseLimit

HouseAdd(t) ==
  /\ HouseAccepts(t)
  /\ treasures' = treasures \cup {t}
  /\ occupied' = occupied \cup {Location(t)}

\* Mutant: the location of a returned treasure is not given back.
ReturnKeepingLocation(t) ==
  /\ treasures' = treasures \ {t}
  /\ released' = released \cup {t.template}
  /\ UNCHANGED occupied

\* Mutant: the template of a returned treasure is not marked as released.
ReturnWithoutRelease(t) ==
  /\ treasures' = treasures \ {t}
  /\ occupied' = occupied \ {Location(t)}
  /\ UNCHANGED released

HouseReturn(t) ==
  /\ treasures' = treasures \ {t}
  /\ occupied' = occupied \ {Location(t)}
  /\ released' = released \cup {t.template}

HouseReturnAll ==
  /\ treasures' = {}
  /\ occupied' = {}
  /\ released' = released \cup {t.template : t \in treasures}

\* consume_release: the next full delivery after a return uses the release up.
HouseConsumeRelease(template) == released' = released \ {template}

=============================================================================
