------------------------------ MODULE MCSession ------------------------------
(***************************************************************************)
(* The sessions TLC explores: values for the constants of Session.         *)
(***************************************************************************)
EXTENDS SessionProperties, WithoutDebug, TLC

CONSTANTS read, other, write, script,   \* templates
          calm, zoomy                   \* moods

Statement(kind, scoped) ==
  [kind |-> kind, scoped |-> scoped, ordered |-> TRUE, paged |-> FALSE, columns |-> 1]

\* A page of rows in no order, with two columns: every fault may apply to it.
Page == [kind |-> "SELECT", scoped |-> TRUE, ordered |-> FALSE, paged |-> TRUE,
         columns |-> 2]

\* Every fault "never" but those of `maybe`.
Only(maybe) == [f \in Faults |-> IF f \in maybe THEN "maybe" ELSE "never"]

Positional == {<<"execute", "positional">>}
AnyCall == Positional \cup
  {<<"execute", "mapping">>, <<"execute", "unsupported">>, <<"executemany", "positional">>}

\* Reads that may lose a row to the house.
Reads == [t \in Templates |-> Statement("SELECT", TRUE)]
Interchangeable == Permutations(Templates)

\* One template of each kind.
Statements ==
  [t \in Templates |-> CASE t = read   -> Page
                         [] t = other  -> Statement("SELECT", FALSE)
                         [] t = write  -> Statement("OTHER", TRUE)
                         [] t = script -> Statement("TRANSACTION", TRUE)]

\* GUARD_BOWL and IGNORE run like BARK, TANGLED_LEASH and CHEW like WRONG_COUNT.
Distinct == Faults \ {"GUARD_BOWL", "IGNORE", "TANGLED_LEASH", "CHEW"}

\* The other mood rules most of them out and makes one certain.
MoodyWeight ==
  [m \in Moods |-> IF m = calm THEN Only(Distinct)
                   ELSE [Only({"BARK", "NO_DROP"}) EXCEPT !["SHUFFLE"] = "always"]]

\* SLOTH and STASH alone.
DelayWeight == [m \in Moods |-> Only({"SLOTH", "STASH"})]
StashWeight == [m \in Moods |-> Only({"STASH"})]

=============================================================================
