------------------------------- MODULE Tables -------------------------------
(* Values that stand for what is not in a table of the database.           *)
CONSTANTS
    Null,   \* SQL NULL; as a row, an id that was never used
    Gone    \* the row was deleted

ASSUME TablesAssumption == Gone # Null
=============================================================================
